------------------------------ MODULE ObsOutput ------------------------------
(***************************************************************************)
(* What an output owes libobs: sessions in turn.  A session that is        *)
(* started connects, captures, is asked to stop and ends, or ends without  *)
(* having captured; a session that captures does not end unasked.  libobs  *)
(* is told of the end of each session once, and nothing of it comes after. *)
(***************************************************************************)
EXTENDS Integers

CONSTANT Sessions    \* the numbers of the sessions

VARIABLES
  session,           \* the present session, 0 for none yet
  stage,             \* where it is
  told               \* how often libobs was told of the end of each

vars == <<session, stage, told>>

Init ==
  /\ session = 0
  /\ stage = "off"
  /\ told = [s \in Sessions |-> 0]

Start ==
  /\ stage = "off" /\ stage' = "connecting"
  /\ session + 1 \in Sessions
  /\ session' = session + 1
  /\ UNCHANGED told

BeginCapture ==
  /\ stage = "connecting" /\ stage' = "capturing"
  /\ UNCHANGED <<session, told>>

AskToStop ==
  /\ stage = "capturing" /\ stage' = "stopping"
  /\ UNCHANGED <<session, told>>

TellStopped ==
  /\ stage \in {"connecting", "stopping"} /\ stage' = "off"
  /\ told' = [told EXCEPT ![session] = @ + 1]
  /\ UNCHANGED session

Spec == Init /\ [][Start \/ BeginCapture \/ AskToStop \/ TellStopped]_vars
=============================================================================
