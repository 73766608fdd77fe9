---------------------------- MODULE FrameDisplay ----------------------------
(***************************************************************************)
(* What the image input promises to its viewer: the picture is one whole   *)
(* frame that the rendering server finished, and no frame is shown once a  *)
(* newer one was.  The picture may also be blank, after a new texture.     *)
(***************************************************************************)
EXTENDS Integers

CONSTANT Frames          \* the numbers of the frames, in the order of rendering

VARIABLES
  finished,              \* frames the server has sent in full
  latest,                \* the newest frame ever shown, 0 for none
  picture                \* the frame shown now, 0 for none

vars == <<finished, latest, picture>>

Init == finished = {} /\ latest = 0 /\ picture = 0

Finish ==
  /\ \E f \in Frames \ finished : finished' = finished \cup {f}
  /\ UNCHANGED <<latest, picture>>

Show ==
  /\ \E f \in finished : f > latest /\ latest' = f /\ picture' = f
  /\ UNCHANGED finished

Blank == picture' = 0 /\ UNCHANGED <<finished, latest>>

Spec == Init /\ [][Finish \/ Show \/ Blank]_vars
=============================================================================
