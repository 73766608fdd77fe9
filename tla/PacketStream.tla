---------------------------- MODULE PacketStream ----------------------------
(***************************************************************************)
(* What the FLV output promises to its receiver: it passes on the packets  *)
(* of the encoders in their order, each once; what it leaves out is        *)
(* neither audio nor a keyframe, and no frame reaches the receiver that    *)
(* may refer to one that did not.  Once the stream is closed nothing comes *)
(* any more.                                                               *)
(***************************************************************************)
EXTENDS Integers, Sequences

CONSTANT Kinds      \* what an encoder may produce, as in FlvQueue

VARIABLES
  given,            \* the packets the encoders have given, in their order
  out,              \* the numbers of those the receiver was sent
  open              \* the stream has not ended

vars == <<given, out, open>>

Init == given = <<>> /\ out = {} /\ open = TRUE

(* The packets before packet i that the receiver was not sent.             *)
Missing(i) == (1 .. (i - 1)) \ out

(* A frame of a higher priority does not refer to the frame j, and what    *)
(* follows it may refer to it instead.                                     *)
Bridged(j) == \E k \in out : j < k /\ given[k].video /\ given[k].prio > given[j].prio

Playable(i) ==
  \A j \in Missing(i) :
    /\ given[j].video /\ ~given[j].key
    /\ given[i].video => given[i].prio > given[j].prio \/ Bridged(j)

Give ==
  /\ \E k \in Kinds : given' = Append(given, k)
  /\ UNCHANGED <<out, open>>

Send ==
  /\ open
  /\ \E i \in DOMAIN given :
       /\ \A j \in out : j < i
       /\ Playable(i)
       /\ out' = out \cup {i}
  /\ UNCHANGED <<given, open>>

Close == open' = FALSE /\ UNCHANGED <<given, out>>

Spec == Init /\ [][Give \/ Send \/ Close]_vars
=============================================================================
