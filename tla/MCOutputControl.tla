--------------------------- MODULE MCOutputControl ---------------------------
(* Small instances of OutputControl: delays or not, with an FLV stream or a  *)
(* user whose input waits for the slots.                                     *)
EXTENDS OutputControl

AllEnvironments == {e \in Environment : e.flv \/ e.prompt}
DelayedFlv == {[delay |-> TRUE, flv |-> TRUE, prompt |-> TRUE]}
=============================================================================
