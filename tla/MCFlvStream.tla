----------------------------- MODULE MCFlvStream -----------------------------
(* Small instances of FlvStream: surroundings that behave well, and ones     *)
(* that do their worst.                                                      *)
EXTENDS FlvStream

Failing == {[late |-> TRUE, headerFails |-> TRUE]}
BestAndWorst == Failing \cup {[late |-> FALSE, headerFails |-> FALSE]}
=============================================================================
