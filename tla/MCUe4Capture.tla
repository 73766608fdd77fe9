---------------------------- MODULE MCUe4Capture ----------------------------
(* Frames of alternating sizes; a calm environment, and one with a queue    *)
(* that overflows, failing textures and updates in the middle of a tick.    *)
EXTENDS Ue4Capture

AlternatingSizes == [f \in 1..MaxFrames |-> 1 + (f % 2)]
CalmAndFaulty == {[queueMax |-> 100, mapFails |-> FALSE, lateUpdate |-> FALSE],
                  [queueMax |-> 4, mapFails |-> TRUE, lateUpdate |-> TRUE]}
=============================================================================
