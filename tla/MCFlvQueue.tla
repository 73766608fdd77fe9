----------------------------- MODULE MCFlvQueue -----------------------------
(* Small instances of FlvQueue: audio, keyframes, P-frames, b-frames that   *)
(* others refer to and disposable b-frames.                                 *)
EXTENDS FlvQueue

Audio == [video |-> FALSE, key |-> FALSE, prio |-> DISPOSABLE]
Frame(p) == [video |-> TRUE, key |-> p = HIGHEST, prio |-> p]

AllKinds == {Audio} \cup {Frame(p) : p \in Priority}
NoB == {Audio, Frame(HIGHEST), Frame(HIGH)}
NoReferenceB == {Audio, Frame(HIGHEST), Frame(HIGH), Frame(DISPOSABLE)}
=============================================================================
