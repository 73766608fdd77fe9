------------------------- MODULE MCSceneCollection -------------------------
(* Two collections: two scenes in the first and one in the second.         *)
EXTENDS SceneCollection

CONSTANTS c1, c2, s1, s2, s3

MCCollections == {c1, c2}
MCScenes == {s1, s2, s3}
MCHome == [s \in MCScenes |-> IF s = s3 THEN c2 ELSE c1]
MCDefault == [c \in MCCollections |-> IF c = c1 THEN s1 ELSE s3]
MCEnvironments == {[threads |-> FALSE, missing |-> TRUE],
                   [threads |-> FALSE, missing |-> FALSE],
                   [threads |-> TRUE, missing |-> FALSE]}
=============================================================================
