---------------------------- MODULE MCOutputSetup ----------------------------
(* Both kinds of handler; the user switches between two configurations of   *)
(* one kind or of both.                                                     *)
EXTENDS OutputSetup

MCConfigs ==
  {c \in Config : /\ c.mode = "simple" => ~(c.useStream /\ c.ffmpeg) /\ c.track = "track1"
                  /\ c.ffmpeg => ~c.replay
                  /\ c.overwrite <=> c.ffmpeg}
MCEnvironments == Environment
=============================================================================
