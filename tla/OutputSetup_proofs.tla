------------------------- MODULE OutputSetup_proofs -------------------------
(* Proofs about OutputSetup, for any configurations, in any order of starts, *)
(* stops, failures and changes, of any number.                               *)
EXTENDS OutputSetup, FiniteSetTheorems, WellFoundedInduction, TLAPS

USE OutputSetupAssumption

-----------------------------------------------------------------------------
(* What the set-up of a handler is, start after start.                       *)

Now == [config : Configs, version : Nat, video : Nat]
Value == [version : Nat, service : BOOLEAN]
AudioEncoders == Tracks \cup {"recAudio", "alt"}

Simple == handler.mode = "simple"
Busy == \E o \in Outputs : lib[o] # "off"
Recording == lib["file"] # "off" \/ lib["replay"] # "off"

(* The encoders a recording of the handler uses.                             *)
RecordingEncoders ==
  IF Simple THEN LoadRecordingPreset
  ELSE {IF handler.useStream THEN "streamVideo" ELSE "recVideo"} \cup Tracks

DataTypes ==
  /\ env \in Environments
  /\ now \in Now
  /\ handler \in Configs
  /\ set \in SetUp
  /\ outputType \in {"none", "aac", "other"}
  /\ lib \in [Outputs -> {"off", "connecting", "on"}]
  /\ lib["file"] # "connecting" /\ lib["replay"] # "connecting"
  /\ files \in SUBSET Nat /\ IsFiniteSet(files) /\ path \in Nat
  /\ steps \in 0..MaxSteps

(* An encoder has its input from the video or the audio there is now.        *)
Fresh(s, e) == s.media[e] = IF e \in VideoEncoders THEN now.video ELSE 1

(* The outputs share encoders as the handler's configuration says, and the   *)
(* recordings have theirs or none yet.                                       *)
Sharing(s) ==
  /\ \/ s.uses["stream"] = {}
     \/ \E a \in Tracks \cup {"alt"} : s.uses["stream"] = {"streamVideo", a}
  /\ \A o \in {"file", "replay"} :
       \/ s.uses[o] = {}
       \/ ~handler.ffmpeg /\ s.uses[o] = RecordingEncoders

(* The recordings have their encoders.                                       *)
Shared(s) == ~handler.ffmpeg => \A o \in Recordings : s.uses[o] = RecordingEncoders

(* The encoder for another codec was set up when the stream took it; from    *)
(* then on SimpleOutput updates it in place of that of AAC.                  *)
AudioKept(s) ==
  /\ s.streamAudio \in Tracks \cup {"alt"}
  /\ Simple => s.streamAudio \in {"track1", "alt"}
  /\ s.streamAudio = "alt" =>
       /\ Fresh(s, "alt")
       /\ env.locked => s.settings["alt"].version = now.version
       /\ Simple => Fresh(s, "track1")
       /\ Simple /\ env.locked => s.settings["track1"].version = now.version

(* AdvancedOutput's video encoders and SimpleOutput's ffmpeg have settings   *)
(* from the start.                                                           *)
MadeWith(s) ==
  /\ ~Simple => s.settings["streamVideo"].version = now.version
  /\ ~Simple /\ ~handler.useStream /\ ~handler.ffmpeg =>
       s.settings["recVideo"] = Own(now)
  /\ Simple /\ env.locked => s.fileVersion = now.version

(* What a start from rest sets up, and no start spoils while an output is    *)
(* busy.                                                                     *)
SimpleReady(s) ==
  /\ s.settings["streamVideo"] = Serviced(now)
  /\ Fresh(s, "streamVideo") /\ Fresh(s, "track1")
  /\ handler.ffmpeg => s.fileMedia = now.video
  /\ ~handler.ffmpeg /\ ~handler.useStream => Fresh(s, "recVideo") /\ Fresh(s, "recAudio")
  /\ env.locked => s.settings["track1"].version = now.version

AdvReady(s) ==
  /\ \A e \in VideoEncoders \cup Tracks : Fresh(s, e)
  /\ \A t \in Tracks :
       s.settings[t] = IF t = now.config.track THEN Serviced(now) ELSE Own(now)
  /\ handler.useStream /\ ~handler.ffmpeg => s.settings["streamVideo"] = Serviced(now)
  /\ handler.ffmpeg => s.fileMedia = now.video
  /\ handler.ffmpeg /\ env.locked => s.fileVersion = now.version
  /\ Shared(s)

Prepared(s) == IF Simple THEN SimpleReady(s) ELSE AdvReady(s)

(* While the configuration is locked, the handler was made for the present   *)
(* one, and a stream output of the codec it names stays as it was made.      *)
Typed(s, type) ==
  /\ type = "none" => s.streamAudio = "track1"
  /\ env.locked =>
       /\ handler = now.config
       /\ type # "none" =>
            /\ type = now.config.codec
            /\ s.streamType = type
            /\ s.streamAudio = "alt" <=> type = "other"
            /\ ~Simple /\ type = "aac" => s.streamAudio = now.config.track

Kept(s) == Sharing(s) /\ AudioKept(s) /\ MadeWith(s)

SetUpInv ==
  /\ DataTypes
  /\ Kept(set)
  /\ Typed(set, outputType)
  /\ Busy => Prepared(set)
  /\ Recording => Shared(set)
  /\ lib["replay"] # "off" => "replay" \in Recordings

-----------------------------------------------------------------------------
(* What the calls to libobs change in a set-up.                              *)

(* The settings of an encoder.                                               *)
LEMMA SettingsFields ==
  ASSUME NEW s \in SetUp, NEW es, NEW v \in Value
  PROVE  LET t == Settings(s, es, v)
         IN  /\ t \in SetUp
             /\ \A e \in Encoders : t.settings[e] = IF e \in es THEN v ELSE s.settings[e]
             /\ t.media = s.media /\ t.uses = s.uses
             /\ t.fileMedia = s.fileMedia /\ t.fileVersion = s.fileVersion
             /\ t.streamAudio = s.streamAudio /\ t.streamType = s.streamType
<1> DEFINE f == [e \in Encoders |-> IF e \in es THEN v ELSE s.settings[e]]
           t == Settings(s, es, v)
<1>1. t = [s EXCEPT !.settings = f]
  BY DEF Settings
<1>2. f \in [Encoders -> Value] /\ \A e \in Encoders : f[e] = IF e \in es THEN v ELSE s.settings[e]
  BY DEF SetUp, Value
<1> HIDE DEF f, t
<1>3. t \in SetUp /\ t.settings = f
  BY <1>1, <1>2 DEF SetUp, Value
<1>4. /\ t.media = s.media /\ t.uses = s.uses
      /\ t.fileMedia = s.fileMedia /\ t.fileVersion = s.fileVersion
      /\ t.streamAudio = s.streamAudio /\ t.streamType = s.streamType
  BY <1>1 DEF SetUp
<1> QED BY <1>2, <1>3, <1>4 DEF t

(* What an encoder takes its input from, unless it runs.                     *)
LEMMA MediaFields ==
  ASSUME NEW n \in Now, NEW s \in SetUp, NEW es
  PROVE  LET t == Media(n, s, es)
         IN  /\ t \in SetUp
             /\ \A e \in Encoders :
                  t.media[e] = IF e \notin es \ Running THEN s.media[e]
                               ELSE IF e \in VideoEncoders THEN n.video ELSE 1
             /\ t.settings = s.settings /\ t.uses = s.uses
             /\ t.fileMedia = s.fileMedia /\ t.fileVersion = s.fileVersion
             /\ t.streamAudio = s.streamAudio /\ t.streamType = s.streamType
<1> DEFINE f == [e \in Encoders |-> IF e \notin es \ Running THEN s.media[e]
                                    ELSE IF e \in VideoEncoders THEN n.video ELSE 1]
           t == Media(n, s, es)
<1>1. t = [s EXCEPT !.media = f]
  BY DEF Media
<1>2. f \in [Encoders -> Nat] /\ \A e \in Encoders :
        f[e] = IF e \notin es \ Running THEN s.media[e]
               ELSE IF e \in VideoEncoders THEN n.video ELSE 1
  BY DEF SetUp, Now
<1> HIDE DEF f, t
<1>3. t \in SetUp /\ t.media = f
  BY <1>1, <1>2 DEF SetUp
<1>4. /\ t.settings = s.settings /\ t.uses = s.uses
      /\ t.fileMedia = s.fileMedia /\ t.fileVersion = s.fileVersion
      /\ t.streamAudio = s.streamAudio /\ t.streamType = s.streamType
  BY <1>1 DEF SetUp
<1> QED BY <1>2, <1>3, <1>4 DEF t

(* The encoders of outputs.                                                  *)
LEMMA UsesFields ==
  ASSUME NEW s \in SetUp, NEW os, NEW es \in SUBSET Encoders
  PROVE  LET t == Uses(s, os, es)
         IN  /\ t \in SetUp
             /\ \A o \in Outputs : t.uses[o] = IF o \in os THEN es ELSE s.uses[o]
             /\ t.settings = s.settings /\ t.media = s.media
             /\ t.fileMedia = s.fileMedia /\ t.fileVersion = s.fileVersion
             /\ t.streamAudio = s.streamAudio /\ t.streamType = s.streamType
<1> DEFINE f == [o \in Outputs |-> IF o \in os THEN es ELSE s.uses[o]]
           t == Uses(s, os, es)
<1>1. t = [s EXCEPT !.uses = f]
  BY DEF Uses
<1>2. f \in [Outputs -> SUBSET Encoders] /\ \A o \in Outputs :
        f[o] = IF o \in os THEN es ELSE s.uses[o]
  BY DEF SetUp
<1> HIDE DEF f, t
<1>3. t \in SetUp /\ t.uses = f
  BY <1>1, <1>2 DEF SetUp
<1>4. /\ t.settings = s.settings /\ t.media = s.media
      /\ t.fileMedia = s.fileMedia /\ t.fileVersion = s.fileVersion
      /\ t.streamAudio = s.streamAudio /\ t.streamType = s.streamType
  BY <1>1 DEF SetUp
<1> QED BY <1>2, <1>3, <1>4 DEF t

(* The fields of a set-up.                                                   *)
LEMMA SetUpFields ==
  ASSUME NEW s \in SetUp
  PROVE  /\ \A e \in Encoders : s.settings[e] \in Value /\ s.media[e] \in Nat
         /\ \A o \in Outputs : s.uses[o] \in SUBSET Encoders
         /\ s.fileMedia \in Nat /\ s.fileVersion \in Nat
         /\ s.streamAudio \in Encoders /\ s.streamType \in {"none", "aac", "other"}
BY DEF SetUp, Value

-----------------------------------------------------------------------------
(* The encoders of SimpleOutput.                                             *)

(* What stays when no output's encoders, type or ffmpeg are touched.         *)
SameOutputs(s, t) ==
  /\ t.uses = s.uses
  /\ t.streamAudio = s.streamAudio /\ t.streamType = s.streamType

(* The encoders that run are left as they are.                               *)
RunningKept(s, t) ==
  \A e \in Running : t.media[e] = s.media[e] /\ t.settings[e] = s.settings[e]

(* The settings of the present configuration are settings.                   *)
LEMMA Values ==
  ASSUME NEW n \in Now
  PROVE  /\ Own(n) \in Value /\ Serviced(n) \in Value
         /\ Own(n).version = n.version /\ Serviced(n).version = n.version
         /\ Serviced(n).service
BY DEF Own, Serviced, Value, Now

(* Nothing runs while no output is active.                                   *)
LEMMA NothingRuns == ~Active => Running = {}
BY DEF Active, Running

(* The encoders by name.                                                     *)
LEMMA Names ==
  /\ Encoders = {"streamVideo", "recVideo", "track1", "track2", "recAudio", "alt"}
  /\ VideoEncoders = {"streamVideo", "recVideo"} /\ Tracks = {"track1", "track2"}
  /\ Outputs = {"stream", "file", "replay"}
BY DEF Encoders, VideoEncoders, Tracks, Outputs

(* Update: the encoders of the stream.                                       *)
LEMMA SimpleUpdateFields ==
  ASSUME NEW n \in Now, NEW s \in SetUp
  PROVE  LET t == Simple_Update(n, s)
         IN  /\ t \in SetUp
             /\ \A e \in Encoders :
                  t.settings[e] = IF e \in {"streamVideo", s.streamAudio} THEN Serviced(n)
                                  ELSE s.settings[e]
             /\ t.media = s.media /\ SameOutputs(s, t)
             /\ t.fileMedia = s.fileMedia /\ t.fileVersion = s.fileVersion
BY Values, SettingsFields DEF Simple_Update, SameOutputs

(* SetupOutputs, while no output is active.                                  *)
LEMMA SimpleSetupFields ==
  ASSUME NEW n \in Now, NEW s \in SetUp, ~Active,
         s.streamAudio \in {"track1", "alt"}
  PROVE  LET t == Simple_SetupOutputs(n, s)
         IN  /\ t \in SetUp
             /\ \A e \in Encoders :
                  t.settings[e] = IF e \in {"streamVideo", s.streamAudio} THEN Serviced(n)
                                  ELSE s.settings[e]
             /\ t.media["streamVideo"] = n.video /\ t.media[s.streamAudio] = 1
             /\ \A e \in Tracks \cup {"alt"} : t.media[e] = s.media[e] \/ t.media[e] = 1
             /\ handler.ffmpeg => t.fileMedia = n.video
             /\ ~handler.ffmpeg /\ ~handler.useStream =>
                  t.media["recVideo"] = n.video /\ t.media["recAudio"] = 1
             /\ SameOutputs(s, t) /\ t.fileVersion = s.fileVersion
<1> DEFINE u == Simple_Update(n, s)
           v == Media(n, u, {"streamVideo", s.streamAudio})
           w == Media(n, v, {"recVideo", "recAudio"})
           t == Simple_SetupOutputs(n, s)
<1>1. Running = {}
  BY NothingRuns
<1>2. /\ u \in SetUp
      /\ \A e \in Encoders :
           u.settings[e] = IF e \in {"streamVideo", s.streamAudio} THEN Serviced(n)
                           ELSE s.settings[e]
      /\ u.media = s.media /\ SameOutputs(s, u) /\ u.fileVersion = s.fileVersion
  BY SimpleUpdateFields
<1> HIDE DEF u
<1>3. /\ v \in SetUp /\ v.settings = u.settings /\ SameOutputs(u, v)
      /\ v.fileVersion = u.fileVersion
      /\ \A e \in Encoders : v.media[e] = IF e \notin {"streamVideo", s.streamAudio} THEN u.media[e]
                                          ELSE IF e \in VideoEncoders THEN n.video ELSE 1
  BY <1>1, <1>2, MediaFields DEF SameOutputs
<1> HIDE DEF v
<1>4. /\ w \in SetUp /\ w.settings = v.settings /\ SameOutputs(v, w)
      /\ w.fileVersion = v.fileVersion
      /\ \A e \in Encoders : w.media[e] = IF e \notin {"recVideo", "recAudio"} THEN v.media[e]
                                          ELSE IF e \in VideoEncoders THEN n.video ELSE 1
  BY <1>1, <1>3, MediaFields DEF SameOutputs
<1> HIDE DEF w
<1>5. t = IF handler.ffmpeg THEN [v EXCEPT !.fileMedia = n.video]
          ELSE IF handler.useStream THEN v ELSE w
  BY <1>2 DEF Simple_SetupOutputs, SameOutputs, u, v, w
<1> HIDE DEF t
<1>6. CASE handler.ffmpeg
  <2>1. t = [v EXCEPT !.fileMedia = n.video]
    BY <1>5, <1>6
  <2>2. t \in SetUp /\ t.settings = v.settings /\ t.media = v.media /\ SameOutputs(v, t)
        /\ t.fileVersion = v.fileVersion /\ t.fileMedia = n.video
    BY <1>3, <2>1 DEF SetUp, Now, SameOutputs
  <2> QED BY <1>2, <1>3, <1>6, <2>2, Names DEF SameOutputs, t
<1>7. CASE ~handler.ffmpeg /\ handler.useStream
  <2>1. t = v
    BY <1>5, <1>7
  <2> QED BY <1>2, <1>3, <1>7, <2>1, Names DEF SameOutputs, t
<1>8. CASE ~handler.ffmpeg /\ ~handler.useStream
  <2>1. t = w
    BY <1>5, <1>8
  <2> QED BY <1>2, <1>3, <1>4, <1>8, <2>1, Names DEF SameOutputs, t
<1> QED BY <1>6, <1>7, <1>8

(* A set-up from rest makes everything ready.                                *)
LEMMA SimpleSetup ==
  ASSUME DataTypes, Simple, ~Active, NEW s \in SetUp, AudioKept(s)
  PROVE  LET t == Simple_SetupOutputs(now, s)
         IN  /\ t \in SetUp /\ SimpleReady(t) /\ AudioKept(t)
             /\ SameOutputs(s, t) /\ t.fileVersion = s.fileVersion
             /\ t.settings["recVideo"] = s.settings["recVideo"]
<1> DEFINE t == Simple_SetupOutputs(now, s)
<1>1. now \in Now /\ s.streamAudio \in {"track1", "alt"}
  BY DEF DataTypes, AudioKept
<1>2. /\ t \in SetUp
      /\ \A e \in Encoders :
           t.settings[e] = IF e \in {"streamVideo", s.streamAudio} THEN Serviced(now)
                           ELSE s.settings[e]
      /\ t.media["streamVideo"] = now.video /\ t.media[s.streamAudio] = 1
      /\ \A e \in Tracks \cup {"alt"} : t.media[e] = s.media[e] \/ t.media[e] = 1
      /\ handler.ffmpeg => t.fileMedia = now.video
      /\ ~handler.ffmpeg /\ ~handler.useStream =>
           t.media["recVideo"] = now.video /\ t.media["recAudio"] = 1
      /\ SameOutputs(s, t) /\ t.fileVersion = s.fileVersion
  BY <1>1, SimpleSetupFields
<1> HIDE DEF t
<1>3. t.settings["streamVideo"] = Serviced(now) /\ t.settings["recVideo"] = s.settings["recVideo"]
  BY <1>1, <1>2, Names
<1>4. Fresh(t, "track1")
  BY <1>1, <1>2, Names DEF AudioKept, Fresh
<1>5. env.locked => t.settings["track1"].version = now.version
  BY <1>1, <1>2, Names, Values DEF AudioKept
<1>6. SimpleReady(t)
  BY <1>2, <1>3, <1>4, <1>5, Names DEF SimpleReady, Fresh
<1>7. AudioKept(t)
  <2>1. t.streamAudio = "alt" => Fresh(t, "alt")
    BY <1>1, <1>2, Names DEF AudioKept, Fresh, SameOutputs
  <2>2. t.streamAudio = "alt" /\ env.locked => t.settings["alt"].version = now.version
    BY <1>1, <1>2, Names, Values DEF AudioKept, SameOutputs
  <2> QED BY <1>1, <1>2, <1>4, <1>5, <2>1, <2>2 DEF AudioKept, SameOutputs
<1> QED BY <1>2, <1>3, <1>6, <1>7 DEF t

(* StartStreaming leaves an active set-up alone, which is ready.             *)
LEMMA SimplePrepared ==
  ASSUME SetUpInv, Simple
  PROVE  LET s == Simple_Prepare(now, set)
         IN  /\ s \in SetUp /\ Kept(s) /\ SimpleReady(s)
             /\ SameOutputs(set, s) /\ RunningKept(set, s)
<1>1. set \in SetUp /\ AudioKept(set) /\ MadeWith(set) /\ Sharing(set)
  BY DEF SetUpInv, DataTypes, Kept
<1>2. CASE Active
  <2>1. Simple_Prepare(now, set) = set
    BY <1>2 DEF Simple_Prepare
  <2>2. Busy
    BY <1>2 DEF Active, Busy
  <2> QED BY <1>1, <2>1, <2>2 DEF SetUpInv, Kept, Prepared, SameOutputs, RunningKept
<1>3. CASE ~Active
  <2> DEFINE s == Simple_SetupOutputs(now, set)
  <2>1. Simple_Prepare(now, set) = s
    BY <1>3 DEF Simple_Prepare
  <2>2. /\ s \in SetUp /\ SimpleReady(s) /\ AudioKept(s)
        /\ SameOutputs(set, s) /\ s.fileVersion = set.fileVersion
    BY <1>1, <1>3, SimpleSetup DEF SetUpInv
  <2> HIDE DEF s
  <2>3. MadeWith(s) /\ Sharing(s)
    BY <1>1, <2>2 DEF MadeWith, Sharing, SameOutputs
  <2> QED BY <1>3, <2>1, <2>2, <2>3, NothingRuns DEF Kept, RunningKept
<1> QED BY <1>2, <1>3

(* The encoders of recordings.                                               *)
LEMMA RecordingNames ==
  /\ RecordingEncoders \in SUBSET Encoders
  /\ Simple => RecordingEncoders = IF handler.useStream THEN {"streamVideo", "track1"}
                                   ELSE {"recVideo", "recAudio"}
  /\ Recordings \subseteq {"file", "replay"} /\ "file" \in Recordings
BY Names DEF RecordingEncoders, LoadRecordingPreset, Recordings

(* What a start of a recording may count on, and what it leaves alone.       *)
RecordingReady(t) ==
  /\ t \in SetUp /\ Kept(t) /\ Prepared(t) /\ Shared(t)
  /\ t.uses["stream"] = set.uses["stream"]
  /\ t.streamAudio = set.streamAudio /\ t.streamType = set.streamType
  /\ RunningKept(set, t)
  /\ \A o \in Outputs : lib[o] = "on" => t.uses[o] = set.uses[o]
  /\ ~handler.ffmpeg /\ ~handler.useStream =>
       t.settings["recVideo"].version = now.version \/ "recVideo" \in Running

(* UpdateRecording of SimpleOutput.                                          *)
LEMMA SimpleRecording ==
  ASSUME SetUpInv, Simple
  PROVE  RecordingReady(Simple_UpdateRecording(now, set))
<1>1. /\ set \in SetUp /\ AudioKept(set) /\ MadeWith(set) /\ Sharing(set)
      /\ now \in Now /\ handler \in Configs
      /\ \A o \in Outputs : lib[o] \in {"off", "connecting", "on"}
      /\ lib["file"] # "connecting" /\ lib["replay"] # "connecting"
  BY DEF SetUpInv, DataTypes, Kept
<1>2. CASE "on" \in {lib["replay"], lib["file"]}
  <2>1. Simple_UpdateRecording(now, set) = set
    BY <1>2 DEF Simple_UpdateRecording
  <2>2. Busy /\ Recording
    BY <1>2, Names DEF Busy, Recording
  <2>3. Shared(set) /\ Prepared(set)
    BY <2>2 DEF SetUpInv
  <2>4. ASSUME ~handler.ffmpeg, ~handler.useStream PROVE "recVideo" \in Running
    <3>1. PICK o \in Recordings : lib[o] = "on"
      BY <1>2, RecordingNames DEF SetUpInv
    <3>2. "recVideo" \in set.uses[o]
      BY <2>3, <2>4, <3>1, RecordingNames DEF Shared
    <3> QED BY <3>1, <3>2, RecordingNames, Names DEF Running
  <2> QED BY <1>1, <2>1, <2>3, <2>4 DEF RecordingReady, Kept, RunningKept
<1>3. CASE ~("on" \in {lib["replay"], lib["file"]})
  <2> DEFINE u == IF handler.ffmpeg THEN set
                  ELSE IF ~handler.useStream THEN Simple_UpdateRecordingSettings(now, set)
                  ELSE IF lib["stream"] # "on" THEN Simple_Update(now, set) ELSE set
             v == IF Active THEN u ELSE Simple_SetupOutputs(now, u)
             t == IF handler.ffmpeg THEN v ELSE Uses(v, Recordings, LoadRecordingPreset)
  <2>1. Simple_UpdateRecording(now, set) = t
    BY <1>3 DEF Simple_UpdateRecording, Simple_UpdateIdle
  <2>2. /\ u \in SetUp /\ SameOutputs(set, u) /\ u.fileVersion = set.fileVersion
        /\ u.media = set.media /\ u.fileMedia = set.fileMedia
        /\ \A e \in Encoders \ {"recVideo"} :
             \/ u.settings[e] = set.settings[e]
             \/ ~Active /\ u.settings[e] = Serviced(now)
        /\ ~handler.ffmpeg /\ ~handler.useStream => u.settings["recVideo"] = Own(now)
        /\ handler.ffmpeg \/ handler.useStream => u.settings["recVideo"] = set.settings["recVideo"]
    <3> HIDE DEF u
    <3>1. CASE handler.ffmpeg
      <4>1. u = set
        BY <3>1 DEF u
      <4> QED BY <1>1, <3>1, <4>1 DEF SameOutputs
    <3>2. CASE ~handler.ffmpeg /\ ~handler.useStream
      <4>1. u = Settings(set, {"recVideo"}, Own(now))
        BY <3>2 DEF u, Simple_UpdateRecordingSettings
      <4> QED BY <1>1, <3>2, <4>1, SettingsFields, Values, Names DEF SameOutputs
    <3>3. CASE ~handler.ffmpeg /\ handler.useStream /\ lib["stream"] # "on"
      <4>1. ~Active
        BY <1>3, <3>3, Names DEF Active
      <4>2. u = Simple_Update(now, set)
        BY <3>3 DEF u
      <4>3. set.streamAudio # "recVideo"
        BY <1>1, Names DEF AudioKept
      <4> QED BY <1>1, <3>3, <4>1, <4>2, <4>3, SimpleUpdateFields, Names
    <3>4. CASE ~handler.ffmpeg /\ handler.useStream /\ lib["stream"] = "on"
      <4>1. u = set
        BY <3>4 DEF u
      <4> QED BY <1>1, <3>4, <4>1 DEF SameOutputs
    <3> QED BY <1>1, <3>1, <3>2, <3>3, <3>4
  <2> HIDE DEF u
  <2>3. AudioKept(u)
    BY <1>1, <2>2, Names, Values DEF AudioKept, Fresh, SameOutputs
  <2>4. /\ v \in SetUp /\ SimpleReady(v) /\ AudioKept(v) /\ SameOutputs(set, v)
        /\ v.fileVersion = set.fileVersion
        /\ v.settings["recVideo"] = u.settings["recVideo"]
        /\ Active => v.media = set.media
        /\ Active => \A e \in Encoders \ {"recVideo"} : v.settings[e] = set.settings[e]
    <3>1. CASE Active
      <4>1. Busy
        BY <3>1 DEF Active, Busy
      <4>2. SimpleReady(set)
        BY <4>1 DEF SetUpInv, Prepared
      <4>3. v = u /\ \A e \in Encoders \ {"recVideo"} : u.settings[e] = set.settings[e]
        BY <2>2, <3>1
      <4>4. SimpleReady(u)
        BY <2>2, <4>2, <4>3, Names DEF SimpleReady, Fresh
      <4> QED BY <2>2, <2>3, <3>1, <4>3, <4>4
    <3>2. CASE ~Active
      <4>1. v = Simple_SetupOutputs(now, u)
        BY <3>2
      <4> HIDE DEF v
      <4>2. /\ v \in SetUp /\ SimpleReady(v) /\ AudioKept(v)
            /\ SameOutputs(u, v) /\ v.fileVersion = u.fileVersion
            /\ v.settings["recVideo"] = u.settings["recVideo"]
        BY <2>2, <2>3, <3>2, <4>1, SimpleSetup DEF SetUpInv
      <4> QED BY <2>2, <3>2, <4>2 DEF SameOutputs
    <3> QED BY <3>1, <3>2
  <2> HIDE DEF v
  <2>5. /\ t \in SetUp /\ t.settings = v.settings /\ t.media = v.media
        /\ t.fileMedia = v.fileMedia /\ t.fileVersion = v.fileVersion
        /\ t.streamAudio = v.streamAudio /\ t.streamType = v.streamType
        /\ \A o \in Outputs : t.uses[o] = IF ~handler.ffmpeg /\ o \in Recordings
                                          THEN RecordingEncoders ELSE v.uses[o]
    <3>1. CASE handler.ffmpeg
      BY <2>4, <3>1
    <3>2. CASE ~handler.ffmpeg
      <4>1. t = Uses(v, Recordings, RecordingEncoders)
        BY <3>2 DEF RecordingEncoders
      <4> QED BY <2>4, <3>2, <4>1, UsesFields, RecordingNames
    <3> QED BY <3>1, <3>2
  <2> HIDE DEF t
  <2>6. Sharing(t) /\ Shared(t)
    <3>1. \A o \in Outputs :
            \/ t.uses[o] = set.uses[o]
            \/ ~handler.ffmpeg /\ t.uses[o] = RecordingEncoders
      BY <2>4, <2>5 DEF SameOutputs
    <3>2. t.uses["stream"] = set.uses["stream"]
      BY <2>4, <2>5, RecordingNames, Names DEF SameOutputs
    <3>3. Sharing(t)
      BY <1>1, <3>1, <3>2, Names DEF Sharing
    <3>4. Shared(t)
      BY <2>5, RecordingNames, Names DEF Shared
    <3> QED BY <3>3, <3>4
  <2>7. MadeWith(t) /\ AudioKept(t)
    BY <1>1, <2>4, <2>5 DEF MadeWith, AudioKept, Fresh
  <2>8. SimpleReady(t)
    BY <2>4, <2>5 DEF SimpleReady, Fresh
  <2>9. RunningKept(set, t)
    <3>1. CASE ~Active
      BY <3>1, NothingRuns DEF RunningKept
    <3>2. CASE Active
      <4>1. Running = set.uses["stream"]
        BY <1>3, <3>2, Names DEF Running, Active
      <4>2. "recVideo" \notin Running /\ Running \subseteq Encoders
        BY <1>1, <4>1, Names DEF Sharing
      <4> QED BY <2>4, <2>5, <3>2, <4>2 DEF RunningKept
    <3> QED BY <3>1, <3>2
  <2>10. \A o \in Outputs : lib[o] = "on" => t.uses[o] = set.uses[o]
    BY <1>3, <2>4, <2>5, RecordingNames, Names DEF SameOutputs
  <2>11. t.uses["stream"] = set.uses["stream"]
    BY <2>4, <2>5, RecordingNames, Names DEF SameOutputs
  <2>12. ~handler.ffmpeg /\ ~handler.useStream => t.settings["recVideo"].version = now.version
    BY <1>1, <2>2, <2>4, <2>5, Values
  <2> QED BY <2>1, <2>4, <2>5, <2>6, <2>7, <2>8, <2>9, <2>10, <2>11, <2>12
          DEF RecordingReady, Kept, Prepared, SameOutputs
<1> QED BY <1>2, <1>3

-----------------------------------------------------------------------------
(* The encoders of AdvancedOutput.                                           *)

(* UpdateAudioSettings: the audio encoders of the tracks.                    *)
LEMMA AdvAudioFields ==
  ASSUME NEW n \in Now, NEW s \in SetUp
  PROVE  LET t == Adv_UpdateAudioSettings(n, s)
         IN  /\ t \in SetUp /\ n.config.track \in Tracks
             /\ \A e \in Encoders :
                  t.settings[e] = IF e = n.config.track THEN Serviced(n)
                                  ELSE IF e \in Tracks THEN Own(n) ELSE s.settings[e]
             /\ t.media = s.media /\ SameOutputs(s, t)
             /\ t.fileMedia = s.fileMedia /\ t.fileVersion = s.fileVersion
<1> DEFINE u == Settings(s, Tracks, Own(n))
           t == Settings(u, {n.config.track}, Serviced(n))
<1>1. n.config.track \in Tracks
  BY DEF Now, Config, Tracks
<1>2. /\ u \in SetUp
      /\ \A e \in Encoders : u.settings[e] = IF e \in Tracks THEN Own(n) ELSE s.settings[e]
      /\ u.media = s.media /\ SameOutputs(s, u)
      /\ u.fileMedia = s.fileMedia /\ u.fileVersion = s.fileVersion
  BY Values, SettingsFields DEF SameOutputs
<1> HIDE DEF u
<1>3. /\ t \in SetUp
      /\ \A e \in Encoders : t.settings[e] = IF e \in {n.config.track} THEN Serviced(n)
                                             ELSE u.settings[e]
      /\ t.media = u.media /\ SameOutputs(u, t)
      /\ t.fileMedia = u.fileMedia /\ t.fileVersion = u.fileVersion
  BY <1>2, Values, SettingsFields DEF SameOutputs
<1>4. Adv_UpdateAudioSettings(n, s) = t
  BY DEF Adv_UpdateAudioSettings, u
<1> HIDE DEF t
<1> QED BY <1>1, <1>2, <1>3, <1>4 DEF SameOutputs

(* SetupOutputs, while no output is active.                                  *)
LEMMA AdvSetupFields ==
  ASSUME NEW n \in Now, NEW s \in SetUp, ~Active, ~Simple
  PROVE  LET t == Adv_SetupOutputs(n, s)
         IN  /\ t \in SetUp /\ t.settings = s.settings
             /\ \A e \in VideoEncoders : t.media[e] = n.video
             /\ \A e \in Tracks : t.media[e] = 1
             /\ t.media["alt"] = s.media["alt"]
             /\ t.streamAudio = s.streamAudio /\ t.streamType = s.streamType
             /\ handler.ffmpeg => t.fileMedia = n.video /\ t.fileVersion = n.version
             /\ \A o \in Outputs : t.uses[o] = IF ~handler.ffmpeg /\ o \in Recordings
                                               THEN RecordingEncoders ELSE s.uses[o]
<1> DEFINE m == Media(n, s, VideoEncoders \cup Tracks)
           a == Media(n, m, {"streamVideo"})
           v == IF handler.useStream THEN "streamVideo" ELSE "recVideo"
           r == Media(n, a, {v})
           t == Adv_SetupOutputs(n, s)
<1>1. Running = {}
  BY NothingRuns
<1>2. /\ m \in SetUp /\ m.settings = s.settings /\ SameOutputs(s, m)
      /\ \A e \in Encoders : m.media[e] = IF e \notin VideoEncoders \cup Tracks THEN s.media[e]
                                          ELSE IF e \in VideoEncoders THEN n.video ELSE 1
  BY <1>1, MediaFields DEF SameOutputs
<1> HIDE DEF m
<1>3. /\ a \in SetUp /\ a.settings = m.settings /\ SameOutputs(m, a)
      /\ \A e \in Encoders : a.media[e] = IF e \notin {"streamVideo"} THEN m.media[e]
                                          ELSE IF e \in VideoEncoders THEN n.video ELSE 1
  BY <1>1, <1>2, MediaFields DEF SameOutputs
<1> HIDE DEF a
<1>4. /\ r \in SetUp /\ r.settings = a.settings /\ SameOutputs(a, r)
      /\ \A e \in Encoders : r.media[e] = IF e \notin {v} THEN a.media[e]
                                          ELSE IF e \in VideoEncoders THEN n.video ELSE 1
  BY <1>1, <1>3, MediaFields DEF SameOutputs
<1>5. v \in VideoEncoders
  BY Names
<1> HIDE DEF r
<1>6. CASE handler.ffmpeg
  <2>1. t = [a EXCEPT !.fileMedia = n.video, !.fileVersion = n.version]
    BY <1>6 DEF Adv_SetupOutputs, Adv_SetupStreaming, Adv_SetupFFmpeg, m, a
  <2> HIDE DEF t
  <2>2. t \in SetUp /\ t.settings = a.settings /\ t.media = a.media /\ SameOutputs(a, t)
        /\ t.fileVersion = n.version /\ t.fileMedia = n.video
    BY <1>3, <2>1 DEF SetUp, Now, SameOutputs
  <2> QED BY <1>2, <1>3, <1>6, <2>2, Names DEF SameOutputs, t
<1>7. CASE ~handler.ffmpeg
  <2>1. t = Uses(r, Recordings, RecordingEncoders)
    BY <1>7 DEF Adv_SetupOutputs, Adv_SetupStreaming, Adv_SetupRecording, m, a, r,
                RecordingEncoders
  <2> HIDE DEF t, v
  <2>2. /\ t \in SetUp /\ t.settings = r.settings /\ t.media = r.media
        /\ t.streamAudio = r.streamAudio /\ t.streamType = r.streamType
        /\ \A o \in Outputs : t.uses[o] = IF o \in Recordings THEN RecordingEncoders
                                          ELSE r.uses[o]
    BY <1>4, <2>1, UsesFields, RecordingNames
  <2>3. \A e \in Encoders : r.media[e] = a.media[e] \/ (e \in VideoEncoders /\ r.media[e] = n.video)
    BY <1>4, <1>5
  <2> QED BY <1>2, <1>3, <1>4, <1>7, <2>2, <2>3, Names DEF SameOutputs, t
<1> QED BY <1>6, <1>7

(* The audio settings and the set-up with which every start of AdvancedOutput *)
(* ends, once it has updated the stream's encoder or found it as it should be. *)
LEMMA AdvFinish ==
  ASSUME SetUpInv, ~Simple, NEW u \in SetUp, SameOutputs(set, u),
         u.media = set.media, u.fileMedia = set.fileMedia, u.fileVersion = set.fileVersion,
         \A e \in Encoders \ {"streamVideo"} : u.settings[e] = set.settings[e],
         u.settings["streamVideo"] \in {set.settings["streamVideo"], Serviced(now)},
         handler.useStream /\ ~handler.ffmpeg => u.settings["streamVideo"] = Serviced(now),
         "streamVideo" \in Running => u.settings["streamVideo"] = set.settings["streamVideo"]
  PROVE  LET a == Adv_UpdateAudioSettings(now, u)
             t == IF Active THEN a ELSE Adv_SetupOutputs(now, a)
         IN  /\ t \in SetUp /\ Kept(t) /\ AdvReady(t)
             /\ t.uses["stream"] = set.uses["stream"]
             /\ t.streamAudio = set.streamAudio /\ t.streamType = set.streamType
             /\ RunningKept(set, t)
             /\ \A o \in Outputs : lib[o] = "on" => t.uses[o] = set.uses[o]
             /\ t.settings["streamVideo"] = u.settings["streamVideo"]
             /\ t.settings["recVideo"] = u.settings["recVideo"]
<1> DEFINE a == Adv_UpdateAudioSettings(now, u)
           t == IF Active THEN a ELSE Adv_SetupOutputs(now, a)
<1>1. /\ set \in SetUp /\ AudioKept(set) /\ MadeWith(set) /\ Sharing(set)
      /\ now \in Now
  BY DEF SetUpInv, DataTypes, Kept
<1>2. /\ a \in SetUp /\ now.config.track \in Tracks
      /\ \A e \in Encoders :
           a.settings[e] = IF e = now.config.track THEN Serviced(now)
                           ELSE IF e \in Tracks THEN Own(now) ELSE u.settings[e]
      /\ a.media = u.media /\ SameOutputs(u, a)
      /\ a.fileMedia = u.fileMedia /\ a.fileVersion = u.fileVersion
  BY <1>1, AdvAudioFields
<1> HIDE DEF a
<1>3. MadeWith(a)
  BY <1>1, <1>2, Values, Names DEF MadeWith
<1>4. /\ \A k \in Tracks :
           a.settings[k] = IF k = now.config.track THEN Serviced(now) ELSE Own(now)
      /\ a.settings["streamVideo"] = u.settings["streamVideo"]
      /\ a.settings["recVideo"] = u.settings["recVideo"]
      /\ a.settings["alt"] = set.settings["alt"]
  BY <1>2, Names
<1>5. CASE Active
  <2>1. t = a
    BY <1>5
  <2>2. Busy
    BY <1>5 DEF Active, Busy
  <2>3. AdvReady(set)
    BY <2>2 DEF SetUpInv, Prepared
  <2> HIDE DEF t
  <2>4. Kept(t)
    <3>1. Sharing(t)
      BY <1>1, <1>2, <2>1 DEF Sharing, SameOutputs
    <3>2. AudioKept(t)
      BY <1>1, <1>2, <1>4, <2>1 DEF AudioKept, SameOutputs, Fresh
    <3> QED BY <1>3, <2>1, <3>1, <3>2 DEF Kept
  <2>5. AdvReady(t)
    <3>1. Shared(t)
      BY <1>2, <2>1, <2>3 DEF AdvReady, Shared, SameOutputs
    <3> QED BY <1>2, <1>4, <2>1, <2>3, <3>1 DEF AdvReady, Fresh
  <2>6. RunningKept(set, t)
    <3>1. Running \subseteq Encoders
      BY <1>1, SetUpFields DEF Running
    <3>2. \A e \in Tracks : t.settings[e] = set.settings[e]
      BY <1>4, <2>1, <2>3 DEF AdvReady
    <3>3. \A e \in Encoders \ (Tracks \cup {"streamVideo"}) : t.settings[e] = set.settings[e]
      BY <1>2, <2>1
    <3> QED BY <1>2, <1>4, <2>1, <3>1, <3>2, <3>3 DEF RunningKept
  <2> QED BY <1>2, <1>4, <2>1, <2>4, <2>5, <2>6 DEF SameOutputs, t, a
<1>6. CASE ~Active
  <2>1. t = Adv_SetupOutputs(now, a)
    BY <1>6
  <2> HIDE DEF t
  <2>2. /\ t \in SetUp /\ t.settings = a.settings
        /\ \A e \in VideoEncoders : t.media[e] = now.video
        /\ \A e \in Tracks : t.media[e] = 1
        /\ t.media["alt"] = a.media["alt"]
        /\ t.streamAudio = a.streamAudio /\ t.streamType = a.streamType
        /\ handler.ffmpeg => t.fileMedia = now.video /\ t.fileVersion = now.version
        /\ \A o \in Outputs : t.uses[o] = IF ~handler.ffmpeg /\ o \in Recordings
                                          THEN RecordingEncoders ELSE a.uses[o]
    BY <1>1, <1>2, <1>6, <2>1, AdvSetupFields
  <2>3. t.uses["stream"] = set.uses["stream"]
    BY <1>2, <2>2, RecordingNames, Names DEF SameOutputs
  <2>4. Sharing(t)
    <3>1. \A o \in Outputs :
            \/ t.uses[o] = set.uses[o]
            \/ ~handler.ffmpeg /\ t.uses[o] = RecordingEncoders
      BY <1>2, <2>2 DEF SameOutputs
    <3> QED BY <1>1, <2>3, <3>1, Names DEF Sharing
  <2>5. Shared(t)
    BY <2>2, RecordingNames, Names DEF Shared
  <2>6. AudioKept(t)
    BY <1>1, <1>2, <1>4, <2>2, Names DEF AudioKept, Fresh, SameOutputs
  <2>7. MadeWith(t)
    BY <1>3, <2>2 DEF MadeWith
  <2>8. AdvReady(t)
    BY <1>4, <2>2, <2>5, Names DEF AdvReady, Fresh
  <2>9. RunningKept(set, t) /\ \A o \in Outputs : lib[o] # "on"
    BY <1>6, NothingRuns DEF RunningKept, Active
  <2> QED BY <1>2, <1>4, <2>2, <2>3, <2>4, <2>6, <2>7, <2>8, <2>9 DEF Kept, SameOutputs, t, a
<1> QED BY <1>5, <1>6

(* What a start of the stream may count on, and what it leaves alone, before *)
(* it makes its output.                                                      *)
StreamReady(s) ==
  /\ s \in SetUp /\ Kept(s) /\ Prepared(s)
  /\ s.uses["stream"] = set.uses["stream"]
  /\ s.streamAudio = set.streamAudio /\ s.streamType = set.streamType
  /\ Recording => Shared(s)
  /\ RunningKept(set, s)
  /\ \A o \in Outputs : lib[o] = "on" => s.uses[o] = set.uses[o]
  /\ s.settings["streamVideo"].version = now.version
  /\ \/ s.settings["streamVideo"].service
     \/ ~Simple /\ handler.useStream /\ handler.ffmpeg

(* StartStreaming of AdvancedOutput, up to its output.                       *)
LEMMA AdvPrepared ==
  ASSUME SetUpInv, ~Simple, lib["stream"] = "off"
  PROVE  StreamReady(Adv_Prepare(now, set))
<1> DEFINE u == IF ~handler.useStream \/ (~handler.ffmpeg /\ lib["file"] # "on")
                THEN Adv_UpdateStreamSettings(now, set) ELSE set
           a == Adv_UpdateAudioSettings(now, u)
           t == IF Active THEN a ELSE Adv_SetupOutputs(now, a)
<1>1. /\ set \in SetUp /\ MadeWith(set) /\ Sharing(set)
      /\ now \in Now
      /\ lib["file"] # "connecting" /\ lib["replay"] # "connecting"
  BY DEF SetUpInv, DataTypes, Kept
<1>2. Adv_Prepare(now, set) = t
  BY DEF Adv_Prepare
<1>3. /\ u \in SetUp /\ SameOutputs(set, u)
      /\ u.media = set.media /\ u.fileMedia = set.fileMedia /\ u.fileVersion = set.fileVersion
      /\ \A e \in Encoders \ {"streamVideo"} : u.settings[e] = set.settings[e]
      /\ IF ~handler.useStream \/ (~handler.ffmpeg /\ lib["file"] # "on")
         THEN u.settings["streamVideo"] = Serviced(now)
         ELSE u.settings["streamVideo"] = set.settings["streamVideo"]
  <2>1. CASE ~handler.useStream \/ (~handler.ffmpeg /\ lib["file"] # "on")
    <3>1. u = Settings(set, {"streamVideo"}, Serviced(now))
      BY <2>1 DEF Adv_UpdateStreamSettings
    <3> HIDE DEF u
    <3> QED BY <1>1, <2>1, <3>1, SettingsFields, Values, Names DEF SameOutputs
  <2>2. CASE ~(~handler.useStream \/ (~handler.ffmpeg /\ lib["file"] # "on"))
    <3>1. u = set
      BY <2>2
    <3> HIDE DEF u
    <3> QED BY <1>1, <2>2, <3>1 DEF SameOutputs
  <2> QED BY <2>1, <2>2
<1> HIDE DEF u
<1>4. Busy => AdvReady(set)
  BY DEF SetUpInv, Prepared
<1>5. handler.useStream /\ ~handler.ffmpeg => u.settings["streamVideo"] = Serviced(now)
  <2>1. CASE lib["file"] = "on"
    <3>1. Busy
      BY <2>1, Names DEF Busy
    <3> QED BY <1>3, <1>4, <2>1, <3>1 DEF AdvReady
  <2>2. CASE lib["file"] # "on"
    BY <1>3, <2>2
  <2> QED BY <2>1, <2>2
<1>6. "streamVideo" \in Running => u.settings["streamVideo"] = set.settings["streamVideo"]
  <2>1. CASE ~handler.useStream
    <3>1. \A o \in {"file", "replay"} : "streamVideo" \notin set.uses[o]
      BY <1>1, <2>1, Names DEF Sharing, RecordingEncoders
    <3> QED BY <3>1, Names DEF Running
  <2>2. CASE handler.useStream /\ handler.ffmpeg
    BY <1>3, <2>2
  <2>3. CASE handler.useStream /\ ~handler.ffmpeg
    <3>1. Active => u.settings["streamVideo"] = set.settings["streamVideo"]
      BY <1>4, <1>5, <2>3 DEF Active, Busy, AdvReady
    <3> QED BY <3>1, NothingRuns
  <2> QED BY <2>1, <2>2, <2>3
<1>7. u.settings["streamVideo"] \in {set.settings["streamVideo"], Serviced(now)}
  BY <1>3
<1>8. /\ t \in SetUp /\ Kept(t) /\ AdvReady(t)
      /\ t.uses["stream"] = set.uses["stream"]
      /\ t.streamAudio = set.streamAudio /\ t.streamType = set.streamType
      /\ RunningKept(set, t)
      /\ \A o \in Outputs : lib[o] = "on" => t.uses[o] = set.uses[o]
      /\ t.settings["streamVideo"] = u.settings["streamVideo"]
  BY <1>3, <1>5, <1>6, <1>7, AdvFinish
<1> HIDE DEF t
<1>9. \/ t.settings["streamVideo"].service
      \/ ~Simple /\ handler.useStream /\ handler.ffmpeg
  BY <1>1, <1>3, <1>5, <1>8, Values
<1>10. t.settings["streamVideo"].version = now.version
  BY <1>8 DEF Kept, MadeWith
<1>11. Prepared(t) /\ Shared(t)
  BY <1>8 DEF Prepared, AdvReady
<1> QED BY <1>2, <1>8, <1>9, <1>10, <1>11 DEF StreamReady

(* StartRecording and StartReplayBuffer of AdvancedOutput, up to the output. *)
LEMMA AdvRecording ==
  ASSUME SetUpInv, ~Simple
  PROVE  RecordingReady(Adv_UpdateRecording(now, set))
<1> DEFINE u == IF handler.useStream
                THEN IF lib["stream"] # "on" THEN Adv_UpdateStreamSettings(now, set) ELSE set
                ELSE IF handler.ffmpeg THEN set ELSE Adv_UpdateRecordingSettings(now, set)
           a == Adv_UpdateAudioSettings(now, u)
           t == IF Active THEN a ELSE Adv_SetupOutputs(now, a)
<1>1. /\ set \in SetUp /\ MadeWith(set) /\ Sharing(set)
      /\ now \in Now
  BY DEF SetUpInv, DataTypes, Kept
<1>2. Adv_UpdateRecording(now, set) = t
  BY DEF Adv_UpdateRecording
<1>3. /\ u \in SetUp /\ SameOutputs(set, u)
      /\ u.media = set.media /\ u.fileMedia = set.fileMedia /\ u.fileVersion = set.fileVersion
      /\ \A e \in Encoders \ {"streamVideo"} : u.settings[e] = set.settings[e]
      /\ IF handler.useStream /\ lib["stream"] # "on"
         THEN u.settings["streamVideo"] = Serviced(now)
         ELSE u.settings["streamVideo"] = set.settings["streamVideo"]
  <2>1. CASE handler.useStream /\ lib["stream"] # "on"
    <3>1. u = Settings(set, {"streamVideo"}, Serviced(now))
      BY <2>1 DEF Adv_UpdateStreamSettings
    <3> HIDE DEF u
    <3> QED BY <1>1, <2>1, <3>1, SettingsFields, Values, Names DEF SameOutputs
  <2>2. CASE ~handler.useStream /\ ~handler.ffmpeg
    <3>1. u = Settings(set, {"recVideo"}, Own(now))
      BY <2>2 DEF Adv_UpdateRecordingSettings
    <3>2. set.settings["recVideo"] = Own(now)
      BY <1>1, <2>2 DEF MadeWith
    <3> HIDE DEF u
    <3> QED BY <1>1, <2>2, <3>1, <3>2, SettingsFields, Values, Names DEF SameOutputs
  <2>3. CASE ~(handler.useStream /\ lib["stream"] # "on") /\ ~(~handler.useStream /\ ~handler.ffmpeg)
    <3>1. u = set
      BY <2>3
    <3> HIDE DEF u
    <3> QED BY <1>1, <2>3, <3>1 DEF SameOutputs
  <2> QED BY <2>1, <2>2, <2>3
<1> HIDE DEF u
<1>4. Busy => AdvReady(set)
  BY DEF SetUpInv, Prepared
<1>5. handler.useStream /\ ~handler.ffmpeg => u.settings["streamVideo"] = Serviced(now)
  <2>1. CASE lib["stream"] = "on"
    <3>1. Busy
      BY <2>1, Names DEF Busy
    <3> QED BY <1>3, <1>4, <2>1, <3>1 DEF AdvReady
  <2>2. CASE lib["stream"] # "on"
    BY <1>3, <2>2
  <2> QED BY <2>1, <2>2
<1>6. "streamVideo" \in Running => u.settings["streamVideo"] = set.settings["streamVideo"]
  <2>1. CASE ~handler.useStream \/ lib["stream"] = "on"
    BY <1>3, <2>1
  <2>2. CASE handler.ffmpeg /\ lib["stream"] # "on"
    <3>1. \A o \in {"file", "replay"} : set.uses[o] = {}
      BY <1>1, <2>2 DEF Sharing
    <3> QED BY <2>2, <3>1, Names DEF Running
  <2>3. CASE handler.useStream /\ ~handler.ffmpeg
    <3>1. Active => u.settings["streamVideo"] = set.settings["streamVideo"]
      BY <1>4, <1>5, <2>3 DEF Active, Busy, AdvReady
    <3> QED BY <3>1, NothingRuns
  <2> QED BY <2>1, <2>2, <2>3
<1>7. u.settings["streamVideo"] \in {set.settings["streamVideo"], Serviced(now)}
  BY <1>3
<1>8. /\ t \in SetUp /\ Kept(t) /\ AdvReady(t)
      /\ t.uses["stream"] = set.uses["stream"]
      /\ t.streamAudio = set.streamAudio /\ t.streamType = set.streamType
      /\ RunningKept(set, t)
      /\ \A o \in Outputs : lib[o] = "on" => t.uses[o] = set.uses[o]
  BY <1>3, <1>5, <1>6, <1>7, AdvFinish
<1> HIDE DEF t
<1>9. ~handler.ffmpeg /\ ~handler.useStream => t.settings["recVideo"].version = now.version
  BY <1>1, <1>8, Values DEF Kept, MadeWith
<1>10. Prepared(t) /\ Shared(t)
  BY <1>8 DEF Prepared, AdvReady
<1> QED BY <1>2, <1>8, <1>9, <1>10 DEF RecordingReady

(* StartStreaming of SimpleOutput, up to its output, in the same words.      *)
LEMMA SimpleStream ==
  ASSUME SetUpInv, Simple
  PROVE  StreamReady(Simple_Prepare(now, set))
<1> DEFINE s == Simple_Prepare(now, set)
<1>1. /\ s \in SetUp /\ Kept(s) /\ SimpleReady(s)
      /\ SameOutputs(set, s) /\ RunningKept(set, s)
  BY SimplePrepared
<1> HIDE DEF s
<1>2. Recording => Shared(s)
  BY <1>1 DEF SetUpInv, Shared, SameOutputs
<1>3. s.settings["streamVideo"].version = now.version /\ s.settings["streamVideo"].service
  BY <1>1, Values DEF SimpleReady, SetUpInv, DataTypes
<1>4. StreamReady(s)
  BY <1>1, <1>2, <1>3 DEF StreamReady, Prepared, SameOutputs
<1> QED BY <1>4 DEF s

-----------------------------------------------------------------------------
(* The outputs.                                                              *)

(* The set-up with the audio encoder for the type of the stream's output.    *)
WithType(s) ==
  IF outputType = now.config.codec THEN s
  ELSE [IF Simple THEN Simple_StreamAudio(now, s) ELSE Adv_StreamAudio(now, s)
        EXCEPT !.streamType = now.config.codec]

(* The encoder of another codec is the stream's alone.                       *)
LEMMA AltIdle == SetUpInv /\ lib["stream"] = "off" => "alt" \notin Running
BY Names DEF SetUpInv, Kept, Sharing, Running, RecordingEncoders, LoadRecordingPreset

(* The audio encoder for another codec.                                      *)
LEMMA AlternativeFields ==
  ASSUME SetUpInv, lib["stream"] = "off", NEW s \in SetUp
  PROVE  LET t == Alternative(now, s)
         IN  /\ t \in SetUp /\ t.streamAudio = "alt"
             /\ t.settings["alt"] = Own(now) /\ t.media["alt"] = 1
             /\ \A e \in Encoders \ {"alt"} :
                  t.settings[e] = s.settings[e] /\ t.media[e] = s.media[e]
             /\ t.uses = s.uses /\ t.streamType = s.streamType
             /\ t.fileMedia = s.fileMedia /\ t.fileVersion = s.fileVersion
<1> DEFINE a == [s EXCEPT !.streamAudio = "alt"]
           b == Settings(a, {"alt"}, Own(now))
           t == Media(now, b, {"alt"})
<1>1. now \in Now /\ "alt" \notin Running
  BY AltIdle DEF SetUpInv, DataTypes
<1>2. /\ a \in SetUp /\ a.streamAudio = "alt"
      /\ a.settings = s.settings /\ a.media = s.media /\ a.uses = s.uses
      /\ a.fileMedia = s.fileMedia /\ a.fileVersion = s.fileVersion
      /\ a.streamType = s.streamType
  BY Names DEF SetUp
<1> HIDE DEF a
<1>3. /\ b \in SetUp
      /\ \A e \in Encoders : b.settings[e] = IF e \in {"alt"} THEN Own(now) ELSE a.settings[e]
      /\ b.media = a.media /\ SameOutputs(a, b)
      /\ b.fileMedia = a.fileMedia /\ b.fileVersion = a.fileVersion
  BY <1>1, <1>2, Values, SettingsFields DEF SameOutputs
<1> HIDE DEF b
<1>4. /\ t \in SetUp /\ t.settings = b.settings /\ SameOutputs(b, t)
      /\ \A e \in Encoders : t.media[e] = IF e \notin {"alt"} \ Running THEN b.media[e]
                                          ELSE IF e \in VideoEncoders THEN now.video ELSE 1
      /\ t.fileMedia = b.fileMedia /\ t.fileVersion = b.fileVersion
  BY <1>1, <1>3, MediaFields DEF SameOutputs
<1> HIDE DEF t
<1>5. Alternative(now, s) = t
  BY DEF Alternative, a, b, t
<1> QED BY <1>1, <1>2, <1>3, <1>4, <1>5, Names DEF SameOutputs

(* Taking an output of the type of the service leaves all ready.             *)
LEMMA WithTypeFields ==
  ASSUME SetUpInv, lib["stream"] = "off", NEW s, StreamReady(s)
  PROVE  LET t == WithType(s)
         IN  /\ t \in SetUp /\ Kept(t) /\ Prepared(t)
             /\ t.uses = s.uses /\ t.settings["streamVideo"] = s.settings["streamVideo"]
             /\ RunningKept(set, t)
             /\ Typed(t, now.config.codec)
             /\ Fresh(t, t.streamAudio)
             /\ env.locked => t.settings[t.streamAudio].version = now.version
<1> DEFINE t == WithType(s)
<1>1. /\ s \in SetUp /\ Kept(s) /\ Prepared(s) /\ RunningKept(set, s)
      /\ Sharing(s) /\ AudioKept(s) /\ MadeWith(s)
      /\ s.streamAudio = set.streamAudio /\ s.streamType = set.streamType
  BY DEF StreamReady, Kept
<1>2. /\ now \in Now /\ now.config.codec \in {"aac", "other"}
      /\ now.config.track \in Tracks /\ handler \in Configs
  BY Names DEF SetUpInv, DataTypes, Now, Config
<1>3. Typed(set, outputType)
  BY DEF SetUpInv
<1>4. CASE outputType = now.config.codec
  <2>1. t = s
    BY <1>4 DEF WithType
  <2> HIDE DEF t
  <2>2. Typed(t, now.config.codec)
    BY <1>1, <1>3, <1>4, <2>1 DEF Typed
  <2>3. s.streamAudio \in Tracks =>
          Fresh(s, s.streamAudio) /\ (env.locked => s.settings[s.streamAudio].version = now.version)
    <3>1. CASE Simple
      BY <1>1, <3>1, Names DEF AudioKept, Prepared, SimpleReady
    <3>2. CASE ~Simple
      BY <1>1, <1>2, <3>2, Values DEF Prepared, AdvReady
    <3> QED BY <3>1, <3>2
  <2>4. s.streamAudio = "alt" =>
          Fresh(s, "alt") /\ (env.locked => s.settings["alt"].version = now.version)
    BY <1>1 DEF AudioKept
  <2>5. s.streamAudio \in Tracks \cup {"alt"}
    BY <1>1 DEF AudioKept
  <2> QED BY <1>1, <2>1, <2>2, <2>3, <2>4, <2>5 DEF t
<1>5. CASE outputType # now.config.codec /\ now.config.codec = "other"
  <2> DEFINE a == Alternative(now, s)
  <2>1. t = [a EXCEPT !.streamType = now.config.codec]
    BY <1>2, <1>5 DEF WithType, Simple_StreamAudio, Adv_StreamAudio
  <2>2. /\ a \in SetUp /\ a.streamAudio = "alt"
        /\ a.settings["alt"] = Own(now) /\ a.media["alt"] = 1
        /\ \A e \in Encoders \ {"alt"} :
             a.settings[e] = s.settings[e] /\ a.media[e] = s.media[e]
        /\ a.uses = s.uses
        /\ a.fileMedia = s.fileMedia /\ a.fileVersion = s.fileVersion
    BY <1>1, AlternativeFields
  <2> HIDE DEF a, t
  <2>3. /\ t \in SetUp /\ t.streamAudio = "alt" /\ t.streamType = now.config.codec
        /\ t.settings["alt"] = Own(now) /\ t.media["alt"] = 1
        /\ \A e \in Encoders \ {"alt"} :
             t.settings[e] = s.settings[e] /\ t.media[e] = s.media[e]
        /\ t.uses = s.uses
        /\ t.fileMedia = s.fileMedia /\ t.fileVersion = s.fileVersion
    BY <1>2, <2>1, <2>2 DEF SetUp
  <2>4. Prepared(t)
    <3>1. Simple => SimpleReady(t)
      BY <1>1, <2>3, Names DEF Prepared, SimpleReady, Fresh
    <3>2. ~Simple => AdvReady(t)
      BY <1>1, <2>3, Names DEF Prepared, AdvReady, Fresh, Shared
    <3> QED BY <3>1, <3>2 DEF Prepared
  <2>5. Fresh(t, "alt") /\ t.settings["alt"].version = now.version
    BY <1>2, <2>3, Names, Values DEF Fresh
  <2>6. AudioKept(t)
    BY <2>3, <2>4, <2>5, Names DEF AudioKept, Prepared, SimpleReady
  <2>7. Sharing(t) /\ MadeWith(t)
    BY <1>1, <2>3, Names DEF Sharing, MadeWith
  <2>8. RunningKept(set, t)
    <3>1. "alt" \notin Running /\ Running \subseteq Encoders
      BY AltIdle, SetUpFields DEF SetUpInv, DataTypes, Running
    <3> QED BY <1>1, <2>3, <3>1 DEF RunningKept
  <2>9. Typed(t, now.config.codec)
    BY <1>3, <1>5, <2>3 DEF Typed
  <2> QED BY <2>3, <2>4, <2>5, <2>6, <2>7, <2>8, <2>9, Names DEF Kept, t
<1>6. CASE outputType # now.config.codec /\ now.config.codec = "aac"
  <2> DEFINE k == IF Simple THEN s.streamAudio ELSE now.config.track
  <2>1. t = [s EXCEPT !.streamAudio = k, !.streamType = now.config.codec]
    <3>1. CASE Simple
      BY <1>1, <1>6, <3>1 DEF WithType, Simple_StreamAudio, SetUp
    <3>2. CASE ~Simple
      BY <1>1, <1>6, <3>2 DEF WithType, Adv_StreamAudio, SetUp
    <3> QED BY <3>1, <3>2
  <2>2. /\ k \in Tracks \cup {"alt"} /\ (Simple => k \in {"track1", "alt"})
        /\ k = "alt" => Simple /\ s.streamAudio = "alt"
        /\ Simple => k = s.streamAudio
        /\ ~Simple => k = now.config.track
    BY <1>1, <1>2, Names DEF AudioKept
  <2> HIDE DEF k, t
  <2>3. /\ t \in SetUp /\ t.streamAudio = k /\ t.streamType = now.config.codec
        /\ t.settings = s.settings /\ t.media = s.media /\ t.uses = s.uses
        /\ t.fileMedia = s.fileMedia /\ t.fileVersion = s.fileVersion
    BY <1>1, <1>2, <2>1, <2>2, Names DEF SetUp
  <2>4. Prepared(t)
    BY <1>1, <2>3 DEF Prepared, SimpleReady, AdvReady, Fresh, Shared
  <2>5. AudioKept(t)
    BY <1>1, <2>2, <2>3 DEF AudioKept, Fresh
  <2>6. Sharing(t) /\ MadeWith(t) /\ RunningKept(set, t)
    BY <1>1, <2>3 DEF Sharing, MadeWith, RunningKept
  <2>7. env.locked => s.streamAudio = "track1"
    BY <1>1, <1>3, <1>6 DEF Typed
  <2>8. Typed(t, now.config.codec)
    BY <1>3, <1>6, <2>2, <2>3, <2>7, Names DEF Typed
  <2>9. k \in Tracks => Fresh(t, k) /\ (env.locked => t.settings[k].version = now.version)
    <3>1. CASE Simple
      BY <2>2, <2>4, <3>1, Names DEF Prepared, SimpleReady
    <3>2. CASE ~Simple
      BY <1>2, <2>4, <3>2, Values DEF Prepared, AdvReady
    <3> QED BY <3>1, <3>2
  <2>10. k = "alt" => Fresh(t, k) /\ ~env.locked
    BY <2>2, <2>3, <2>5, <2>7 DEF AudioKept
  <2> QED BY <2>2, <2>3, <2>4, <2>5, <2>6, <2>8, <2>9, <2>10 DEF Kept, t
<1> QED BY <1>2, <1>4, <1>5, <1>6

(* What holds of the set-up after a start, whether or not the output starts. *)
Later(s, type) ==
  /\ s \in SetUp /\ Kept(s) /\ Typed(s, type)
  /\ Busy => Prepared(s)
  /\ Recording => Shared(s)
  /\ RunningKept(set, s)
  /\ \A o \in Outputs : lib[o] = "on" => s.uses[o] = set.uses[o]

(* The output of the stream gets its encoders.                               *)
LEMMA StreamMade ==
  ASSUME SetUpInv, lib["stream"] = "off", NEW s, StreamReady(s)
  PROVE  LET t == Uses(WithType(s), {"stream"}, {"streamVideo", WithType(s).streamAudio})
         IN  Later(t, now.config.codec) /\ Prepared(t) /\ Ready("stream", t)
<1> DEFINE w == WithType(s)
           t == Uses(w, {"stream"}, {"streamVideo", w.streamAudio})
<1>1. /\ w \in SetUp /\ Kept(w) /\ Prepared(w)
      /\ w.uses = s.uses /\ w.settings["streamVideo"] = s.settings["streamVideo"]
      /\ RunningKept(set, w)
      /\ Typed(w, now.config.codec)
      /\ Fresh(w, w.streamAudio)
      /\ env.locked => w.settings[w.streamAudio].version = now.version
  BY WithTypeFields
<1>2. /\ Sharing(w) /\ AudioKept(w) /\ MadeWith(w) /\ w.streamAudio \in Tracks \cup {"alt"}
  BY <1>1 DEF Kept, AudioKept
<1>3. now \in Now /\ now.config.codec \in {"aac", "other"} /\ now.config.track \in Tracks
  BY Names DEF SetUpInv, DataTypes, Now, Config
<1> HIDE DEF w
<1>4. /\ t \in SetUp /\ t.settings = w.settings /\ t.media = w.media
      /\ \A o \in Outputs : t.uses[o] = IF o \in {"stream"} THEN {"streamVideo", w.streamAudio}
                                        ELSE w.uses[o]
      /\ t.fileMedia = w.fileMedia /\ t.fileVersion = w.fileVersion
      /\ t.streamAudio = w.streamAudio /\ t.streamType = w.streamType
  BY <1>1, <1>2, UsesFields, Names
<1> HIDE DEF t
<1>5. t.uses["stream"] = {"streamVideo", w.streamAudio}
  BY <1>4, Names
<1>6. \A o \in Outputs \ {"stream"} : t.uses[o] = w.uses[o]
  BY <1>4
<1>7. Kept(t)
  <2>1. Sharing(t)
    BY <1>2, <1>5, <1>6, Names DEF Sharing
  <2> QED BY <1>2, <1>4, <2>1 DEF Kept, AudioKept, MadeWith, Fresh
<1>8. Prepared(t)
  <2>1. Simple => SimpleReady(t)
    BY <1>1, <1>4 DEF Prepared, SimpleReady, Fresh
  <2>2. Shared(w) => Shared(t)
    BY <1>6, RecordingNames, Names DEF Shared
  <2>3. ~Simple => AdvReady(t)
    BY <1>1, <1>4, <2>2 DEF Prepared, AdvReady, Fresh
  <2> QED BY <2>1, <2>3 DEF Prepared
<1>9. Recording => Shared(t)
  BY <1>1, <1>6, RecordingNames, Names DEF StreamReady, Shared
<1>10. RunningKept(set, t)
  BY <1>1, <1>4 DEF RunningKept
<1>11. \A o \in Outputs : lib[o] = "on" => t.uses[o] = set.uses[o]
  BY <1>1, <1>6 DEF StreamReady
<1>12. Typed(t, now.config.codec)
  BY <1>1, <1>4 DEF Typed
<1>13. Ready("stream", t)
  <2>1. Fresh(t, "streamVideo") /\ Fresh(t, w.streamAudio)
    BY <1>1, <1>4, <1>8, Names DEF Prepared, SimpleReady, AdvReady, Fresh
  <2>2. \A e \in t.uses["stream"] : t.media[e] = IF e \in VideoEncoders THEN now.video ELSE 1
    BY <1>5, <2>1 DEF Fresh
  <2>3. t.settings["streamVideo"].version = now.version
    BY <1>1, <1>4 DEF StreamReady
  <2>4. \A e \in t.uses["stream"] :
          t.settings[e].version = now.version \/ (e \notin VideoEncoders /\ ~env.locked)
    BY <1>1, <1>2, <1>4, <1>5, <2>3, Names
  <2>5. \E v \in VideoEncoders, k \in Encoders \ VideoEncoders : {v, k} \subseteq t.uses["stream"]
    <3>1. w.streamAudio \in Encoders \ VideoEncoders
      BY <1>2, Names
    <3> QED BY <1>5, <3>1, Names
  <2>6. \/ t.settings["streamVideo"].service
        \/ handler.mode = "advanced" /\ handler.useStream /\ handler.ffmpeg
    <3>1. handler.mode \in {"simple", "advanced"}
      BY DEF SetUpInv, DataTypes, Config
    <3> QED BY <1>1, <1>4, <3>1 DEF StreamReady, Simple
  <2>7. env.locked =>
          /\ t.streamType = now.config.codec
          /\ ("alt" \in t.uses["stream"]) <=> (now.config.codec = "other")
          /\ handler.mode = "advanced" /\ now.config.codec = "aac" =>
               now.config.track \in t.uses["stream"]
    BY <1>3, <1>4, <1>5, <1>12, Names DEF Typed, Simple
  <2>8. WithEncoders("stream")
    BY DEF WithEncoders
  <2> QED BY <2>2, <2>4, <2>5, <2>6, <2>7, <2>8 DEF Ready
<1> QED BY <1>4, <1>7, <1>8, <1>9, <1>10, <1>11, <1>12, <1>13 DEF Later, t, w

(* The output of the stream cannot be made.                                  *)
LEMMA StreamLost ==
  ASSUME SetUpInv, lib["stream"] = "off", NEW s, StreamReady(s),
         outputType # now.config.codec
  PROVE  Later([Uses(s, {"stream"}, {}) EXCEPT !.streamType = "none"], outputType)
<1> DEFINE w == Uses(s, {"stream"}, {})
           t == [w EXCEPT !.streamType = "none"]
<1>1. /\ s \in SetUp /\ Sharing(s) /\ AudioKept(s) /\ MadeWith(s) /\ Prepared(s)
      /\ s.streamAudio = set.streamAudio
  BY DEF StreamReady, Kept
<1>2. /\ w \in SetUp /\ w.settings = s.settings /\ w.media = s.media
      /\ \A o \in Outputs : w.uses[o] = IF o \in {"stream"} THEN {} ELSE s.uses[o]
      /\ w.fileMedia = s.fileMedia /\ w.fileVersion = s.fileVersion
      /\ w.streamAudio = s.streamAudio
  BY <1>1, UsesFields
<1> HIDE DEF w
<1>3. /\ t \in SetUp /\ t.settings = s.settings /\ t.media = s.media
      /\ t.uses["stream"] = {}
      /\ \A o \in Outputs \ {"stream"} : t.uses[o] = s.uses[o]
      /\ t.fileMedia = s.fileMedia /\ t.fileVersion = s.fileVersion
      /\ t.streamAudio = s.streamAudio
  BY <1>2, Names DEF SetUp
<1> HIDE DEF t
<1>4. Kept(t)
  <2>1. Sharing(t)
    BY <1>1, <1>3, Names DEF Sharing
  <2> QED BY <1>1, <1>3, <2>1 DEF Kept, AudioKept, MadeWith, Fresh
<1>5. Shared(s) => Shared(t)
  BY <1>3, RecordingNames, Names DEF Shared
<1>6. Prepared(t)
  BY <1>1, <1>3, <1>5 DEF Prepared, SimpleReady, AdvReady, Fresh
<1>7. RunningKept(set, t)
  BY <1>3 DEF RunningKept, StreamReady
<1>8. \A o \in Outputs : lib[o] = "on" => t.uses[o] = set.uses[o]
  BY <1>3 DEF StreamReady
<1>9. Typed(t, outputType)
  BY <1>1, <1>3 DEF SetUpInv, Typed
<1> QED BY <1>3, <1>4, <1>5, <1>6, <1>7, <1>8, <1>9 DEF Later, StreamReady, t, w

(* A recording or the replay buffer.                                         *)
LEMMA RecordingMade ==
  ASSUME SetUpInv, NEW t, RecordingReady(t), NEW o \in Recordings
  PROVE  /\ Later(t, outputType) /\ Prepared(t) /\ Shared(t)
         /\ Ready(o, t)
<1>1. /\ t \in SetUp /\ Sharing(t) /\ AudioKept(t) /\ MadeWith(t) /\ Prepared(t) /\ Shared(t)
      /\ t.streamAudio = set.streamAudio /\ t.streamType = set.streamType
  BY DEF RecordingReady, Kept
<1>2. Typed(t, outputType)
  BY <1>1 DEF SetUpInv, Typed
<1>3. Later(t, outputType)
  BY <1>1, <1>2 DEF Later, RecordingReady
<1>4. o \in {"file", "replay"} /\ now \in Now
  BY RecordingNames DEF SetUpInv, DataTypes
<1>5. ASSUME WithEncoders(o)
      PROVE  /\ \E v \in VideoEncoders, a \in Encoders \ VideoEncoders : {v, a} \subseteq t.uses[o]
             /\ \A e \in t.uses[o] : Fresh(t, e)
             /\ \A e \in t.uses[o] \ (Running \cup {"recAudio"}) :
                  t.settings[e].version = now.version \/ (e \notin VideoEncoders /\ ~env.locked)
  <2>1. ~handler.ffmpeg
    BY <1>4, <1>5 DEF WithEncoders, Recordings
  <2>2. t.uses[o] = RecordingEncoders
    BY <1>1, <2>1 DEF Shared
  <2>3. CASE Simple /\ handler.useStream
    <3>1. RecordingEncoders = {"streamVideo", "track1"}
      BY <2>3, RecordingNames
    <3>2. SimpleReady(t)
      BY <1>1, <2>3 DEF Prepared
    <3>3. t.settings["streamVideo"].version = now.version
      BY <1>4, <3>2, Values DEF SimpleReady
    <3> QED BY <2>2, <3>1, <3>2, <3>3, Names DEF SimpleReady
  <2>4. CASE Simple /\ ~handler.useStream
    <3>1. RecordingEncoders = {"recVideo", "recAudio"}
      BY <2>4, RecordingNames
    <3>2. SimpleReady(t)
      BY <1>1, <2>4 DEF Prepared
    <3>3. t.settings["recVideo"].version = now.version \/ "recVideo" \in Running
      BY <2>1, <2>4 DEF RecordingReady
    <3> QED BY <2>1, <2>2, <2>4, <3>1, <3>2, <3>3, Names DEF SimpleReady
  <2>5. CASE ~Simple
    <3> DEFINE v == IF handler.useStream THEN "streamVideo" ELSE "recVideo"
    <3>1. RecordingEncoders = {v, "track1", "track2"} /\ v \in VideoEncoders
      BY <2>5, Names DEF RecordingEncoders
    <3>2. AdvReady(t)
      BY <1>1, <2>5 DEF Prepared
    <3>3. t.settings[v].version = now.version
      BY <1>1, <1>4, <2>1, <2>5, Values DEF MadeWith
    <3>4. \A k \in Tracks : t.settings[k].version = now.version
      BY <1>4, <3>2, Values DEF AdvReady
    <3> HIDE DEF v
    <3> QED BY <2>2, <3>1, <3>2, <3>3, <3>4, Names DEF AdvReady
  <2> QED BY <2>3, <2>4, <2>5
<1>6. ASSUME ~WithEncoders(o)
      PROVE  t.fileMedia = now.video /\ (env.locked => t.fileVersion = now.version)
  BY <1>1, <1>6 DEF WithEncoders, Prepared, SimpleReady, AdvReady, MadeWith
<1>7. Ready(o, t)
  BY <1>4, <1>5, <1>6 DEF Ready, Fresh
<1> QED BY <1>1, <1>3, <1>7

-----------------------------------------------------------------------------
(* The files.                                                                *)
Less == OpToRel(<, Nat)

(* A set of numbers has a least one.                                         *)
LEMMA MinIsMember ==
  ASSUME NEW S \in SUBSET Nat, S # {}
  PROVE  Min(S) \in S
<1>1. IsWellFoundedOn(Less, Nat)
  BY NatLessThanWellFounded, Zenon DEF Less
<1>2. PICK m \in S : \A n \in S : ~ (<<n, m>> \in Less)
  BY <1>1, WFMin
<1>3. \A n \in S : m <= n
  <2> TAKE n \in S
  <2>1. <<n, m>> \in Nat \X Nat /\ ~ (<<n, m>> \in Less)
    BY <1>2
  <2>2. ~ (n < m)
    BY <2>1, Zenon DEF Less, OpToRel
  <2> QED BY <2>2
<1>4. \E x \in S : \A y \in S : x <= y
  BY <1>3
<1> QED BY <1>4, Zenon DEF Min

(* Among the first names, one more than there are files, one is free, and    *)
(* FindBestFilename finds a free one.                                        *)
LEMMA NameIsFree ==
  ASSUME DataTypes
  PROVE  FindBestFilename \in Nat \ files
<1> DEFINE k == Cardinality(files)
           S == (1 .. k + 1) \ files
<1>1. files \in SUBSET Nat /\ IsFiniteSet(files) /\ k \in Nat
  BY FS_CardinalityType DEF DataTypes
<1> HIDE DEF k
<1>2. IsFiniteSet(1 .. k + 1) /\ Cardinality(1 .. k + 1) = k + 1
  BY <1>1, FS_Interval
<1>3. S # {}
  <2>1. SUFFICES ASSUME (1 .. k + 1) \subseteq files PROVE FALSE
    OBVIOUS
  <2>2. Cardinality(1 .. k + 1) <= Cardinality(files)
    BY <1>1, <2>1, FS_Subset
  <2> QED BY <1>1, <1>2, <2>2 DEF k
<1>4. Min(S) \in S
  BY <1>1, <1>3, MinIsMember
<1>5. FindBestFilename = Min(S)
  BY DEF FindBestFilename, k
<1> HIDE DEF S
<1> QED BY <1>1, <1>4, <1>5 DEF S

-----------------------------------------------------------------------------
(* The steps.                                                                *)

(* A new handler: nothing is set up but what it makes for good.              *)
LEMMA NewHandlerFields ==
  ASSUME NEW n \in Now
  PROVE  LET t == NewHandler(n)
         IN  /\ t \in SetUp
             /\ n.config.mode = "advanced" =>
                  t.settings["streamVideo"] = Own(n) /\ t.settings["recVideo"] = Own(n)
             /\ n.config.mode = "simple" => t.fileVersion = n.version
             /\ \A o \in Outputs : t.uses[o] = {}
             /\ t.streamAudio = "track1"
<1> DEFINE f == [e \in Encoders |-> IF n.config.mode = "advanced" /\ e \in VideoEncoders
                                    THEN Own(n) ELSE CreateAACEncoder]
           g == [e \in Encoders |-> 0]
           h == [o \in Outputs |-> {}]
           t == NewHandler(n)
<1>1. /\ f \in [Encoders -> Value]
      /\ n.config.mode = "advanced" => f["streamVideo"] = Own(n) /\ f["recVideo"] = Own(n)
  BY Values, Names DEF CreateAACEncoder, Value
<1>2. g \in [Encoders -> Nat] /\ h \in [Outputs -> SUBSET Encoders] /\ \A o \in Outputs : h[o] = {}
  OBVIOUS
<1>3. t = [settings |-> f, media |-> g, uses |-> h, fileMedia |-> 0,
           fileVersion |-> IF n.config.mode = "simple" THEN n.version ELSE 0,
           streamAudio |-> "track1", streamType |-> "none"]
  BY DEF NewHandler
<1> HIDE DEF f, g, h, t
<1>4. t \in SetUp
  BY <1>1, <1>2, <1>3, Names DEF SetUp, Value, Now
<1> QED BY <1>1, <1>2, <1>3, <1>4 DEF t

(* The invariant holds initially.                                            *)
LEMMA SetUpInit == Init => SetUpInv
<1> SUFFICES ASSUME Init PROVE SetUpInv
  OBVIOUS
<1>1. now \in Now /\ now.config \in Configs /\ handler = now.config /\ set = NewHandler(now)
  BY DEF Init, Now
<1>2. /\ set \in SetUp
      /\ now.config.mode = "advanced" =>
           set.settings["streamVideo"] = Own(now) /\ set.settings["recVideo"] = Own(now)
      /\ now.config.mode = "simple" => set.fileVersion = now.version
      /\ \A o \in Outputs : set.uses[o] = {}
      /\ set.streamAudio = "track1"
  BY <1>1, NewHandlerFields
<1>3. now.config.mode \in {"simple", "advanced"}
  BY <1>1 DEF Config
<1>4. DataTypes
  BY <1>1, <1>2, FS_EmptySet, Names DEF Init, DataTypes
<1>5. Kept(set)
  BY <1>1, <1>2, <1>3, Names, Values DEF Kept, Sharing, AudioKept, MadeWith, Simple
<1>6. Typed(set, outputType)
  BY <1>1, <1>2 DEF Init, Typed
<1>7. ~Busy /\ ~Recording /\ lib["replay"] = "off"
  BY Names DEF Init, Busy, Recording
<1> QED BY <1>4, <1>5, <1>6, <1>7 DEF SetUpInv

(* What no step may do to the set-up: StartsReady, RunningUnchanged.         *)
StartsStep ==
  \A o \in Outputs :
    lib[o] = "off" /\ lib'[o] # "off" =>
      /\ Ready(o, set')
      /\ o = "file" /\ ~now.config.overwrite => path' \notin files

RunningStep ==
  /\ \A o \in Outputs :
       lib[o] = "on" /\ lib'[o] = "on" => set'.uses[o] = set.uses[o]
  /\ \A e \in Running :
       /\ set'.media[e] = set.media[e] \/ ~Active'
       /\ now'.version = now.version => set'.settings[e] = set.settings[e]

(* A start leaves the present configuration as it is, so what it makes ready *)
(* stays so.                                                                 *)
LEMMA LaterStep ==
  ASSUME SetUpInv, UNCHANGED <<env, now, handler>>, DataTypes',
         Later(set', outputType'),
         Busy' => Busy \/ Prepared(set'),
         Recording' => Recording \/ Shared(set'),
         lib'["replay"] # "off" => "replay" \in Recordings
  PROVE  SetUpInv' /\ RunningStep
<1>1. Simple' = Simple /\ Recordings' = Recordings /\ RecordingEncoders' = RecordingEncoders
  BY DEF Simple, Recordings, RecordingEncoders, LoadRecordingPreset
<1>2. Own(now)' = Own(now) /\ Serviced(now)' = Serviced(now)
  OBVIOUS
<1>3. Kept(set)'
  BY <1>1, <1>2, Zenon DEF Later, Kept, Sharing, AudioKept, MadeWith, Fresh
<1>4. Typed(set, outputType)'
  BY <1>1, Zenon DEF Later, Typed
<1>5. Shared(set') => Shared(set)'
  BY <1>1, Zenon DEF Shared
<1>6. Prepared(set') => Prepared(set)'
  BY <1>1, <1>2, <1>5, Zenon DEF Prepared, SimpleReady, AdvReady, Fresh
<1>7. RunningStep
  BY DEF Later, RunningKept, RunningStep
<1> QED BY <1>1, <1>3, <1>4, <1>5, <1>6, <1>7 DEF SetUpInv, Later

(* A start of the stream.                                                    *)
LEMMA StartStreamingStep ==
  ASSUME SetUpInv, StartStreaming
  PROVE  SetUpInv' /\ StartsStep /\ RunningStep
<1> DEFINE s == IF Simple THEN Simple_Prepare(now, set) ELSE Adv_Prepare(now, set)
<1>1. /\ lib["stream"] = "off" /\ UNCHANGED <<env, now, handler, files, path>>
      /\ steps' \in 0..MaxSteps
      /\ lib \in [Outputs -> {"off", "connecting", "on"}] /\ DataTypes
      /\ now.config.codec \in {"aac", "other"}
  BY DEF StartStreaming, Step, SetUpInv, DataTypes, Now, Config
<1>2. StreamReady(s)
  BY <1>1, SimpleStream, AdvPrepared
<1>3. StreamOutput(s)
  <2>1. (Simple /\ StreamOutput(Simple_Prepare(now, set)))
          \/ (~Simple /\ StreamOutput(Adv_Prepare(now, set)))
    BY DEF StartStreaming, Simple_StartStreaming, Adv_StartStreaming, Simple
  <2> QED BY <2>1
<1> HIDE DEF s
<1>4. CASE /\ outputType # now.config.codec
           /\ set' = [Uses(s, {"stream"}, {}) EXCEPT !.streamType = "none"]
           /\ UNCHANGED <<outputType, lib>>
  <2>1. Later(set', outputType')
    BY <1>1, <1>2, <1>4, StreamLost
  <2>2. DataTypes'
    BY <1>1, <1>4, <2>1 DEF DataTypes, Later
  <2>3. SetUpInv' /\ RunningStep
    BY <1>1, <1>4, <2>1, <2>2, LaterStep DEF Busy, Recording, SetUpInv
  <2> QED BY <1>4, <2>3 DEF StartsStep
<1>5. CASE /\ set' = Uses(WithType(s), {"stream"}, {"streamVideo", WithType(s).streamAudio})
           /\ outputType' = now.config.codec
           /\ Start("stream")
  <2>1. Later(set', outputType') /\ Prepared(set') /\ Ready("stream", set')
    BY <1>1, <1>2, <1>5, StreamMade
  <2>2. /\ lib' \in [Outputs -> {"off", "connecting", "on"}]
        /\ \A o \in Outputs \ {"stream"} : lib'[o] = lib[o]
    BY <1>1, <1>5 DEF Start
  <2>3. DataTypes'
    BY <1>1, <1>5, <2>1, <2>2, Names DEF DataTypes, Later
  <2>4. SetUpInv' /\ RunningStep
    BY <1>1, <2>1, <2>2, <2>3, LaterStep, Names DEF Recording, SetUpInv
  <2> QED BY <2>1, <2>2, <2>4, Names DEF StartsStep
<1> QED BY <1>3, <1>4, <1>5 DEF StreamOutput, WithType, Simple

(* A start of a recording or of the replay buffer.                           *)
LEMMA StartRecordingStep ==
  ASSUME SetUpInv, StartRecording \/ StartReplayBuffer
  PROVE  SetUpInv' /\ StartsStep /\ RunningStep
<1>1. /\ UNCHANGED <<env, now, handler, outputType>>
      /\ steps' \in 0..MaxSteps
      /\ lib \in [Outputs -> {"off", "connecting", "on"}] /\ DataTypes
      /\ UpdateRecording
  BY DEF StartRecording, StartReplayBuffer, Step, SetUpInv, DataTypes
<1>2. RecordingReady(set')
  <2>1. CASE Simple
    BY <1>1, <2>1, SimpleRecording DEF UpdateRecording, Simple
  <2>2. CASE ~Simple
    BY <1>1, <2>2, AdvRecording DEF UpdateRecording, Simple
  <2> QED BY <2>1, <2>2
<1>3. \A o \in Recordings : Later(set', outputType') /\ Prepared(set') /\ Shared(set') /\ Ready(o, set')
  BY <1>1, <1>2, RecordingMade
<1>4. Later(set', outputType') /\ Prepared(set') /\ Shared(set') /\ Ready("file", set')
  BY <1>3, RecordingNames
<1>5. PICK o \in Recordings :
        \/ lib' = lib
        \/ lib' = [lib EXCEPT ![o] = "on"] /\ o # "stream"
  <2>1. CASE StartRecording
    <3>1. lib' = lib \/ lib' = [lib EXCEPT !["file"] = "on"]
      BY <2>1 DEF StartRecording, ConfigureRecording, Start
    <3> QED BY <3>1, RecordingNames
  <2>2. CASE StartReplayBuffer
    BY <2>2 DEF StartReplayBuffer, Start
  <2> QED BY <2>1, <2>2
<1>6. /\ lib' \in [Outputs -> {"off", "connecting", "on"}]
      /\ lib'["stream"] = lib["stream"]
      /\ \A p \in Outputs : lib'[p] = lib[p] \/ (p = o /\ lib'[p] = "on")
  BY <1>1, <1>5, RecordingNames, Names
<1>7. /\ files' \in SUBSET Nat /\ IsFiniteSet(files') /\ path' \in Nat
      /\ lib["file"] = "off" /\ lib'["file"] # "off" /\ ~now.config.overwrite => path' \notin files
  <2>1. files \in SUBSET Nat /\ IsFiniteSet(files) /\ path \in Nat
    BY <1>1 DEF DataTypes
  <2>2. CASE StartReplayBuffer
    <3>1. lib'["file"] = lib["file"]
      BY <1>1, <2>2, Names DEF StartReplayBuffer, Start
    <3> QED BY <2>1, <2>2, <3>1 DEF StartReplayBuffer
  <2>3. CASE StartRecording /\ UNCHANGED <<lib, files, path>>
    BY <2>1, <2>3
  <2>4. CASE StartRecording /\ ConfigureRecording
    <3>1. path' = IF now.config.overwrite THEN 1 ELSE FindBestFilename
      BY <2>4 DEF ConfigureRecording
    <3>2. FindBestFilename \in Nat \ files
      BY <1>1, NameIsFree
    <3>3. files' = files \/ files' = files \cup {path'}
      BY <2>4 DEF ConfigureRecording
    <3>4. IsFiniteSet(files \cup {path'})
      BY <2>1, FS_AddElement
    <3>5. path' \in Nat /\ (~now.config.overwrite => path' \notin files)
      BY <3>1, <3>2
    <3>6. files' \in SUBSET Nat
      BY <2>1, <3>3, <3>5
    <3>7. IsFiniteSet(files')
      BY <2>1, <3>3, <3>4, Zenon
    <3> QED BY <3>5, <3>6, <3>7
  <2> QED BY <2>2, <2>3, <2>4 DEF StartRecording
<1>8. DataTypes'
  BY <1>1, <1>4, <1>6, <1>7, Names DEF DataTypes, Later
<1>9. lib'["replay"] # "off" => "replay" \in Recordings
  BY <1>6, Names DEF SetUpInv
<1>10. SetUpInv' /\ RunningStep
  BY <1>1, <1>4, <1>8, <1>9, LaterStep
<1>11. StartsStep
  BY <1>3, <1>6, <1>7, Names DEF StartsStep
<1> QED BY <1>10, <1>11

(* An output connects or ends.                                               *)
LEMMA LibStep ==
  ASSUME SetUpInv, Lib_Connected \/ \E o \in Outputs : Lib_Stopped(o)
  PROVE  SetUpInv' /\ StartsStep /\ RunningStep
<1>1. /\ UNCHANGED <<env, now, handler, set, outputType, files, path, steps>>
      /\ lib \in [Outputs -> {"off", "connecting", "on"}] /\ DataTypes
      /\ lib' \in [Outputs -> {"off", "connecting", "on"}]
      /\ \A o \in Outputs : \/ lib'[o] = lib[o] \/ lib'[o] = "off"
                            \/ o = "stream" /\ lib[o] # "off"
  BY Names DEF Lib_Connected, Lib_Stopped, SetUpInv, DataTypes
<1>2. DataTypes'
  BY <1>1, Names DEF DataTypes
<1>3. /\ Busy' => Busy
      /\ Recording' => Recording
      /\ lib'["replay"] # "off" => "replay" \in Recordings
  BY <1>1, Names DEF Busy, Recording, SetUpInv
<1>4. Later(set', outputType')
  <2>1. set' = set /\ outputType' = outputType
    BY <1>1
  <2> QED BY <2>1 DEF Later, SetUpInv, DataTypes, RunningKept
<1>5. SetUpInv' /\ RunningStep
  BY <1>1, <1>2, <1>3, <1>4, LaterStep
<1>6. StartsStep
  BY <1>1, Names DEF StartsStep
<1> QED BY <1>5, <1>6

(* New video: no output is busy, and what is kept does not depend on it.     *)
LEMMA ResetVideoStep ==
  ASSUME SetUpInv, ResetVideo
  PROVE  SetUpInv' /\ StartsStep /\ RunningStep
<1>1. /\ UNCHANGED <<env, handler, set, outputType, lib, files, path>>
      /\ steps' \in 0..MaxSteps /\ DataTypes
      /\ \A o \in Outputs : lib[o] = "off"
      /\ now' = [now EXCEPT !.video = @ + 1]
  BY DEF ResetVideo, Step, SetUpInv, DataTypes
<1>2. now' \in Now /\ now'.version = now.version /\ now'.config = now.config
  BY <1>1 DEF DataTypes, Now
<1>3. ~Busy' /\ ~Recording' /\ lib'["replay"] = "off" /\ ~Active
  BY <1>1, Names DEF Busy, Recording, Active
<1>4. DataTypes'
  BY <1>1, <1>2 DEF DataTypes
<1>5. Simple' = Simple /\ RecordingEncoders' = RecordingEncoders /\ Own(now)' = Own(now)
  BY <1>1, <1>2 DEF Simple, RecordingEncoders, LoadRecordingPreset, Own
<1>6. Kept(set)'
  <2>1. Sharing(set)'
    BY <1>1, <1>5 DEF SetUpInv, Kept, Sharing
  <2>2. AudioKept(set)'
    BY <1>1, <1>2, <1>5, Names DEF SetUpInv, Kept, AudioKept, Fresh
  <2>3. MadeWith(set)'
    BY <1>1, <1>2, <1>5 DEF SetUpInv, Kept, MadeWith
  <2> QED BY <2>1, <2>2, <2>3 DEF Kept
<1>7. Typed(set, outputType)'
  BY <1>1, <1>2, <1>5 DEF SetUpInv, Typed
<1>8. SetUpInv'
  BY <1>3, <1>4, <1>6, <1>7 DEF SetUpInv
<1>9. Running = {}
  BY <1>3, NothingRuns
<1>10. StartsStep /\ RunningStep
  BY <1>1, <1>9 DEF StartsStep, RunningStep
<1> QED BY <1>8, <1>10

(* The configuration chosen is a new version.                                *)
LEMMA NowStep ==
  ASSUME DataTypes, NEW c \in Configs, ResetOutputs(c)
  PROVE  /\ now' \in Now /\ now'.config = c /\ now'.video = now.video
         /\ now'.version # now.version
<1>1. now \in Now /\ now.version \in Nat
  BY DEF DataTypes, Now
<1>2. now' = [config |-> c, version |-> now.version + 1, video |-> now.video]
  BY <1>1 DEF Now, ResetOutputs
<1> QED BY <1>1, <1>2 DEF Now

(* A new configuration for a handler no output of which is active.           *)
LEMMA HandlerStep ==
  ASSUME SetUpInv, NEW c \in Configs, ResetOutputs(c), ~Active
  PROVE  SetUpInv' /\ StartsStep /\ RunningStep
<1>1. /\ UNCHANGED <<env, lib, files, path>>
      /\ steps' \in 0..MaxSteps /\ DataTypes
      /\ now' = [now EXCEPT !.config = c, !.version = @ + 1]
      /\ handler' = c /\ set' = NewHandler(now') /\ outputType' = "none"
      /\ lib["stream"] # "connecting"
  BY DEF ResetOutputs, Step, SetUpInv, DataTypes
<1>2. /\ now' \in Now /\ now'.config = c
      /\ c.mode \in {"simple", "advanced"}
  <2>1. c.mode \in {"simple", "advanced"}
    BY DEF Config
  <2> QED BY <2>1, NowStep DEF SetUpInv
<1>3. \A o \in Outputs : lib[o] = "off"
  BY <1>1, Names DEF Active, DataTypes
<1>4. ~Busy' /\ ~Recording' /\ lib'["replay"] = "off"
  BY <1>1, <1>3, Names DEF Busy, Recording
<1>5. /\ set' \in SetUp
      /\ now'.config.mode = "advanced" =>
           set'.settings["streamVideo"] = Own(now') /\ set'.settings["recVideo"] = Own(now')
      /\ now'.config.mode = "simple" => set'.fileVersion = now'.version
      /\ \A o \in Outputs : set'.uses[o] = {}
      /\ set'.streamAudio = "track1"
  BY <1>1, <1>2, NewHandlerFields
<1>6. DataTypes'
  BY <1>1, <1>2, <1>5 DEF DataTypes
<1>7. Kept(set)'
  <2>1. Sharing(set)'
    BY <1>5, Names DEF Sharing
  <2>2. AudioKept(set)'
    BY <1>5, Names DEF AudioKept
  <2>3. Own(now)' = Own(now') /\ Own(now').version = now'.version
    BY <1>2, Values
  <2>4. MadeWith(set)'
    BY <1>1, <1>2, <1>5, <2>3 DEF MadeWith, Simple
  <2> QED BY <2>1, <2>2, <2>4 DEF Kept
<1>8. Typed(set, outputType)'
  BY <1>1, <1>2, <1>5 DEF Typed
<1>9. SetUpInv'
  BY <1>4, <1>6, <1>7, <1>8 DEF SetUpInv
<1>10. Running = {}
  BY NothingRuns
<1>11. StartsStep /\ RunningStep
  BY <1>1, <1>3, <1>10 DEF StartsStep, RunningStep
<1> QED BY <1>9, <1>11

(* A new configuration while an output is active: the encoders of the handler *)
(* there is get the new settings.                                            *)
LEMMA UpdateStep ==
  ASSUME SetUpInv, NEW c \in Configs, ResetOutputs(c), Active
  PROVE  SetUpInv' /\ StartsStep /\ RunningStep
<1>1. /\ UNCHANGED <<env, handler, outputType, lib, files, path>>
      /\ steps' \in 0..MaxSteps /\ DataTypes
      /\ now' = [now EXCEPT !.config = c, !.version = @ + 1]
      /\ set' = IF Simple THEN Simple_Update(now', set) ELSE Adv_Update(now', set)
      /\ ~env.locked /\ Busy
      /\ set \in SetUp /\ Sharing(set) /\ AudioKept(set) /\ Prepared(set)
      /\ Typed(set, outputType)
  BY DEF ResetOutputs, Step, SetUpInv, DataTypes, Kept, Active, Busy, Simple
<1>2. /\ now' \in Now /\ now'.config = c /\ now'.video = now.video
      /\ now'.version # now.version
  BY NowStep DEF SetUpInv
<1>3. /\ Simple' = Simple /\ RecordingEncoders' = RecordingEncoders /\ Recordings' = Recordings
      /\ Busy' = Busy /\ Recording' = Recording /\ Active' = Active
  BY <1>1 DEF Simple, RecordingEncoders, LoadRecordingPreset, Recordings, Busy, Recording, Active
<1>4. /\ Own(now)' = Own(now') /\ Serviced(now)' = Serviced(now')
      /\ Own(now').version = now'.version /\ Serviced(now').version = now'.version
  BY <1>2, Values
<1>5. /\ set' \in SetUp /\ SameOutputs(set, set') /\ set'.media = set.media
      /\ set'.fileMedia = set.fileMedia
      /\ set'.settings["streamVideo"] = Serviced(now')
      /\ ~Simple => \A k \in Tracks : set'.settings[k] = IF k = c.track THEN Serviced(now') ELSE Own(now')
      /\ ~Simple /\ ~handler.useStream /\ ~handler.ffmpeg => set'.settings["recVideo"] = Own(now')
  <2>1. CASE Simple
    <3>1. set' = Simple_Update(now', set)
      BY <1>1, <2>1
    <3> QED BY <1>1, <1>2, <2>1, <3>1, SimpleUpdateFields, Names
  <2>2. CASE ~Simple
    <3> DEFINE a == Settings(set, {"streamVideo"}, Serviced(now'))
               b == Settings(a, {"recVideo"}, Own(now'))
               u == IF handler.useStream \/ handler.ffmpeg THEN a ELSE b
    <3>1. set' = Adv_UpdateAudioSettings(now', u)
      BY <1>1, <2>2 DEF Adv_Update, Adv_UpdateStreamSettings, Adv_UpdateRecordingSettings
    <3>2. /\ a \in SetUp /\ SameOutputs(set, a) /\ a.media = set.media
          /\ a.fileMedia = set.fileMedia
          /\ a.settings["streamVideo"] = Serviced(now')
      BY <1>1, <1>2, SettingsFields, Values, Names DEF SameOutputs
    <3> HIDE DEF a
    <3>3. /\ b \in SetUp /\ SameOutputs(a, b) /\ b.media = a.media
          /\ b.fileMedia = a.fileMedia
          /\ b.settings["streamVideo"] = a.settings["streamVideo"]
          /\ b.settings["recVideo"] = Own(now')
      BY <1>1, <1>2, <3>2, SettingsFields, Values, Names DEF SameOutputs
    <3> HIDE DEF b
    <3>4. /\ u \in SetUp /\ SameOutputs(set, u) /\ u.media = set.media
          /\ u.fileMedia = set.fileMedia
          /\ u.settings["streamVideo"] = Serviced(now')
          /\ ~handler.useStream /\ ~handler.ffmpeg => u.settings["recVideo"] = Own(now')
      BY <3>2, <3>3 DEF SameOutputs
    <3> HIDE DEF u
    <3>5. /\ set' \in SetUp /\ now'.config.track \in Tracks
          /\ \A e \in Encoders :
               set'.settings[e] = IF e = now'.config.track THEN Serviced(now')
                                  ELSE IF e \in Tracks THEN Own(now') ELSE u.settings[e]
          /\ set'.media = u.media /\ SameOutputs(u, set')
          /\ set'.fileMedia = u.fileMedia
      BY <1>2, <3>1, <3>4, AdvAudioFields
    <3> QED BY <1>2, <2>2, <3>4, <3>5, Names DEF SameOutputs
  <2> QED BY <2>1, <2>2
<1>6. DataTypes'
  BY <1>1, <1>2, <1>5 DEF DataTypes
<1>7. Kept(set)'
  <2>1. Sharing(set)'
    BY <1>1, <1>3, <1>5 DEF Sharing, SameOutputs
  <2>2. AudioKept(set)'
    BY <1>1, <1>2, <1>3, <1>5, Names DEF AudioKept, Fresh, SameOutputs
  <2>3. MadeWith(set)'
    BY <1>1, <1>3, <1>4, <1>5 DEF MadeWith
  <2> QED BY <2>1, <2>2, <2>3 DEF Kept
<1>8. Typed(set, outputType)'
  BY <1>1, <1>5 DEF Typed, SameOutputs
<1>9. Shared(set) => Shared(set)'
  BY <1>1, <1>3, <1>5 DEF Shared, SameOutputs
<1>10. Prepared(set)'
  <2>1. CASE Simple
    BY <1>1, <1>2, <1>3, <1>4, <1>5, <2>1 DEF Prepared, SimpleReady, Fresh
  <2>2. CASE ~Simple
    <3>1. AdvReady(set) /\ Shared(set)'
      BY <1>1, <1>9, <2>2 DEF Prepared, AdvReady
    <3> QED BY <1>1, <1>2, <1>3, <1>4, <1>5, <2>2, <3>1 DEF Prepared, AdvReady, Fresh
  <2> QED BY <2>1, <2>2
<1>11. SetUpInv'
  BY <1>1, <1>3, <1>6, <1>7, <1>8, <1>9, <1>10 DEF SetUpInv
<1>12. StartsStep /\ RunningStep
  BY <1>1, <1>2, <1>5 DEF StartsStep, RunningStep, SameOutputs
<1> QED BY <1>11, <1>12

(* Every step keeps the invariant, makes ready what it starts and leaves     *)
(* alone what runs.                                                          *)
LEMMA SetUpStep ==
  SetUpInv /\ [Next]_vars => SetUpInv' /\ [StartsStep]_vars /\ [RunningStep]_vars
<1> SUFFICES ASSUME SetUpInv, [Next]_vars
             PROVE  SetUpInv' /\ [StartsStep]_vars /\ [RunningStep]_vars
  OBVIOUS
<1>1. CASE Next
  <2>1. CASE StartStreaming
    BY <2>1, StartStreamingStep
  <2>2. CASE StartRecording \/ StartReplayBuffer
    BY <2>2, StartRecordingStep
  <2>3. CASE Lib_Connected \/ \E o \in Outputs : Lib_Stopped(o)
    BY <2>3, LibStep
  <2>4. ASSUME NEW c \in Configs, ResetOutputs(c)
        PROVE  SetUpInv' /\ StartsStep /\ RunningStep
    BY <2>4, HandlerStep, UpdateStep
  <2>5. CASE ResetVideo
    BY <2>5, ResetVideoStep
  <2> QED BY <1>1, <2>1, <2>2, <2>3, <2>4, <2>5 DEF Next
<1>2. CASE UNCHANGED vars
  <2>1. /\ UNCHANGED <<env, now, handler, set, outputType, lib, files, path, steps>>
        /\ DataTypes /\ DataTypes'
    BY <1>2 DEF vars, SetUpInv, DataTypes
  <2>2. /\ Busy' = Busy /\ Recording' = Recording
        /\ lib'["replay"] # "off" => "replay" \in Recordings
    BY <2>1 DEF Busy, Recording, SetUpInv
  <2>3. Later(set', outputType')
    <3>1. set' = set /\ outputType' = outputType
      BY <2>1
    <3> QED BY <3>1 DEF Later, SetUpInv, DataTypes, RunningKept
  <2>4. SetUpInv'
    BY <2>1, <2>2, <2>3, LaterStep
  <2> QED BY <1>2, <2>4
<1> QED BY <1>1, <1>2

(* The set-up is what the handler's configuration says, from the first state *)
(* on.                                                                       *)
LEMMA SetUpInvariant == Spec => []SetUpInv
<1>1. SetUpInv /\ [Next]_vars => SetUpInv'
  BY SetUpStep
<1> QED BY <1>1, SetUpInit, PTL DEF Spec

(* Every variable keeps its type, and the outputs that use encoders have     *)
(* exactly one for the video.                                                *)
THEOREM TypeCorrect == Spec => []TypeOK
<1>1. SetUpInv => TypeOK
  <2> SUFFICES ASSUME SetUpInv PROVE TypeOK
    OBVIOUS
  <2>1. \A o \in Outputs :
          set.uses[o] # {} => \E v \in VideoEncoders : set.uses[o] \cap VideoEncoders = {v}
    <3>1. RecordingEncoders \cap VideoEncoders = {IF handler.useStream THEN "streamVideo" ELSE "recVideo"}
      BY Names DEF RecordingEncoders, LoadRecordingPreset
    <3>2. ASSUME NEW a \in Tracks \cup {"alt"}
          PROVE  {"streamVideo", a} \cap VideoEncoders = {"streamVideo"}
      BY Names
    <3> QED BY <3>1, <3>2, Names DEF SetUpInv, Kept, Sharing
  <2>2. \A o \in Outputs : set.uses[o] # {} => Cardinality(set.uses[o] \cap VideoEncoders) = 1
    BY <2>1, FS_Singleton
  <2> QED BY <2>2 DEF TypeOK, SetUpInv, DataTypes, Now
<1> QED BY <1>1, SetUpInvariant, PTL

(* An output that starts has all it needs, after any starts, stops, failures *)
(* and changes: encoders with the present input and settings, for a stream   *)
(* the limits of its service, and a file of its own.                         *)
THEOREM StartsCorrect == Spec => StartsReady
<1>1. SetUpInv /\ [Next]_vars => [StartsStep]_vars
  BY SetUpStep
<1> QED BY <1>1, SetUpInvariant, TypeCorrect, PTL DEF Spec, StartsReady, StartsStep

(* Nothing changes under an output that runs, whatever else is started.      *)
THEOREM RunningCorrect == Spec => RunningUnchanged
<1>1. SetUpInv /\ [Next]_vars => [RunningStep]_vars
  BY SetUpStep
<1> QED BY <1>1, SetUpInvariant, PTL DEF Spec, RunningUnchanged, RunningStep
=============================================================================
