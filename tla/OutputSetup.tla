----------------------------- MODULE OutputSetup -----------------------------
(***************************************************************************)
(* What an output is given when it starts (SimpleOutput, AdvancedOutput of *)
(* UI/window-basic-main-outputs.cpp): its encoders, their settings and     *)
(* where they get frames and samples from, and the file it writes.         *)
(*                                                                         *)
(* One handler is modelled: the window has one for the stream and the      *)
(* recordings and one for the FLV stream, which share nothing.  When they  *)
(* start and stop is the business of OutputControl; here a start is one    *)
(* step, which happens if the output is off.                               *)
(*                                                                         *)
(* The values of settings are left out: settings are known by the version  *)
(* of the configuration they were made from, and by whether the service    *)
(* had its say.  The video of libobs is known by the number of its resets, *)
(* which libobs refuses while an output is active; its audio stays as it   *)
(* is.  The user changes neither the video nor the configuration while a   *)
(* stream connects (a new handler would take the stream's output with it). *)
(*                                                                         *)
(* A definition named Op_Fault is Op with a fault in it, for checking that *)
(* the properties notice; no specification uses it.                        *)
(***************************************************************************)
EXTENDS Integers, FiniteSets, FiniteSetsExt

CONSTANTS
  Configs,       \* the configurations the user may choose
  MaxSteps,      \* bound on starts and changes
  Environments   \* the surroundings, see Environment

(* mode: the kind of handler.  useStream: recordings use the encoders of   *)
(* the stream (quality "Stream", recording encoder "none").  ffmpeg:       *)
(* recordings are made by ffmpeg without encoders of libobs.  replay: there *)
(* is a replay buffer.  codec: the audio codec of the stream output.       *)
(* track: the audio track that is streamed.  overwrite: of files.          *)
Config == [mode : {"simple", "advanced"}, useStream : BOOLEAN,
           ffmpeg : BOOLEAN, replay : BOOLEAN, codec : {"aac", "other"},
           track : {"track1", "track2"}, overwrite : BOOLEAN]

(* locked: the configuration does not change while an output is active.    *)
Environment == [locked : BOOLEAN]

ASSUME OutputSetupAssumption ==
  /\ Configs \subseteq Config
  /\ \A c \in Configs : c.mode = "simple" => ~(c.useStream /\ c.ffmpeg)
  /\ MaxSteps \in Nat
  /\ Environments \subseteq Environment

Tracks == {"track1", "track2"}
VideoEncoders == {"streamVideo", "recVideo"}
Encoders == VideoEncoders \cup Tracks \cup {"recAudio", "alt"}
Outputs == {"stream", "file", "replay"}

VARIABLES
  env,        \* the environment of this behaviour, which stays as it is
  now,        \* the configuration, its version, the generation of the video
  handler,    \* the configuration the handler was made for
  set,        \* what was set, see SetUp
  outputType, \* outputType, by its codec
  lib,        \* each output: "off", "connecting" or active, "on"
  files,      \* history: the files there are, by the number in their name
  path,       \* the file the recording writes, or 0
  steps       \* the number of starts and changes so far

vars == <<env, now, handler, set, outputType, lib, files, path, steps>>

(* settings, media: of each encoder, its settings and the generation of    *)
(* the video it takes its input from (1 for the audio, 0 for none).  uses: *)
(* the encoders of each output.                                            *)
(* fileMedia, fileVersion: the same for a recording by ffmpeg.             *)
(* streamAudio: aacStreaming, streamAudioEnc.  streamType: the type of     *)
(* streamOutput, by its codec.                                             *)
SetUp == [settings : [Encoders -> [version : Nat, service : BOOLEAN]],
          media : [Encoders -> Nat],
          uses : [Outputs -> SUBSET Encoders],
          fileMedia : Nat,
          fileVersion : Nat,
          streamAudio : Encoders,
          streamType : {"none", "aac", "other"}]

(* streamingActive, recordingActive, replayBufferActive follow the outputs. *)
Active == \E o \in Outputs : lib[o] = "on"
Running == UNION {set.uses[o] : o \in {x \in Outputs : lib[x] = "on"}}

-----------------------------------------------------------------------------
(* A set-up is made step by step: each operator gives the one after it,    *)
(* from the configuration n as it is now.                                  *)
Own(n) == [version |-> n.version, service |-> FALSE]
Serviced(n) == [version |-> n.version, service |-> TRUE]

(* obs_encoder_update.                                                     *)
Settings(s, es, value) ==
  [s EXCEPT !.settings = [e \in Encoders |-> IF e \in es THEN value ELSE @[e]]]

(* obs_encoder_set_video, obs_encoder_set_audio: libobs leaves an encoder  *)
(* that runs as it is.                                                     *)
Media(n, s, es) ==
  [s EXCEPT !.media = [e \in Encoders |->
                         IF e \notin es \ Running THEN @[e]
                         ELSE IF e \in VideoEncoders THEN n.video ELSE 1]]

(* obs_output_set_video_encoder, obs_output_set_audio_encoder.             *)
Uses(s, os, es) ==
  [s EXCEPT !.uses = [o \in Outputs |-> IF o \in os THEN es ELSE @[o]]]

Recordings == IF handler.replay /\ ~handler.ffmpeg THEN {"file", "replay"}
              ELSE {"file"}

-----------------------------------------------------------------------------
(* SimpleOutput.                                                           *)

LoadRecordingPreset ==
  IF handler.useStream THEN {"streamVideo", "track1"} ELSE {"recVideo", "recAudio"}

Simple_Update(n, s) == Settings(s, {"streamVideo", s.streamAudio}, Serviced(n))

Simple_SetupOutputs_StreamOnly(n, s) ==
  Media(n, Simple_Update(n, s), {"streamVideo", s.streamAudio})

Simple_SetupOutputs(n, s) ==
  LET stream == Media(n, Simple_Update(n, s), {"streamVideo", s.streamAudio})
  IN  IF handler.ffmpeg THEN [stream EXCEPT !.fileMedia = n.video]
      ELSE IF handler.useStream THEN stream
      ELSE Media(n, stream, {"recVideo", "recAudio"})

Simple_UpdateRecordingSettings(n, s) == Settings(s, {"recVideo"}, Own(n))

Simple_UpdateIdle(n, s) ==
  LET updated ==
        IF handler.ffmpeg THEN s
        ELSE IF ~handler.useStream THEN Simple_UpdateRecordingSettings(n, s)
        ELSE IF lib["stream"] # "on" THEN Simple_Update(n, s) ELSE s
      setup == IF Active THEN updated ELSE Simple_SetupOutputs(n, updated)
  IN  IF handler.ffmpeg THEN setup ELSE Uses(setup, Recordings, LoadRecordingPreset)

(* UpdateRecording: the replay buffer and the recording share encoders, so *)
(* nothing is done while one of them is active.                            *)
Simple_UpdateRecording_Always(n, s) == Simple_UpdateIdle(n, s)

Simple_UpdateRecording(n, s) ==
  IF "on" \in {lib["replay"], lib["file"]} THEN s ELSE Simple_UpdateIdle(n, s)

(* StartStreaming before it makes an output.                               *)
Simple_Prepare(n, s) == IF Active THEN s ELSE Simple_SetupOutputs(n, s)

(* The audio encoder for an output of another type: one for its codec, if  *)
(* that is not AAC.                                                        *)
Alternative(n, s) ==
  Media(n, Settings([s EXCEPT !.streamAudio = "alt"], {"alt"}, Own(n)), {"alt"})

Simple_StreamAudio(n, s) ==
  IF n.config.codec = "aac" THEN s ELSE Alternative(n, s)

-----------------------------------------------------------------------------
(* AdvancedOutput.                                                         *)

Adv_UpdateStreamSettings(n, s) == Settings(s, {"streamVideo"}, Serviced(n))
Adv_UpdateRecordingSettings(n, s) == Settings(s, {"recVideo"}, Own(n))

(* The service has its say about the track that is streamed.               *)
Adv_UpdateAudioSettings(n, s) ==
  Settings(Settings(s, Tracks, Own(n)), {n.config.track}, Serviced(n))

Adv_Update(n, s) ==
  LET stream == Adv_UpdateStreamSettings(n, s)
  IN  Adv_UpdateAudioSettings(n,
        IF handler.useStream \/ handler.ffmpeg THEN stream
        ELSE Adv_UpdateRecordingSettings(n, stream))

(* A recording has all tracks.                                             *)
Adv_SetupRecording(n, s) ==
  LET v == IF handler.useStream THEN "streamVideo" ELSE "recVideo"
  IN  Uses(Media(n, s, {v}), Recordings, {v} \cup Tracks)

Adv_SetupFFmpeg(n, s) == [s EXCEPT !.fileMedia = n.video, !.fileVersion = n.version]

Adv_SetupStreaming(n, s) == Media(n, s, {"streamVideo"})

Adv_SetupOutputs(n, s) ==
  LET all == Adv_SetupStreaming(n, Media(n, s, VideoEncoders \cup Tracks))
  IN  IF handler.ffmpeg THEN Adv_SetupFFmpeg(n, all) ELSE Adv_SetupRecording(n, all)

(* StartStreaming before it makes an output.                               *)
Adv_Prepare(n, s) ==
  LET updated == IF ~handler.useStream \/ (~handler.ffmpeg /\ lib["file"] # "on")
                 THEN Adv_UpdateStreamSettings(n, s) ELSE s
      audio == Adv_UpdateAudioSettings(n, updated)
  IN  IF Active THEN audio ELSE Adv_SetupOutputs(n, audio)

Adv_StreamAudio(n, s) ==
  IF n.config.codec = "aac" THEN [s EXCEPT !.streamAudio = n.config.track]
  ELSE Alternative(n, s)

(* StartRecording and StartReplayBuffer before they look for the folder.   *)
Adv_UpdateRecording(n, s) ==
  LET updated ==
        IF handler.useStream
        THEN IF lib["stream"] # "on" THEN Adv_UpdateStreamSettings(n, s) ELSE s
        ELSE IF handler.ffmpeg THEN s ELSE Adv_UpdateRecordingSettings(n, s)
      audio == Adv_UpdateAudioSettings(n, updated)
  IN  IF Active THEN audio ELSE Adv_SetupOutputs(n, audio)

-----------------------------------------------------------------------------
(* The constructors: CreateAACEncoder and SimpleOutput's encoders have     *)
(* default settings, AdvancedOutput's video encoders those of the files,   *)
(* and SimpleOutput's ffmpeg has its settings for good.                    *)
CreateAACEncoder == [version |-> 0, service |-> FALSE]

NewHandler(n) ==
  [settings |-> [e \in Encoders |->
                   IF n.config.mode = "advanced" /\ e \in VideoEncoders
                   THEN Own(n) ELSE CreateAACEncoder],
   media |-> [e \in Encoders |-> 0],
   uses |-> [o \in Outputs |-> {}],
   fileMedia |-> 0,
   fileVersion |-> IF n.config.mode = "simple" THEN n.version ELSE 0,
   streamAudio |-> "track1",
   streamType |-> "none"]

Init ==
  /\ env \in Environments
  /\ now \in [config : Configs, version : {1}, video : {1}]
  /\ handler = now.config
  /\ set = NewHandler(now)
  /\ outputType = "none"
  /\ lib = [o \in Outputs |-> "off"]
  /\ files = {}
  /\ path = 0
  /\ steps = 0

Step == steps < MaxSteps /\ steps' = steps + 1

-----------------------------------------------------------------------------
(* obs_output_start: streams connect, recordings are active at once, and   *)
(* either may fail.                                                        *)
Start(o) ==
  \/ UNCHANGED lib
  \/ lib' = [lib EXCEPT ![o] = IF o = "stream" THEN "connecting" ELSE "on"]

(* An output of the type the stream needs: the one there is, or a new one, *)
(* which may not be made or have no audio codec; then outputType stays.    *)
StreamOutput(s) ==
  \/ /\ set' = LET typed == IF outputType = now.config.codec THEN s
                            ELSE [IF handler.mode = "simple"
                                  THEN Simple_StreamAudio(now, s)
                                  ELSE Adv_StreamAudio(now, s)
                                  EXCEPT !.streamType = now.config.codec]
               IN  Uses(typed, {"stream"}, {"streamVideo", typed.streamAudio})
     /\ outputType' = now.config.codec
     /\ Start("stream")
  \/ /\ outputType # now.config.codec
     /\ set' = [Uses(s, {"stream"}, {}) EXCEPT !.streamType = "none"]
     /\ UNCHANGED <<outputType, lib>>

Simple_StartStreaming ==
  handler.mode = "simple" /\ StreamOutput(Simple_Prepare(now, set))

Adv_StartStreaming ==
  handler.mode = "advanced" /\ StreamOutput(Adv_Prepare(now, set))

StartStreaming ==
  /\ Step
  /\ lib["stream"] = "off"
  /\ Simple_StartStreaming \/ Adv_StartStreaming
  /\ UNCHANGED <<env, now, handler, files, path>>

UpdateRecording ==
  set' = IF handler.mode = "simple" THEN Simple_UpdateRecording(now, set)
         ELSE Adv_UpdateRecording(now, set)

(* FindBestFilename: the first name that no file has.                      *)
FindBestFilename == Min((1 .. Cardinality(files) + 1) \ files)

(* ConfigureRecording: without the folder nothing starts.                  *)
ConfigureRecording ==
  /\ path' = IF now.config.overwrite THEN 1 ELSE FindBestFilename
  /\ Start("file")
  /\ files' = IF lib' = lib THEN files ELSE files \cup {path'}

StartRecording ==
  /\ Step
  /\ lib["file"] = "off"
  /\ UpdateRecording
  /\ ConfigureRecording \/ UNCHANGED <<lib, files, path>>
  /\ UNCHANGED <<env, now, handler, outputType>>

StartReplayBuffer ==
  /\ Step
  /\ "replay" \in Recordings
  /\ lib["replay"] = "off"
  /\ UpdateRecording
  /\ Start("replay")
  /\ UNCHANGED <<env, now, handler, outputType, files, path>>

(* External: a stream connects or not; an output ends.                     *)
Lib_Connected ==
  /\ lib["stream"] = "connecting"
  /\ lib' = [lib EXCEPT !["stream"] = "on"]
  /\ UNCHANGED <<env, now, handler, set, outputType, files, path, steps>>

Lib_Stopped(o) ==
  /\ lib[o] # "off"
  /\ lib' = [lib EXCEPT ![o] = "off"]
  /\ UNCHANGED <<env, now, handler, set, outputType, files, path, steps>>

-----------------------------------------------------------------------------
(* ResetOutputs after the user changed the configuration: a new handler,   *)
(* or an update of the encoders of one that is active.                     *)
ResetOutputs(c) ==
  /\ Step
  /\ lib["stream"] # "connecting"
  /\ env.locked => ~Active
  /\ now' = [now EXCEPT !.config = c, !.version = @ + 1]
  /\ IF ~Active
     THEN handler' = c /\ set' = NewHandler(now') /\ outputType' = "none"
     ELSE /\ set' = IF handler.mode = "simple" THEN Simple_Update(now', set)
                    ELSE Adv_Update(now', set)
          /\ UNCHANGED <<handler, outputType>>
  /\ UNCHANGED <<env, lib, files, path>>

(* ResetVideo: libobs refuses while an output is active.                   *)
ResetVideo ==
  /\ Step
  /\ \A o \in Outputs : lib[o] = "off"
  /\ now' = [now EXCEPT !.video = @ + 1]
  /\ UNCHANGED <<env, handler, set, outputType, lib, files, path>>

-----------------------------------------------------------------------------
Next ==
  \/ StartStreaming \/ StartRecording \/ StartReplayBuffer
  \/ Lib_Connected
  \/ \E o \in Outputs : Lib_Stopped(o)
  \/ \E c \in Configs : ResetOutputs(c)
  \/ ResetVideo

Spec == Init /\ [][Next]_vars

-----------------------------------------------------------------------------
(* The variables have the values the code gives them, and the outputs that *)
(* use encoders have exactly one for the video.                            *)
TypeOK ==
  /\ env \in Environments
  /\ now \in [config : Configs, version : Nat, video : Nat]
  /\ handler \in Configs
  /\ set \in SetUp
  /\ \A o \in Outputs :
       set.uses[o] # {} => Cardinality(set.uses[o] \cap VideoEncoders) = 1
  /\ outputType \in {"none", "aac", "other"}
  /\ lib \in [Outputs -> {"off", "connecting", "on"}]
  /\ files \in SUBSET Nat /\ path \in Nat
  /\ steps \in 0..MaxSteps

(* An output that starts has all it needs, whatever was started, stopped   *)
(* and changed before: encoders that take their input from the video       *)
(* libobs has now and from its audio; settings of the present              *)
(* configuration, unless the encoder is in use already; for the video of a *)
(* stream, the limits of its service; and a file of its own.               *)
(* Not so in the code: the audio of a recording with its own encoders      *)
(* never gets its settings (UpdateRecordingAudioSettings has no caller);   *)
(* AdvancedOutput's stream never meets the limits of its service if        *)
(* recordings are made by ffmpeg and their encoder is "none".  And if the  *)
(* configuration changes while an output is active, the type of the stream,*)
(* its audio encoder and ffmpeg's settings are those of before.            *)
WithEncoders(o) == o # "file" \/ ~handler.ffmpeg
Ready(o, s) ==
  /\ WithEncoders(o) =>
       /\ \E v \in VideoEncoders, a \in Encoders \ VideoEncoders :
            {v, a} \subseteq s.uses[o]
       /\ \A e \in s.uses[o] : s.media[e] = IF e \in VideoEncoders THEN now.video ELSE 1
       /\ \A e \in s.uses[o] \ (Running \cup {"recAudio"}) :
            s.settings[e].version = now.version \/ (e \notin VideoEncoders /\ ~env.locked)
  /\ ~WithEncoders(o) => s.fileMedia = now.video
  /\ ~WithEncoders(o) /\ env.locked => s.fileVersion = now.version
  /\ o = "stream" =>
       /\ \/ s.settings["streamVideo"].service
          \/ handler.mode = "advanced" /\ handler.useStream /\ handler.ffmpeg
       /\ env.locked =>
            /\ s.streamType = now.config.codec
            /\ ("alt" \in s.uses[o]) <=> (now.config.codec = "other")
            /\ handler.mode = "advanced" /\ now.config.codec = "aac" =>
                 now.config.track \in s.uses[o]

StartsReady ==
  /\ []TypeOK
  /\ [][\A o \in Outputs :
          lib[o] = "off" /\ lib'[o] # "off" =>
            /\ Ready(o, set')
            /\ o = "file" /\ ~now.config.overwrite => path' \notin files]_vars

(* Nothing changes under an output that runs but by ResetOutputs: neither  *)
(* the encoders it uses, nor their settings or input, whatever else is     *)
(* started.                                                                *)
RunningUnchanged ==
  [][/\ \A o \in Outputs :
          lib[o] = "on" /\ lib'[o] = "on" => set'.uses[o] = set.uses[o]
     /\ \A e \in Running :
          /\ set'.media[e] = set.media[e] \/ ~Active'
          /\ now'.version = now.version => set'.settings[e] = set.settings[e]]_vars
=============================================================================
