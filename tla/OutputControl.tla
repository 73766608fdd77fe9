---------------------------- MODULE OutputControl ----------------------------
(***************************************************************************)
(* The control of the outputs by the main window: starting and stopping    *)
(* the stream, the FLV stream of the fork, the recording and the replay    *)
(* buffer (UI/window-basic-main.cpp, window-basic-main-outputs.cpp).       *)
(*                                                                         *)
(* The stream, the recording and the replay buffer belong to               *)
(* outputHandler, the FLV stream to a handler of its own.  A signal of an  *)
(* output sets a flag of its handler in the thread that emits it and then  *)
(* invokes a slot of the window: at once if that is the UI thread, else    *)
(* through the queue of its events.  Stopping and the start of a delay are *)
(* signalled in the UI thread, as is the start of the recordings; the      *)
(* other signals come from threads of the outputs.                         *)
(*                                                                         *)
(* A slot, and what a user's input sets off, is one step.  An output that  *)
(* is started while it connects is taken to make one connection; whether   *)
(* that may happen is a property.                                          *)
(*                                                                         *)
(* A definition named Op_Fault is Op with a fault in it, for checking that *)
(* the properties notice; no specification uses it.                        *)
(***************************************************************************)
EXTENDS Integers, Sequences

CONSTANTS
  WithStream,    \* RecordWhenStreaming, ReplayBufferWhileStreaming
  Kept,          \* KeepRecordingWhenStreamStops, KeepReplayBufferStreamStops
  MaxStarts,     \* bound on the starts
  Environments   \* the settings and the user, see Environment

Streams == {"stream", "flv"}
Recordings == {"record", "replay"}
Outputs == Streams \cup Recordings
Main == Outputs \ {"flv"}

(* delay: streams are delayed (DelayEnable); flv: the user uses the FLV     *)
(* stream; prompt: Qt has run the queued slots before the next input.       *)
Environment == [delay : BOOLEAN, flv : BOOLEAN, prompt : BOOLEAN]

ASSUME OutputControlAssumption ==
  /\ WithStream \subseteq Recordings /\ Kept \subseteq Recordings
  /\ MaxStarts \in Nat
  /\ Environments \subseteq Environment

VARIABLES
  env,        \* the environment of this behaviour, which stays as it is
  lib,        \* libobs: the state of each output
  flag,       \* streamingActive, recordingActive, replayBufferActive
  delayFlag,  \* delayActive of both handlers
  slots,      \* the slots that are queued: which one, and of which output
  text,       \* the text of each button
  enabled,    \* the buttons of the streams that are enabled
  menu,       \* startStreamMenu: the button it is on and its kind, or NoMenu
  stopping,   \* streamingStopping, recordingStopping, replayBufferStopping
  locked,     \* the profile menu is disabled and sleep inhibited
  restarted,  \* history: outputs that were started while they connected
  starts      \* the number of starts so far

handlerVars == <<lib, flag, delayFlag>>
buttonVars == <<text, enabled, menu, stopping>>
vars == <<env, handlerVars, slots, buttonVars, locked, restarted, starts>>

NoMenu == [on |-> "none", kind |-> "none"]

(* Both streams share one flag.                                            *)
Stopping(o) == IF o \in Streams THEN "streams" ELSE o

(* obs_output_active.                                                      *)
LibActive(o) == lib[o] \in {"delayed", "on", "draining", "stopping"}

Delayed(o) == env.delay /\ o \in Streams

Init ==
  /\ env \in Environments
  /\ lib = [o \in Outputs |-> "off"]
  /\ flag = [o \in Outputs |-> FALSE]
  /\ delayFlag = [o \in Streams |-> FALSE]
  /\ slots = <<>>
  /\ text = [o \in Outputs |-> "start"]
  /\ enabled = Streams
  /\ menu = NoMenu
  /\ stopping = [s \in {"streams"} \cup Recordings |-> FALSE]
  /\ locked = FALSE
  /\ restarted = {}
  /\ starts = 0

-----------------------------------------------------------------------------
(* BasicOutputHandler::Active, of outputHandler.                           *)
Active == delayFlag["stream"] \/ \E o \in Main : flag[o]

OnActivate == locked' = TRUE

OnDeactivate_Always == locked' = FALSE

OnDeactivate == locked' = (locked /\ Active)

-----------------------------------------------------------------------------
(* The signals of libobs.                                                  *)

(* obs_output_stop and obs_output_force_stop of the outputs that are       *)
(* active, and the slots StreamStopping, StreamDelayStopping,              *)
(* RecordStopping, ReplayBufferStopping and their FLV twins.  A delayed    *)
(* stream goes on until its delay is over.                                 *)
StopOutputs(S, force) ==
  LET stopped == {o \in S : lib[o] \in {"delayed", "on", "draining"}}
      later == {o \in stopped : Delayed(o)}
      now == stopped \ later
  IN  /\ lib' = [o \in Outputs |->
                   IF o \notin stopped THEN lib[o]
                   ELSE IF o \in later /\ ~force THEN "draining" ELSE "stopping"]
      /\ text' = [o \in Outputs |-> IF o \in now THEN "stopping"
                                    ELSE IF o \in later THEN "start"
                                    ELSE text[o]]
      /\ stopping' = [s \in DOMAIN stopping |->
                        stopping[s] \/ \E o \in now : Stopping(o) = s]
      /\ enabled' = enabled \cup later
      /\ menu' = IF later = {} THEN menu
                 ELSE [on |-> CHOOSE o \in later : TRUE, kind |-> "delayStopping"]

(* OBSStartStreaming, OBSHxFlvStartStreaming.                              *)
Lib_Started(o) ==
  /\ lib[o] \in {"connecting", "delayed", "draining"} /\ ~flag[o]
  /\ lib' = [lib EXCEPT ![o] = IF @ = "draining" THEN @ ELSE "on"]
  /\ flag' = [flag EXCEPT ![o] = TRUE]
  /\ slots' = Append(slots, [slot |-> "start", of |-> o])
  /\ UNCHANGED <<env, delayFlag, buttonVars, locked, restarted, starts>>

(* OBSStopStreaming and the like: the output failed to connect, ended by   *)
(* itself or was stopped.                                                  *)
Lib_Stopped(o) ==
  /\ lib[o] # "off"
  /\ lib' = [lib EXCEPT ![o] = "off"]
  /\ flag' = [flag EXCEPT ![o] = FALSE]
  /\ delayFlag' = [d \in Streams |-> d # o /\ delayFlag[d]]
  /\ slots' = Append(slots, [slot |-> "stop", of |-> o])
  /\ UNCHANGED <<env, buttonVars, locked, restarted, starts>>

(* An attempt to connect comes to an end.                                  *)
Lib_Connect(o) == lib[o] = "connecting" /\ (Lib_Started(o) \/ Lib_Stopped(o))

-----------------------------------------------------------------------------
(* The queued slots.                                                       *)

(* StreamingStart, HxFlvStreamingStart.                                    *)
StreamingStart(o) ==
  /\ text' = [text EXCEPT ![o] = "stop"]
  /\ enabled' = enabled \cup {o}
  /\ OnActivate
  /\ UNCHANGED <<menu, stopping>>

(* StreamingStop, HxFlvStreamingStop: the one menu there is goes, whichever *)
(* button it is on.                                                        *)
StreamingStop_Disabled(o) ==
  /\ text' = [text EXCEPT ![o] = "start"]
  /\ menu' = NoMenu
  /\ stopping' = [stopping EXCEPT !["streams"] = FALSE]
  /\ OnDeactivate
  /\ UNCHANGED enabled

StreamingStop_KeepsStopping(o) ==
  /\ text' = [text EXCEPT ![o] = "start"]
  /\ enabled' = enabled \cup {o}
  /\ menu' = NoMenu
  /\ OnDeactivate
  /\ UNCHANGED stopping

StreamingStop(o) ==
  /\ text' = [text EXCEPT ![o] = "start"]
  /\ enabled' = enabled \cup {o}
  /\ menu' = NoMenu
  /\ stopping' = [stopping EXCEPT !["streams"] = FALSE]
  /\ OnDeactivate

(* RecordingStop, ReplayBufferStop.                                        *)
RecordingStop(o) ==
  /\ text' = [text EXCEPT ![o] = "start"]
  /\ OnDeactivate
  /\ UNCHANGED <<enabled, menu, stopping>>

RunSlot ==
  /\ slots # <<>>
  /\ slots' = Tail(slots)
  /\ LET o == Head(slots).of
     IN  IF Head(slots).slot = "start" THEN StreamingStart(o)
         ELSE IF o \in Streams THEN StreamingStop(o) ELSE RecordingStop(o)
  /\ UNCHANGED <<env, handlerVars, restarted, starts>>

-----------------------------------------------------------------------------
(* What the user does.                                                     *)
Input == env.prompt => slots = <<>>

(* The recordings of S start, with the slots RecordingStart and            *)
(* ReplayBufferStart; the starting of stream o, if any, shows as given.    *)
Started(o, state, shown, S) ==
  /\ lib' = [x \in Outputs |-> IF x = o THEN state
                               ELSE IF x \in S THEN "on" ELSE lib[x]]
  /\ flag' = [x \in Outputs |-> flag[x] \/ x \in S]
  /\ text' = [x \in Outputs |-> IF x = o THEN shown
                                ELSE IF x \in S THEN "stop" ELSE text[x]]
  /\ stopping' = [s \in DOMAIN stopping |-> stopping[s] /\ s \notin S]
  /\ locked' = (locked \/ S # {} \/ state = "delayed")
  /\ starts' = starts + 1

(* StartRecording, StartReplayBuffer.                                      *)
StartRecording(o) ==
  /\ Input /\ starts < MaxStarts
  /\ ~LibActive(o)
  /\ Started("none", "off", "start", {o})
  /\ UNCHANGED <<env, delayFlag, slots, enabled, menu, restarted>>

StopRecording(o) ==
  /\ Input
  /\ LibActive(o)
  /\ StopOutputs({o}, stopping[o])
  /\ OnDeactivate
  /\ UNCHANGED <<env, flag, delayFlag, slots, restarted, starts>>

(* StartStreaming, HxFlvStartStreaming with the slots StreamDelayStarting  *)
(* and HxFlvStreamDelayStarting.  The button is disabled until the stream  *)
(* has started or failed; if it fails at once the recordings are not       *)
(* started.                                                                *)
StartStream_Fails_Connecting(o) ==
  /\ Started(o, lib[o], "connecting", {})
  /\ enabled' = enabled \cup {o}
  /\ UNCHANGED <<delayFlag, menu, restarted>>

StartStream_Fails(o) ==
  /\ Started(o, lib[o], "start", {})
  /\ enabled' = enabled \cup {o}
  /\ UNCHANGED <<delayFlag, menu, restarted>>

StartStream_Connects_Enabled(o, S) ==
  /\ ~env.delay
  /\ Started(o, "connecting", "connecting", S)
  /\ restarted' = restarted \cup {x \in {o} : lib[x] = "connecting"}
  /\ UNCHANGED <<delayFlag, enabled, menu>>

StartStream_Connects(o, S) ==
  /\ ~env.delay
  /\ Started(o, "connecting", "connecting", S)
  /\ enabled' = enabled \ {o}
  /\ restarted' = restarted \cup {x \in {o} : lib[x] = "connecting"}
  /\ UNCHANGED <<delayFlag, menu>>

StartStream_Delays(o, S) ==
  /\ env.delay
  /\ Started(o, "delayed", "stop", S)
  /\ delayFlag' = [delayFlag EXCEPT ![o] = TRUE]
  /\ enabled' = enabled \cup {o}
  /\ menu' = [on |-> o, kind |-> "delayStarting"]
  /\ UNCHANGED restarted

StartStream(o) ==
  /\ starts < MaxStarts
  /\ ~LibActive(o)
  /\ LET with == {r \in WithStream : o = "stream" /\ ~LibActive(r)}
     IN  \/ StartStream_Fails(o)
         \/ \E S \in SUBSET with :
              StartStream_Connects(o, S) \/ StartStream_Delays(o, S)
  /\ UNCHANGED <<env, slots>>

(* StopStreaming, ForceStopStreaming, HxFlvStopStreaming: the recordings   *)
(* that came with the stream go with it.                                   *)
StopStream(o, force) ==
  /\ StopOutputs({o} \cup {r \in WithStream \ Kept : o = "stream"}, force)
  /\ OnDeactivate
  /\ UNCHANGED <<env, flag, delayFlag, slots, restarted, starts>>

(* The hotkeys, which work whatever the button of the stream shows.        *)
StartStreaming == Input /\ StartStream("stream")

StopStreaming ==
  Input /\ LibActive("stream") /\ StopStream("stream", stopping["streams"])

ForceStopStreaming ==
  Input /\ LibActive("stream") /\ StopStream("stream", TRUE)

(* The button of the FLV stream: without a menu it starts or stops the FLV *)
(* stream; with one it shows its entries.                                  *)
HxFlvStartStreaming ==
  /\ Input /\ env.flv
  /\ "flv" \in enabled /\ menu.on # "flv"
  /\ StartStream("flv")

HxFlvStopStreaming ==
  /\ Input /\ env.flv
  /\ "flv" \in enabled /\ menu.on # "flv"
  /\ LibActive("flv")
  /\ StopStream("flv", stopping["streams"])

(* "Stop FLV Streaming" in the menu of that button.                        *)
HxFlvMenu_Stop ==
  /\ Input
  /\ menu = [on |-> "flv", kind |-> "delayStarting"]
  /\ StopStream("stream", stopping["streams"])

-----------------------------------------------------------------------------
Next ==
  \/ \E o \in Streams : Lib_Started(o)
  \/ \E o \in Outputs : Lib_Stopped(o)
  \/ RunSlot
  \/ \E o \in Recordings : StartRecording(o) \/ StopRecording(o)
  \/ StartStreaming \/ StopStreaming \/ ForceStopStreaming
  \/ HxFlvStartStreaming \/ HxFlvStopStreaming \/ HxFlvMenu_Stop

(* Qt runs the queued slots, and an attempt to connect ends.               *)
Spec == /\ Init /\ [][Next]_vars
        /\ WF_vars(RunSlot)
        /\ \A o \in Streams : WF_vars(Lib_Connect(o))

-----------------------------------------------------------------------------
(* Every variable keeps its type.                                          *)
TypeOK ==
  /\ env \in Environments
  /\ lib \in [Outputs -> {"off", "connecting", "delayed", "on", "draining",
                          "stopping"}]
  /\ flag \in [Outputs -> BOOLEAN] /\ delayFlag \in [Streams -> BOOLEAN]
  /\ slots \in Seq([slot : {"start", "stop"}, of : Outputs])
  /\ text \in [Outputs -> {"start", "connecting", "stop", "stopping"}]
  /\ enabled \subseteq Streams
  /\ menu = NoMenu \/ menu \in [on : Streams,
                                kind : {"delayStarting", "delayStopping"}]
  /\ stopping \in [{"streams"} \cup Recordings -> BOOLEAN]
  /\ locked \in BOOLEAN
  /\ restarted \subseteq Streams
  /\ starts \in 0..MaxStarts

AtRest == slots = <<>>

(* The profile cannot be changed, nor the machine fall asleep, while an    *)
(* output of outputHandler is active whose start the window has seen,      *)
(* whichever outputs stop in the meantime, and however late their slots;    *)
(* when everything is off and every slot has run, the profile menu is      *)
(* enabled again and sleep allowed.                                        *)
ProfileLock ==
  /\ \A o \in Main :
       flag[o] => locked \/ \E i \in DOMAIN slots :
                              slots[i] = [slot |-> "start", of |-> o]
  /\ AtRest /\ (\A o \in Outputs : lib[o] = "off") => ~locked

(* Once its slots have run, the button of a stream that is off offers to   *)
(* start it and has no menu, that of a running stream offers to stop it;   *)
(* both can be pressed.  The text of a recording's button is right as      *)
(* well, if no start overtakes the queued slot of the stop before it.      *)
ButtonsTruthful ==
  AtRest =>
    /\ \A o \in Streams :
         /\ lib[o] = "off" => text[o] = "start" /\ o \in enabled /\ menu.on # o
         /\ lib[o] = "on" => text[o] = "stop" /\ o \in enabled
    /\ env.prompt => \A o \in Recordings :
         /\ lib[o] = "off" => text[o] = "start"
         /\ lib[o] = "on" => text[o] = "stop"

(* The first stop of an output is not a forced one, which would discard    *)
(* what is still to be sent: what an output that runs finds in its         *)
(* stopping flag is never left over from an earlier stop.  (The flag of    *)
(* the streams is shared: this is for a user who has no FLV stream.)       *)
FirstStopIsGentle ==
  /\ \A o \in Recordings : lib[o] = "on" => ~stopping[o]
  /\ ~env.flv /\ AtRest /\ lib["stream"] \in {"delayed", "on"}
       => ~stopping["streams"]

(* The FLV output is never started while it connects: FlvStream shows what *)
(* would come of it.                                                       *)
FlvStartsFromRest == env.prompt => "flv" \notin restarted

(* A button that was disabled is enabled again.                            *)
ButtonComesBack ==
  \A o \in Streams : (o \notin enabled) ~> (o \in enabled)

(* "Stop FLV Streaming" has nothing to do with the other stream.           *)
FlvMenuStopsFlv ==
  [][HxFlvMenu_Stop => lib'["stream"] = lib["stream"]]_vars
=============================================================================
