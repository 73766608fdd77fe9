------------------------------ MODULE FlvQueue ------------------------------
(***************************************************************************)
(* The packet queue of the FLV output, from the moment the stream becomes  *)
(* active to the end of its send thread:                                   *)
(* plugins/hengxin-flv-outputs/flv-stream.c.                               *)
(*                                                                         *)
(* Three threads meet here.                                                *)
(*   - The encoder callback hengxin_flv_stream_data (libobs calls it for   *)
(*     one packet at a time) takes a reference to the packet, may drop     *)
(*     frames, queues the packet and posts send_sem.                       *)
(*   - The send thread waits for send_sem, takes the oldest packet and     *)
(*     sends it, until a stop ends its loop.                               *)
(*   - The UI thread asks for a stop, with a time (the normal stop) or     *)
(*     without one (the forced stop).                                      *)
(*                                                                         *)
(* A packet is its arrival number.  libobs hands packets over in the order *)
(* of their dts, so the number also stands for dts_usec, and the circular  *)
(* buffer, which is only pushed at its back and popped at its front, is    *)
(* the set of the numbers it holds.                                        *)
(*                                                                         *)
(* A definition named Op_Fault is Op with a fault in it, for checking that *)
(* the properties notice; no specification uses it.                        *)
(***************************************************************************)
EXTENDS Integers, Sequences, FiniteSets

CONSTANTS
  Kinds,                \* what an encoder may produce, see Kind
  MaxPackets,           \* bound on the packets of one session
  MaxStops,             \* bound on the calls of hengxin_flv_stream_stop
  MinBuffered,          \* check_to_drop_frames leaves a shorter queue alone (5)
  DropThreshold,        \* drop_threshold_usec (never set by the code: 0)
  PframeDropThreshold   \* pframe_drop_threshold_usec (never set by the code: 0)

(* The drop priorities of libobs (OBS_NAL_PRIORITY_...).                   *)
DISPOSABLE == 0
HIGH == 2
HIGHEST == 3
Priority == DISPOSABLE..HIGHEST

(* An encoder packet: audio or video, whether it is a keyframe, and its    *)
(* drop_priority.                                                          *)
Kind == [video : BOOLEAN, key : BOOLEAN, prio : Priority]

(* A keyframe is a video packet of the highest priority: what              *)
(* obs_parse_avc_packet, of libobs, computes from the stream.              *)
ASSUME FlvQueueAssumption ==
  /\ Kinds \subseteq Kind
  /\ \A k \in Kinds : k.key => k.video /\ k.prio = HIGHEST
  /\ MaxPackets \in Nat
  /\ MaxStops \in Nat
  /\ MinBuffered \in Nat
  /\ DropThreshold \in Nat
  /\ PframeDropThreshold \in Nat

VARIABLES
  arrived,      \* the packets handed to the callback, in their order
  queue,        \* packets: the numbers of the queued ones
  minPriority,  \* min_priority
  lastDts,      \* last_dts_usec
  sem,          \* the count of send_sem
  producer,     \* where the encoder callback is
  hand,         \* the packet the send thread holds, 0 for none
  sender,       \* where the send thread is
  sent,         \* packets given to the network
  dropped,      \* packets the encoder callback released
  released,     \* how often obs_encoder_packet_release was called on each
  active,       \* active
  stopEvent,    \* stop_event is signalled
  stopNow,      \* stop_ts = 0
  due,          \* the clock has passed stop_ts and shutdown_timeout_ts
  ui,           \* where hengxin_flv_stream_stop is
  stops         \* how often it was called

queueVars == <<queue, minPriority, lastDts>>
senderVars == <<hand, sender, sent>>
stopVars == <<stopEvent, stopNow, due, ui, stops>>
vars == <<arrived, queueVars, sem, producer, senderVars, dropped, released,
          active, stopVars>>

-----------------------------------------------------------------------------
(* A session starts with a fresh semaphore and an empty queue, but         *)
(* min_priority, last_dts_usec and stop_ts keep what an earlier session    *)
(* left in them.                                                           *)
Init ==
  /\ arrived = <<>>
  /\ queue = {}
  /\ minPriority \in {DISPOSABLE, HIGH, HIGHEST}
  /\ lastDts \in 0..MaxPackets
  /\ sem = 0
  /\ producer = "idle"
  /\ hand = 0
  /\ sender = "wait"
  /\ sent = {}
  /\ dropped = {}
  /\ released = [i \in 1..MaxPackets |-> 0]
  /\ active = TRUE
  /\ stopEvent = FALSE
  /\ stopNow \in BOOLEAN
  /\ due = FALSE
  /\ ui = "idle"
  /\ stops = 0

Video(i) == arrived[i].video
Prio(i) == arrived[i].prio
Release(S) == [i \in 1..MaxPackets |->
                 IF i \in S THEN released[i] + 1 ELSE released[i]]

-----------------------------------------------------------------------------
(* The encoder callback.                                                   *)

(* find_first_video_packet: the first video packet that is no keyframe.    *)
IsFirstVideoPacket(i, q) ==
  LET NonKey(j) == Video(j) /\ ~arrived[j].key
  IN  /\ i \in q
      /\ NonKey(i)
      /\ \A j \in q : NonKey(j) => i <= j

(* check_to_drop_frames asks for a drop when enough packets are queued and *)
(* the time between the first video packet and the last one added is       *)
(* longer than the threshold.                                              *)
MustDrop(q, threshold) ==
  /\ Cardinality(q) >= MinBuffered
  /\ \E i \in q : IsFirstVideoPacket(i, q) /\ lastDts - i > threshold

(* drop_frames keeps audio and the frames of at least this priority.       *)
Kept(q, priority) == {i \in q : ~Video(i) \/ Prio(i) >= priority}

CheckToDrop_Forgetful(s, priority, threshold) ==
  [queue |-> IF MustDrop(s.queue, threshold) THEN Kept(s.queue, priority)
             ELSE s.queue,
   min   |-> s.min]

(* check_to_drop_frames on the queue and the minimal priority.             *)
CheckToDrop(s, priority, threshold) ==
  IF MustDrop(s.queue, threshold)
  THEN [queue |-> Kept(s.queue, priority),
        min   |-> IF s.min < priority THEN priority ELSE s.min]
  ELSE s

(* add_video_packet checks first for b-frames, then for p-frames.          *)
AfterChecks ==
  CheckToDrop(CheckToDrop([queue |-> queue, min |-> minPriority],
                          HIGH, DropThreshold),
              HIGHEST, PframeDropThreshold)

LastDts_Stale(i, accepted) == lastDts

(* last_dts_usec is the dts of the last video packet that was added.       *)
LastDts(i, accepted) == IF accepted THEN i ELSE lastDts

(* The callback returns at once when the stream is not active; otherwise   *)
(* it holds a reference to the packet.  The first video packet a new       *)
(* output gets from libobs is a keyframe.                                  *)
Data_Begin(k) ==
  /\ producer = "idle"
  /\ Len(arrived) < MaxPackets
  /\ active
  /\ k.video /\ ~k.key => \E i \in DOMAIN arrived : Video(i)
  /\ arrived' = Append(arrived, k)
  /\ producer' = "checked"
  /\ UNCHANGED <<queueVars, sem, senderVars, dropped, released, active,
                 stopVars>>

(* Under packets_mutex, for an audio packet: add_packet.                   *)
Data_AddAudio ==
  /\ producer = "checked"
  /\ ~Video(Len(arrived))
  /\ queue' = queue \cup {Len(arrived)}
  /\ producer' = "post"
  /\ UNCHANGED <<arrived, minPriority, lastDts, sem, senderVars, dropped,
                 released, active, stopVars>>

(* Under packets_mutex, for a video packet: add_video_packet.  The packet  *)
(* itself is refused when its priority is below the minimal one.           *)
Data_AddVideo ==
  LET i == Len(arrived)
      s == AfterChecks
      accepted == Prio(i) >= s.min
  IN  /\ producer = "checked"
      /\ Video(i)
      /\ queue' = IF accepted THEN s.queue \cup {i} ELSE s.queue
      /\ minPriority' = IF accepted THEN DISPOSABLE ELSE s.min
      /\ lastDts' = LastDts(i, accepted)
      /\ dropped' = dropped \cup (queue \ s.queue)
      /\ released' = Release(queue \ s.queue)
      /\ producer' = IF accepted THEN "post" ELSE "release"
      /\ UNCHANGED <<arrived, sem, senderVars, active, stopVars>>

Data_Post_Missing ==
  /\ producer = "post"
  /\ producer' = "idle"
  /\ UNCHANGED <<arrived, queueVars, sem, senderVars, dropped, released, active,
                 stopVars>>

(* After the unlock, an added packet is announced to the send thread.      *)
Data_Post ==
  /\ producer = "post"
  /\ sem' = sem + 1
  /\ producer' = "idle"
  /\ UNCHANGED <<arrived, queueVars, senderVars, dropped, released, active,
                 stopVars>>

Data_Release_Leak ==
  /\ producer = "release"
  /\ dropped' = dropped \cup {Len(arrived)}
  /\ producer' = "idle"
  /\ UNCHANGED <<arrived, queueVars, sem, senderVars, released, active, stopVars>>

(* A refused packet is released.                                           *)
Data_Release ==
  /\ producer = "release"
  /\ dropped' = dropped \cup {Len(arrived)}
  /\ released' = Release({Len(arrived)})
  /\ producer' = "idle"
  /\ UNCHANGED <<arrived, queueVars, sem, senderVars, active, stopVars>>

-----------------------------------------------------------------------------
(* The send thread.                                                        *)

Send_Wait ==
  /\ sender = "wait"
  /\ sem > 0
  /\ sem' = sem - 1
  /\ sender' = "woken"
  /\ UNCHANGED <<arrived, queueVars, producer, hand, sent, dropped, released,
                 active, stopVars>>

(* A forced stop ends the loop before a packet is taken.                   *)
Send_CheckStop ==
  /\ sender = "woken"
  /\ sender' = IF stopEvent /\ stopNow THEN "end" ELSE "get"
  /\ UNCHANGED <<arrived, queueVars, sem, producer, hand, sent, dropped,
                 released, active, stopVars>>

Send_GetNextPacket_Newest ==
  /\ sender = "get"
  /\ IF queue = {}
     THEN sender' = "wait" /\ UNCHANGED <<queue, hand>>
     ELSE /\ hand' \in queue
          /\ \A i \in queue : hand' >= i
          /\ queue' = queue \ {hand'}
          /\ sender' = "hand"
  /\ UNCHANGED <<arrived, minPriority, lastDts, sem, producer, sent, dropped,
                 released, active, stopVars>>

(* get_next_packet: the oldest packet, or back to the wait.                *)
Send_GetNextPacket ==
  /\ sender = "get"
  /\ IF queue = {}
     THEN sender' = "wait" /\ UNCHANGED <<queue, hand>>
     ELSE /\ hand' \in queue
          /\ \A i \in queue : hand' <= i
          /\ queue' = queue \ {hand'}
          /\ sender' = "hand"
  /\ UNCHANGED <<arrived, minPriority, lastDts, sem, producer, sent, dropped,
                 released, active, stopVars>>

(* A stop is under way and its time has come: can_shutdown_stream.         *)
CanShutdown == stopEvent /\ due

(* The packet is released and the loop ends.                               *)
Send_Shutdown ==
  /\ sender = "hand"
  /\ CanShutdown
  /\ released' = Release({hand})
  /\ hand' = 0
  /\ sender' = "end"
  /\ UNCHANGED <<arrived, queueVars, sem, producer, sent, dropped, active,
                 stopVars>>

(* No stop, or one that is not due yet: the packet is sent.                 *)
Send_CheckShutdown ==
  /\ sender = "hand"
  /\ ~CanShutdown
  /\ sender' = "send"
  /\ UNCHANGED <<arrived, queueVars, sem, producer, hand, sent, dropped,
                 released, active, stopVars>>

(* send_packet: the packet goes to the network and is released.            *)
Send_Packet ==
  /\ sender = "send"
  /\ sent' = sent \cup {hand}
  /\ released' = Release({hand})
  /\ hand' = 0
  /\ sender' = "wait"
  /\ UNCHANGED <<arrived, queueVars, sem, producer, dropped, active, stopVars>>

(* obs_output_end_data_capture; libobs detaches the encoders later, so     *)
(* that the callback may still be called.                                  *)
Send_EndCapture ==
  /\ sender = "end"
  /\ sender' = "free"
  /\ UNCHANGED <<arrived, queueVars, sem, producer, hand, sent, dropped,
                 released, active, stopVars>>

Send_FreePackets ==
  /\ sender = "free"
  /\ released' = Release(queue)
  /\ queue' = {}
  /\ sender' = "reset"
  /\ UNCHANGED <<arrived, minPriority, lastDts, sem, producer, hand, sent,
                 dropped, active, stopVars>>

Send_ResetEvent ==
  /\ sender = "reset"
  /\ stopEvent' = FALSE
  /\ sender' = "inactive"
  /\ UNCHANGED <<arrived, queueVars, sem, producer, hand, sent, dropped,
                 released, active, stopNow, due, ui, stops>>

Send_Inactive ==
  /\ sender = "inactive"
  /\ active' = FALSE
  /\ sender' = "done"
  /\ UNCHANGED <<arrived, queueVars, sem, producer, hand, sent, dropped,
                 released, stopVars>>

-----------------------------------------------------------------------------
(* hengxin_flv_stream_stop, in the UI thread.                              *)

(* The call returns when a stop is under way and this one is not forced;   *)
(* else it stores the time of the stop.                                    *)
Stop_Begin(forced) ==
  /\ ui = "idle"
  /\ stops < MaxStops
  /\ forced \/ ~stopEvent
  /\ stopNow' = forced
  /\ due' = forced
  /\ stops' = stops + 1
  /\ ui' = "stop"
  /\ UNCHANGED <<arrived, queueVars, sem, producer, senderVars, dropped,
                 released, active, stopEvent>>

(* An active stream has its stop event signalled; else libobs is told that *)
(* the stream has stopped, which changes nothing here.                     *)
Stop_Signal ==
  /\ ui = "stop"
  /\ IF active
     THEN /\ stopEvent' = TRUE
          /\ ui' = IF stopNow THEN "post" ELSE "idle"
     ELSE ui' = "idle" /\ UNCHANGED stopEvent
  /\ UNCHANGED <<arrived, queueVars, sem, producer, senderVars, dropped,
                 released, active, stopNow, due, stops>>

Stop_Post_Missing ==
  /\ ui = "post"
  /\ ui' = "idle"
  /\ UNCHANGED <<arrived, queueVars, sem, producer, senderVars, dropped,
                 released, active, stopEvent, stopNow, due, stops>>

Stop_Post ==
  /\ ui = "post"
  /\ sem' = sem + 1
  /\ ui' = "idle"
  /\ UNCHANGED <<arrived, queueVars, producer, senderVars, dropped, released,
                 active, stopEvent, stopNow, due, stops>>

(* max_shutdown_time_sec is never set and stays 0: the shutdown times out  *)
(* when the clock reaches the time of the stop.                            *)
Clock ==
  /\ ~due
  /\ stops > 0
  /\ due' = TRUE
  /\ UNCHANGED <<arrived, queueVars, sem, producer, senderVars, dropped,
                 released, active, stopEvent, stopNow, ui, stops>>

-----------------------------------------------------------------------------
Callback ==
  \/ Data_AddAudio \/ Data_AddVideo \/ Data_Post \/ Data_Release

SendThread ==
  \/ Send_Wait \/ Send_CheckStop \/ Send_GetNextPacket
  \/ Send_Shutdown \/ Send_CheckShutdown \/ Send_Packet
  \/ Send_EndCapture \/ Send_FreePackets \/ Send_ResetEvent \/ Send_Inactive

StopCall == Stop_Signal \/ Stop_Post

Next ==
  \/ \E k \in Kinds : Data_Begin(k)
  \/ Callback
  \/ SendThread
  \/ \E forced \in BOOLEAN : Stop_Begin(forced)
  \/ StopCall
  \/ Clock

Spec == Init /\ [][Next]_vars

(* Threads that have begun a call run on; nobody has to call.              *)
FairSpec == Spec /\ WF_vars(Callback) /\ WF_vars(SendThread)
                 /\ WF_vars(StopCall) /\ WF_vars(Clock)

-----------------------------------------------------------------------------
(* Properties.                                                             *)

(* Every variable has its type.                                            *)
TypeOK ==
  /\ arrived \in Seq(Kinds)
  /\ Len(arrived) <= MaxPackets
  /\ queue \in SUBSET DOMAIN arrived
  /\ minPriority \in Priority
  /\ lastDts \in Nat
  /\ sem \in Nat
  /\ producer \in {"idle", "checked", "post", "release"}
  /\ producer # "idle" => arrived # <<>>
  /\ hand \in {0} \cup DOMAIN arrived
  /\ hand # 0 <=> sender \in {"hand", "send"}
  /\ sender \in {"wait", "woken", "get", "hand", "send", "end", "free",
                 "reset", "inactive", "done"}
  /\ sent \in SUBSET DOMAIN arrived
  /\ dropped \in SUBSET DOMAIN arrived
  /\ released \in [1..MaxPackets -> Nat]
  /\ active \in BOOLEAN
  /\ stopEvent \in BOOLEAN
  /\ stopNow \in BOOLEAN
  /\ due \in BOOLEAN
  /\ ui \in {"idle", "stop", "post"}
  /\ stops \in Nat

InLoop == sender \in {"wait", "woken", "get", "hand", "send"}

(* No lost wakeup: while the send thread is in its loop, each queued packet *)
(* is covered by a count of send_sem, by the wakeup the thread is busy      *)
(* with, or by the post the callback is about to make.  Otherwise a packet  *)
(* would stay queued until a later one arrives, and the stream would lag    *)
(* behind for ever.  drop_frames empties the queue without taking counts    *)
(* back, which only wakes the thread for nothing.                           *)
NoLostWakeup ==
  InLoop => Cardinality(queue) <= sem + (IF sender \in {"woken", "get"} THEN 1 ELSE 0)
                                      + (IF producer = "post" THEN 1 ELSE 0)

(* One owner: each packet the callback took a reference to is in exactly    *)
(* one place (the callback, the queue, the hand of the send thread) or has  *)
(* been released exactly once: none is leaked, none is released twice.      *)
OwnedBy(i) ==
  LET One(b) == IF b THEN 1 ELSE 0
  IN  One(i = Len(arrived) /\ producer \in {"checked", "release"})
      + One(i \in queue) + One(i = hand)
OneOwner == \A i \in DOMAIN arrived : OwnedBy(i) + released[i] = 1

(* What the receiver can decode: when a video frame is queued or sent after *)
(* the loss of a frame of at least its own priority, then a frame of a      *)
(* higher priority than the lost one lies between them and was not lost.    *)
(* (A P-frame never follows a lost P-frame before the next keyframe; a      *)
(* b-frame never follows a lost reference b-frame before the next P-frame.) *)
Delivered == queue \cup sent \cup ({hand} \ {0})
GopIntegrity ==
  \A i \in Delivered, j \in dropped :
    (Video(i) /\ j < i /\ Prio(i) <= Prio(j)) =>
      \E k \in (j + 1)..(i - 1) :
        Video(k) /\ Prio(k) > Prio(j) /\ k \notin dropped

(* "do not drop audio data or video keyframes" (drop_frames): whatever the  *)
(* queue holds, and whatever min_priority an earlier session left behind,   *)
(* the callback releases neither audio nor a keyframe.                      *)
KeepsAudioAndKeyframes ==
  \A i \in dropped : Video(i) /\ ~arrived[i].key

(* What reaches the receiver: the packets in their order, each once, all    *)
(* the audio and keyframes that go before, and no frame without the ones it *)
(* may refer to; whatever drops and stops come in between, and nothing      *)
(* after the end of the loop.                                               *)
Stream == INSTANCE PacketStream WITH given <- arrived, out <- sent, open <- InLoop

SendsPlayable == Stream!Spec

(* The duration of the buffer is never computed from the last_dts_usec of   *)
(* an earlier session: once a video packet that is no keyframe is queued,   *)
(* last_dts_usec is the dts of a packet of this session not older than it.  *)
FreshDuration ==
  \A i \in queue : Video(i) /\ ~arrived[i].key =>
                     i <= lastDts /\ lastDts \in DOMAIN arrived

(* Each queued packet leaves the queue (sent, dropped, or freed with the    *)
(* rest) for as long as the send thread is in its loop, even if the         *)
(* encoders fall silent after it.                                           *)
QueueDrains ==
  \A n \in 1..MaxPackets :
    InLoop /\ n \in queue ~> ~(InLoop /\ n \in queue)

(* A stop ends the send thread: a forced stop of an active stream whatever  *)
(* the thread was doing, a stop with a time once its time has come if a     *)
(* packet is queued that no drop can take away.  (With an empty queue the   *)
(* thread waits for the next packet: the encoders must go on until then.)   *)
StopsEnd ==
  /\ (ui = "post") ~> (sender = "done")
  /\ (/\ InLoop /\ stopEvent /\ due
      /\ \E i \in queue : Video(i) => arrived[i].key) ~> (sender = "done")
=============================================================================
