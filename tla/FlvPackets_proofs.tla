------------------------- MODULE FlvPackets_proofs -------------------------
(***************************************************************************)
(* Proofs about the packets of the FLV output: about FlvQueue, for every   *)
(* set of packet kinds, every drop threshold and sessions of every length, *)
(* and about FlvWire, for every timebase, every frame and streams of every *)
(* length.  The two models share no variable.                              *)
(***************************************************************************)
EXTENDS FlvQueue, FlvWire, FiniteSetTheorems, SequenceTheorems, TLAPS

-----------------------------------------------------------------------------
(* The queue.                                                              *)

USE FlvQueueAssumption DEF HIGH, HIGHEST, DISPOSABLE, Priority

(* Releasing packets keeps the counts naturals.                             *)
LEMMA ReleaseType ==
  ASSUME TypeOK, NEW S
  PROVE  Release(S) \in [1..MaxPackets -> Nat]
BY DEF Release, TypeOK

(* What the two checks of add_video_packet leave: a part of the queue, and  *)
(* a priority not below min_priority.  Video frames that are gone have a    *)
(* priority below the new minimum, frames that stay are as before.          *)
LEMMA AfterChecksType ==
  ASSUME TypeOK
  PROVE  /\ AfterChecks.queue \in SUBSET queue
         /\ AfterChecks.min \in Priority
         /\ AfterChecks.min >= minPriority
         /\ \A i \in queue \ AfterChecks.queue : Video(i) /\ Prio(i) < AfterChecks.min
<1> DEFINE s0 == [queue |-> queue, min |-> minPriority]
           s1 == CheckToDrop(s0, HIGH, DropThreshold)
           s2 == CheckToDrop(s1, HIGHEST, PframeDropThreshold)
<1>0. /\ \A i \in queue : i \in DOMAIN arrived /\ arrived[i] \in Kind
      /\ minPriority \in Priority
  BY DEF TypeOK, FlvQueueAssumption
<1>1. /\ s1.queue \in SUBSET queue
      /\ s1.min \in Priority
      /\ s1.min >= minPriority
      /\ \A i \in queue \ s1.queue : Video(i) /\ Prio(i) < s1.min
  <2>1. CASE MustDrop(s0.queue, DropThreshold)
    BY <1>0, <2>1 DEF CheckToDrop, Kept, Video, Prio, Kind
  <2>2. CASE ~MustDrop(s0.queue, DropThreshold)
    BY <1>0, <2>2 DEF CheckToDrop
  <2>3. QED BY <2>1, <2>2
<1> HIDE DEF s1
<1>2. /\ s2.queue \in SUBSET queue
      /\ s2.min \in Priority
      /\ s2.min >= minPriority
      /\ \A i \in queue \ s2.queue : Video(i) /\ Prio(i) < s2.min
  <2>1. CASE MustDrop(s1.queue, PframeDropThreshold)
    BY <1>0, <1>1, <2>1 DEF CheckToDrop, Kept, Video, Prio, Kind
  <2>2. CASE ~MustDrop(s1.queue, PframeDropThreshold)
    BY <1>0, <1>1, <2>2 DEF CheckToDrop
  <2>3. QED BY <2>1, <2>2
<1>3. AfterChecks = s2
  BY DEF AfterChecks, s1
<1> QED BY <1>2, <1>3

(* add_video_packet keeps the types of what it changes.                     *)
LEMMA AddVideoType ==
  ASSUME TypeOK, Data_AddVideo
  PROVE  /\ queue' \in SUBSET DOMAIN arrived
         /\ minPriority' \in Priority
         /\ lastDts' \in Nat
         /\ dropped' \in SUBSET DOMAIN arrived
         /\ released' \in [1..MaxPackets -> Nat]
<1>1. Len(arrived) \in DOMAIN arrived /\ Len(arrived) \in Nat
  BY DEF TypeOK, Data_AddVideo
<1>2. /\ AfterChecks.queue \in SUBSET queue
      /\ AfterChecks.min \in Priority
  BY AfterChecksType
<1>3. released' \in [1..MaxPackets -> Nat]
  BY ReleaseType DEF Data_AddVideo
<1> DEFINE i == Len(arrived)
           q == AfterChecks.queue
           m == AfterChecks.min
           accepted == Prio(i) >= m
<1>4. /\ queue' = IF accepted THEN q \cup {i} ELSE q
      /\ minPriority' = IF accepted THEN DISPOSABLE ELSE m
      /\ lastDts' = IF accepted THEN i ELSE lastDts
      /\ dropped' = dropped \cup (queue \ q)
  BY DEF Data_AddVideo, LastDts
<1>5. /\ queue \in SUBSET DOMAIN arrived
      /\ dropped \in SUBSET DOMAIN arrived
      /\ lastDts \in Nat
  BY DEF TypeOK
<1> HIDE DEF i, q, m, accepted
<1> QED BY <1>1, <1>2, <1>3, <1>4, <1>5 DEF i, q, m

(* A new packet extends the history by one.                                 *)
LEMMA BeginType ==
  ASSUME TypeOK, NEW k \in Kinds, Data_Begin(k)
  PROVE  /\ arrived' \in Seq(Kinds)
         /\ Len(arrived') = Len(arrived) + 1
         /\ DOMAIN arrived' = DOMAIN arrived \cup {Len(arrived')}
         /\ \A i \in DOMAIN arrived : arrived'[i] = arrived[i]
         /\ arrived'[Len(arrived')] = k
<1>1. arrived \in Seq(Kinds) /\ arrived' = Append(arrived, k)
  BY DEF Data_Begin, TypeOK
<1> QED BY <1>1, AppendProperties, LenProperties

(* No step disturbs a type.                                                 *)
LEMMA TypeStep ==
  ASSUME TypeOK, [Next]_vars
  PROVE  TypeOK'
<1>1. ASSUME NEW k \in Kinds, Data_Begin(k) PROVE TypeOK'
  <2>1. /\ arrived' \in Seq(Kinds)
        /\ Len(arrived') <= MaxPackets
        /\ arrived' # <<>>
        /\ DOMAIN arrived \subseteq DOMAIN arrived'
    <3>1. /\ arrived' \in Seq(Kinds)
          /\ Len(arrived') = Len(arrived) + 1
          /\ DOMAIN arrived \subseteq DOMAIN arrived'
      BY <1>1, BeginType
    <3>2. Len(arrived) \in Nat /\ Len(arrived) < MaxPackets
      BY <1>1, LenProperties DEF TypeOK, Data_Begin
    <3>3. Len(arrived') <= MaxPackets
      BY <3>1, <3>2
    <3>4. arrived' # <<>>
      BY <3>1, <3>2, EmptySeq
    <3> QED BY <3>1, <3>3, <3>4
  <2>2. UNCHANGED <<queueVars, sem, senderVars, dropped, released, active, stopVars>>
    BY <1>1 DEF Data_Begin
  <2>3. producer' = "checked"
    BY <1>1 DEF Data_Begin
  <2> QED BY <2>1, <2>2, <2>3 DEF TypeOK, queueVars, senderVars, stopVars
<1>2. CASE Data_AddAudio
  BY <1>2 DEF TypeOK, Data_AddAudio, senderVars, stopVars
<1>3. CASE Data_AddVideo
  <2>1. /\ producer' \in {"post", "release"}
        /\ arrived # <<>>
    BY <1>3 DEF Data_AddVideo, TypeOK
  <2>2. UNCHANGED <<arrived, sem, senderVars, active, stopVars>>
    BY <1>3 DEF Data_AddVideo
  <2>3. /\ queue' \in SUBSET DOMAIN arrived
        /\ minPriority' \in Priority
        /\ lastDts' \in Nat
        /\ dropped' \in SUBSET DOMAIN arrived
        /\ released' \in [1..MaxPackets -> Nat]
    BY <1>3, AddVideoType
  <2> QED BY <2>1, <2>2, <2>3 DEF TypeOK, senderVars, stopVars
<1>4. CASE Data_Post
  BY <1>4 DEF TypeOK, Data_Post, queueVars, senderVars, stopVars
<1>5. CASE Data_Release
  <2>1. released' \in [1..MaxPackets -> Nat]
    BY <1>5, ReleaseType DEF Data_Release
  <2>2. Len(arrived) \in DOMAIN arrived
    BY <1>5 DEF Data_Release, TypeOK
  <2>3. dropped' \in SUBSET DOMAIN arrived
    BY <1>5, <2>2 DEF Data_Release, TypeOK
  <2> QED BY <1>5, <2>1, <2>3 DEF TypeOK, Data_Release, queueVars, senderVars, stopVars
<1>6. CASE Send_Wait
  BY <1>6 DEF TypeOK, Send_Wait, queueVars, stopVars
<1>7. CASE Send_CheckStop
  BY <1>7 DEF TypeOK, Send_CheckStop, queueVars, stopVars
<1>8. CASE Send_GetNextPacket
  BY <1>8 DEF TypeOK, Send_GetNextPacket, stopVars
<1>9. CASE Send_Shutdown
  <2>1. released' \in [1..MaxPackets -> Nat]
    BY <1>9, ReleaseType DEF Send_Shutdown
  <2> QED BY <1>9, <2>1 DEF TypeOK, Send_Shutdown, queueVars, stopVars
<1>10. CASE Send_CheckShutdown
  BY <1>10 DEF TypeOK, Send_CheckShutdown, queueVars, stopVars
<1>11. CASE Send_Packet
  <2>1. released' \in [1..MaxPackets -> Nat]
    BY <1>11, ReleaseType DEF Send_Packet
  <2>2. sent' \in SUBSET DOMAIN arrived
    BY <1>11 DEF Send_Packet, TypeOK
  <2> QED BY <1>11, <2>1, <2>2 DEF TypeOK, Send_Packet, queueVars, stopVars
<1>12. CASE Send_EndCapture
  BY <1>12 DEF TypeOK, Send_EndCapture, queueVars, stopVars
<1>13. CASE Send_FreePackets
  <2>1. released' \in [1..MaxPackets -> Nat]
    BY <1>13, ReleaseType DEF Send_FreePackets
  <2> QED BY <1>13, <2>1 DEF TypeOK, Send_FreePackets, stopVars
<1>14. CASE Send_ResetEvent
  BY <1>14 DEF TypeOK, Send_ResetEvent, queueVars
<1>15. CASE Send_Inactive
  BY <1>15 DEF TypeOK, Send_Inactive, queueVars, stopVars
<1>16. ASSUME NEW forced \in BOOLEAN, Stop_Begin(forced) PROVE TypeOK'
  BY <1>16 DEF TypeOK, Stop_Begin, queueVars, senderVars
<1>17. CASE Stop_Signal
  BY <1>17 DEF TypeOK, Stop_Signal, queueVars, senderVars
<1>18. CASE Stop_Post
  BY <1>18 DEF TypeOK, Stop_Post, queueVars, senderVars
<1>19. CASE Clock
  BY <1>19 DEF TypeOK, Clock, queueVars, senderVars
<1>20. CASE UNCHANGED vars
  BY <1>20 DEF TypeOK, vars, queueVars, senderVars, stopVars
<1> QED BY <1>1, <1>2, <1>3, <1>4, <1>5, <1>6, <1>7, <1>8, <1>9, <1>10,
           <1>11, <1>12, <1>13, <1>14, <1>15, <1>16, <1>17, <1>18, <1>19,
           <1>20 DEF Next, Callback, SendThread, StopCall

(* Every variable keeps its type in every behaviour.                        *)
THEOREM TypeCorrect == Spec => []TypeOK
<1>1. Init => TypeOK
  <2>1. <<>> \in Seq(Kinds) /\ Len(<<>>) = 0
    BY EmptySeq
  <2> SUFFICES ASSUME Init PROVE TypeOK
    OBVIOUS
  <2>2. arrived \in Seq(Kinds) /\ Len(arrived) <= MaxPackets
    BY <2>1 DEF Init
  <2>3. released \in [1..MaxPackets -> Nat] /\ lastDts \in Nat
    BY DEF Init
  <2>4. /\ active \in BOOLEAN /\ stopEvent \in BOOLEAN
        /\ stopNow \in BOOLEAN /\ due \in BOOLEAN
    BY Zenon DEF Init
  <2>5. hand \in {0} \cup DOMAIN arrived /\ (hand # 0 <=> sender \in {"hand", "send"})
    BY DEF Init
  <2>6. /\ queue \in SUBSET DOMAIN arrived
        /\ sent \in SUBSET DOMAIN arrived
        /\ dropped \in SUBSET DOMAIN arrived
    BY DEF Init
  <2>7. minPriority \in Priority /\ sem \in Nat /\ stops \in Nat
    BY DEF Init
  <2>8. /\ producer \in {"idle", "checked", "post", "release"}
        /\ producer # "idle" => arrived # <<>>
        /\ sender \in {"wait", "woken", "get", "hand", "send", "end", "free", "reset", "inactive", "done"}
        /\ ui \in {"idle", "stop", "post"}
    BY DEF Init
  <2> QED BY <2>2, <2>3, <2>4, <2>5, <2>6, <2>7, <2>8 DEF TypeOK
<1>2. TypeOK /\ [Next]_vars => TypeOK'
  BY TypeStep
<1> QED BY <1>1, <1>2, PTL DEF Spec

-----------------------------------------------------------------------------
(* The queue is finite, and taking packets out makes it no larger.          *)
LEMMA QueueFinite ==
  ASSUME TypeOK
  PROVE  /\ IsFiniteSet(queue)
         /\ Cardinality(queue) \in Nat
         /\ \A S \in SUBSET queue : /\ IsFiniteSet(S)
                                   /\ Cardinality(S) \in Nat
                                   /\ Cardinality(S) <= Cardinality(queue)
<1>1. queue \in SUBSET (1..Len(arrived)) /\ Len(arrived) \in Nat
  BY LenProperties DEF TypeOK
<1>2. IsFiniteSet(1..Len(arrived))
  BY <1>1, FS_Interval
<1>3. IsFiniteSet(queue)
  BY <1>1, <1>2, FS_Subset
<1> QED BY <1>3, FS_Subset, FS_CardinalityType

(* The callback queues at most the packet it holds.                         *)
LEMMA AddedAtMostOne ==
  ASSUME TypeOK, Data_AddAudio \/ Data_AddVideo
  PROVE  /\ Cardinality(queue') <= Cardinality(queue) + (IF producer' = "post" THEN 1 ELSE 0)
         /\ Cardinality(queue') \in Nat
<1>1. CASE Data_AddAudio
  <2>1. queue' = queue \cup {Len(arrived)} /\ producer' = "post"
    BY <1>1 DEF Data_AddAudio
  <2>2. IsFiniteSet(queue) /\ Cardinality(queue) \in Nat
    BY QueueFinite
  <2>3. Cardinality(queue') = IF Len(arrived) \in queue THEN Cardinality(queue)
                              ELSE Cardinality(queue) + 1
    BY <2>1, <2>2, FS_AddElement
  <2> QED BY <2>1, <2>2, <2>3
<1>2. CASE Data_AddVideo
  <2> DEFINE q == AfterChecks.queue
  <2>1. \/ queue' = q \cup {Len(arrived)} /\ producer' = "post"
        \/ queue' = q
    BY <1>2 DEF Data_AddVideo
  <2>2. /\ IsFiniteSet(q)
        /\ Cardinality(q) \in Nat
        /\ Cardinality(q) <= Cardinality(queue)
        /\ Cardinality(queue) \in Nat
    BY AfterChecksType, QueueFinite
  <2> HIDE DEF q
  <2>3. CASE queue' = q \cup {Len(arrived)} /\ producer' = "post"
    <3>1. Cardinality(queue') \in Nat /\ Cardinality(queue') <= Cardinality(q) + 1
      <4>1. Cardinality(q \cup {Len(arrived)}) =
              IF Len(arrived) \in q THEN Cardinality(q) ELSE Cardinality(q) + 1
        BY <2>2, FS_AddElement
      <4> QED BY <2>2, <2>3, <4>1
    <3> QED BY <2>2, <2>3, <3>1
  <2>4. CASE queue' = q
    BY <2>2, <2>4
  <2> QED BY <2>1, <2>3, <2>4
<1> QED BY <1>1, <1>2

(* No step loses a wakeup.                                                  *)
LEMMA WakeupStep ==
  ASSUME TypeOK, NoLostWakeup, [Next]_vars
  PROVE  NoLostWakeup'
<1> USE QueueFinite DEF NoLostWakeup, InLoop
<1>0. sem \in Nat
  BY DEF TypeOK
<1>1. ASSUME NEW k \in Kinds, Data_Begin(k) PROVE NoLostWakeup'
  BY <1>0, <1>1 DEF Data_Begin, queueVars, senderVars
<1>2. CASE Data_AddAudio \/ Data_AddVideo
  <2>1. UNCHANGED <<sem, sender>> /\ producer = "checked"
    BY <1>2 DEF Data_AddAudio, Data_AddVideo, senderVars
  <2> QED BY <1>0, <1>2, <2>1, AddedAtMostOne
<1>3. CASE Data_Post
  BY <1>0, <1>3 DEF Data_Post, queueVars, senderVars
<1>4. CASE Data_Release
  BY <1>0, <1>4 DEF Data_Release, queueVars, senderVars
<1>5. CASE Send_Wait
  BY <1>0, <1>5 DEF Send_Wait, queueVars
<1>6. CASE Send_CheckStop
  BY <1>0, <1>6 DEF Send_CheckStop, queueVars
<1>7. CASE Send_GetNextPacket
  <2>1. CASE queue = {}
    BY <1>0, <1>7, <2>1, FS_EmptySet DEF Send_GetNextPacket
  <2>2. CASE queue # {}
    <3>1. /\ hand' \in queue
          /\ queue' = queue \ {hand'}
          /\ UNCHANGED <<sem, producer>>
          /\ sender = "get" /\ sender' = "hand"
      BY <1>7, <2>2 DEF Send_GetNextPacket
    <3>2. Cardinality(queue') = Cardinality(queue) - 1
      BY <3>1, FS_RemoveElement
    <3> QED BY <1>0, <3>1, <3>2
  <2> QED BY <2>1, <2>2
<1>8. CASE Send_Shutdown
  BY <1>0, <1>8 DEF Send_Shutdown, queueVars
<1>9. CASE Send_CheckShutdown
  BY <1>0, <1>9 DEF Send_CheckShutdown, queueVars
<1>10. CASE Send_Packet
  BY <1>0, <1>10 DEF Send_Packet, queueVars
<1>11. CASE Send_EndCapture \/ Send_FreePackets \/ Send_ResetEvent \/ Send_Inactive
  BY <1>11 DEF Send_EndCapture, Send_FreePackets, Send_ResetEvent, Send_Inactive
<1>12. ASSUME NEW forced \in BOOLEAN, Stop_Begin(forced) PROVE NoLostWakeup'
  BY <1>0, <1>12 DEF Stop_Begin, queueVars, senderVars
<1>13. CASE Stop_Signal
  BY <1>0, <1>13 DEF Stop_Signal, queueVars, senderVars
<1>14. CASE Stop_Post
  BY <1>0, <1>14 DEF Stop_Post, queueVars, senderVars
<1>15. CASE Clock
  BY <1>0, <1>15 DEF Clock, queueVars, senderVars
<1>16. CASE UNCHANGED vars
  BY <1>0, <1>16 DEF vars, queueVars, senderVars
<1> QED BY <1>1, <1>2, <1>3, <1>4, <1>5, <1>6, <1>7, <1>8, <1>9, <1>10, <1>11,
           <1>12, <1>13, <1>14, <1>15, <1>16 DEF Next, Callback, SendThread, StopCall

(* No wakeup is ever lost: while the send thread is in its loop, each       *)
(* queued packet is covered by a count of send_sem, by the wakeup the       *)
(* thread is busy with or by the post the callback is about to make.        *)
THEOREM WakeupCorrect == Spec => []NoLostWakeup
<1>1. Init => NoLostWakeup
  BY FS_EmptySet DEF Init, NoLostWakeup
<1>2. TypeOK /\ NoLostWakeup /\ [Next]_vars => NoLostWakeup'
  BY WakeupStep
<1> QED BY <1>1, <1>2, TypeCorrect, PTL DEF Spec

-----------------------------------------------------------------------------
(* Frame dropping.  GopIntegrity is not inductive: that no later frame may  *)
(* pass until one of a higher priority comes is remembered by min_priority, *)
(* and frames are sent in the order in which they came.                     *)

Holding == producer \in {"checked", "release"}

(* The packet the callback holds is newer than all others.                  *)
Newest == Holding => \A i \in Delivered \cup dropped : i < Len(arrived)

(* What was sent, or is about to be, is older than what is queued.          *)
Order == \A i \in sent \cup ({hand} \ {0}), j \in queue : i < j

(* After a loss, a frame of a higher priority than the lost one has come    *)
(* and was not lost, or min_priority still refuses all others.              *)
Higher(j, k) == Video(k) /\ Prio(k) > Prio(j) /\ k \notin dropped
MinRemembers ==
  \A j \in dropped : \/ Prio(j) < minPriority
                     \/ \E k \in (j + 1)..Len(arrived) : Higher(j, k)

(* A refused packet is a video frame below min_priority.                    *)
Refused ==
  producer = "release" =>
    Video(Len(arrived)) /\ Prio(Len(arrived)) < minPriority

(* Only video frames below the highest priority are lost.                   *)
LostAreLow == \A j \in dropped : Video(j) /\ Prio(j) < HIGHEST

GopInv == Newest /\ Order /\ MinRemembers /\ Refused /\ LostAreLow /\ GopIntegrity

(* The frames that drop_frames keeps all have a higher priority than those  *)
(* it drops.                                                                *)
LEMMA KeptAboveDropped ==
  ASSUME TypeOK
  PROVE  \A i \in AfterChecks.queue, j \in queue \ AfterChecks.queue :
           Video(i) => Prio(i) > Prio(j)
<1> DEFINE s0 == [queue |-> queue, min |-> minPriority]
           s1 == CheckToDrop(s0, HIGH, DropThreshold)
           s2 == CheckToDrop(s1, HIGHEST, PframeDropThreshold)
<1>0. \A i \in queue : Prio(i) \in 0..3
  BY DEF TypeOK, Prio, Kind
<1>1. /\ s1.queue \in SUBSET queue
      /\ \A j \in queue \ s1.queue : Prio(j) < 2
      /\ \A i \in s1.queue, j \in queue \ s1.queue : Video(i) => Prio(i) > Prio(j)
  <2>1. CASE MustDrop(s0.queue, DropThreshold)
    BY <1>0, <2>1 DEF CheckToDrop, Kept
  <2>2. CASE ~MustDrop(s0.queue, DropThreshold)
    BY <2>2 DEF CheckToDrop
  <2> QED BY <2>1, <2>2
<1> HIDE DEF s1
<1>2. \A i \in s2.queue, j \in queue \ s2.queue : Video(i) => Prio(i) > Prio(j)
  <2>1. CASE MustDrop(s1.queue, PframeDropThreshold)
    <3>1. s2.queue = {i \in s1.queue : ~Video(i) \/ Prio(i) >= 3}
      BY <2>1 DEF CheckToDrop, Kept
    <3> QED BY <1>0, <1>1, <3>1
  <2>2. CASE ~MustDrop(s1.queue, PframeDropThreshold)
    BY <1>1, <2>2 DEF CheckToDrop
  <2> QED BY <2>1, <2>2
<1>3. AfterChecks = s2
  BY DEF AfterChecks, s1
<1> QED BY <1>2, <1>3

(* add_video_packet preserves the invariant.                                *)
LEMMA AddVideoGop ==
  ASSUME TypeOK, GopInv, Data_AddVideo
  PROVE  GopInv'
<1> DEFINE n == Len(arrived)
           q == AfterChecks.queue
           m == AfterChecks.min
           lost == queue \ q
<1>1. /\ n \in DOMAIN arrived /\ DOMAIN arrived = 1..n /\ n \in Nat
      /\ \A i \in DOMAIN arrived : Prio(i) \in 0..3
      /\ minPriority \in 0..3
      /\ queue \subseteq DOMAIN arrived /\ sent \subseteq DOMAIN arrived
      /\ dropped \subseteq DOMAIN arrived /\ hand \in {0} \cup DOMAIN arrived
  BY LenProperties DEF TypeOK, Data_AddVideo, Prio, Kind
<1>2. /\ q \subseteq queue /\ m \in 0..3 /\ m >= minPriority
      /\ \A i \in lost : Video(i) /\ Prio(i) < m
  BY AfterChecksType
<1>3. \A i \in q, j \in lost : Video(i) => Prio(i) > Prio(j)
  BY KeptAboveDropped
<1>4. /\ producer = "checked" /\ Video(n)
      /\ dropped' = dropped \cup lost
      /\ UNCHANGED <<arrived, sent, hand>>
      /\ \/ /\ Prio(n) >= m
            /\ queue' = q \cup {n} /\ minPriority' = 0 /\ producer' = "post"
         \/ /\ Prio(n) < m
            /\ queue' = q /\ minPriority' = m /\ producer' = "release"
  <2>1. Prio(n) >= m \/ Prio(n) < m
    BY <1>1, <1>2
  <2> QED BY <2>1, <1>1, <1>2 DEF Data_AddVideo, senderVars
<1>5. \A i \in queue \cup sent \cup ({hand} \ {0}) \cup dropped : i < n
  BY <1>4 DEF GopInv, Newest, Holding, Delivered
<1>6. \A i \in DOMAIN arrived : Video(i)' = Video(i) /\ Prio(i)' = Prio(i)
  BY <1>4 DEF Video, Prio
<1> HIDE DEF n, q, m, lost
\* after the checks, before the packet itself is accepted or refused
<1>7. \A j \in dropped' : \/ Prio(j) < m
                         \/ \E k \in (j + 1)..n : Video(k) /\ Prio(k) > Prio(j) /\ k \notin dropped'
  <2> SUFFICES ASSUME NEW j \in dropped', ~(Prio(j) < m)
               PROVE  \E k \in (j + 1)..n : Video(k) /\ Prio(k) > Prio(j) /\ k \notin dropped'
    OBVIOUS
  <2>1. j \in dropped
    BY <1>2, <1>4
  <2>2. ~(Prio(j) < minPriority)
    BY <1>1, <1>2, <2>1
  <2>3. PICK k \in (j + 1)..n : Video(k) /\ Prio(k) > Prio(j) /\ k \notin dropped
    BY <2>1, <2>2 DEF GopInv, MinRemembers, Higher, n
  <2>4. k \notin lost
    BY <1>1, <1>2, <2>1, <2>3 DEF lost
  <2> QED BY <1>4, <2>3, <2>4
<1>8. \A i \in q \cup sent \cup ({hand} \ {0}), j \in dropped' :
        (Video(i) /\ j < i /\ Prio(i) <= Prio(j)) =>
          \E k \in (j + 1)..(i - 1) : Video(k) /\ Prio(k) > Prio(j) /\ k \notin dropped'
  <2> SUFFICES ASSUME NEW i \in q \cup sent \cup ({hand} \ {0}), NEW j \in dropped',
                      Video(i), j < i, Prio(i) <= Prio(j)
               PROVE  \E k \in (j + 1)..(i - 1) : Video(k) /\ Prio(k) > Prio(j) /\ k \notin dropped'
    OBVIOUS
  <2>0. /\ i \in DOMAIN arrived /\ j \in DOMAIN arrived
        /\ i \in Delivered
    BY <1>1, <1>2, <1>4 DEF Delivered, lost
  \* a packet younger than a queued one, and not lost now, stays queued
  <2>1. ASSUME NEW x \in lost, x < i PROVE i \in q
    <3>1. CASE i \in sent \cup ({hand} \ {0})
      <4>1. i < x
        BY <3>1, <2>1 DEF GopInv, Order, lost
      <4> QED BY <4>1, <2>0, <2>1, <1>1 DEF lost
    <3> QED BY <3>1
  <2>2. CASE j \in lost
    <3>1. i \in q
      BY <2>1, <2>2
    <3> QED BY <3>1, <2>2, <1>3, <2>0, <1>1
  <2>3. CASE j \in dropped
    <3>1. PICK k \in (j + 1)..(i - 1) : Video(k) /\ Prio(k) > Prio(j) /\ k \notin dropped
      BY <2>0, <2>3 DEF GopInv, GopIntegrity
    <3>2. k \notin lost
      <4> SUFFICES ASSUME k \in lost PROVE FALSE
        OBVIOUS
      <4>1. k < i /\ k \in DOMAIN arrived
        BY <3>1, <2>0, <1>1
      <4>2. Prio(i) > Prio(k)
        BY <4>1, <2>1, <1>3
      <4> QED BY <4>1, <4>2, <3>1, <2>0, <1>1
    <3> QED BY <3>1, <3>2, <1>4
  <2> QED BY <2>2, <2>3, <1>4
<1>9. CASE /\ Prio(n) >= m
           /\ queue' = q \cup {n} /\ minPriority' = 0 /\ producer' = "post"
  <2>1. n \notin dropped'
    BY <1>1, <1>4, <1>5 DEF lost
  <2>2. Newest' /\ Refused'
    BY <1>9 DEF Newest, Holding, Refused
  <2>3. Order'
    BY <1>1, <1>2, <1>4, <1>5, <1>9 DEF GopInv, Order
  <2>4. MinRemembers'
    <3> SUFFICES ASSUME NEW j \in dropped'
                 PROVE  \E k \in (j + 1)..n : Video(k) /\ Prio(k) > Prio(j) /\ k \notin dropped'
      BY <1>1, <1>4, <1>6 DEF MinRemembers, Higher, n, Video, Prio
    <3>1. CASE Prio(j) < m
      <4>1. j < n /\ j \in DOMAIN arrived
        BY <1>1, <1>2, <1>4, <1>5 DEF lost
      <4>2. n \in (j + 1)..n /\ Prio(n) > Prio(j)
        BY <4>1, <3>1, <1>1, <1>2, <1>9
      <4> QED BY <4>2, <2>1, <1>4
    <3> QED BY <3>1, <1>7
  <2>5. GopIntegrity'
    <3>1. \A j \in dropped' :
            (j < n /\ Prio(n) <= Prio(j)) =>
              \E k \in (j + 1)..(n - 1) : Video(k) /\ Prio(k) > Prio(j) /\ k \notin dropped'
      <4> SUFFICES ASSUME NEW j \in dropped', j < n, Prio(n) <= Prio(j)
                   PROVE  \E k \in (j + 1)..(n - 1) : Video(k) /\ Prio(k) > Prio(j) /\ k \notin dropped'
        OBVIOUS
      <4>1. j \in DOMAIN arrived
        BY <1>1, <1>4 DEF lost
      <4>2. PICK k \in (j + 1)..n : Video(k) /\ Prio(k) > Prio(j) /\ k \notin dropped'
        BY <1>1, <1>2, <1>7, <1>9, <4>1
      <4>3. k # n
        BY <4>1, <4>2, <1>1
      <4> QED BY <4>1, <4>2, <4>3, <1>1
    <3>2. Delivered' = q \cup sent \cup ({hand} \ {0}) \cup {n}
      BY <1>4, <1>9 DEF Delivered
    <3>3. Delivered' \subseteq DOMAIN arrived /\ dropped' \subseteq DOMAIN arrived
      BY <3>2, <1>1, <1>2, <1>4 DEF lost
    <3>4. \A i \in Delivered', j \in dropped' :
            (Video(i) /\ j < i /\ Prio(i) <= Prio(j)) =>
              \E k \in (j + 1)..(i - 1) : Video(k) /\ Prio(k) > Prio(j) /\ k \notin dropped'
      BY <3>1, <3>2, <1>8
    <3> QED BY <3>3, <3>4, <1>4 DEF GopIntegrity, Video, Prio
  <2>6. LostAreLow'
    BY <1>1, <1>2, <1>4, <1>6 DEF GopInv, LostAreLow, lost
  <2> QED BY <2>2, <2>3, <2>4, <2>5, <2>6 DEF GopInv
<1>10. CASE /\ Prio(n) < m
            /\ queue' = q /\ minPriority' = m /\ producer' = "release"
  <2>1. Delivered' = q \cup sent \cup ({hand} \ {0})
    BY <1>4, <1>10 DEF Delivered
  <2>2. Newest'
    BY <2>1, <1>2, <1>4, <1>5 DEF Newest, n, lost
  <2>3. Refused'
    BY <1>4, <1>10 DEF Refused, n, Video, Prio
  <2>4. Order'
    BY <1>2, <1>4, <1>10 DEF GopInv, Order
  <2>5. MinRemembers'
    BY <1>4, <1>7, <1>10 DEF MinRemembers, Higher, n, Video, Prio
  <2>6. GopIntegrity'
    BY <2>1, <1>4, <1>8 DEF GopIntegrity, Video, Prio
  <2>7. LostAreLow'
    BY <1>1, <1>2, <1>4, <1>6 DEF GopInv, LostAreLow, lost
  <2> QED BY <2>2, <2>3, <2>4, <2>5, <2>6, <2>7 DEF GopInv
<1> QED BY <1>4, <1>9, <1>10

(* A new packet is newer than all that came before.                         *)
LEMMA BeginGop ==
  ASSUME TypeOK, GopInv, NEW p \in Kinds, Data_Begin(p)
  PROVE  GopInv'
<1>1. /\ Len(arrived') = Len(arrived) + 1
      /\ DOMAIN arrived' = DOMAIN arrived \cup {Len(arrived')}
      /\ \A i \in DOMAIN arrived : arrived'[i] = arrived[i]
  BY BeginType
<1>2. UNCHANGED <<queue, sent, hand, dropped, minPriority>> /\ producer' = "checked"
  BY DEF Data_Begin, queueVars, senderVars
<1>3. /\ DOMAIN arrived = 1..Len(arrived) /\ Len(arrived) \in Nat
      /\ Delivered \cup dropped \subseteq DOMAIN arrived
      /\ Delivered' = Delivered
  BY <1>2, LenProperties DEF TypeOK, Delivered
<1>4. \A i \in DOMAIN arrived : (Video(i)' <=> Video(i)) /\ Prio(i)' = Prio(i)
  BY <1>1 DEF Video, Prio
<1>5. Newest' /\ Refused' /\ Order'
  BY <1>1, <1>2, <1>3 DEF GopInv, Newest, Refused, Order
<1>6. MinRemembers'
  <2> SUFFICES ASSUME NEW j \in dropped, ~(Prio(j) < minPriority)
               PROVE  \E k \in (j + 1)..Len(arrived') : Higher(j, k)'
    BY <1>2, <1>3, <1>4 DEF MinRemembers
  <2>1. PICK k \in (j + 1)..Len(arrived) : Higher(j, k)
    BY DEF GopInv, MinRemembers
  <2>2. k \in DOMAIN arrived /\ j \in DOMAIN arrived
    BY <2>1, <1>3
  <2> QED BY <2>1, <2>2, <1>1, <1>2, <1>3, <1>4 DEF Higher
<1>7. GopIntegrity'
  <2> SUFFICES ASSUME NEW i \in Delivered, NEW j \in dropped,
                      Video(i), j < i, Prio(i) <= Prio(j)
               PROVE  \E k \in (j + 1)..(i - 1) :
                        Video(k)' /\ Prio(k)' > Prio(j)' /\ k \notin dropped'
    BY <1>2, <1>3, <1>4 DEF GopIntegrity
  <2>1. PICK k \in (j + 1)..(i - 1) : Video(k) /\ Prio(k) > Prio(j) /\ k \notin dropped
    BY DEF GopInv, GopIntegrity
  <2>2. i \in DOMAIN arrived /\ j \in DOMAIN arrived
    BY <1>3
  <2>3. k \in DOMAIN arrived
    BY <2>1, <2>2, <1>3
  <2> QED BY <2>1, <2>2, <2>3, <1>2, <1>4
<1>8. LostAreLow'
  BY <1>2, <1>3, <1>4 DEF GopInv, LostAreLow
<1> QED BY <1>5, <1>6, <1>7, <1>8 DEF GopInv

(* A step that keeps the history, what is lost and min_priority, and makes  *)
(* no packet undelivered that was not, preserves all but the order.         *)
LEMMA QuietGop ==
  ASSUME TypeOK, GopInv,
         UNCHANGED <<arrived, dropped, minPriority>>,
         Delivered' \subseteq Delivered,
         Order',
         producer' = producer \/ producer' \in {"idle", "post"}
  PROVE  GopInv'
<1>1. Newest' /\ Refused'
  BY DEF GopInv, Newest, Refused, Holding, Video, Prio
<1>2. MinRemembers' /\ LostAreLow' /\ GopIntegrity'
  BY DEF GopInv, MinRemembers, Higher, LostAreLow, GopIntegrity, Video, Prio
<1> QED BY <1>1, <1>2 DEF GopInv

(* No step breaks the invariant.                                            *)
LEMMA GopStep ==
  ASSUME TypeOK, GopInv, [Next]_vars
  PROVE  GopInv'
<1> DEFINE Quiet == /\ UNCHANGED <<arrived, dropped, minPriority>>
                    /\ Delivered' \subseteq Delivered
                    /\ Order'
                    /\ producer' = producer \/ producer' \in {"idle", "post"}
           Still == UNCHANGED <<arrived, dropped, minPriority, queue, sent, hand>>
<1>0. ASSUME Still, producer' = producer \/ producer' \in {"idle", "post"}
      PROVE  Quiet
  BY <1>0 DEF GopInv, Order, Delivered
<1>1. ASSUME NEW k \in Kinds, Data_Begin(k) PROVE GopInv'
  BY <1>1, BeginGop
<1>2. CASE Data_AddAudio
  <2> DEFINE n == Len(arrived)
  <2>1. /\ UNCHANGED <<arrived, dropped, minPriority, sent, hand>>
        /\ queue' = queue \cup {n} /\ producer = "checked" /\ producer' = "post"
        /\ ~Video(n)
    BY <1>2 DEF Data_AddAudio, senderVars
  <2>2. \A i \in Delivered \cup dropped : i < n
    BY <2>1 DEF GopInv, Newest, Holding
  <2>3. Newest' /\ Refused'
    BY <2>1 DEF Newest, Refused, Holding
  <2>4. Order'
    BY <2>1, <2>2 DEF GopInv, Order, Delivered
  <2>5. MinRemembers' /\ LostAreLow'
    BY <2>1 DEF GopInv, MinRemembers, Higher, LostAreLow, Video, Prio
  <2>6. Delivered' = Delivered \cup {n}
    BY <2>1 DEF Delivered
  <2>7. GopIntegrity'
    BY <2>1, <2>6 DEF GopInv, GopIntegrity, Video, Prio
  <2> QED BY <2>3, <2>4, <2>5, <2>7 DEF GopInv
<1>3. CASE Data_AddVideo
  BY <1>3, AddVideoGop
<1>4. CASE Data_Post
  BY <1>0, <1>4, QuietGop DEF Data_Post, queueVars, senderVars
<1>5. CASE Data_Release
  <2> DEFINE n == Len(arrived)
  <2>1. /\ UNCHANGED <<arrived, minPriority, queue, sent, hand>>
        /\ dropped' = dropped \cup {n} /\ producer = "release" /\ producer' = "idle"
    BY <1>5 DEF Data_Release, queueVars, senderVars
  <2>2. Delivered' = Delivered
    BY <2>1 DEF Delivered
  <2>3. \A i \in Delivered \cup dropped : i < n
    BY <2>1 DEF GopInv, Newest, Holding
  <2>4. Video(n) /\ Prio(n) < minPriority
    BY <2>1 DEF GopInv, Refused
  <2>5. /\ n \in DOMAIN arrived /\ DOMAIN arrived = 1..n /\ n \in Nat
        /\ \A i \in DOMAIN arrived : Prio(i) \in 0..3
        /\ minPriority \in 0..3
        /\ Delivered \subseteq DOMAIN arrived /\ dropped \subseteq DOMAIN arrived
    BY <2>1, LenProperties DEF TypeOK, Prio, Kind, Delivered
  <2>6. Newest' /\ Refused' /\ Order'
    BY <2>1 DEF GopInv, Newest, Refused, Holding, Order
  <2>7. MinRemembers'
    <3> SUFFICES ASSUME NEW j \in dropped', ~(Prio(j) < minPriority)
                 PROVE  \E k \in (j + 1)..n : Video(k) /\ Prio(k) > Prio(j) /\ k \notin dropped'
      BY <2>1 DEF MinRemembers, Higher, Video, Prio
    <3>1. j \in dropped
      BY <2>1, <2>4
    <3>2. PICK k \in (j + 1)..n : Higher(j, k)
      BY <3>1 DEF GopInv, MinRemembers
    <3>3. Prio(j) \in 0..3 /\ Prio(n) \in 0..3 /\ Prio(k) > Prio(j)
      BY <3>1, <3>2, <2>5 DEF Higher
    <3>4. k # n
      <4> SUFFICES ASSUME k = n PROVE FALSE
        OBVIOUS
      <4>1. Prio(n) > Prio(j)
        BY <3>3
      <4> HIDE DEF n
      <4> QED BY <4>1, <3>3, <2>4, <2>5
    <3> QED BY <3>2, <3>4, <2>1 DEF Higher
  <2>8. GopIntegrity'
    <3> SUFFICES ASSUME NEW i \in Delivered, NEW j \in dropped',
                        Video(i), j < i, Prio(i) <= Prio(j)
                 PROVE  \E k \in (j + 1)..(i - 1) : Video(k) /\ Prio(k) > Prio(j) /\ k \notin dropped'
      BY <2>1, <2>2 DEF GopIntegrity, Video, Prio
    <3>1. j \in dropped /\ i < n
      BY <2>1, <2>3, <2>5
    <3>2. PICK k \in (j + 1)..(i - 1) : Video(k) /\ Prio(k) > Prio(j) /\ k \notin dropped
      BY <3>1 DEF GopInv, GopIntegrity
    <3>3. i \in Nat /\ j \in Nat /\ n \in Nat
      BY <3>1, <2>5
    <3>4. k # n
      BY <3>1, <3>2, <3>3
    <3> QED BY <3>2, <3>4, <2>1
  <2>9. LostAreLow'
    BY <2>1, <2>4, <2>5 DEF GopInv, LostAreLow, Video, Prio
  <2> QED BY <2>6, <2>7, <2>8, <2>9 DEF GopInv
<1>6. CASE Send_Wait \/ Send_CheckStop \/ Send_CheckShutdown
  BY <1>0, <1>6, QuietGop DEF Send_Wait, Send_CheckStop, Send_CheckShutdown, queueVars
<1>7. CASE Send_GetNextPacket
  <2>1. CASE queue = {}
    BY <1>0, <1>7, <2>1, QuietGop DEF Send_GetNextPacket
  <2>2. CASE queue # {}
    <3>1. /\ hand' \in queue
          /\ \A i \in queue : hand' <= i
          /\ queue' = queue \ {hand'}
          /\ UNCHANGED <<arrived, dropped, minPriority, sent, producer>>
          /\ sender = "get"
      BY <1>7, <2>2 DEF Send_GetNextPacket
    <3>2. hand = 0 /\ queue \subseteq Nat
      BY <3>1 DEF TypeOK
    <3>3. Delivered' \subseteq Delivered
      BY <3>1, <3>2 DEF Delivered
    <3>4. Order'
      BY <3>1, <3>2 DEF GopInv, Order
    <3> QED BY <3>1, <3>3, <3>4, QuietGop
  <2> QED BY <2>1, <2>2
<1>8. CASE Send_Shutdown \/ Send_Packet
  <2>1. /\ UNCHANGED <<arrived, dropped, minPriority, producer, queue>>
        /\ hand' = 0
        /\ hand # 0
        /\ sent' \subseteq sent \cup {hand}
    BY <1>8 DEF Send_Shutdown, Send_Packet, queueVars, TypeOK
  <2>2. Delivered' \subseteq Delivered
    BY <2>1 DEF Delivered
  <2>3. Order'
    BY <2>1 DEF GopInv, Order
  <2> QED BY <2>1, <2>2, <2>3, QuietGop
<1>9. CASE Send_EndCapture \/ Send_ResetEvent \/ Send_Inactive
  BY <1>0, <1>9, QuietGop DEF Send_EndCapture, Send_ResetEvent, Send_Inactive, queueVars
<1>10. CASE Send_FreePackets
  <2>1. /\ UNCHANGED <<arrived, dropped, minPriority, producer, sent, hand>>
        /\ queue' = {}
    BY <1>10 DEF Send_FreePackets
  <2>2. Delivered' \subseteq Delivered /\ Order'
    BY <2>1 DEF Delivered, Order
  <2> QED BY <2>1, <2>2, QuietGop
<1>11. ASSUME NEW forced \in BOOLEAN, Stop_Begin(forced) PROVE GopInv'
  BY <1>0, <1>11, QuietGop DEF Stop_Begin, queueVars, senderVars
<1>12. CASE Stop_Signal \/ Stop_Post \/ Clock
  BY <1>0, <1>12, QuietGop DEF Stop_Signal, Stop_Post, Clock, queueVars, senderVars
<1>13. CASE UNCHANGED vars
  BY <1>0, <1>13, QuietGop DEF vars, queueVars, senderVars
<1> QED BY <1>1, <1>2, <1>3, <1>4, <1>5, <1>6, <1>7, <1>8, <1>9, <1>10, <1>11,
           <1>12, <1>13 DEF Next, Callback, SendThread, StopCall

(* The invariant holds in every reachable state.                            *)
LEMMA GopInvariant == Spec => []GopInv
<1>1. Init => GopInv
  BY DEF Init, GopInv, Newest, Holding, Order, MinRemembers, Refused, LostAreLow,
         GopIntegrity, Delivered
<1>2. TypeOK /\ GopInv /\ [Next]_vars => GopInv'
  BY GopStep
<1> QED BY <1>1, <1>2, TypeCorrect, PTL DEF Spec

(* After the loss of a video frame no frame of its priority or a lower one  *)
(* is queued or sent before a frame of a higher priority: what the receiver *)
(* gets never refers to a frame that was dropped.                           *)
THEOREM GopCorrect == Spec => []GopIntegrity
<1>1. GopInv => GopIntegrity
  BY DEF GopInv
<1> QED BY <1>1, GopInvariant, PTL

(* Neither audio nor keyframes are ever dropped by the encoder callback.    *)
THEOREM KeepsCorrect == Spec => []KeepsAudioAndKeyframes
<1>1. TypeOK /\ GopInv => KeepsAudioAndKeyframes
  BY DEF TypeOK, GopInv, LostAreLow, KeepsAudioAndKeyframes, Video, Prio, Kind
<1> QED BY <1>1, TypeCorrect, GopInvariant, PTL

-----------------------------------------------------------------------------
(* Ownership.  The places a packet can be in exclude each other, and a packet that is   *)
(* in none of them has been released.                                       *)
Held(i) == i = Len(arrived) /\ Holding
Owner(i) ==
  /\ Held(i) => i \notin queue /\ i # hand
  /\ i \in queue => i # hand
  /\ released[i] = IF i > Len(arrived) \/ Held(i) \/ i \in queue \/ i = hand
                   THEN 0 ELSE 1

OwnInv == \A i \in 1..MaxPackets : Owner(i)

(* No step leaks a packet or releases it twice.                             *)
LEMMA OwnerStep ==
  ASSUME TypeOK, OwnInv, [Next]_vars
  PROVE  OwnInv'
<1>0. /\ Len(arrived) \in Nat /\ Len(arrived) <= MaxPackets
      /\ queue \subseteq 1..Len(arrived)
      /\ hand \in 0..Len(arrived)
      /\ released \in [1..MaxPackets -> Nat]
      /\ producer # "idle" => Len(arrived) \in 1..MaxPackets
  BY LenProperties, EmptySeq DEF TypeOK
<1> SUFFICES ASSUME NEW i \in 1..MaxPackets PROVE Owner(i)'
  BY DEF OwnInv
<1> DEFINE Still == UNCHANGED <<arrived, queue, hand, released>>
<1>i. Owner(i)
  BY DEF OwnInv
<1>q. ASSUME Still, producer' = producer \/ (~Holding /\ ~Holding') PROVE Owner(i)'
  BY <1>i, <1>q DEF Owner, Held, Holding
<1>1. ASSUME NEW k \in Kinds, Data_Begin(k) PROVE Owner(i)'
  <2>1. /\ Len(arrived') = Len(arrived) + 1
        /\ UNCHANGED <<queue, hand, released>>
        /\ producer = "idle" /\ producer' = "checked"
    BY <1>1, BeginType DEF Data_Begin, queueVars, senderVars
  <2> QED BY <1>0, <1>i, <2>1 DEF Owner, Held, Holding
<1>2. CASE Data_AddAudio
  <2>1. /\ UNCHANGED <<arrived, hand, released>>
        /\ producer = "checked" /\ producer' = "post"
        /\ queue' = queue \cup {Len(arrived)}
    BY <1>2 DEF Data_AddAudio, senderVars
  <2> QED BY <1>0, <1>i, <2>1 DEF Owner, Held, Holding
<1>3. CASE Data_AddVideo
  <2> DEFINE n == Len(arrived)
             q == AfterChecks.queue
  <2>1. /\ UNCHANGED <<arrived, hand>>
        /\ producer = "checked"
        /\ released' = Release(queue \ q)
        /\ \/ queue' = q \cup {n} /\ producer' = "post"
           \/ queue' = q /\ producer' = "release"
    BY <1>3 DEF Data_AddVideo, senderVars
  <2>2. q \subseteq queue
    BY AfterChecksType
  <2>3. released'[i] = IF i \in queue \ q THEN released[i] + 1 ELSE released[i]
    BY <2>1, <1>0 DEF Release
  <2> HIDE DEF q
  <2> QED BY <1>0, <1>i, <2>1, <2>2, <2>3 DEF Owner, Held, Holding
<1>4. CASE Data_Post
  BY <1>4, <1>q DEF Data_Post, Holding, queueVars, senderVars
<1>5. CASE Data_Release
  <2>1. /\ UNCHANGED <<arrived, queue, hand>>
        /\ producer = "release" /\ producer' = "idle"
        /\ released'[i] = IF i = Len(arrived) THEN released[i] + 1 ELSE released[i]
    BY <1>0, <1>5 DEF Data_Release, Release, queueVars, senderVars
  <2> QED BY <1>0, <1>i, <2>1 DEF Owner, Held, Holding
<1>6. CASE Send_Wait \/ Send_CheckStop \/ Send_CheckShutdown \/ Send_EndCapture
           \/ Send_ResetEvent \/ Send_Inactive
  BY <1>6, <1>q DEF Send_Wait, Send_CheckStop, Send_CheckShutdown,
        Send_EndCapture, Send_ResetEvent, Send_Inactive, queueVars
<1>7. CASE Send_GetNextPacket
  <2>1. CASE queue = {}
    BY <1>7, <2>1, <1>q DEF Send_GetNextPacket
  <2>2. CASE queue # {}
    <3>1. /\ hand' \in queue /\ queue' = queue \ {hand'} /\ hand = 0
          /\ UNCHANGED <<arrived, producer, released>>
      BY <1>7, <2>2 DEF Send_GetNextPacket, TypeOK
    <3>2. Held(i)' <=> Held(i)
      BY <3>1 DEF Held, Holding
    <3> QED BY <1>0, <1>i, <3>1, <3>2 DEF Owner
  <2> QED BY <2>1, <2>2
<1>8. CASE Send_Shutdown \/ Send_Packet
  <2>1. /\ UNCHANGED <<arrived, producer, queue>>
        /\ hand' = 0 /\ hand # 0
        /\ released'[i] = IF i = hand THEN released[i] + 1 ELSE released[i]
    BY <1>0, <1>8 DEF Send_Shutdown, Send_Packet, Release, queueVars, TypeOK
  <2> QED BY <1>0, <1>i, <2>1 DEF Owner, Held, Holding
<1>9. CASE Send_FreePackets
  <2>1. /\ UNCHANGED <<arrived, producer, hand>>
        /\ queue' = {}
        /\ released'[i] = IF i \in queue THEN released[i] + 1 ELSE released[i]
    BY <1>0, <1>9 DEF Send_FreePackets, Release
  <2> QED BY <1>0, <1>i, <2>1 DEF Owner, Held, Holding
<1>10. ASSUME NEW forced \in BOOLEAN, Stop_Begin(forced) PROVE Owner(i)'
  BY <1>10, <1>q DEF Stop_Begin, queueVars, senderVars
<1>11. CASE Stop_Signal \/ Stop_Post \/ Clock
  BY <1>11, <1>q DEF Stop_Signal, Stop_Post, Clock, queueVars, senderVars
<1>12. CASE UNCHANGED vars
  BY <1>12, <1>q DEF vars, queueVars, senderVars
<1> QED BY <1>1, <1>2, <1>3, <1>4, <1>5, <1>6, <1>7, <1>8, <1>9, <1>10, <1>11,
           <1>12 DEF Next, Callback, SendThread, StopCall

(* Every packet the callback takes a reference to is in exactly one place   *)
(* or has been released exactly once.                                       *)
THEOREM OwnerCorrect == Spec => []OneOwner
<1>1. Init => OwnInv
  BY EmptySeq DEF Init, OwnInv, Owner, Held, Holding
<1>2. TypeOK /\ OwnInv /\ [Next]_vars => OwnInv'
  BY OwnerStep
<1>3. TypeOK /\ OwnInv => OneOwner
  <2> SUFFICES ASSUME TypeOK, OwnInv, NEW i \in DOMAIN arrived
               PROVE  OwnedBy(i) + released[i] = 1
    BY DEF OneOwner
  <2>1. i \in 1..Len(arrived) /\ Len(arrived) \in Nat /\ Len(arrived) <= MaxPackets
    BY LenProperties DEF TypeOK
  <2>2. Owner(i) /\ ~(i > Len(arrived))
    BY <2>1 DEF OwnInv
  <2> QED BY <2>2 DEF Owner, OwnedBy, Held, Holding
<1> QED BY <1>1, <1>2, <1>3, TypeCorrect, PTL DEF Spec

-----------------------------------------------------------------------------
(* The duration of the buffer.  A video packet sets last_dts_usec as it is  *)
(* queued, and no packet is newer than the one the callback holds.          *)

(* The step that queues a packet keeps last_dts_usec ahead of the queue.    *)
LEMMA AddFresh ==
  ASSUME TypeOK, FreshDuration, Data_AddAudio \/ Data_AddVideo
  PROVE  FreshDuration'
<1> DEFINE n == Len(arrived)
<1>1. /\ n \in Nat /\ n \in DOMAIN arrived
      /\ queue \subseteq 1..n
      /\ DOMAIN arrived = 1..n
      /\ UNCHANGED arrived
  BY LenProperties, EmptySeq DEF TypeOK, Data_AddAudio, Data_AddVideo
<1>2. CASE Data_AddAudio
  <2>1. queue' = queue \cup {n} /\ ~Video(n) /\ UNCHANGED <<arrived, lastDts>>
    BY <1>2 DEF Data_AddAudio
  <2> HIDE DEF n
  <2> QED BY <2>1 DEF FreshDuration, Video
<1>3. CASE Data_AddVideo
  <2> DEFINE q == AfterChecks.queue
  <2>1. \/ queue' = q \cup {n} /\ lastDts' = n
        \/ queue' = q /\ lastDts' = lastDts
    BY <1>3 DEF Data_AddVideo, LastDts
  <2>2. q \subseteq queue
    BY AfterChecksType
  <2> HIDE DEF q, n
  <2>3. CASE queue' = q \cup {n} /\ lastDts' = n
    BY <1>1, <2>2, <2>3 DEF FreshDuration, Video
  <2>4. CASE queue' = q /\ lastDts' = lastDts
    BY <1>1, <2>2, <2>4 DEF FreshDuration, Video
  <2> QED BY <2>1, <2>3, <2>4
<1> QED BY <1>2, <1>3

(* No step leaves a stale last_dts_usec beside a queued video packet.       *)
LEMMA FreshStep ==
  ASSUME TypeOK, FreshDuration, [Next]_vars
  PROVE  FreshDuration'
<1>q. ASSUME UNCHANGED <<arrived, lastDts>>, queue' \subseteq queue
      PROVE  FreshDuration'
  BY <1>q DEF FreshDuration, Video
<1>1. ASSUME NEW k \in Kinds, Data_Begin(k) PROVE FreshDuration'
  <2>1. /\ DOMAIN arrived \subseteq DOMAIN arrived'
        /\ \A i \in DOMAIN arrived : arrived'[i] = arrived[i]
        /\ UNCHANGED <<queue, lastDts>>
    BY <1>1, BeginType DEF Data_Begin, queueVars
  <2>2. queue \subseteq DOMAIN arrived
    BY DEF TypeOK
  <2> QED BY <2>1, <2>2 DEF FreshDuration, Video
<1>2. CASE Data_AddAudio \/ Data_AddVideo
  BY <1>2, AddFresh
<1>3. CASE Data_Post \/ Data_Release
  BY <1>3, <1>q DEF Data_Post, Data_Release, queueVars
<1>4. CASE SendThread
  BY <1>4, <1>q DEF SendThread, Send_Wait, Send_CheckStop, Send_GetNextPacket,
     Send_Shutdown, Send_CheckShutdown, Send_Packet, Send_EndCapture,
     Send_FreePackets, Send_ResetEvent, Send_Inactive, queueVars
<1>5. ASSUME NEW forced \in BOOLEAN, Stop_Begin(forced) PROVE FreshDuration'
  BY <1>5, <1>q DEF Stop_Begin, queueVars
<1>6. CASE StopCall \/ Clock
  BY <1>6, <1>q DEF StopCall, Stop_Signal, Stop_Post, Clock, queueVars
<1>7. CASE UNCHANGED vars
  BY <1>7, <1>q DEF vars, queueVars
<1> QED BY <1>1, <1>2, <1>3, <1>4, <1>5, <1>6, <1>7 DEF Next, Callback

(* The duration of the buffer is never computed from the last_dts_usec that *)
(* an earlier session left behind, and never negative.                      *)
THEOREM DurationCorrect == Spec => []FreshDuration
<1>1. Init => FreshDuration
  BY DEF Init, FreshDuration
<1>2. TypeOK /\ FreshDuration /\ [Next]_vars => FreshDuration'
  BY FreshStep
<1> QED BY <1>1, <1>2, TypeCorrect, PTL DEF Spec

-----------------------------------------------------------------------------
(* The promise to the receiver.  While the send thread is in its loop every *)
(* packet that came is queued, was sent or is about to be, was dropped, or  *)
(* is still with the callback: so what is missing before the next packet    *)
(* was dropped, and what was not dropped has been sent.                     *)
Accounted(i) == i \in queue \/ i \in sent \/ i = hand \/ i \in dropped \/ Held(i)

StreamInv ==
  InLoop => /\ \A i \in DOMAIN arrived : Accounted(i)
            /\ hand # 0 => \A j \in sent : j < hand

(* A step of the callback that adds a packet or refuses it loses none.      *)
LEMMA AddStream ==
  ASSUME TypeOK, StreamInv, InLoop, Data_AddAudio \/ Data_AddVideo
  PROVE  \A i \in DOMAIN arrived' : Accounted(i)'
<1> DEFINE n == Len(arrived)
<1>1. UNCHANGED <<arrived, sent, hand>> /\ producer = "checked"
  BY DEF Data_AddAudio, Data_AddVideo, senderVars
<1> SUFFICES ASSUME NEW i \in DOMAIN arrived PROVE Accounted(i)'
  BY <1>1
<1>2. Accounted(i)
  BY DEF StreamInv
<1>3. CASE Data_AddAudio
  <2>1. queue' = queue \cup {n} /\ dropped' = dropped
    BY <1>3 DEF Data_AddAudio
  <2> QED BY <1>1, <1>2, <2>1 DEF Accounted, Held
<1>4. CASE Data_AddVideo
  <2> DEFINE q == AfterChecks.queue
  <2>1. /\ dropped' = dropped \cup (queue \ q)
        /\ \/ queue' = q \cup {n}
           \/ queue' = q /\ producer' = "release"
    BY <1>4 DEF Data_AddVideo
  <2> HIDE DEF q
  <2>2. i \in queue => i \in queue' \/ i \in dropped'
    BY <2>1
  <2>3. Held(i) => i \in queue' \/ Held(i)'
    BY <1>1, <2>1 DEF Held, Holding
  <2> QED BY <1>1, <1>2, <2>1, <2>2, <2>3 DEF Accounted
<1> QED BY <1>3, <1>4

(* No packet gets lost unnoticed in the loop, and they leave in their order. *)
LEMMA StreamStep ==
  ASSUME TypeOK, GopInv, StreamInv, [Next]_vars
  PROVE  StreamInv'
<1> DEFINE Quiet == /\ UNCHANGED <<arrived, queue, sent, hand, dropped>>
                    /\ Holding => Holding'
                    /\ InLoop' => InLoop
<1>q. ASSUME Quiet PROVE StreamInv'
  BY <1>q DEF StreamInv, Accounted, Held
<1>1. ASSUME NEW k \in Kinds, Data_Begin(k) PROVE StreamInv'
  <2>1. /\ DOMAIN arrived' = DOMAIN arrived \cup {Len(arrived')}
        /\ UNCHANGED <<queue, sent, hand, dropped, sender>>
        /\ producer = "idle" /\ producer' = "checked"
    BY <1>1, BeginType DEF Data_Begin, queueVars, senderVars
  <2>h. ~Holding /\ Holding'
    BY <2>1 DEF Holding
  <2>u. queue' = queue /\ sent' = sent /\ hand' = hand /\ dropped' = dropped /\ sender' = sender
    BY <2>1
  <2>2. ASSUME NEW i, Accounted(i) PROVE Accounted(i)'
    BY <2>2, <2>u, <2>h DEF Accounted, Held
  <2>3. Accounted(Len(arrived))'
    BY <2>h DEF Accounted, Held
  <2>4. InLoop' = InLoop
    BY <2>u DEF InLoop
  <2>5. \A i \in DOMAIN arrived' : i \in DOMAIN arrived \/ i = Len(arrived')
    BY <1>1, BeginType, Zenon
  <2> QED BY <2>u, <2>2, <2>3, <2>4, <2>5 DEF StreamInv
<1>2. CASE Data_AddAudio \/ Data_AddVideo
  <2>1. UNCHANGED <<sent, hand, sender>>
    BY <1>2 DEF Data_AddAudio, Data_AddVideo, senderVars
  <2>2. InLoop' => InLoop
    BY <2>1 DEF InLoop
  <2> QED BY <1>2, <2>1, <2>2, AddStream DEF StreamInv
<1>3. CASE Data_Post
  BY <1>3, <1>q DEF Data_Post, Holding, InLoop, queueVars, senderVars
<1>4. CASE Data_Release
  <2>1. /\ UNCHANGED <<arrived, queue, sent, hand, sender>>
        /\ dropped' = dropped \cup {Len(arrived)}
    BY <1>4 DEF Data_Release, queueVars, senderVars
  <2> QED BY <2>1 DEF StreamInv, Accounted, Held, InLoop
<1>5. CASE Send_Wait \/ Send_CheckStop \/ Send_CheckShutdown
  BY <1>5, <1>q DEF Send_Wait, Send_CheckStop, Send_CheckShutdown, Holding, InLoop, queueVars
<1>6. CASE Send_GetNextPacket
  <2>1. CASE queue = {}
    BY <1>6, <2>1, <1>q DEF Send_GetNextPacket, Holding, InLoop
  <2>2. CASE queue # {}
    <3>1. /\ hand' \in queue /\ queue' = queue \ {hand'} /\ hand = 0
          /\ UNCHANGED <<arrived, producer, sent, dropped>>
          /\ InLoop
      BY <1>6, <2>2 DEF Send_GetNextPacket, TypeOK, InLoop
    <3>2. \A i \in DOMAIN arrived : Accounted(i)'
      <4> SUFFICES ASSUME NEW i \in DOMAIN arrived PROVE Accounted(i)'
        OBVIOUS
      <4>1. Accounted(i) /\ i # 0
        BY <3>1, LenProperties DEF StreamInv, TypeOK
      <4>2. Held(i) => Held(i)'
        BY <3>1 DEF Held, Holding
      <4> QED BY <3>1, <4>1, <4>2 DEF Accounted
    <3>3. \A j \in sent' : j < hand'
      BY <3>1 DEF GopInv, Order
    <3> QED BY <3>1, <3>2, <3>3 DEF StreamInv
  <2> QED BY <2>1, <2>2
<1>7. CASE Send_Packet
  <2>1. /\ UNCHANGED <<arrived, producer, queue, dropped>>
        /\ sent' = sent \cup {hand} /\ hand' = 0
        /\ InLoop
    BY <1>7 DEF Send_Packet, InLoop, queueVars
  <2>2. \A i \in DOMAIN arrived : Accounted(i) => Accounted(i)'
    BY <2>1 DEF Accounted, Held, Holding
  <2> QED BY <2>1, <2>2 DEF StreamInv
<1>8. CASE Send_Shutdown \/ Send_EndCapture \/ Send_FreePackets \/ Send_ResetEvent
           \/ Send_Inactive
  <2>1. ~InLoop'
    BY <1>8 DEF Send_Shutdown, Send_EndCapture, Send_FreePackets, Send_ResetEvent,
       Send_Inactive, InLoop
  <2> QED BY <2>1 DEF StreamInv
<1>9. ASSUME NEW forced \in BOOLEAN, Stop_Begin(forced) PROVE StreamInv'
  BY <1>9, <1>q DEF Stop_Begin, Holding, InLoop, queueVars, senderVars
<1>10. CASE Stop_Signal \/ Stop_Post \/ Clock
  BY <1>10, <1>q DEF Stop_Signal, Stop_Post, Clock, Holding, InLoop, queueVars, senderVars
<1>11. CASE UNCHANGED vars
  BY <1>11, <1>q DEF vars, Holding, InLoop, queueVars, senderVars
<1> QED BY <1>1, <1>2, <1>3, <1>4, <1>5, <1>6, <1>7, <1>8, <1>9, <1>10, <1>11
        DEF Next, Callback, SendThread, StopCall

(* The packet that is sent next can be played by who was sent the others.   *)
LEMMA HandPlayable ==
  ASSUME TypeOK, GopInv, StreamInv, InLoop, hand # 0
  PROVE  Stream!Playable(hand)
<1>1. /\ DOMAIN arrived = 1..Len(arrived) /\ Len(arrived) \in Nat
      /\ hand \in DOMAIN arrived /\ hand \in Delivered
      /\ Delivered \subseteq DOMAIN arrived /\ dropped \subseteq DOMAIN arrived
  BY LenProperties DEF TypeOK, Delivered
<1>2. \A j \in 1..(hand - 1) : j \in sent \/ j \in dropped
  <2> SUFFICES ASSUME NEW j \in 1..(hand - 1) PROVE j \in sent \/ j \in dropped
    OBVIOUS
  <2>1. j \in DOMAIN arrived /\ j < hand
    BY <1>1
  <2>2. Accounted(j)
    BY <2>1 DEF StreamInv
  <2>3. j \notin queue
    <3>1. \A k \in queue : hand < k
      BY DEF GopInv, Order
    <3>2. j \in Int /\ hand \in Int
      BY <1>1
    <3> QED BY <2>1, <3>1, <3>2
  <2>4. ~Held(j)
    BY <1>1, <2>1 DEF GopInv, Newest, Held
  <2> QED BY <2>1, <2>2, <2>3, <2>4 DEF Accounted
<1> SUFFICES ASSUME NEW j \in 1..(hand - 1), j \notin sent
             PROVE  /\ Video(j) /\ ~arrived[j].key
                    /\ Video(hand) =>
                         \/ Prio(hand) > Prio(j)
                         \/ \E k \in sent : j < k /\ Video(k) /\ Prio(k) > Prio(j)
  BY DEF Stream!Playable, Stream!Missing, Stream!Bridged, Video, Prio
<1>3. j \in dropped /\ j < hand
  BY <1>1, <1>2
<1>4. /\ \A i \in DOMAIN arrived : arrived[i] \in Kinds
      /\ Prio(hand) \in Int /\ Prio(j) \in Int
  <2>1. \A i \in DOMAIN arrived : arrived[i] \in Kinds
    BY DEF TypeOK
  <2>2. \A k \in Kinds : k.prio \in Int
    BY DEF Kind
  <2> QED BY <1>1, <1>3, <2>1, <2>2 DEF Prio
<1>5. Video(j) /\ ~arrived[j].key
  BY <1>1, <1>3, <1>4 DEF GopInv, LostAreLow, Video, Prio, Kind
<1>6. ASSUME Video(hand), ~(Prio(hand) > Prio(j))
      PROVE  \E k \in sent : j < k /\ Video(k) /\ Prio(k) > Prio(j)
  <2>1. Prio(hand) <= Prio(j)
    BY <1>4, <1>6
  <2>2. PICK k \in (j + 1)..(hand - 1) : Video(k) /\ Prio(k) > Prio(j) /\ k \notin dropped
    BY <1>1, <1>3, <1>6, <2>1 DEF GopInv, GopIntegrity
  <2>3. k \in sent /\ j < k
    BY <1>1, <1>2, <2>2
  <2> QED BY <2>2, <2>3
<1> QED BY <1>5, <1>6

(* Every step of the queue is one of the stream it promises, or none: only  *)
(* send_packet passes a packet on, and nothing does after the loop.         *)
LEMMA StreamMaps ==
  ASSUME TypeOK, GopInv, StreamInv, [Next]_vars
  PROVE  [Stream!Give \/ Stream!Send \/ Stream!Close]_(Stream!vars)
<1> USE DEF Stream!vars
<1>1. ASSUME NEW k \in Kinds, Data_Begin(k) PROVE Stream!Give
  <2>1. arrived' = Append(arrived, k) /\ UNCHANGED <<sent, sender>>
    BY <1>1 DEF Data_Begin, senderVars
  <2> QED BY <2>1 DEF Stream!Give, InLoop
<1>2. CASE Callback \/ StopCall \/ Clock \/ UNCHANGED vars
  <2>1. UNCHANGED <<arrived, sent, sender>>
    BY <1>2 DEF Callback, StopCall, Data_AddAudio, Data_AddVideo, Data_Post, Data_Release,
       Stop_Signal, Stop_Post, Clock, vars, senderVars
  <2> QED BY <2>1 DEF InLoop
<1>3. ASSUME NEW forced \in BOOLEAN, Stop_Begin(forced) PROVE UNCHANGED Stream!vars
  BY <1>3 DEF Stop_Begin, InLoop, senderVars
<1>4. CASE Send_Packet
  <2>1. /\ UNCHANGED arrived /\ InLoop /\ InLoop'
        /\ sent' = sent \cup {hand} /\ hand # 0 /\ hand \in DOMAIN arrived
    BY <1>4 DEF Send_Packet, InLoop, TypeOK
  <2>2. \A j \in sent : j < hand
    BY <2>1 DEF StreamInv
  <2>3. Stream!Playable(hand)
    BY <2>1, HandPlayable
  <2> QED BY <2>1, <2>2, <2>3 DEF Stream!Send
<1>5. CASE SendThread /\ ~Send_Packet
  <2>1. UNCHANGED <<arrived, sent>>
    BY <1>5 DEF SendThread, Send_Wait, Send_CheckStop, Send_GetNextPacket, Send_Shutdown,
       Send_CheckShutdown, Send_EndCapture, Send_FreePackets, Send_ResetEvent, Send_Inactive
  <2>2. InLoop' => InLoop
    BY <1>5 DEF SendThread, Send_Wait, Send_CheckStop, Send_GetNextPacket, Send_Shutdown,
       Send_CheckShutdown, Send_EndCapture, Send_FreePackets, Send_ResetEvent, Send_Inactive,
       InLoop
  <2>3. InLoop' = InLoop \/ InLoop' = FALSE
    BY <2>2 DEF InLoop
  <2> QED BY <2>1, <2>3 DEF Stream!Close
<1> QED BY <1>1, <1>2, <1>3, <1>4, <1>5 DEF Next

(* The queue implements the stream that the receiver is promised: it is     *)
(* sent the packets in their order, each once, misses neither audio nor a   *)
(* keyframe, and never gets a frame without those it may refer to           *)
(* (drop_frames, add_video_packet, send_thread).                            *)
THEOREM StreamCorrect == Spec => SendsPlayable
<1>1. Init => Stream!Init /\ StreamInv
  BY DEF Init, Stream!Init, StreamInv, InLoop
<1>2. TypeOK /\ GopInv /\ StreamInv /\ [Next]_vars => StreamInv'
  BY StreamStep
<1>3. TypeOK /\ GopInv /\ StreamInv /\ [Next]_vars
        => [Stream!Give \/ Stream!Send \/ Stream!Close]_(Stream!vars)
  BY StreamMaps
<1> QED BY <1>1, <1>2, <1>3, TypeCorrect, GopInvariant, PTL DEF Spec, SendsPlayable, Stream!Spec

HIDE FlvQueueAssumption DEF HIGH, HIGHEST, DISPOSABLE, Priority

-----------------------------------------------------------------------------
(* Times.                                                                    *)

(* A quotient is what fits and no more.                                      *)
LEMMA Quotient ==
  ASSUME NEW x \in Nat, NEW q \in Nat \ {0}
  PROVE  x \div q \in Nat /\ (x \div q) * q <= x /\ x < (x \div q) * q + q
<1>1. x \div q \in Int /\ x % q \in 0..(q - 1) /\ x = q * (x \div q) + (x % q)
  OBVIOUS
<1>2. x \div q >= 0
  OBVIOUS
<1> QED BY <1>1, <1>2

(* Multiples are in the order of their factors.                              *)
LEMMA Factors ==
  ASSUME NEW a \in Int, NEW b \in Int, NEW q \in Nat \ {0}, a * q < b * q
  PROVE  a < b
<1>1. a >= b => a * q >= b * q
  OBVIOUS
<1> QED BY <1>1

(* A time in milliseconds is the greatest below, or the least above if it is *)
(* less than zero.                                                           *)
LEMMA TimeFacts ==
  ASSUME NEW den \in Nat \ {0}, NEW val \in Int
  PROVE  LET ms == get_ms_time(den, val)
         IN  /\ ms \in Int
             /\ val >= 0 => ms >= 0 /\ ms * den <= val * 1000 /\ val * 1000 < (ms + 1) * den
             /\ val < 0 => ms <= 0 /\ (ms - 1) * den < val * 1000 /\ val * 1000 <= ms * den
<1> DEFINE ms == get_ms_time(den, val)
<1>1. CASE val >= 0
  <2> DEFINE x == val * 1000
  <2>1. x \in Nat
    BY <1>1
  <2>2. ms = x \div den
    BY <1>1 DEF get_ms_time, MILLISECOND_DEN
  <2> HIDE DEF x, ms
  <2>3. ms \in Nat /\ ms * den <= x /\ x < ms * den + den
    BY <2>1, <2>2, Quotient
  <2>4. (ms + 1) * den = ms * den + den
    BY <2>3
  <2> QED BY <1>1, <2>3, <2>4 DEF x, ms
<1>2. CASE val < 0
  <2> DEFINE x == -val * 1000
             m == x \div den
  <2>1. x \in Nat /\ val * 1000 = -x
    BY <1>2
  <2>2. ms = -m
    BY <1>2 DEF get_ms_time, MILLISECOND_DEN
  <2>3. m \in Nat /\ m * den <= x /\ x < m * den + den
    BY <2>1, Quotient
  <2> HIDE DEF x, m, ms
  <2>4. ms * den = -(m * den) /\ (ms - 1) * den = -(m * den) - den /\ m * den \in Int
    BY <2>2, <2>3
  <2>5. ms \in Int /\ ms <= 0
    BY <2>2, <2>3
  <2> QED BY <1>2, <2>1, <2>3, <2>4, <2>5 DEF ms
<1> QED BY <1>1, <1>2

(* Times are integers, and not below zero for what is not.                   *)
LEMMA TimeType ==
  ASSUME NEW den \in Nat \ {0}, NEW val \in Int
  PROVE  get_ms_time(den, val) \in Int /\ (val >= 0 => get_ms_time(den, val) >= 0)
BY TimeFacts

(* Times are in the order of what they stand for.                            *)
LEMMA TimeOrder ==
  ASSUME NEW den \in Nat \ {0}, NEW a \in Int, NEW b \in Int, a <= b
  PROVE  get_ms_time(den, a) <= get_ms_time(den, b)
<1> DEFINE x == get_ms_time(den, a)
           y == get_ms_time(den, b)
<1>1. /\ x \in Int /\ y \in Int
      /\ a >= 0 => x >= 0 /\ x * den <= a * 1000 /\ a * 1000 < (x + 1) * den
      /\ a < 0 => x <= 0 /\ (x - 1) * den < a * 1000 /\ a * 1000 <= x * den
      /\ b >= 0 => y >= 0 /\ y * den <= b * 1000 /\ b * 1000 < (y + 1) * den
      /\ b < 0 => y <= 0 /\ (y - 1) * den < b * 1000 /\ b * 1000 <= y * den
  BY TimeFacts
<1> HIDE DEF x, y
<1>2. CASE a >= 0
  <2>1. x * den < (y + 1) * den
    BY <1>1, <1>2
  <2>2. x < y + 1
    BY <1>1, <2>1, Factors
  <2> QED BY <1>1, <2>2 DEF x, y
<1>3. CASE a < 0 /\ b >= 0
  BY <1>1, <1>3 DEF x, y
<1>4. CASE b < 0
  <2>1. (x - 1) * den < y * den
    BY <1>1, <1>4
  <2>2. x - 1 < y
    BY <1>1, <2>1, Factors
  <2> QED BY <1>1, <2>2 DEF x, y
<1> QED BY <1>2, <1>3, <1>4

(* A time and the one from it to another add up within a millisecond.        *)
LEMMA TimesAddUp ==
  ASSUME NEW den \in Nat \ {0}, NEW val \in Int, NEW cts \in Nat
  PROVE  get_ms_time(den, val) + get_ms_time(den, cts) - get_ms_time(den, val + cts) \in {-1, 0, 1}
<1> DEFINE x == get_ms_time(den, val)
           y == get_ms_time(den, cts)
           z == get_ms_time(den, val + cts)
<1>1. /\ x \in Int /\ y \in Int /\ z \in Int
      /\ val >= 0 => x * den <= val * 1000 /\ val * 1000 < (x + 1) * den
      /\ val < 0 => (x - 1) * den < val * 1000 /\ val * 1000 <= x * den
      /\ y * den <= cts * 1000 /\ cts * 1000 < (y + 1) * den
      /\ val + cts >= 0 => z * den <= (val + cts) * 1000 /\ (val + cts) * 1000 < (z + 1) * den
      /\ val + cts < 0 => (z - 1) * den < (val + cts) * 1000 /\ (val + cts) * 1000 <= z * den
  <2>1. cts >= 0 /\ cts \in Int /\ val + cts \in Int
    OBVIOUS
  <2>2. /\ x \in Int
        /\ val >= 0 => x * den <= val * 1000 /\ val * 1000 < (x + 1) * den
        /\ val < 0 => (x - 1) * den < val * 1000 /\ val * 1000 <= x * den
    BY TimeFacts
  <2>3. y \in Int /\ y * den <= cts * 1000 /\ cts * 1000 < (y + 1) * den
    BY <2>1, TimeFacts
  <2>4. /\ z \in Int
        /\ val + cts >= 0 => z * den <= (val + cts) * 1000 /\ (val + cts) * 1000 < (z + 1) * den
        /\ val + cts < 0 => (z - 1) * den < (val + cts) * 1000 /\ (val + cts) * 1000 <= z * den
    <3> DEFINE v == val + cts
    <3>1. v \in Int
      BY <2>1
    <3> HIDE DEF v
    <3>2. LET ms == get_ms_time(den, v)
          IN  /\ ms \in Int
              /\ v >= 0 => ms >= 0 /\ ms * den <= v * 1000 /\ v * 1000 < (ms + 1) * den
              /\ v < 0 => ms <= 0 /\ (ms - 1) * den < v * 1000 /\ v * 1000 <= ms * den
      BY <3>1, TimeFacts
    <3> QED BY <3>2 DEF v
  <2> QED BY <2>2, <2>3, <2>4
<1> HIDE DEF x, y, z
<1> DEFINE p == x * den
           q == y * den
           r == z * den
<1>2. /\ (x + 1) * den = p + den /\ (x - 1) * den = p - den
      /\ (y + 1) * den = q + den
      /\ (z + 1) * den = r + den /\ (z - 1) * den = r - den
      /\ p \in Int /\ q \in Int /\ r \in Int
  BY <1>1
<1>3. (val + cts) * 1000 = val * 1000 + cts * 1000
  OBVIOUS
<1>4. /\ (x + y - z) * den = p + q - r
      /\ 2 * den = den + den /\ (-2) * den = -(den + den)
  BY <1>1
<1> HIDE DEF p, q, r
<1>5. p + q - r < den + den /\ -(den + den) < p + q - r
  BY <1>1, <1>2, <1>3
<1>6. x + y - z < 2 /\ -2 < x + y - z
  <2>1. x + y - z \in Int
    BY <1>1
  <2>2. (x + y - z) * den < 2 * den /\ (-2) * den < (x + y - z) * den
    BY <1>4, <1>5
  <2> QED BY <2>1, <2>2, Factors
<1>7. x + y - z \in {-1, 0, 1}
  BY <1>1, <1>6
<1> QED BY <1>7 DEF x, y, z

-----------------------------------------------------------------------------
(* Tags.                                                                     *)

(* The numbers that 24 bits can hold.                                        *)
Wide == Byte * Byte * Byte

(* Numbers are written as bytes, and the low ones are read again.            *)
LEMMA NumberFacts ==
  ASSUME NEW n \in Int
  PROVE  /\ Int24(n) \in Seq(Int) /\ Len(Int24(n)) = 3
         /\ AMF_DecodeInt24(Int24(n)) = n % Wide
         /\ Int32(n) \in Seq(Int) /\ Len(Int32(n)) = 4
         /\ 0 <= n /\ n < Wide * Byte => AMF_DecodeInt32(Int32(n)) = n
<1> DEFINE p == (n \div 16777216) % 256
           q == (n \div 65536) % 256
           r == (n \div 256) % 256
           s == n % 256
<1>1. p \in Int /\ q \in Int /\ r \in Int /\ s \in Int
  OBVIOUS
<1>2. Int24(n) = <<q, r, s>> /\ Int32(n) = <<p, q, r, s>>
  <2>1. 256 * 256 = 65536 /\ 256 * 256 * 256 = 16777216
    OBVIOUS
  <2> QED BY <2>1 DEF Int24, Int32, Byte
<1>3. (q * 256 + r) * 256 + s = n % 16777216
  OBVIOUS
<1>4. 0 <= n /\ n < 4294967296 => ((p * 256 + q) * 256 + r) * 256 + s = n
  OBVIOUS
<1> HIDE DEF p, q, r, s
<1>5. Int24(n) \in Seq(Int) /\ Len(Int24(n)) = 3 /\ Int32(n) \in Seq(Int) /\ Len(Int32(n)) = 4
  BY <1>1, <1>2
<1>6. Wide = 16777216 /\ Wide * Byte = 4294967296
  BY DEF Wide, Byte
<1>7. AMF_DecodeInt24(Int24(n)) = (q * 256 + r) * 256 + s
  BY <1>1, <1>2 DEF AMF_DecodeInt24, AMF_DecodeInt16, Byte
<1>8. AMF_DecodeInt32(Int32(n)) = ((p * 256 + q) * 256 + r) * 256 + s
  BY <1>1, <1>2 DEF AMF_DecodeInt32, AMF_DecodeInt24, AMF_DecodeInt16, Byte
<1> QED BY <1>3, <1>4, <1>5, <1>6, <1>7, <1>8

(* v is s, of n numbers, and then u, of m.                                   *)
Joins(v, s, n, u, m) ==
  /\ v \in Seq(Int) /\ Len(v) = n + m
  /\ \A i \in 1..n : v[i] = s[i]
  /\ \A i \in 1..m : v[n + i] = u[i]

(* s is n numbers.                                                           *)
Numbers(s, n) == s \in Seq(Int) /\ n \in Nat /\ Len(s) = n

(* One sequence after another.                                               *)
LEMMA Joined ==
  ASSUME NEW s, NEW n, NEW u, NEW m, Numbers(s, n), Numbers(u, m)
  PROVE  Joins(s \o u, s, n, u, m)
<1> DEFINE v == s \o u
<1>0. s \in Seq(Int) /\ u \in Seq(Int) /\ n \in Nat /\ m \in Nat /\ Len(s) = n /\ Len(u) = m
  BY DEF Numbers
<1>1. /\ s \o u \in Seq(Int) /\ Len(s \o u) = Len(s) + Len(u)
      /\ \A i \in 1..Len(s) + Len(u) : (s \o u)[i] = IF i <= Len(s) THEN s[i] ELSE u[i - Len(s)]
  BY <1>0, ConcatProperties
<1>2. /\ v \in Seq(Int) /\ Len(v) = n + m
      /\ \A i \in 1..n + m : v[i] = IF i <= n THEN s[i] ELSE u[i - n]
  BY <1>0, <1>1
<1> HIDE DEF v
<1>3. ASSUME NEW i \in 1..n PROVE v[i] = s[i]
  BY <1>0, <1>2
<1>4. ASSUME NEW i \in 1..m PROVE v[n + i] = u[i]
  <2>1. n + i \in 1..n + m /\ ~(n + i <= n) /\ (n + i) - n = i
    BY <1>0
  <2> QED BY <1>2, <2>1
<1>5. Joins(v, s, n, u, m)
  BY <1>2, <1>3, <1>4 DEF Joins
<1> QED BY <1>5 DEF v

(* The seven bits after the low 24 make 31.                                  *)
LEMMA TimeBytesFacts ==
  ASSUME NEW t \in Int
  PROVE  /\ TimeBytes(t) \in Seq(Int) /\ Len(TimeBytes(t)) = 4
         /\ \A i \in 1..3 : TimeBytes(t)[i] = Int24(t)[i]
         /\ TimeBytes(t)[4] * Wide + AMF_DecodeInt24(Int24(t)) = t % (Wide * 128)
<1> DEFINE b == (t \div Wide) % 128
           a == Int24(t)
<1>1. b \in Int
  BY DEF Wide, Byte
<1>2. a \in Seq(Int) /\ Len(a) = 3 /\ AMF_DecodeInt24(a) = t % Wide
  BY NumberFacts
<1>3. TimeBytes(t) = a \o <<b>>
  BY DEF TimeBytes, Wide
<1>4. b * Wide + (t % Wide) = t % (Wide * 128)
  BY DEF Wide, Byte
<1> HIDE DEF a, b
<1>5. <<b>> \in Seq(Int) /\ Len(<<b>>) = 1 /\ <<b>>[1] = b
  BY <1>1
<1> DEFINE one == <<b>>
<1> HIDE DEF one
<1>6. /\ TimeBytes(t) \in Seq(Int) /\ Len(TimeBytes(t)) = 3 + 1
      /\ \A i \in 1..3 : TimeBytes(t)[i] = a[i]
      /\ \A i \in 1..1 : TimeBytes(t)[3 + i] = one[i]
  <2>1. Numbers(one, 1) /\ Numbers(a, 3)
    BY <1>2, <1>5 DEF one, Numbers
  <2>2. Joins(a \o one, a, 3, one, 1)
    BY <2>1, Joined
  <2>3. Joins(TimeBytes(t), a, 3, one, 1)
    BY <1>3, <2>2 DEF one
  <2> QED BY <2>3 DEF Joins
<1>7. TimeBytes(t)[4] = b
  <2>1. TimeBytes(t)[3 + 1] = one[1]
    BY <1>6
  <2> QED BY <1>5, <2>1 DEF one
<1> QED BY <1>2, <1>3, <1>4, <1>6, <1>7 DEF a

(* Reading depends on the bytes alone.                                       *)
LEMMA SameRead ==
  ASSUME NEW s, NEW u, s[1] = u[1], s[2] = u[2], s[3] = u[3]
  PROVE  /\ AMF_DecodeInt24(s) = AMF_DecodeInt24(u)
         /\ s[4] = u[4] => AMF_DecodeInt32(s) = AMF_DecodeInt32(u)
BY DEF AMF_DecodeInt32, AMF_DecodeInt24, AMF_DecodeInt16

(* What comes before the body of a tag.                                      *)
HeadOf(k, n, t) == <<k>> \o Int24(n) \o TimeBytes(t) \o Int24(0)

HeadHas(h, k, n, t) ==
  /\ Numbers(h, 11) /\ h[1] = k
  /\ \A i \in 1..3 : h[1 + i] = Int24(n)[i] /\ h[8 + i] = Int24(0)[i]
  /\ \A i \in 1..4 : h[4 + i] = TimeBytes(t)[i]

(* The bytes before the body are joined so.                                  *)
LEMMA HeadFacts ==
  ASSUME NEW k \in Int, NEW n \in Int, NEW t \in Int
  PROVE  HeadHas(HeadOf(k, n, t), k, n, t)
<1> DEFINE h == HeadOf(k, n, t)
<1> DEFINE a == <<k>>
           b == Int24(n)
           c == TimeBytes(t)
           d == Int24(0)
<1>1. a \in Seq(Int) /\ Len(a) = 1 /\ a[1] = k
  OBVIOUS
<1>2. Numbers(a, 1) /\ Numbers(b, 3) /\ Numbers(c, 4) /\ Numbers(d, 3)
  <2>1. Numbers(b, 3)
    BY NumberFacts DEF Numbers
  <2>2. Numbers(c, 4)
    BY TimeBytesFacts DEF Numbers
  <2>3. d \in Seq(Int) /\ Len(d) = 3
    <3>1. 0 \in Int
      OBVIOUS
    <3> QED BY ONLY <3>1, NumberFacts
  <2> QED BY <1>1, <2>1, <2>2, <2>3 DEF Numbers
<1>3. h = ((a \o b) \o c) \o d
  BY DEF HeadOf
<1> HIDE DEF a, b, c, d, h
<1> DEFINE ab == a \o b
           abc == ab \o c
<1>5. ab = a \o b /\ abc = ab \o c /\ h = abc \o d
  BY <1>3
<1> HIDE DEF ab, abc
<1>4. Joins(ab, a, 1, b, 3)
  BY <1>2, <1>5, Joined
<1>6. Joins(abc, ab, 4, c, 4)
  <2>1. Numbers(ab, 4)
    BY <1>4 DEF Joins, Numbers
  <2> QED BY <1>2, <1>5, <2>1, Joined
<1>8. Joins(h, abc, 8, d, 3)
  <2>1. Numbers(abc, 8)
    BY <1>6 DEF Joins, Numbers
  <2> QED BY <1>2, <1>5, <2>1, Joined
<1>9. h[1] = k
  BY <1>1, <1>4, <1>6, <1>8 DEF Joins
<1>10. \A i \in 1..3 : h[1 + i] = b[i]
  <2> SUFFICES ASSUME NEW i \in 1..3 PROVE h[1 + i] = b[i]
    OBVIOUS
  <2>1. 1 + i \in 1..4 /\ 1 + i \in 1..8
    OBVIOUS
  <2> QED BY <1>4, <1>6, <1>8, <2>1 DEF Joins
<1>11. \A i \in 1..4 : h[4 + i] = c[i]
  <2> SUFFICES ASSUME NEW i \in 1..4 PROVE h[4 + i] = c[i]
    OBVIOUS
  <2>1. 4 + i \in 1..8
    OBVIOUS
  <2> QED BY <1>6, <1>8, <2>1 DEF Joins
<1>12. Numbers(h, 11)
  BY <1>8 DEF Joins, Numbers
<1>13. \A i \in 1..3 : h[8 + i] = d[i]
  BY <1>8 DEF Joins
<1> QED BY <1>9, <1>10, <1>11, <1>12, <1>13 DEF h, b, c, d, HeadHas

(* What is read of a tag, whatever its body.                                 *)
TagHas(bytes, k, n, t, body) ==
  /\ bytes # <<>>
  /\ ReadTag(bytes).type = k
  /\ ReadTag(bytes).size = n % Wide
  /\ ReadTag(bytes).time = t % (Wide * 128)
  /\ ReadTag(bytes).stream = 0
  /\ ReadTag(bytes).body = body
  /\ Len(body) + 10 < Wide * Byte => ReadTag(bytes).back = Len(body) + 10

(* The tag of a body has these parts.                                        *)
LEMMA TagParts ==
  ASSUME NEW k \in Int, NEW n \in Int, NEW t \in Int, NEW body \in Seq(Int)
  PROVE  TagHas(WithTagSize(HeadOf(k, n, t) \o body), k, n, t, body)
<1> DEFINE bytes == WithTagSize(HeadOf(k, n, t) \o body)
           h == HeadOf(k, n, t)
           l == Len(body)
           tag == h \o body
           e == Int32(Len(tag) - 1)
<1>1. /\ h \in Seq(Int) /\ Len(h) = 11 /\ h[1] = k
      /\ \A i \in 1..3 : h[1 + i] = Int24(n)[i] /\ h[8 + i] = Int24(0)[i]
      /\ \A i \in 1..4 : h[4 + i] = TimeBytes(t)[i]
  <2>1. HeadHas(h, k, n, t)
    BY HeadFacts
  <2> QED BY <2>1 DEF HeadHas, Numbers
<1>2. bytes = tag \o e
  BY DEF WithTagSize
<1> HIDE DEF h, bytes
<1>3. l \in Nat
  OBVIOUS
<1> HIDE DEF l
<1>4. Joins(tag, h, 11, body, l)
  <2>1. Numbers(h, 11) /\ Numbers(body, l)
    BY <1>1, <1>3 DEF l, Numbers
  <2> QED BY <2>1, Joined
<1> HIDE DEF tag
<1>5. Len(tag) - 1 = l + 10 /\ l + 10 \in Int /\ tag \in Seq(Int) /\ Len(tag) = l + 11
  BY <1>3, <1>4 DEF Joins
<1>6. /\ e \in Seq(Int) /\ Len(e) = 4
      /\ l + 10 < Wide * Byte => AMF_DecodeInt32(e) = l + 10
  <2> DEFINE w == l + 10
  <2>1. e = Int32(w) /\ w \in Int /\ 0 <= w
    BY <1>3, <1>5
  <2> HIDE DEF w, e
  <2>2. Int32(w) \in Seq(Int) /\ Len(Int32(w)) = 4 /\ (w < Wide * Byte => AMF_DecodeInt32(Int32(w)) = w)
    BY <2>1, NumberFacts
  <2>3. e \in Seq(Int) /\ Len(e) = 4 /\ (w < Wide * Byte => AMF_DecodeInt32(e) = w)
    BY <2>1, <2>2
  <2> QED BY <2>3 DEF w
<1> HIDE DEF e
<1>7. Joins(bytes, tag, l + 11, e, 4) /\ Len(bytes) = l + 15 /\ bytes \in Seq(Int)
  <2>1. Numbers(tag, l + 11) /\ Numbers(e, 4)
    BY <1>3, <1>5, <1>6 DEF Numbers
  <2>2. Joins(bytes, tag, l + 11, e, 4)
    BY <1>2, <2>1, Joined
  <2> QED BY <1>3, <2>2 DEF Joins
<1>8. ASSUME NEW i \in 1..11 PROVE bytes[i] = h[i]
  <2>1. i \in 1..(l + 11)
    BY <1>3
  <2> QED BY <1>4, <1>7, <2>1 DEF Joins
<1>9. ASSUME NEW i \in 1..l PROVE bytes[11 + i] = body[i]
  <2>1. 11 + i \in 1..(l + 11)
    BY <1>3
  <2> QED BY <1>4, <1>7, <2>1 DEF Joins
<1>10. SubSeq(bytes, 12, Len(bytes) - 4) = body
  <2> DEFINE s == SubSeq(bytes, 12, l + 11)
  <2>1. \A i \in 12..(l + 11) : bytes[i] \in Int
    BY <1>3, <1>7
  <2>2. /\ s \in Seq(Int)
        /\ Len(s) = IF 12 <= l + 11 THEN (l + 11) - 12 + 1 ELSE 0
        /\ \A i \in 1..((l + 11) - 12 + 1) : s[i] = bytes[12 + i - 1]
    BY <1>3, <2>1, SubSeqProperties
  <2> HIDE DEF s
  <2>3. Len(s) = l /\ \A i \in 1..l : s[i] = bytes[11 + i]
    BY <1>3, <2>2
  <2>4. s = body
    BY <1>9, <2>2, <2>3, SeqEqual DEF l
  <2>5. Len(bytes) - 4 = l + 11
    BY <1>3, <1>7
  <2> QED BY <2>4, <2>5 DEF s
<1>11. AMF_DecodeInt32(SubSeq(bytes, Len(bytes) - 3, Len(bytes))) = AMF_DecodeInt32(e)
  <2> DEFINE s == SubSeq(bytes, l + 12, l + 15)
  <2>1. \A i \in (l + 12)..(l + 15) : bytes[i] \in Int
    BY <1>3, <1>7
  <2>2. \A i \in 1..((l + 15) - (l + 12) + 1) : s[i] = bytes[(l + 12) + i - 1]
    BY <1>3, <2>1, SubSeqProperties
  <2> HIDE DEF s
  <2>3. s[1] = bytes[(l + 11) + 1] /\ s[2] = bytes[(l + 11) + 2] /\ s[3] = bytes[(l + 11) + 3] /\ s[4] = bytes[(l + 11) + 4]
    BY <1>3, <2>2
  <2>4. s[1] = e[1] /\ s[2] = e[2] /\ s[3] = e[3] /\ s[4] = e[4]
    BY <1>7, <2>3 DEF Joins
  <2>5. Len(bytes) - 3 = l + 12 /\ Len(bytes) = l + 15
    BY <1>3, <1>7
  <2>6. AMF_DecodeInt32(s) = AMF_DecodeInt32(e)
    BY <2>4, SameRead
  <2> QED BY <2>5, <2>6 DEF s
<1>12. ASSUME NEW x \in {2, 5, 9}, NEW u, u[1] = h[x], u[2] = h[x + 1], u[3] = h[x + 2]
       PROVE  AMF_DecodeInt24(SubSeq(bytes, x, x + 2)) = AMF_DecodeInt24(u)
  <2> DEFINE s == SubSeq(bytes, x, x + 2)
  <2>1. \A i \in x..(x + 2) : bytes[i] \in Int
    <3> SUFFICES ASSUME NEW i \in x..(x + 2) PROVE bytes[i] \in Int
      OBVIOUS
    <3>2. x \in Int /\ 2 <= x /\ x <= 9
      OBVIOUS
    <3>3. i \in Int /\ 1 <= i /\ i <= 11
      BY <3>2
    <3>1. i \in 1..Len(bytes)
      BY <1>3, <1>7, <3>3
    <3> QED BY <1>7, <3>1
  <2>2. \A i \in 1..((x + 2) - x + 1) : s[i] = bytes[x + i - 1]
    BY <2>1, SubSeqProperties
  <2> HIDE DEF s
  <2>3. s[1] = bytes[x] /\ s[2] = bytes[x + 1] /\ s[3] = bytes[x + 2]
    BY <2>2
  <2>4. s[1] = u[1] /\ s[2] = u[2] /\ s[3] = u[3]
    <3>1. x \in 1..11 /\ x + 1 \in 1..11 /\ x + 2 \in 1..11
      OBVIOUS
    <3>2. bytes[x] = h[x] /\ bytes[x + 1] = h[x + 1] /\ bytes[x + 2] = h[x + 2]
      BY <1>8, <3>1
    <3> QED BY <1>12, <2>3, <3>2
  <2>5. AMF_DecodeInt24(s) = AMF_DecodeInt24(u)
    BY <2>4, SameRead
  <2> QED BY <2>5 DEF s
<1>13. AMF_DecodeInt24(SubSeq(bytes, 2, 4)) = n % Wide
  <2>1. Int24(n)[1] = h[2] /\ Int24(n)[2] = h[2 + 1] /\ Int24(n)[3] = h[2 + 2]
    BY <1>1
  <2>2. AMF_DecodeInt24(SubSeq(bytes, 2, 2 + 2)) = AMF_DecodeInt24(Int24(n))
    BY <1>12, <2>1
  <2> QED BY <2>2, NumberFacts
<1>14. bytes[8] * Wide + AMF_DecodeInt24(SubSeq(bytes, 5, 7)) = t % (Wide * 128)
  <2>1. TimeBytes(t)[1] = h[5] /\ TimeBytes(t)[2] = h[5 + 1] /\ TimeBytes(t)[3] = h[5 + 2] /\ TimeBytes(t)[4] = h[8]
    BY <1>1
  <2>2. AMF_DecodeInt24(SubSeq(bytes, 5, 5 + 2)) = AMF_DecodeInt24(TimeBytes(t))
    BY <1>12, <2>1
  <2>3. AMF_DecodeInt24(TimeBytes(t)) = AMF_DecodeInt24(Int24(t))
    BY TimeBytesFacts, SameRead
  <2>4. bytes[8] = TimeBytes(t)[4]
    BY <1>8, <2>1
  <2> QED BY <2>2, <2>3, <2>4, TimeBytesFacts
<1>15. AMF_DecodeInt24(SubSeq(bytes, 9, 11)) = 0
  <2>1. Int24(0)[1] = h[9] /\ Int24(0)[2] = h[9 + 1] /\ Int24(0)[3] = h[9 + 2]
    BY <1>1
  <2>2. AMF_DecodeInt24(SubSeq(bytes, 9, 9 + 2)) = AMF_DecodeInt24(Int24(0))
    BY <1>12, <2>1
  <2>3. 0 % Wide = 0
    BY DEF Wide, Byte
  <2> QED BY <2>2, <2>3, NumberFacts
<1>16. bytes[1] = k
  BY <1>1, <1>8
<1>17. bytes # <<>>
  BY <1>3, <1>7
<1> QED BY <1>6, <1>10, <1>11, <1>13, <1>14, <1>15, <1>16, <1>17 DEF ReadTag, Wide, l, TagHas, bytes

(* The data of a packet are numbers.                                         *)
LEMMA BytesFacts ==
  ASSUME NEW size \in Nat
  PROVE  Numbers(Bytes(size), size)
<1>1. \A i \in 1..size : i % Byte \in Int
  BY DEF Byte
<1>2. Bytes(size) \in [1..size -> Int]
  BY <1>1 DEF Bytes
<1>3. Bytes(size) \in Seq(Int) /\ Len(Bytes(size)) = size
  BY <1>2 DEF Bytes
<1> QED BY <1>3 DEF Numbers

(* What follows the first bytes of a body is read as it was.                 *)
LEMMA BodyRest ==
  ASSUME NEW s, NEW n \in Nat, NEW u, NEW m \in Nat, NEW v, Joins(v, s, n, u, m), Numbers(u, m)
  PROVE  Rest(v, n) = u
<1> DEFINE r == SubSeq(v, n + 1, n + m)
<1>1. v \in Seq(Int) /\ Len(v) = n + m
  BY DEF Joins
<1>2. \A i \in (n + 1)..(n + m) : v[i] \in Int
  <2> SUFFICES ASSUME NEW i \in (n + 1)..(n + m) PROVE v[i] \in Int
    OBVIOUS
  <2>1. i \in 1..Len(v)
    BY <1>1
  <2> QED BY <1>1, <2>1
<1>3. /\ r \in Seq(Int)
      /\ Len(r) = IF n + 1 <= n + m THEN (n + m) - (n + 1) + 1 ELSE 0
      /\ \A i \in 1..((n + m) - (n + 1) + 1) : r[i] = v[(n + 1) + i - 1]
  BY <1>2, SubSeqProperties
<1> HIDE DEF r
<1>4. Len(r) = m
  <2>1. (n + m) - (n + 1) + 1 = m /\ (n + 1 <= n + m <=> m # 0)
    OBVIOUS
  <2> QED BY <1>3, <2>1
<1>5. ASSUME NEW i \in 1..m PROVE r[i] = u[i]
  <2>1. i \in 1..((n + m) - (n + 1) + 1) /\ (n + 1) + i - 1 = n + i
    OBVIOUS
  <2> QED BY <1>3, <2>1 DEF Joins
<1>6. r = u
  BY <1>3, <1>4, <1>5, SeqEqual DEF Numbers
<1> QED BY <1>1, <1>6 DEF r, Rest

(* One sequence and then another, as an operator of its own.                 *)
Then(s, u) == s \o u

(* Three sequences, from the left or from the right.                         *)
LEMMA InTurn ==
  ASSUME NEW s \in Seq(Int), NEW u \in Seq(Int), NEW v \in Seq(Int)
  PROVE  Then(Then(s, u), v) = Then(s, Then(u, v))
<1> DEFINE a == (s \o u) \o v
           b == s \o (u \o v)
<1>1. s \o u \in Seq(Int) /\ u \o v \in Seq(Int)
  OBVIOUS
<1>2. a \in Seq(Int) /\ b \in Seq(Int) /\ Len(a) = Len(b)
  BY <1>1
<1>3. \A i \in 1..Len(a) : a[i] = b[i]
  BY <1>1
<1> HIDE DEF a, b
<1>4. a = b
  BY <1>2, <1>3, SeqEqual
<1> QED BY <1>4 DEF a, b, Then

(* The two bytes that a body starts with.                                    *)
LEMMA TwoBytes ==
  ASSUME NEW f \in Int, NEW g \in Int
  PROVE  Numbers(<<f, g>>, 2) /\ <<f, g>>[1] = f /\ <<f, g>>[2] = g
BY DEF Numbers

(* The body of an audio tag.                                                 *)
AudioBodyHas(body, g, size) ==
  Numbers(body, size + 2) /\ body[2] = g /\ Rest(body, 2) = Bytes(size)

(* The body that flv_audio writes.                                           *)
LEMMA AudioBody ==
  ASSUME NEW f \in Int, NEW g \in Int, NEW size \in Nat
  PROVE  AudioBodyHas(<<f, g>> \o Bytes(size), g, size)
<1> DEFINE a == <<f, g>>
           u == Bytes(size)
           v == a \o u
<1>1. Numbers(a, 2) /\ a[2] = g
  BY TwoBytes
<1>2. Numbers(u, size)
  BY BytesFacts
<1> HIDE DEF a, u
<1>3. Joins(v, a, 2, u, size)
  BY <1>1, <1>2, Joined
<1> HIDE DEF v
<1>4. Rest(v, 2) = u
  BY <1>2, <1>3, BodyRest
<1>5. Numbers(v, size + 2) /\ v[2] = g
  BY <1>1, <1>3 DEF Joins, Numbers
<1> QED BY <1>4, <1>5 DEF v, a, u, AudioBodyHas

(* The body of a video tag.                                                  *)
VideoBodyHas(body, f, g, c, size) ==
  /\ Numbers(body, size + 5) /\ body[1] = f /\ body[2] = g
  /\ AMF_DecodeInt24(SubSeq(body, 3, 5)) = c % Wide
  /\ Rest(body, 5) = Bytes(size)

(* The body that flv_video writes.                                           *)
LEMMA VideoBody ==
  ASSUME NEW f \in Int, NEW g \in Int, NEW c \in Int, NEW size \in Nat
  PROVE  VideoBodyHas((<<f, g>> \o Int24(c)) \o Bytes(size), f, g, c, size)
<1> DEFINE a == <<f, g>>
           b == Int24(c)
           ab == a \o b
           u == Bytes(size)
           v == ab \o u
<1>1. Numbers(a, 2) /\ a[1] = f /\ a[2] = g
  BY TwoBytes
<1>2. Numbers(b, 3) /\ AMF_DecodeInt24(b) = c % Wide
  BY NumberFacts DEF Numbers
<1>3. Numbers(u, size)
  BY BytesFacts
<1> HIDE DEF a, b, u
<1>4. Joins(ab, a, 2, b, 3)
  BY <1>1, <1>2, Joined
<1> HIDE DEF ab
<1>5. Numbers(ab, 5)
  BY <1>4 DEF Joins, Numbers
<1>6. Joins(v, ab, 5, u, size)
  BY <1>3, <1>5, Joined
<1> HIDE DEF v
<1>7. Rest(v, 5) = u
  BY <1>3, <1>6, BodyRest
<1>8. Numbers(v, size + 5)
  BY <1>6 DEF Joins, Numbers
<1>9. \A i \in 1..5 : v[i] = ab[i]
  BY <1>6 DEF Joins
<1>10. /\ \A i \in 1..2 : ab[i] = a[i]
       /\ \A i \in 1..3 : ab[2 + i] = b[i]
  BY <1>4 DEF Joins
<1>11. v[1] = f /\ v[2] = g /\ v[3] = b[1] /\ v[4] = b[2] /\ v[5] = b[3]
  <2>1. ab[1] = a[1] /\ ab[2] = a[2]
    BY <1>10
  <2>2. ab[2 + 1] = b[1] /\ ab[2 + 2] = b[2] /\ ab[2 + 3] = b[3]
    BY <1>10
  <2> QED BY <1>1, <1>9, <2>1, <2>2
<1>12. AMF_DecodeInt24(SubSeq(v, 3, 5)) = AMF_DecodeInt24(b)
  <2> DEFINE s == SubSeq(v, 3, 5)
  <2>1. v \in Seq(Int) /\ Len(v) = size + 5
    BY <1>8 DEF Numbers
  <2>2. \A i \in 3..5 : v[i] \in Int
    <3> SUFFICES ASSUME NEW i \in 3..5 PROVE v[i] \in Int
      OBVIOUS
    <3>1. i \in 1..Len(v)
      BY <2>1
    <3> QED BY <2>1, <3>1
  <2>3. \A i \in 1..(5 - 3 + 1) : s[i] = v[3 + i - 1]
    BY <2>2, SubSeqProperties
  <2> HIDE DEF s
  <2>4. s[1] = v[3] /\ s[2] = v[4] /\ s[3] = v[5]
    BY <2>3
  <2>5. s[1] = b[1] /\ s[2] = b[2] /\ s[3] = b[3]
    BY <1>11, <2>4
  <2>6. AMF_DecodeInt24(s) = AMF_DecodeInt24(b)
    BY <2>5, SameRead
  <2> QED BY <2>6 DEF s
<1> QED BY <1>2, <1>7, <1>8, <1>11, <1>12 DEF v, ab, a, b, u, VideoBodyHas

-----------------------------------------------------------------------------
(* The tag of a packet.                                                      *)

Packet == [type : Types, key : BOOLEAN, den : Nat \ {0}, dts : Int, pts : Int, size : Nat]

(* The time of a packet in its tag, and from its dts to its pts.             *)
TagTime(p, o) == get_ms_time(p.den, p.dts) - o
Later(p) == get_ms_time(p.den, p.pts - p.dts)

(* What can be read of the tag of a video packet.                            *)
VideoTagHas(bytes, o, p, hd) ==
  \E body \in Seq(Int) :
    /\ TagHas(bytes, RTMP_PACKET_TYPE_VIDEO, p.size + 5, TagTime(p, o), body)
    /\ VideoBodyHas(body, IF p.key THEN 23 ELSE 39, IF hd THEN 0 ELSE 1, Later(p), p.size)

(* The tag that flv_video writes.                                            *)
LEMMA VideoTag ==
  ASSUME NEW p \in Packet, p.size # 0, NEW o \in Int, NEW hd \in BOOLEAN
  PROVE  VideoTagHas(flv_video(o, p, hd), o, p, hd)
<1> DEFINE f == IF p.key THEN 23 ELSE 39
           g == IF hd THEN 0 ELSE 1
           t == TagTime(p, o)
           c == Later(p)
           n == p.size + 5
           kind == <<f, g>>
           late == Int24(c)
           data == Bytes(p.size)
           body == (kind \o late) \o data
           h == HeadOf(RTMP_PACKET_TYPE_VIDEO, n, t)
           bytes == flv_video(o, p, hd)
<1>1. p.den \in Nat \ {0} /\ p.dts \in Int /\ p.pts \in Int /\ p.size \in Nat /\ n \in Int
  BY DEF Packet
<1>2. t \in Int /\ c \in Int
  <2> DEFINE d == p.pts - p.dts
  <2>1. d \in Int
    BY <1>1
  <2> HIDE DEF d
  <2>2. get_ms_time(p.den, p.dts) \in Int /\ get_ms_time(p.den, d) \in Int
    BY <1>1, <2>1, TimeType
  <2> QED BY <2>2 DEF d, TagTime, Later
<1>3. f \in Int /\ g \in Int
  OBVIOUS
<1>4. bytes = WithTagSize(((h \o kind) \o late) \o data)
  BY DEF flv_video, HeadOf, TagTime, Later
<1> HIDE DEF f, g, t, c, n
<1>5. Numbers(kind, 2) /\ Numbers(late, 3) /\ Numbers(data, p.size) /\ Numbers(h, 11)
  <2>1. Numbers(kind, 2)
    BY <1>3, TwoBytes
  <2>2. Numbers(late, 3)
    BY <1>2, NumberFacts DEF Numbers
  <2>3. Numbers(data, p.size)
    BY <1>1, BytesFacts
  <2>4. RTMP_PACKET_TYPE_VIDEO \in Int
    BY DEF RTMP_PACKET_TYPE_VIDEO
  <2>5. Numbers(h, 11)
    BY <1>1, <1>2, <2>4, HeadFacts DEF HeadHas
  <2> QED BY <2>1, <2>2, <2>3, <2>5
<1>6. VideoBodyHas(body, f, g, c, p.size)
  BY <1>1, <1>2, <1>3, VideoBody
<1> HIDE DEF kind, late, data, h
<1>7. ((h \o kind) \o late) \o data = h \o body
  <2>1. h \in Seq(Int) /\ kind \in Seq(Int) /\ late \in Seq(Int) /\ data \in Seq(Int)
    BY <1>5 DEF Numbers
  <2>2. Then(Then(h, kind), late) = Then(h, Then(kind, late))
    BY <2>1, InTurn
  <2>3. Then(kind, late) \in Seq(Int)
    BY <2>1, ConcatProperties DEF Then
  <2>4. Then(Then(h, Then(kind, late)), data) = Then(h, Then(Then(kind, late), data))
    BY <2>1, <2>3, InTurn
  <2> QED BY <2>2, <2>4 DEF Then
<1> HIDE DEF body, bytes
<1>8. bytes = WithTagSize(h \o body)
  BY <1>4, <1>7 DEF bytes
<1>9. body \in Seq(Int) /\ Len(body) = p.size + 5
  BY <1>6 DEF Numbers, VideoBodyHas
<1>10. RTMP_PACKET_TYPE_VIDEO \in Int
  BY DEF RTMP_PACKET_TYPE_VIDEO
<1>11. TagHas(bytes, RTMP_PACKET_TYPE_VIDEO, n, t, body)
  BY <1>1, <1>2, <1>8, <1>9, <1>10, TagParts DEF h
<1> QED BY <1>6, <1>9, <1>11 DEF bytes, n, t, c, f, g, data, VideoBodyHas, TagHas, VideoTagHas

(* What can be read of the tag of an audio packet.                           *)
AudioTagHas(bytes, o, p, hd) ==
  \E body \in Seq(Int) :
    /\ TagHas(bytes, RTMP_PACKET_TYPE_AUDIO, p.size + 2, TagTime(p, o), body)
    /\ AudioBodyHas(body, IF hd THEN 0 ELSE 1, p.size)

(* The tag that flv_audio writes.                                            *)
LEMMA AudioTag ==
  ASSUME NEW p \in Packet, p.size # 0, NEW o \in Int, NEW hd \in BOOLEAN
  PROVE  AudioTagHas(flv_audio(o, p, hd), o, p, hd)
<1> DEFINE g == IF hd THEN 0 ELSE 1
           t == TagTime(p, o)
           n == p.size + 2
           kind == <<175, g>>
           data == Bytes(p.size)
           body == kind \o data
           h == HeadOf(RTMP_PACKET_TYPE_AUDIO, n, t)
           bytes == flv_audio(o, p, hd)
<1>1. p.den \in Nat \ {0} /\ p.dts \in Int /\ p.size \in Nat /\ n \in Int
  BY DEF Packet
<1>2. t \in Int
  <2>1. get_ms_time(p.den, p.dts) \in Int
    BY <1>1, TimeType
  <2> QED BY <2>1 DEF TagTime
<1>3. 175 \in Int /\ g \in Int /\ RTMP_PACKET_TYPE_AUDIO \in Int
  BY DEF RTMP_PACKET_TYPE_AUDIO
<1>4. bytes = WithTagSize((h \o kind) \o data)
  BY DEF flv_audio, HeadOf, TagTime
<1> HIDE DEF g, t, n
<1>5. h \in Seq(Int) /\ kind \in Seq(Int) /\ data \in Seq(Int)
  <2>1. kind \in Seq(Int)
    BY <1>3
  <2>2. Numbers(data, p.size)
    BY <1>1, BytesFacts
  <2>3. HeadHas(h, RTMP_PACKET_TYPE_AUDIO, n, t)
    BY <1>1, <1>2, <1>3, HeadFacts
  <2> QED BY <2>1, <2>2, <2>3 DEF HeadHas, Numbers
<1>6. AudioBodyHas(body, g, p.size)
  BY <1>1, <1>3, AudioBody
<1> HIDE DEF kind, data, h
<1>7. (h \o kind) \o data = h \o body
  <2>1. Then(Then(h, kind), data) = Then(h, Then(kind, data))
    BY <1>5, InTurn
  <2> QED BY <2>1 DEF Then
<1> HIDE DEF body, bytes
<1>8. bytes = WithTagSize(h \o body)
  BY <1>4, <1>7 DEF bytes
<1>9. body \in Seq(Int)
  BY <1>6 DEF Numbers, AudioBodyHas
<1>10. TagHas(bytes, RTMP_PACKET_TYPE_AUDIO, n, t, body)
  BY <1>1, <1>2, <1>3, <1>8, <1>9, TagParts DEF h
<1> QED BY <1>6, <1>9, <1>10 DEF bytes, n, t, g, AudioTagHas

(* The fields of a tag hold what is put into them: the size of the body and  *)
(* the time from dts to pts have 24 bits, the time of the tag has 31 and may *)
(* be below zero.                                                            *)
FieldsHold(p, o) ==
  /\ p.size + 5 < Wide
  /\ p.pts >= p.dts
  /\ Later(p) < Wide
  /\ -Half <= TagTime(p, o) /\ TagTime(p, o) < Half

(* A time below zero is one of 31 bits, and the other way round.             *)
LEMMA SignedTime ==
  ASSUME NEW t \in Int, -Half <= t, t < Half
  PROVE  Signed(t % (Wide * 128)) = t
<1>1. Half = 1073741824 /\ Wide * 128 = 2147483648
  BY SMT DEF Half, Wide, Byte
<1>2. CASE t >= 0
  <2>1. t % 2147483648 = t
    BY <1>1, <1>2, SMT
  <2> QED BY <1>1, <1>2, <2>1, SMT DEF Signed
<1>3. CASE t < 0
  <2>1. t % 2147483648 = t + 2147483648
    BY <1>1, <1>3, SMT
  <2> QED BY <1>1, <1>3, <2>1, SMT DEF Signed
<1> QED BY <1>2, <1>3

(* A time of 24 bits is read as it was.                                      *)
LEMMA SmallTime ==
  ASSUME NEW t \in Int, 0 <= t, t < Wide
  PROVE  t % Wide = t
BY DEF Wide, Byte

(* TagRead of one packet.                                                    *)
TagReadOf(p, o, hd) ==
  LET tag == ReadTag(flv_packet_mux(p, o, hd))
      video == p.type = "video"
      head == IF video THEN 5 ELSE 2
      cts == IF video THEN AMF_DecodeInt24(SubSeq(tag.body, 3, 5)) ELSE 0
      shown == get_ms_time(p.den, p.pts) - o
  IN  /\ tag.type = IF video THEN RTMP_PACKET_TYPE_VIDEO ELSE RTMP_PACKET_TYPE_AUDIO
      /\ tag.size = Len(tag.body)
      /\ tag.back = Len(tag.body) + 10
      /\ tag.stream = 0
      /\ video => (tag.body[1] = 23 <=> p.key)
      /\ tag.body[2] = 0 <=> hd
      /\ Rest(tag.body, head) = Bytes(p.size)
      /\ video => Signed(tag.time) + cts - shown \in {-1, 0, 1}

(* A tag whose fields hold what is put into them can be read.                *)
LEMMA TagIsRead ==
  ASSUME NEW p \in Packet, p.size # 0, NEW o \in Int, NEW hd \in BOOLEAN, FieldsHold(p, o)
  PROVE  TagReadOf(p, o, hd)
<1> DEFINE t == TagTime(p, o)
           c == Later(p)
<1>1. /\ p.den \in Nat \ {0} /\ p.dts \in Int /\ p.pts \in Int /\ p.size \in Nat
      /\ p.key \in BOOLEAN
  BY DEF Packet
<1>2. Wide * Byte = 4294967296 /\ Wide = 16777216
  BY SMT DEF Wide, Byte
<1>3. CASE p.type = "video"
  <2> DEFINE bytes == flv_video(o, p, hd)
             f == IF p.key THEN 23 ELSE 39
             g == IF hd THEN 0 ELSE 1
  <2>1. PICK body \in Seq(Int) :
          /\ TagHas(bytes, RTMP_PACKET_TYPE_VIDEO, p.size + 5, t, body)
          /\ VideoBodyHas(body, f, g, c, p.size)
    BY VideoTag DEF VideoTagHas
  <2>2. flv_packet_mux(p, o, hd) = bytes
    BY <1>3 DEF flv_packet_mux
  <2>3. (f = 23 <=> p.key) /\ (g = 0 <=> hd)
    BY <1>1
  <2> HIDE DEF bytes, f, g
  <2>4. /\ Len(body) = p.size + 5 /\ body[1] = f /\ body[2] = g
        /\ AMF_DecodeInt24(SubSeq(body, 3, 5)) = c % Wide
        /\ Rest(body, 5) = Bytes(p.size)
    BY <2>1 DEF VideoBodyHas, Numbers
  <2>5. p.size + 5 < Wide /\ (p.size + 5) % Wide = p.size + 5 /\ Len(body) + 10 < Wide * Byte
    <3>1. p.size + 5 < 16777216
      BY <1>2 DEF FieldsHold
    <3>2. p.size + 5 \in Int /\ 0 <= p.size + 5 /\ p.size + 5 < Wide
      BY <1>1, <1>2, <3>1, SMT
    <3>3. (p.size + 5) % Wide = p.size + 5
      BY <3>2, SmallTime
    <3>4. Len(body) + 10 < 4294967296
      BY <1>1, <2>4, <3>1, SMT
    <3> QED BY <1>2, <3>2, <3>3, <3>4, SMT
  <2>6. /\ ReadTag(bytes).type = RTMP_PACKET_TYPE_VIDEO
        /\ ReadTag(bytes).size = p.size + 5
        /\ ReadTag(bytes).time = t % (Wide * 128)
        /\ ReadTag(bytes).stream = 0
        /\ ReadTag(bytes).body = body
        /\ ReadTag(bytes).back = Len(body) + 10
    BY <2>1, <2>5 DEF TagHas
  <2>7. Signed(t % (Wide * 128)) + (c % Wide) - (get_ms_time(p.den, p.pts) - o) \in {-1, 0, 1}
    <3> DEFINE x == get_ms_time(p.den, p.dts)
               d == p.pts - p.dts
    <3>1. x \in Int /\ t = x - o /\ t \in Int
      <4>1. x \in Int
        BY <1>1, TimeType
      <4> QED BY <4>1 DEF TagTime
    <3>2. d \in Nat /\ p.pts = p.dts + d
      <4>1. p.pts >= p.dts
        BY DEF FieldsHold
      <4> QED BY <1>1, <4>1, SMT
    <3>3. c = get_ms_time(p.den, d)
      BY DEF Later
    <3> HIDE DEF x, d, t, c
    <3>4. c \in Int /\ 0 <= c
      <4>1. d \in Int /\ d >= 0
        BY <3>2
      <4>2. get_ms_time(p.den, d) \in Int /\ get_ms_time(p.den, d) >= 0
        BY <1>1, <4>1, TimeType
      <4> QED BY <3>3, <4>2
    <3>5. Signed(t % (Wide * 128)) = t
      BY <3>1, SignedTime DEF FieldsHold, t
    <3>6. c % Wide = c
      BY <3>4, SmallTime DEF FieldsHold, c
    <3> DEFINE y == get_ms_time(p.den, p.dts + d)
    <3>7. x + c - y \in {-1, 0, 1}
      BY <1>1, <3>2, <3>3, TimesAddUp DEF x
    <3>8. y \in Int /\ y = get_ms_time(p.den, p.pts)
      BY <1>1, <3>2, TimeType
    <3> HIDE DEF y
    <3>9. t + c - (y - o) = x + c - y
      BY <3>1, <3>4, <3>8
    <3> QED BY <3>5, <3>6, <3>7, <3>8, <3>9
  <2> HIDE DEF t, c
  <2> QED BY <1>3, <2>2, <2>3, <2>4, <2>6, <2>7 DEF TagReadOf
<1>4. CASE p.type # "video"
  <2> DEFINE bytes == flv_audio(o, p, hd)
             g == IF hd THEN 0 ELSE 1
  <2>1. PICK body \in Seq(Int) :
          /\ TagHas(bytes, RTMP_PACKET_TYPE_AUDIO, p.size + 2, t, body)
          /\ AudioBodyHas(body, g, p.size)
    BY AudioTag DEF AudioTagHas
  <2>2. flv_packet_mux(p, o, hd) = bytes
    BY <1>4 DEF flv_packet_mux
  <2>3. g = 0 <=> hd
    OBVIOUS
  <2> HIDE DEF bytes, g
  <2>4. Len(body) = p.size + 2 /\ body[2] = g /\ Rest(body, 2) = Bytes(p.size)
    BY <2>1 DEF AudioBodyHas, Numbers
  <2>5. (p.size + 2) % Wide = p.size + 2 /\ Len(body) + 10 < Wide * Byte
    <3>1. p.size + 5 < 16777216
      BY <1>2 DEF FieldsHold
    <3>2. p.size + 2 \in Int /\ 0 <= p.size + 2 /\ p.size + 2 < Wide
      BY <1>1, <1>2, <3>1, SMT
    <3>3. (p.size + 2) % Wide = p.size + 2
      BY <3>2, SmallTime
    <3>4. Len(body) + 10 < 4294967296
      BY <1>1, <2>4, <3>1, SMT
    <3> QED BY <1>2, <3>3, <3>4, SMT
  <2>6. /\ ReadTag(bytes).type = RTMP_PACKET_TYPE_AUDIO
        /\ ReadTag(bytes).size = p.size + 2
        /\ ReadTag(bytes).stream = 0
        /\ ReadTag(bytes).body = body
        /\ ReadTag(bytes).back = Len(body) + 10
    BY <2>1, <2>5 DEF TagHas
  <2> QED BY <1>4, <2>2, <2>3, <2>4, <2>6 DEF TagReadOf
<1> QED BY <1>3, <1>4

-----------------------------------------------------------------------------
(* The types of the state.  The offset is never above zero, and zero until a *)
(* video packet was given.                                                   *)
WireType ==
  /\ stream \in [got_first_video : BOOLEAN, start_dts_offset : Int]
  /\ stream.start_dts_offset <= 0
  /\ stream.got_first_video \/ stream.start_dts_offset = 0
  /\ feed \in [n : Int, given : Int, first : {None} \cup [ms : Int],
               dts : [Types -> {None} \cup [dts : Int]]]
  /\ feed.first = None \/ stream.got_first_video
  /\ feed.first = None <=> feed.dts["video"] = None
  /\ packets \in Seq(Packet)
  /\ last \in [Types -> Int]

(* What was written last is the tag of some packet.                          *)
WrittenTag ==
  written = None \/ \E p \in Packet, o \in Int, hd \in BOOLEAN : written = Sent(p, o, hd)

(* A packet made of a frame and a dts.                                       *)
LEMMA PacketType ==
  ASSUME NEW frame \in Frames, NEW dts \in Int
  PROVE  [type |-> frame.type, key |-> frame.key, den |-> TimebaseDen[frame.type],
          dts |-> dts, pts |-> dts + frame.cts, size |-> frame.size] \in Packet
<1>1. /\ frame.type \in Types /\ frame.key \in BOOLEAN /\ frame.cts \in Nat /\ frame.size \in Nat
  BY WireAssumption
<1>2. TimebaseDen[frame.type] \in Nat \ {0}
  BY <1>1, WireAssumption
<1>3. dts + frame.cts \in Int
  BY <1>1
<1> HIDE DEF Types
<1> QED BY <1>1, <1>2, <1>3 DEF Packet

(* The packet that a sequence header is made of.                             *)
LEMMA HeaderType ==
  ASSUME NEW type \in Types, NEW key \in BOOLEAN, NEW size \in HeaderSizes
  PROVE  [type |-> type, key |-> key, den |-> 1, dts |-> 0, pts |-> 0, size |-> size] \in Packet
<1>1. size \in Nat
  BY WireAssumption
<1> QED BY <1>1 DEF Packet

(* Nothing is written at first, and then only tags.                          *)
LEMMA WrittenInit == WireInit => WrittenTag
BY DEF WireInit, WrittenTag

(* Only tags are written by any step.                                        *)
LEMMA WrittenNext ==
  ASSUME packets \in Seq(Packet), stream.start_dts_offset \in Int, WrittenTag, [WireNext]_wireVars
  PROVE  WrittenTag'
<1>1. CASE SendPacket
  <2>1. Head(packets) \in Packet /\ FALSE \in BOOLEAN
    BY <1>1 DEF SendPacket
  <2>2. written' = Sent(Head(packets), stream.start_dts_offset, FALSE)
    BY <1>1 DEF SendPacket
  <2> QED BY <2>1, <2>2 DEF WrittenTag
<1>2. ASSUME NEW type \in Types, NEW key \in BOOLEAN, NEW size \in HeaderSizes,
             written' = Header(type, key, size)
      PROVE  WrittenTag'
  <2>1. 0 \in Int /\ TRUE \in BOOLEAN
    OBVIOUS
  <2> QED BY <1>2, <2>1, HeaderType DEF WrittenTag, Header
<1>3. "audio" \in Types /\ "video" \in Types /\ FALSE \in BOOLEAN /\ TRUE \in BOOLEAN
  BY WireAssumption
<1>4. CASE get_audio_header
  BY <1>2, <1>3, <1>4 DEF get_audio_header
<1>5. CASE get_video_header
  BY <1>2, <1>3, <1>5 DEF get_video_header
<1>6. CASE UNCHANGED written
  BY <1>6 DEF WrittenTag
<1>7. ASSUME NEW frame \in Frames, NEW dts \in NextDts(frame.type), Data(frame, dts)
      PROVE  UNCHANGED written
  BY <1>7 DEF Data
<1> QED BY <1>1, <1>4, <1>5, <1>6, <1>7 DEF WireNext, wireVars, NextStream

(* The time of a dts that is not above zero is not either.                   *)
LEMMA OffsetType ==
  ASSUME NEW den \in Nat \ {0}, NEW dts \in Int, dts <= 0
  PROVE  get_ms_time(den, dts) <= 0
<1> DEFINE ms == get_ms_time(den, dts)
<1>0. /\ ms \in Int
      /\ dts >= 0 => ms >= 0 /\ ms * den <= dts * 1000 /\ dts * 1000 < (ms + 1) * den
      /\ dts < 0 => ms <= 0 /\ (ms - 1) * den < dts * 1000 /\ dts * 1000 <= ms * den
  BY TimeFacts
<1> HIDE DEF ms
<1>1. ms \in Int /\ (dts < 0 => ms <= 0) /\ (dts = 0 => ms >= 0 /\ ms * den <= dts * 1000)
  BY <1>0
<1>2. CASE dts = 0
  <2>1. dts * 1000 = 0 /\ ms * den \in Int
    BY <1>1, <1>2
  <2>2. ms * den <= 0
    BY <1>1, <1>2, <2>1
  <2>3. ms > 0 => ms * den > 0
    BY <1>1
  <2>4. ms <= 0
    BY <1>1, <2>1, <2>2, <2>3
  <2> QED BY <2>4 DEF ms
<1>3. CASE dts < 0
  BY <1>1, <1>3 DEF ms
<1> QED BY <1>2, <1>3

-----------------------------------------------------------------------------
(* The times of a stream.                                                    *)

(* With the offset off.                                                      *)
Time(off, type, dts) == get_ms_time(TimebaseDen[type], dts) - off

(* The offset is not later than the first video packet of the stream.        *)
Steady(off, first) == first = None \/ off <= first.ms

(* What holds of every dts of a type that is given and not yet written.      *)
Follows(off, first, lastTime, type, dts) ==
  /\ dts \in Int
  /\ type = "audio" => dts >= 0
  /\ type = "video" => first # None
  /\ type = "video" => first.ms <= get_ms_time(TimebaseDen[type], dts)
  /\ Steady(off, first) => lastTime <= Time(off, type, dts)

(* Nothing was written of a type that was not given; what is given and not   *)
(* written follows, in the order in which it was given.                      *)
TimesOrdered ==
  /\ \A type \in Types : feed.dts[type] = None =>
       last[type] = 0 /\ \A i \in DOMAIN packets : packets[i].type # type
  /\ \A type \in Types : feed.dts[type] # None =>
       Follows(stream.start_dts_offset, feed.first, last[type], type, feed.dts[type].dts)
  /\ \A i \in DOMAIN packets :
       Follows(stream.start_dts_offset, feed.first, last[packets[i].type],
               packets[i].type, packets[i].dts)
  /\ \A i \in DOMAIN packets :
       /\ packets[i].den = TimebaseDen[packets[i].type]
       /\ packets[i].dts <= feed.dts[packets[i].type].dts
  /\ \A i, j \in DOMAIN packets :
       i < j /\ packets[i].type = packets[j].type => packets[i].dts <= packets[j].dts

WireInv == WireType /\ TimesOrdered

(* The times are in order at first.                                          *)
LEMMA WireInvInit == WireInit => WireInv
<1> SUFFICES ASSUME WireInit PROVE WireInv
  OBVIOUS
<1>1. /\ stream = [got_first_video |-> FALSE, start_dts_offset |-> 0]
      /\ feed = NewFeed(1) /\ packets = <<>> /\ last = [type \in Types |-> 0]
  BY DEF WireInit
<1>2. feed.first = None /\ feed.dts = [type \in Types |-> None]
  BY <1>1 DEF NewFeed
<1>3. "video" \in Types
  BY WireAssumption
<1>4. WireType
  <2> HIDE DEF Types, None
  <2>1. /\ \A type \in Types : feed.dts[type] = None
        /\ feed \in [n : Int, given : Int, first : {None} \cup [ms : Int],
                     dts : [Types -> {None} \cup [dts : Int]]]
    BY <1>1, <1>2 DEF NewFeed
  <2>2. last \in [Types -> Int] /\ packets \in Seq(Packet)
    BY <1>1
  <2>3. stream \in [got_first_video : BOOLEAN, start_dts_offset : Int] /\ stream.start_dts_offset = 0
    BY <1>1
  <2> QED BY <1>2, <1>3, <2>1, <2>2, <2>3 DEF WireType
<1>5. TimesOrdered
  <2> HIDE DEF Types, None
  <2>1. \A type \in Types : feed.dts[type] = None /\ last[type] = 0
    BY <1>1, <1>2
  <2>2. DOMAIN packets = {}
    BY <1>1
  <2> QED BY <2>1, <2>2 DEF TimesOrdered
<1> QED BY <1>4, <1>5 DEF WireInv

(* A video packet given is not before the first of its stream, nor is an     *)
(* audio packet before zero: neither has a time below zero, if the stream is *)
(* steady.                                                                   *)
LEMMA TimeNotBelowZero ==
  ASSUME NEW off \in Int, off <= 0, NEW first, first = None \/ first.ms \in Int, NEW lastTime,
         NEW type \in Types, NEW dts, Follows(off, first, lastTime, type, dts), Steady(off, first)
  PROVE  Time(off, type, dts) \in Int /\ Time(off, type, dts) >= 0
<1> DEFINE ms == get_ms_time(TimebaseDen[type], dts)
<1>1. dts \in Int /\ TimebaseDen[type] \in Nat \ {0}
  BY WireAssumption DEF Follows
<1>2. ms \in Int /\ (dts >= 0 => ms >= 0)
  BY <1>1, TimeType
<1>4. CASE type = "audio"
  BY <1>2, <1>4 DEF Follows, Time
<1>5. CASE type = "video"
  <2>1. first # None /\ first.ms <= ms /\ first.ms \in Int
    BY <1>5 DEF Follows
  <2>2. off <= first.ms
    BY <2>1 DEF Steady
  <2> HIDE DEF ms
  <2>3. ms - off \in Int /\ ms - off >= 0
    BY <1>2, <2>1, <2>2
  <2> QED BY <2>3 DEF Time, ms
<1> QED BY <1>4, <1>5, WireAssumption

(* Later times follow as earlier ones do.                                    *)
LEMMA FollowsLater ==
  ASSUME NEW off \in Int, NEW first, first = None \/ first.ms \in Int, NEW lastTime \in Int,
         NEW type \in Types, NEW a \in Int, NEW b \in Int, a <= b,
         Follows(off, first, lastTime, type, a)
  PROVE  Follows(off, first, lastTime, type, b)
<1> DEFINE x == get_ms_time(TimebaseDen[type], a)
           y == get_ms_time(TimebaseDen[type], b)
<1>1. TimebaseDen[type] \in Nat \ {0}
  BY WireAssumption
<1>2. x <= y /\ x \in Int /\ y \in Int
  BY <1>1, TimeOrder, TimeType
<1> HIDE DEF x, y
<1>4. type = "audio" => b >= 0
  BY DEF Follows
<1>5. type = "video" => first # None
  BY DEF Follows
<1>6. type = "video" => first.ms <= y
  BY <1>2, <1>5 DEF Follows, x
<1>7. Steady(off, first) => lastTime <= y - off
  BY <1>2 DEF Follows, Time, x
<1> QED BY <1>4, <1>5, <1>6, <1>7 DEF Follows, Time, y

(* Once a packet that follows is written, what is not before it follows.     *)
LEMMA FollowsWritten ==
  ASSUME NEW off \in Int, NEW first, first = None \/ first.ms \in Int, NEW lastTime, NEW now \in Int,
         NEW type \in Types, NEW a \in Int, NEW b \in Int, a <= b,
         Follows(off, first, lastTime, type, a),
         Steady(off, first) => now <= Time(off, type, a)
  PROVE  Follows(off, first, now, type, b)
<1>1. Follows(off, first, now, type, a)
  BY DEF Follows
<1> QED BY <1>1, FollowsLater

(* A step of the queue: the head is written and the rest moves up.           *)
LEMMA TailFacts ==
  ASSUME packets \in Seq(Packet), packets # <<>>
  PROVE  /\ Tail(packets) \in Seq(Packet)
         /\ \A i \in DOMAIN Tail(packets) : i + 1 \in DOMAIN packets /\ Tail(packets)[i] = packets[i + 1]
         /\ 1 \in DOMAIN packets /\ Head(packets) = packets[1]
         /\ \A i \in DOMAIN Tail(packets) : i \in Int /\ 1 < i + 1
<1> DEFINE r == Tail(packets)
<1>1. /\ r \in Seq(Packet) /\ Len(r) = Len(packets) - 1
      /\ \A i \in 1..Len(r) : r[i] = packets[i + 1]
  BY HeadTailProperties
<1>2. Len(packets) \in Nat \ {0} /\ DOMAIN packets = 1..Len(packets) /\ Head(packets) = packets[1]
  OBVIOUS
<1> HIDE DEF r
<1>3. DOMAIN r = 1..Len(r)
  BY <1>1
<1>4. ASSUME NEW i \in DOMAIN r
      PROVE  i \in Int /\ 1 < i + 1 /\ i + 1 \in DOMAIN packets /\ r[i] = packets[i + 1]
  BY <1>1, <1>2, <1>3
<1>5. 1 \in DOMAIN packets
  BY <1>2
<1> QED BY <1>1, <1>2, <1>4, <1>5 DEF r

(* The time in the tag of a packet that follows.                             *)
LEMMA WrittenTime ==
  ASSUME WireInv, SendPacket
  PROVE  LET p == Head(packets)
         IN  /\ p \in Packet
             /\ \/ last' = last
                \/ last' = [last EXCEPT ![p.type] = TagTime(p, stream.start_dts_offset) % (Wide * 128)]
<1> DEFINE p == Head(packets)
           o == stream.start_dts_offset
           bytes == flv_packet_mux(p, o, FALSE)
<1>1. packets \in Seq(Packet) /\ packets # <<>> /\ o \in Int
  BY DEF WireInv, WireType, SendPacket
<1>2. p \in Packet /\ FALSE \in BOOLEAN
  BY <1>1
<1>3. written' = Sent(p, o, FALSE)
  BY DEF SendPacket
<1>4. written'.bytes = bytes
  BY <1>3 DEF Sent
<1>5. last' = IF bytes = <<>> THEN last ELSE [last EXCEPT ![p.type] = ReadTag(bytes).time]
  BY <1>4 DEF SendPacket
<1> HIDE DEF p, o
<1>6. CASE p.size = 0
  <2>1. bytes = <<>>
    BY <1>6 DEF flv_packet_mux, flv_video, flv_audio
  <2> QED BY <1>2, <1>5, <2>1 DEF p
<1>7. CASE p.size # 0
  <2>1. ReadTag(bytes).time = TagTime(p, o) % (Wide * 128)
    <3>1. CASE p.type = "video"
      <4>1. bytes = flv_video(o, p, FALSE)
        BY <3>1 DEF flv_packet_mux
      <4>2. VideoTagHas(bytes, o, p, FALSE)
        BY <1>1, <1>2, <1>7, <4>1, VideoTag DEF o
      <4> QED BY <4>2 DEF VideoTagHas, TagHas
    <3>2. CASE p.type # "video"
      <4>1. bytes = flv_audio(o, p, FALSE)
        BY <3>2 DEF flv_packet_mux
      <4>2. AudioTagHas(bytes, o, p, FALSE)
        BY <1>1, <1>2, <1>7, <4>1, AudioTag DEF o
      <4> QED BY <4>2 DEF AudioTagHas, TagHas
    <3> QED BY <3>1, <3>2
  <2> HIDE DEF bytes
  <2> QED BY <1>2, <1>5, <2>1 DEF p, o
<1> QED BY <1>6, <1>7

(* What the feed holds.                                                      *)
LEMMA FeedFacts ==
  ASSUME WireType
  PROVE  /\ DOMAIN feed.dts = Types
         /\ \A type \in Types : feed.dts[type] = None \/ feed.dts[type].dts \in Int
         /\ feed.first = None \/ feed.first.ms \in Int
BY DEF WireType

(* Writing a packet keeps the times in order.                                *)
LEMMA SendInv ==
  ASSUME WireInv, SendPacket
  PROVE  WireInv'
<1> DEFINE p == packets[1]
           M == Wide * 128
           off == stream.start_dts_offset
           first == feed.first
           now == Time(off, p.type, p.dts)
<1>1. /\ UNCHANGED stream /\ UNCHANGED feed /\ packets' = Tail(packets) /\ packets # <<>>
      /\ WireType /\ TimesOrdered /\ packets \in Seq(Packet) /\ last \in [Types -> Int]
      /\ off \in Int /\ off <= 0
  BY DEF SendPacket, WireInv, WireType
<1>2. /\ packets' \in Seq(Packet)
      /\ \A i \in DOMAIN packets' : i + 1 \in DOMAIN packets /\ packets'[i] = packets[i + 1]
      /\ 1 \in DOMAIN packets /\ Head(packets) = p
      /\ \A i \in DOMAIN packets' : i \in Int /\ 1 < i + 1
  BY <1>1, TailFacts
<1>3. /\ p \in Packet
      /\ \/ last' = last
         \/ last' = [last EXCEPT ![p.type] = TagTime(p, off) % M]
  BY <1>2, WrittenTime
<1>4. p.type \in Types /\ p.dts \in Int /\ p.den \in Nat \ {0}
  BY <1>3 DEF Packet
<1>5. /\ Follows(off, first, last[p.type], p.type, p.dts)
      /\ p.den = TimebaseDen[p.type]
      /\ p.dts <= feed.dts[p.type].dts
  BY <1>1, <1>2 DEF TimesOrdered
<1>6. TagTime(p, off) = now /\ now \in Int
  <2>1. get_ms_time(p.den, p.dts) \in Int
    BY <1>4, TimeType
  <2>2. now = get_ms_time(p.den, p.dts) - off
    BY <1>5 DEF Time
  <2> HIDE DEF now
  <2> QED BY <1>1, <2>1, <2>2 DEF TagTime
<1>7. now % M \in Int /\ (now >= 0 => now % M <= now)
  <2>1. M = 2147483648
    BY SMT DEF Wide, Byte
  <2> HIDE DEF now, M
  <2> QED BY <1>6, <2>1, SMT
<1>17. first = None \/ first.ms \in Int
  BY <1>1, FeedFacts
<1> HIDE DEF off, first
<1>8. Steady(off, first) => now >= 0
  BY <1>1, <1>4, <1>5, <1>17, TimeNotBelowZero
<1>9. /\ last' \in [Types -> Int]
      /\ \A type \in Types : type # p.type => last'[type] = last[type]
      /\ Steady(off, first) => last'[p.type] <= now
  <2>1. last[p.type] <= now \/ ~Steady(off, first)
    BY <1>5 DEF Follows
  <2> HIDE DEF p, now, M
  <2> QED BY <1>1, <1>3, <1>4, <1>6, <1>7, <1>8, <2>1
<1>11. ASSUME NEW type \in Types, NEW dts \in Int, Follows(off, first, last[type], type, dts),
              type = p.type => p.dts <= dts
       PROVE  Follows(off, first, last'[type], type, dts)
  <2>1. CASE type # p.type
    BY <1>9, <1>11, <2>1
  <2>2. CASE type = p.type
    <3> DEFINE was == last[type]
               is == last'[type]
               d == p.dts
    <3>1. is \in Int /\ d \in Int /\ d <= dts
      BY <1>4, <1>9, <1>11, <2>2
    <3>2. Follows(off, first, was, type, d) /\ (Steady(off, first) => is <= Time(off, type, d))
      BY <1>5, <1>9, <2>2
    <3> HIDE DEF was, is, d
    <3>3. Follows(off, first, is, type, dts)
      BY <1>1, <1>17, <3>1, <3>2, FollowsWritten
    <3> QED BY <3>3 DEF is
  <2> QED BY <2>1, <2>2
<1>12. WireType'
  BY <1>1, <1>2, <1>9 DEF WireType, off
<1>18. off' = off /\ first' = first
  BY <1>1 DEF off, first
<1> HIDE DEF p, now, M
<1>13. ASSUME NEW type \in Types, feed.dts[type] = None
       PROVE  last'[type] = 0 /\ \A i \in DOMAIN packets' : packets'[i].type # type
  <2>1. last[type] = 0 /\ \A i \in DOMAIN packets : packets[i].type # type
    BY <1>1, <1>13 DEF TimesOrdered
  <2>2. type # p.type
    BY <1>2, <2>1 DEF p
  <2> QED BY <1>2, <1>9, <2>1, <2>2
<1>19. ASSUME NEW type \in Types, feed.dts[type] # None
       PROVE  Follows(off, first, last'[type], type, feed.dts[type].dts)
  <2> DEFINE d == feed.dts[type].dts
  <2>1. Follows(off, first, last[type], type, d)
    BY <1>1, <1>19 DEF TimesOrdered, off, first
  <2>2. d \in Int /\ (type = p.type => p.dts <= d)
    BY <1>5, <2>1 DEF Follows
  <2> HIDE DEF d
  <2>3. Follows(off, first, last'[type], type, d)
    BY <1>11, <2>1, <2>2
  <2> QED BY <2>3 DEF d
<1>14. ASSUME NEW i \in DOMAIN packets'
       PROVE  /\ Follows(off, first, last'[packets'[i].type], packets'[i].type, packets'[i].dts)
              /\ packets'[i].den = TimebaseDen[packets'[i].type]
              /\ packets'[i].dts <= feed.dts[packets'[i].type].dts
  <2> DEFINE q == packets[i + 1]
             type == q.type
             dts == q.dts
  <2>1. i + 1 \in DOMAIN packets /\ 1 < i + 1 /\ packets'[i] = q /\ q \in Packet
    BY <1>1, <1>2
  <2>2. /\ Follows(off, first, last[type], type, dts) /\ q.den = TimebaseDen[type]
        /\ dts <= feed.dts[type].dts
    BY <1>1, <2>1 DEF TimesOrdered, off, first
  <2>3. type = p.type => p.dts <= dts
    BY <1>1, <1>2, <2>1 DEF TimesOrdered, p
  <2>4. type \in Types /\ dts \in Int
    BY <2>1 DEF Packet
  <2> HIDE DEF type, dts
  <2>5. Follows(off, first, last'[type], type, dts)
    BY <1>11, <2>2, <2>3, <2>4
  <2> QED BY <2>1, <2>2, <2>5 DEF type, dts
<1>15. ASSUME NEW i \in DOMAIN packets', NEW j \in DOMAIN packets', i < j,
              packets'[i].type = packets'[j].type
       PROVE  packets'[i].dts <= packets'[j].dts
  <2>1. i + 1 \in DOMAIN packets /\ j + 1 \in DOMAIN packets /\ i + 1 < j + 1
    BY <1>2, <1>15
  <2> QED BY <1>1, <1>2, <1>15, <2>1 DEF TimesOrdered
<1>16. TimesOrdered'
  BY <1>1, <1>13, <1>14, <1>15, <1>18, <1>19 DEF TimesOrdered, off, first
<1> QED BY <1>12, <1>16 DEF WireInv

(* An offset that is not above the old one lets the same packets follow.     *)
LEMMA FollowsAudio ==
  ASSUME NEW off \in Int, NEW new \in Int, new <= off, NEW mark, NEW lastTime \in Int, NEW dts,
         "audio" \in Types, Follows(off, None, lastTime, "audio", dts)
  PROVE  Follows(new, mark, lastTime, "audio", dts)
<1> DEFINE x == get_ms_time(TimebaseDen["audio"], dts)
<1>1. x \in Int
  <2>1. TimebaseDen["audio"] \in Nat \ {0} /\ dts \in Int
    BY WireAssumption DEF Follows
  <2> QED BY <2>1, TimeType
<1>2. lastTime <= x - off
  BY DEF Follows, Steady, Time
<1> HIDE DEF x
<1>3. lastTime <= x - new
  BY <1>1, <1>2
<1> QED BY <1>3 DEF Follows, Time, x

(* A frame given by the encoders keeps the times in order.                   *)
LEMMA DataInv ==
  ASSUME WireInv, NEW frame \in Frames, NEW dts, Data(frame, dts)
  PROVE  WireInv'
<1> DEFINE type == frame.type
           packet == [type |-> type, key |-> frame.key, den |-> TimebaseDen[type],
                      dts |-> dts, pts |-> dts + frame.cts, size |-> frame.size]
           ms == get_ms_time(TimebaseDen[type], dts)
           off == stream.start_dts_offset
           new == stream'.start_dts_offset
           first == feed.first
           mark == feed'.first
           was == feed.dts[type]
<1>1. /\ WireType /\ TimesOrdered /\ packets \in Seq(Packet) /\ last \in [Types -> Int]
      /\ off \in Int /\ off <= 0 /\ (stream.got_first_video \/ off = 0)
      /\ first = None \/ stream.got_first_video
  BY DEF WireInv, WireType
<1>2. /\ DOMAIN feed.dts = Types
      /\ \A t \in Types : feed.dts[t] = None \/ feed.dts[t].dts \in Int
      /\ first = None \/ first.ms \in Int
      /\ first = None <=> feed.dts["video"] = None
  BY <1>1, FeedFacts DEF WireType
<1>3. type \in Types /\ type \in {"video", "audio"}
  BY WireAssumption
<1>4. /\ stream' = IF type = "video" /\ ~stream.got_first_video
                   THEN [got_first_video |-> TRUE, start_dts_offset |-> ms] ELSE stream
      /\ packets' = Append(packets, packet)
      /\ feed' = [feed EXCEPT !.given = @ + 1, !.dts[type] = [dts |-> dts],
                    !.first = IF type = "video" /\ @ = None THEN [ms |-> ms] ELSE @]
      /\ last' = last
      /\ Fed(type, dts, frame.cts)
  BY DEF Data
<1>5. /\ was # None => was.dts \in Int /\ dts \in Int /\ was.dts <= dts
      /\ was = None /\ type = "video" => dts \in Int /\ dts <= 0
      /\ was = None /\ type = "audio" => dts = 0
      /\ dts \in Int
  BY <1>2, <1>3, <1>4, WireAssumption DEF Fed
<1>7. ms \in Int /\ TimebaseDen[type] \in Nat \ {0}
  <2>1. TimebaseDen[type] \in Nat \ {0}
    BY <1>3, WireAssumption
  <2> QED BY <1>5, <2>1, TimeType
<1>6. /\ feed' \in [n : Int, given : Int, first : {None} \cup [ms : Int],
                    dts : [Types -> {None} \cup [dts : Int]]]
      /\ mark = IF type = "video" /\ first = None THEN [ms |-> ms] ELSE first
      /\ feed'.dts[type] = [dts |-> dts]
      /\ \A t \in Types : t # type => feed'.dts[t] = feed.dts[t]
  <2>1. feed \in [n : Int, given : Int, first : {None} \cup [ms : Int],
                 dts : [Types -> {None} \cup [dts : Int]]]
    BY <1>1 DEF WireType
  <2>2. [dts |-> dts] \in [dts : Int] /\ [ms |-> ms] \in [ms : Int]
    BY <1>5, <1>7
  <2> DEFINE table == [feed.dts EXCEPT ![type] = [dts |-> dts]]
             start == IF type = "video" /\ first = None THEN [ms |-> ms] ELSE first
  <2>3. feed' = [feed EXCEPT !.given = @ + 1, !.dts = table, !.first = start]
    BY <1>4, <2>1
  <2>4. start \in {None} \cup [ms : Int]
    BY <2>1, <2>2
  <2> HIDE DEF type, ms, None
  <2>5. /\ table \in [Types -> {None} \cup [dts : Int]]
        /\ table[type] = [dts |-> dts]
        /\ \A t \in Types : t # type => table[t] = feed.dts[t]
    BY <1>3, <2>1, <2>2
  <2> HIDE DEF table, start
  <2>6. feed'.first = start /\ feed'.dts = table
    BY <2>1, <2>3
  <2>7. feed' \in [n : Int, given : Int, first : {None} \cup [ms : Int],
                  dts : [Types -> {None} \cup [dts : Int]]]
    <3> DEFINE A == {None} \cup [ms : Int]
               B == [Types -> {None} \cup [dts : Int]]
    <3>1. feed \in [n : Int, given : Int, first : A, dts : B] /\ start \in A /\ table \in B
      BY <2>1, <2>4, <2>5
    <3> HIDE DEF A, B
    <3>2. feed' \in [n : Int, given : Int, first : A, dts : B]
      <4> DEFINE R == [n : Int, given : Int, first : A, dts : B]
                 f == [feed EXCEPT !.given = @ + 1]
                 g == [f EXCEPT !.dts = table]
      <4>1. f \in R
        BY <3>1
      <4> HIDE DEF f
      <4>2. g \in R
        BY <3>1, <4>1
      <4>3. feed' = [g EXCEPT !.first = start]
        BY <2>3 DEF f
      <4> HIDE DEF g
      <4> QED BY <3>1, <4>2, <4>3
    <3> QED BY <3>2 DEF A, B
  <2> QED BY <2>5, <2>6, <2>7 DEF start
<1>8. was = None /\ type = "video" => ms <= 0
  BY <1>5, <1>7, OffsetType
<1>9. /\ stream' \in [got_first_video : BOOLEAN, start_dts_offset : Int]
      /\ new \in Int /\ new <= off /\ new <= 0
      /\ stream'.got_first_video \/ new = 0
      /\ first # None => new = off /\ mark = first
      /\ mark = None \/ stream'.got_first_video
      /\ mark = None \/ mark.ms \in Int
  <2>1. CASE type = "video" /\ ~stream.got_first_video
    <3>1. first = None /\ was = None
      BY <1>1, <1>2, <2>1
    <3>2. stream' = [got_first_video |-> TRUE, start_dts_offset |-> ms] /\ ms <= 0 /\ off = 0
      BY <1>1, <1>4, <1>8, <2>1, <3>1
    <3>3. mark = [ms |-> ms]
      BY <1>6, <2>1, <3>1
    <3> HIDE DEF ms, type, was, first, mark
    <3> QED BY <1>7, <3>1, <3>2, <3>3
  <2>2. CASE ~(type = "video" /\ ~stream.got_first_video)
    <3>1. stream' = stream
      BY <1>4, <2>2
    <3>2. mark = first \/ (first = None /\ type = "video" /\ mark = [ms |-> ms])
      BY <1>6
    <3>3. stream \in [got_first_video : BOOLEAN, start_dts_offset : Int]
      BY <1>1 DEF WireType
    <3> HIDE DEF ms, type, was, first, mark
    <3> QED BY <1>1, <1>2, <1>7, <2>2, <3>1, <3>2, <3>3
  <2> QED BY <2>1, <2>2
<1>10. ASSUME NEW t \in Types, NEW d, Follows(off, first, last[t], t, d)
       PROVE  Follows(new, mark, last[t], t, d)
  <2>1. CASE first # None
    BY <1>9, <1>10, <2>1
  <2>2. CASE first = None
    <3>1. t = "audio"
      BY <1>10, <2>2, WireAssumption DEF Follows
    <3> DEFINE l == last[t]
    <3>2. l \in Int
      BY <1>1
    <3>3. Follows(off, None, l, "audio", d)
      BY <1>10, <2>2, <3>1
    <3> HIDE DEF l, off, new, mark
    <3>4. Follows(new, mark, l, "audio", d)
      BY <1>1, <1>9, <3>1, <3>2, <3>3, FollowsAudio
    <3> QED BY <3>1, <3>4 DEF l
  <2> QED BY <2>1, <2>2
<1>11. Follows(new, mark, last[type], type, dts)
  <2> DEFINE l == last[type]
  <2>1. l \in Int
    BY <1>1, <1>3
  <2>2. CASE was # None
    <3> DEFINE d == was.dts
    <3>1. Follows(off, first, l, type, d)
      BY <1>1, <1>3, <2>2 DEF TimesOrdered
    <3>2. d \in Int /\ d <= dts
      BY <1>5, <2>2
    <3> HIDE DEF d, l, off, first, type
    <3>3. Follows(off, first, l, type, dts)
      BY <1>1, <1>2, <1>3, <1>5, <2>1, <3>1, <3>2, FollowsLater
    <3> QED BY <1>3, <1>10, <3>3 DEF l
  <2>3. CASE was = None
    <3>1. l = 0
      BY <1>1, <1>3, <2>3 DEF TimesOrdered
    <3>2. CASE type = "audio"
      <4>1. dts = 0 /\ dts >= 0 /\ ms >= 0
        BY <1>5, <1>7, <2>3, <3>2, TimeType
      <4> HIDE DEF l, ms, new
      <4>2. l <= ms - new
        BY <1>7, <1>9, <3>1, <4>1
      <4> QED BY <1>5, <3>2, <4>1, <4>2 DEF Follows, Time, ms, l
    <3>3. CASE type = "video"
      <4>1. mark = [ms |-> ms]
        BY <1>2, <1>6, <2>3, <3>3
      <4>2. mark.ms = ms /\ mark # None
        BY <4>1 DEF None
      <4> HIDE DEF l, ms, new, mark
      <4>3. Steady(new, mark) => l <= ms - new
        BY <1>7, <1>9, <3>1, <4>2 DEF Steady
      <4>4. mark.ms <= ms
        BY <1>7, <4>2
      <4> QED BY <1>5, <3>3, <4>2, <4>3, <4>4 DEF Follows, Time, ms, l
    <3> QED BY <1>3, <3>2, <3>3
  <2> QED BY <2>2, <2>3
<1>12. packet \in Packet
  BY <1>5, PacketType
<1>13. packet.type = type /\ packet.dts = dts /\ packet.den = TimebaseDen[type]
  OBVIOUS
<1> DEFINE n == Len(packets)
<1> HIDE DEF packet
<1>14. /\ packets' \in Seq(Packet) /\ n \in Nat
       /\ DOMAIN packets' = 1..(n + 1) /\ DOMAIN packets = 1..n
       /\ \A i \in 1..n : packets'[i] = packets[i]
       /\ packets'[n + 1] = packet
  BY <1>1, <1>4, <1>12, AppendProperties
<1>15. [dts |-> dts] # None
  BY DEF None
<1> HIDE DEF n, ms, off, new, first, mark, was, type
<1>16. mark = None <=> feed'.dts["video"] = None
  <2>1. CASE type = "video"
    <3>1. mark # None
      <4>1. [ms |-> ms] # None
        BY DEF None
      <4> QED BY <1>6, <2>1, <4>1
    <3> QED BY <1>6, <1>15, <2>1, <3>1
  <2>2. CASE type # "video"
    BY <1>2, <1>6, <2>2, WireAssumption
  <2> QED BY <2>1, <2>2
<1>17. WireType'
  BY <1>1, <1>4, <1>6, <1>9, <1>14, <1>16 DEF WireType, new, mark
<1>18. ASSUME NEW t \in Types, feed'.dts[t] = None
       PROVE  last[t] = 0 /\ \A i \in DOMAIN packets' : packets'[i].type # t
  <2>1. t # type /\ feed.dts[t] = None
    BY <1>6, <1>15, <1>18
  <2>2. last[t] = 0 /\ \A i \in DOMAIN packets : packets[i].type # t
    BY <1>1, <2>1 DEF TimesOrdered
  <2>3. ASSUME NEW i \in DOMAIN packets' PROVE packets'[i].type # t
    <3>1. i \in 1..n \/ i = n + 1
      BY <1>14
    <3> QED BY <1>13, <1>14, <2>1, <2>2, <3>1
  <2> QED BY <2>2, <2>3
<1>19. ASSUME NEW t \in Types, feed'.dts[t] # None
       PROVE  Follows(new, mark, last[t], t, feed'.dts[t].dts)
  <2>1. CASE t = type
    <3>1. feed'.dts[t].dts = dts
      BY <1>6, <2>1
    <3> QED BY <1>11, <2>1, <3>1
  <2>2. CASE t # type
    <3>1. feed'.dts[t] = feed.dts[t]
      BY <1>6, <2>2
    <3>2. Follows(off, first, last[t], t, feed.dts[t].dts)
      BY <1>1, <1>19, <3>1 DEF TimesOrdered, off, first
    <3> QED BY <1>10, <3>1, <3>2
  <2> QED BY <2>1, <2>2
<1>20. ASSUME NEW i \in DOMAIN packets'
       PROVE  Follows(new, mark, last[packets'[i].type], packets'[i].type, packets'[i].dts)
  <2>1. CASE i \in 1..n
    <3> DEFINE q == packets[i]
               t == q.type
               d == q.dts
    <3>1. packets'[i] = q /\ q \in Packet /\ i \in DOMAIN packets
      BY <1>1, <1>14, <2>1
    <3>2. Follows(off, first, last[t], t, d) /\ t \in Types
      BY <1>1, <3>1 DEF TimesOrdered, off, first, Packet
    <3> HIDE DEF t, d
    <3>3. Follows(new, mark, last[t], t, d)
      BY <1>10, <3>2
    <3> QED BY <3>1, <3>3 DEF t, d
  <2>2. CASE i = n + 1
    BY <1>11, <1>13, <1>14, <2>2
  <2> QED BY <1>14, <2>1, <2>2
<1>21. ASSUME NEW i \in 1..n
       PROVE  /\ packets[i].type \in Types /\ packets[i].dts \in Int
              /\ packets[i].dts <= feed.dts[packets[i].type].dts
              /\ packets[i].den = TimebaseDen[packets[i].type]
              /\ feed.dts[packets[i].type] # None
              /\ packets[i].type = type => packets[i].dts <= dts
  <2> DEFINE q == packets[i]
             t == q.type
             d == q.dts
  <2>1. q \in Packet /\ i \in DOMAIN packets
    BY <1>1, <1>14
  <2>2. t \in Types /\ d \in Int
    BY <2>1 DEF Packet
  <2>3. feed.dts[t] # None /\ d <= feed.dts[t].dts /\ q.den = TimebaseDen[t]
    BY <1>1, <2>1, <2>2 DEF TimesOrdered
  <2>4. t = type => d <= dts
    <3> SUFFICES ASSUME t = type PROVE d <= dts
      OBVIOUS
    <3>1. was # None /\ d <= was.dts
      BY <2>3 DEF was
    <3> HIDE DEF d
    <3> QED BY <1>5, <2>2, <3>1
  <2> QED BY <2>2, <2>3, <2>4
<1>22. ASSUME NEW i \in DOMAIN packets'
       PROVE  /\ packets'[i].den = TimebaseDen[packets'[i].type]
              /\ packets'[i].dts <= feed'.dts[packets'[i].type].dts
  <2>1. CASE i \in 1..n
    <3>1. CASE packets[i].type = type
      <4>1. feed'.dts[packets[i].type].dts = dts
        BY <1>6, <3>1
      <4> QED BY <1>14, <1>21, <2>1, <3>1, <4>1
    <3>2. CASE packets[i].type # type
      <4>1. feed'.dts[packets[i].type] = feed.dts[packets[i].type]
        BY <1>6, <1>21, <2>1, <3>2
      <4> QED BY <1>14, <1>21, <2>1, <4>1
    <3> QED BY <3>1, <3>2
  <2>2. CASE i = n + 1
    <3>1. feed'.dts[type].dts = dts /\ dts <= dts
      BY <1>5, <1>6
    <3> QED BY <1>13, <1>14, <2>2, <3>1
  <2> QED BY <1>14, <2>1, <2>2
<1>23. ASSUME NEW i \in DOMAIN packets', NEW j \in DOMAIN packets', i < j,
              packets'[i].type = packets'[j].type
       PROVE  packets'[i].dts <= packets'[j].dts
  <2>1. i \in 1..n
    BY <1>14, <1>23
  <2>2. CASE j \in 1..n
    <3>1. i \in DOMAIN packets /\ j \in DOMAIN packets /\ packets'[i] = packets[i] /\ packets'[j] = packets[j]
      BY <1>14, <2>1, <2>2
    <3> QED BY <1>1, <1>23, <3>1 DEF TimesOrdered
  <2>3. CASE j = n + 1
    BY <1>13, <1>14, <1>21, <1>23, <2>1, <2>3
  <2> QED BY <1>14, <2>2, <2>3
<1>24. TimesOrdered'
  <2>1. last' = last /\ new = stream'.start_dts_offset /\ mark = feed'.first
    BY <1>4 DEF new, mark
  <2> QED BY <1>18, <1>19, <1>20, <1>22, <1>23, <2>1 DEF TimesOrdered
<1> QED BY <1>17, <1>24 DEF WireInv

(* Every step keeps the times in order.                                      *)
LEMMA WireInvNext ==
  ASSUME WireInv, [WireNext]_wireVars
  PROVE  WireInv'
<1>1. ASSUME NEW frame \in Frames, NEW dts \in NextDts(frame.type), Data(frame, dts)
      PROVE  WireInv'
  BY <1>1, DataInv
<1>2. CASE SendPacket
  BY <1>2, SendInv
<1>3. CASE UNCHANGED <<stream, feed, packets, last>>
  BY <1>3 DEF WireInv, WireType, TimesOrdered
<1>4. CASE NextStream
  <2> HIDE DEF Types, None
  <2>1. /\ feed' = NewFeed(feed.n + 1) /\ packets' = <<>> /\ stream' = stream
        /\ last' = [type \in Types |-> 0]
    BY <1>4 DEF NextStream
  <2>2. /\ feed'.first = None /\ feed'.dts = [type \in Types |-> None]
        /\ \A type \in Types : feed'.dts[type] = None /\ last'[type] = 0
    BY <2>1 DEF NewFeed
  <2>3. feed.n + 1 \in Int
    BY DEF WireInv, WireType
  <2>4. feed' \in [n : Int, given : Int, first : {None} \cup [ms : Int],
                  dts : [Types -> {None} \cup [dts : Int]]]
    BY <2>1, <2>3 DEF NewFeed
  <2>5. "video" \in Types
    BY WireAssumption
  <2>6. last' \in [Types -> Int] /\ packets' \in Seq(Packet)
    BY <2>1
  <2>7. WireType'
    BY <2>1, <2>2, <2>4, <2>5, <2>6 DEF WireInv, WireType
  <2>8. DOMAIN packets' = {}
    BY <2>1
  <2>9. TimesOrdered'
    BY <2>2, <2>8 DEF TimesOrdered
  <2> QED BY <2>7, <2>9 DEF WireInv
<1>5. CASE get_audio_header \/ get_video_header
  BY <1>3, <1>5 DEF get_audio_header, get_video_header
<1>6. CASE UNCHANGED wireVars
  BY <1>3, <1>6 DEF wireVars
<1> QED BY <1>1, <1>2, <1>4, <1>5, <1>6 DEF WireNext

(* The times are always in order, and what was written is a tag.             *)
LEMMA WireInvariant == WireSpec => [](WireInv /\ WrittenTag)
<1>1. WireInit => WireInv /\ WrittenTag
  BY WireInvInit, WrittenInit
<1>2. (WireInv /\ WrittenTag) /\ [WireNext]_wireVars => (WireInv /\ WrittenTag)'
  <2> SUFFICES ASSUME WireInv, WrittenTag, [WireNext]_wireVars
               PROVE  (WireInv /\ WrittenTag)'
    OBVIOUS
  <2>1. packets \in Seq(Packet) /\ stream.start_dts_offset \in Int
    BY DEF WireInv, WireType
  <2> QED BY <2>1, WireInvNext, WrittenNext
<1> QED BY <1>1, <1>2, PTL DEF WireSpec

-----------------------------------------------------------------------------
(* The fields of the tag that was written last hold what is put into them.   *)
Fits == written # None => FieldsHold(written.packet, written.offset)

(* What is written can be read: whatever the packets and headers of whatever *)
(* streams, a tag whose fields hold its sizes and times says what it was     *)
(* made of, and shows the frame within a millisecond of its pts (flv_video,  *)
(* flv_audio, write_timestamp).                                              *)
THEOREM TagsCorrect == WireSpec => [](Fits => TagRead)
<1>1. WrittenTag => (Fits => TagRead)
  <2> SUFFICES ASSUME WrittenTag, Fits, written # None, written.packet.size > 0 PROVE TagRead
    BY DEF TagRead
  <2>1. PICK p \in Packet, o \in Int, hd \in BOOLEAN : written = Sent(p, o, hd)
    BY DEF WrittenTag
  <2>2. /\ written.packet = p /\ written.offset = o /\ written.header = hd
        /\ written.bytes = flv_packet_mux(p, o, hd)
    BY <2>1 DEF Sent
  <2>3. p.size # 0
    BY <2>2 DEF Packet
  <2>4. FieldsHold(p, o)
    BY <2>2 DEF Fits
  <2>5. TagReadOf(p, o, hd)
    BY <2>3, <2>4, TagIsRead
  <2> QED BY <2>2, <2>5 DEF TagRead, TagReadOf
<1> QED BY <1>1, WireInvariant, PTL

(* The times that wait in the queue fit the 31 bits of a tag.                *)
Short ==
  \A i \in DOMAIN packets :
    get_ms_time(packets[i].den, packets[i].dts) - stream.start_dts_offset < Wide * 128

(* The times in the tags of a type never go back in a stream whose first     *)
(* video packet is not earlier than the offset, as long as they fit the tag: *)
(* the offset only changes once, downwards, and packets are written in the   *)
(* order in which they were given (hengxin_flv_stream_data, send_packet).    *)
THEOREM TimesCorrect == WireSpec /\ []Short => TimesForward
<1> DEFINE Forward ==
      feed'.n = feed.n /\ feed.first # None /\ stream.start_dts_offset <= feed.first.ms
        => \A type \in Types : last[type] <= last'[type]
<1>1. WireInv /\ Short /\ [WireNext]_wireVars => [Forward]_wireVars
  <2> SUFFICES ASSUME WireInv, Short, WireNext, feed'.n = feed.n, feed.first # None,
                      stream.start_dts_offset <= feed.first.ms, NEW type \in Types
               PROVE  last[type] <= last'[type]
    OBVIOUS
  <2>0. last[type] \in Int
    BY DEF WireInv, WireType
  <2>1. CASE UNCHANGED last
    BY <2>0, <2>1
  <2>2. CASE NextStream
    <3>1. feed'.n = feed.n + 1 /\ feed.n \in Int
      BY <2>2 DEF NextStream, NewFeed, WireInv, WireType
    <3> QED BY <3>1
  <2>3. CASE SendPacket
    <3> DEFINE p == packets[1]
               M == Wide * 128
               off == stream.start_dts_offset
               first == feed.first
               now == Time(off, p.type, p.dts)
    <3>1. /\ packets \in Seq(Packet) /\ packets # <<>> /\ last \in [Types -> Int]
          /\ off \in Int /\ off <= 0
      BY <2>3 DEF SendPacket, WireInv, WireType
    <3>2. 1 \in DOMAIN packets /\ Head(packets) = p
      BY <3>1, TailFacts
    <3>3. /\ p \in Packet
          /\ last' = last \/ last' = [last EXCEPT ![p.type] = TagTime(p, off) % M]
      BY <2>3, <3>2, WrittenTime
    <3>4. p.type \in Types /\ p.dts \in Int /\ p.den \in Nat \ {0}
      BY <3>3 DEF Packet
    <3>5. Follows(off, first, last[p.type], p.type, p.dts) /\ p.den = TimebaseDen[p.type]
      BY <3>2 DEF WireInv, TimesOrdered
    <3>6. TagTime(p, off) = now /\ now < M
      BY <3>2, <3>5 DEF Time, TagTime, Short
    <3>7. first = None \/ first.ms \in Int
      BY FeedFacts DEF WireInv
    <3>8. Steady(off, first)
      BY DEF Steady
    <3> HIDE DEF off, first
    <3>9. now \in Int /\ now >= 0
      BY <3>1, <3>4, <3>5, <3>7, <3>8, TimeNotBelowZero
    <3>10. last[p.type] <= now
      BY <3>5, <3>8 DEF Follows
    <3>11. now % M = now
      <4>1. M = 2147483648
        BY SMT DEF Wide, Byte
      <4> HIDE DEF now, M
      <4> QED BY <3>6, <3>9, <4>1, SMT
    <3> HIDE DEF p, now, M
    <3> QED BY <2>0, <3>1, <3>3, <3>4, <3>6, <3>10, <3>11
  <2>4. ASSUME NEW frame \in Frames, NEW dts \in NextDts(frame.type), Data(frame, dts)
        PROVE  UNCHANGED last
    BY <2>4 DEF Data
  <2>5. get_audio_header \/ get_video_header => UNCHANGED last
    BY DEF get_audio_header, get_video_header
  <2> QED BY <2>1, <2>2, <2>3, <2>4, <2>5 DEF WireNext
<1> QED BY <1>1, WireInvariant, PTL DEF WireSpec, TimesForward
=============================================================================
