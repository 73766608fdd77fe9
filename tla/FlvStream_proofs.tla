--------------------------- MODULE FlvStream_proofs ---------------------------
(* Proofs about FlvStream, for any number of sessions, packets and stops    *)
(* and all surroundings: the types for every caller, the rest for one that  *)
(* waits for each call to take effect.                                      *)
EXTENDS FlvStream, FiniteSetTheorems, SequenceTheorems, TLAPS

USE FlvStreamAssumption

-----------------------------------------------------------------------------
(* Types.  What the types rest on: the encoder callback is never busy       *)
(* without a session to feed; a receive loop exists only once the connect   *)
(* thread of its session has made it, and makes one connection at most, so  *)
(* that there are no more connections than sessions.                        *)
Fed == producer # "idle" => fed # 0

Made ==
  \A s \in Sessions :
    /\ s > session => connector[s] = "none"
    /\ connector[s] \in {"none", "loop"} => loop[s] = "none"

Started == {s \in Sessions : loop[s] \notin {"none", "open", "start"}}
Connections == clients <= Cardinality(Started)

TypeInv == TypeOK /\ Fed /\ Made /\ Connections

-----------------------------------------------------------------------------
(* A patient caller.  Sessions follow each other: those of the future have  *)
(* no threads, the threads of the past have returned, and the one there is  *)
(* goes through the stages that its connect thread and its send thread      *)
(* tell apart.                                                              *)
Future(s) ==
  /\ connector[s] = "none" /\ sender[s] = "none" /\ loop[s] = "none"
  /\ told[s] = 0

Past(s) == Returned(s) /\ told[s] = 1

(* Nothing is left of what a session sets.                                  *)
Quiet == ~active /\ ~stopEvent /\ capture = 0 /\ fed = 0

Opening(s) ==
  /\ connector[s] \in {"loop", "reset", "spawn", "connected", "activate", "begin"}
  /\ ui = "idle" /\ told[s] = 0
  /\ ~stopEvent /\ capture = 0 /\ fed = 0
  /\ active <=> connector[s] = "begin"
  /\ sender[s] = IF connector[s] \in {"loop", "reset", "spawn"} THEN "none" ELSE "wait"
  /\ connector[s] \notin {"loop", "reset"} => sem = 0
  /\ connector[s] = "loop" => loop[s] = "none"

(* A thread could not be created, and a stop may have told libobs.          *)
Failed(s) == sender[s] = "none" /\ Quiet /\ told[s] <= 1

Running(s) ==
  /\ InLoop(s) \/ sender[s] \in {"end", "crashed"}
  /\ active /\ capture = s /\ fed = s /\ told[s] = 0
  /\ sender[s] = "end" => stopEvent
  /\ sender[s] = "crashed" => crashed

Ending(s) ==
  /\ sender[s] \in {"free", "reset", "inactive", "done"}
  /\ capture = 0 /\ told[s] = 1
  /\ fed \in {0, s} /\ (~env.late => fed = 0)
  /\ active <=> sender[s] # "done"
  /\ stopEvent <=> sender[s] \in {"free", "reset"}

Present(s) ==
  \/ Opening(s)
  \/ connector[s] = "done" /\ (Failed(s) \/ Running(s) \/ Ending(s))

(* A call of hengxin_flv_stream_stop that has not told the send thread yet. *)
StopUnderWay ==
  ui \in {"join", "joinNow", "check", "signal"} =>
    session > 0 /\ told[session] = 0 /\ ~stopEvent /\ (ui = "signal" => active)

LifeInv ==
  /\ StopUnderWay
  /\ session = 0 => Quiet /\ ui = "idle"
  /\ \A s \in Sessions : /\ s > session => Future(s)
                         /\ s < session => Past(s)
                         /\ s = session => Present(s)

-----------------------------------------------------------------------------
(* The connection belongs to the receive loop, and the flag of the headers  *)
(* to the connection: neither outlives the session.                         *)
Unconnected(s) == loop[s] \in {"none", "open", "start", "flag", "done"}
Unflagged(s) == loop[s] \in {"none", "open", "start", "done"}

NetInv ==
  /\ session = 0 => client = 0 /\ ~flag
  /\ session > 0 =>
       /\ Unconnected(session) => client = 0
       /\ Unflagged(session) => ~flag
       /\ sender[session] \in {"video", "extra", "send"}
            => loop[session] \notin {"none", "open", "start"}

(* What the connection was sent when every header can be sent.              *)
HeadersInv ==
  ~env.headerFails =>
    /\ headerless = {}
    /\ client # 0 /\ session > 0 =>
         /\ sender[session] = "video" => "audio" \in headers[client]
         /\ flag \/ sender[session] \in {"extra", "send"}
              => {"audio", "video"} \subseteq headers[client]

(* What is queued and held without late callbacks.                          *)
PacketsInv ==
  ~env.late =>
    /\ \A i \in DOMAIN queue : queue[i] = session
    /\ \A s \in Sessions : hand[s] \in {0, s}
    /\ session = 0 => queue = <<>>
    /\ session > 0 /\ (\/ connector[session] # "done"
                       \/ sender[session] \in {"none", "reset", "inactive", "done"})
         => queue = <<>>

SessionInv == LifeInv /\ NetInv /\ HeadersInv /\ PacketsInv

-----------------------------------------------------------------------------
(* The proofs about the types.                                              *)

(* No step makes a second connection in one receive loop.                   *)
LEMMA ConnectionsStep ==
  ASSUME TypeInv, [Next]_vars
  PROVE  Connections' /\ clients' \in 0..MaxSessions
<1> USE DEF net
<1>1. /\ IsFiniteSet(Sessions) /\ Cardinality(Sessions) = MaxSessions
      /\ IsFiniteSet(Started) /\ Cardinality(Started) \in Nat
      /\ clients \in 0..MaxSessions /\ clients <= Cardinality(Started)
      /\ loop \in [Sessions -> {"none", "open", "start", "test", "sleep", "stop",
                                "flag", "done"}]
  <2>1. IsFiniteSet(Sessions) /\ Cardinality(Sessions) = MaxSessions
    BY FS_Interval DEF Sessions
  <2>2. IsFiniteSet(Started) /\ Cardinality(Started) \in Nat
    BY <2>1, FS_Subset, FS_CardinalityType DEF Started
  <2> QED BY <2>1, <2>2 DEF TypeInv, TypeOK, Connections
<1>2. ASSUME UNCHANGED clients, Started \subseteq Started'
      PROVE  Connections' /\ clients' \in 0..MaxSessions
  <2>1. IsFiniteSet(Started')
    BY <1>1, FS_Subset DEF Started
  <2>2. Cardinality(Started) <= Cardinality(Started') /\ Cardinality(Started') \in Nat
    BY <1>2, <2>1, FS_Subset, FS_CardinalityType
  <2> QED BY <1>1, <1>2, <2>2 DEF Connections
<1>3. ASSUME NEW s \in Sessions, Loop_Start(s)
      PROVE  Connections' /\ clients' \in 0..MaxSessions
  <2>1. Started' = Started \cup {s} /\ s \notin Started /\ s \in Sessions
    BY <1>1, <1>3 DEF Loop_Start, Started
  <2>2. IsFiniteSet(Started') /\ Cardinality(Started') = Cardinality(Started) + 1
    BY <1>1, <2>1, FS_AddElement
  <2>3. Cardinality(Started') <= MaxSessions
    BY <1>1, <2>1, <2>2, FS_Subset DEF Started
  <2>4. clients' \in {clients, clients + 1}
    BY <1>3 DEF Loop_Start
  <2> QED BY <1>1, <2>2, <2>3, <2>4, FlvStreamAssumption DEF Connections
<1>4. ASSUME UNCHANGED <<clients, loop>>
      PROVE  Connections' /\ clients' \in 0..MaxSessions
  BY <1>2, <1>4 DEF Started
<1>5. CASE Start \/ StopCall \/ Data_Begin \/ Callback
  BY <1>4, <1>5 DEF Start, StopCall, Stop_SetTime, Stop_Check, Stop_Signal, Stop_Post,
     Data_Begin, Callback, Data_Add, Data_Post, Obs_Detach
<1>6. ASSUME NEW forced \in BOOLEAN, Stop_Begin(forced)
      PROVE  Connections' /\ clients' \in 0..MaxSessions
  BY <1>4, <1>6 DEF Stop_Begin
<1>7. ASSUME NEW s \in Sessions, Connect(s)
      PROVE  Connections' /\ clients' \in 0..MaxSessions
  <2>1. CASE Connect_CreateLoop(s)
    <3>1. UNCHANGED clients /\ (loop' = loop \/ loop' = [loop EXCEPT ![s] = "open"])
          /\ loop[s] = "none"
      BY <2>1 DEF Connect_CreateLoop, TypeInv, Made
    <3>2. Started \subseteq Started'
      BY <1>1, <3>1 DEF Started
    <3> QED BY <1>2, <3>1, <3>2
  <2> QED BY <1>4, <1>7, <2>1 DEF Connect, Connect_ResetSemaphore,
     Connect_CreateSender, Connect_Connected, Connect_Activate, Connect_BeginCapture
<1>8. ASSUME NEW s \in Sessions, SendThread(s)
      PROVE  Connections' /\ clients' \in 0..MaxSessions
  BY <1>4, <1>8 DEF SendThread, Send_Wait, Send_CheckStop, Send_GetNextPacket,
     Send_Shutdown, Send_CheckHeaders, Send_Crash, Send_Header, Send_ExtraHeaders,
     Send_Packet, Send_EndCapture, Send_FreePackets, Send_ResetEvent, Send_Inactive
<1>9. ASSUME NEW s \in Sessions, ReceiveLoop(s), ~Loop_Start(s)
      PROVE  Connections' /\ clients' \in 0..MaxSessions
  BY <1>1, <1>2, <1>9 DEF ReceiveLoop, Loop_Open, Loop_Test, Loop_Sleep, Loop_Stop,
     Loop_ResetFlag, Started
<1>10. CASE UNCHANGED vars
  BY <1>4, <1>10 DEF vars
<1> QED BY <1>3, <1>5, <1>6, <1>7, <1>8, <1>9, <1>10 DEF Next

(* The flags are Boolean ...                                                *)
FlagTypes ==
  /\ connecting \in BOOLEAN /\ active \in BOOLEAN
  /\ stopEvent \in BOOLEAN /\ stopNow \in BOOLEAN
  /\ flag \in BOOLEAN /\ crashed \in BOOLEAN

(* No step sets a flag to anything else.                                    *)
LEMMA FlagStep ==
  ASSUME FlagTypes, [Next]_vars
  PROVE  FlagTypes'
<1> USE DEF FlagTypes, flags, net
<1>1. CASE Start
  BY <1>1, Zenon DEF Start
<1>2. ASSUME NEW forced \in BOOLEAN, Stop_Begin(forced) PROVE FlagTypes'
  BY <1>2, Zenon DEF Stop_Begin
<1>3. CASE StopCall
  <2>1. CASE Stop_SetTime
    BY <2>1, Zenon DEF Stop_SetTime
  <2>2. CASE Stop_Check \/ Stop_Post
    BY <2>2, Zenon DEF Stop_Check, Stop_Post
  <2>3. CASE Stop_Signal
    BY <2>3, Zenon DEF Stop_Signal
  <2> QED BY <1>3, <2>1, <2>2, <2>3 DEF StopCall
<1>4. CASE Data_Begin \/ Callback
  BY <1>4, Zenon DEF Data_Begin, Callback, Data_Add, Data_Post, Obs_Detach
<1>5. ASSUME NEW s \in Sessions, Connect(s) PROVE FlagTypes'
  <2>1. CASE Connect_Connected(s) \/ Connect_Activate(s)
    BY <2>1, Zenon DEF Connect_Connected, Connect_Activate
  <2>2. CASE \/ Connect_CreateLoop(s) \/ Connect_ResetSemaphore(s)
             \/ Connect_CreateSender(s) \/ Connect_BeginCapture(s)
    BY <2>2, Zenon DEF Connect_CreateLoop, Connect_ResetSemaphore, Connect_CreateSender,
       Connect_BeginCapture
  <2> QED BY <1>5, <2>1, <2>2 DEF Connect
<1>6. ASSUME NEW s \in Sessions, SendThread(s) PROVE FlagTypes'
  <2>1. CASE Send_Crash(s)
    BY <2>1, Zenon DEF Send_Crash
  <2>2. CASE Send_ExtraHeaders(s)
    <3>1. flag' \in {TRUE, flag}
      BY <2>2, Zenon DEF Send_ExtraHeaders
    <3>2. UNCHANGED <<connecting, active, stopEvent, stopNow, crashed>>
      BY <2>2 DEF Send_ExtraHeaders
    <3> QED BY <3>1, <3>2, Zenon
  <2>3. CASE Send_ResetEvent(s) \/ Send_Inactive(s)
    BY <2>3, Zenon DEF Send_ResetEvent, Send_Inactive
  <2>4. CASE \/ Send_Wait(s) \/ Send_CheckStop(s) \/ Send_GetNextPacket(s)
             \/ Send_Shutdown(s) \/ Send_CheckHeaders(s) \/ Send_Packet(s)
             \/ Send_Header(s, "audio", "video") \/ Send_Header(s, "video", "extra")
             \/ Send_EndCapture(s) \/ Send_FreePackets(s)
    BY <2>4, Zenon DEF Send_Wait, Send_CheckStop, Send_GetNextPacket, Send_Shutdown,
       Send_CheckHeaders, Send_Packet, Send_Header, Send_EndCapture, Send_FreePackets
  <2> QED BY <1>6, <2>1, <2>2, <2>3, <2>4 DEF SendThread
<1>7. ASSUME NEW s \in Sessions, ReceiveLoop(s) PROVE FlagTypes'
  BY <1>7, Zenon DEF ReceiveLoop, Loop_Open, Loop_Start, Loop_Test, Loop_Sleep, Loop_Stop,
     Loop_ResetFlag
<1>8. CASE UNCHANGED vars
  BY <1>8, Zenon DEF vars
<1> QED BY <1>1, <1>2, <1>3, <1>4, <1>5, <1>6, <1>7, <1>8 DEF Next

(* ... and the other variables have the types TypeOK gives them.            *)
DataTypes ==
  /\ env \in Environments
  /\ session \in 0..MaxSessions
  /\ sem \in Nat
  /\ queue \in Seq(Sessions)
  /\ connector \in [Sessions -> {"none", "loop", "reset", "spawn", "connected",
                                 "activate", "begin", "done"}]
  /\ sender \in [Sessions -> {"none", "wait", "woken", "get", "hand", "audio",
                              "video", "extra", "send", "end", "free", "reset",
                              "inactive", "done", "crashed"}]
  /\ hand \in [Sessions -> 0..MaxSessions]
  /\ loop \in [Sessions -> {"none", "open", "start", "test", "sleep", "stop",
                            "flag", "done"}]
  /\ client \in 0..MaxSessions
  /\ headers \in [Sessions -> SUBSET {"audio", "video"}]
  /\ headerless \subseteq Sessions
  /\ capture \in 0..MaxSessions /\ fed \in 0..MaxSessions
  /\ told \in [Sessions -> Nat]
  /\ producer \in {"idle", "checked", "post"} /\ packets \in 0..MaxPackets
  /\ ui \in {"idle", "join", "joinNow", "check", "signal", "post"}
  /\ stops \in 0..MaxStops

DataInv == DataTypes /\ Fed /\ Made

(* No step of a connect thread disturbs a type.                             *)
LEMMA ConnectType ==
  ASSUME DataInv, NEW s \in Sessions, Connect(s)
  PROVE  DataInv'
<1> USE DEF DataInv, DataTypes, Fed, Made, flags, net, obs, feed, call
<1>1. CASE Connect_CreateLoop(s)
  <2>1. CASE loop' = [loop EXCEPT ![s] = "open"] /\ connector' = [connector EXCEPT ![s] = "reset"]
    BY <1>1, <2>1 DEF Connect_CreateLoop
  <2>2. CASE loop' = loop /\ connector' = [connector EXCEPT ![s] = "done"]
    BY <1>1, <2>2 DEF Connect_CreateLoop
  <2> QED BY <1>1, <2>1, <2>2 DEF Connect_CreateLoop
<1>2. CASE Connect_ResetSemaphore(s)
  BY <1>2 DEF Connect_ResetSemaphore
<1>3. CASE Connect_CreateSender(s)
  <2>1. CASE sender' = [sender EXCEPT ![s] = "wait"]
             /\ connector' = [connector EXCEPT ![s] = "connected"]
    BY <1>3, <2>1 DEF Connect_CreateSender
  <2>2. CASE sender' = sender /\ connector' = [connector EXCEPT ![s] = "done"]
    BY <1>3, <2>2 DEF Connect_CreateSender
  <2> QED BY <1>3, <2>1, <2>2 DEF Connect_CreateSender
<1>4. CASE Connect_Connected(s)
  BY <1>4 DEF Connect_Connected
<1>5. CASE Connect_Activate(s)
  BY <1>5 DEF Connect_Activate
<1>6. CASE Connect_BeginCapture(s)
  BY <1>6 DEF Connect_BeginCapture, Sessions
<1> QED BY <1>1, <1>2, <1>3, <1>4, <1>5, <1>6 DEF Connect

(* The same of a step of a send thread.                                     *)
LEMMA SendType ==
  ASSUME DataInv, NEW s \in Sessions, SendThread(s)
  PROVE  DataInv'
<1> USE DEF DataInv, DataTypes, Fed, Made, Goto, flags, net, obs, feed, call
<1>1. CASE Send_Wait(s)
  BY <1>1 DEF Send_Wait
<1>2. CASE Send_GetNextPacket(s)
  <2>1. CASE queue = <<>>
    BY <1>2, <2>1 DEF Send_GetNextPacket
  <2>2. CASE queue # <<>>
    <3>1. Head(queue) \in Sessions /\ Tail(queue) \in Seq(Sessions)
      BY <2>2, HeadTailProperties
    <3>2. Head(queue) \in 0..MaxSessions
      BY <3>1 DEF Sessions
    <3> DEFINE next == Head(queue)
               left == Tail(queue)
    <3>3. /\ hand' = [hand EXCEPT ![s] = next]
          /\ queue' = left
          /\ sender' = [sender EXCEPT ![s] = "hand"]
          /\ UNCHANGED <<session, flags, sem, connector, loop, net, obs, feed, call>>
      BY <1>2, <2>2 DEF Send_GetNextPacket
    <3> HIDE DEF next, left
    <3> QED BY <3>1, <3>2, <3>3 DEF next, left
  <2> QED BY <2>1, <2>2
<1>3. CASE Send_CheckStop(s)
  BY <1>3 DEF Send_CheckStop
<1>4. ASSUME NEW header \in {"audio", "video"}, NEW next \in {"video", "extra"},
             Send_Header(s, header, next)
      PROVE  DataInv'
  <2>1. headers' \in [Sessions -> SUBSET {"audio", "video"}]
    <3>1. headers' = headers \/ headers' = [headers EXCEPT ![client] = @ \cup {header}]
      BY <1>4 DEF Send_Header
    <3>2. headers \in [Sessions -> SUBSET {"audio", "video"}]
      OBVIOUS
    <3>3. headers' = [c \in Sessions |-> headers'[c]]
      BY <3>1, <3>2
    <3>4. ASSUME NEW c \in Sessions PROVE headers'[c] \in SUBSET {"audio", "video"}
      <4>1. headers'[c] = headers[c] \/ headers'[c] = headers[c] \cup {header}
        BY <3>1, <3>2
      <4>2. headers[c] \in SUBSET {"audio", "video"}
        BY <3>2
      <4> QED BY <1>4, <4>1, <4>2
    <3> QED BY <3>3, <3>4
  <2>2. sender' = [sender EXCEPT ![s] = next] \/ sender' = [sender EXCEPT ![s] = "send"]
    BY <1>4 DEF Send_Header
  <2>3. UNCHANGED <<session, flags, sem, queue, connector, hand, loop, client, headerless,
                    obs, feed, call>>
    BY <1>4 DEF Send_Header
  <2> QED BY <2>1, <2>2, <2>3
<1>11. CASE Send_Shutdown(s)
  BY <1>11 DEF Send_Shutdown
<1>12. CASE Send_CheckHeaders(s)
  BY <1>12 DEF Send_CheckHeaders
<1>13. CASE Send_Crash(s)
  BY <1>13 DEF Send_Crash
<1>5. CASE Send_ExtraHeaders(s)
  BY <1>5 DEF Send_ExtraHeaders
<1>6. CASE Send_Packet(s)
  BY <1>6 DEF Send_Packet, Sessions
<1>7. CASE Send_EndCapture(s)
  BY <1>7 DEF Send_EndCapture, TellStopped
<1>8. CASE Send_FreePackets(s)
  BY <1>8, EmptySeq DEF Send_FreePackets
<1>9. CASE Send_ResetEvent(s)
  BY <1>9 DEF Send_ResetEvent
<1>10. CASE Send_Inactive(s)
  BY <1>10 DEF Send_Inactive
<1> QED BY <1>1, <1>2, <1>3, <1>4, <1>5, <1>6, <1>7, <1>8, <1>9, <1>10, <1>11,
           <1>12, <1>13 DEF SendThread

(* The same of a step of a receive loop.                                    *)
LEMMA LoopType ==
  ASSUME DataInv, NEW s \in Sessions, ReceiveLoop(s), clients' \in 0..MaxSessions
  PROVE  DataInv'
<1> USE DEF DataInv, DataTypes, Fed, Made, flags, net, obs, feed, call
<1>1. CASE Loop_Open(s)
  BY <1>1 DEF Loop_Open
<1>2. CASE Loop_Start(s)
  BY <1>2 DEF Loop_Start
<1>3. CASE Loop_Test(s)
  BY <1>3 DEF Loop_Test
<1>4. CASE Loop_Sleep(s)
  BY <1>4 DEF Loop_Sleep
<1>5. CASE Loop_Stop(s)
  BY <1>5 DEF Loop_Stop
<1>6. CASE Loop_ResetFlag(s)
  BY <1>6 DEF Loop_ResetFlag
<1> QED BY <1>1, <1>2, <1>3, <1>4, <1>5, <1>6 DEF ReceiveLoop

(* No step disturbs a type, or what the types rest on.                      *)
LEMMA TypeStep ==
  ASSUME TypeInv, [Next]_vars
  PROVE  TypeInv'
<1>0. Connections' /\ clients' \in 0..MaxSessions
  BY ConnectionsStep
<1>a. FlagTypes'
  BY FlagStep DEF TypeInv, TypeOK, FlagTypes
<1>b. DataInv
  BY DEF TypeInv, TypeOK, DataInv, DataTypes
<1> SUFFICES DataInv'
  BY <1>0, <1>a DEF DataInv, DataTypes, FlagTypes, TypeInv, TypeOK
<1> USE <1>b DEF flags, net, obs, feed, call
<1>1. CASE Start
  BY <1>1 DEF Start, DataInv, DataTypes, Fed, Made, Sessions
<1>2. ASSUME NEW forced \in BOOLEAN, Stop_Begin(forced) PROVE DataInv'
  BY <1>2 DEF Stop_Begin, DataInv, DataTypes, Fed, Made
<1>3. CASE Stop_SetTime \/ Stop_Signal
  BY <1>3 DEF Stop_SetTime, Stop_Signal, DataInv, DataTypes, Fed, Made
<1>10. CASE Stop_Post
  BY <1>10 DEF Stop_Post, DataInv, DataTypes, Fed, Made
<1>4. CASE Stop_Check
  BY <1>4 DEF Stop_Check, TellStopped, DataInv, DataTypes, Fed, Made
<1>5. CASE Data_Begin
  BY <1>5 DEF Data_Begin, DataInv, DataTypes, Fed, Made
<1>6. CASE Data_Add
  <2>1. fed \in Sessions /\ queue \in Seq(Sessions) /\ queue' = Append(queue, fed)
    BY <1>6 DEF Data_Add, DataInv, DataTypes, Fed, Sessions
  <2>2. queue' \in Seq(Sessions)
    BY <2>1, AppendProperties
  <2> QED BY <1>6, <2>2 DEF Data_Add, DataInv, DataTypes, Fed, Made
<1>7. CASE Data_Post
  BY <1>7 DEF Data_Post, DataInv, DataTypes, Fed, Made
<1>11. CASE Obs_Detach
  BY <1>11 DEF Obs_Detach, DataInv, DataTypes, Fed, Made
<1>8. ASSUME NEW s \in Sessions, Connect(s) \/ SendThread(s) \/ ReceiveLoop(s)
      PROVE  DataInv'
  BY <1>0, <1>8, ConnectType, SendType, LoopType
<1>9. CASE UNCHANGED vars
  BY <1>9 DEF vars, DataInv, DataTypes, Fed, Made
<1> QED BY <1>1, <1>2, <1>3, <1>4, <1>5, <1>6, <1>7, <1>8, <1>9, <1>10, <1>11
        DEF Next, StopCall, Callback

(* In the first state nothing runs.                                         *)
LEMMA TypeInit == Init => TypeInv
<1> SUFFICES ASSUME Init PROVE TypeInv
  OBVIOUS
<1>1. Fed /\ Made
  BY DEF Init, Fed, Made
<1>2. Connections
  <2>1. Started = {}
    BY DEF Init, Started
  <2> QED BY <2>1, FS_EmptySet DEF Init, Connections
<1>3. queue \in Seq(Sessions)
  BY EmptySeq DEF Init
<1>4. FlagTypes
  BY Zenon DEF Init, FlagTypes
<1>5. DataTypes /\ clients \in 0..MaxSessions
  BY <1>3 DEF Init, DataTypes
<1> QED BY <1>1, <1>2, <1>4, <1>5 DEF TypeInv, TypeOK, FlagTypes, DataTypes

(* The types, and what they rest on, hold from the first state on.          *)
LEMMA TypeInvariant == Spec => []TypeInv
BY TypeInit, TypeStep, PTL DEF Spec

(* Every variable keeps its type, whatever the caller does; there are no    *)
(* more connections than sessions.                                          *)
THEOREM TypeCorrect == Spec => []TypeOK
<1>1. TypeInv => TypeOK
  BY DEF TypeInv
<1> QED BY <1>1, TypeInvariant, PTL

-----------------------------------------------------------------------------
(* The proofs about the life of the sessions of a patient caller.           *)

(* The functions of the sessions have their domain.                         *)
LEMMA SessionFunctions ==
  ASSUME TypeInv
  PROVE  /\ connector = [t \in Sessions |-> connector[t]]
         /\ sender = [t \in Sessions |-> sender[t]]
         /\ loop = [t \in Sessions |-> loop[t]]
         /\ hand = [t \in Sessions |-> hand[t]]
         /\ told = [t \in Sessions |-> told[t]]
         /\ \A t \in Sessions : told[t] \in Nat
         /\ session \in 0..MaxSessions
         /\ session > 0 => session \in Sessions
BY DEF TypeInv, TypeOK, Sessions

(* Only the threads of the present session take steps.                      *)
LEMMA OnlyPresent ==
  ASSUME TypeInv, LifeInv, NEW s \in Sessions,
         Connect(s) \/ SendThread(s) \/ ReceiveLoop(s)
  PROVE  s = session /\ session > 0 /\ Present(s)
<1>1. /\ connector[s] \notin {"none", "done"} \/ sender[s] \notin {"none", "done"}
         \/ loop[s] \notin {"none", "done"}
  <2>1. CASE Connect(s)
    BY <2>1 DEF Connect, Connect_CreateLoop, Connect_ResetSemaphore,
       Connect_CreateSender, Connect_Connected, Connect_Activate, Connect_BeginCapture
  <2>2. CASE SendThread(s)
    BY <2>2 DEF SendThread, Send_Wait, Send_CheckStop, Send_GetNextPacket,
       Send_Shutdown, Send_CheckHeaders, Send_Crash, Send_Header, Send_ExtraHeaders,
       Send_Packet, Send_EndCapture, Send_FreePackets, Send_ResetEvent, Send_Inactive
  <2>3. CASE ReceiveLoop(s)
    BY <2>3 DEF ReceiveLoop, Loop_Open, Loop_Start, Loop_Test, Loop_Sleep, Loop_Stop,
       Loop_ResetFlag
  <2> QED BY <2>1, <2>2, <2>3
<1>2. s \in Nat \ {0} /\ session \in Nat
  BY SessionFunctions DEF Sessions
<1>3. ~(s > session) /\ ~(s < session)
  BY <1>1 DEF LifeInv, Future, Past, Returned
<1> QED BY <1>2, <1>3 DEF LifeInv

(* Of a step that leaves the other sessions alone, only what it does to the *)
(* present one has to be shown.                                             *)
LEMMA LifeFrame ==
  ASSUME TypeInv, LifeInv, session' = session,
         \A t \in Sessions : t # session =>
           /\ connector'[t] = connector[t] /\ sender'[t] = sender[t]
           /\ loop'[t] = loop[t] /\ told'[t] = told[t],
         StopUnderWay',
         session > 0 => Present(session)',
         session = 0 => Quiet' /\ ui' = "idle"
  PROVE  LifeInv'
<1>1. session \in Nat /\ Sessions \subseteq Nat
  BY SessionFunctions DEF Sessions
<1>2. ASSUME NEW t \in Sessions, t > session PROVE Future(t)'
  BY <1>1, <1>2 DEF LifeInv, Future
<1>3. ASSUME NEW t \in Sessions, t < session PROVE Past(t)'
  BY <1>1, <1>3 DEF LifeInv, Past, Returned
<1>4. ASSUME NEW t \in Sessions, t = session PROVE Present(t)'
  BY <1>4 DEF Sessions
<1>5. \A t \in Sessions : /\ t > session' => Future(t)'
                          /\ t < session' => Past(t)'
                          /\ t = session' => Present(t)'
  BY <1>2, <1>3, <1>4
<1>6. session' = 0 => Quiet' /\ ui' = "idle"
  OBVIOUS
<1> QED BY <1>5, <1>6 DEF LifeInv

(* The connect thread takes the session from one stage of its opening to    *)
(* the next, or leaves it failed.                                           *)
LEMMA ConnectLife ==
  ASSUME TypeInv, LifeInv, NEW s \in Sessions, Connect(s)
  PROVE  LifeInv'
<1> USE DEF flags, net, obs, feed, call
<1>1. s = session /\ session > 0 /\ Opening(s) /\ connector[s] \in {"loop", "reset",
        "spawn", "connected", "activate", "begin"}
  BY OnlyPresent DEF Connect, Connect_CreateLoop, Connect_ResetSemaphore,
     Connect_CreateSender, Connect_Connected, Connect_Activate, Connect_BeginCapture, Present
<1>2. UNCHANGED <<session, told, ui, stopEvent, crashed>>
  BY DEF Connect, Connect_CreateLoop, Connect_ResetSemaphore, Connect_CreateSender,
     Connect_Connected, Connect_Activate, Connect_BeginCapture
<1>3. \A t \in Sessions : t # session =>
           /\ connector'[t] = connector[t] /\ sender'[t] = sender[t]
           /\ loop'[t] = loop[t] /\ told'[t] = told[t]
  BY <1>1, SessionFunctions DEF Connect, Connect_CreateLoop, Connect_ResetSemaphore,
     Connect_CreateSender, Connect_Connected, Connect_Activate, Connect_BeginCapture
<1>4. StopUnderWay'
  BY <1>1, <1>2 DEF StopUnderWay, Opening
<1>5. Present(s)'
  <2>1. CASE Connect_CreateLoop(s)
    BY <1>1, <2>1, SessionFunctions DEF Connect_CreateLoop, Present, Opening, Failed, Quiet
  <2>2. CASE Connect_ResetSemaphore(s)
    BY <1>1, <2>2, SessionFunctions DEF Connect_ResetSemaphore, Present, Opening
  <2>3. CASE Connect_CreateSender(s)
    BY <1>1, <2>3, SessionFunctions DEF Connect_CreateSender, Present, Opening, Failed, Quiet
  <2>4. CASE Connect_Connected(s)
    BY <1>1, <2>4, SessionFunctions DEF Connect_Connected, Present, Opening
  <2>5. CASE Connect_Activate(s)
    BY <1>1, <2>5, SessionFunctions DEF Connect_Activate, Present, Opening
  <2>6. CASE Connect_BeginCapture(s)
    BY <1>1, <2>6, SessionFunctions DEF Connect_BeginCapture, Present, Opening, Running, InLoop
  <2> QED BY <2>1, <2>2, <2>3, <2>4, <2>5, <2>6 DEF Connect
<1> QED BY <1>1, <1>2, <1>3, <1>4, <1>5, LifeFrame

(* The send thread goes round its loop, and leaves it for a stop only.      *)
LEMMA SendLife ==
  ASSUME TypeInv, LifeInv, NEW s \in Sessions, SendThread(s)
  PROVE  LifeInv'
<1> USE DEF flags, net, obs, feed, call, Goto
<1> DEFINE Ring == {"wait", "woken", "get", "hand", "audio", "video", "extra", "send"}
<1>1. /\ s = session /\ session > 0 /\ connector[s] = "done"
      /\ sender[s] \notin {"none", "done", "crashed"}
      /\ Running(s) \/ Ending(s)
  <2>1. sender[s] \notin {"none", "done", "crashed"}
    BY DEF SendThread, Send_Wait, Send_CheckStop, Send_GetNextPacket,
       Send_Shutdown, Send_CheckHeaders, Send_Crash, Send_Header, Send_ExtraHeaders,
       Send_Packet, Send_EndCapture, Send_FreePackets, Send_ResetEvent, Send_Inactive
  <2>2. sender[s] = "wait" => sem > 0
    BY DEF SendThread, Send_Wait, Send_CheckStop, Send_GetNextPacket,
       Send_Shutdown, Send_CheckHeaders, Send_Crash, Send_Header, Send_ExtraHeaders,
       Send_Packet, Send_EndCapture, Send_FreePackets, Send_ResetEvent, Send_Inactive
  <2> QED BY <2>1, <2>2, OnlyPresent DEF Present, Opening, Failed
<1>2. UNCHANGED <<session, connector, loop, ui>>
  BY DEF SendThread, Send_Wait, Send_CheckStop, Send_GetNextPacket, Send_Shutdown,
     Send_CheckHeaders, Send_Crash, Send_Header, Send_ExtraHeaders, Send_Packet,
     Send_EndCapture, Send_FreePackets, Send_ResetEvent, Send_Inactive
<1>3. \A t \in Sessions : t # session => sender'[t] = sender[t] /\ told'[t] = told[t]
  BY <1>1, SessionFunctions DEF SendThread, Send_Wait, Send_CheckStop, Send_GetNextPacket,
     Send_Shutdown, Send_CheckHeaders, Send_Crash, Send_Header, Send_ExtraHeaders,
     Send_Packet, Send_EndCapture, Send_FreePackets, Send_ResetEvent, Send_Inactive,
     TellStopped
<1>4. StopUnderWay' /\ Present(s)'
  <2>1. ASSUME sender[s] \in Ring,
               \/ sender'[s] \in Ring
               \/ sender'[s] = "end" /\ stopEvent
               \/ sender'[s] = "crashed" /\ crashed',
               UNCHANGED <<active, stopEvent, capture, fed, told>>
        PROVE  StopUnderWay' /\ Present(s)'
    <3>1. Running(s)
      BY <1>1, <2>1 DEF Ending
    <3>2. Running(s)'
      BY <2>1, <3>1 DEF Running, InLoop
    <3>3. StopUnderWay'
      BY <1>2, <2>1 DEF LifeInv, StopUnderWay
    <3> QED BY <1>1, <1>2, <3>2, <3>3 DEF Present
  <2>2. CASE Send_Wait(s)
    BY <2>1, <2>2, SessionFunctions DEF Send_Wait
  <2>3. CASE Send_CheckStop(s)
    BY <2>1, <2>3, SessionFunctions DEF Send_CheckStop
  <2>4. CASE Send_GetNextPacket(s)
    BY <2>1, <2>4, SessionFunctions DEF Send_GetNextPacket
  <2>5. CASE Send_Shutdown(s)
    BY <2>1, <2>5, SessionFunctions DEF Send_Shutdown
  <2>6. CASE Send_CheckHeaders(s)
    BY <2>1, <2>6, SessionFunctions DEF Send_CheckHeaders
  <2>7. CASE Send_Crash(s)
    BY <2>1, <2>7, SessionFunctions DEF Send_Crash
  <2>8. CASE Send_Header(s, "audio", "video") \/ Send_Header(s, "video", "extra")
    BY <2>1, <2>8, SessionFunctions DEF Send_Header
  <2>9. CASE Send_ExtraHeaders(s)
    BY <2>1, <2>9, SessionFunctions DEF Send_ExtraHeaders
  <2>10. CASE Send_Packet(s)
    BY <2>1, <2>10, SessionFunctions DEF Send_Packet
  <2>11. CASE Send_EndCapture(s)
    <3>1. sender[s] = "end" /\ Running(s) /\ stopEvent /\ active /\ told[s] = 0 /\ fed = s
      BY <1>1, <2>11 DEF Send_EndCapture, Ending, Running
    <3>2. /\ sender'[s] = "free" /\ told'[s] = 1 /\ capture' = 0
          /\ fed' = IF env.late THEN fed ELSE 0
          /\ UNCHANGED <<active, stopEvent, env>>
      BY <2>11, <3>1, SessionFunctions DEF Send_EndCapture, TellStopped
    <3>3. Ending(s)'
      BY <3>1, <3>2 DEF Ending
    <3>4. StopUnderWay'
      BY <1>1, <1>2, <3>1 DEF LifeInv, StopUnderWay
    <3> QED BY <1>1, <1>2, <3>3, <3>4 DEF Present
  <2>12. CASE Send_FreePackets(s)
    BY <1>1, <1>2, <2>12, SessionFunctions DEF Send_FreePackets, LifeInv, StopUnderWay,
       Present, Running, InLoop, Ending
  <2>13. CASE Send_ResetEvent(s)
    BY <1>1, <1>2, <2>13, SessionFunctions DEF Send_ResetEvent, LifeInv, StopUnderWay,
       Present, Running, InLoop, Ending
  <2>14. CASE Send_Inactive(s)
    BY <1>1, <1>2, <2>14, SessionFunctions DEF Send_Inactive, LifeInv, StopUnderWay,
       Present, Running, InLoop, Ending
  <2> QED BY <2>2, <2>3, <2>4, <2>5, <2>6, <2>7, <2>8, <2>9, <2>10, <2>11, <2>12,
             <2>13, <2>14 DEF SendThread
<1> QED BY <1>1, <1>2, <1>3, <1>4, LifeFrame

(* The receive loop is of no account for the life of a session, once it     *)
(* exists.                                                                  *)
LEMMA LoopLife ==
  ASSUME TypeInv, LifeInv, NEW s \in Sessions, ReceiveLoop(s)
  PROVE  LifeInv'
<1> USE DEF flags, net, obs, feed, call
<1>1. s = session /\ session > 0 /\ Present(s)
  BY OnlyPresent
<1>2. UNCHANGED <<session, active, stopEvent, sem, connector, sender, obs, ui, crashed>>
  BY DEF ReceiveLoop, Loop_Open, Loop_Start, Loop_Test, Loop_Sleep, Loop_Stop, Loop_ResetFlag
<1>3. loop[s] # "none" /\ \A t \in Sessions : t # session => loop'[t] = loop[t]
  BY <1>1, SessionFunctions DEF ReceiveLoop, Loop_Open, Loop_Start, Loop_Test, Loop_Sleep,
     Loop_Stop, Loop_ResetFlag
<1>4. StopUnderWay'
  BY <1>2 DEF LifeInv, StopUnderWay
<1>5. Present(s)'
  BY <1>1, <1>2, <1>3 DEF Present, Opening, Failed, Quiet, Running, InLoop, Ending
<1> QED BY <1>1, <1>2, <1>3, <1>4, <1>5, LifeFrame

(* A patient caller starts from rest, and the session that ended becomes    *)
(* one of the past.                                                         *)
LEMMA StartLife ==
  ASSUME TypeInv, LifeInv, PatientCaller, Start
  PROVE  LifeInv'
<1> USE DEF flags, net, obs, feed, call
<1>1. session \in Nat /\ session' = session + 1 /\ session' \in Sessions
      /\ Sessions \subseteq Nat \ {0}
  BY SessionFunctions DEF Start, Sessions
<1>2. /\ ui = "idle" /\ capture = 0 /\ fed = 0
      /\ UNCHANGED <<active, stopEvent, stopNow, sem, sender, loop, obs, ui>>
      /\ \A s \in Sessions : Returned(s)
      /\ session > 0 => told[session] > 0
  BY DEF Start
<1>3. \A t \in Sessions :
        connector'[t] = IF t = session + 1 THEN "loop" ELSE connector[t]
  BY <1>1, SessionFunctions DEF Start
<1>4. ~active /\ ~stopEvent
  <2>1. CASE session = 0
    BY <2>1 DEF LifeInv, Quiet
  <2>2. CASE session > 0
    <3>1. session \in Sessions /\ Present(session) /\ Returned(session)
      BY <1>2, <2>2, SessionFunctions DEF LifeInv
    <3>2. Failed(session) \/ Running(session) \/ Ending(session)
      BY <3>1 DEF Present, Opening, Returned
    <3> QED BY <3>1, <3>2 DEF Failed, Quiet, Running, Ending, InLoop, Returned
  <2> QED BY <1>1, <2>1, <2>2
<1>5. session > 0 => told[session] = 1
  <2> SUFFICES ASSUME session > 0 PROVE told[session] = 1
    OBVIOUS
  <2>1. session \in Sessions /\ Present(session) /\ Returned(session) /\ told[session] > 0
        /\ told[session] \in Nat
    BY <1>2, SessionFunctions DEF LifeInv
  <2>2. Failed(session) \/ Running(session) \/ Ending(session)
    BY <2>1 DEF Present, Opening, Returned
  <2> QED BY <2>1, <2>2 DEF Failed, Running, Ending
<1>6. ASSUME NEW t \in Sessions, t > session' PROVE Future(t)'
  <2>1. Future(t) /\ t # session + 1
    BY <1>1, <1>6 DEF LifeInv
  <2> QED BY <1>2, <1>3, <2>1 DEF Future
<1>7. ASSUME NEW t \in Sessions, t < session' PROVE Past(t)'
  <2>1. Returned(t) /\ told[t] = 1 /\ t # session + 1
    BY <1>1, <1>2, <1>5, <1>7 DEF LifeInv, Past
  <2> QED BY <1>2, <1>3, <2>1 DEF Past, Returned
<1>8. ASSUME NEW t \in Sessions, t = session' PROVE Present(t)'
  <2>1. Future(t) /\ connector'[t] = "loop"
    BY <1>1, <1>3, <1>8 DEF LifeInv
  <2> QED BY <1>2, <1>4, <2>1 DEF Future, Present, Opening
<1>9. \A t \in Sessions : /\ t > session' => Future(t)'
                          /\ t < session' => Past(t)'
                          /\ t = session' => Present(t)'
  BY <1>6, <1>7, <1>8
<1>10. StopUnderWay' /\ (session' = 0 => Quiet' /\ ui' = "idle")
  BY <1>1, <1>2 DEF StopUnderWay
<1> QED BY <1>9, <1>10 DEF LifeInv

(* A stop is begun for an open session that has not been told of, and tells *)
(* libobs of one that never began.                                          *)
LEMMA StopLife ==
  ASSUME TypeInv, LifeInv, PatientCaller,
         StopCall \/ \E forced \in BOOLEAN : Stop_Begin(forced)
  PROVE  LifeInv'
<1> USE DEF flags, net, obs, feed, call
<1>1. session > 0 /\ session \in Sessions /\ Present(session)
      /\ connector[session] = "done" /\ session' = session
  <2>1. session > 0 /\ session' = session
    <3>1. session' = session /\ (ui # "idle" \/ session > 0)
      BY DEF StopCall, Stop_SetTime, Stop_Check, Stop_Signal, Stop_Post, Stop_Begin
    <3> QED BY <3>1, SessionFunctions DEF LifeInv
  <2>2. session \in Sessions /\ Present(session)
    BY <2>1, SessionFunctions DEF LifeInv
  <2>3. ui = "idle" => connector[session] = "done"
    BY DEF StopCall, Stop_SetTime, Stop_Check, Stop_Signal, Stop_Post, Stop_Begin
  <2> QED BY <2>1, <2>2, <2>3 DEF Present, Opening
<1>2. UNCHANGED <<connector, sender, loop, active, crashed>>
  BY DEF StopCall, Stop_SetTime, Stop_Check, Stop_Signal, Stop_Post, Stop_Begin
<1>3. \A t \in Sessions : t # session => told'[t] = told[t]
  BY <1>1, SessionFunctions DEF StopCall, Stop_SetTime, Stop_Check, Stop_Signal, Stop_Post,
     Stop_Begin, TellStopped
<1>4. ASSUME UNCHANGED <<stopEvent, obs>>, StopUnderWay' PROVE LifeInv'
  <2>1. Present(session)'
    BY <1>1, <1>2, <1>4 DEF Present, Opening, Failed, Quiet, Running, InLoop, Ending
  <2> QED BY <1>1, <1>2, <1>3, <1>4, <2>1, LifeFrame
<1>5. ASSUME NEW forced \in BOOLEAN, Stop_Begin(forced) PROVE LifeInv'
  BY <1>1, <1>4, <1>5 DEF Stop_Begin, StopUnderWay
<1>6. CASE Stop_SetTime
  BY <1>4, <1>6 DEF Stop_SetTime, LifeInv, StopUnderWay
<1>7. CASE Stop_Post
  BY <1>4, <1>7 DEF Stop_Post, StopUnderWay
<1>8. CASE Stop_Signal
  <2>1. told[session] = 0 /\ active /\ ui = "signal"
    BY <1>8 DEF Stop_Signal, LifeInv, StopUnderWay
  <2>2. Running(session)
    BY <1>1, <2>1 DEF Present, Opening, Failed, Quiet, Ending
  <2>3. stopEvent' = TRUE /\ ui' \in {"post", "idle"} /\ UNCHANGED obs
    BY <1>8 DEF Stop_Signal
  <2>4. Running(session)'
    BY <1>1, <1>2, <2>2, <2>3 DEF Running, InLoop
  <2> QED BY <1>1, <1>2, <1>3, <2>3, <2>4, LifeFrame DEF Present, StopUnderWay
<1>9. CASE Stop_Check
  <2>1. told[session] = 0 /\ ~stopEvent /\ UNCHANGED stopEvent
    BY <1>9 DEF Stop_Check, LifeInv, StopUnderWay
  <2>2. CASE active
    <3>1. ui' = "signal" /\ UNCHANGED obs
      BY <1>9, <2>2 DEF Stop_Check
    <3> QED BY <1>1, <1>2, <1>4, <2>1, <2>2, <3>1 DEF StopUnderWay
  <2>3. CASE ~active
    <3>1. ui' = "idle" /\ TellStopped(session)
      BY <1>9, <2>3 DEF Stop_Check
    <3>2. Failed(session) /\ Quiet
      BY <1>1, <2>1, <2>3 DEF Present, Opening, Failed, Running, Ending
    <3>3. told'[session] = 1 /\ capture' = 0 /\ fed' = 0
      BY <1>1, <2>1, <3>1, <3>2, SessionFunctions DEF TellStopped, Quiet
    <3>4. Failed(session)'
      BY <1>1, <1>2, <2>1, <3>2, <3>3 DEF Failed, Quiet
    <3> QED BY <1>1, <1>2, <1>3, <3>1, <3>4, LifeFrame DEF Present, StopUnderWay
  <2> QED BY <2>2, <2>3
<1> QED BY <1>5, <1>6, <1>7, <1>8, <1>9 DEF StopCall

(* The encoders call an open session only.                                  *)
LEMMA DataLife ==
  ASSUME TypeInv, LifeInv, Data_Begin \/ Callback
  PROVE  LifeInv'
<1> USE DEF flags, net, obs, feed, call
<1>1. /\ fed # 0
      /\ UNCHANGED <<session, active, stopEvent, connector, sender, loop, capture,
                     told, env, ui, crashed>>
      /\ \/ UNCHANGED fed
         \/ capture = 0 /\ fed' = 0
  BY DEF Data_Begin, Callback, Data_Add, Data_Post, Obs_Detach, TypeInv, Fed
<1>2. session > 0 /\ session \in Sessions
  BY <1>1, SessionFunctions DEF LifeInv, Quiet
<1>3. Present(session) /\ ~Opening(session)
  BY <1>1, <1>2 DEF LifeInv, Opening
<1>4. ~Failed(session)
  BY <1>1 DEF Failed, Quiet
<1>5. connector[session] = "done" /\ (Running(session) \/ Ending(session))
  BY <1>3, <1>4 DEF Present
<1>6. Running(session)' \/ Ending(session)'
  <2>1. CASE Running(session)
    BY <1>1, <1>2, <2>1 DEF Running, InLoop, Sessions
  <2>2. CASE Ending(session)
    BY <1>1, <2>2 DEF Ending
  <2> QED BY <1>5, <2>1, <2>2
<1>7. StopUnderWay'
  BY <1>1 DEF LifeInv, StopUnderWay
<1> QED BY <1>1, <1>2, <1>5, <1>6, <1>7, LifeFrame DEF Present

(* No step of a patient caller, or of the threads it has started, breaks    *)
(* the order of the sessions and their stages.                              *)
LEMMA LifeStep ==
  ASSUME TypeInv, LifeInv, PatientCaller, [Next]_vars
  PROVE  LifeInv'
<1>1. CASE UNCHANGED vars
  BY <1>1 DEF vars, flags, net, obs, feed, call, LifeInv, StopUnderWay, Quiet, Future,
     Past, Returned, Present, Opening, Failed, Running, InLoop, Ending
<1> QED BY <1>1, StartLife, StopLife, DataLife, ConnectLife, SendLife, LoopLife DEF Next

(* In the first state there is no session, and nothing of one.              *)
LEMMA LifeInit == Init => LifeInv
BY DEF Init, LifeInv, StopUnderWay, Quiet, Future, Sessions

-----------------------------------------------------------------------------
(* The proofs about the connection, its headers and the packets.            *)

(* No step lets the connection or the flag outlive the session.             *)
LEMMA NetStep ==
  ASSUME TypeInv, LifeInv, NetInv, PatientCaller, [Next]_vars
  PROVE  NetInv'
<1> USE DEF flags, net, obs, feed, call
<1>1. ASSUME UNCHANGED <<session, client, flag, loop>>,
             session > 0 => \/ sender'[session] = sender[session]
                            \/ sender'[session] \notin {"video", "extra", "send"}
                            \/ client # 0 \/ flag
      PROVE  NetInv'
  BY <1>1 DEF NetInv, Unconnected, Unflagged
<1>2. CASE Start
  <2>1. session' > 0 /\ session' \in Sessions /\ session \in Nat /\ session' = session + 1
        /\ UNCHANGED <<client, flag, loop, sender>>
    BY <1>2, SessionFunctions DEF Start, Sessions
  <2>2. loop[session'] = "none" /\ sender[session'] = "none"
    BY <2>1 DEF LifeInv, Future
  <2>3. client = 0 /\ ~flag
    <3>1. session > 0 => session \in Sessions /\ Returned(session)
      BY <1>2, SessionFunctions DEF Start
    <3> QED BY <2>1, <3>1 DEF NetInv, Returned, Unconnected, Unflagged
  <2> QED BY <2>1, <2>2, <2>3 DEF NetInv
<1>3. ASSUME NEW forced \in BOOLEAN, Stop_Begin(forced) PROVE NetInv'
  BY <1>1, <1>3 DEF Stop_Begin
<1>4. CASE StopCall \/ Data_Begin \/ Callback
  BY <1>1, <1>4 DEF StopCall, Stop_SetTime, Stop_Check, Stop_Signal, Stop_Post,
     Data_Begin, Callback, Data_Add, Data_Post, Obs_Detach
<1>5. ASSUME NEW s \in Sessions, Connect(s) PROVE NetInv'
  <2>1. s = session /\ session > 0
    BY <1>5, OnlyPresent
  <2>2. CASE Connect_CreateLoop(s)
    BY <2>1, <2>2, SessionFunctions DEF Connect_CreateLoop, NetInv, Unconnected, Unflagged,
       TypeInv, Made
  <2>3. CASE Connect_CreateSender(s)
    BY <1>1, <2>1, <2>3, SessionFunctions DEF Connect_CreateSender
  <2> QED BY <1>1, <1>5, <2>2, <2>3 DEF Connect, Connect_ResetSemaphore,
     Connect_Connected, Connect_Activate, Connect_BeginCapture
<1>6. ASSUME NEW s \in Sessions, SendThread(s) PROVE NetInv'
  <2>1. s = session /\ session > 0
    BY <1>6, OnlyPresent
  <2>2. CASE Send_ExtraHeaders(s)
    BY <2>1, <2>2, SessionFunctions DEF Send_ExtraHeaders, Goto, NetInv, Unconnected, Unflagged
  <2>3. CASE Send_Header(s, "audio", "video") \/ Send_Header(s, "video", "extra")
    BY <1>1, <2>1, <2>3, SessionFunctions DEF Send_Header, Goto
  <2>4. CASE \/ Send_Wait(s) \/ Send_CheckStop(s) \/ Send_GetNextPacket(s)
             \/ Send_Shutdown(s) \/ Send_CheckHeaders(s) \/ Send_Crash(s)
             \/ Send_Packet(s) \/ Send_EndCapture(s) \/ Send_FreePackets(s)
             \/ Send_ResetEvent(s) \/ Send_Inactive(s)
    <3>1. UNCHANGED <<session, client, flag, loop>>
      BY <2>4 DEF Send_Wait, Send_CheckStop, Send_GetNextPacket, Send_Shutdown,
         Send_CheckHeaders, Send_Crash, Send_Packet, Send_EndCapture, Send_FreePackets,
         Send_ResetEvent, Send_Inactive
    <3>2. \/ sender'[session] \notin {"video", "extra", "send"}
          \/ flag
      BY <2>1, <2>4, SessionFunctions DEF Goto, Send_Wait, Send_CheckStop,
         Send_GetNextPacket, Send_Shutdown, Send_CheckHeaders, Send_Crash, Send_Packet,
         Send_EndCapture, Send_FreePackets, Send_ResetEvent, Send_Inactive
    <3> QED BY <1>1, <3>1, <3>2
  <2> QED BY <1>6, <2>2, <2>3, <2>4 DEF SendThread
<1>7. ASSUME NEW s \in Sessions, ReceiveLoop(s) PROVE NetInv'
  <2>1. s = session /\ session > 0
    BY <1>7, OnlyPresent
  <2>2. CASE Loop_Open(s)
    BY <2>1, <2>2, SessionFunctions DEF Loop_Open, NetInv, Unconnected, Unflagged
  <2>3. CASE Loop_Start(s)
    BY <2>1, <2>3, SessionFunctions DEF Loop_Start, NetInv, Unconnected, Unflagged
  <2>4. CASE Loop_Test(s)
    BY <2>1, <2>4, SessionFunctions DEF Loop_Test, NetInv, Unconnected, Unflagged
  <2>5. CASE Loop_Sleep(s)
    BY <2>1, <2>5, SessionFunctions DEF Loop_Sleep, NetInv, Unconnected, Unflagged
  <2>6. CASE Loop_Stop(s)
    BY <2>1, <2>6, SessionFunctions DEF Loop_Stop, NetInv, Unconnected, Unflagged
  <2>7. CASE Loop_ResetFlag(s)
    BY <2>1, <2>7, SessionFunctions DEF Loop_ResetFlag, NetInv, Unconnected, Unflagged
  <2> QED BY <1>7, <2>2, <2>3, <2>4, <2>5, <2>6, <2>7 DEF ReceiveLoop
<1>8. CASE UNCHANGED vars
  BY <1>1, <1>8 DEF vars
<1> QED BY <1>2, <1>3, <1>4, <1>5, <1>6, <1>7, <1>8 DEF Next

(* No step sends a packet ahead of the headers of its connection.           *)
LEMMA HeadersStep ==
  ASSUME TypeInv, LifeInv, NetInv, HeadersInv, PatientCaller, [Next]_vars
  PROVE  HeadersInv'
<1> USE DEF flags, net, obs, feed, call
<1>1. ASSUME UNCHANGED <<env, session, client, flag, headers, headerless>>,
             session > 0 => \/ sender'[session] = sender[session]
                            \/ sender'[session] \notin {"video", "extra", "send"}
                            \/ flag /\ sender'[session] # "video"
      PROVE  HeadersInv'
  BY <1>1 DEF HeadersInv
<1>2. CASE Start
  <2>1. env' = env /\ headerless' = headerless /\ client' = client
    BY <1>2 DEF Start
  <2>2. client = 0
    <3>1. session > 0 => session \in Sessions /\ Returned(session)
      BY <1>2, SessionFunctions DEF Start
    <3> QED BY <3>1, SessionFunctions DEF NetInv, Returned, Unconnected
  <2> QED BY <2>1, <2>2 DEF HeadersInv
<1>3. ASSUME NEW forced \in BOOLEAN, Stop_Begin(forced) PROVE HeadersInv'
  BY <1>1, <1>3 DEF Stop_Begin
<1>4. CASE StopCall \/ Data_Begin \/ Callback
  BY <1>1, <1>4 DEF StopCall, Stop_SetTime, Stop_Check, Stop_Signal, Stop_Post,
     Data_Begin, Callback, Data_Add, Data_Post, Obs_Detach, TellStopped
<1>5. ASSUME NEW s \in Sessions, Connect(s) PROVE HeadersInv'
  <2>1. s = session /\ session > 0
    BY <1>5, OnlyPresent
  <2>2. CASE Connect_CreateSender(s)
    BY <1>1, <2>1, <2>2, SessionFunctions DEF Connect_CreateSender
  <2> QED BY <1>1, <1>5, <2>2 DEF Connect, Connect_CreateLoop, Connect_ResetSemaphore,
     Connect_Connected, Connect_Activate, Connect_BeginCapture
<1>6. ASSUME NEW s \in Sessions, SendThread(s) PROVE HeadersInv'
  <2>1. s = session /\ session > 0
    BY <1>6, OnlyPresent
  <2>2. CASE Send_ExtraHeaders(s)
    <3>1. /\ sender[s] = "extra" /\ sender'[s] = "send" /\ client # 0
          /\ UNCHANGED <<env, session, client, headers, headerless>>
      BY <2>2, SessionFunctions DEF Send_ExtraHeaders, Goto
    <3> QED BY <2>1, <3>1 DEF HeadersInv
  <2>3. ASSUME NEW header \in {"audio", "video"},
               NEW next \in {"video", "extra"},
               header = "audio" <=> next = "video",
               Send_Header(s, header, next)
        PROVE  HeadersInv'
    <3> SUFFICES ASSUME ~env.headerFails PROVE HeadersInv'
      BY <2>3 DEF Send_Header, HeadersInv
    <3>1. /\ sender[s] = header /\ sender' = [sender EXCEPT ![s] = next] /\ client # 0
          /\ headers' = [headers EXCEPT ![client] = @ \cup {header}]
          /\ UNCHANGED <<env, session, client, flag, headerless>>
      BY <2>3 DEF Send_Header, Goto
    <3>2. sender'[s] = next
      BY <3>1, SessionFunctions
    <3>3. headers'[client] = headers[client] \cup {header}
      BY <3>1 DEF TypeInv, TypeOK, Sessions
    <3> QED BY <2>1, <2>3, <3>1, <3>2, <3>3 DEF HeadersInv
  <2>4. CASE Send_Packet(s)
    <3>1. /\ sender[s] = "send" /\ sender'[s] = "wait" /\ client # 0
          /\ UNCHANGED <<env, session, client, flag, headers>>
          /\ {"audio", "video"} \subseteq headers[client] => headerless' = headerless
      BY <2>4, SessionFunctions DEF Send_Packet, Goto
    <3> QED BY <2>1, <3>1 DEF HeadersInv
  <2>5. CASE \/ Send_Wait(s) \/ Send_CheckStop(s) \/ Send_GetNextPacket(s)
             \/ Send_Shutdown(s) \/ Send_CheckHeaders(s) \/ Send_Crash(s)
             \/ Send_EndCapture(s) \/ Send_FreePackets(s)
             \/ Send_ResetEvent(s) \/ Send_Inactive(s)
    <3>1. UNCHANGED <<env, session, client, flag, headers, headerless>>
      BY <2>5 DEF Send_Wait, Send_CheckStop, Send_GetNextPacket, Send_Shutdown,
         Send_CheckHeaders, Send_Crash, Send_EndCapture, Send_FreePackets,
         Send_ResetEvent, Send_Inactive, TellStopped
    <3>2. \/ sender'[session] \notin {"video", "extra", "send"}
          \/ flag /\ sender'[session] # "video"
      BY <2>1, <2>5, SessionFunctions DEF Goto, Send_Wait, Send_CheckStop,
         Send_GetNextPacket, Send_Shutdown, Send_CheckHeaders, Send_Crash,
         Send_EndCapture, Send_FreePackets, Send_ResetEvent, Send_Inactive
    <3> QED BY <1>1, <3>1, <3>2
  <2> QED BY <1>6, <2>2, <2>3, <2>4, <2>5 DEF SendThread
<1>7. ASSUME NEW s \in Sessions, ReceiveLoop(s) PROVE HeadersInv'
  <2>1. s = session /\ session > 0
    BY <1>7, OnlyPresent
  <2>2. UNCHANGED <<env, session, sender, headers, headerless>>
    BY <1>7 DEF ReceiveLoop, Loop_Open, Loop_Start, Loop_Test, Loop_Sleep, Loop_Stop,
       Loop_ResetFlag
  <2>3. \/ UNCHANGED <<client, flag>>
        \/ client' = 0
        \/ ~flag' /\ sender[session] \notin {"video", "extra", "send"}
    <3>1. CASE Loop_Start(s)
      BY <2>1, <3>1 DEF Loop_Start, NetInv, Unflagged
    <3>2. CASE Loop_ResetFlag(s)
      BY <2>1, <3>2 DEF Loop_ResetFlag, NetInv, Unconnected
    <3> QED BY <1>7, <3>1, <3>2 DEF ReceiveLoop, Loop_Open, Loop_Test, Loop_Sleep, Loop_Stop
  <2> QED BY <2>2, <2>3 DEF HeadersInv
<1>8. CASE UNCHANGED vars
  BY <1>1, <1>8 DEF vars
<1> QED BY <1>2, <1>3, <1>4, <1>5, <1>6, <1>7, <1>8 DEF Next

(* No step queues or hands out a packet of another session.                 *)
LEMMA PacketsStep ==
  ASSUME TypeInv, LifeInv, PacketsInv, PatientCaller, [Next]_vars
  PROVE  PacketsInv'
<1> USE DEF flags, net, obs, feed, call
<1> DEFINE Idle == {"none", "reset", "inactive", "done"}
<1>0. env' = env
  <2>1. CASE Start \/ \E forced \in BOOLEAN : Stop_Begin(forced)
    BY <2>1 DEF Start, Stop_Begin
  <2>2. CASE StopCall \/ Data_Begin \/ Callback
    BY <2>2 DEF StopCall, Stop_SetTime, Stop_Check, Stop_Signal, Stop_Post, Data_Begin,
       Callback, Data_Add, Data_Post, Obs_Detach, TellStopped
  <2>3. ASSUME NEW s \in Sessions, Connect(s) PROVE env' = env
    BY <2>3 DEF Connect, Connect_CreateLoop, Connect_ResetSemaphore, Connect_CreateSender,
       Connect_Connected, Connect_Activate, Connect_BeginCapture
  <2>4. ASSUME NEW s \in Sessions, SendThread(s) PROVE env' = env
    BY <2>4 DEF SendThread, Send_Wait, Send_CheckStop, Send_GetNextPacket, Send_Shutdown,
       Send_CheckHeaders, Send_Crash, Send_Header, Send_ExtraHeaders, Send_Packet,
       Send_EndCapture, Send_FreePackets, Send_ResetEvent, Send_Inactive, TellStopped
  <2>5. ASSUME NEW s \in Sessions, ReceiveLoop(s) PROVE env' = env
    BY <2>5 DEF ReceiveLoop, Loop_Open, Loop_Start, Loop_Test, Loop_Sleep, Loop_Stop,
       Loop_ResetFlag
  <2>6. CASE UNCHANGED vars
    BY <2>6 DEF vars
  <2> QED BY <2>1, <2>2, <2>3, <2>4, <2>5, <2>6 DEF Next
<1> SUFFICES ASSUME ~env.late PROVE PacketsInv'
  BY <1>0 DEF PacketsInv
<1>1. /\ \A i \in DOMAIN queue : queue[i] = session
      /\ \A s \in Sessions : hand[s] \in {0, s}
      /\ session = 0 => queue = <<>>
      /\ session > 0 /\ (connector[session] # "done" \/ sender[session] \in Idle)
           => queue = <<>>
  BY DEF PacketsInv
<1>2. ASSUME UNCHANGED <<session, queue>>,
             hand' = hand \/ \E s \in Sessions : hand' = [hand EXCEPT ![s] = 0],
             session > 0 =>
               \/ /\ connector'[session] = "done" \/ connector[session] # "done"
                  /\ sender'[session] \notin Idle \/ sender[session] \in Idle
               \/ connector[session] # "done"
      PROVE  PacketsInv'
  <2>1. \A s \in Sessions : hand'[s] \in {0, s}
    BY <1>1, <1>2, SessionFunctions
  <2> QED BY <1>1, <1>2, <2>1 DEF PacketsInv
<1>3. CASE Start
  <2>1. /\ session' = session + 1 /\ session \in Nat /\ UNCHANGED <<queue, hand>>
        /\ session > 0 => session \in Sessions /\ Returned(session)
    BY <1>3, SessionFunctions DEF Start
  <2>2. queue = <<>>
    BY <1>1, <2>1 DEF Returned
  <2> QED BY <1>1, <2>1, <2>2 DEF PacketsInv
<1>4. ASSUME NEW forced \in BOOLEAN, Stop_Begin(forced) PROVE PacketsInv'
  BY <1>2, <1>4 DEF Stop_Begin
<1>5. CASE StopCall \/ Data_Begin \/ Data_Post \/ Obs_Detach
  BY <1>2, <1>5 DEF StopCall, Stop_SetTime, Stop_Check, Stop_Signal, Stop_Post,
     Data_Begin, Data_Post, Obs_Detach
<1>6. CASE Data_Add
  <2>1. fed # 0 /\ queue' = Append(queue, fed)
        /\ UNCHANGED <<session, connector, sender, hand>>
    BY <1>6 DEF Data_Add, TypeInv, Fed
  <2>2. session > 0 /\ session \in Sessions /\ Present(session)
    BY <2>1, SessionFunctions DEF LifeInv, Quiet
  <2>3. connector[session] = "done" /\ Running(session)
    BY <2>1, <2>2 DEF Present, Opening, Failed, Quiet, Ending
  <2>4. fed = session /\ sender[session] \notin Idle
    BY <2>3 DEF Running, InLoop
  <2>5. queue \in Seq(Sessions) /\ session \in Sessions /\ queue' = Append(queue, session)
    BY <2>1, <2>2, <2>4 DEF TypeInv, TypeOK
  <2>6. \A i \in DOMAIN queue' : queue'[i] = session
    BY <1>1, <2>5, AppendProperties
  <2> QED BY <1>1, <2>1, <2>2, <2>3, <2>4, <2>6 DEF PacketsInv
<1>7. ASSUME NEW s \in Sessions, Connect(s) PROVE PacketsInv'
  <2>1. s = session /\ session > 0 /\ connector[s] # "done" /\ UNCHANGED <<session, queue, hand>>
    BY <1>7, OnlyPresent DEF Connect, Connect_CreateLoop, Connect_ResetSemaphore,
       Connect_CreateSender, Connect_Connected, Connect_Activate, Connect_BeginCapture
  <2> QED BY <1>2, <2>1
<1>8. ASSUME NEW s \in Sessions, SendThread(s) PROVE PacketsInv'
  <2>1. s = session /\ session > 0 /\ session' = session
    BY <1>8, OnlyPresent DEF SendThread, Send_Wait, Send_CheckStop, Send_GetNextPacket,
       Send_Shutdown, Send_CheckHeaders, Send_Crash, Send_Header, Send_ExtraHeaders,
       Send_Packet, Send_EndCapture, Send_FreePackets, Send_ResetEvent, Send_Inactive
  <2>2. CASE Send_GetNextPacket(s)
    <3>1. CASE queue = <<>>
      BY <1>2, <2>1, <2>2, <3>1, SessionFunctions DEF Send_GetNextPacket, Goto
    <3>2. CASE queue # <<>>
      <4> DEFINE next == Head(queue)
                 left == Tail(queue)
      <4>1. /\ sender[s] = "get"
            /\ hand' = [hand EXCEPT ![s] = next]
            /\ queue' = left
            /\ sender' = [sender EXCEPT ![s] = "hand"]
            /\ UNCHANGED connector
        BY <2>2, <3>2 DEF Send_GetNextPacket, Goto
      <4>2. queue \in Seq(Sessions) /\ Len(queue) > 0 /\ DOMAIN queue = 1..Len(queue)
        BY <3>2 DEF TypeInv, TypeOK
      <4>3. next = session
        BY <1>1, <4>2
      <4>4. \A i \in DOMAIN left : left[i] = session
        BY <1>1, <4>2, HeadTailProperties
      <4> HIDE DEF next, left
      <4>5. \A t \in Sessions : hand'[t] \in {0, t}
        BY <1>1, <2>1, <4>1, <4>3, SessionFunctions
      <4>6. connector[session] = "done"
        BY <1>1, <2>1, <3>2
      <4> QED BY <2>1, <4>1, <4>4, <4>5, <4>6, SessionFunctions DEF PacketsInv
    <3> QED BY <3>1, <3>2
  <2>3. CASE Send_FreePackets(s)
    BY <1>1, <2>1, <2>3 DEF Send_FreePackets, PacketsInv
  <2>4. CASE \/ Send_Wait(s) \/ Send_CheckStop(s) \/ Send_Shutdown(s)
             \/ Send_CheckHeaders(s) \/ Send_Crash(s) \/ Send_ExtraHeaders(s)
             \/ Send_Packet(s) \/ Send_EndCapture(s) \/ Send_ResetEvent(s)
             \/ Send_Inactive(s)
    BY <1>2, <2>1, <2>4, SessionFunctions DEF Goto, Send_Wait, Send_CheckStop,
       Send_Shutdown, Send_CheckHeaders, Send_Crash, Send_ExtraHeaders, Send_Packet,
       Send_EndCapture, Send_ResetEvent, Send_Inactive
  <2>5. CASE Send_Header(s, "audio", "video") \/ Send_Header(s, "video", "extra")
    BY <1>2, <2>1, <2>5, SessionFunctions DEF Goto, Send_Header
  <2> QED BY <1>8, <2>2, <2>3, <2>4, <2>5 DEF SendThread
<1>9. ASSUME NEW s \in Sessions, ReceiveLoop(s) PROVE PacketsInv'
  BY <1>2, <1>9 DEF ReceiveLoop, Loop_Open, Loop_Start, Loop_Test, Loop_Sleep, Loop_Stop,
     Loop_ResetFlag
<1>10. CASE UNCHANGED vars
  BY <1>2, <1>10 DEF vars
<1> QED BY <1>3, <1>4, <1>5, <1>6, <1>7, <1>8, <1>9, <1>10 DEF Next, Callback

(* All of it holds of a patient caller from the first state on.             *)
LEMMA SessionInvariant ==
  ASSUME PatientCaller
  PROVE  Spec => [](TypeInv /\ SessionInv)
<1>1. Init => SessionInv
  BY LifeInit DEF Init, SessionInv, NetInv, HeadersInv, PacketsInv
<1>2. TypeInv /\ SessionInv /\ [Next]_vars => SessionInv'
  BY LifeStep, NetStep, HeadersStep, PacketsStep DEF SessionInv
<1> QED BY <1>1, <1>2, TypeInit, TypeStep, PTL DEF Spec

(* Under a patient caller no session dies with libobs still feeding it, and *)
(* none ends without a stop.                                                *)
THEOREM CaptureRunsCorrect ==
  ASSUME PatientCaller
  PROVE  Spec => []CaptureRuns
<1>1. TypeInv /\ SessionInv => CaptureRuns
  <2> SUFFICES ASSUME TypeInv, LifeInv, capture # 0, ~crashed
               PROVE  /\ active
                      /\ InLoop(capture) \/ sender[capture] = "end"
                      /\ sender[capture] = "end" => stopEvent
    BY DEF SessionInv, CaptureRuns
  <2>1. session \in Sessions /\ Present(session)
    BY SessionFunctions DEF LifeInv, Quiet
  <2>2. Running(session)
    BY <2>1 DEF Present, Opening, Failed, Quiet, Ending
  <2> QED BY <2>2 DEF Running
<1> QED BY <1>1, SessionInvariant, PTL

(* Under a patient caller nothing of an earlier session is left over when   *)
(* the next one opens.                                                      *)
THEOREM CleanStartCorrect ==
  ASSUME PatientCaller
  PROVE  Spec => []CleanStart
<1>1. TypeInv /\ SessionInv => CleanStart
  <2> SUFFICES ASSUME TypeInv, LifeInv, NEW s \in Sessions,
                      connector[s] \in {"loop", "reset", "spawn", "connected", "activate"}
               PROVE  /\ ~stopEvent /\ ~active /\ capture = 0
                      /\ \A t \in Sessions \ {s} : sender[t] \in {"none", "done", "crashed"}
    BY DEF SessionInv, CleanStart
  <2>1. session \in Nat /\ s \in Nat /\ Sessions \subseteq Nat
    BY SessionFunctions DEF Sessions
  <2>2. s = session
    BY <2>1 DEF LifeInv, Future, Past, Returned
  <2>3. Opening(s)
    BY <2>2 DEF LifeInv, Present
  <2>4. ASSUME NEW t \in Sessions \ {s} PROVE sender[t] \in {"none", "done", "crashed"}
    BY <2>1, <2>2 DEF LifeInv, Future, Past, Returned
  <2> QED BY <2>3, <2>4 DEF Opening
<1> QED BY <1>1, SessionInvariant, PTL

(* Under a patient caller, and if libobs makes no late call, each session   *)
(* sends its own packets only.                                              *)
THEOREM FreshPacketsCorrect ==
  ASSUME PatientCaller
  PROVE  Spec => []FreshPackets
<1>1. TypeInv /\ SessionInv => FreshPackets
  BY DEF SessionInv, PacketsInv, FreshPackets
<1> QED BY <1>1, SessionInvariant, PTL

(* Under a patient caller, and if no header fails, no connection gets       *)
(* stream data before both headers.                                         *)
THEOREM HeadersCorrect ==
  ASSUME PatientCaller
  PROVE  Spec => []HeadersUnlessFailed
<1>1. TypeInv /\ SessionInv => HeadersUnlessFailed
  BY DEF SessionInv, HeadersInv, HeadersUnlessFailed, HeadersFirst
<1> QED BY <1>1, SessionInvariant, PTL
-----------------------------------------------------------------------------
(* What libobs sees.                                                        *)

(* An action that neither starts a session nor tells of one, nor touches    *)
(* the capture and the stop event, is none of the output's.                 *)
LEMMA UnseenStep ==
  ASSUME UNCHANGED <<session, told, capture, stopEvent>>
  PROVE  UNCHANGED Output!vars
BY DEF Output!vars, Stage

(* The connect thread of the session that connects begins the capture.      *)
LEMMA ConnectSeen ==
  ASSUME TypeInv, LifeInv, NEW s \in Sessions, Connect(s)
  PROVE  Output!BeginCapture \/ UNCHANGED Output!vars
<1> USE DEF flags, obs
<1>1. CASE Connect_BeginCapture(s)
  <2>1. s = session /\ session > 0 /\ Opening(s)
    BY <1>1, OnlyPresent DEF Connect_BeginCapture, Present
  <2>2. /\ capture = 0 /\ capture' = session /\ told[session] = 0
        /\ ~stopEvent /\ UNCHANGED <<session, told, stopEvent>>
    BY <1>1, <2>1 DEF Opening, Connect_BeginCapture
  <2>3. Stage = "connecting" /\ Stage' = "capturing"
    BY <2>1, <2>2 DEF Stage
  <2> QED BY <2>2, <2>3 DEF Output!BeginCapture
<1>2. CASE ~Connect_BeginCapture(s)
  <2>1. UNCHANGED <<session, told, capture, stopEvent>>
    BY <1>2 DEF Connect, Connect_CreateLoop, Connect_ResetSemaphore, Connect_CreateSender,
       Connect_Connected, Connect_Activate
  <2> QED BY <2>1, UnseenStep
<1> QED BY <1>1, <1>2

(* The send thread ends the session it was asked to stop, and cleans up     *)
(* unseen.                                                                  *)
LEMMA SendSeen ==
  ASSUME TypeInv, LifeInv, NEW s \in Sessions, SendThread(s)
  PROVE  Output!TellStopped \/ UNCHANGED Output!vars
<1> USE DEF flags, obs
<1>1. CASE Send_EndCapture(s)
  <2>1. s = session /\ session > 0 /\ Running(s)
    BY <1>1, OnlyPresent DEF Send_EndCapture, Present, Opening, Failed, Ending
  <2>2. /\ capture = session /\ told[session] = 0 /\ stopEvent
        /\ told' = [told EXCEPT ![session] = @ + 1]
        /\ UNCHANGED <<session, stopEvent>>
    BY <1>1, <2>1 DEF Running, Send_EndCapture, TellStopped
  <2>3. told'[session] = 1
    BY <2>1, <2>2, SessionFunctions
  <2>4. Stage = "stopping" /\ Stage' = "off"
    BY <2>1, <2>2, <2>3 DEF Stage
  <2> QED BY <2>2, <2>4 DEF Output!TellStopped
<1>2. CASE Send_ResetEvent(s)
  <2>1. s = session /\ Ending(s)
    BY <1>2, OnlyPresent DEF Send_ResetEvent, Present, Opening, Failed, Running, InLoop
  <2>2. told[session] = 1 /\ UNCHANGED <<session, told, capture>>
    BY <1>2, <2>1 DEF Ending, Send_ResetEvent
  <2>3. Stage = "off" /\ Stage' = "off"
    BY <2>2 DEF Stage
  <2> QED BY <2>2, <2>3 DEF Output!vars
<1>3. CASE ~Send_EndCapture(s) /\ ~Send_ResetEvent(s)
  <2>1. UNCHANGED <<session, told, capture, stopEvent>>
    BY <1>3 DEF SendThread, Send_Wait, Send_CheckStop, Send_GetNextPacket, Send_Shutdown,
       Send_CheckHeaders, Send_Crash, Send_Header, Send_ExtraHeaders, Send_Packet,
       Send_FreePackets, Send_Inactive
  <2> QED BY <2>1, UnseenStep
<1> QED BY <1>1, <1>2, <1>3

(* A stop asks a session that captures, and tells at once of the end of one *)
(* that could not be connected.                                             *)
LEMMA StopSeen ==
  ASSUME TypeInv, LifeInv, StopCall
  PROVE  Output!AskToStop \/ Output!TellStopped \/ UNCHANGED Output!vars
<1> USE DEF flags, obs
<1>1. ASSUME ui \in {"check", "signal"}
      PROVE  /\ session \in Sessions /\ session > 0 /\ Present(session)
             /\ ~Opening(session) /\ told[session] = 0 /\ ~stopEvent
             /\ ui = "signal" => active
  BY <1>1, SessionFunctions DEF LifeInv, StopUnderWay, Opening
<1>2. CASE Stop_Check /\ active
  <2>1. UNCHANGED <<session, told, capture, stopEvent>>
    BY <1>2 DEF Stop_Check
  <2> QED BY <2>1, UnseenStep
<1>3. CASE Stop_Check /\ ~active
  <2>1. /\ session > 0 /\ session \in Sessions /\ Failed(session) /\ told[session] = 0
    BY <1>1, <1>3 DEF Stop_Check, Present, Running, Ending
  <2>2. /\ capture = 0 /\ told' = [told EXCEPT ![session] = @ + 1]
        /\ UNCHANGED session
    BY <1>3, <2>1 DEF Failed, Quiet, Stop_Check, TellStopped
  <2>3. told'[session] = 1
    BY <2>1, <2>2, SessionFunctions
  <2>4. Stage = "connecting" /\ Stage' = "off"
    BY <2>1, <2>2, <2>3 DEF Stage
  <2> QED BY <2>2, <2>4 DEF Output!TellStopped
<1>4. CASE Stop_Signal
  <2>1. /\ session > 0 /\ Running(session) /\ told[session] = 0 /\ ~stopEvent
    BY <1>1, <1>4 DEF Stop_Signal, Present, Failed, Quiet, Ending
  <2>2. /\ capture = session /\ stopEvent'
        /\ UNCHANGED <<session, told, capture>>
    BY <1>4, <2>1 DEF Running, Stop_Signal
  <2>3. Stage = "capturing" /\ Stage' = "stopping"
    BY <2>1, <2>2 DEF Stage
  <2> QED BY <2>2, <2>3 DEF Output!AskToStop
<1>5. CASE Stop_SetTime \/ Stop_Post
  <2>1. UNCHANGED <<session, told, capture, stopEvent>>
    BY <1>5 DEF Stop_SetTime, Stop_Post
  <2> QED BY <2>1, UnseenStep
<1> QED BY <1>2, <1>3, <1>4, <1>5 DEF StopCall

(* A session starts when libobs knows of the end of the last.               *)
LEMMA StartSeen ==
  ASSUME TypeInv, LifeInv, Start
  PROVE  Output!Start
<1> USE DEF obs
<1>1. session \in Nat /\ session + 1 \in Sessions
  BY SessionFunctions DEF Start, Sessions
<1>2. /\ session' = session + 1 /\ capture' = 0
      /\ UNCHANGED told
  BY DEF Start
<1>3. told[session + 1] = 0
  BY <1>1 DEF LifeInv, Future
<1>4. Stage = "off"
  BY <1>1 DEF Stage, Start
<1>5. Stage' = "connecting"
  BY <1>1, <1>2, <1>3 DEF Stage
<1> QED BY <1>1, <1>2, <1>4, <1>5 DEF Output!Start

(* Under a patient caller every step of the threads is a step of the        *)
(* sessions that libobs sees, or none of them.                              *)
THEOREM OutputCorrect ==
  ASSUME PatientCaller
  PROVE  Spec => SessionsInTurn
<1>1. Init => Output!Init
  BY DEF Init, Output!Init, Stage
<1>2. TypeInv /\ SessionInv /\ [Next]_vars
        => [\/ Output!Start \/ Output!BeginCapture
            \/ Output!AskToStop \/ Output!TellStopped]_(Output!vars)
  <2> SUFFICES ASSUME TypeInv, LifeInv, [Next]_vars
               PROVE  \/ Output!Start \/ Output!BeginCapture
                      \/ Output!AskToStop \/ Output!TellStopped
                      \/ UNCHANGED Output!vars
    BY DEF SessionInv
  <2>1. ASSUME NEW forced \in BOOLEAN, Stop_Begin(forced)
        PROVE  UNCHANGED Output!vars
    BY <2>1, UnseenStep DEF Stop_Begin, flags, obs
  <2>2. CASE Data_Begin \/ Callback
    <3>1. UNCHANGED <<session, told, capture, stopEvent>>
      BY <2>2 DEF Data_Begin, Callback, Data_Add, Data_Post, Obs_Detach, flags, obs
    <3> QED BY <3>1, UnseenStep
  <2>3. ASSUME NEW s \in Sessions, ReceiveLoop(s)
        PROVE  UNCHANGED Output!vars
    <3>1. UNCHANGED <<session, told, capture, stopEvent>>
      BY <2>3 DEF ReceiveLoop, Loop_Open, Loop_Start, Loop_Test, Loop_Sleep, Loop_Stop,
         Loop_ResetFlag, flags, obs
    <3> QED BY <3>1, UnseenStep
  <2>4. CASE UNCHANGED vars
    BY <2>4, UnseenStep DEF vars, flags, obs
  <2> QED BY <2>1, <2>2, <2>3, <2>4, StartSeen, StopSeen, ConnectSeen, SendSeen DEF Next
<1> QED BY <1>1, <1>2, SessionInvariant, PTL DEF Spec, SessionsInTurn, Output!Spec
=============================================================================
