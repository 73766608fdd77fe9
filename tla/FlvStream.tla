------------------------------ MODULE FlvStream ------------------------------
(***************************************************************************)
(* The life of the FLV output: starting, stopping and starting again, and  *)
(* the threads of each session, with the connection to the central server: *)
(* plugins/hengxin-flv-outputs/flv-stream.c and flv-output-connect.cpp.    *)
(*                                                                         *)
(* Each start makes three threads: the connect thread, which makes the     *)
(* other two and begins the capture; the send thread; and the receive      *)
(* loop, which owns the connection of the global flvSender.  Nothing but   *)
(* the flags of struct flv_stream keeps them in step, so every step        *)
(* between two accesses to a flag is an action.  The packet queue is       *)
(* FlvQueue in miniature: a packet is the session it was produced in, and  *)
(* no frame is dropped.                                                    *)
(*                                                                         *)
(* libobs is external.  It starts an output that is not capturing, ends    *)
(* the capture when the output says so (obs_output_end_data_capture,       *)
(* obs_output_signal_stop) and counts the session as stopped from then on. *)
(*                                                                         *)
(* A definition named Op_Fault is Op with a fault in it, for checking that *)
(* the properties notice; no specification uses it.                        *)
(***************************************************************************)
EXTENDS Integers, Sequences, FiniteSets

CONSTANTS
  MaxSessions,     \* bound on the starts
  MaxPackets,      \* bound on the packets of all sessions
  MaxStops,        \* bound on the stops of all sessions
  PatientCaller,   \* the caller stops a connected stream only, forces no stop
                   \* that is under way, and starts again only after the
                   \* threads of the last session have returned
  Environments     \* what the surroundings may do, see Environment

(* late: libobs may call the output after the end of the capture;           *)
(* headerFails: a sequence header may be missing or fail to be sent.        *)
Environment == [late : BOOLEAN, headerFails : BOOLEAN]

ASSUME FlvStreamAssumption ==
  /\ MaxSessions \in Nat /\ MaxPackets \in Nat /\ MaxStops \in Nat
  /\ PatientCaller \in BOOLEAN
  /\ Environments \subseteq Environment

Sessions == 1..MaxSessions

VARIABLES
  env,         \* the environment of this behaviour, which stays as it is
  session,     \* the number of starts so far
  connecting, active, stopEvent,   \* the flags of struct flv_stream
  stopNow,     \* stop_ts = 0
  sem,         \* send_sem
  queue,       \* packets: for each packet the session it comes from
  connector,   \* where the connect thread of each session is
  sender,      \* where the send thread of each session is
  hand,        \* the packet each send thread holds, 0 for none
  loop,        \* where the receive loop of each session is
  client,      \* centerServerConn of flvSender: a connection, 0 for NULL
  clients,     \* the number of connections made so far
  flag,        \* mFlvHeaderFlag
  headers,     \* the sequence headers each connection was sent
  headerless,  \* connections that got stream data before their headers
  crashed,     \* a send went through a NULL connection
  capture,     \* the session libobs captures for, 0 for none
  fed,         \* the session the encoders still call the output for, 0 for none
  told,        \* how often libobs was told that each session stopped
  producer,    \* where the encoder callback is
  packets,     \* the number of packets so far
  ui, stops    \* where hengxin_flv_stream_stop is, and its calls so far

flags == <<connecting, active, stopEvent, stopNow>>
net == <<client, clients, flag, headers, headerless, crashed>>
obs == <<capture, fed, told, env>>
feed == <<producer, packets>>
call == <<ui, stops>>
vars == <<session, flags, sem, queue, connector, sender, hand, loop, net, obs,
          feed, call>>

Init ==
  /\ env \in Environments
  /\ session = 0
  /\ connecting = FALSE /\ active = FALSE /\ stopEvent = FALSE
  /\ stopNow = TRUE
  /\ sem = 0
  /\ queue = <<>>
  /\ connector = [s \in Sessions |-> "none"]
  /\ sender = [s \in Sessions |-> "none"]
  /\ hand = [s \in Sessions |-> 0]
  /\ loop = [s \in Sessions |-> "none"]
  /\ client = 0 /\ clients = 0
  /\ flag = FALSE
  /\ headers = [c \in Sessions |-> {}]
  /\ headerless = {}
  /\ crashed = FALSE
  /\ capture = 0 /\ fed = 0
  /\ told = [s \in Sessions |-> 0]
  /\ producer = "idle" /\ packets = 0
  /\ ui = "idle" /\ stops = 0

(* Ending the capture of session s.  Without late callbacks the encoders   *)
(* are detached at once, else some time later (Obs_Detach).                *)
TellStopped(s) ==
  /\ told' = [told EXCEPT ![s] = @ + 1]
  /\ capture' = 0
  /\ fed' = IF env.late THEN fed ELSE 0
  /\ env.late \/ producer = "idle"
  /\ UNCHANGED env

Returned(s) ==
  /\ connector[s] \in {"none", "done"}
  /\ sender[s] \in {"none", "done"}
  /\ loop[s] \in {"none", "done"}

-----------------------------------------------------------------------------
(* hengxin_flv_stream_start.                                               *)
Start ==
  /\ ui = "idle"
  /\ session < MaxSessions
  /\ capture = 0
  /\ session > 0 => told[session] > 0
  /\ PatientCaller => fed = 0 /\ \A s \in Sessions : Returned(s)
  /\ session' = session + 1
  /\ connecting' = TRUE
  /\ connector' = [connector EXCEPT ![session + 1] = "loop"]
  /\ UNCHANGED <<active, stopEvent, stopNow, sem, queue, sender, hand, loop,
                 net, obs, feed, call>>

(* connect_thread.  Either thread may fail to be created: the thread then  *)
(* returns, with connecting set and nobody told.                           *)
Connect_CreateLoop(s) ==
  /\ connector[s] = "loop"
  /\ \/ /\ loop' = [loop EXCEPT ![s] = "open"]
        /\ connector' = [connector EXCEPT ![s] = "reset"]
     \/ /\ connector' = [connector EXCEPT ![s] = "done"]
        /\ UNCHANGED loop
  /\ UNCHANGED <<session, flags, sem, queue, sender, hand, net, obs, feed, call>>

Connect_ResetSemaphore(s) ==
  /\ connector[s] = "reset"
  /\ sem' = 0
  /\ connector' = [connector EXCEPT ![s] = "spawn"]
  /\ UNCHANGED <<session, flags, queue, sender, hand, loop, net, obs, feed, call>>

Connect_CreateSender(s) ==
  /\ connector[s] = "spawn"
  /\ \/ /\ sender' = [sender EXCEPT ![s] = "wait"]
        /\ connector' = [connector EXCEPT ![s] = "connected"]
     \/ /\ connector' = [connector EXCEPT ![s] = "done"]
        /\ UNCHANGED sender
  /\ UNCHANGED <<session, flags, sem, queue, hand, loop, net, obs, feed, call>>

Connect_Connected(s) ==
  /\ connector[s] = "connected"
  /\ connecting' = FALSE
  /\ connector' = [connector EXCEPT ![s] = "activate"]
  /\ UNCHANGED <<session, active, stopEvent, stopNow, sem, queue, sender, hand,
                 loop, net, obs, feed, call>>

Connect_Activate_Missing(s) ==
  /\ connector[s] = "activate"
  /\ connector' = [connector EXCEPT ![s] = "begin"]
  /\ UNCHANGED <<session, connecting, active, stopEvent, stopNow, sem, queue, sender,
                 hand, loop, net, obs, feed, call>>

Connect_Activate(s) ==
  /\ connector[s] = "activate"
  /\ active' = TRUE
  /\ connector' = [connector EXCEPT ![s] = "begin"]
  /\ UNCHANGED <<session, connecting, stopEvent, stopNow, sem, queue, sender,
                 hand, loop, net, obs, feed, call>>

(* obs_output_begin_data_capture.                                          *)
Connect_BeginCapture(s) ==
  /\ connector[s] = "begin"
  /\ capture' = s
  /\ fed' = s
  /\ connector' = [connector EXCEPT ![s] = "done"]
  /\ UNCHANGED <<session, flags, sem, queue, sender, hand, loop, net, told,
                 env, feed, call>>

Connect(s) ==
  \/ Connect_CreateLoop(s) \/ Connect_ResetSemaphore(s)
  \/ Connect_CreateSender(s) \/ Connect_Connected(s)
  \/ Connect_Activate(s) \/ Connect_BeginCapture(s)

-----------------------------------------------------------------------------
(* hengxin_flv_stream_stop.                                                *)
Stop_Begin(forced) ==
  /\ ui = "idle"
  /\ stops < MaxStops
  /\ session > 0
  /\ told[session] = 0 \/ forced
  /\ PatientCaller => /\ connector[session] = "done"
                      /\ told[session] = 0
                      /\ ~stopEvent
  /\ forced \/ ~stopEvent
  /\ stops' = stops + 1
  /\ ui' = IF forced THEN "joinNow" ELSE "join"
  /\ UNCHANGED <<session, flags, sem, queue, connector, sender, hand, loop, net,
                 obs, feed>>

(* While connecting, the connect thread is joined first.                   *)
Stop_SetTime ==
  /\ ui \in {"join", "joinNow"}
  /\ connecting => connector[session] = "done"
  /\ stopNow' = (ui = "joinNow")
  /\ ui' = "check"
  /\ UNCHANGED <<session, connecting, active, stopEvent, sem, queue, connector,
                 sender, hand, loop, net, obs, feed, stops>>

(* A stream that is not active tells libobs at once.                       *)
Stop_Check ==
  /\ ui = "check"
  /\ IF active
     THEN ui' = "signal" /\ UNCHANGED obs
     ELSE ui' = "idle" /\ TellStopped(session)
  /\ UNCHANGED <<session, flags, sem, queue, connector, sender, hand, loop, net,
                 feed, stops>>

Stop_Signal ==
  /\ ui = "signal"
  /\ stopEvent' = TRUE
  /\ ui' = IF stopNow THEN "post" ELSE "idle"
  /\ UNCHANGED <<session, connecting, active, stopNow, sem, queue, connector,
                 sender, hand, loop, net, obs, feed, stops>>

Stop_Post ==
  /\ ui = "post"
  /\ sem' = sem + 1
  /\ ui' = "idle"
  /\ UNCHANGED <<session, flags, queue, connector, sender, hand, loop, net, obs,
                 feed, stops>>

StopCall == Stop_SetTime \/ Stop_Check \/ Stop_Signal \/ Stop_Post

-----------------------------------------------------------------------------
(* The encoder callback.                                                   *)
Data_Begin ==
  /\ producer = "idle"
  /\ packets < MaxPackets
  /\ fed # 0
  /\ active
  /\ producer' = "checked"
  /\ packets' = packets + 1
  /\ UNCHANGED <<session, flags, sem, queue, connector, sender, hand, loop, net,
                 obs, call>>

Data_Add ==
  /\ producer = "checked"
  /\ queue' = Append(queue, fed)
  /\ producer' = "post"
  /\ UNCHANGED <<session, flags, sem, connector, sender, hand, loop, net, obs,
                 packets, call>>

Data_Post ==
  /\ producer = "post"
  /\ sem' = sem + 1
  /\ producer' = "idle"
  /\ UNCHANGED <<session, flags, queue, connector, sender, hand, loop, net, obs,
                 packets, call>>

(* libobs detaches the encoders some time after the end of the capture.    *)
Obs_Detach ==
  /\ capture = 0 /\ fed # 0
  /\ producer = "idle"
  /\ fed' = 0
  /\ UNCHANGED <<session, flags, sem, queue, connector, sender, hand, loop, net,
                 capture, told, env, feed, call>>

Callback == Data_Add \/ Data_Post \/ Obs_Detach

-----------------------------------------------------------------------------
(* send_thread.                                                            *)
Goto(s, pc) == sender' = [sender EXCEPT ![s] = pc]

Send_Wait(s) ==
  /\ sender[s] = "wait"
  /\ sem > 0
  /\ sem' = sem - 1
  /\ Goto(s, "woken")
  /\ UNCHANGED <<session, flags, queue, connector, hand, loop, net, obs, feed, call>>

Send_CheckStop(s) ==
  /\ sender[s] = "woken"
  /\ Goto(s, IF stopEvent /\ stopNow THEN "end" ELSE "get")
  /\ UNCHANGED <<session, flags, sem, queue, connector, hand, loop, net, obs,
                 feed, call>>

Send_GetNextPacket(s) ==
  /\ sender[s] = "get"
  /\ IF queue = <<>>
     THEN Goto(s, "wait") /\ UNCHANGED <<queue, hand>>
     ELSE /\ hand' = [hand EXCEPT ![s] = Head(queue)]
          /\ queue' = Tail(queue)
          /\ Goto(s, "hand")
  /\ UNCHANGED <<session, flags, sem, connector, loop, net, obs, feed, call>>

Send_Shutdown_Unasked(s) ==
  /\ sender[s] = "hand"
  /\ hand' = [hand EXCEPT ![s] = 0]
  /\ Goto(s, "end")
  /\ UNCHANGED <<session, flags, sem, queue, connector, loop, net, obs, feed, call>>

(* can_shutdown_stream: always after a forced stop, else when the time has *)
(* come.                                                                   *)
Send_Shutdown(s) ==
  /\ sender[s] = "hand"
  /\ stopEvent
  /\ hand' = [hand EXCEPT ![s] = 0]
  /\ Goto(s, "end")
  /\ UNCHANGED <<session, flags, sem, queue, connector, loop, net, obs, feed, call>>

(* send_flv_headers: the headers are sent unless the flag says they were.  *)
Send_CheckHeaders(s) ==
  /\ sender[s] = "hand"
  /\ ~(stopEvent /\ stopNow)
  /\ Goto(s, IF flag THEN "send" ELSE "audio")
  /\ UNCHANGED <<session, flags, sem, queue, connector, hand, loop, net, obs,
                 feed, call>>

(* SendStream goes through the connection without looking whether there is *)
(* one.                                                                    *)
Send_Crash(s) ==
  /\ sender[s] \in {"audio", "video", "extra", "send"}
  /\ client = 0
  /\ crashed' = TRUE
  /\ Goto(s, "crashed")
  /\ UNCHANGED <<session, flags, sem, queue, connector, hand, loop, client,
                 clients, flag, headers, headerless, obs, feed, call>>

(* SendConfStream.  The headers go out one by one; one that fails ends the *)
(* attempt with the flag unset, and the packet is sent all the same.       *)
Send_Header(s, header, next) ==
  /\ sender[s] = header
  /\ client # 0
  /\ \/ /\ headers' = [headers EXCEPT ![client] = @ \cup {header}]
        /\ Goto(s, next)
     \/ /\ env.headerFails
        /\ Goto(s, "send")
        /\ UNCHANGED headers
  /\ UNCHANGED <<session, flags, sem, queue, connector, hand, loop, client,
                 clients, flag, headerless, crashed, obs, feed, call>>

(* Further audio headers are sent if next, which is never initialised,     *)
(* happens to be true; only the last of them decides about the flag.       *)
Send_ExtraHeaders(s) ==
  /\ sender[s] = "extra"
  /\ client # 0
  /\ flag' \in IF env.headerFails THEN {TRUE, flag} ELSE {TRUE}
  /\ Goto(s, "send")
  /\ UNCHANGED <<session, flags, sem, queue, connector, hand, loop, client,
                 clients, headers, headerless, crashed, obs, feed, call>>

Send_Packet(s) ==
  /\ sender[s] = "send"
  /\ client # 0
  /\ headerless' = IF {"audio", "video"} \subseteq headers[client]
                   THEN headerless ELSE headerless \cup {client}
  /\ hand' = [hand EXCEPT ![s] = 0]
  /\ Goto(s, "wait")
  /\ UNCHANGED <<session, flags, sem, queue, connector, loop, client, clients,
                 flag, headers, crashed, obs, feed, call>>

(* The end of the thread: libobs is told either way.                       *)
Send_EndCapture(s) ==
  /\ sender[s] = "end"
  /\ TellStopped(s)
  /\ Goto(s, "free")
  /\ UNCHANGED <<session, flags, sem, queue, connector, hand, loop, net, feed, call>>

Send_FreePackets_Missing(s) ==
  /\ sender[s] = "free"
  /\ Goto(s, "reset")
  /\ UNCHANGED <<session, flags, sem, queue, connector, hand, loop, net, obs, feed, call>>

Send_FreePackets(s) ==
  /\ sender[s] = "free"
  /\ queue' = <<>>
  /\ Goto(s, "reset")
  /\ UNCHANGED <<session, flags, sem, connector, hand, loop, net, obs, feed, call>>

Send_ResetEvent_Missing(s) ==
  /\ sender[s] = "reset"
  /\ Goto(s, "inactive")
  /\ UNCHANGED <<session, connecting, active, stopEvent, stopNow, sem, queue, connector,
                 hand, loop, net, obs, feed, call>>

Send_ResetEvent(s) ==
  /\ sender[s] = "reset"
  /\ stopEvent' = FALSE
  /\ Goto(s, "inactive")
  /\ UNCHANGED <<session, connecting, active, stopNow, sem, queue, connector,
                 hand, loop, net, obs, feed, call>>

Send_Inactive_Missing(s) ==
  /\ sender[s] = "inactive"
  /\ Goto(s, "done")
  /\ UNCHANGED <<session, connecting, active, stopEvent, stopNow, sem, queue, connector,
                 hand, loop, net, obs, feed, call>>

Send_Inactive(s) ==
  /\ sender[s] = "inactive"
  /\ active' = FALSE
  /\ Goto(s, "done")
  /\ UNCHANGED <<session, connecting, stopEvent, stopNow, sem, queue, connector,
                 hand, loop, net, obs, feed, call>>

SendThread(s) ==
  \/ Send_Wait(s) \/ Send_CheckStop(s) \/ Send_GetNextPacket(s)
  \/ Send_Shutdown(s) \/ Send_CheckHeaders(s) \/ Send_Crash(s)
  \/ Send_Header(s, "audio", "video") \/ Send_Header(s, "video", "extra")
  \/ Send_ExtraHeaders(s) \/ Send_Packet(s)
  \/ Send_EndCapture(s) \/ Send_FreePackets(s) \/ Send_ResetEvent(s)
  \/ Send_Inactive(s)

-----------------------------------------------------------------------------
(* The receive loop, create_flv_output_connect_thread.                     *)

(* It gives up when its configuration cannot be read.                      *)
Loop_Open(s) ==
  /\ loop[s] = "open"
  /\ \E pc \in {"start", "done"} : loop' = [loop EXCEPT ![s] = pc]
  /\ UNCHANGED <<session, flags, sem, queue, connector, sender, hand, net, obs,
                 feed, call>>

(* FLVSender::Start makes a connection unless there is one; whether the    *)
(* server answers changes nothing.                                         *)
Loop_Start(s) ==
  /\ loop[s] = "start"
  /\ IF client = 0
     THEN client' = clients + 1 /\ clients' = clients + 1
     ELSE UNCHANGED <<client, clients>>
  /\ loop' = [loop EXCEPT ![s] = "test"]
  /\ UNCHANGED <<session, flags, sem, queue, connector, sender, hand, flag,
                 headers, headerless, crashed, obs, feed, call>>

Loop_Test(s) ==
  /\ loop[s] = "test"
  /\ loop' = [loop EXCEPT ![s] = IF active THEN "sleep" ELSE "stop"]
  /\ UNCHANGED <<session, flags, sem, queue, connector, sender, hand, net, obs,
                 feed, call>>

Loop_Sleep(s) ==
  /\ loop[s] = "sleep"
  /\ loop' = [loop EXCEPT ![s] = "test"]
  /\ UNCHANGED <<session, flags, sem, queue, connector, sender, hand, net, obs,
                 feed, call>>

(* FLVSender::Reset, in two steps.                                         *)
Loop_Stop(s) ==
  /\ loop[s] = "stop"
  /\ client' = 0
  /\ loop' = [loop EXCEPT ![s] = "flag"]
  /\ UNCHANGED <<session, flags, sem, queue, connector, sender, hand, clients,
                 flag, headers, headerless, crashed, obs, feed, call>>

Loop_ResetFlag_Missing(s) ==
  /\ loop[s] = "flag"
  /\ loop' = [loop EXCEPT ![s] = "done"]
  /\ UNCHANGED <<session, flags, sem, queue, connector, sender, hand, client, flag,
                 clients, headers, headerless, crashed, obs, feed, call>>

Loop_ResetFlag(s) ==
  /\ loop[s] = "flag"
  /\ flag' = FALSE
  /\ loop' = [loop EXCEPT ![s] = "done"]
  /\ UNCHANGED <<session, flags, sem, queue, connector, sender, hand, client,
                 clients, headers, headerless, crashed, obs, feed, call>>

ReceiveLoop(s) ==
  \/ Loop_Open(s) \/ Loop_Start(s) \/ Loop_Test(s) \/ Loop_Sleep(s)
  \/ Loop_Stop(s) \/ Loop_ResetFlag(s)

-----------------------------------------------------------------------------
Next ==
  \/ Start
  \/ \E forced \in BOOLEAN : Stop_Begin(forced)
  \/ StopCall
  \/ Data_Begin
  \/ Callback
  \/ \E s \in Sessions : Connect(s) \/ SendThread(s) \/ ReceiveLoop(s)

Spec == Init /\ [][Next]_vars

FairSpec ==
  /\ Spec
  /\ WF_vars(StopCall)
  /\ WF_vars(Callback)
  /\ \A s \in Sessions : WF_vars(Connect(s)) /\ WF_vars(SendThread(s))
                         /\ WF_vars(ReceiveLoop(s))

-----------------------------------------------------------------------------
TypeOK ==
  /\ env \in Environments
  /\ session \in 0..MaxSessions
  /\ connecting \in BOOLEAN /\ active \in BOOLEAN
  /\ stopEvent \in BOOLEAN /\ stopNow \in BOOLEAN
  /\ sem \in Nat
  /\ queue \in Seq(Sessions)
  /\ connector \in [Sessions -> {"none", "loop", "reset", "spawn", "connected",
                                 "activate", "begin", "done"}]
  /\ sender \in [Sessions -> {"none", "wait", "woken", "get", "hand", "audio",
                              "video", "extra", "send", "end", "free", "reset",
                              "inactive", "done", "crashed"}]
  /\ hand \in [Sessions -> 0..MaxSessions]
  /\ loop \in [Sessions -> {"none", "open", "start", "test", "sleep", "stop",
                            "flag", "done"}]
  /\ client \in 0..MaxSessions /\ clients \in 0..MaxSessions
  /\ flag \in BOOLEAN
  /\ headers \in [Sessions -> SUBSET {"audio", "video"}]
  /\ headerless \subseteq Sessions
  /\ crashed \in BOOLEAN
  /\ capture \in 0..MaxSessions /\ fed \in 0..MaxSessions
  /\ told \in [Sessions -> Nat]
  /\ producer \in {"idle", "checked", "post"} /\ packets \in 0..MaxPackets
  /\ ui \in {"idle", "join", "joinNow", "check", "signal", "post"}
  /\ stops \in 0..MaxStops

InLoop(s) == sender[s] \in {"wait", "woken", "get", "hand", "audio", "video",
                            "extra", "send"}

(* While libobs captures, the stream is active and its send thread is in    *)
(* its loop, or leaves it because of a stop: no session dies on its own     *)
(* with libobs still feeding it, and no send thread tells libobs of a       *)
(* disconnection nobody asked for.                                          *)
CaptureRuns ==
  capture # 0 /\ ~crashed => /\ active
                             /\ InLoop(capture) \/ sender[capture] = "end"
                             /\ sender[capture] = "end" => stopEvent

(* A session starts from rest: until its connect thread has made the stream *)
(* active, nothing of an earlier session (a stop event, the active flag, a  *)
(* send thread, a capture) is left over.                                    *)
CleanStart ==
  \A s \in Sessions :
    connector[s] \in {"loop", "reset", "spawn", "connected", "activate"} =>
      /\ ~stopEvent /\ ~active
      /\ capture = 0
      /\ \A t \in Sessions \ {s} : sender[t] \in {"none", "done", "crashed"}

(* What libobs sees of the present session.                                 *)
Stage ==
  IF session = 0 \/ told[session] > 0 THEN "off"
  ELSE IF capture # session THEN "connecting"
  ELSE IF stopEvent THEN "stopping" ELSE "capturing"

Output == INSTANCE ObsOutput WITH stage <- Stage

(* libobs sees sessions in turn, whatever the three threads of each and the *)
(* stops do: none ends unasked once it captures, none captures after libobs *)
(* was told of its end, and the next one starts only then.                  *)
SessionsInTurn == Output!Spec

(* No packet of an earlier session is sent in a later one, if libobs makes  *)
(* no call after the end of the capture.                                    *)
FreshPackets == ~env.late => \A s \in Sessions : hand[s] \in {0, s}

(* "The first frame sent to each new user must be the FLV header, or the    *)
(* user cannot decode and play the stream" (flv-output-connect.cpp:12).     *)
HeadersFirst == headerless = {}

(* The same, when every header can be sent: no reconnection of the receive  *)
(* loop and no order of its steps and those of the send thread leads to     *)
(* stream data without headers.                                             *)
HeadersUnlessFailed == ~env.headerFails => HeadersFirst

(* The receive loop of a session whose send thread has ended ends as well,  *)
(* and with it the connection.                                              *)
(* And a forced stop ends the session: libobs is told.                      *)
SessionEnds ==
  \A s \in Sessions :
    /\ (sender[s] = "done") ~> (loop[s] = "done")
    /\ (session = s /\ ui = "joinNow") ~> (told[s] > 0 \/ crashed)
=============================================================================
