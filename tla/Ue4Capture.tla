----------------------------- MODULE Ue4Capture -----------------------------
(***************************************************************************)
(* The image input of plugins/hengxin_ue4capture: frames of a rendering    *)
(* server, received over a socket and drawn into the texture of an OBS     *)
(* source (hengxin_ue4capture.c, ImageClient.cpp, ImageMessage.hpp).       *)
(*                                                                         *)
(* Three threads meet here.                                                *)
(*   - The I/O thread of the connection reads messages and adds them to    *)
(*     one of the two queues of ImageMessageQueue.                         *)
(*   - The video thread ticks the source: it swaps the queues, collects    *)
(*     the messages of a frame and, when the frame is complete, draws it.  *)
(*   - The UI thread changes the settings.  libobs makes the update of a   *)
(*     video source on the video thread, before the tick; lateUpdate asks  *)
(*     in addition what an update in the middle of a tick would do.  An    *)
(*     update always reconnects (the address is cleared before it is       *)
(*     compared).                                                          *)
(*                                                                         *)
(* A frame is sent as Begin, its strips (Body), Finish.  A message is its  *)
(* number in the order of sending: frame f is M*f .. M*f + M-1, so a queue *)
(* is the set of its messages and its front the smallest one.  A new       *)
(* connection begins with the Begin of a frame.                            *)
(*                                                                         *)
(* A definition named Op_Fault is Op with a fault in it, for checking that *)
(* the properties notice; no specification uses it.                        *)
(*                                                                         *)
(* ReadAllMessage is one step: the batch it reads belongs to the video     *)
(* thread alone once the queues are swapped.  image_disconnect is taken to *)
(* find neither the I/O thread inside a handler nor the video thread       *)
(* inside a call of the client it deletes.                                 *)
(***************************************************************************)
EXTENDS Integers, FiniteSets, FiniteSetsExt

CONSTANTS
  Strips,          \* bodies of a frame
  MaxFrames,       \* bound on the frames sent
  MaxConnections,  \* bound on the connections, one per update
  Size,            \* the size of each frame, its width and height
  DefaultSize,     \* the size of the first texture (1024)
  Environments     \* the surroundings, see Environment

(* queueMax: m_queueMax (8162); mapFails: gs_texture_map may fail;         *)
(* lateUpdate: an update may fall between the steps of a tick.             *)
Environment == [queueMax : Nat \ {0, 1}, mapFails : BOOLEAN, lateUpdate : BOOLEAN]

M == Strips + 2
Frames == 1..MaxFrames
Strip == 1..Strips
LastMessage == M * MaxFrames + M - 1

ASSUME Ue4CaptureAssumption ==
  /\ Strips \in Nat \ {0} /\ MaxFrames \in Nat /\ MaxConnections \in Nat \ {0}
  /\ DefaultSize \in Nat \ {0}
  /\ Size \in [Frames -> Nat \ {0}]
  /\ Environments \subseteq Environment

VARIABLES
  env,         \* the environment of this behaviour, which stays as it is
  io,          \* where the connection is
  got,         \* the last message read from the socket
  queue,       \* m_queue: the two message queues
  current,     \* m_current: the one the I/O thread adds to
  imageQueue,  \* m_imageQueue: the strips collected so far
  imageFrame,  \* the frame m_imageQueueWidth, -Height belong to, 0 for none
  tick,        \* where hengxin_ue4capture_tick is
  frame,       \* the frame whose size image_readbuffer returned
  texture,     \* the size of image.texture, 0 for no texture
  cx,          \* image.cx, image.cy
  picture,     \* what the texture shows: the frame each strip is from, or 0
  connections, \* how many connections were made
  finished,    \* history: the frames received in full
  shown        \* history: the newest frame drawn

clientVars == <<io, got, queue, current, finished>>
collectVars == <<imageQueue, imageFrame>>
sourceVars == <<tick, frame, texture, cx, picture, shown>>
vars == <<env, clientVars, collectVars, sourceVars, connections>>

(* Messages.                                                               *)
ConnectFailure == 0
IsBegin(n) == n # ConnectFailure /\ n % M = 0
IsBody(n) == n % M \in Strip
IsFinish(n) == n % M = M - 1
Frame(n) == n \div M

Blank == [s \in Strip |-> 0]

-----------------------------------------------------------------------------
(* hengxin_ue4capture_create: the first update connects and makes a        *)
(* texture of random pixels.                                               *)
Init ==
  /\ env \in Environments
  /\ io = "connecting"
  /\ got = M - 1
  /\ queue = [q \in 0..1 |-> {}]
  /\ current = 0
  /\ imageQueue = {}
  /\ imageFrame = 0
  /\ tick = "idle"
  /\ frame = 0
  /\ texture = DefaultSize
  /\ cx = DefaultSize
  /\ picture = Blank
  /\ connections = 1
  /\ finished = {}
  /\ shown = 0

-----------------------------------------------------------------------------
(* The I/O thread.                                                         *)

(* ImageMessageQueue::add: a queue that has become too large loses its     *)
(* first message.                                                          *)
Add(q, n) ==
  LET longer == q \cup {n}
  IN  IF Cardinality(longer) >= env.queueMax THEN longer \ {Min(longer)} ELSE longer

HandleConnect ==
  /\ io = "connecting"
  /\ \/ io' = "header" /\ UNCHANGED queue
     \/ /\ io' = "failed"
        /\ queue' = [queue EXCEPT ![current] = Add(@, ConnectFailure)]
  /\ UNCHANGED <<got, current, finished, collectVars, sourceVars, connections>>

HandleReadHeader ==
  /\ io = "header"
  /\ got < LastMessage
  /\ io' \in {"body", "closed"}
  /\ UNCHANGED <<got, queue, current, finished, collectVars, sourceVars,
                 connections>>

HandleReadBody ==
  /\ io = "body"
  /\ \/ /\ io' = "header"
        /\ got' = got + 1
        /\ queue' = [queue EXCEPT ![current] = Add(@, got')]
        /\ finished' = IF IsFinish(got') THEN finished \cup {Frame(got')}
                                         ELSE finished
     \/ io' = "closed" /\ UNCHANGED <<got, queue, finished>>
  /\ UNCHANGED <<current, collectVars, sourceVars, connections>>

-----------------------------------------------------------------------------
(* The video thread.                                                       *)

(* The frame being collected when message n of the batch has been handled. *)
FrameAt_ThisBatch(batch, n) ==
  LET begins == {b \in batch : IsBegin(b) /\ b <= n}
  IN  IF begins = {} THEN 0 ELSE Frame(Max(begins))

FrameAt(batch, n) ==
  LET begins == {b \in batch : IsBegin(b) /\ b <= n}
  IN  IF begins = {} THEN imageFrame ELSE Frame(Max(begins))

(* The Finish messages that complete a frame: one without a Begin, because *)
(* that was discarded, does not.                                           *)
Completing(batch) == {n \in batch : IsFinish(n) /\ FrameAt(batch, n) # 0}

(* ReadAllMessage stops at the first frame it completes and so discards    *)
(* the rest of the batch.                                                  *)
Handled(batch) ==
  IF Completing(batch) = {} THEN batch
  ELSE {n \in batch : n <= Min(Completing(batch))}

Collected(handled) ==
  LET begins == {b \in handled : IsBegin(b)}
      bodies == {n \in handled : IsBody(n)}
  IN  IF begins = {} THEN imageQueue \cup bodies
      ELSE {n \in bodies : n > Max(begins)}

(* ImageMessageQueue::swap: the I/O thread goes on with the other queue,   *)
(* emptied; the batch is what it has added so far.                         *)
Swap_KeepsOld == current' = 1 - current /\ UNCHANGED queue

Swap ==
  /\ current' = 1 - current
  /\ queue' = [queue EXCEPT ![1 - current] = {}]

Tick_ReadBuffer ==
  LET batch == queue[current]
      handled == Handled(batch)
  IN  /\ tick = "idle"
      /\ Swap
      /\ imageQueue' = Collected(handled)
      /\ imageFrame' = FrameAt(handled, LastMessage)
      /\ IF Completing(batch) # {}
         THEN tick' = "resize" /\ frame' = imageFrame'
         ELSE UNCHANGED <<tick, frame>>
      /\ UNCHANGED <<io, got, finished, texture, cx, picture, shown,
                     connections>>

(* A texture of another size is destroyed.                                 *)
Tick_Resize_KeepsTexture ==
  /\ tick = "resize"
  /\ tick' = "create"
  /\ cx' = Size[frame]
  /\ UNCHANGED <<clientVars, collectVars, frame, texture, picture, shown,
                 connections>>

Tick_Resize ==
  /\ tick = "resize"
  /\ tick' = "create"
  /\ IF cx = Size[frame] THEN UNCHANGED <<cx, texture, picture>>
     ELSE cx' = Size[frame] /\ texture' = 0 /\ picture' = Blank
  /\ UNCHANGED <<clientVars, collectVars, frame, shown, connections>>

(* The test for a missing texture is outside the graphics lock, the        *)
(* creation inside it.                                                     *)
Tick_Test ==
  /\ tick = "create"
  /\ tick' = IF texture = 0 THEN "make" ELSE "fill"
  /\ UNCHANGED <<clientVars, collectVars, frame, texture, cx, picture, shown,
                 connections>>

Tick_Create ==
  /\ tick = "make"
  /\ tick' = "fill"
  /\ texture' = cx
  /\ picture' = Blank
  /\ UNCHANGED <<clientVars, collectVars, frame, cx, shown, connections>>

(* FillAllImageBuffer draws the strips, a later one over an earlier one,   *)
(* on a texture that mapping has made blank, and forgets them with their   *)
(* size.  It does nothing without a size.                                  *)
FillAllImageBuffer_KeepsSize ==
  /\ imageQueue' = {}
  /\ shown' = imageFrame
  /\ picture' = [s \in Strip |->
                   LET drawn == {n \in imageQueue : n % M = s}
                   IN  IF drawn = {} THEN 0 ELSE Frame(Max(drawn))]
  /\ UNCHANGED imageFrame

FillAllImageBuffer ==
  IF imageFrame = 0
  THEN picture' = Blank /\ UNCHANGED <<collectVars, shown>>
  ELSE /\ picture' = [s \in Strip |->
                        LET drawn == {n \in imageQueue : n % M = s}
                        IN  IF drawn = {} THEN 0 ELSE Frame(Max(drawn))]
       /\ shown' = imageFrame
       /\ imageQueue' = {}
       /\ imageFrame' = 0

Tick_Fill ==
  /\ tick = "fill"
  /\ tick' = "idle"
  /\ \/ FillAllImageBuffer
     \/ env.mapFails /\ UNCHANGED <<collectVars, picture, shown>>
  /\ UNCHANGED <<clientVars, frame, texture, cx, connections>>

Tick == \/ Tick_ReadBuffer \/ Tick_Resize \/ Tick_Test \/ Tick_Create
        \/ Tick_Fill

-----------------------------------------------------------------------------
(* hengxin_ue4capture_update: image_disconnect forgets the connection with *)
(* everything it has received, image_connect makes a new one.              *)
Update ==
  /\ connections < MaxConnections
  /\ env.lateUpdate \/ tick = "idle"
  /\ connections' = connections + 1
  /\ io' = "connecting"
  /\ got' = M * Frame(got) + M - 1
  /\ queue' = [q \in 0..1 |-> {}]
  /\ current' = 0
  /\ imageQueue' = {}
  /\ imageFrame' = 0
  /\ IF texture # 0 THEN UNCHANGED <<texture, cx, picture>>
     ELSE texture' = DefaultSize /\ cx' = DefaultSize /\ picture' = Blank
  /\ UNCHANGED <<tick, frame, shown, finished>>

-----------------------------------------------------------------------------
Next ==
  /\ HandleConnect \/ HandleReadHeader \/ HandleReadBody \/ Tick \/ Update
  /\ UNCHANGED env

(* libobs ticks every source for every frame of its output.                *)
Spec == Init /\ [][Next]_vars /\ WF_vars(Tick /\ UNCHANGED env)

-----------------------------------------------------------------------------
(* Every variable keeps its type.                                          *)
TypeOK ==
  /\ env \in Environments
  /\ io \in {"connecting", "failed", "header", "body", "closed"}
  /\ got \in Int
  /\ queue \in [0..1 -> SUBSET (0..LastMessage)]
  /\ current \in 0..1
  /\ imageQueue \subseteq {n \in 0..LastMessage : IsBody(n)}
  /\ imageFrame \in 0..MaxFrames
  /\ tick \in {"idle", "resize", "create", "make", "fill"}
  /\ frame \in 0..MaxFrames
  /\ texture \in Nat
  /\ cx \in Nat
  /\ picture \in [Strip -> 0..MaxFrames]
  /\ connections \in 1..MaxConnections
  /\ finished \subseteq Frames
  /\ shown \in 0..MaxFrames

(* Nothing fails, no message is lost and updates come between ticks.       *)
Calm ==
  ~env.mapFails /\ ~env.lateUpdate /\ env.queueMax > LastMessage + MaxConnections

(* The texture a frame is drawn into has the size of that frame: the loop  *)
(* that sets the alpha of every row runs over the height of the frame      *)
(* read, not over that of the texture.  (With the types of all variables.) *)
TextureFits == TypeOK /\ (Calm /\ tick = "fill" => texture = Size[frame])

(* The picture is always a whole frame that was received in full, and      *)
(* never goes back to an older one, across reconnects too, though the rest *)
(* of a batch is discarded in the middle of a frame.                       *)
Display == INSTANCE FrameDisplay WITH
  latest <- IF Calm THEN shown ELSE 0,
  finished <- IF Calm THEN finished ELSE {},
  picture <- IF ~Calm \/ picture = Blank THEN 0
             ELSE IF \E f \in Frames : \A s \in Strip : picture[s] = f
                  THEN picture[1] ELSE -1

ShowsWholeFrames == Display!Spec

(* No strip of the picture is ever replaced by one of an older frame, not  *)
(* even when messages are lost from a full queue or a texture cannot be    *)
(* mapped.                                                                 *)
NeverOlder ==
  [][\A s \in Strip : picture'[s] # 0 => picture'[s] >= picture[s]]_vars

(* A frame whose Begin was handled and whose Finish waits in the queue is  *)
(* drawn, unless the settings change first: what a batch loses is only     *)
(* what came after a frame that is drawn.                                  *)
StartedFrameShown ==
  \A f \in Frames, c \in 1..MaxConnections :
    /\ Calm /\ imageFrame = f /\ connections = c
    /\ M * f + M - 1 \in queue[current]
    ~> shown = f \/ connections > c
=============================================================================
