-------------------------- MODULE Ue4Capture_proofs --------------------------
(* Proofs about Ue4Capture, for any number of strips, frames and             *)
(* connections, all sizes and all surroundings.                              *)
EXTENDS Ue4Capture, FiniteSetTheorems, TLAPS

USE Ue4CaptureAssumption

-----------------------------------------------------------------------------
(* The numbers of the messages.                                              *)
Message(f, r) == M * f + r

(* A message is a frame and a place in it.                                   *)
LEMMA MessageSplit ==
  ASSUME NEW n \in Nat
  PROVE  /\ M \in Nat /\ M >= 3
         /\ Frame(n) \in Nat /\ n % M \in 0..(M - 1)
         /\ n = Message(Frame(n), n % M)
<1>1. M \in Nat /\ M >= 3
  BY DEF M
<1> HIDE DEF M
<1> QED BY <1>1 DEF Frame, Message

(* Frames follow each other.                                                 *)
LEMMA MessageOrder ==
  ASSUME NEW f \in Nat, NEW g \in Nat, f < g
  PROVE  /\ \A r \in 0..(M - 1), q \in 0..(M - 1) : Message(f, r) < Message(g, q)
         /\ Message(f, M - 1) + 1 <= Message(g, 0)
<1>1. M \in Nat /\ M >= 3
  BY DEF M
<1> HIDE DEF M
<1>2. M * f + M <= M * g
  <2>1. M * (f + 1) = M * f + M
    BY <1>1
  <2>2. M * (f + 1) <= M * g
    BY <1>1
  <2> QED BY <1>1, <2>1, <2>2
<1>3. M * f \in Nat /\ M * g \in Nat
  BY <1>1
<1> QED BY <1>1, <1>2, <1>3 DEF Message

(* The frame of a message and its place are what it was made from.          *)
LEMMA MessageParts ==
  ASSUME NEW f \in Nat, NEW r \in 0..(M - 1)
  PROVE  /\ Message(f, r) \in Nat
         /\ Frame(Message(f, r)) = f /\ Message(f, r) % M = r
         /\ Message(f, r) = Message(f, 0) + r
<1>1. M \in Nat /\ M >= 3
  BY DEF M
<1>2. Message(f, r) \in Nat /\ Message(f, r) = Message(f, 0) + r
  BY <1>1 DEF Message
<1> DEFINE n == Message(f, r)
<1>3. n \in Nat /\ Frame(n) \in Nat /\ n % M \in 0..(M - 1) /\ n = Message(Frame(n), n % M)
  BY <1>2, MessageSplit
<1>4. Frame(n) = f
  <2>1. CASE f < Frame(n)
    BY <1>3, <2>1, MessageOrder
  <2>2. CASE Frame(n) < f
    BY <1>3, <2>2, MessageOrder
  <2> QED BY <1>3, <2>1, <2>2
<1>5. n % M = r
  BY <1>1, <1>3, <1>4 DEF Message
<1> QED BY <1>2, <1>4, <1>5

(* A later message is of the same frame or of a later one.                   *)
LEMMA FrameMonotone ==
  ASSUME NEW m \in Nat, NEW n \in Nat, m <= n
  PROVE  Frame(m) <= Frame(n)
<1>1. /\ Frame(m) \in Nat /\ m % M \in 0..(M - 1) /\ m = Message(Frame(m), m % M)
      /\ Frame(n) \in Nat /\ n % M \in 0..(M - 1) /\ n = Message(Frame(n), n % M)
  BY MessageSplit
<1>2. CASE Frame(n) < Frame(m)
  <2>1. n < m
    BY <1>1, <1>2, MessageOrder
  <2> QED BY <2>1
<1> QED BY <1>1, <1>2

-----------------------------------------------------------------------------
(* The front of a queue and its last message.                                *)
Less == OpToRel(<, Nat)

(* A set of messages has a first one.                                        *)
LEMMA MinIsLeast ==
  ASSUME NEW S \in SUBSET Nat, S # {}
  PROVE  Min(S) \in S /\ \A n \in S : Min(S) <= n
<1>1. IsWellFoundedOn(Less, Nat)
  BY NatLessThanWellFounded, Zenon DEF Less
<1>2. \E m \in S : \A n \in S : ~ (<<n, m>> \in Less)
  BY <1>1, WFMin
<1>3. \E m \in S : \A n \in S : m <= n
  <2>1. PICK m \in S : \A n \in S : ~ (<<n, m>> \in Less)
    BY <1>2
  <2>2. \A n \in S : m <= n
    <3> TAKE n \in S
    <3>1. <<n, m>> \in Nat \X Nat /\ ~ (<<n, m>> \in Less)
      BY <2>1
    <3>2. ~ (n < m)
      BY <3>1, Zenon DEF Less, OpToRel
    <3> QED BY <3>2
  <2> QED BY <2>2
<1> QED BY <1>3, Zenon DEF Min

(* A bounded set of messages has a last one.                                 *)
LEMMA MaxIsLargest ==
  ASSUME NEW b \in Nat, NEW S \in SUBSET (0..b), S # {}
  PROVE  Max(S) \in S /\ \A n \in S : n <= Max(S)
<1> DEFINE T == {b - n : n \in S}
<1>1. T \in SUBSET Nat /\ T # {}
  OBVIOUS
<1> HIDE DEF T
<1>2. PICK t \in T : \A u \in T : t <= u
  BY <1>1, MinIsLeast
<1>3. PICK m \in S : t = b - m
  BY <1>2 DEF T
<1>4. \A n \in S : n <= m
  <2> TAKE n \in S
  <2>1. b - n \in T
    BY DEF T
  <2>2. t <= b - n
    BY <1>2, <2>1
  <2> QED BY <1>3, <2>2
<1>5. \E x \in S : \A y \in S : x >= y
  BY <1>4
<1>6. Max(S) \in S /\ \A n \in S : Max(S) >= n
  BY <1>5, Zenon DEF Max
<1> QED BY <1>6

-----------------------------------------------------------------------------
(* The kinds of messages by their places.                                    *)
LEMMA Places == M \in Nat /\ M >= 3 /\ Strip = 1..(M - 2) /\ M - 1 \in 0..(M - 1)
BY DEF M, Strip

(* The messages of a frame follow its Begin.                                 *)
LEMMA Placing ==
  ASSUME NEW f \in Nat
  PROVE  /\ Message(f, 0) \in Nat
         /\ \A r \in 0..(M - 1) : Message(f, r) = Message(f, 0) + r
<1>1. 0 \in 0..(M - 1)
  BY Places
<1>2. Message(f, 0) \in Nat
  BY <1>1, MessageParts
<1>3. ASSUME NEW r \in 0..(M - 1) PROVE Message(f, r) = Message(f, 0) + r
  BY MessageParts
<1> QED BY <1>2, <1>3

(* Begin, the bodies and Finish by their numbers.                            *)
LEMMA Kinds ==
  ASSUME NEW n \in Nat
  PROVE  /\ IsBegin(n) <=> n # ConnectFailure /\ n = Message(Frame(n), 0)
         /\ IsBody(n) <=> \E s \in Strip : n = Message(Frame(n), s)
         /\ IsFinish(n) <=> n = Message(Frame(n), M - 1)
         /\ n # ConnectFailure => IsBegin(n) \/ IsBody(n) \/ IsFinish(n)
         /\ IsBody(n) => ~ IsBegin(n) /\ ~ IsFinish(n)
         /\ IsFinish(n) => ~ IsBegin(n) /\ n # ConnectFailure
<1>1. Frame(n) \in Nat /\ n % M \in 0..(M - 1) /\ n = Message(Frame(n), n % M)
  BY MessageSplit
<1>2. \A r \in 0..(M - 1) : n = Message(Frame(n), r) <=> n % M = r
  BY <1>1, MessageParts
<1>3. n = ConnectFailure => n % M = 0
  <2>1. Message(0, 0) = 0 /\ Message(0, 0) % M = 0
    <3>1. Message(0, 0) = 0
      BY Places DEF Message
    <3> QED BY <3>1, Places, MessageParts
  <2> QED BY <2>1 DEF ConnectFailure
<1> QED BY <1>1, <1>2, <1>3, Places DEF IsBegin, IsBody, IsFinish

(* The messages sent are those of the frames.                                *)
LEMMA Bounds ==
  /\ LastMessage \in Nat /\ LastMessage = Message(MaxFrames, M - 1)
  /\ \A n \in 0..LastMessage : Frame(n) \in 0..MaxFrames
  /\ \A f \in 0..MaxFrames, r \in 0..(M - 1) : Message(f, r) \in 0..LastMessage
<1>1. LastMessage = Message(MaxFrames, M - 1)
  BY Places DEF LastMessage, Message
<1>2. LastMessage \in Nat /\ Frame(LastMessage) = MaxFrames
  BY <1>1, Places, MessageParts
<1>3. ASSUME NEW n \in 0..LastMessage PROVE Frame(n) \in 0..MaxFrames
  <2>1. Frame(n) <= MaxFrames
    BY <1>2, FrameMonotone
  <2> QED BY <2>1, <1>2, MessageSplit
<1>4. ASSUME NEW f \in 0..MaxFrames, NEW r \in 0..(M - 1)
      PROVE  Message(f, r) \in 0..LastMessage
  <2>1. Message(f, r) \in Nat
    BY MessageParts
  <2>2. Message(f, r) <= Message(f, M - 1)
    <3>1. /\ Message(f, 0) \in Nat /\ Message(f, r) = Message(f, 0) + r
          /\ Message(f, M - 1) = Message(f, 0) + (M - 1)
      <4>1. f \in Nat
        OBVIOUS
      <4> QED BY <4>1, Placing, Places
    <3> QED BY <3>1, Places
  <2>3. CASE f = MaxFrames
    BY <1>1, <1>2, <2>1, <2>2, <2>3
  <2>4. CASE f < MaxFrames
    BY <1>1, <1>2, <2>1, <2>4, Places, MessageOrder
  <2> QED BY <2>3, <2>4
<1> QED BY <1>1, <1>2, <1>3, <1>4

-----------------------------------------------------------------------------
(* The types, in the detail their proof needs: the connection begins with    *)
(* the first frame, it is in a body only while there is one to read, a tick  *)
(* that goes on knows its frame, and the texture, when there is one, has the *)
(* size of the image.                                                        *)
Sound ==
  /\ got \in (M - 1)..LastMessage
  /\ io = "body" => got < LastMessage
  /\ tick # "idle" => frame # 0
  /\ cx > 0
  /\ texture \in {0, cx}

TypeInv == TypeOK /\ Sound

(* What is waiting in the queue the I/O thread adds to.                      *)
Waiting == queue[current] \ {ConnectFailure}

(* The frame being collected is one of those sent, and is known when a frame *)
(* is complete.                                                              *)
LEMMA FrameAtType ==
  ASSUME TypeOK, NEW batch \in SUBSET (0..LastMessage), NEW n \in 0..LastMessage
  PROVE  FrameAt(batch, n) \in 0..MaxFrames
<1> DEFINE begins == {b \in batch : IsBegin(b) /\ b <= n}
<1>1. CASE begins = {}
  BY <1>1 DEF FrameAt, TypeOK
<1>2. CASE begins # {}
  <2>1. Max(begins) \in begins
    BY <1>2, Bounds, MaxIsLargest
  <2> QED BY <1>2, <2>1, Bounds DEF FrameAt
<1> QED BY <1>1, <1>2

(* The batch as ReadAllMessage leaves it.                                    *)
LEMMA HandledType ==
  ASSUME TypeOK, NEW batch \in SUBSET (0..LastMessage)
  PROVE  /\ Handled(batch) \in SUBSET batch
         /\ Collected(Handled(batch)) \subseteq
              {n \in imageQueue \cup batch : n \in 0..LastMessage /\ IsBody(n)}
         /\ FrameAt(Handled(batch), LastMessage) \in 0..MaxFrames
<1>1. Handled(batch) \in SUBSET batch
  BY DEF Handled
<1>2. FrameAt(Handled(batch), LastMessage) \in 0..MaxFrames
  BY <1>1, Bounds, FrameAtType
<1>3. Collected(Handled(batch)) \subseteq
              {n \in imageQueue \cup batch : n \in 0..LastMessage /\ IsBody(n)}
  BY <1>1 DEF Collected, TypeOK
<1> QED BY <1>1, <1>2, <1>3

(* The frame that a batch completes.                                         *)
LEMMA CompletedFrame ==
  ASSUME TypeOK, NEW batch \in SUBSET (0..LastMessage), Completing(batch) # {}
  PROVE  /\ Min(Completing(batch)) \in Completing(batch)
         /\ \A n \in Completing(batch) : Min(Completing(batch)) <= n
         /\ Handled(batch) = {n \in batch : n <= Min(Completing(batch))}
         /\ FrameAt(Handled(batch), LastMessage)
              = FrameAt(batch, Min(Completing(batch)))
         /\ FrameAt(Handled(batch), LastMessage) # 0
<1> DEFINE c == Min(Completing(batch))
<1>1. batch \in SUBSET Nat /\ Completing(batch) \in SUBSET batch
  BY Bounds DEF Completing
<1>2. c \in Completing(batch) /\ \A n \in Completing(batch) : c <= n
  BY <1>1, MinIsLeast
<1>3. Handled(batch) = {n \in batch : n <= c}
  BY DEF Handled
<1>4. {b \in Handled(batch) : IsBegin(b) /\ b <= LastMessage}
        = {b \in batch : IsBegin(b) /\ b <= c}
  <2>1. \A b \in batch : b <= LastMessage
    OBVIOUS
  <2> HIDE DEF c
  <2> QED BY <1>3, <2>1
<1>5. FrameAt(Handled(batch), LastMessage) = FrameAt(batch, c)
  BY <1>4, Zenon DEF FrameAt
<1>6. FrameAt(batch, c) # 0
  BY <1>2 DEF Completing
<1> QED BY <1>2, <1>3, <1>5, <1>6

(* The swap leaves the I/O thread an empty queue.                            *)
LEMMA Swapped ==
  ASSUME TypeOK, Swap
  PROVE  /\ queue' \in [0..1 -> SUBSET (0..LastMessage)] /\ current' \in 0..1
         /\ queue'[current'] = {} /\ Waiting' = {}
<1>1. current' \in 0..1 /\ queue' \in [0..1 -> SUBSET (0..LastMessage)]
  BY DEF TypeOK, Swap
<1>2. queue'[current'] = {}
  BY DEF TypeOK, Swap
<1> QED BY <1>1, <1>2 DEF Waiting

-----------------------------------------------------------------------------
(* A new message makes its queue no longer than the messages there are.      *)
LEMMA AddType ==
  ASSUME TypeOK, NEW q \in SUBSET (0..LastMessage), NEW n \in 0..LastMessage
  PROVE  /\ Add(q, n) \in SUBSET (0..LastMessage)
         /\ Add(q, n) \subseteq q \cup {n}
         /\ Calm => Add(q, n) = q \cup {n}
<1>1. Add(q, n) \subseteq q \cup {n}
  BY DEF Add
<1>2. ASSUME Calm PROVE Add(q, n) = q \cup {n}
  <2>1. q \cup {n} \in SUBSET Nat /\ \A m \in q \cup {n} : m <= LastMessage
    BY Bounds
  <2>2. Cardinality(q \cup {n}) <= LastMessage + 1
    BY <2>1, Bounds, FS_BoundedSetOfNaturals
  <2>3. IsFiniteSet(q \cup {n})
    BY <2>1, Bounds, FS_BoundedSetOfNaturals
  <2>4. Cardinality(q \cup {n}) \in Nat
    BY <2>3, FS_CardinalityType
  <2>5. env.queueMax > LastMessage + MaxConnections
    BY <1>2 DEF Calm
  <2> DEFINE card == Cardinality(q \cup {n})
             bound == env.queueMax
  <2>6. ~ (card >= bound)
    <3>1. card \in Nat /\ card <= LastMessage + 1 /\ bound > LastMessage + MaxConnections
      BY <2>2, <2>4, <2>5
    <3>2. bound \in Nat
      BY DEF TypeOK, Environment
    <3> HIDE DEF card, bound
    <3> QED BY <3>1, <3>2, Bounds
  <2> QED BY <2>6 DEF Add
<1> QED BY <1>1, <1>2

(* The next message is read, the first with a number greater than those      *)
(* before it.                                                                *)
LEMMA ReadType ==
  ASSUME TypeInv, io = "body"
  PROVE  /\ got + 1 \in 0..LastMessage /\ got + 1 \in Nat /\ got \in Nat
         /\ Frame(got + 1) \in Frames
<1>1. got \in (M - 1)..LastMessage /\ got < LastMessage
  BY DEF TypeInv, Sound
<1>2. got \in Nat /\ got + 1 \in 0..LastMessage /\ got + 1 >= M
  BY <1>1, Places, Bounds
<1>3. Frame(M) = 1
  <2>1. Message(1, 0) = M /\ 0 \in 0..(M - 1)
    BY Places DEF Message
  <2> QED BY <2>1, MessageParts
<1>4. Frame(got + 1) >= 1
  BY <1>2, <1>3, Places, FrameMonotone
<1>5. Frame(got + 1) \in 0..MaxFrames
  BY <1>2, Bounds
<1> QED BY <1>2, <1>4, <1>5 DEF Frames

(* A new connection begins with the next frame.                              *)
LEMMA UpdateType ==
  ASSUME TypeInv, Update
  PROVE  /\ got' = Message(Frame(got), M - 1) /\ got' \in (M - 1)..LastMessage
         /\ got <= got' /\ Frame(got) \in 0..MaxFrames /\ Frame(got') = Frame(got)
         /\ queue' \in [0..1 -> SUBSET (0..LastMessage)] /\ Waiting' = {}
         /\ imageQueue' = {} /\ imageFrame' = 0
<1>1. got \in (M - 1)..LastMessage /\ got \in 0..LastMessage /\ got \in Nat
  BY Places, Bounds DEF TypeInv, Sound
<1>2. Frame(got) \in 0..MaxFrames /\ Frame(got) \in Nat
  BY <1>1, Bounds
<1>3. got' = Message(Frame(got), M - 1)
  BY Places, <1>2 DEF Update, Message
<1>4. got' \in 0..LastMessage
  BY <1>2, <1>3, Places, Bounds
<1>5. got = Message(Frame(got), got % M) /\ got % M \in 0..(M - 1)
  BY <1>1, MessageSplit
<1>6. Message(Frame(got), 0) \in Nat
  BY <1>2, Placing
<1>7. /\ got = Message(Frame(got), 0) + (got % M)
      /\ got' = Message(Frame(got), 0) + (M - 1)
  BY <1>2, <1>3, <1>5, Places, Placing
<1>8. got <= got' /\ got' \in (M - 1)..LastMessage
  <2> DEFINE base == Message(Frame(got), 0)
             place == got % M
  <2> HIDE DEF base, place
  <2>1. got = base + place /\ got' = base + (M - 1) /\ base \in Nat /\ place \in 0..(M - 1)
    BY <1>5, <1>6, <1>7 DEF base, place
  <2> QED BY <2>1, <1>4, Places, Bounds
<1>9. Frame(got') = Frame(got)
  BY <1>2, <1>3, Places, MessageParts
<1>10. /\ queue' \in [0..1 -> SUBSET (0..LastMessage)] /\ Waiting' = {}
       /\ imageQueue' = {} /\ imageFrame' = 0
  BY DEF Update, Waiting
<1> QED BY <1>2, <1>3, <1>8, <1>9, <1>10

(* The message that is read waits behind the others.                         *)
LEMMA ReadBody ==
  ASSUME TypeInv, HandleReadBody, got' # got
  PROVE  /\ io = "body" /\ io' = "header" /\ got' = got + 1
         /\ got' \in 0..LastMessage /\ got' \in Nat /\ got' # ConnectFailure
         /\ queue' \in [0..1 -> SUBSET (0..LastMessage)]
         /\ Waiting' \subseteq Waiting \cup {got'}
         /\ Calm => Waiting' = Waiting \cup {got'}
         /\ finished' = IF IsFinish(got') THEN finished \cup {Frame(got')} ELSE finished
<1>1. /\ io = "body" /\ io' = "header" /\ got' = got + 1
      /\ queue' = [queue EXCEPT ![current] = Add(@, got')]
      /\ finished' = IF IsFinish(got') THEN finished \cup {Frame(got')} ELSE finished
      /\ UNCHANGED current
  BY DEF HandleReadBody
<1>2. got' \in 0..LastMessage /\ got' \in Nat /\ got' # ConnectFailure
  BY <1>1, ReadType DEF ConnectFailure
<1>3. /\ queue \in [0..1 -> SUBSET (0..LastMessage)] /\ current \in 0..1
      /\ queue[current] \in SUBSET (0..LastMessage) /\ TypeOK
  BY DEF TypeInv, TypeOK
<1>4. /\ Add(queue[current], got') \in SUBSET (0..LastMessage)
      /\ Add(queue[current], got') \subseteq queue[current] \cup {got'}
      /\ Calm => Add(queue[current], got') = queue[current] \cup {got'}
  BY <1>2, <1>3, AddType
<1>5. /\ queue' \in [0..1 -> SUBSET (0..LastMessage)]
      /\ queue'[current'] = Add(queue[current], got')
  BY <1>1, <1>3, <1>4
<1> QED BY <1>1, <1>2, <1>4, <1>5 DEF Waiting

(* A connection that fails leaves no message of a frame behind.              *)
LEMMA ConnectFails ==
  ASSUME TypeInv, HandleConnect
  PROVE  /\ queue' \in [0..1 -> SUBSET (0..LastMessage)] /\ Waiting' \subseteq Waiting
         /\ Calm => Waiting' = Waiting
<1>1. /\ queue \in [0..1 -> SUBSET (0..LastMessage)] /\ current \in 0..1
      /\ queue[current] \in SUBSET (0..LastMessage) /\ TypeOK
      /\ ConnectFailure \in 0..LastMessage /\ UNCHANGED current
  BY Bounds DEF TypeInv, TypeOK, HandleConnect, ConnectFailure
<1>2. CASE UNCHANGED queue
  BY <1>1, <1>2 DEF Waiting
<1>3. CASE queue' = [queue EXCEPT ![current] = Add(@, ConnectFailure)]
  <2>1. /\ Add(queue[current], ConnectFailure) \in SUBSET (0..LastMessage)
        /\ Add(queue[current], ConnectFailure) \subseteq queue[current] \cup {ConnectFailure}
        /\ Calm => Add(queue[current], ConnectFailure) = queue[current] \cup {ConnectFailure}
    BY <1>1, AddType
  <2>2. /\ queue' \in [0..1 -> SUBSET (0..LastMessage)]
        /\ queue'[current'] = Add(queue[current], ConnectFailure)
    BY <1>1, <1>3, <2>1
  <2> QED BY <2>1, <2>2 DEF Waiting
<1> QED BY <1>2, <1>3 DEF HandleConnect

(* What the fill draws into a strip, see FillAllImageBuffer.                 *)
Drawn(s) ==
  LET drawn == {n \in imageQueue : n % M = s}
  IN  IF drawn = {} THEN 0 ELSE Frame(Max(drawn))

(* A strip is drawn from a message that was collected, or stays blank.       *)
LEMMA DrawnType ==
  ASSUME TypeOK, NEW s \in Strip
  PROVE  /\ Drawn(s) \in 0..MaxFrames
         /\ Drawn(s) # 0 => \E n \in imageQueue : n % M = s /\ Drawn(s) = Frame(n)
<1> DEFINE drawn == {n \in imageQueue : n % M = s}
<1>1. CASE drawn = {}
  BY <1>1 DEF Drawn
<1>2. CASE drawn # {}
  <2>1. drawn \in SUBSET (0..LastMessage)
    BY DEF TypeOK
  <2>2. Max(drawn) \in drawn
    BY <1>2, <2>1, Bounds, MaxIsLargest
  <2>3. Drawn(s) = Frame(Max(drawn))
    BY <1>2 DEF Drawn
  <2> QED BY <2>1, <2>2, <2>3, Bounds
<1> QED BY <1>1, <1>2

-----------------------------------------------------------------------------
(* The types hold at the start.                                              *)
LEMMA InitType == Init => TypeInv
<1> SUFFICES ASSUME Init PROVE TypeInv
  OBVIOUS
<1>1. got \in (M - 1)..LastMessage /\ got \in Int
  BY Places, Bounds, 0 \in 0..MaxFrames, Message(0, M - 1) = M - 1 DEF Init, Message
<1>2. picture \in [Strip -> 0..MaxFrames]
  BY DEF Init, Blank
<1>3. connections \in 1..MaxConnections
  BY DEF Init
<1>4. queue \in [0..1 -> SUBSET (0..LastMessage)]
  BY DEF Init
<1> QED BY <1>1, <1>2, <1>3, <1>4 DEF Init, TypeInv, TypeOK, Sound

(* Every step keeps the types.                                               *)
LEMMA NextType ==
  ASSUME TypeInv, [Next]_vars
  PROVE  TypeInv'
<1> USE DEF TypeInv
<1>1. CASE HandleConnect /\ UNCHANGED env
  <2>1. queue' \in [0..1 -> SUBSET (0..LastMessage)]
    BY <1>1, ConnectFails
  <2> QED BY <1>1, <2>1 DEF HandleConnect, TypeOK, Sound, collectVars, sourceVars
<1>2. CASE HandleReadHeader /\ UNCHANGED env
  BY <1>2 DEF HandleReadHeader, TypeOK, Sound, collectVars, sourceVars
<1>3. CASE HandleReadBody /\ UNCHANGED env
  <2>1. CASE got' = got
    <3>1. io' = "closed" /\ UNCHANGED <<got, queue, finished>>
      BY <1>3, <2>1 DEF HandleReadBody, TypeOK
    <3> QED BY <1>3, <3>1 DEF HandleReadBody, TypeOK, Sound, collectVars, sourceVars
  <2>2. CASE got' # got
    <3>1. /\ io' = "header" /\ got' = got + 1 /\ got' \in 0..LastMessage
          /\ got' \in Nat /\ queue' \in [0..1 -> SUBSET (0..LastMessage)]
          /\ finished' \subseteq Frames
      BY <1>3, <2>2, ReadBody, ReadType DEF TypeOK
    <3>2. got' \in (M - 1)..LastMessage
      BY <3>1, Places, Bounds DEF Sound
    <3> QED
      BY <1>3, <3>1, <3>2 DEF HandleReadBody, TypeOK, Sound, collectVars, sourceVars
  <2> QED BY <2>1, <2>2
<1>4. CASE Tick_ReadBuffer /\ UNCHANGED env
  <2> DEFINE batch == queue[current]
             handled == Handled(batch)
  <2>1. batch \in SUBSET (0..LastMessage) /\ TypeOK
    BY DEF TypeOK
  <2>2. /\ imageQueue' = Collected(handled) /\ imageFrame' = FrameAt(handled, LastMessage)
        /\ Swap /\ UNCHANGED <<io, got, finished, texture, cx, picture, shown, connections>>
        /\ tick' \in {tick, "resize"} /\ frame' \in {frame, imageFrame'}
        /\ tick = "idle"
    BY <1>4 DEF Tick_ReadBuffer
  <2>5. tick' # "idle" => frame' # 0
    <3>1. CASE Completing(batch) # {}
      BY <1>4, <2>1, <3>1, CompletedFrame DEF Tick_ReadBuffer
    <3>2. CASE Completing(batch) = {}
      BY <1>4, <3>2 DEF Tick_ReadBuffer
    <3> QED BY <3>1, <3>2
  <2> HIDE DEF batch, handled
  <2>3. /\ imageQueue' \subseteq {n \in 0..LastMessage : IsBody(n)}
        /\ imageFrame' \in 0..MaxFrames
    BY <2>1, <2>2, HandledType DEF handled
  <2>4. queue' \in [0..1 -> SUBSET (0..LastMessage)] /\ current' \in 0..1
    BY <2>2, Swapped
  <2> QED BY <1>4, <2>2, <2>3, <2>4, <2>5 DEF TypeOK, Sound
<1>5. CASE Tick_Resize /\ UNCHANGED env
  <2>1. CASE UNCHANGED <<cx, texture, picture>>
    BY <1>5, <2>1 DEF Tick_Resize, TypeOK, Sound, clientVars, collectVars
  <2>2. CASE cx' = Size[frame] /\ texture' = 0 /\ picture' = Blank
    <3>1. picture' \in [Strip -> 0..MaxFrames]
      BY <2>2 DEF Blank
    <3>2. frame \in Frames
      BY <1>5 DEF Tick_Resize, TypeOK, Sound, Frames
    <3>3. cx' \in Nat /\ cx' > 0
      BY <2>2, <3>2
    <3> QED BY <1>5, <2>2, <3>1, <3>3
          DEF Tick_Resize, TypeOK, Sound, clientVars, collectVars
  <2> QED BY <1>5, <2>1, <2>2 DEF Tick_Resize
<1>6. CASE Tick_Test /\ UNCHANGED env
  BY <1>6 DEF Tick_Test, TypeOK, Sound, clientVars, collectVars
<1>7. CASE Tick_Create /\ UNCHANGED env
  <2>1. picture' \in [Strip -> 0..MaxFrames]
    BY <1>7 DEF Tick_Create, Blank
  <2> QED BY <1>7, <2>1 DEF Tick_Create, TypeOK, Sound, clientVars, collectVars
<1>8. CASE Tick_Fill /\ UNCHANGED env
  <2>1. CASE UNCHANGED <<collectVars, picture, shown>>
    BY <1>8, <2>1 DEF Tick_Fill, TypeOK, Sound, clientVars, collectVars
  <2>2. CASE FillAllImageBuffer
    <3>1. /\ imageQueue' \subseteq imageQueue /\ imageFrame' \in {0, imageFrame}
          /\ shown' \in {shown, imageFrame}
      BY <2>2 DEF FillAllImageBuffer, collectVars
    <3>2. picture' \in [Strip -> 0..MaxFrames]
      <4>1. CASE imageFrame = 0
        BY <2>2, <4>1 DEF FillAllImageBuffer, Blank
      <4>2. CASE imageFrame # 0
        <5>1. \A s \in Strip : Drawn(s) \in 0..MaxFrames
          BY DrawnType
        <5>2. picture' = [s \in Strip |-> Drawn(s)]
          BY <2>2, <4>2 DEF FillAllImageBuffer, Drawn
        <5> QED BY <5>1, <5>2
      <4> QED BY <4>1, <4>2
    <3> QED BY <1>8, <3>1, <3>2 DEF Tick_Fill, TypeOK, Sound, clientVars
  <2> QED BY <1>8, <2>1, <2>2 DEF Tick_Fill
<1>9. CASE Update /\ UNCHANGED env
  <2>1. /\ got' \in (M - 1)..LastMessage /\ imageQueue' = {} /\ imageFrame' = 0
        /\ queue' \in [0..1 -> SUBSET (0..LastMessage)]
    BY <1>9, UpdateType
  <2>5. got' \in Int
    BY <2>1
  <2>2. connections' \in 1..MaxConnections /\ current' \in 0..1 /\ io' = "connecting"
    BY <1>9 DEF Update, TypeOK
  <2>3. CASE UNCHANGED <<texture, cx, picture>>
    BY <1>9, <2>1, <2>2, <2>3, <2>5 DEF Update, TypeOK, Sound
  <2>4. CASE texture' = DefaultSize /\ cx' = DefaultSize /\ picture' = Blank
    <3>1. picture' \in [Strip -> 0..MaxFrames]
      BY <2>4 DEF Blank
    <3> QED BY <1>9, <2>1, <2>2, <2>4, <2>5, <3>1 DEF Update, TypeOK, Sound
  <2> QED BY <1>9, <2>3, <2>4 DEF Update
<1>10. CASE UNCHANGED vars
  BY <1>10 DEF vars, TypeOK, Sound, clientVars, collectVars, sourceVars
<1> QED BY <1>1, <1>2, <1>3, <1>4, <1>5, <1>6, <1>7, <1>8, <1>9, <1>10 DEF Next, Tick

(* The types hold throughout.                                                *)
LEMMA TypesHold == Spec => []TypeInv
<1>1. TypeInv /\ [Next]_vars => TypeInv'
  BY NextType
<1> QED BY <1>1, InitType, PTL DEF Spec

-----------------------------------------------------------------------------
(* The size of the texture: from the resize on, the image is as large as the *)
(* frame, and a tick that draws has a texture.                               *)
Fitting ==
  /\ tick = "fill" => texture # 0
  /\ Calm /\ tick \in {"create", "make", "fill"} => cx = Size[frame]

(* Every step keeps the texture fitting.                                     *)
LEMMA NextFitting ==
  ASSUME TypeInv, Fitting, [Next]_vars
  PROVE  Fitting'
<1>1. CASE HandleConnect /\ UNCHANGED env
  BY <1>1 DEF HandleConnect, Fitting, Calm, sourceVars
<1>2. CASE HandleReadHeader /\ UNCHANGED env
  BY <1>2 DEF HandleReadHeader, Fitting, Calm, sourceVars
<1>3. CASE HandleReadBody /\ UNCHANGED env
  BY <1>3 DEF HandleReadBody, Fitting, Calm, sourceVars
<1>4. CASE Tick_ReadBuffer /\ UNCHANGED env
  <2>1. tick' \in {"idle", "resize"}
    BY <1>4 DEF Tick_ReadBuffer
  <2> QED BY <2>1 DEF Fitting
<1>5. CASE Tick_Resize /\ UNCHANGED env
  BY <1>5 DEF Tick_Resize, Fitting, collectVars
<1>6. CASE Tick_Test /\ UNCHANGED env
  BY <1>6 DEF Tick_Test, Fitting, Calm
<1>7. CASE Tick_Create /\ UNCHANGED env
  <2>1. texture' # 0
    BY <1>7 DEF Tick_Create, TypeInv, TypeOK, Sound
  <2> QED BY <1>7, <2>1 DEF Tick_Create, Fitting, Calm
<1>8. CASE Tick_Fill /\ UNCHANGED env
  BY <1>8 DEF Tick_Fill, Fitting
<1>9. CASE Update /\ UNCHANGED env
  <2>1. tick = "fill" => texture' # 0
    BY <1>9 DEF Update, Fitting
  <2>2. Calm => tick = "idle"
    BY <1>9, Zenon DEF Update, Calm
  <2>3. Calm' => Calm
    BY <1>9, Zenon DEF Calm
  <2> QED BY <1>9, <2>1, <2>2, <2>3 DEF Update, Fitting
<1>10. CASE UNCHANGED vars
  BY <1>10 DEF vars, Fitting, Calm, sourceVars
<1> QED BY <1>1, <1>2, <1>3, <1>4, <1>5, <1>6, <1>7, <1>8, <1>9, <1>10 DEF Next, Tick

(* Every variable keeps its type, and in calm surroundings a frame is drawn  *)
(* into a texture of its own size, whatever sizes the frames have and        *)
(* whenever the settings change between two ticks.                           *)
THEOREM TextureCorrect == Spec => []TextureFits
<1>1. Init => Fitting
  BY DEF Init, Fitting
<1>2. TypeInv /\ Fitting /\ [Next]_vars => Fitting'
  BY NextFitting
<1>3. TypeInv /\ Fitting => TextureFits
  <2> SUFFICES ASSUME TypeInv, Fitting, Calm, tick = "fill" PROVE texture = Size[frame]
    BY DEF TextureFits, TypeInv
  <2> QED BY DEF TypeInv, Sound, Fitting
<1> QED BY <1>1, <1>2, <1>3, TypesHold, PTL DEF Spec

-----------------------------------------------------------------------------
(* The order of the messages: what was collected comes before what is        *)
(* waiting, and that before what is still to be read; ConnectFailure is no   *)
(* message of a frame.                                                       *)
InOrder ==
  /\ \A n \in Waiting : n <= got
  /\ \A m \in imageQueue : m <= got /\ \A n \in Waiting : m <= n

(* No strip of the picture is newer than a message that may still be drawn.  *)
PictureBehind ==
  \A s \in Strip :
    /\ picture[s] <= Frame(got)
    /\ \A n \in imageQueue \cup Waiting : picture[s] <= Frame(n)

OrderInv == InOrder /\ PictureBehind

(* Waiting messages have numbers.                                            *)
LEMMA WaitingType ==
  ASSUME TypeInv
  PROVE  /\ Waiting \in SUBSET (0..LastMessage) /\ Waiting \in SUBSET Nat
         /\ imageQueue \in SUBSET (0..LastMessage) /\ imageQueue \in SUBSET Nat
         /\ \A n \in imageQueue : IsBody(n)
         /\ got \in 0..LastMessage /\ got \in Nat /\ Frame(got) \in Nat
         /\ \A s \in Strip : picture[s] \in 0..MaxFrames
<1>1. queue[current] \in SUBSET (0..LastMessage)
  BY DEF TypeInv, TypeOK
<1>2. got \in 0..LastMessage /\ got \in Nat
  BY Places, Bounds DEF TypeInv, Sound
<1>3. Waiting \in SUBSET (0..LastMessage) /\ Waiting \in SUBSET Nat
  BY <1>1, Bounds DEF Waiting
<1>4. /\ imageQueue \in SUBSET (0..LastMessage) /\ imageQueue \in SUBSET Nat
      /\ \A n \in imageQueue : IsBody(n)
  BY Bounds DEF TypeInv, TypeOK
<1>5. \A s \in Strip : picture[s] \in 0..MaxFrames
  BY DEF TypeInv, TypeOK
<1> QED BY <1>2, <1>3, <1>4, <1>5, MessageSplit

(* The order is kept when messages are only dropped and strips only cleared. *)
LEMMA OrderKept ==
  ASSUME TypeInv, OrderInv, Waiting' \subseteq Waiting, imageQueue' \subseteq imageQueue,
         got' = got, \A s \in Strip : picture'[s] \in {0, picture[s]}
  PROVE  OrderInv'
<1>1. InOrder'
  BY DEF OrderInv, InOrder
<1>2. PictureBehind'
  <2> SUFFICES ASSUME NEW s \in Strip
               PROVE  /\ picture'[s] <= Frame(got')
                      /\ \A n \in imageQueue' \cup Waiting' : picture'[s] <= Frame(n)
    BY DEF PictureBehind
  <2>1. /\ picture[s] <= Frame(got) /\ Frame(got) \in Nat
        /\ \A n \in imageQueue \cup Waiting : picture[s] <= Frame(n) /\ Frame(n) \in Nat
    BY WaitingType, MessageSplit DEF OrderInv, PictureBehind
  <2>2. picture'[s] = 0 \/ picture'[s] = picture[s]
    OBVIOUS
  <2> QED BY <2>1, <2>2
<1> QED BY <1>1, <1>2 DEF OrderInv

(* What is drawn is not older than the picture, and not newer than what      *)
(* waits.                                                                    *)
LEMMA DrawnBehind ==
  ASSUME TypeInv, OrderInv, NEW s \in Strip, Drawn(s) # 0
  PROVE  /\ picture[s] <= Drawn(s) /\ Drawn(s) <= Frame(got)
         /\ \A n \in Waiting : Drawn(s) <= Frame(n)
<1>1. PICK m \in imageQueue : Drawn(s) = Frame(m)
  BY DrawnType DEF TypeInv
<1>2. m \in Nat /\ got \in Nat /\ Waiting \in SUBSET Nat
  BY WaitingType
<1>3. m <= got /\ \A n \in Waiting : m <= n
  BY DEF OrderInv, InOrder
<1>4. Frame(m) <= Frame(got) /\ \A n \in Waiting : Frame(m) <= Frame(n)
  BY <1>2, <1>3, FrameMonotone
<1>5. picture[s] <= Frame(m)
  BY DEF OrderInv, PictureBehind
<1> QED BY <1>1, <1>4, <1>5

(* Every step keeps the order.                                               *)
LEMMA NextOrder ==
  ASSUME TypeInv, OrderInv, [Next]_vars
  PROVE  OrderInv'
<1>1. CASE HandleConnect
  <2>1. /\ Waiting' \subseteq Waiting /\ imageQueue' \subseteq imageQueue /\ got' = got
        /\ picture' = picture
    BY <1>1, ConnectFails DEF HandleConnect, collectVars, sourceVars
  <2> QED BY <2>1, OrderKept
<1>2. CASE HandleReadHeader
  <2>1. /\ Waiting' \subseteq Waiting /\ imageQueue' \subseteq imageQueue /\ got' = got
        /\ picture' = picture
    BY <1>2 DEF HandleReadHeader, collectVars, sourceVars, Waiting
  <2> QED BY <2>1, OrderKept
<1>3. CASE HandleReadBody
  <2>1. CASE got' = got
    <3>1. /\ Waiting' \subseteq Waiting /\ imageQueue' \subseteq imageQueue
          /\ picture' = picture
      BY <1>3, <2>1 DEF HandleReadBody, collectVars, sourceVars, Waiting, TypeInv, TypeOK
    <3> QED BY <2>1, <3>1, OrderKept
  <2>2. CASE got' # got
    <3>1. /\ got' = got + 1 /\ got' \in Nat /\ Waiting' \subseteq Waiting \cup {got'}
          /\ imageQueue' = imageQueue /\ picture' = picture
      BY <1>3, <2>2, ReadBody DEF HandleReadBody, collectVars, sourceVars
    <3>2. /\ got \in Nat /\ Waiting \in SUBSET Nat /\ imageQueue \in SUBSET Nat
          /\ Frame(got) \in Nat /\ \A s \in Strip : picture[s] \in Nat
      BY WaitingType
    <3>3. InOrder'
      BY <3>1, <3>2 DEF OrderInv, InOrder
    <3>4. PictureBehind'
      <4>1. Frame(got) <= Frame(got') /\ Frame(got') \in Nat
        BY <3>1, <3>2, FrameMonotone, MessageSplit
      <4>2. \A s \in Strip : picture[s] <= Frame(got')
        BY <3>2, <4>1 DEF OrderInv, PictureBehind
      <4>3. \A s \in Strip : \A n \in imageQueue' \cup Waiting' : picture[s] <= Frame(n)
        BY <3>1, <4>2 DEF OrderInv, PictureBehind
      <4> QED BY <3>1, <4>2, <4>3 DEF PictureBehind
    <3> QED BY <3>3, <3>4 DEF OrderInv
  <2> QED BY <2>1, <2>2
<1>4. CASE Tick_ReadBuffer
  <2> DEFINE batch == queue[current]
  <2>1. batch \in SUBSET (0..LastMessage) /\ TypeOK
    BY DEF TypeInv, TypeOK
  <2>2. imageQueue' = Collected(Handled(batch)) /\ Swap /\ UNCHANGED <<got, picture>>
    BY <1>4 DEF Tick_ReadBuffer
  <2>3. imageQueue' \subseteq {n \in imageQueue \cup batch : n \in 0..LastMessage /\ IsBody(n)}
    <3> HIDE DEF batch
    <3> QED BY <2>1, <2>2, HandledType
  <2>4. ~ IsBody(ConnectFailure)
    BY Places DEF IsBody, ConnectFailure
  <2>5. imageQueue' \subseteq imageQueue \cup Waiting
    BY <2>3, <2>4 DEF Waiting
  <2>6. Waiting' = {}
    BY <2>1, <2>2, Swapped
  <2>7. InOrder'
    BY <2>2, <2>5, <2>6 DEF OrderInv, InOrder
  <2>8. PictureBehind'
    BY <2>2, <2>5, <2>6 DEF OrderInv, PictureBehind
  <2> QED BY <2>7, <2>8 DEF OrderInv
<1>5. CASE Tick_Resize
  <2>1. /\ Waiting' \subseteq Waiting /\ imageQueue' \subseteq imageQueue /\ got' = got
        /\ picture' = picture \/ picture' = Blank
    BY <1>5 DEF Tick_Resize, collectVars, clientVars, Waiting
  <2>2. \A s \in Strip : picture'[s] \in {0, picture[s]}
    BY <2>1 DEF Blank
  <2> QED BY <2>1, <2>2, OrderKept
<1>6. CASE Tick_Test
  <2>1. /\ Waiting' \subseteq Waiting /\ imageQueue' \subseteq imageQueue /\ got' = got
        /\ picture' = picture
    BY <1>6 DEF Tick_Test, collectVars, clientVars, Waiting
  <2> QED BY <2>1, OrderKept
<1>7. CASE Tick_Create
  <2>1. /\ Waiting' \subseteq Waiting /\ imageQueue' \subseteq imageQueue /\ got' = got
        /\ picture' = Blank
    BY <1>7 DEF Tick_Create, collectVars, clientVars, Waiting
  <2>2. \A s \in Strip : picture'[s] \in {0, picture[s]}
    BY <2>1 DEF Blank
  <2> QED BY <2>1, <2>2, OrderKept
<1>8. CASE Tick_Fill
  <2>1. Waiting' \subseteq Waiting /\ got' = got
    BY <1>8 DEF Tick_Fill, clientVars, Waiting
  <2>2. CASE UNCHANGED <<collectVars, picture, shown>>
    <3>1. imageQueue' \subseteq imageQueue /\ picture' = picture
      BY <2>2 DEF collectVars
    <3> QED BY <2>1, <3>1, OrderKept
  <2>3. CASE FillAllImageBuffer /\ imageFrame = 0
    <3>1. imageQueue' \subseteq imageQueue /\ picture' = Blank
      BY <2>3 DEF FillAllImageBuffer, collectVars
    <3>2. \A s \in Strip : picture'[s] \in {0, picture[s]}
      BY <3>1 DEF Blank
    <3> QED BY <2>1, <3>1, <3>2, OrderKept
  <2>4. CASE FillAllImageBuffer /\ imageFrame # 0
    <3>1. imageQueue' = {} /\ picture' = [s \in Strip |-> Drawn(s)]
      BY <2>4 DEF FillAllImageBuffer, Drawn
    <3>2. InOrder'
      BY <2>1, <3>1 DEF OrderInv, InOrder
    <3>3. ASSUME NEW s \in Strip
          PROVE  Drawn(s) <= Frame(got) /\ \A n \in Waiting : Drawn(s) <= Frame(n)
      <4>1. Frame(got) \in Nat /\ \A n \in Waiting : Frame(n) \in Nat
        BY WaitingType, MessageSplit
      <4>2. CASE Drawn(s) = 0
        BY <4>1, <4>2
      <4>3. CASE Drawn(s) # 0
        BY <4>3, DrawnBehind
      <4> QED BY <4>2, <4>3
    <3>4. \A s \in Strip : picture'[s] = Drawn(s)
      BY <3>1
    <3>5. PictureBehind'
      BY <2>1, <3>1, <3>3, <3>4 DEF PictureBehind
    <3> QED BY <3>2, <3>5 DEF OrderInv
  <2> QED BY <1>8, <2>2, <2>3, <2>4 DEF Tick_Fill
<1>9. CASE Update
  <2>1. Waiting' = {} /\ imageQueue' = {} /\ Frame(got') = Frame(got) /\ Frame(got) \in Nat
    BY <1>9, UpdateType, WaitingType
  <2>2. picture' = picture \/ picture' = Blank
    BY <1>9 DEF Update
  <2>3. InOrder'
    BY <2>1 DEF InOrder
  <2>4. \A s \in Strip : picture'[s] <= Frame(got')
    BY <2>1, <2>2 DEF Blank, OrderInv, PictureBehind
  <2> QED BY <2>1, <2>3, <2>4 DEF OrderInv, PictureBehind
<1>10. CASE UNCHANGED vars
  BY <1>10 DEF vars, OrderInv, InOrder, PictureBehind, Waiting, clientVars, collectVars,
               sourceVars
<1> QED BY <1>1, <1>2, <1>3, <1>4, <1>5, <1>6, <1>7, <1>8, <1>9, <1>10 DEF Next, Tick

(* What a step does to the strips, see NeverOlder.                           *)
StripsNotOlder == \A s \in Strip : picture'[s] # 0 => picture'[s] >= picture[s]

(* Only the fill draws, and what it draws is not older.                      *)
LEMMA StepNotOlder ==
  ASSUME TypeInv, OrderInv, [Next]_vars
  PROVE  StripsNotOlder
<1> USE DEF StripsNotOlder
<1>1. CASE Tick_Fill
  <2>1. CASE FillAllImageBuffer /\ imageFrame # 0
    <3>1. picture' = [s \in Strip |-> Drawn(s)]
      BY <2>1 DEF FillAllImageBuffer, Drawn
    <3> SUFFICES ASSUME NEW s \in Strip, picture'[s] # 0 PROVE picture'[s] >= picture[s]
      OBVIOUS
    <3>2. picture[s] <= Drawn(s)
      BY <3>1, DrawnBehind
    <3>3. picture[s] \in Nat /\ Drawn(s) \in Nat
      BY WaitingType, DrawnType DEF TypeInv
    <3> QED BY <3>1, <3>2, <3>3
  <2>2. CASE picture' = Blank
    BY <2>2 DEF Blank
  <2>3. CASE picture' = picture
    BY <2>3, WaitingType
  <2> QED BY <1>1, <2>1, <2>2, <2>3 DEF Tick_Fill, FillAllImageBuffer
<1>2. CASE ~ Tick_Fill
  <2>1. picture' = picture \/ picture' = Blank
    BY <1>2 DEF Next, Tick, HandleConnect, HandleReadHeader, HandleReadBody,
                Tick_ReadBuffer, Tick_Resize, Tick_Test, Tick_Create, Update, vars,
                sourceVars
  <2>2. CASE picture' = Blank
    BY <2>2 DEF Blank
  <2>3. CASE picture' = picture
    BY <2>3, WaitingType
  <2> QED BY <2>1, <2>2, <2>3
<1> QED BY <1>1, <1>2

(* In any surroundings - messages lost from a full queue, a texture that     *)
(* cannot be mapped, settings that change in the middle of a tick - no strip *)
(* of the picture is replaced by one of an older frame.                      *)
THEOREM NeverOlderCorrect == Spec => NeverOlder
<1>1. Init => OrderInv
  <2> SUFFICES ASSUME Init PROVE OrderInv
    OBVIOUS
  <2>1. Waiting = {} /\ imageQueue = {} /\ \A s \in Strip : picture[s] = 0
    BY DEF Init, Waiting, Blank
  <2>2. Frame(got) \in Nat
    BY InitType, WaitingType
  <2> QED BY <2>1, <2>2 DEF OrderInv, InOrder, PictureBehind
<1>2. TypeInv /\ OrderInv /\ [Next]_vars => OrderInv'
  BY NextOrder
<1>3. TypeInv /\ OrderInv /\ [Next]_vars => [StripsNotOlder]_vars
  BY StepNotOlder
<1> QED BY <1>1, <1>2, <1>3, TypesHold, PTL DEF Spec, NeverOlder, StripsNotOlder

-----------------------------------------------------------------------------
(* The calm surroundings: what the batches hold of the frames.               *)

(* The messages of a frame are those from its Begin to its Finish.           *)
LEMMA Span ==
  ASSUME NEW f \in Nat, NEW n \in Nat
  PROVE  /\ f < Frame(n) <=> Message(f, M - 1) < n
         /\ Frame(n) < f <=> n < Message(f, 0)
         /\ Frame(n) \in Nat /\ Message(f, 0) \in Nat
         /\ Message(f, M - 1) = Message(f, 0) + (M - 1)
<1> DEFINE g == Frame(n)
<1>1. /\ g \in Nat /\ n % M \in 0..(M - 1) /\ n = Message(g, n % M)
      /\ 0 \in 0..(M - 1) /\ M - 1 \in 0..(M - 1) /\ M \in Nat /\ M >= 3
  <2>1. g \in Nat /\ n % M \in 0..(M - 1) /\ n = Message(g, n % M)
    BY MessageSplit
  <2>2. 0 \in 0..(M - 1) /\ M - 1 \in 0..(M - 1) /\ M \in Nat /\ M >= 3
    BY Places
  <2> QED BY <2>1, <2>2
<1>2. /\ Message(f, 0) \in Nat /\ Message(f, M - 1) = Message(f, 0) + (M - 1)
  BY <1>1, Placing
<1>3. ASSUME f < g PROVE Message(f, M - 1) < n /\ Message(f, 0) < n
  <2>1. Message(f, M - 1) < Message(g, n % M) /\ Message(f, 0) < Message(g, n % M)
    BY <1>1, <1>3, MessageOrder
  <2> HIDE DEF g
  <2> QED BY <1>1, <2>1
<1>4. ASSUME g < f PROVE n < Message(f, 0) /\ n < Message(f, M - 1)
  <2>1. Message(g, n % M) < Message(f, M - 1) /\ Message(g, n % M) < Message(f, 0)
    BY <1>1, <1>4, MessageOrder
  <2> HIDE DEF g
  <2> QED BY <1>1, <2>1
<1>5. ASSUME g = f PROVE Message(f, 0) <= n /\ n <= Message(f, M - 1)
  <2> DEFINE place == n % M
             base == Message(f, 0)
  <2>1. n = base + place
    BY <1>1, <1>5, Placing
  <2>2. base \in Nat /\ place \in 0..(M - 1) /\ Message(f, M - 1) = base + (M - 1)
    BY <1>1, <1>2
  <2> HIDE DEF place, base
  <2>3. base <= n /\ n <= Message(f, M - 1)
    BY <2>1, <2>2, <1>1
  <2> QED BY <2>3 DEF base
<1> HIDE DEF g
<1>6. Message(f, 0) \in Nat /\ Message(f, M - 1) \in Nat
  BY <1>1, <1>2
<1>7. \/ f < g /\ Message(f, M - 1) < n /\ Message(f, 0) < n
      \/ g < f /\ n < Message(f, 0) /\ n < Message(f, M - 1)
      \/ g = f /\ Message(f, 0) <= n /\ n <= Message(f, M - 1)
  BY <1>1, <1>3, <1>4, <1>5
<1>8. /\ f < g <=> Message(f, M - 1) < n
      /\ g < f <=> n < Message(f, 0)
  BY <1>1, <1>6, <1>7
<1> QED BY <1>1, <1>2, <1>8 DEF g

(* Nothing is missing between a waiting message and the last one read.       *)
NoGap == \A n \in Waiting : \A k \in n..got : k \in Waiting

(* The frame being collected is newer than the picture; between two ticks    *)
(* what was read of it was collected or is waiting.                          *)
Collecting ==
  imageFrame # 0 =>
    /\ shown < imageFrame
    /\ Message(imageFrame, 0) <= got
    /\ \A n \in Waiting : Message(imageFrame, 0) < n
    /\ \A n \in imageQueue : Frame(n) = imageFrame
    /\ tick = "idle" =>
         \A k \in Nat : Message(imageFrame, 0) < k /\ k <= got => k \in Waiting \cup imageQueue

(* In the middle of a tick all of the frame was received and collected.      *)
Complete ==
  tick # "idle" =>
    /\ imageFrame \in finished
    /\ \A s \in Strip : Message(imageFrame, s) \in imageQueue
    /\ Message(imageFrame, M - 1) <= got
    /\ \A n \in Waiting : Message(imageFrame, M - 1) < n

(* All of the newest frame drawn was read, and what waits came after it.     *)
Fresh ==
  /\ Message(shown, M - 1) <= got
  /\ \A n \in Waiting : Message(shown, M - 1) < n

(* The frames received in full are those whose Finish was read.              *)
Received ==
  /\ \A f \in finished : Message(f, M - 1) <= got
  /\ \A n \in Waiting : IsFinish(n) => Frame(n) \in finished

Whole == NoGap /\ Collecting /\ Complete /\ Fresh /\ Received

(* The frame collected at a message of the batch is that of the last Begin   *)
(* before it, or the one that was begun before.                              *)
LEMMA FrameAtCases ==
  ASSUME TypeOK, NEW batch \in SUBSET (0..LastMessage), NEW n \in 0..LastMessage
  PROVE  \/ /\ FrameAt(batch, n) = imageFrame
            /\ \A d \in batch : ~ (IsBegin(d) /\ d <= n)
         \/ \E b \in batch : /\ IsBegin(b) /\ b <= n /\ FrameAt(batch, n) = Frame(b)
                             /\ \A d \in batch : IsBegin(d) /\ d <= n => d <= b
<1> DEFINE begins == {b \in batch : IsBegin(b) /\ b <= n}
<1>1. CASE begins = {}
  BY <1>1 DEF FrameAt
<1>2. CASE begins # {}
  <2>1. Max(begins) \in begins /\ \A d \in begins : d <= Max(begins)
    BY <1>2, Bounds, MaxIsLargest
  <2>2. FrameAt(batch, n) = Frame(Max(begins))
    BY <1>2 DEF FrameAt
  <2> QED BY <2>1, <2>2
<1> QED BY <1>1, <1>2

(* What is collected are the bodies after the last Begin, or those of all    *)
(* the batches since it.                                                     *)
LEMMA CollectedCases ==
  ASSUME TypeOK, NEW handled \in SUBSET (0..LastMessage)
  PROVE  \/ /\ Collected(handled) = imageQueue \cup {n \in handled : IsBody(n)}
            /\ \A d \in handled : ~ IsBegin(d)
         \/ \E b \in handled : /\ IsBegin(b)
                               /\ Collected(handled) = {n \in handled : IsBody(n) /\ n > b}
                               /\ \A d \in handled : IsBegin(d) => d <= b
<1> DEFINE begins == {b \in handled : IsBegin(b)}
<1>1. CASE begins = {}
  BY <1>1 DEF Collected
<1>2. CASE begins # {}
  <2>1. Max(begins) \in begins /\ \A d \in begins : d <= Max(begins)
    BY <1>2, Bounds, MaxIsLargest
  <2>2. Collected(handled) = {n \in handled : IsBody(n) /\ n > Max(begins)}
    BY <1>2 DEF Collected
  <2> QED BY <2>1, <2>2
<1> QED BY <1>1, <1>2

(* A frame that has been begun at message n of the batch is newer than the   *)
(* picture, and everything read since its Begin was collected or is in the   *)
(* batch.                                                                    *)
LEMMA Started ==
  ASSUME TypeInv, OrderInv, Whole, tick = "idle",
         NEW n \in 0..LastMessage, NEW f, f = FrameAt(queue[current], n), f # 0
  PROVE  /\ f \in 1..MaxFrames /\ shown < f /\ Message(f, 0) <= got
         /\ n \in Waiting => Message(f, 0) <= n
         /\ \A k \in Nat : Message(f, 0) < k /\ k <= got => k \in Waiting \cup imageQueue
         /\ \A d \in Waiting : IsBegin(d) /\ d <= n => d <= Message(f, 0)
         /\ \/ Message(f, 0) \in Waiting /\ IsBegin(Message(f, 0)) /\ Message(f, 0) <= n
            \/ f = imageFrame /\ \A d \in Waiting : Message(f, 0) < d
<1> DEFINE batch == queue[current]
<1>1. batch \in SUBSET (0..LastMessage) /\ TypeOK /\ shown \in Nat
  BY DEF TypeInv, TypeOK
<1>2. f \in 1..MaxFrames /\ f \in Nat
  BY <1>1, FrameAtType
<1>3. Waiting \in SUBSET Nat /\ got \in Nat /\ Message(f, 0) \in Nat
  BY <1>2, WaitingType, Span
<1>4. /\ \A b \in Waiting : b \in batch
      /\ \A b \in batch : IsBegin(b) => b \in Waiting
  BY DEF Waiting, IsBegin, ConnectFailure
<1> HIDE DEF batch
<1>5. CASE f = imageFrame /\ \A d \in batch : ~ (IsBegin(d) /\ d <= n)
  <2>1. /\ shown < f /\ Message(f, 0) <= got
        /\ \A d \in Waiting : Message(f, 0) < d
        /\ \A k \in Nat : Message(f, 0) < k /\ k <= got => k \in Waiting \cup imageQueue
    BY <1>5 DEF Whole, Collecting
  <2> QED BY <1>2, <1>3, <1>4, <1>5, <2>1
<1>6. ASSUME NEW b \in batch, IsBegin(b), b <= n, f = Frame(b),
             \A d \in batch : IsBegin(d) /\ d <= n => d <= b
      PROVE  /\ f \in 1..MaxFrames /\ shown < f /\ Message(f, 0) <= got
             /\ n \in Waiting => Message(f, 0) <= n
             /\ \A k \in Nat : Message(f, 0) < k /\ k <= got => k \in Waiting \cup imageQueue
             /\ \A d \in Waiting : IsBegin(d) /\ d <= n => d <= Message(f, 0)
             /\ Message(f, 0) \in Waiting /\ IsBegin(Message(f, 0)) /\ Message(f, 0) <= n
  <2>1. b \in Waiting /\ b \in Nat
    BY <1>3, <1>4, <1>6
  <2>2. b = Message(f, 0)
    BY <1>6, <2>1, Kinds
  <2>3. b <= got
    BY <2>1 DEF OrderInv, InOrder
  <2>4. \A k \in Nat : b < k /\ k <= got => k \in Waiting
    BY <1>3, <2>1 DEF Whole, NoGap
  <2>5. shown < f
    <3>1. Message(shown, M - 1) < b
      BY <2>1 DEF Whole, Fresh
    <3> QED BY <1>1, <1>6, <2>1, <3>1, Span
  <2> QED BY <1>2, <1>4, <1>6, <2>1, <2>2, <2>3, <2>4, <2>5
<1>7. \/ f = imageFrame /\ \A d \in batch : ~ (IsBegin(d) /\ d <= n)
      \/ \E b \in batch : /\ IsBegin(b) /\ b <= n /\ f = Frame(b)
                          /\ \A d \in batch : IsBegin(d) /\ d <= n => d <= b
  BY <1>1, FrameAtCases DEF batch
<1> QED BY <1>5, <1>6, <1>7

(* What was handled up to message e of the batch, when a frame was begun.    *)
LEMMA CollectedOfFrame ==
  ASSUME TypeInv, OrderInv, Whole, tick = "idle",
         NEW e \in 0..LastMessage, NEW f, f = FrameAt(queue[current], e), f # 0,
         NEW handled, handled = {n \in queue[current] : n <= e}
  PROVE  /\ \A k \in Nat : IsBody(k) /\ Message(f, 0) < k /\ k <= e /\ k <= got
                             => k \in Collected(handled)
         /\ \A n \in Collected(handled) :
              /\ n \in Nat /\ IsBody(n)
              /\ Frame(n) = f \/ (n \in Waiting /\ n <= e /\ Message(f, 0) < n)
<1>1. /\ f \in 1..MaxFrames /\ f \in Nat
      /\ \A k \in Nat : Message(f, 0) < k /\ k <= got => k \in Waiting \cup imageQueue
      /\ \A d \in Waiting : IsBegin(d) /\ d <= e => d <= Message(f, 0)
      /\ \/ Message(f, 0) \in Waiting /\ IsBegin(Message(f, 0)) /\ Message(f, 0) <= e
         \/ f = imageFrame /\ \A d \in Waiting : Message(f, 0) < d
  BY Started
<1>2. /\ Waiting \in SUBSET Nat /\ got \in Nat /\ Message(f, 0) \in Nat
      /\ imageQueue \in SUBSET Nat /\ \A n \in imageQueue : IsBody(n)
  BY <1>1, WaitingType, Span
<1>3. /\ handled \in SUBSET (0..LastMessage) /\ TypeOK
  BY DEF TypeInv, TypeOK
<1>4. \A n : IsBegin(n) \/ IsBody(n) => n # ConnectFailure
  <2>1. ~ IsBody(ConnectFailure)
    BY Places DEF IsBody, ConnectFailure
  <2> QED BY <2>1 DEF IsBegin
<1>5. /\ \A n \in Waiting : n <= e => n \in handled
      /\ \A n \in handled : n # ConnectFailure => n \in Waiting /\ n <= e
  BY DEF Waiting
<1>6. \A m \in imageQueue, n \in Waiting : m <= n
  BY DEF OrderInv, InOrder
<1>7. CASE /\ Collected(handled) = imageQueue \cup {n \in handled : IsBody(n)}
           /\ \A d \in handled : ~ IsBegin(d)
  <2>1. f = imageFrame /\ \A d \in Waiting : Message(f, 0) < d
    BY <1>1, <1>5, <1>7
  <2>2. \A n \in imageQueue : Frame(n) = f
    BY <2>1, <1>1 DEF Whole, Collecting
  <2> QED BY <1>1, <1>2, <1>4, <1>5, <1>7, <2>1, <2>2
<1>8. ASSUME NEW b \in handled, IsBegin(b),
             Collected(handled) = {n \in handled : IsBody(n) /\ n > b},
             \A d \in handled : IsBegin(d) => d <= b
      PROVE  /\ \A k \in Nat : IsBody(k) /\ Message(f, 0) < k /\ k <= e /\ k <= got
                                 => k \in Collected(handled)
             /\ \A n \in Collected(handled) :
                  /\ n \in Nat /\ IsBody(n) /\ n \in Waiting /\ n <= e /\ Message(f, 0) < n
  <2>1. b \in Waiting /\ b <= e /\ b \in Nat
    BY <1>2, <1>4, <1>5, <1>8
  <2>2. b <= Message(f, 0)
    BY <1>1, <1>8, <2>1
  <2>3. b = Message(f, 0)
    BY <1>1, <1>2, <1>5, <1>8, <2>1, <2>2
  <2>4. ASSUME NEW k \in Nat, IsBody(k), Message(f, 0) < k, k <= e, k <= got
        PROVE  k \in Collected(handled)
    <3>1. k \notin imageQueue
      BY <1>2, <1>6, <2>1, <2>3, <2>4
    <3>2. k \in handled
      BY <1>1, <1>5, <2>4, <3>1
    <3> QED BY <1>8, <2>3, <2>4, <3>2
  <2>5. ASSUME NEW n \in Collected(handled)
        PROVE  n \in Nat /\ IsBody(n) /\ n \in Waiting /\ n <= e /\ Message(f, 0) < n
    BY <1>2, <1>4, <1>5, <1>8, <2>3, <2>5
  <2> QED BY <2>4, <2>5
<1>9. \/ /\ Collected(handled) = imageQueue \cup {n \in handled : IsBody(n)}
         /\ \A d \in handled : ~ IsBegin(d)
      \/ \E b \in handled : /\ IsBegin(b)
                            /\ Collected(handled) = {n \in handled : IsBody(n) /\ n > b}
                            /\ \A d \in handled : IsBegin(d) => d <= b
  BY <1>3, CollectedCases
<1> QED BY <1>7, <1>8, <1>9

(* Up to message e the frame that was begun stays the same.                  *)
LEMMA FrameAtSame ==
  ASSUME TypeInv, OrderInv, Whole, tick = "idle",
         NEW e \in 0..LastMessage, NEW f, f = FrameAt(queue[current], e), f # 0,
         NEW n \in 0..LastMessage, Message(f, 0) <= n, n <= e
  PROVE  FrameAt(queue[current], n) = f
<1> DEFINE batch == queue[current]
<1>1. /\ f \in 1..MaxFrames /\ f \in Nat
      /\ \A d \in Waiting : IsBegin(d) /\ d <= e => d <= Message(f, 0)
  BY Started
<1>2. /\ Message(f, 0) \in Nat /\ Waiting \in SUBSET Nat
      /\ batch \in SUBSET (0..LastMessage)
  BY <1>1, WaitingType, Span DEF TypeInv, TypeOK
<1>3. \A b \in batch : IsBegin(b) => b \in Waiting
  BY DEF Waiting, IsBegin
<1> HIDE DEF batch
<1>4. {b \in batch : IsBegin(b) /\ b <= n} = {b \in batch : IsBegin(b) /\ b <= e}
  <2>1. \A b \in batch : IsBegin(b) => (b <= n <=> b <= e)
    BY <1>1, <1>2, <1>3
  <2> QED BY <2>1
<1>5. FrameAt(batch, n) = FrameAt(batch, e)
  BY <1>4, Zenon DEF FrameAt
<1> QED BY <1>5 DEF batch

(* The Finish that completes a frame is that of the frame begun.             *)
LEMMA CompletesItsFrame ==
  ASSUME TypeInv, OrderInv, Whole, tick = "idle", Completing(queue[current]) # {},
         NEW c, c = Min(Completing(queue[current])),
         NEW f, f = FrameAt(queue[current], c)
  PROVE  /\ f \in 1..MaxFrames /\ c \in Waiting /\ c = Message(f, M - 1)
         /\ IsFinish(c) /\ Frame(c) = f
<1> DEFINE batch == queue[current]
<1>1. batch \in SUBSET (0..LastMessage) /\ TypeOK
  BY DEF TypeInv, TypeOK
<1>2. c \in Completing(batch) /\ \A n \in Completing(batch) : c <= n
  BY <1>1, CompletedFrame
<1>3. c \in batch /\ c \in 0..LastMessage /\ c \in Nat /\ IsFinish(c) /\ f # 0
  BY <1>1, <1>2, Bounds DEF Completing
<1>4. c \in Waiting /\ c = Message(Frame(c), M - 1)
  BY <1>3, Kinds DEF Waiting
<1>5. /\ f \in 1..MaxFrames /\ f \in Nat /\ Message(f, 0) <= c
      /\ \A k \in Nat : Message(f, 0) < k /\ k <= got => k \in Waiting \cup imageQueue
  BY <1>3, <1>4, Started
<1>6. c <= got /\ got \in Nat
  BY <1>4, WaitingType DEF OrderInv, InOrder
<1>7. CASE f < Frame(c)
  <2> DEFINE k == Message(f, M - 1)
  <2>1. k < c /\ k = Message(f, 0) + (M - 1) /\ Message(f, 0) \in Nat
    BY <1>3, <1>5, <1>7, Span
  <2>2. k \in Nat /\ Frame(k) = f
    BY <1>5, Places, MessageParts
  <2> HIDE DEF k
  <2>3. k \in 0..LastMessage /\ Message(f, 0) < k /\ k <= got
    <3>1. LastMessage \in Nat
      BY Bounds
    <3>2. k \in 0..LastMessage /\ k <= got
      BY <1>3, <1>6, <2>1, <2>2, <3>1
    <3>3. Message(f, 0) < k
      BY <2>1, <2>2, Places
    <3> QED BY <3>2, <3>3
  <2>4. IsFinish(k) /\ ~ IsBody(k)
    BY <2>2, Kinds DEF k
  <2>5. k \in batch
    BY <1>5, <2>2, <2>3, <2>4, WaitingType DEF Waiting
  <2>6. FrameAt(batch, k) = f
    BY <1>3, <2>1, <2>2, <2>3, FrameAtSame
  <2>7. k \in Completing(batch)
    BY <1>3, <2>4, <2>5, <2>6 DEF Completing
  <2> QED BY <1>2, <1>3, <2>1, <2>2, <2>7
<1>8. ~ (Frame(c) < f)
  <2>1. Frame(c) < f <=> c < Message(f, 0)
    BY <1>3, <1>5, Span
  <2>2. Message(f, 0) \in Nat
    BY <1>5, Span
  <2> QED BY <1>3, <1>5, <2>1, <2>2
<1>9. Frame(c) = f
  BY <1>3, <1>5, <1>7, <1>8, MessageSplit
<1> QED BY <1>3, <1>4, <1>5, <1>9

(* A batch that completes a frame has collected the whole of it.             *)
LEMMA CompletedWhole ==
  ASSUME TypeInv, OrderInv, Whole, tick = "idle", Completing(queue[current]) # {},
         NEW f, f = FrameAt(Handled(queue[current]), LastMessage)
  PROVE  /\ f \in 1..MaxFrames /\ f \in finished /\ shown < f
         /\ Message(f, 0) <= got /\ Message(f, M - 1) <= got
         /\ \A s \in Strip : Message(f, s) \in Collected(Handled(queue[current]))
         /\ \A n \in Collected(Handled(queue[current])) : Frame(n) = f
<1> DEFINE batch == queue[current]
           c == Min(Completing(batch))
<1>1. batch \in SUBSET (0..LastMessage) /\ TypeOK
  BY DEF TypeInv, TypeOK
<1>2. Handled(batch) = {n \in batch : n <= c} /\ f = FrameAt(batch, c) /\ f # 0
  BY <1>1, CompletedFrame
<1>3. /\ f \in 1..MaxFrames /\ c \in Waiting /\ c = Message(f, M - 1)
      /\ IsFinish(c) /\ Frame(c) = f
  BY <1>2, CompletesItsFrame
<1>4. c \in 0..LastMessage /\ c \in Nat /\ f \in Nat /\ got \in Nat
  BY <1>3, WaitingType
<1> HIDE DEF c
<1>5. shown < f /\ Message(f, 0) <= got
  BY <1>2, <1>4, Started
<1>6. c <= got
  BY <1>3 DEF OrderInv, InOrder
<1>7. f \in finished
  BY <1>3 DEF Whole, Received
<1>8. /\ \A k \in Nat : IsBody(k) /\ Message(f, 0) < k /\ k <= c /\ k <= got
                          => k \in Collected(Handled(batch))
      /\ \A n \in Collected(Handled(batch)) :
           /\ n \in Nat
           /\ Frame(n) = f \/ (n <= c /\ Message(f, 0) < n)
  BY <1>2, <1>4, CollectedOfFrame
<1>9. ASSUME NEW s \in Strip PROVE Message(f, s) \in Collected(Handled(batch))
  <2> DEFINE k == Message(f, s)
  <2>1. s \in 0..(M - 1) /\ s < M - 1 /\ 0 < s /\ s \in Nat /\ M \in Nat
    BY Places
  <2>2. k \in Nat /\ Frame(k) = f /\ k = Message(f, 0) + s
    BY <1>4, <2>1, MessageParts
  <2>3. IsBody(k)
    BY <2>2, Kinds
  <2>4. Message(f, 0) \in Nat /\ c = Message(f, 0) + (M - 1)
    BY <1>3, <1>4, Span
  <2> HIDE DEF k
  <2>5. Message(f, 0) < k /\ k <= c /\ k <= got
    BY <1>4, <1>6, <2>1, <2>2, <2>4
  <2> QED BY <1>8, <2>2, <2>3, <2>5 DEF k
<1>10. ASSUME NEW n \in Collected(Handled(batch)) PROVE Frame(n) = f
  <2>1. CASE n <= c /\ Message(f, 0) < n
    <3>1. n \in Nat /\ Message(f, 0) \in Nat /\ Frame(n) \in Nat
      BY <1>4, <1>8, <1>10, Span
    <3>2. ~ (f < Frame(n)) /\ ~ (Frame(n) < f)
      BY <1>3, <1>4, <2>1, <3>1, Span
    <3> QED BY <1>4, <3>1, <3>2
  <2> QED BY <1>8, <1>10, <2>1
<1> QED BY <1>3, <1>5, <1>6, <1>7, <1>9, <1>10

(* A batch that completes no frame leaves everything read of the frame it    *)
(* has begun in the collection.                                              *)
LEMMA NotCompletedWhole ==
  ASSUME TypeInv, OrderInv, Whole, tick = "idle", Completing(queue[current]) = {},
         NEW f, f = FrameAt(Handled(queue[current]), LastMessage), f # 0
  PROVE  /\ f \in 1..MaxFrames /\ shown < f /\ Message(f, 0) <= got
         /\ \A n \in Collected(Handled(queue[current])) : Frame(n) = f
         /\ \A k \in Nat : Message(f, 0) < k /\ k <= got
                             => k \in Collected(Handled(queue[current]))
<1> DEFINE batch == queue[current]
           finish == Message(f, M - 1)
<1>1. /\ batch \in SUBSET (0..LastMessage) /\ TypeOK
      /\ LastMessage \in Nat /\ LastMessage \in 0..LastMessage
  BY Bounds DEF TypeInv, TypeOK
<1>2. Handled(batch) = batch /\ Handled(batch) = {n \in batch : n <= LastMessage}
  BY <1>1 DEF Handled
<1>3. f = FrameAt(batch, LastMessage)
  BY <1>2
<1>4. /\ f \in 1..MaxFrames /\ f \in Nat /\ shown < f /\ Message(f, 0) <= got
      /\ \A k \in Nat : Message(f, 0) < k /\ k <= got => k \in Waiting \cup imageQueue
  BY <1>1, <1>3, Started
<1>5. /\ got \in 0..LastMessage /\ got \in Nat /\ Message(f, 0) \in Nat
      /\ \A n \in imageQueue : IsBody(n)
  BY <1>4, WaitingType, Span
<1>6. /\ finish \in Nat /\ Frame(finish) = f /\ finish = Message(f, 0) + (M - 1)
      /\ M \in Nat /\ M >= 3 /\ f \in 0..MaxFrames
  <2>1. finish \in Nat /\ Frame(finish) = f /\ finish = Message(f, 0) + (M - 1)
    BY <1>4, Places, MessageParts
  <2>2. M \in Nat /\ M >= 3 /\ f \in 0..MaxFrames
    BY <1>4, Places
  <2> QED BY <2>1, <2>2
<1>7. IsFinish(finish) /\ ~ IsBody(finish) /\ finish \in 0..LastMessage
  BY <1>6, Kinds, Places, Bounds
<1> HIDE DEF finish
<1>8. got < finish
  <2> SUFFICES ASSUME ~ (got < finish) PROVE FALSE
    OBVIOUS
  <2>1. Message(f, 0) < finish /\ finish <= got
    BY <1>5, <1>6
  <2>2. finish \in Waiting
    BY <1>4, <1>5, <1>6, <1>7, <2>1
  <2>3. FrameAt(batch, finish) = f
    BY <1>1, <1>3, <1>4, <1>5, <1>6, <1>7, <2>1, FrameAtSame
  <2>4. finish \in Completing(batch)
    BY <1>7, <2>2, <2>3 DEF Completing, Waiting
  <2> QED BY <2>4
<1>9. /\ \A k \in Nat : IsBody(k) /\ Message(f, 0) < k /\ k <= LastMessage /\ k <= got
                          => k \in Collected(Handled(batch))
      /\ \A n \in Collected(Handled(batch)) :
           /\ n \in Nat
           /\ Frame(n) = f \/ (n \in Waiting /\ n <= LastMessage /\ Message(f, 0) < n)
  BY <1>1, <1>2, <1>3, CollectedOfFrame
<1>10. ASSUME NEW k \in Nat, Message(f, 0) < k, k <= got
       PROVE  Frame(k) = f /\ IsBody(k)
  <2>1. k < finish
    BY <1>5, <1>6, <1>8, <1>10
  <2>2. /\ f < Frame(k) <=> finish < k
        /\ Frame(k) < f <=> k < Message(f, 0)
        /\ Frame(k) \in Nat
    BY <1>4, Span DEF finish
  <2>3. Frame(k) = f
    BY <1>4, <1>5, <1>6, <1>10, <2>1, <2>2
  <2>4. /\ IsBegin(k) => k = Message(f, 0)
        /\ IsFinish(k) => k = finish
        /\ k # ConnectFailure => IsBegin(k) \/ IsBody(k) \/ IsFinish(k)
    BY <2>3, Kinds DEF finish
  <2>5. k # ConnectFailure
    BY <1>5, <1>10 DEF ConnectFailure
  <2> QED BY <1>5, <1>6, <1>10, <2>1, <2>3, <2>4, <2>5
<1>11. ASSUME NEW k \in Nat, Message(f, 0) < k, k <= got
       PROVE  k \in Collected(Handled(batch))
  <2>1. k <= LastMessage
    BY <1>1, <1>5, <1>11
  <2> QED BY <1>9, <1>10, <1>11, <2>1
<1>12. ASSUME NEW n \in Collected(Handled(batch)) PROVE Frame(n) = f
  <2>1. CASE n \in Waiting /\ Message(f, 0) < n
    <3>1. n \in Nat /\ n <= got
      BY <1>9, <1>12, <2>1 DEF OrderInv, InOrder
    <3> QED BY <1>10, <2>1, <3>1
  <2> QED BY <1>9, <1>12, <2>1
<1> QED BY <1>4, <1>11, <1>12

(* The step that reads the batch.                                            *)
LEMMA ReadBufferWhole ==
  ASSUME TypeInv, OrderInv, Whole, Tick_ReadBuffer
  PROVE  Whole'
<1> DEFINE batch == queue[current]
           f == FrameAt(Handled(batch), LastMessage)
<1>1. /\ tick = "idle" /\ Swap /\ imageQueue' = Collected(Handled(batch)) /\ imageFrame' = f
      /\ UNCHANGED <<io, got, finished, texture, cx, picture, shown, connections>>
  BY DEF Tick_ReadBuffer
<1>2. Waiting' = {} /\ TypeOK
  BY <1>1, Swapped DEF TypeInv
<1>3. NoGap' /\ Received' /\ Fresh'
  BY <1>1, <1>2 DEF Whole, NoGap, Received, Fresh
<1>4. CASE Completing(batch) # {}
  <2>1. /\ f \in 1..MaxFrames /\ f \in finished /\ shown < f
        /\ Message(f, 0) <= got /\ Message(f, M - 1) <= got
        /\ \A s \in Strip : Message(f, s) \in Collected(Handled(batch))
        /\ \A n \in Collected(Handled(batch)) : Frame(n) = f
    BY <1>1, <1>4, CompletedWhole
  <2>2. tick' = "resize"
    BY <1>4 DEF Tick_ReadBuffer
  <2> HIDE DEF batch, f
  <2>3. Collecting'
    BY <1>1, <1>2, <2>1, <2>2 DEF Collecting
  <2>4. Complete'
    BY <1>1, <1>2, <2>1, <2>2 DEF Complete
  <2> QED BY <1>3, <2>3, <2>4 DEF Whole
<1>5. CASE Completing(batch) = {}
  <2>1. tick' = "idle"
    BY <1>1, <1>5 DEF Tick_ReadBuffer
  <2>2. f # 0 =>
          /\ f \in 1..MaxFrames /\ shown < f /\ Message(f, 0) <= got
          /\ \A n \in Collected(Handled(batch)) : Frame(n) = f
          /\ \A k \in Nat : Message(f, 0) < k /\ k <= got => k \in Collected(Handled(batch))
    BY <1>1, <1>5, NotCompletedWhole
  <2> HIDE DEF batch, f
  <2>3. Collecting'
    BY <1>1, <1>2, <2>2 DEF Collecting
  <2>4. Complete'
    BY <2>1 DEF Complete
  <2> QED BY <1>3, <2>3, <2>4 DEF Whole
<1> QED BY <1>4, <1>5

(* The I/O thread: what it adds comes after everything that was read.        *)
LEMMA ReadBodyWhole ==
  ASSUME TypeInv, OrderInv, Calm, Whole, HandleReadBody, got' # got
  PROVE  Whole'
<1>1. /\ io = "body" /\ got' = got + 1 /\ got' \in 0..LastMessage
      /\ got' \in Nat /\ Waiting' = Waiting \cup {got'} /\ got \in Nat
      /\ finished' = IF IsFinish(got') THEN finished \cup {Frame(got')} ELSE finished
      /\ UNCHANGED <<current, collectVars, sourceVars, connections>>
  BY ReadBody, WaitingType DEF HandleReadBody
<1>2. UNCHANGED <<imageQueue, imageFrame, tick, shown>>
  BY <1>1 DEF collectVars, sourceVars
<1>3. /\ Waiting \in SUBSET Nat /\ \A n \in Waiting : n <= got
      /\ imageFrame \in Nat /\ shown \in Nat /\ finished \in SUBSET Nat
  BY WaitingType DEF OrderInv, InOrder, TypeInv, TypeOK, Frames
<1>4. \A g \in Nat : Message(g, 0) \in Nat /\ Message(g, M - 1) \in Nat
  <2> TAKE g \in Nat
  <2>1. Message(g, 0) \in Nat
    BY Placing
  <2>2. Message(g, M - 1) \in Nat
    BY Places, MessageParts
  <2> QED BY <2>1, <2>2
<1>5. NoGap'
  <2> SUFFICES ASSUME NEW n \in Waiting', NEW k \in n..got' PROVE k \in Waiting'
    BY DEF NoGap
  <2>1. CASE k = got'
    BY <1>1, <2>1
  <2>2. CASE k # got'
    <3>1. n \in Nat
      BY <1>1, <1>3
    <3>2. k <= got /\ n <= k /\ k \in Int
      BY <1>1, <2>2, <3>1
    <3>3. n \in Waiting /\ k \in n..got
      BY <1>1, <1>3, <3>1, <3>2
    <3> QED BY <1>1, <3>3 DEF Whole, NoGap
  <2> QED BY <2>1, <2>2
<1>6. Collecting'
  <2> SUFFICES ASSUME imageFrame # 0
               PROVE  /\ shown < imageFrame
                      /\ Message(imageFrame, 0) <= got'
                      /\ \A n \in Waiting' : Message(imageFrame, 0) < n
                      /\ \A n \in imageQueue : Frame(n) = imageFrame
                      /\ tick = "idle" =>
                           \A k \in Nat : Message(imageFrame, 0) < k /\ k <= got'
                                            => k \in Waiting' \cup imageQueue
    BY <1>2 DEF Collecting
  <2>1. /\ shown < imageFrame
        /\ Message(imageFrame, 0) <= got
        /\ \A n \in Waiting : Message(imageFrame, 0) < n
        /\ \A n \in imageQueue : Frame(n) = imageFrame
        /\ tick = "idle" =>
             \A k \in Nat : Message(imageFrame, 0) < k /\ k <= got => k \in Waiting \cup imageQueue
    BY DEF Whole, Collecting
  <2>2. Message(imageFrame, 0) \in Nat
    BY <1>3, <1>4
  <2>3. Message(imageFrame, 0) <= got' /\ Message(imageFrame, 0) < got'
    BY <1>1, <2>1, <2>2
  <2>4. \A k \in Nat : k <= got' => k <= got \/ k = got'
    BY <1>1
  <2> QED BY <1>1, <2>1, <2>3, <2>4
<1>7. Complete'
  <2> SUFFICES ASSUME tick # "idle"
               PROVE  /\ imageFrame \in finished'
                      /\ \A s \in Strip : Message(imageFrame, s) \in imageQueue
                      /\ Message(imageFrame, M - 1) <= got'
                      /\ \A n \in Waiting' : Message(imageFrame, M - 1) < n
    BY <1>2 DEF Complete
  <2>1. /\ imageFrame \in finished
        /\ \A s \in Strip : Message(imageFrame, s) \in imageQueue
        /\ Message(imageFrame, M - 1) <= got
        /\ \A n \in Waiting : Message(imageFrame, M - 1) < n
    BY DEF Whole, Complete
  <2>2. Message(imageFrame, M - 1) \in Nat
    BY <1>3, <1>4
  <2>3. Message(imageFrame, M - 1) < got'
    BY <1>1, <2>1, <2>2
  <2> QED BY <1>1, <2>1, <2>2, <2>3
<1>8. Fresh'
  <2>1. Message(shown, M - 1) <= got /\ \A n \in Waiting : Message(shown, M - 1) < n
    BY DEF Whole, Fresh
  <2>2. Message(shown, M - 1) < got' /\ Message(shown, M - 1) <= got'
    BY <1>1, <1>3, <1>4, <2>1
  <2> QED BY <1>1, <1>2, <2>1, <2>2 DEF Fresh
<1>9. Received'
  <2>1. \A g \in finished' : Message(g, M - 1) <= got'
    <3> TAKE g \in finished'
    <3>1. CASE g \in finished
      <4>1. Message(g, M - 1) <= got
        BY <3>1 DEF Whole, Received
      <4> QED BY <1>1, <1>3, <1>4, <3>1, <4>1
    <3>2. CASE g \notin finished
      <4>1. IsFinish(got') /\ g = Frame(got')
        BY <1>1, <3>2
      <4>2. got' = Message(g, M - 1)
        BY <1>1, <4>1, Kinds
      <4> QED BY <1>1, <4>2
    <3> QED BY <3>1, <3>2
  <2>2. \A n \in Waiting' : IsFinish(n) => Frame(n) \in finished'
    BY <1>1 DEF Whole, Received
  <2> QED BY <2>1, <2>2 DEF Received
<1> QED BY <1>5, <1>6, <1>7, <1>8, <1>9 DEF Whole

(* In calm surroundings the fill draws one whole frame, which was received   *)
(* in full and is newer than the last.                                       *)
LEMMA FillWhole ==
  ASSUME TypeInv, OrderInv, Calm, Whole, Tick_Fill
  PROVE  /\ Whole'
         /\ imageFrame \in finished /\ imageFrame \in Frames /\ shown < imageFrame
         /\ shown' = imageFrame /\ picture' = [s \in Strip |-> imageFrame]
         /\ UNCHANGED finished
<1>1. tick = "fill" /\ tick' = "idle" /\ UNCHANGED <<clientVars, frame, texture, cx, connections>>
  BY DEF Tick_Fill
<1>2. /\ imageFrame \in finished
      /\ \A s \in Strip : Message(imageFrame, s) \in imageQueue
      /\ Message(imageFrame, M - 1) <= got
      /\ \A n \in Waiting : Message(imageFrame, M - 1) < n
  BY <1>1 DEF Whole, Complete
<1>3. imageFrame \in Frames /\ imageFrame # 0 /\ imageFrame \in Nat
  BY <1>2 DEF TypeInv, TypeOK, Frames
<1>4. FillAllImageBuffer
  BY Zenon DEF Tick_Fill, Calm
<1>5. /\ shown' = imageFrame /\ imageQueue' = {} /\ imageFrame' = 0
      /\ picture' = [s \in Strip |-> Drawn(s)]
  BY <1>3, <1>4 DEF FillAllImageBuffer, Drawn
<1>6. ASSUME NEW s \in Strip PROVE Drawn(s) = imageFrame
  <2> DEFINE drawn == {n \in imageQueue : n % M = s}
  <2>1. s \in 0..(M - 1)
    BY Places
  <2>2. Message(imageFrame, s) \in drawn
    BY <1>2, <1>3, <2>1, MessageParts
  <2>3. drawn \in SUBSET (0..LastMessage) /\ LastMessage \in Nat
    BY WaitingType, Bounds
  <2>4. Max(drawn) \in drawn
    BY <2>2, <2>3, MaxIsLargest
  <2>5. Frame(Max(drawn)) = imageFrame
    BY <1>3, <2>4 DEF Whole, Collecting
  <2> QED BY <2>2, <2>5 DEF Drawn
<1>7. picture' = [s \in Strip |-> imageFrame]
  BY <1>5, <1>6
<1>8. shown < imageFrame
  BY <1>3 DEF Whole, Collecting
<1>9. UNCHANGED <<got, queue, current, finished>> /\ Waiting' = Waiting
  BY <1>1 DEF clientVars, Waiting
<1>10. Fresh'
  BY <1>2, <1>5, <1>9 DEF Fresh
<1>11. Whole'
  BY <1>1, <1>5, <1>9, <1>10 DEF Whole, NoGap, Collecting, Complete, Received
<1> QED BY <1>2, <1>3, <1>5, <1>7, <1>8, <1>9, <1>11

(* The steps that change nothing of the frames or forget what was received.  *)
LEMMA OtherWhole ==
  ASSUME TypeInv, OrderInv, Calm, Whole, [Next]_vars,
         ~ Tick_ReadBuffer, ~ Tick_Fill, got' = got \/ ~ HandleReadBody
  PROVE  Whole' /\ UNCHANGED <<finished, shown>> /\ picture' \in {picture, Blank}
<1> DEFINE Kept == /\ Waiting' = Waiting
                   /\ UNCHANGED <<got, imageQueue, imageFrame, finished, shown>>
                   /\ tick' = tick \/ (tick # "idle" /\ tick' # "idle")
<1>1. ASSUME Kept PROVE Whole'
  BY <1>1 DEF Whole, NoGap, Collecting, Complete, Fresh, Received
<1>2. CASE HandleConnect
  <2>1. Waiting' = Waiting
    BY <1>2, ConnectFails
  <2> QED BY <1>1, <1>2, <2>1 DEF HandleConnect, collectVars, sourceVars
<1>3. CASE HandleReadHeader
  BY <1>1, <1>3 DEF HandleReadHeader, collectVars, sourceVars, Waiting
<1>4. CASE HandleReadBody
  <2>1. UNCHANGED <<got, queue, finished, current, collectVars, sourceVars>>
    BY <1>4 DEF HandleReadBody, TypeInv, TypeOK
  <2> QED BY <1>1, <2>1 DEF collectVars, sourceVars, Waiting
<1>5. CASE Tick_Resize
  BY <1>1, <1>5 DEF Tick_Resize, collectVars, clientVars, Waiting
<1>6. CASE Tick_Test
  <2>1. tick' \in {"make", "fill"} /\ tick = "create"
    BY <1>6 DEF Tick_Test
  <2> QED BY <1>1, <1>6, <2>1 DEF Tick_Test, collectVars, clientVars, Waiting
<1>7. CASE Tick_Create
  BY <1>1, <1>7 DEF Tick_Create, collectVars, clientVars, Waiting
<1>8. CASE Update
  <2>1. /\ Waiting' = {} /\ imageQueue' = {} /\ imageFrame' = 0 /\ got <= got'
        /\ got \in Nat /\ got' \in (M - 1)..LastMessage
    BY <1>8, UpdateType, WaitingType
  <2>2. tick' = "idle" /\ UNCHANGED <<finished, shown>> /\ picture' \in {picture, Blank}
    BY <1>8, Zenon DEF Update, Calm
  <2>3. shown \in Nat /\ finished \in SUBSET Nat /\ got' \in Int
    BY <2>1 DEF TypeInv, TypeOK, Frames
  <2>4. \A f \in Nat : Message(f, M - 1) <= got => Message(f, M - 1) <= got'
    <3> TAKE f \in Nat
    <3>1. Message(f, M - 1) \in Nat
      BY Places, MessageParts
    <3> QED BY <2>1, <2>3, <3>1
  <2>5. Fresh' /\ Received'
    BY <2>1, <2>2, <2>3, <2>4 DEF Whole, Fresh, Received
  <2> QED BY <2>1, <2>2, <2>5 DEF Whole, NoGap, Collecting, Complete
<1>9. CASE UNCHANGED vars
  BY <1>1, <1>9 DEF vars, collectVars, clientVars, sourceVars, Waiting
<1> QED BY <1>2, <1>3, <1>4, <1>5, <1>6, <1>7, <1>8, <1>9 DEF Next, Tick

(* Every step keeps the frames whole.                                        *)
LEMMA NextWhole ==
  ASSUME TypeInv, OrderInv, Calm, Whole, [Next]_vars
  PROVE  Whole'
<1>1. CASE Tick_ReadBuffer
  BY <1>1, ReadBufferWhole
<1>2. CASE Tick_Fill
  BY <1>2, FillWhole
<1>3. CASE HandleReadBody /\ got' # got
  BY <1>3, ReadBodyWhole
<1> QED BY <1>1, <1>2, <1>3, OtherWhole

(* The surroundings stay as they are.                                        *)
LEMMA CalmStays ==
  ASSUME [Next]_vars
  PROVE  Calm' <=> Calm
<1>1. env' = env
  BY DEF Next, vars
<1> QED BY <1>1 DEF Calm

-----------------------------------------------------------------------------
(* A step of the image input is a step of the display, or none of it.        *)
LEMMA NextDisplays ==
  ASSUME TypeInv, OrderInv, Calm => Whole, [Next]_vars
  PROVE  [Display!Finish \/ Display!Show \/ Display!Blank]_(Display!vars)
<1>1. Calm' <=> Calm
  BY CalmStays
<1>2. CASE ~ Calm
  <2>1. UNCHANGED Display!vars
    BY <1>1, <1>2 DEF Display!vars
  <2> QED BY <2>1
<1>3. CASE Calm
  <2>1. CASE Tick_ReadBuffer
    <3>1. UNCHANGED <<finished, shown, picture>>
      BY <2>1 DEF Tick_ReadBuffer
    <3>2. UNCHANGED Display!vars
      BY <1>1, <3>1 DEF Display!vars, Blank
    <3> QED BY <3>2
  <2>2. CASE Tick_Fill
    <3>1. /\ imageFrame \in finished /\ imageFrame \in Frames /\ shown < imageFrame
          /\ shown' = imageFrame /\ picture' = [s \in Strip |-> imageFrame]
          /\ UNCHANGED finished
      BY <1>3, <2>2, FillWhole
    <3>2. 1 \in Strip /\ imageFrame \in Nat /\ imageFrame # 0 /\ shown \in Nat
      BY <3>1 DEF Strip, Frames, TypeInv, TypeOK
    <3>3. picture'[1] = imageFrame /\ \A s \in Strip : picture'[s] = imageFrame
      BY <3>1, <3>2
    <3>4. picture' # Blank
      BY <3>2, <3>3 DEF Blank
    <3>5. Display!Show
      BY <1>1, <1>3, <3>1, <3>2, <3>3, <3>4 DEF Display!Show, Blank
    <3> QED BY <3>5
  <2>3. CASE HandleReadBody /\ got' # got
    <3>1. /\ got' \in Nat /\ got' = got + 1 /\ io = "body"
          /\ finished' = IF IsFinish(got') THEN finished \cup {Frame(got')} ELSE finished
          /\ UNCHANGED <<shown, picture>>
      BY <2>3, ReadBody DEF HandleReadBody, sourceVars
    <3>2. CASE ~ IsFinish(got')
      <4>1. UNCHANGED Display!vars
        BY <1>1, <3>1, <3>2 DEF Display!vars, Blank
      <4> QED BY <4>1
    <3>3. CASE IsFinish(got')
      <4>1. Frame(got') \in Frames
        BY <3>1, ReadType
      <4>2. Frame(got') \notin finished
        <5>1. got' = Message(Frame(got'), M - 1)
          BY <3>1, <3>3, Kinds
        <5>2. \A f \in finished : Message(f, M - 1) <= got
          BY <1>3 DEF Whole, Received
        <5>3. got \in Nat /\ ~ (got' <= got)
          BY <3>1, WaitingType
        <5> QED BY <5>1, <5>2, <5>3
      <4>3. Display!Finish
        BY <1>1, <1>3, <3>1, <3>3, <4>1, <4>2 DEF Display!Finish, Blank
      <4> QED BY <4>3
    <3> QED BY <3>2, <3>3
  <2>4. CASE ~ Tick_ReadBuffer /\ ~ Tick_Fill /\ (got' = got \/ ~ HandleReadBody)
    <3>1. UNCHANGED <<finished, shown>> /\ picture' \in {picture, Blank}
      BY <1>3, <2>4, OtherWhole
    <3>2. CASE picture' = Blank
      <4>1. Display!Blank
        BY <1>1, <1>3, <3>1, <3>2 DEF Display!Blank, Blank
      <4> QED BY <4>1
    <3>3. CASE picture' = picture
      <4>1. UNCHANGED Display!vars
        BY <1>1, <3>1, <3>3 DEF Display!vars, Blank
      <4> QED BY <4>1
    <3> QED BY <3>1, <3>2, <3>3
  <2> QED BY <2>1, <2>2, <2>3, <2>4
<1> QED BY <1>2, <1>3

(* In calm surroundings the image input implements the display: the picture  *)
(* is blank or one whole frame that was received in full, and each frame     *)
(* drawn is newer than those before, over all reconnects, though the rest of *)
(* a batch is discarded in the middle of a frame.                            *)
THEOREM DisplayCorrect == Spec => ShowsWholeFrames
<1>1. Init => OrderInv /\ (Calm => Whole) /\ Display!Init
  <2> SUFFICES ASSUME Init PROVE OrderInv /\ (Calm => Whole) /\ Display!Init
    OBVIOUS
  <2>1. /\ Waiting = {} /\ imageQueue = {} /\ imageFrame = 0 /\ tick = "idle"
        /\ finished = {} /\ shown = 0 /\ picture = Blank /\ got = M - 1
    BY DEF Init, Waiting
  <2>2. Frame(got) \in Nat
    BY InitType, WaitingType
  <2>3. OrderInv
    BY <2>1, <2>2 DEF OrderInv, InOrder, PictureBehind, Blank
  <2>4. Message(0, M - 1) <= got
    BY <2>1, Places DEF Message
  <2>5. Whole
    BY <2>1, <2>4 DEF Whole, NoGap, Collecting, Complete, Fresh, Received
  <2>6. Display!Init
    BY <2>1 DEF Display!Init
  <2> QED BY <2>3, <2>5, <2>6
<1>2. TypeInv /\ OrderInv /\ (Calm => Whole) /\ [Next]_vars
        => /\ OrderInv' /\ (Calm => Whole)'
           /\ [Display!Finish \/ Display!Show \/ Display!Blank]_(Display!vars)
  <2>1. TypeInv /\ OrderInv /\ [Next]_vars => OrderInv'
    BY NextOrder
  <2>2. TypeInv /\ OrderInv /\ (Calm => Whole) /\ [Next]_vars => (Calm => Whole)'
    BY NextWhole, CalmStays, Zenon
  <2>3. TypeInv /\ OrderInv /\ (Calm => Whole) /\ [Next]_vars
          => [Display!Finish \/ Display!Show \/ Display!Blank]_(Display!vars)
    BY NextDisplays
  <2> QED BY <2>1, <2>2, <2>3
<1> QED BY <1>1, <1>2, TypesHold, PTL DEF Spec, ShowsWholeFrames, Display!Spec
=============================================================================
