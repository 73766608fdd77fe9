------------------------- MODULE OutputControl_proofs -------------------------
(* Proofs about OutputControl, for all settings, any number of starts and    *)
(* any number of queued slots.                                               *)
EXTENDS OutputControl, SequenceTheorems, TLAPS

USE OutputControlAssumption

-----------------------------------------------------------------------------
(* The inductive invariant.  What makes the window truthful is what is on    *)
(* its way to it: the queued slots.                                          *)

(* Only streams signal their start from another thread.                      *)
StartsOfStreams ==
  \A i \in DOMAIN slots : slots[i].slot = "start" => slots[i].of \in Streams

TypeInv == TypeOK /\ StartsOfStreams

Queued(kind, o) == \E i \in DOMAIN slots : slots[i] = [slot |-> kind, of |-> o]
StopQueued == \E i \in DOMAIN slots : slots[i].slot = "stop"

(* A handler counts an output as active only while libobs does.              *)
FlagsOfActive ==
  /\ \A o \in Outputs : flag[o] => lib[o] # "off"
  /\ \A o \in Streams : delayFlag[o] => lib[o] # "off"

(* A start that is queued after its output stopped comes before a stop.      *)
StopsFollow ==
  \A i \in DOMAIN slots : slots[i].slot = "start" =>
    \/ flag[slots[i].of]
    \/ \E j \in DOMAIN slots : j > i /\ slots[j].slot = "stop"

(* The lock is kept by an output that is active, the FLV stream included, or *)
(* there is a stop to come that reconsiders it.                              *)
LockHasReason ==
  locked => Active \/ flag["flv"] \/ delayFlag["flv"] \/ StopQueued

StartsLock == \A o \in Main : flag[o] => locked \/ Queued("start", o)

LockInv == FlagsOfActive /\ StopsFollow /\ LockHasReason /\ StartsLock

(* The last slot of a stream that is queued tells what became of it, unless  *)
(* it was started again since.                                               *)
Last(i) == \A j \in DOMAIN slots : j > i => slots[j].of # slots[i].of

LastSlotTrue ==
  \A i \in DOMAIN slots : Last(i) /\ slots[i].of \in Streams =>
    lib[slots[i].of] # (IF slots[i].slot = "start" THEN "off" ELSE "on")

Seen(o) == \A i \in DOMAIN slots : slots[i].of # o

StreamShown(o) ==
  /\ lib[o] = "off" => text[o] = "start" /\ o \in enabled /\ menu.on # o
  /\ lib[o] = "on" => text[o] = "stop" /\ o \in enabled

RecordingShown(o) ==
  /\ lib[o] = "off" => text[o] = "start"
  /\ lib[o] = "on" => text[o] = "stop"

ButtonInv ==
  /\ LastSlotTrue
  /\ \A o \in Streams : Seen(o) => StreamShown(o)
  /\ env.prompt => \A o \in Recordings :
       IF Seen(o) THEN RecordingShown(o) ELSE lib[o] = "off"

(* The stopping flags.  Without an FLV stream the flag of the streams is set *)
(* only until the slot of the stop has run.                                  *)
StoppingInv ==
  /\ \A o \in Recordings : lib[o] = "on" => ~stopping[o]
  /\ ~env.flv =>
       /\ lib["flv"] = "off"
       /\ stopping["streams"] => lib["stream"] = "stopping" \/ Queued("stop", "stream")

(* While the FLV stream connects its button stays disabled.                  *)
FlvInv ==
  env.prompt =>
    /\ "flv" \notin restarted
    /\ lib["flv"] = "connecting" => "flv" \notin enabled /\ Seen("flv")

ControlInv == LockInv /\ ButtonInv /\ StoppingInv /\ FlvInv

-----------------------------------------------------------------------------
(* Types.                                                                   *)

States == {"off", "connecting", "delayed", "on", "draining", "stopping"}
Texts == {"start", "connecting", "stop", "stopping"}
Slots == [slot : {"start", "stop"}, of : Outputs]
Menus == {NoMenu} \cup [on : Streams, kind : {"delayStarting", "delayStopping"}]
Flags == {"streams"} \cup Recordings

(* What is to be shown of a step for the types.                             *)
LEMMA TypeFrame ==
  ASSUME lib' \in [Outputs -> States], flag' \in [Outputs -> BOOLEAN],
         delayFlag' \in [Streams -> BOOLEAN], slots' \in Seq(Slots),
         text' \in [Outputs -> Texts], enabled' \subseteq Streams, menu' \in Menus,
         stopping' \in [Flags -> BOOLEAN], locked' \in BOOLEAN,
         restarted' \subseteq Streams, starts' \in 0..MaxStarts, env' \in Environments,
         StartsOfStreams'
  PROVE  TypeInv'
BY DEF TypeInv, TypeOK, States, Texts, Slots, Menus, Flags

(* What the provers need of the types.                                      *)
LEMMA TypeFacts ==
  ASSUME TypeInv
  PROVE  /\ lib \in [Outputs -> States] /\ flag \in [Outputs -> BOOLEAN]
         /\ delayFlag \in [Streams -> BOOLEAN] /\ slots \in Seq(Slots)
         /\ text \in [Outputs -> Texts] /\ enabled \subseteq Streams /\ menu \in Menus
         /\ stopping \in [Flags -> BOOLEAN] /\ locked \in BOOLEAN
         /\ restarted \subseteq Streams /\ starts \in 0..MaxStarts /\ env \in Environments
         /\ StartsOfStreams
         /\ Outputs = {"stream", "flv", "record", "replay"}
         /\ Streams = {"stream", "flv"} /\ Recordings = {"record", "replay"}
BY DEF TypeInv, TypeOK, States, Texts, Slots, Menus, Flags, Outputs, Streams, Recordings

(* Appending a slot, and taking the first one away.                         *)
LEMMA SlotAdded ==
  ASSUME TypeInv, NEW new \in Slots, slots' = Append(slots, new)
  PROVE  /\ slots' \in Seq(Slots)
         /\ DOMAIN slots' = DOMAIN slots \cup {Len(slots) + 1}
         /\ \A i \in DOMAIN slots : slots'[i] = slots[i] /\ i < Len(slots) + 1
         /\ slots'[Len(slots) + 1] = new
         /\ DOMAIN slots \subseteq Nat /\ Len(slots) \in Nat
<1>1. slots \in Seq(Slots)
  BY TypeFacts
<1> QED BY <1>1, AppendProperties

(* Taking the first slot moves every other one up.                          *)
LEMMA SlotTaken ==
  ASSUME TypeInv, slots # <<>>, slots' = Tail(slots)
  PROVE  /\ slots' \in Seq(Slots)
         /\ Head(slots) = slots[1] /\ slots[1] \in Slots /\ 1 \in DOMAIN slots
         /\ \A i \in DOMAIN slots' : i \in Nat /\ i + 1 \in DOMAIN slots /\ slots'[i] = slots[i + 1]
         /\ \A i \in DOMAIN slots : i \in Nat /\ i >= 1
         /\ \A i \in DOMAIN slots : i # 1 => i - 1 \in DOMAIN slots' /\ slots'[i - 1] = slots[i]
<1>1. slots \in Seq(Slots) /\ Len(slots) \in Nat \ {0} /\ DOMAIN slots = 1..Len(slots)
  BY TypeFacts
<1>2. slots' \in Seq(Slots) /\ Len(slots') = Len(slots) - 1
      /\ \A i \in 1..Len(slots') : slots'[i] = slots[i + 1]
  BY <1>1, HeadTailProperties
<1>3. DOMAIN slots' = 1..(Len(slots) - 1)
  BY <1>1, <1>2
<1> QED BY <1>1, <1>2, <1>3

(* What a stop does to one output: the outputs it stops are left draining   *)
(* or stopping, and the rest is as it was.                                  *)
StopFacts ==
  /\ Input
  /\ lib' \in [Outputs -> States]
  /\ text' \in [Outputs -> Texts]
  /\ enabled' \subseteq Streams /\ enabled \subseteq enabled'
  /\ \A o \in enabled' : o \in enabled \/ lib'[o] \in {"draining", "stopping"}
  /\ menu' \in Menus
  /\ stopping' \in [Flags -> BOOLEAN]
  /\ \A o \in Outputs :
       \/ lib'[o] = lib[o] /\ text'[o] = text[o]
       \/ lib[o] \in {"delayed", "on", "draining"} /\ lib'[o] \in {"draining", "stopping"}
  /\ menu' = menu \/ (menu'.on \in Streams /\ lib'[menu'.on] \in {"draining", "stopping"})
  /\ \A f \in Flags : stopping'[f] =>
       stopping[f] \/ \E o \in Outputs : Stopping(o) = f /\ lib'[o] = "stopping"
  /\ OnDeactivate
  /\ UNCHANGED <<env, flag, delayFlag, slots, restarted, starts>>

(* It is what stopping any set of outputs, forced or not, amounts to.       *)
LEMMA StopKeeps ==
  ASSUME TypeInv, NEW S \in SUBSET Outputs, NEW force \in BOOLEAN, StopOutputs(S, force),
         Input, OnDeactivate, UNCHANGED <<env, flag, delayFlag, slots, restarted, starts>>
  PROVE  StopFacts
<1> DEFINE stopped == {o \in S : lib[o] \in {"delayed", "on", "draining"}}
           later == {o \in stopped : Delayed(o)}
           now == stopped \ later
<1>1. /\ lib' = [o \in Outputs |->
                   IF o \notin stopped THEN lib[o]
                   ELSE IF o \in later /\ ~force THEN "draining" ELSE "stopping"]
      /\ text' = [o \in Outputs |-> IF o \in now THEN "stopping"
                                    ELSE IF o \in later THEN "start"
                                    ELSE text[o]]
      /\ stopping' = [s \in DOMAIN stopping |->
                        stopping[s] \/ \E o \in now : Stopping(o) = s]
      /\ enabled' = enabled \cup later
      /\ menu' = IF later = {} THEN menu
                 ELSE [on |-> CHOOSE o \in later : TRUE, kind |-> "delayStopping"]
  BY DEF StopOutputs
<1>2. stopped \subseteq S /\ now \subseteq stopped /\ later \subseteq stopped /\ now \cap later = {}
      /\ \A o \in stopped : lib[o] \in {"delayed", "on", "draining"}
      /\ later \subseteq Streams
  BY DEF Delayed
<1>3. S \subseteq Outputs
  OBVIOUS
<1> HIDE DEF stopped, later, now
<1>4. lib' \in [Outputs -> States] /\ text' \in [Outputs -> Texts]
  BY <1>1, TypeFacts DEF States, Texts
<1>5. enabled' \subseteq Streams /\ enabled \subseteq enabled'
  BY <1>1, <1>2, TypeFacts
<1>6. later # {} => (CHOOSE o \in later : TRUE) \in later
  OBVIOUS
<1>7. menu' \in Menus
      /\ (menu' = menu \/ (menu'.on \in later))
  BY <1>1, <1>2, <1>6, TypeFacts DEF Menus
<1>8. stopping' \in [Flags -> BOOLEAN]
  <2>1. DOMAIN stopping = Flags
    BY TypeFacts
  <2>2. \A f \in Flags : (stopping[f] \/ \E o \in now : Stopping(o) = f) \in BOOLEAN
    OBVIOUS
  <2> QED BY <1>1, <2>1, <2>2, Zenon
<1>9. \A f \in Flags : stopping'[f] <=> (stopping[f] \/ \E o \in now : Stopping(o) = f)
  BY <1>1, TypeFacts
<1>10. \A o \in Outputs :
              \/ lib'[o] = lib[o] /\ text'[o] = text[o]
              \/ lib[o] \in {"delayed", "on", "draining"} /\ lib'[o] \in {"draining", "stopping"}
  BY <1>1, <1>2
<1>11. \A o \in now : o \in S /\ lib'[o] = "stopping"
  BY <1>1, <1>2, <1>3
<1>12. \A o \in later : o \in Streams /\ lib'[o] \in {"draining", "stopping"}
  BY <1>1, <1>2, <1>3
<1>13. \A o \in enabled' : o \in enabled \/ lib'[o] \in {"draining", "stopping"}
  BY <1>1, <1>12
<1> QED BY <1>2, <1>3, <1>4, <1>5, <1>7, <1>8, <1>9, <1>10, <1>11, <1>12, <1>13
        DEF StopFacts

(* What a start does to one output.                                         *)
Permitted(o) == o = "flv" => env.flv /\ "flv" \in enabled

StartStep ==
  \/ \E o \in Recordings : StartRecording(o)
  \/ \E o \in Streams : Input /\ Permitted(o) /\ StartStream(o)

RecordingStarts(x) ==
  \/ /\ lib'[x] = lib[x] /\ (flag'[x] <=> flag[x]) /\ text'[x] = text[x]
     /\ stopping'[x] <=> stopping[x]
  \/ /\ lib'[x] = "on" /\ flag'[x] /\ text'[x] = "stop" /\ ~stopping'[x] /\ locked'

(* Started leaves every stream but the one started as it was.               *)
LEMMA StartTypes ==
  ASSUME TypeInv, NEW o \in Streams \cup {"none"}, NEW state \in States, NEW shown \in Texts,
         NEW S \in SUBSET Recordings, Started(o, state, shown, S)
  PROVE  /\ lib' \in [Outputs -> States] /\ flag' \in [Outputs -> BOOLEAN]
         /\ text' \in [Outputs -> Texts] /\ stopping' \in [Flags -> BOOLEAN]
         /\ locked' \in BOOLEAN
         /\ \A x \in Recordings : RecordingStarts(x)
         /\ \A x \in Streams : /\ flag'[x] <=> flag[x]
                               /\ lib'[x] = IF x = o THEN state ELSE lib[x]
                               /\ text'[x] = IF x = o THEN shown ELSE text[x]
         /\ stopping'["streams"] <=> stopping["streams"]
         /\ locked' <=> locked \/ (\E x \in S : flag'[x]) \/ state = "delayed"
<1>1. /\ lib' = [x \in Outputs |-> IF x = o THEN state
                                   ELSE IF x \in S THEN "on" ELSE lib[x]]
      /\ flag' = [x \in Outputs |-> flag[x] \/ x \in S]
      /\ text' = [x \in Outputs |-> IF x = o THEN shown
                                    ELSE IF x \in S THEN "stop" ELSE text[x]]
      /\ stopping' = [s \in DOMAIN stopping |-> stopping[s] /\ s \notin S]
      /\ locked' = (locked \/ S # {} \/ state = "delayed")
  BY DEF Started
<1>2. DOMAIN stopping = Flags
  BY TypeFacts
<1>3. lib' \in [Outputs -> States] /\ text' \in [Outputs -> Texts]
  BY <1>1, TypeFacts DEF States, Texts
<1>4. flag' \in [Outputs -> BOOLEAN] /\ stopping' \in [Flags -> BOOLEAN] /\ locked' \in BOOLEAN
  BY <1>1, <1>2, Zenon
<1>5. /\ \A x \in Outputs : flag'[x] <=> (flag[x] \/ x \in S)
      /\ \A x \in Flags : stopping'[x] <=> (stopping[x] /\ x \notin S)
  BY <1>1, <1>2, Zenon
<1>6. locked' <=> (locked \/ S # {} \/ state = "delayed")
  BY <1>1, Zenon
<1>7. /\ \A x \in Outputs : x \in S => x \in Recordings /\ flag'[x]
      /\ S \subseteq Outputs /\ "streams" \notin S /\ "streams" \in Flags
      /\ Recordings \subseteq Flags
  BY <1>5, TypeFacts DEF Flags
<1>8. \A x \in Recordings : x \in Outputs /\ x \notin Streams /\ x # o
  BY TypeFacts
<1>9. \A x \in Streams : x \in Outputs /\ x \notin S
  BY TypeFacts
<1>10. \A x \in Recordings : RecordingStarts(x)
  <2> SUFFICES ASSUME NEW x \in Recordings PROVE RecordingStarts(x)
    OBVIOUS
  <2>1. x \in Outputs /\ x # o /\ x \in Flags
    BY <1>7, <1>8
  <2>2. CASE x \in S
    BY <1>1, <1>5, <1>6, <2>1, <2>2 DEF RecordingStarts
  <2>3. CASE x \notin S
    BY <1>1, <1>5, <2>1, <2>3 DEF RecordingStarts
  <2> QED BY <2>2, <2>3
<1>11. \A x \in Streams : /\ flag'[x] <=> flag[x]
                          /\ lib'[x] = IF x = o THEN state ELSE lib[x]
                          /\ text'[x] = IF x = o THEN shown ELSE text[x]
  BY <1>1, <1>5, <1>9
<1>12. stopping'["streams"] <=> stopping["streams"]
  BY <1>5, <1>7
<1>13. locked' <=> locked \/ (\E x \in S : flag'[x]) \/ state = "delayed"
  BY <1>6, <1>7
<1> QED BY <1>3, <1>4, <1>10, <1>11, <1>12, <1>13

StreamStarts(x) ==
  /\ flag'[x] <=> flag[x]
  /\ \/ /\ lib'[x] = lib[x] /\ text'[x] = text[x] /\ (delayFlag'[x] <=> delayFlag[x])
        /\ x \in enabled' <=> x \in enabled
     \/ /\ Permitted(x) /\ lib[x] \in {"off", "connecting"}
        /\ \/ /\ lib'[x] = lib[x] /\ (delayFlag'[x] <=> delayFlag[x])
              /\ text'[x] = "start" /\ x \in enabled'
           \/ /\ lib'[x] = "connecting" /\ (delayFlag'[x] <=> delayFlag[x])
              /\ x \notin enabled'
           \/ lib'[x] = "delayed" /\ delayFlag'[x] /\ locked'

StartFacts ==
  /\ Input
  /\ UNCHANGED <<env, slots>>
  /\ lib' \in [Outputs -> States] /\ flag' \in [Outputs -> BOOLEAN]
  /\ delayFlag' \in [Streams -> BOOLEAN]
  /\ text' \in [Outputs -> Texts] /\ enabled' \subseteq Streams /\ menu' \in Menus
  /\ stopping' \in [Flags -> BOOLEAN]
  /\ locked' \in BOOLEAN
  /\ restarted' \subseteq Streams
  /\ starts' \in 0..MaxStarts
  /\ \A x \in Recordings : RecordingStarts(x)
  /\ \A x \in Streams : StreamStarts(x)
  /\ menu' = menu \/ (menu'.on \in Streams /\ lib'[menu'.on] = "delayed")
  /\ stopping'["streams"] <=> stopping["streams"]
  /\ locked => locked'
  /\ locked' => locked \/ (\E r \in Recordings : flag'[r]) \/ (\E d \in Streams : delayFlag'[d])
  /\ \A x \in restarted' : x \in restarted \/ (lib[x] = "connecting" /\ Permitted(x))

(* Every way to start an output is one of these.                            *)
LEMMA StartKeeps ==
  ASSUME TypeInv, StartStep
  PROVE  StartFacts
<1>0. starts' = starts + 1 /\ starts < MaxStarts => starts' \in 0..MaxStarts
  BY TypeFacts
<1>1. ASSUME NEW o \in Recordings, StartRecording(o) PROVE StartFacts
  <2>1. Started("none", "off", "start", {o}) /\ Input /\ starts < MaxStarts /\ starts' = starts + 1
        /\ UNCHANGED <<env, delayFlag, slots, enabled, menu, restarted>>
    BY <1>1 DEF StartRecording, Started
  <2>2. "off" \in States /\ "start" \in Texts /\ {o} \in SUBSET Recordings
        /\ "none" \in Streams \cup {"none"} /\ "none" \notin Streams
    BY DEF States, Texts, Streams
  <2>3. /\ lib' \in [Outputs -> States] /\ flag' \in [Outputs -> BOOLEAN]
        /\ text' \in [Outputs -> Texts] /\ stopping' \in [Flags -> BOOLEAN]
        /\ locked' \in BOOLEAN
        /\ \A x \in Recordings : RecordingStarts(x)
        /\ \A x \in Streams : /\ flag'[x] <=> flag[x]
                              /\ lib'[x] = lib[x] /\ text'[x] = text[x]
        /\ stopping'["streams"] <=> stopping["streams"]
        /\ locked' <=> locked \/ flag'[o]
    <3>1. /\ lib' \in [Outputs -> States] /\ flag' \in [Outputs -> BOOLEAN]
          /\ text' \in [Outputs -> Texts] /\ stopping' \in [Flags -> BOOLEAN]
          /\ locked' \in BOOLEAN
          /\ \A x \in Recordings : RecordingStarts(x)
          /\ \A x \in Streams : /\ flag'[x] <=> flag[x]
                                /\ lib'[x] = IF x = "none" THEN "off" ELSE lib[x]
                                /\ text'[x] = IF x = "none" THEN "start" ELSE text[x]
          /\ stopping'["streams"] <=> stopping["streams"]
          /\ locked' <=> locked \/ (\E x \in {o} : flag'[x]) \/ "off" = "delayed"
      BY <2>1, <2>2, StartTypes
    <3> QED BY <2>2, <3>1
  <2>4. starts' \in 0..MaxStarts /\ enabled' \subseteq Streams /\ menu' \in Menus
        /\ restarted' \subseteq Streams
        /\ delayFlag' \in [Streams -> BOOLEAN]
    BY <1>0, <2>1, TypeFacts
  <2> QED BY <2>1, <2>3, <2>4 DEF StartFacts, StreamStarts
<1>2. ASSUME NEW o \in Streams, Input, Permitted(o), StartStream(o) PROVE StartFacts
  <2> DEFINE with == {r \in WithStream : o = "stream" /\ ~LibActive(r)}
             Effect(state, shown, S) ==
               /\ Started(o, state, shown, S)
               /\ starts' = starts + 1
               /\ state \in States /\ shown \in Texts /\ S \in SUBSET Recordings
               /\ UNCHANGED <<env, slots>>
  <2>1. lib[o] \in {"off", "connecting"} /\ starts < MaxStarts /\ lib[o] \in States
    BY <1>2, TypeFacts DEF StartStream, LibActive, States
  <2>2. ASSUME NEW state \in States, NEW shown \in Texts, NEW S \in SUBSET Recordings,
               Effect(state, shown, S),
               delayFlag' \in [Streams -> BOOLEAN], enabled' \subseteq Streams,
               menu' \in Menus, restarted' \subseteq Streams,
               state = "delayed" => delayFlag'[o],
               \A x \in Streams : x # o => (x \in enabled' <=> x \in enabled),
               \A x \in Streams : (delayFlag'[x] <=> delayFlag[x])
                                  \/ (x = o /\ delayFlag'[o] /\ state = "delayed"),
               \A x \in restarted' : x \in restarted \/ (x = o /\ lib[o] = "connecting"),
               menu' = menu \/ (menu'.on = o /\ state = "delayed"),
               \/ state = lib[o] /\ shown = "start" /\ o \in enabled'
               \/ state = "connecting" /\ o \notin enabled'
               \/ state = "delayed"
        PROVE  StartFacts
    <3>1. /\ lib' \in [Outputs -> States] /\ flag' \in [Outputs -> BOOLEAN]
          /\ text' \in [Outputs -> Texts] /\ stopping' \in [Flags -> BOOLEAN]
          /\ locked' \in BOOLEAN
          /\ \A x \in Recordings : RecordingStarts(x)
          /\ \A x \in Streams : /\ flag'[x] <=> flag[x]
                                /\ lib'[x] = IF x = o THEN state ELSE lib[x]
                                /\ text'[x] = IF x = o THEN shown ELSE text[x]
          /\ stopping'["streams"] <=> stopping["streams"]
          /\ locked' <=> locked \/ (\E x \in S : flag'[x]) \/ state = "delayed"
      BY <2>2, StartTypes
    <3>2. starts' \in 0..MaxStarts
      BY <1>0, <2>1, <2>2
    <3>3. \A x \in Streams : StreamStarts(x)
      <4>1. ASSUME NEW x \in Streams, x # o
            PROVE  /\ lib'[x] = lib[x] /\ text'[x] = text[x] /\ (delayFlag'[x] <=> delayFlag[x])
                   /\ x \in enabled' <=> x \in enabled
        BY <2>2, <3>1, <4>1
      <4>2. Permitted(o) /\ lib[o] \in {"off", "connecting"}
             /\ \/ /\ lib'[o] = lib[o] /\ (delayFlag'[o] <=> delayFlag[o])
                   /\ text'[o] = "start" /\ o \in enabled'
                \/ /\ lib'[o] = "connecting" /\ (delayFlag'[o] <=> delayFlag[o])
                   /\ o \notin enabled'
                \/ lib'[o] = "delayed" /\ delayFlag'[o] /\ locked'
        BY <1>2, <2>1, <2>2, <3>1
      <4> QED BY <3>1, <4>1, <4>2 DEF StreamStarts
    <3>4. \A x \in restarted' : x \in restarted \/ (lib[x] = "connecting" /\ Permitted(x))
      BY <1>2, <2>2
    <3>5. menu' = menu \/ (menu'.on \in Streams /\ lib'[menu'.on] = "delayed")
      BY <2>2, <3>1
    <3>6. locked' => locked \/ (\E r \in Recordings : flag'[r]) \/ (\E d \in Streams : delayFlag'[d])
      BY <2>2, <3>1
    <3> HIDE DEF with
    <3> QED BY <1>2, <2>2, <3>1, <3>2, <3>3, <3>4, <3>5, <3>6 DEF StartFacts
  <2>3. CASE StartStream_Fails(o)
    <3>1. Effect(lib[o], "start", {}) /\ enabled' = enabled \cup {o}
          /\ UNCHANGED <<delayFlag, menu, restarted>>
      BY <1>2, <2>1, <2>3 DEF StartStream, StartStream_Fails, Started, Texts
    <3>2. {} \in SUBSET Recordings /\ "start" \in Texts
      BY DEF Texts
    <3>3. delayFlag \in [Streams -> BOOLEAN] /\ enabled' \subseteq Streams
      BY <3>1, TypeFacts
    <3> HIDE DEF Effect
    <3> QED BY <2>1, <2>2, <3>1, <3>2, <3>3, TypeFacts
  <2>4. ASSUME NEW S \in SUBSET with, StartStream_Connects(o, S) PROVE StartFacts
    <3>1. S \in SUBSET Recordings
      BY OutputControlAssumption
    <3>2. Effect("connecting", "connecting", S) /\ enabled' = enabled \ {o}
          /\ UNCHANGED <<delayFlag, menu>>
          /\ restarted' = restarted \cup {x \in {o} : lib[x] = "connecting"}
      BY <1>2, <2>4, <3>1 DEF StartStream, StartStream_Connects, Started, Texts, States
    <3>3. "connecting" \in Texts /\ "connecting" \in States
      BY DEF Texts, States
    <3>4. delayFlag \in [Streams -> BOOLEAN] /\ enabled' \subseteq Streams
          /\ restarted' \subseteq Streams
          /\ \A x \in restarted' : x \in restarted \/ (x = o /\ lib[o] = "connecting")
      BY <3>2, TypeFacts
    <3> HIDE DEF Effect
    <3> QED BY <2>2, <3>1, <3>2, <3>3, <3>4, TypeFacts
  <2>5. ASSUME NEW S \in SUBSET with, StartStream_Delays(o, S) PROVE StartFacts
    <3>1. S \in SUBSET Recordings
      BY OutputControlAssumption
    <3>2. Effect("delayed", "stop", S) /\ enabled' = enabled \cup {o}
          /\ delayFlag' = [delayFlag EXCEPT ![o] = TRUE]
          /\ menu' = [on |-> o, kind |-> "delayStarting"]
          /\ UNCHANGED restarted
      BY <1>2, <2>5, <3>1 DEF StartStream, StartStream_Delays, Started, Texts, States
    <3>3. "stop" \in Texts /\ "delayed" \in States
      BY DEF Texts, States
    <3>4. delayFlag' \in [Streams -> BOOLEAN] /\ delayFlag'[o]
          /\ \A x \in Streams : x # o => delayFlag'[x] = delayFlag[x]
      BY <3>2, TypeFacts
    <3>5. menu' \in Menus /\ menu'.on = o /\ enabled' \subseteq Streams
      BY <3>2, TypeFacts DEF Menus
    <3>6. \A x \in Streams : (delayFlag'[x] <=> delayFlag[x]) \/ (x = o /\ delayFlag'[o])
      BY <3>4
    <3> HIDE DEF Effect
    <3> QED BY <2>2, <3>1, <3>2, <3>3, <3>4, <3>5, <3>6, TypeFacts
  <2> QED BY <1>2, <2>3, <2>4, <2>5 DEF StartStream
<1> QED BY <1>1, <1>2 DEF StartStep

(* Every step of the window is one of these.                                *)
LEMMA Steps ==
  ASSUME TypeInv, [Next]_vars
  PROVE  \/ \E o \in Streams : Lib_Started(o)
         \/ \E o \in Outputs : Lib_Stopped(o)
         \/ RunSlot
         \/ StartFacts
         \/ StopFacts
         \/ UNCHANGED vars
<1>1. ASSUME NEW o \in Recordings, StopRecording(o) PROVE StopFacts
  <2>1. stopping[o] \in BOOLEAN /\ {o} \in SUBSET Outputs
    BY TypeFacts DEF Flags
  <2> QED BY <1>1, <2>1, StopKeeps DEF StopRecording
<1>2. ASSUME NEW o \in Streams, NEW force \in BOOLEAN, Input, StopStream(o, force)
      PROVE  StopFacts
  <2>1. {o} \cup {r \in WithStream \ Kept : o = "stream"} \in SUBSET Outputs
    BY OutputControlAssumption, TypeFacts
  <2> QED BY <1>2, <2>1, StopKeeps DEF StopStream
<1>3. stopping["streams"] \in BOOLEAN /\ TRUE \in BOOLEAN
      /\ "stream" \in Streams /\ "flv" \in Streams
  BY TypeFacts DEF Flags
<1>4. CASE StopStreaming \/ ForceStopStreaming \/ HxFlvStopStreaming \/ HxFlvMenu_Stop
  BY <1>2, <1>3, <1>4 DEF StopStreaming, ForceStopStreaming, HxFlvStopStreaming,
     HxFlvMenu_Stop
<1>5. CASE StartStreaming \/ HxFlvStartStreaming
  <2>1. StartStep
    BY <1>3, <1>5 DEF StartStreaming, HxFlvStartStreaming, StartStep, Permitted
  <2> QED BY <2>1, StartKeeps
<1>6. ASSUME NEW o \in Recordings, StartRecording(o) PROVE StartFacts
  BY <1>6, StartKeeps DEF StartStep
<1> QED BY <1>1, <1>4, <1>5, <1>6 DEF Next

(* What the signals and slots do.                                           *)
LEMMA StartedTypes ==
  ASSUME TypeInv, NEW o \in Streams, Lib_Started(o)
  PROVE  TypeInv'
<1>1. [slot |-> "start", of |-> o] \in Slots
  BY TypeFacts DEF Slots
<1>2. slots' \in Seq(Slots) /\ StartsOfStreams'
  BY <1>1, SlotAdded, TypeFacts DEF Lib_Started, StartsOfStreams
<1>3. lib' \in [Outputs -> States]
  BY TypeFacts DEF Lib_Started, States
<1>4. flag' \in [Outputs -> BOOLEAN]
  BY TypeFacts DEF Lib_Started
<1>5. /\ delayFlag' \in [Streams -> BOOLEAN] /\ text' \in [Outputs -> Texts]
      /\ enabled' \subseteq Streams /\ menu' \in Menus /\ stopping' \in [Flags -> BOOLEAN]
      /\ locked' \in BOOLEAN /\ restarted' \subseteq Streams /\ starts' \in 0..MaxStarts
      /\ env' \in Environments
  BY TypeFacts DEF Lib_Started, buttonVars
<1> QED BY <1>2, <1>3, <1>4, <1>5, TypeFrame

(* The same of the signal of a stop.                                        *)
LEMMA StoppedTypes ==
  ASSUME TypeInv, NEW o \in Outputs, Lib_Stopped(o)
  PROVE  TypeInv'
<1>1. [slot |-> "stop", of |-> o] \in Slots
  BY TypeFacts DEF Slots
<1>2. slots' \in Seq(Slots) /\ StartsOfStreams'
  BY <1>1, SlotAdded, TypeFacts DEF Lib_Stopped, StartsOfStreams
<1>3. lib' \in [Outputs -> States]
  BY TypeFacts DEF Lib_Stopped, States
<1>4. flag' \in [Outputs -> BOOLEAN]
  BY TypeFacts DEF Lib_Stopped
<1>5. delayFlag' \in [Streams -> BOOLEAN]
  <2>1. delayFlag' = [d \in Streams |-> d # o /\ delayFlag[d]]
    BY DEF Lib_Stopped
  <2> QED BY <2>1, Zenon
<1>6. /\ text' \in [Outputs -> Texts]
      /\ enabled' \subseteq Streams /\ menu' \in Menus /\ stopping' \in [Flags -> BOOLEAN]
      /\ locked' \in BOOLEAN /\ restarted' \subseteq Streams /\ starts' \in 0..MaxStarts
      /\ env' \in Environments
  BY TypeFacts DEF Lib_Stopped, buttonVars
<1> QED BY <1>2, <1>3, <1>4, <1>5, <1>6, TypeFrame

SlotRun(h) ==
  \/ h.slot = "start" /\ h.of \in Streams /\ StreamingStart(h.of)
  \/ h.slot = "stop" /\ h.of \in Streams /\ StreamingStop(h.of)
  \/ h.slot = "stop" /\ h.of \in Recordings /\ RecordingStop(h.of)

(* The slot that runs is the first of the queue.                            *)
LEMMA RunFacts ==
  ASSUME TypeInv, RunSlot
  PROVE  /\ slots # <<>> /\ slots' = Tail(slots)
         /\ slots[1] \in Slots
         /\ SlotRun(slots[1])
         /\ UNCHANGED <<env, lib, flag, delayFlag, restarted, starts>>
<1>1. /\ slots # <<>> /\ slots' = Tail(slots)
      /\ UNCHANGED <<env, lib, flag, delayFlag, restarted, starts>>
  BY DEF RunSlot, handlerVars
<1>2. Head(slots) = slots[1] /\ slots[1] \in Slots /\ 1 \in DOMAIN slots
  BY <1>1, SlotTaken
<1>3. IF slots[1].slot = "start" THEN StreamingStart(slots[1].of)
      ELSE IF slots[1].of \in Streams THEN StreamingStop(slots[1].of)
      ELSE RecordingStop(slots[1].of)
  BY <1>2 DEF RunSlot
<1>4. slots[1].slot = "start" => slots[1].of \in Streams
  BY <1>2, TypeFacts DEF StartsOfStreams
<1>5. slots[1].slot \in {"start", "stop"} /\ slots[1].of \in Streams \cup Recordings
  BY <1>2 DEF Slots, Outputs
<1> QED BY <1>1, <1>2, <1>3, <1>4, <1>5 DEF SlotRun

(* No slot disturbs a type.                                                 *)
LEMMA RunTypes ==
  ASSUME TypeInv, RunSlot
  PROVE  TypeInv'
<1> DEFINE h == slots[1]
<1>1. h \in Slots /\ SlotRun(h) /\ slots # <<>> /\ slots' = Tail(slots)
      /\ UNCHANGED <<env, lib, flag, delayFlag, restarted, starts>>
  BY RunFacts
<1>2. slots' \in Seq(Slots) /\ StartsOfStreams'
  <2>1. slots' \in Seq(Slots)
        /\ \A i \in DOMAIN slots' : i + 1 \in DOMAIN slots /\ slots'[i] = slots[i + 1]
    BY <1>1, SlotTaken
  <2> QED BY <2>1, TypeFacts DEF StartsOfStreams
<1> HIDE DEF h
<1>3. /\ lib' \in [Outputs -> States] /\ flag' \in [Outputs -> BOOLEAN]
      /\ delayFlag' \in [Streams -> BOOLEAN] /\ restarted' \subseteq Streams
      /\ starts' \in 0..MaxStarts /\ env' \in Environments
  BY <1>1, TypeFacts
<1>4. /\ text' \in [Outputs -> Texts] /\ enabled' \subseteq Streams /\ menu' \in Menus
  BY <1>1, TypeFacts DEF SlotRun, StreamingStart, StreamingStop, RecordingStop, Texts, Menus
<1>5. stopping' \in [Flags -> BOOLEAN]
  BY <1>1, TypeFacts DEF SlotRun, StreamingStart, StreamingStop, RecordingStop
<1>6. locked' \in BOOLEAN
  BY <1>1, Zenon DEF SlotRun, StreamingStart, StreamingStop, RecordingStop, OnActivate,
     OnDeactivate
<1> QED BY <1>2, <1>3, <1>4, <1>5, <1>6, TypeFrame

(* No step disturbs a type.                                                 *)
LEMMA TypeStep ==
  ASSUME TypeInv, [Next]_vars
  PROVE  TypeInv'
<1>1. CASE StartFacts
  <2>1. slots' \in Seq(Slots) /\ StartsOfStreams' /\ env' \in Environments
    BY <1>1, TypeFacts DEF StartFacts, StartsOfStreams
  <2> QED BY <1>1, <2>1, TypeFrame DEF StartFacts
<1>2. CASE StopFacts
  <2>1. slots' \in Seq(Slots) /\ StartsOfStreams' /\ env' \in Environments
        /\ flag' \in [Outputs -> BOOLEAN] /\ delayFlag' \in [Streams -> BOOLEAN]
        /\ restarted' \subseteq Streams /\ starts' \in 0..MaxStarts
    BY <1>2, TypeFacts DEF StopFacts, StartsOfStreams
  <2>2. locked' \in BOOLEAN
    BY <1>2, Zenon DEF StopFacts, OnDeactivate
  <2> QED BY <1>2, <2>1, <2>2, TypeFrame DEF StopFacts
<1>3. CASE UNCHANGED vars
  BY <1>3 DEF vars, handlerVars, buttonVars, TypeInv, TypeOK, StartsOfStreams
<1> QED BY <1>1, <1>2, <1>3, Steps, StartedTypes, StoppedTypes, RunTypes

(* In the first state everything is off.                                    *)
LEMMA TypeInit == Init => TypeInv
<1> SUFFICES ASSUME Init PROVE TypeInv
  OBVIOUS
<1>1. slots = <<>> /\ slots \in Seq([slot : {"start", "stop"}, of : Outputs])
  BY EmptySeq DEF Init
<1>2. StartsOfStreams
  BY <1>1 DEF StartsOfStreams
<1>3. /\ flag \in [Outputs -> BOOLEAN] /\ delayFlag \in [Streams -> BOOLEAN]
      /\ stopping \in [{"streams"} \cup Recordings -> BOOLEAN] /\ locked \in BOOLEAN
  BY Zenon DEF Init
<1> QED BY <1>1, <1>2, <1>3 DEF Init, TypeInv, TypeOK, NoMenu

(* The types hold from the first state on.                                  *)
LEMMA TypeInvariant == Spec => []TypeInv
BY TypeInit, TypeStep, PTL DEF Spec

(* Every variable keeps its type.                                           *)
THEOREM TypeCorrect == Spec => []TypeOK
<1>1. TypeInv => TypeOK
  BY DEF TypeInv
<1> QED BY <1>1, TypeInvariant, PTL

-----------------------------------------------------------------------------
(* The lock of the profile.                                                 *)

(* The outputs of outputHandler that count as active.                       *)
LEMMA ActiveFacts ==
  ASSUME TypeInv
  PROVE  /\ Active <=> delayFlag["stream"] \/ \E o \in Main : flag[o]
         /\ Main = {"stream", "record", "replay"}
BY TypeFacts DEF Active, Main

(* No step takes the reason for the lock away, or leaves an active output   *)
(* of outputHandler without it.                                             *)
LEMMA LockStep ==
  ASSUME TypeInv, LockInv, [Next]_vars
  PROVE  LockInv'
<1> USE DEF LockInv
<1>0. /\ \A i \in DOMAIN slots : i \in Nat /\ slots[i] \in Slots
      /\ Len(slots) + 1 \notin DOMAIN slots
  BY TypeFacts
<1>1. ASSUME NEW o \in Streams, Lib_Started(o) PROVE LockInv'
  <2> DEFINE new == [slot |-> "start", of |-> o]
             n == Len(slots) + 1
  <2>1. new \in Slots /\ new.slot = "start" /\ new.of = o /\ slots' = Append(slots, new)
        /\ o \in Outputs
    BY <1>1, TypeFacts DEF Lib_Started, Slots
  <2>2. /\ DOMAIN slots' = DOMAIN slots \cup {n}
        /\ \A i \in DOMAIN slots : slots'[i] = slots[i] /\ i < n
        /\ slots'[n] = new
    BY <2>1, SlotAdded
  <2> HIDE DEF new, n
  <2>3. /\ lib'[o] # "off" /\ \A x \in Outputs : x # o => lib'[x] = lib[x]
        /\ flag'[o] /\ \A x \in Outputs : flag[x] => flag'[x]
        /\ \A x \in Outputs : x # o /\ flag'[x] => flag[x]
        /\ delayFlag' = delayFlag /\ locked' = locked
    BY <1>1, <2>1, TypeFacts DEF Lib_Started
  <2>4. FlagsOfActive'
    BY <2>3, TypeFacts DEF FlagsOfActive
  <2>5. StopsFollow'
    BY <1>0, <2>1, <2>2, <2>3 DEF StopsFollow, Slots
  <2>6. LockHasReason'
    BY <1>0, <2>2, <2>3, ActiveFacts, TypeFacts DEF LockHasReason, StopQueued, Active, Main
  <2>7. StartsLock'
    BY <2>1, <2>2, <2>3, TypeFacts DEF StartsLock, Queued, Main, new
  <2> QED BY <2>4, <2>5, <2>6, <2>7
<1>2. ASSUME NEW o \in Outputs, Lib_Stopped(o) PROVE LockInv'
  <2> DEFINE new == [slot |-> "stop", of |-> o]
             n == Len(slots) + 1
  <2>1. new \in Slots /\ new.slot = "stop" /\ new.of = o /\ slots' = Append(slots, new)
    BY <1>2 DEF Lib_Stopped, Slots
  <2>2. /\ DOMAIN slots' = DOMAIN slots \cup {n}
        /\ \A i \in DOMAIN slots : slots'[i] = slots[i] /\ i < n
        /\ slots'[n] = new
    BY <2>1, SlotAdded
  <2> HIDE DEF new, n
  <2>3. /\ \A x \in Outputs : x # o => lib'[x] = lib[x] /\ flag'[x] = flag[x]
        /\ ~flag'[o] /\ locked' = locked
        /\ \A d \in Streams : delayFlag'[d] => d # o /\ delayFlag[d]
    BY <1>2, TypeFacts DEF Lib_Stopped
  <2>4. FlagsOfActive'
    BY <2>3, TypeFacts DEF FlagsOfActive
  <2>5. StopsFollow'
    BY <1>0, <2>1, <2>2 DEF StopsFollow
  <2>6. LockHasReason'
    BY <2>1, <2>2 DEF LockHasReason, StopQueued
  <2>7. StartsLock'
    BY <2>2, <2>3, TypeFacts DEF StartsLock, Queued, Main
  <2> QED BY <2>4, <2>5, <2>6, <2>7
<1>3. CASE RunSlot
  <2>1. /\ slots # <<>> /\ slots' = Tail(slots) /\ slots[1] \in Slots
        /\ SlotRun(slots[1])
        /\ UNCHANGED <<lib, flag, delayFlag>>
    BY <1>3, RunFacts
  <2>2. /\ 1 \in DOMAIN slots
        /\ \A i \in DOMAIN slots' : i \in Nat /\ i + 1 \in DOMAIN slots /\ slots'[i] = slots[i + 1]
        /\ \A i \in DOMAIN slots : i \in Nat /\ i >= 1
        /\ \A i \in DOMAIN slots : i # 1 => i - 1 \in DOMAIN slots' /\ slots'[i - 1] = slots[i]
    BY <2>1, SlotTaken
  <2>3. FlagsOfActive'
    BY <2>1 DEF FlagsOfActive
  <2>4. StopsFollow'
    <3> SUFFICES ASSUME NEW i \in DOMAIN slots', slots'[i].slot = "start", ~flag'[slots'[i].of]
                 PROVE  \E j \in DOMAIN slots' : j > i /\ slots'[j].slot = "stop"
      BY DEF StopsFollow
    <3>1. PICK j \in DOMAIN slots : j > i + 1 /\ slots[j].slot = "stop"
      BY <2>1, <2>2 DEF StopsFollow
    <3> QED BY <2>2, <3>1
  <2>5. Active' <=> Active
    BY <2>1 DEF Active
  <2>6. CASE slots[1].slot = "start"
    <3>1. locked'
      BY <2>1, <2>6 DEF SlotRun, StreamingStart, OnActivate
    <3>2. slots[1].of \in {"stream", "flv"}
      BY <2>1, <2>6, TypeFacts DEF SlotRun
    <3>3. LockHasReason'
      <4>1. CASE flag[slots[1].of]
        BY <2>1, <3>2, <4>1 DEF LockHasReason, Active, Main, Outputs, Streams, Recordings
      <4>2. CASE ~flag[slots[1].of]
        <5>1. PICK j \in DOMAIN slots : j > 1 /\ slots[j].slot = "stop"
          BY <2>2, <2>6, <4>2 DEF StopsFollow
        <5> QED BY <2>2, <5>1 DEF LockHasReason, StopQueued
      <4> QED BY <4>1, <4>2
    <3> QED BY <2>3, <2>4, <3>1, <3>3 DEF StartsLock
  <2>7. CASE slots[1].slot = "stop"
    <3>1. locked' = (locked /\ Active)
      BY <2>1, <2>7 DEF SlotRun, StreamingStop, RecordingStop, OnDeactivate
    <3>2. LockHasReason'
      BY <2>5, <3>1 DEF LockHasReason
    <3>3. StartsLock'
      <4> SUFFICES ASSUME NEW o \in Main, flag'[o]
                   PROVE  locked' \/ Queued("start", o)'
        BY DEF StartsLock
      <4>1. flag[o] /\ Active
        BY <2>1 DEF Active
      <4>2. CASE locked
        BY <3>1, <4>1, <4>2
      <4>3. CASE ~locked
        <5>1. PICK i \in DOMAIN slots : slots[i] = [slot |-> "start", of |-> o]
          BY <4>1, <4>3 DEF StartsLock, Queued
        <5>2. i # 1
          BY <2>7, <5>1
        <5> QED BY <2>2, <5>1, <5>2 DEF Queued
      <4> QED BY <4>2, <4>3
    <3> QED BY <2>3, <2>4, <3>2, <3>3
  <2> QED BY <2>1, <2>6, <2>7 DEF Slots
<1>4. CASE StartFacts
  <2>1. /\ slots' = slots /\ (locked => locked')
        /\ locked' => locked \/ (\E r \in Recordings : flag'[r]) \/ (\E d \in Streams : delayFlag'[d])
        /\ \A x \in Recordings : RecordingStarts(x)
        /\ \A x \in Streams : StreamStarts(x)
    BY <1>4 DEF StartFacts
  <2>2. /\ \A x \in Outputs : flag[x] => flag'[x]
        /\ \A x \in Outputs : flag'[x] => flag[x] \/ (locked' /\ lib'[x] = "on")
        /\ \A x \in Streams : delayFlag[x] => delayFlag'[x]
        /\ \A x \in Streams : delayFlag'[x] => delayFlag[x] \/ lib'[x] = "delayed"
        /\ \A x \in Outputs : lib[x] # "off" => lib'[x] # "off"
    BY <2>1, TypeFacts DEF RecordingStarts, StreamStarts
  <2>3. FlagsOfActive'
    BY <2>2, TypeFacts DEF FlagsOfActive
  <2>4. StopsFollow'
    BY <1>0, <2>1, <2>2 DEF StopsFollow, Slots
  <2>5. LockHasReason'
    BY <2>1, <2>2, TypeFacts DEF LockHasReason, Active, Main, StopQueued
  <2>6. StartsLock'
    BY <2>1, <2>2, TypeFacts DEF StartsLock, Main, Queued
  <2> QED BY <2>3, <2>4, <2>5, <2>6
<1>5. CASE StopFacts
  <2>1. /\ UNCHANGED <<slots, flag, delayFlag>> /\ locked' = (locked /\ Active)
        /\ \A x \in Outputs : lib[x] # "off" => lib'[x] # "off"
    BY <1>5 DEF StopFacts, OnDeactivate
  <2>2. Active' <=> Active
    BY <2>1 DEF Active
  <2>3. FlagsOfActive' /\ StopsFollow'
    BY <2>1, TypeFacts DEF FlagsOfActive, StopsFollow
  <2>4. LockHasReason'
    BY <2>1, <2>2 DEF LockHasReason
  <2>5. StartsLock'
    BY <2>1 DEF StartsLock, Queued, Active
  <2> QED BY <2>3, <2>4, <2>5
<1>6. CASE UNCHANGED vars
  BY <1>6 DEF vars, handlerVars, FlagsOfActive, StopsFollow, LockHasReason, StartsLock,
     Queued, StopQueued, Active
<1> QED BY <1>1, <1>2, <1>3, <1>4, <1>5, <1>6, Steps

-----------------------------------------------------------------------------
(* The buttons.                                                             *)

(* Of a step that adds no slot it is enough to show what it does to each    *)
(* output.                                                                  *)
LEMMA ButtonFrame ==
  ASSUME TypeInv, ButtonInv, slots' = slots, env' = env,
         \A x \in Streams : \/ lib'[x] = lib[x]
                            \/ lib'[x] \notin {"off", "on"},
         \A x \in Streams : StreamShown(x) => StreamShown(x)',
         env.prompt => \A x \in Recordings :
           IF Seen(x) THEN RecordingShown(x)' ELSE lib'[x] = "off"
  PROVE  ButtonInv'
<1>1. \A x \in Outputs : Seen(x)' <=> Seen(x)
  BY DEF Seen
<1>2. LastSlotTrue'
  BY DEF LastSlotTrue, Last, ButtonInv
<1> QED BY <1>1, <1>2, TypeFacts DEF ButtonInv

(* No step makes a button lie once the slots have run.                      *)
LEMMA ButtonStep ==
  ASSUME TypeInv, ButtonInv, [Next]_vars
  PROVE  ButtonInv'
<1> USE DEF ButtonInv
<1>0. /\ \A i \in DOMAIN slots : i \in Nat /\ slots[i] \in Slots
      /\ Len(slots) + 1 \notin DOMAIN slots /\ Len(slots) \in Nat
  BY TypeFacts
<1>1. ASSUME NEW o \in Outputs, NEW kind \in {"start", "stop"},
             slots' = Append(slots, [slot |-> kind, of |-> o]),
             \A x \in Outputs : x # o => lib'[x] = lib[x],
             kind = "start" => o \in Streams /\ lib'[o] # "off",
             kind = "stop" => lib'[o] = "off",
             UNCHANGED <<env, text, enabled, menu>>
      PROVE  ButtonInv'
  <2> DEFINE new == [slot |-> kind, of |-> o]
             n == Len(slots) + 1
  <2>1. new \in Slots /\ new.slot = kind /\ new.of = o /\ slots' = Append(slots, new)
    BY <1>1 DEF Slots
  <2>2. /\ DOMAIN slots' = DOMAIN slots \cup {n}
        /\ \A i \in DOMAIN slots : slots'[i] = slots[i] /\ i < n
        /\ slots'[n] = new
    BY <2>1, SlotAdded
  <2> HIDE DEF new, n
  <2>3. LastSlotTrue'
    <3> SUFFICES ASSUME NEW i \in DOMAIN slots', Last(i)', slots'[i].of \in Streams
                 PROVE  lib'[slots'[i].of] # (IF slots'[i].slot = "start" THEN "off" ELSE "on")
      BY DEF LastSlotTrue
    <3>1. CASE i = n
      BY <1>1, <2>1, <2>2, <3>1
    <3>2. CASE i \in DOMAIN slots
      <4>1. slots'[i] = slots[i] /\ slots[i].of # o /\ Last(i)
        BY <2>1, <2>2, <3>2 DEF Last
      <4>2. lib'[slots[i].of] = lib[slots[i].of]
        BY <1>0, <1>1, <3>2, <4>1 DEF Slots
      <4> QED BY <3>2, <4>1, <4>2 DEF LastSlotTrue
    <3> QED BY <2>2, <3>1, <3>2
  <2>4. ~Seen(o)' /\ \A x \in Outputs : x # o => (Seen(x)' <=> Seen(x))
    BY <2>1, <2>2 DEF Seen
  <2>5. \A x \in Streams : Seen(x)' => StreamShown(x)'
    BY <1>1, <2>4, TypeFacts DEF StreamShown
  <2>6. env.prompt => \A x \in Recordings :
           IF Seen(x)' THEN RecordingShown(x)' ELSE lib'[x] = "off"
    BY <1>1, <2>4, TypeFacts DEF RecordingShown
  <2> QED BY <1>1, <2>3, <2>5, <2>6
<1>2. ASSUME NEW o \in Streams, Lib_Started(o) PROVE ButtonInv'
  <2>1. lib'[o] # "off" /\ \A x \in Outputs : x # o => lib'[x] = lib[x]
    BY <1>2, TypeFacts DEF Lib_Started
  <2>2. o \in Outputs /\ slots' = Append(slots, [slot |-> "start", of |-> o])
        /\ UNCHANGED <<env, text, enabled, menu>>
    BY <1>2, TypeFacts DEF Lib_Started, buttonVars
  <2> QED BY <1>1, <2>1, <2>2
<1>3. ASSUME NEW o \in Outputs, Lib_Stopped(o) PROVE ButtonInv'
  <2>1. lib'[o] = "off" /\ \A x \in Outputs : x # o => lib'[x] = lib[x]
    BY <1>3, TypeFacts DEF Lib_Stopped
  <2>2. slots' = Append(slots, [slot |-> "stop", of |-> o])
        /\ UNCHANGED <<env, text, enabled, menu>>
    BY <1>3 DEF Lib_Stopped, buttonVars
  <2> QED BY <1>1, <2>1, <2>2
<1>4. CASE RunSlot
  <2>1. /\ slots # <<>> /\ slots' = Tail(slots) /\ slots[1] \in Slots
        /\ SlotRun(slots[1])
        /\ UNCHANGED <<env, lib>>
    BY <1>4, RunFacts
  <2>9. PICK o \in Outputs : o = slots[1].of
    BY <2>1 DEF Slots
  <2>2. /\ 1 \in DOMAIN slots
        /\ \A i \in DOMAIN slots' : i \in Nat /\ i + 1 \in DOMAIN slots /\ slots'[i] = slots[i + 1]
        /\ \A i \in DOMAIN slots : i \in Nat /\ i >= 1
        /\ \A i \in DOMAIN slots : i # 1 => i - 1 \in DOMAIN slots' /\ slots'[i - 1] = slots[i]
    BY <2>1, SlotTaken
  <2>3. LastSlotTrue'
    <3> SUFFICES ASSUME NEW i \in DOMAIN slots', Last(i)', slots'[i].of \in Streams
                 PROVE  lib'[slots'[i].of] # (IF slots'[i].slot = "start" THEN "off" ELSE "on")
      BY DEF LastSlotTrue
    <3>1. i + 1 \in DOMAIN slots /\ slots'[i] = slots[i + 1]
      BY <2>2
    <3>2. Last(i + 1)
      <4> SUFFICES ASSUME NEW j \in DOMAIN slots, j > i + 1 PROVE slots[j].of # slots[i + 1].of
        BY DEF Last
      <4>1. j # 1 /\ j - 1 > i
        BY <2>2
      <4>2. j - 1 \in DOMAIN slots' /\ slots'[j - 1] = slots[j]
        BY <2>2, <4>1
      <4> QED BY <3>1, <4>1, <4>2 DEF Last
    <3> QED BY <2>1, <3>1, <3>2 DEF LastSlotTrue
  <2>4. \A x \in Outputs : x # o => (Seen(x)' <=> Seen(x))
    <3> SUFFICES ASSUME NEW x \in Outputs, x # o PROVE Seen(x)' <=> Seen(x)
      OBVIOUS
    <3>1. Seen(x) => Seen(x)'
      BY <2>2 DEF Seen
    <3>2. ASSUME Seen(x)', NEW i \in DOMAIN slots PROVE slots[i].of # x
      <4>1. CASE i = 1
        BY <2>9, <3>2, <4>1
      <4>2. CASE i # 1
        BY <2>2, <3>2, <4>2 DEF Seen
      <4> QED BY <4>1, <4>2
    <3> QED BY <3>1, <3>2 DEF Seen
  <2>5. Seen(o)' => Last(1)
    <3> SUFFICES ASSUME Seen(o)', NEW j \in DOMAIN slots, j > 1 PROVE slots[j].of # o
      BY <2>9 DEF Last
    <3>1. j - 1 \in DOMAIN slots' /\ slots'[j - 1] = slots[j]
      BY <2>2
    <3> QED BY <3>1 DEF Seen
  <2>6. o \in Outputs /\ ~Seen(o)
    BY <2>2, <2>9 DEF Seen
  <2>7. ASSUME NEW x \in Streams, Seen(x)' PROVE StreamShown(x)'
    <3>1. CASE x = o
      <4>1. lib[o] # (IF slots[1].slot = "start" THEN "off" ELSE "on")
        BY <2>2, <2>5, <2>7, <2>9, <3>1 DEF LastSlotTrue
      <4>2. \/ slots[1].slot = "start" /\ StreamingStart(o)
            \/ slots[1].slot = "stop" /\ StreamingStop(o)
        BY <2>1, <2>9, <3>1, TypeFacts DEF SlotRun
      <4>3. lib[o] = "off" => slots[1].slot = "stop"
        BY <4>1, <4>2
      <4>4. text \in [Outputs -> Texts] /\ o \in Outputs
        BY <2>6, TypeFacts
      <4>5. o \in enabled' /\ text'[o] = (IF slots[1].slot = "start" THEN "stop" ELSE "start")
        BY <4>2, <4>4 DEF StreamingStart, StreamingStop
      <4>6. slots[1].slot = "stop" => menu'.on # o
        BY <3>1, <4>2, TypeFacts DEF StreamingStop, NoMenu
      <4> QED BY <2>1, <3>1, <4>1, <4>2, <4>5, <4>6 DEF StreamShown
    <3>2. CASE x # o
      <4>1. StreamShown(x)
        BY <2>4, <2>7, <3>2, TypeFacts
      <4>2. text'[x] = text[x] /\ (x \in enabled => x \in enabled')
        BY <2>1, <2>9, <3>2, TypeFacts DEF SlotRun, StreamingStart, StreamingStop, RecordingStop
      <4>3. menu' = menu \/ menu' = NoMenu
        BY <2>1 DEF SlotRun, StreamingStart, StreamingStop, RecordingStop
      <4> QED BY <2>1, <4>1, <4>2, <4>3, TypeFacts DEF StreamShown, NoMenu
    <3> QED BY <3>1, <3>2
  <2>8. ASSUME env.prompt, NEW x \in Recordings
        PROVE  IF Seen(x)' THEN RecordingShown(x)' ELSE lib'[x] = "off"
    <3>1. CASE x = o
      <4>1. lib[o] = "off"
        BY <2>6, <2>8, <3>1
      <4>2. RecordingStop(o)
        BY <2>1, <2>9, <3>1, TypeFacts DEF SlotRun
      <4>3. text'[o] = "start"
        BY <2>6, <4>2, TypeFacts DEF RecordingStop
      <4> QED BY <2>1, <3>1, <4>1, <4>3 DEF RecordingShown
    <3>2. CASE x # o
      <4>1. IF Seen(x) THEN RecordingShown(x) ELSE lib[x] = "off"
        BY <2>8
      <4>2. text'[x] = text[x]
        BY <2>1, <2>9, <3>2, TypeFacts DEF SlotRun, StreamingStart, StreamingStop, RecordingStop
      <4> QED BY <2>1, <2>4, <3>2, <4>1, <4>2, TypeFacts DEF RecordingShown
    <3> QED BY <3>1, <3>2
  <2> QED BY <2>1, <2>3, <2>7, <2>8
<1>5. CASE StartFacts
  <2>1. /\ UNCHANGED <<slots, env>> /\ Input
        /\ \A x \in Recordings : RecordingStarts(x)
        /\ \A x \in Streams : StreamStarts(x)
        /\ menu' = menu \/ (menu'.on \in Streams /\ lib'[menu'.on] = "delayed")
    BY <1>5 DEF StartFacts
  <2>2. \A x \in Streams : lib'[x] = lib[x] \/ lib'[x] \notin {"off", "on"}
    BY <2>1 DEF StreamStarts
  <2>3. ASSUME NEW x \in Streams, StreamShown(x) PROVE StreamShown(x)'
    BY <2>1, <2>3 DEF StreamStarts, StreamShown
  <2>4. ASSUME env.prompt, NEW x \in Recordings
        PROVE  IF Seen(x) THEN RecordingShown(x)' ELSE lib'[x] = "off"
    <3>1. slots = <<>>
      BY <2>1, <2>4 DEF Input
    <3>2. Seen(x)
      BY <3>1 DEF Seen
    <3> QED BY <2>1, <2>4, <3>2 DEF RecordingStarts, RecordingShown
  <2> QED BY <2>1, <2>2, <2>3, <2>4, ButtonFrame
<1>6. CASE StopFacts
  <2>1. /\ UNCHANGED <<slots, env>> /\ Input /\ enabled \subseteq enabled'
        /\ \A x \in Outputs :
             \/ lib'[x] = lib[x] /\ text'[x] = text[x]
             \/ lib'[x] \in {"draining", "stopping"}
        /\ menu' = menu \/ (menu'.on \in Streams /\ lib'[menu'.on] \in {"draining", "stopping"})
    BY <1>6 DEF StopFacts
  <2>2. \A x \in Streams : lib'[x] = lib[x] \/ lib'[x] \notin {"off", "on"}
    BY <2>1, TypeFacts
  <2>3. ASSUME NEW x \in Streams, StreamShown(x) PROVE StreamShown(x)'
    BY <2>1, <2>3, TypeFacts DEF StreamShown
  <2>4. ASSUME env.prompt, NEW x \in Recordings
        PROVE  IF Seen(x) THEN RecordingShown(x)' ELSE lib'[x] = "off"
    <3>1. slots = <<>>
      BY <2>1, <2>4 DEF Input
    <3>2. Seen(x)
      BY <3>1 DEF Seen
    <3> QED BY <2>1, <2>4, <3>2, TypeFacts DEF RecordingShown
  <2> QED BY <2>1, <2>2, <2>3, <2>4, ButtonFrame
<1>7. CASE UNCHANGED vars
  <2>1. UNCHANGED <<slots, env, lib, text, enabled, menu>>
    BY <1>7 DEF vars, handlerVars, buttonVars
  <2> QED BY <2>1, ButtonFrame DEF StreamShown, RecordingShown
<1> QED BY <1>2, <1>3, <1>4, <1>5, <1>6, <1>7, Steps

-----------------------------------------------------------------------------
(* The stopping flags and the FLV stream.                                   *)

(* No step leaves a stopping flag behind for the next start.                *)
LEMMA StoppingStep ==
  ASSUME TypeInv, StoppingInv, [Next]_vars
  PROVE  StoppingInv'
<1> USE DEF StoppingInv
<1>1. ASSUME NEW o \in Outputs, NEW kind \in {"start", "stop"},
             slots' = Append(slots, [slot |-> kind, of |-> o]),
             \A x \in Outputs : x # o => lib'[x] = lib[x],
             o \in Recordings => lib'[o] # "on",
             lib[o] # "off",
             o = "stream" /\ lib[o] = "stopping" => kind = "stop",
             UNCHANGED <<env, stopping>>
      PROVE  StoppingInv'
  <2> DEFINE new == [slot |-> kind, of |-> o]
             n == Len(slots) + 1
  <2>1. new \in Slots /\ slots' = Append(slots, new)
    BY <1>1 DEF Slots
  <2>2. /\ DOMAIN slots' = DOMAIN slots \cup {n}
        /\ \A i \in DOMAIN slots : slots'[i] = slots[i]
        /\ slots'[n] = new
    BY <2>1, SlotAdded
  <2>3. Queued("stop", "stream") => Queued("stop", "stream")'
    BY <2>2 DEF Queued
  <2>4. kind = "stop" /\ o = "stream" => Queued("stop", "stream")'
    BY <2>2 DEF Queued
  <2>5. \A x \in Recordings : lib'[x] = "on" => ~stopping'[x]
    BY <1>1, TypeFacts
  <2>6. ASSUME ~env.flv
        PROVE  /\ lib'["flv"] = "off"
               /\ stopping'["streams"] => lib'["stream"] = "stopping" \/ Queued("stop", "stream")'
    BY <1>1, <2>3, <2>4, <2>6, TypeFacts
  <2> QED BY <1>1, <2>5, <2>6
<1>2. ASSUME NEW o \in Streams, Lib_Started(o) PROVE StoppingInv'
  <2>1. lib[o] \notin {"off", "stopping"} /\ \A x \in Outputs : x # o => lib'[x] = lib[x]
    BY <1>2, TypeFacts DEF Lib_Started
  <2>2. o \in Outputs /\ o \notin Recordings /\ slots' = Append(slots, [slot |-> "start", of |-> o])
        /\ UNCHANGED <<env, stopping>>
    BY <1>2, TypeFacts DEF Lib_Started, buttonVars
  <2> QED BY <1>1, <2>1, <2>2
<1>3. ASSUME NEW o \in Outputs, Lib_Stopped(o) PROVE StoppingInv'
  <2>1. lib[o] # "off" /\ lib'[o] = "off" /\ \A x \in Outputs : x # o => lib'[x] = lib[x]
    BY <1>3, TypeFacts DEF Lib_Stopped
  <2>2. slots' = Append(slots, [slot |-> "stop", of |-> o])
        /\ UNCHANGED <<env, stopping>>
    BY <1>3 DEF Lib_Stopped, buttonVars
  <2> QED BY <1>1, <2>1, <2>2
<1>4. CASE RunSlot
  <2>1. /\ slots # <<>> /\ slots' = Tail(slots) /\ slots[1] \in Slots
        /\ SlotRun(slots[1])
        /\ UNCHANGED <<env, lib>>
    BY <1>4, RunFacts
  <2>2. \A i \in DOMAIN slots : i # 1 => i - 1 \in DOMAIN slots' /\ slots'[i - 1] = slots[i]
    BY <2>1, SlotTaken
  <2>3. \/ stopping' = stopping /\ (slots[1].slot # "stop" \/ slots[1].of \notin Streams)
        \/ stopping' = [stopping EXCEPT !["streams"] = FALSE]
    BY <2>1, TypeFacts DEF SlotRun, StreamingStart, StreamingStop, RecordingStop
  <2>4. \A x \in Recordings : stopping'[x] = stopping[x]
    BY <2>3, TypeFacts DEF Flags
  <2>5. CASE stopping' = [stopping EXCEPT !["streams"] = FALSE]
    <3>1. ~stopping'["streams"]
      BY <2>5, TypeFacts DEF Flags
    <3> QED BY <2>1, <2>4, <3>1
  <2>6. CASE stopping' = stopping /\ (slots[1].slot # "stop" \/ slots[1].of \notin Streams)
    <3>1. ASSUME Queued("stop", "stream") PROVE Queued("stop", "stream")'
      <4>1. PICK i \in DOMAIN slots : slots[i] = [slot |-> "stop", of |-> "stream"]
        BY <3>1 DEF Queued
      <4>2. i # 1
        BY <2>6, <4>1, TypeFacts
      <4> QED BY <2>2, <4>1, <4>2 DEF Queued
    <3> QED BY <2>1, <2>6, <3>1
  <2> QED BY <2>3, <2>5, <2>6
<1>5. CASE StartFacts
  <2>1. /\ UNCHANGED <<slots, env>>
        /\ \A x \in Recordings : RecordingStarts(x)
        /\ StreamStarts("stream") /\ StreamStarts("flv")
        /\ stopping'["streams"] <=> stopping["streams"]
    BY <1>5, TypeFacts DEF StartFacts
  <2>2. \A x \in Recordings : lib'[x] = "on" => ~stopping'[x]
    BY <2>1 DEF RecordingStarts
  <2>3. Queued("stop", "stream")' <=> Queued("stop", "stream")
    BY <2>1 DEF Queued
  <2>4. lib["stream"] = "stopping" => lib'["stream"] = "stopping"
    BY <2>1 DEF StreamStarts
  <2>5. ~env.flv => lib'["flv"] = lib["flv"]
    BY <2>1 DEF StreamStarts, Permitted
  <2> QED BY <2>1, <2>2, <2>3, <2>4, <2>5
<1>6. CASE StopFacts
  <2>1. /\ UNCHANGED <<slots, env>>
        /\ \A x \in Outputs :
             \/ lib'[x] = lib[x]
             \/ lib[x] \in {"delayed", "on", "draining"} /\ lib'[x] \in {"draining", "stopping"}
        /\ \A f \in Flags : stopping'[f] =>
             stopping[f] \/ \E o \in Outputs : Stopping(o) = f /\ lib'[o] = "stopping"
    BY <1>6 DEF StopFacts
  <2>2. ASSUME NEW x \in Recordings, lib'[x] = "on" PROVE ~stopping'[x]
    <3>1. lib[x] = "on" /\ x \in Flags /\ x \in Outputs
      BY <2>1, <2>2, TypeFacts DEF Flags
    <3>2. \A o \in Outputs : Stopping(o) = x => o = x
      BY <2>2, TypeFacts DEF Stopping
    <3> QED BY <2>1, <2>2, <3>1, <3>2
  <2>3. ASSUME ~env.flv
        PROVE  /\ lib'["flv"] = "off"
               /\ stopping'["streams"] => lib'["stream"] = "stopping" \/ Queued("stop", "stream")'
    <3>1. lib["flv"] = "off" /\ "flv" \in Outputs /\ "stream" \in Outputs
      BY <2>3, TypeFacts
    <3>2. lib'["flv"] = "off"
      BY <2>1, <3>1
    <3>3. \A o \in Outputs : Stopping(o) = "streams" => o \in {"stream", "flv"}
      BY TypeFacts DEF Stopping
    <3>4. stopping'["streams"] => stopping["streams"] \/ lib'["stream"] = "stopping"
      BY <2>1, <3>2, <3>3 DEF Flags
    <3>5. lib["stream"] = "stopping" => lib'["stream"] = "stopping"
      BY <2>1, <3>1
    <3>6. Queued("stop", "stream")' <=> Queued("stop", "stream")
      BY <2>1 DEF Queued
    <3> QED BY <2>3, <3>2, <3>4, <3>5, <3>6
  <2> QED BY <2>1, <2>2, <2>3
<1>7. CASE UNCHANGED vars
  BY <1>7 DEF vars, handlerVars, buttonVars, Queued
<1> QED BY <1>2, <1>3, <1>4, <1>5, <1>6, <1>7, Steps

(* No step enables the button of the FLV stream while it connects.          *)
LEMMA FlvStep ==
  ASSUME TypeInv, FlvInv, [Next]_vars
  PROVE  FlvInv'
<1> USE DEF FlvInv
<1>0. "flv" \in Streams /\ "flv" \in Outputs /\ \A o \in Recordings : o # "flv"
  BY TypeFacts
<1>1. ASSUME NEW o \in Outputs, NEW kind \in {"start", "stop"},
             slots' = Append(slots, [slot |-> kind, of |-> o]),
             \A x \in Outputs : x # o => lib'[x] = lib[x],
             lib'[o] # "connecting",
             UNCHANGED <<env, enabled, restarted>>
      PROVE  FlvInv'
  <2> DEFINE new == [slot |-> kind, of |-> o]
  <2>1. new \in Slots /\ new.of = o /\ slots' = Append(slots, new)
    BY <1>1 DEF Slots
  <2>2. /\ DOMAIN slots' = DOMAIN slots \cup {Len(slots) + 1}
        /\ \A i \in DOMAIN slots : slots'[i] = slots[i]
        /\ slots'[Len(slots) + 1] = new
    BY <2>1, SlotAdded
  <2> HIDE DEF new
  <2>3. o # "flv" /\ Seen("flv") => Seen("flv")'
    BY <2>1, <2>2 DEF Seen
  <2> QED BY <1>0, <1>1, <2>3
<1>2. ASSUME NEW o \in Streams, Lib_Started(o) PROVE FlvInv'
  <2>1. lib'[o] # "connecting" /\ \A x \in Outputs : x # o => lib'[x] = lib[x]
    BY <1>2, TypeFacts DEF Lib_Started
  <2>2. o \in Outputs /\ slots' = Append(slots, [slot |-> "start", of |-> o])
        /\ UNCHANGED <<env, enabled, restarted>>
    BY <1>2, TypeFacts DEF Lib_Started, buttonVars
  <2> QED BY <1>1, <2>1, <2>2
<1>3. ASSUME NEW o \in Outputs, Lib_Stopped(o) PROVE FlvInv'
  <2>1. lib'[o] = "off" /\ \A x \in Outputs : x # o => lib'[x] = lib[x]
    BY <1>3, TypeFacts DEF Lib_Stopped
  <2>2. slots' = Append(slots, [slot |-> "stop", of |-> o])
        /\ UNCHANGED <<env, enabled, restarted>>
    BY <1>3 DEF Lib_Stopped, buttonVars
  <2> QED BY <1>1, <2>1, <2>2
<1>4. CASE RunSlot
  <2>1. /\ slots # <<>> /\ slots' = Tail(slots) /\ SlotRun(slots[1])
        /\ UNCHANGED <<env, lib, restarted>>
    BY <1>4, RunFacts
  <2>2. /\ 1 \in DOMAIN slots
        /\ \A i \in DOMAIN slots' : i + 1 \in DOMAIN slots /\ slots'[i] = slots[i + 1]
    BY <2>1, SlotTaken
  <2>3. Seen("flv") => Seen("flv")' /\ slots[1].of # "flv"
    BY <2>2 DEF Seen
  <2>4. slots[1].of # "flv" /\ "flv" \notin enabled => "flv" \notin enabled'
    BY <2>1 DEF SlotRun, StreamingStart, StreamingStop, RecordingStop
  <2> QED BY <2>1, <2>3, <2>4
<1>5. CASE StartFacts
  <2>1. /\ UNCHANGED <<slots, env>> /\ Input /\ StreamStarts("flv")
        /\ "flv" \in restarted' => "flv" \in restarted \/ (lib["flv"] = "connecting" /\ Permitted("flv"))
    BY <1>0, <1>5 DEF StartFacts
  <2>2. env.prompt => Seen("flv")'
    BY <2>1 DEF Input, Seen
  <2>3. env.prompt => "flv" \notin restarted'
    BY <2>1 DEF Permitted
  <2>4. env.prompt /\ lib'["flv"] = "connecting" => "flv" \notin enabled'
    BY <2>1 DEF StreamStarts, Permitted
  <2> QED BY <2>1, <2>2, <2>3, <2>4
<1>6. CASE StopFacts
  <2>1. /\ UNCHANGED <<slots, env, restarted>>
        /\ lib'["flv"] = lib["flv"] \/ lib'["flv"] \in {"draining", "stopping"}
    BY <1>0, <1>6 DEF StopFacts
  <2>2. lib["flv"] = "connecting" /\ "flv" \notin enabled => "flv" \notin enabled'
    BY <1>0, <1>6, <2>1 DEF StopFacts
  <2> QED BY <2>1, <2>2 DEF Seen
<1>7. CASE UNCHANGED vars
  BY <1>7 DEF vars, handlerVars, buttonVars, Seen
<1> QED BY <1>2, <1>3, <1>4, <1>5, <1>6, <1>7, Steps

-----------------------------------------------------------------------------
(* The theorems.                                                            *)

(* In the first state everything is off and no slot is queued.              *)
LEMMA ControlInit == Init => ControlInv
<1> SUFFICES ASSUME Init PROVE ControlInv
  OBVIOUS
<1>1. slots = <<>> /\ \A i \in DOMAIN slots : FALSE
  BY DEF Init
<1>2. /\ \A o \in Outputs : lib[o] = "off" /\ ~flag[o] /\ text[o] = "start"
      /\ \A o \in Streams : ~delayFlag[o] /\ o \in enabled /\ menu.on # o
      /\ ~locked /\ restarted = {}
      /\ \A f \in {"streams"} \cup Recordings : ~stopping[f]
  BY DEF Init, NoMenu, Streams
<1>3. LockInv
  BY <1>1, <1>2 DEF LockInv, FlagsOfActive, StopsFollow, LockHasReason, StartsLock, Main, Outputs
<1>4. ButtonInv
  BY <1>1, <1>2 DEF ButtonInv, LastSlotTrue, StreamShown, RecordingShown, Seen, Outputs
<1>5. StoppingInv /\ FlvInv
  BY <1>1, <1>2 DEF StoppingInv, FlvInv, Outputs, Streams
<1> QED BY <1>3, <1>4, <1>5 DEF ControlInv

(* The whole invariant holds from the first state on.                       *)
LEMMA ControlInvariant == Spec => [](TypeInv /\ ControlInv)
<1>1. TypeInv /\ ControlInv /\ [Next]_vars => ControlInv'
  BY LockStep, ButtonStep, StoppingStep, FlvStep DEF ControlInv
<1> QED BY <1>1, ControlInit, TypeInit, TypeStep, PTL DEF Spec

(* The profile stays locked while an output of outputHandler is active, and *)
(* is unlocked when everything is off and every slot has run.               *)
THEOREM ProfileLockCorrect == Spec => []ProfileLock
<1>1. TypeInv /\ ControlInv => ProfileLock
  <2> SUFFICES ASSUME TypeInv, LockInv PROVE ProfileLock
    BY DEF ControlInv
  <2>1. \A o \in Main :
          flag[o] => locked \/ \E i \in DOMAIN slots : slots[i] = [slot |-> "start", of |-> o]
    BY DEF LockInv, StartsLock, Queued
  <2>2. ASSUME AtRest, \A o \in Outputs : lib[o] = "off" PROVE ~locked
    <3>1. ~StopQueued
      BY <2>2 DEF AtRest, StopQueued
    <3>2. (\A o \in Outputs : ~flag[o]) /\ (\A o \in Streams : ~delayFlag[o])
      BY <2>2, TypeFacts DEF LockInv, FlagsOfActive
    <3> QED BY <3>1, <3>2, ActiveFacts, TypeFacts DEF LockInv, LockHasReason
  <2> QED BY <2>1, <2>2 DEF ProfileLock
<1> QED BY <1>1, ControlInvariant, PTL

(* Once the slots have run, the buttons show what the outputs do.           *)
THEOREM ButtonsCorrect == Spec => []ButtonsTruthful
<1>1. TypeInv /\ ControlInv => ButtonsTruthful
  <2> SUFFICES ASSUME ButtonInv, AtRest
               PROVE  /\ \A o \in Streams : StreamShown(o)
                      /\ env.prompt => \A o \in Recordings : RecordingShown(o)
    BY DEF ControlInv, ButtonsTruthful, StreamShown, RecordingShown
  <2>1. \A o \in Outputs : Seen(o)
    BY DEF AtRest, Seen
  <2> QED BY <2>1 DEF ButtonInv, Outputs
<1> QED BY <1>1, ControlInvariant, PTL

(* No output that runs finds its stopping flag set by an earlier stop.      *)
THEOREM FirstStopCorrect == Spec => []FirstStopIsGentle
<1>1. TypeInv /\ ControlInv => FirstStopIsGentle
  BY DEF ControlInv, StoppingInv, FirstStopIsGentle, AtRest, Queued
<1> QED BY <1>1, ControlInvariant, PTL

(* The FLV output is not started while it connects, by a user whose input   *)
(* waits for the slots.                                                     *)
THEOREM FlvStartCorrect == Spec => []FlvStartsFromRest
<1>1. TypeInv /\ ControlInv => FlvStartsFromRest
  BY DEF ControlInv, FlvInv, FlvStartsFromRest
<1> QED BY <1>1, ControlInvariant, PTL
=============================================================================
