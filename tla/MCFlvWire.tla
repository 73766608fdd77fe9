------------------------------ MODULE MCFlvWire ------------------------------
(* Tags on short streams, and AMF on small objects.                        *)
EXTENDS FlvWire, Amf

CONSTANT MaxRoom   \* bound: the bytes a buffer may have

mc_TimebaseDen == [type \in {"video", "audio"} |-> IF type = "video" THEN 3 ELSE 4]

mc_Frames ==
  {[type |-> "video", key |-> TRUE, cts |-> cts, size |-> 251] : cts \in 0 .. 2}
  \cup {[type |-> "video", key |-> FALSE, cts |-> 1, size |-> 1],
        [type |-> "video", key |-> FALSE, cts |-> 0, size |-> 0],
        [type |-> "audio", key |-> FALSE, cts |-> 0, size |-> 2]}

mc_FirstDts == {-2, -1, 0}

(* The next frame, and one so late that the time needs its high bits.      *)
mc_Advances == {1, 50331}

-----------------------------------------------------------------------------
VARIABLE sample   \* an object and the room for it, or None

(* Objects of at most two properties, nested once: the properties of an    *)
(* object have names and are not null, which is written without a name.    *)
Value(type) ==
  CASE type = AMF_NUMBER -> Bytes(8)
    [] type = AMF_BOOLEAN -> TRUE
    [] type = AMF_STRING -> Bytes(3)

Simple == {AMF_NUMBER, AMF_BOOLEAN, AMF_STRING}
Leaves(name) == {Prop(name, type, Value(type)) : type \in Simple}
Nested(Items) == {<<>>} \cup {<<a>> : a \in Items} \cup {<<a, b>> : a, b \in Items}

Branches(name) ==
  {Prop(name, type, value) : type \in {AMF_OBJECT, AMF_ECMA_ARRAY}, value \in Nested(Leaves(<<2>>))}

Objects == Nested(Leaves(<<1>>) \cup Branches(<<1, 1>>))

(* A strict array counts its items before it knows how many fit, so that   *)
(* it is read only where all fit; its items have no names.                 *)
Arrays ==
  {<<Prop(<<1>>, AMF_STRICT_ARRAY, items)>> :
     items \in Nested(Leaves(<<>>) \cup {Prop(<<>>, AMF_NULL, <<>>)})}

Samples ==
  [object : {o \in Objects : Len(o) < 2}, room : 0 .. MaxRoom]
  \cup [object : {o \in Objects : Len(o) = 2}, room : {20, 33, MaxRoom}]
  \cup [object : Arrays, room : {MaxRoom}]

MCInit == WireInit /\ sample \in Samples \cup {None}
MCNext == sample = None /\ WireNext /\ UNCHANGED sample
MCSpec == MCInit /\ [][MCNext]_<<wireVars, sample>>

-----------------------------------------------------------------------------
RECURSIVE CutTo(_, _)

(* p has the first properties of q, and so have the objects in it.         *)
CutTo(p, q) ==
  /\ Len(p) <= Len(q)
  /\ \A i \in DOMAIN p :
       \/ p[i] = q[i]
       \/ /\ p[i].name = q[i].name /\ p[i].type = q[i].type
          /\ p[i].type \in {AMF_OBJECT, AMF_ECMA_ARRAY}
          /\ CutTo(p[i].value, q[i].value)

(* An object in a buffer of any size is written within it or not at all,   *)
(* and is read as the properties that fitted: all of them if there is room *)
(* (AMF_Encode, AMF_EncodeEcmaArray, AMF_Decode).                          *)
ObjectRead ==
  sample # None =>
    \E bytes \in {AMF_Encode(sample.object, <<>>, sample.room)} :
      IF bytes = Failed THEN sample.room < MaxRoom
      ELSE \E read \in {AMF_Decode(Tail(bytes), TRUE)} :
             /\ Len(bytes) <= sample.room
             /\ read.rest = <<>>
             /\ CutTo(read.value, sample.object)
             /\ sample.room = MaxRoom => read.value = sample.object

(* The metadata is read as its event and as many properties as it          *)
(* announces, each with its name and value (build_flv_meta_data).          *)
MetaRead ==
  sample = None /\ written = None =>
    \A a_idx \in {0, 1} :
      \E tag \in {ReadTag(Rest(get_meta_data(a_idx), Len(FileHeader)))} :
      \E event \in {AMFProp_Decode(tag.body, FALSE)} :
      \E data \in {AMFProp_Decode(event.rest, FALSE)} :
        LET announced == AMF_DecodeInt32(SubSeq(event.rest, 2, 5))
            types == MetaTypes(a_idx)
        IN  /\ tag.size = Len(tag.body) /\ tag.back = Len(tag.body) + 10
            /\ event.value = Prop(<<>>, AMF_STRING, Bytes(10))
            /\ data.rest = <<>>
            /\ data.value.value =
                 [i \in 1 .. announced |-> Prop(Bytes(i), types[i], MetaValue(i, types[i]))]

(* What the encoders of AMF write can be read back.                        *)
AmfRead == ObjectRead /\ MetaRead
=============================================================================
