------------------------------- MODULE FlvWire -------------------------------
(***************************************************************************)
(* What the FLV stream writes: how the packets of the encoders, the        *)
(* sequence headers and the metadata become FLV tags (flv-mux-data.c,      *)
(* flv-meta-data.c, flv-mux.h), and where the times in the tags come from  *)
(* (flv-stream.c), over the streams that one output object makes.          *)
(*                                                                         *)
(* The dts and pts of a packet count units of its timebase, of which       *)
(* TimebaseDen make a second; the contents of packets are told apart by    *)
(* their size alone.  Which packets are dropped and when each part of the  *)
(* stream runs is in FlvQueue and FlvStream.                               *)
(***************************************************************************)
EXTENDS AmfValues, FiniteSets

CONSTANTS
  TimebaseDen,   \* for each type of packet
  FirstDts,      \* the dts of the first video packet, whose pts is 0
  Frames,        \* packets: type, keyframe, pts minus dts, size
  Advances,      \* from the dts of a packet to that of the next of its type
  HeaderSizes,   \* of the extra data of the encoders
  MaxQueued,     \* bound: packets in the queue
  MaxData,       \* bound: packets a stream is given
  MaxStreams     \* bound: streams

Types == DOMAIN TimebaseDen

ASSUME WireAssumption ==
  /\ Types = {"video", "audio"}
  /\ \A type \in Types : TimebaseDen[type] \in Nat \ {0}
  /\ FirstDts \subseteq Int /\ \A dts \in FirstDts : dts <= 0
  /\ Frames \subseteq [type : Types, key : BOOLEAN, cts : Nat, size : Nat]
  /\ Advances \subseteq Nat /\ HeaderSizes \subseteq Nat

VARIABLES
  stream,    \* struct flv_stream: got_first_video and start_dts_offset
  feed,      \* libobs: the number of the stream, packets given, their dts
  packets,   \* the packets in the queue
  written,   \* what was written last, and from what
  last       \* for each type, the time in the last tag of this stream

wireVars == <<stream, feed, packets, written, last>>

None == [none |-> TRUE]

-----------------------------------------------------------------------------
(* flv-mux.h: milliseconds, rounded towards zero.                          *)
MILLISECOND_DEN == 1000

(* A mutation: divided before it is multiplied.                            *)
get_ms_time_Seconds(den, val) == (val \div den) * MILLISECOND_DEN

get_ms_time(den, val) ==
  IF val >= 0 THEN (val * MILLISECOND_DEN) \div den ELSE -((-val * MILLISECOND_DEN) \div den)

RTMP_PACKET_TYPE_AUDIO == 8
RTMP_PACKET_TYPE_VIDEO == 9
RTMP_PACKET_TYPE_INFO == 18

(* The bytes of so much data.                                              *)
Bytes(size) == [i \in 1 .. size |-> i % Byte]

(* A mutation: the high bits are forgotten.                                *)
TimeBytes_Short(time_ms) == Int24(time_ms) \o <<0>>

(* The low 24 bits of a time, then the next seven.                         *)
TimeBytes(time_ms) == Int24(time_ms) \o <<(time_ms \div (Byte * Byte * Byte)) % 128>>

(* The size of a tag follows it and does not count its first byte.         *)
WithTagSize(tag) == tag \o Int32(Len(tag) - 1)

flv_video(dts_offset, packet, is_header) ==
  LET den == packet.den
      offset == packet.pts - packet.dts
      time_ms == get_ms_time(den, packet.dts) - dts_offset
  IN  IF packet.size = 0 THEN <<>>
      ELSE WithTagSize(
             <<RTMP_PACKET_TYPE_VIDEO>> \o Int24(packet.size + 5)
             \o TimeBytes(time_ms) \o Int24(0)
             \o <<IF packet.key THEN 23 ELSE 39, IF is_header THEN 0 ELSE 1>>
             \o Int24(get_ms_time(den, offset)) \o Bytes(packet.size))

flv_audio(dts_offset, packet, is_header) ==
  LET time_ms == get_ms_time(packet.den, packet.dts) - dts_offset
  IN  IF packet.size = 0 THEN <<>>
      ELSE WithTagSize(
             <<RTMP_PACKET_TYPE_AUDIO>> \o Int24(packet.size + 2)
             \o TimeBytes(time_ms) \o Int24(0)
             \o <<175, IF is_header THEN 0 ELSE 1>> \o Bytes(packet.size))

flv_packet_mux(packet, dts_offset, is_header) ==
  IF packet.type = "video" THEN flv_video(dts_offset, packet, is_header)
  ELSE flv_audio(dts_offset, packet, is_header)

Sent(packet, dts_offset, is_header) ==
  [packet |-> packet, offset |-> dts_offset, header |-> is_header,
   bytes |-> flv_packet_mux(packet, dts_offset, is_header)]

-----------------------------------------------------------------------------
(* The metadata: every name and value stands for that of its place.        *)
MetaTypes(a_idx) ==
  <<AMF_NUMBER, AMF_NUMBER>>
  \o (IF a_idx = 0 THEN <<AMF_NUMBER, AMF_NUMBER, AMF_STRING, AMF_NUMBER, AMF_NUMBER>>
      ELSE <<>>)
  \o <<AMF_STRING, AMF_NUMBER, AMF_NUMBER, AMF_NUMBER, AMF_NUMBER, AMF_BOOLEAN, AMF_STRING>>

MetaValue(i, type) ==
  CASE type = AMF_NUMBER -> Bytes(7) \o <<i>>
    [] type = AMF_STRING -> Bytes(i)
    [] type = AMF_BOOLEAN -> i % 2 = 0

enc_val(enc, end, name, type, val) ==
  CASE type = AMF_NUMBER -> AMF_EncodeNamedNumber(enc, end, name, val)
    [] type = AMF_STRING -> AMF_EncodeNamedString(enc, end, name, val)
    [] type = AMF_BOOLEAN -> AMF_EncodeNamedBoolean(enc, end, name, val)

build_flv_meta_data(a_idx) ==
  LET end == 4096
      types == MetaTypes(a_idx)
      Enc(enc, i) == enc_val(enc, end, Bytes(i), types[i], MetaValue(i, types[i]))
      start == AMF_EncodeInt32(Append(AMF_EncodeString(<<>>, end, Bytes(10)), AMF_ECMA_ARRAY),
                               end, IF a_idx = 0 THEN 14 ELSE 9)
  IN  FoldLeft(Enc, start, [i \in DOMAIN types |-> i]) \o <<0, 0, AMF_OBJECT_END>>

FileHeader == <<70, 76, 86, 1, 5>> \o Int32(9) \o Int32(0)

get_meta_data(a_idx) ==
  LET meta == build_flv_meta_data(a_idx)
      tag == <<RTMP_PACKET_TYPE_INFO>> \o Int24(Len(meta)) \o Int32(0) \o Int24(0) \o meta
  IN  FileHeader \o WithTagSize(tag)

-----------------------------------------------------------------------------
NewFeed(n) == [n |-> n, given |-> 0, first |-> None, dts |-> [type \in Types |-> None]]

WireInit ==
  /\ stream = [got_first_video |-> FALSE, start_dts_offset |-> 0]
  /\ feed = NewFeed(1)
  /\ packets = <<>>
  /\ written = None
  /\ last = [type \in Types |-> 0]

(* libobs: video starts with pts 0, audio with dts 0, and the dts of a     *)
(* type grow.                                                              *)
Fed(type, dts, cts) ==
  IF feed.dts[type] # None THEN \E a \in Advances : dts = feed.dts[type].dts + a
  ELSE IF type = "video" THEN dts \in FirstDts /\ cts = -dts
  ELSE dts = 0

NextDts(type) ==
  FirstDts \cup {0} \cup
  (IF feed.dts[type] = None THEN {} ELSE {feed.dts[type].dts + a : a \in Advances})

(* hengxin_flv_stream_data: the first video packet that this object ever   *)
(* gets sets the offset of the times.                                      *)
Data(frame, dts) ==
  LET type == frame.type
      packet == [type |-> type, key |-> frame.key, den |-> TimebaseDen[type],
                 dts |-> dts, pts |-> dts + frame.cts, size |-> frame.size]
  IN  /\ feed.given < MaxData /\ Len(packets) < MaxQueued
      /\ Fed(type, dts, frame.cts)
      /\ stream' = IF type = "video" /\ ~stream.got_first_video
                   THEN [got_first_video |-> TRUE,
                         start_dts_offset |-> get_ms_time(packet.den, dts)]
                   ELSE stream
      /\ packets' = Append(packets, packet)
      /\ feed' = [feed EXCEPT !.given = @ + 1, !.dts[type] = [dts |-> dts],
                    !.first = IF type = "video" /\ @ = None
                              THEN [ms |-> get_ms_time(packet.den, dts)] ELSE @]
      /\ UNCHANGED <<written, last>>

(* Reading a tag as a player of the FLV format does.                       *)
ReadTag(bytes) ==
  [type |-> bytes[1],
   size |-> AMF_DecodeInt24(SubSeq(bytes, 2, 4)),
   time |-> bytes[8] * (Byte * Byte * Byte) + AMF_DecodeInt24(SubSeq(bytes, 5, 7)),
   stream |-> AMF_DecodeInt24(SubSeq(bytes, 9, 11)),
   body |-> SubSeq(bytes, 12, Len(bytes) - 4),
   back |-> AMF_DecodeInt32(SubSeq(bytes, Len(bytes) - 3, Len(bytes)))]

(* send_packet of the send thread.                                         *)
SendPacket ==
  /\ packets # <<>>
  /\ written' = Sent(Head(packets), stream.start_dts_offset, FALSE)
  /\ packets' = Tail(packets)
  /\ last' = IF written'.bytes = <<>> THEN last
             ELSE [last EXCEPT ![Head(packets).type] = ReadTag(written'.bytes).time]
  /\ UNCHANGED <<stream, feed>>

(* The headers that a new connection gets.                                 *)
Header(type, key, size) ==
  Sent([type |-> type, key |-> key, den |-> 1, dts |-> 0, pts |-> 0, size |-> size], 0, TRUE)

get_audio_header ==
  /\ \E size \in HeaderSizes : written' = Header("audio", FALSE, size)
  /\ UNCHANGED <<stream, feed, packets, last>>

get_video_header ==
  /\ \E size \in HeaderSizes : written' = Header("video", TRUE, size)
  /\ UNCHANGED <<stream, feed, packets, last>>

(* The next stream of the same object: the queue is emptied and nothing    *)
(* else is reset.                                                          *)
NextStream ==
  /\ feed.n < MaxStreams /\ feed.given > 0
  /\ feed' = NewFeed(feed.n + 1)
  /\ packets' = <<>>
  /\ last' = [type \in Types |-> 0]
  /\ UNCHANGED <<stream, written>>

WireNext ==
  \/ \E frame \in Frames : \E dts \in NextDts(frame.type) : Data(frame, dts)
  \/ SendPacket
  \/ get_audio_header
  \/ get_video_header
  \/ NextStream

WireSpec == WireInit /\ [][WireNext]_wireVars

-----------------------------------------------------------------------------
(* Half of the times that a tag can hold.                                  *)
Half == Byte * Byte * Byte * 64

(* A time of 31 bits as a number that may be below zero.                   *)
Signed(time) == IF time >= Half THEN (time - Half) - Half ELSE time

(* A tag that was written can be read: its sizes agree with its bytes, it  *)
(* has the type, the kind of frame and the data of the packet, a header is *)
(* known as one, and the frame is shown within a millisecond of its pts.   *)
TagRead ==
  written # None /\ written.packet.size > 0 =>
    LET tag == ReadTag(written.bytes)
        packet == written.packet
        video == packet.type = "video"
        head == IF video THEN 5 ELSE 2
        cts == IF video THEN AMF_DecodeInt24(SubSeq(tag.body, 3, 5)) ELSE 0
        shown == get_ms_time(packet.den, packet.pts) - written.offset
    IN  /\ tag.type = IF video THEN RTMP_PACKET_TYPE_VIDEO ELSE RTMP_PACKET_TYPE_AUDIO
        /\ tag.size = Len(tag.body)
        /\ tag.back = Len(tag.body) + 10
        /\ tag.stream = 0
        /\ video => (tag.body[1] = 23 <=> packet.key)
        /\ tag.body[2] = 0 <=> written.header
        /\ Rest(tag.body, head) = Bytes(packet.size)
        /\ video => Signed(tag.time) + cts - shown \in {-1, 0, 1}

(* In one stream the times in the tags of a type do not go back, if its    *)
(* first video packet is not earlier than the offset, which is that of the *)
(* first stream of the object (flv-stream.c:491).  An earlier one gets a   *)
(* time below zero, which the seven high bits make a time of weeks.        *)
TimesForward ==
  [][feed'.n = feed.n /\ feed.first # None /\ stream.start_dts_offset <= feed.first.ms
       => \A type \in Types : last[type] <= last'[type]]_wireVars
=============================================================================
