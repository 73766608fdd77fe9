--------------------------------- MODULE Amf ---------------------------------
(***************************************************************************)
(* AMF objects and arrays, whose properties may be objects in turn: how    *)
(* librtmp/amf.c writes and reads them.  Types that nothing here writes,   *)
(* AMF3 among them, cannot be read here either.                            *)
(***************************************************************************)
EXTENDS AmfValues

-----------------------------------------------------------------------------
(* Objects and arrays: the properties up to the first that does not fit,   *)
(* then the mark of the end, which a strict array does not have.           *)
RECURSIVE AMFProp_Encode(_, _, _), EncodeProps(_, _, _)

(* A mutation: written without a look at the room.                         *)
EndMark_NoCheck(output, outend) == output \o Int24(AMF_OBJECT_END)

EndMark(output, outend) ==
  IF Len(output) + 3 >= outend THEN Failed ELSE output \o Int24(AMF_OBJECT_END)

AMF_Encode(props, output, outend) ==
  IF Len(output) + 4 >= outend THEN Failed
  ELSE EndMark(EncodeProps(props, Append(output, AMF_OBJECT), outend), outend)

AMF_EncodeEcmaArray(props, output, outend) ==
  IF Len(output) + 4 >= outend THEN Failed
  ELSE EndMark(EncodeProps(props, output \o <<AMF_ECMA_ARRAY>> \o Int32(Len(props)),
                           outend), outend)

AMF_EncodeArray(props, output, outend) ==
  IF Len(output) + 4 >= outend THEN Failed
  ELSE EncodeProps(props, output \o <<AMF_STRICT_ARRAY>> \o Int32(Len(props)), outend)

EncodeProps(props, output, outend) ==
  IF props = <<>> THEN output
  ELSE LET res == AMFProp_Encode(Head(props), output, outend)
       IN  IF res = Failed THEN output ELSE EncodeProps(Tail(props), res, outend)

(* A null has no name.                                                     *)
AMFProp_Encode(prop, pBuffer, pBufEnd) ==
  LET named == IF prop.type = AMF_NULL \/ prop.name = <<>> THEN pBuffer
               ELSE pBuffer \o Int16(Len(prop.name)) \o prop.name
  IN  IF prop.type # AMF_NULL /\ Len(pBuffer) + Len(prop.name) + 3 >= pBufEnd THEN Failed
      ELSE CASE prop.type = AMF_NUMBER -> AMF_EncodeNumber(named, pBufEnd, prop.value)
             [] prop.type = AMF_BOOLEAN -> AMF_EncodeBoolean(named, pBufEnd, prop.value)
             [] prop.type = AMF_STRING -> AMF_EncodeString(named, pBufEnd, prop.value)
             [] prop.type = AMF_NULL ->
                  IF Len(named) + 1 >= pBufEnd THEN Failed ELSE Append(named, AMF_NULL)
             [] prop.type = AMF_OBJECT -> AMF_Encode(prop.value, named, pBufEnd)
             [] prop.type = AMF_ECMA_ARRAY -> AMF_EncodeEcmaArray(prop.value, named, pBufEnd)
             [] prop.type = AMF_STRICT_ARRAY -> AMF_EncodeArray(prop.value, named, pBufEnd)
             [] OTHER -> Failed

-----------------------------------------------------------------------------
(* Reading: a property or properties, and the bytes that are left.         *)
Read(value, rest) == [value |-> value, rest |-> rest]
Unread == Read(<<>>, Failed)

RECURSIVE AMF_Decode(_, _), DecodeProps(_, _, _, _), DecodeItems(_, _, _, _)

(* The value of a type, at the byte after its marker.                      *)
DecodeValue(type, name, in) ==
  LET Value(as, value, n) == Read(Prop(name, as, value), Rest(in, n))
      Object(props) == IF props.rest = Failed THEN Unread
                       ELSE Read(Prop(name, type, props.value), props.rest)
      Text(n, Length(_)) ==
        IF Len(in) < n \/ Len(in) < n + Length(in) THEN Unread
        ELSE LET end == n + Length(in)
             IN  Value(AMF_STRING, SubSeq(in, n + 1, end), end)
  IN  CASE type = AMF_NUMBER ->
             IF Len(in) < 8 THEN Unread ELSE Value(type, AMF_DecodeNumber(in), 8)
        [] type = AMF_BOOLEAN ->
             IF Len(in) < 1 THEN Unread ELSE Value(type, AMF_DecodeBoolean(in), 1)
        [] type = AMF_STRING -> Text(2, AMF_DecodeInt16)
        [] type = AMF_LONG_STRING -> Text(4, AMF_DecodeInt32)
        [] type = AMF_NULL -> Value(AMF_NULL, <<>>, 0)
        [] type = AMF_OBJECT -> Object(AMF_Decode(in, TRUE))
        [] type = AMF_ECMA_ARRAY -> Object(AMF_Decode(Rest(in, 4), TRUE))
        [] type = AMF_STRICT_ARRAY -> Object(DecodeItems(<<>>, Rest(in, 4), AMF_DecodeInt32(in), FALSE))
        [] OTHER -> Unread

AMFProp_Decode(in, bDecodeName) ==
  LET size == IF bDecodeName THEN 2 + AMF_DecodeInt16(in) ELSE 0
      name == SubSeq(in, 3, size)
  IN  IF in = <<>> \/ (bDecodeName /\ Len(in) < 4) THEN Unread
      ELSE IF size >= Len(in) THEN Unread
      ELSE DecodeValue(in[size + 1], name, Rest(in, size + 1))

(* After a property that cannot be read, the bytes up to an end mark are   *)
(* skipped.                                                                *)
AMF_Decode(in, bDecodeName) == DecodeProps(<<>>, in, FALSE, bDecodeName)

DecodeProps(props, in, bError, bDecodeName) ==
  IF in = <<>> THEN IF bError THEN Unread ELSE Read(props, in)
  ELSE IF Len(in) >= 3 /\ SubSeq(in, 1, 3) = Int24(AMF_OBJECT_END) THEN Read(props, Rest(in, 3))
  ELSE IF bError THEN DecodeProps(props, Tail(in), TRUE, bDecodeName)
  ELSE LET res == AMFProp_Decode(in, bDecodeName)
       IN  IF res.rest = Failed THEN DecodeProps(props, in, TRUE, bDecodeName)
           ELSE DecodeProps(Append(props, res.value), res.rest, FALSE, bDecodeName)

(* AMF_DecodeArray: so many properties, whose names are not read.          *)
DecodeItems(props, in, n, bError) ==
  IF n = 0 THEN IF bError THEN Unread ELSE Read(props, in)
  ELSE LET res == AMFProp_Decode(in, FALSE)
       IN  IF res.rest = Failed THEN DecodeItems(props, in, n - 1, TRUE)
           ELSE DecodeItems(Append(props, res.value), res.rest, n - 1, bError)
=============================================================================
