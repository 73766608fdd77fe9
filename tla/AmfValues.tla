------------------------------ MODULE AmfValues ------------------------------
(***************************************************************************)
(* The part of librtmp that the plugin compiles: how numbers, strings and  *)
(* the like become AMF bytes and are read again (librtmp/amf.c).  A buffer *)
(* is the sequence of the bytes written so far, its end the number of      *)
(* bytes it may have.                                                      *)
(*                                                                         *)
(* A double is eight bytes in the order of the machine.  Names and strings *)
(* are sequences of bytes.  Types that nothing here writes, AMF3 among     *)
(* them, cannot be read here either.                                       *)
(***************************************************************************)
EXTENDS Integers, Sequences, SequencesExt

Byte == 256   \* the number of values of a byte

(* AMFDataType.                                                            *)
AMF_NUMBER == 0
AMF_BOOLEAN == 1
AMF_STRING == 2
AMF_OBJECT == 3
AMF_NULL == 5
AMF_ECMA_ARRAY == 8
AMF_OBJECT_END == 9
AMF_STRICT_ARRAY == 10
AMF_LONG_STRING == 12

(* What an encoder returns if the bytes do not fit.                        *)
Failed == <<-1>>

(* A property: a name, which may be empty, a type and a value; the value   *)
(* of an object or array is the sequence of its properties.                *)
Prop(name, type, value) == [name |-> name, type |-> type, value |-> value]

Rest(in, n) == SubSeq(in, n + 1, Len(in))

-----------------------------------------------------------------------------
(* Numbers, the most significant byte first.                               *)
Int16(n) == <<(n \div Byte) % Byte, n % Byte>>
Int24(n) == <<(n \div (Byte * Byte)) % Byte, (n \div Byte) % Byte, n % Byte>>
Int32(n) == <<(n \div (Byte * Byte * Byte)) % Byte, (n \div (Byte * Byte)) % Byte,
              (n \div Byte) % Byte, n % Byte>>

AMF_DecodeInt16(in) == in[1] * Byte + in[2]
AMF_DecodeInt24(in) == AMF_DecodeInt16(in) * Byte + in[3]
AMF_DecodeInt32(in) == AMF_DecodeInt24(in) * Byte + in[4]

Put(output, outend, bytes) ==
  IF Len(output) + Len(bytes) > outend THEN Failed ELSE output \o bytes

AMF_EncodeInt16(output, outend, n) == Put(output, outend, Int16(n))
AMF_EncodeInt24(output, outend, n) == Put(output, outend, Int24(n))
AMF_EncodeInt32(output, outend, n) == Put(output, outend, Int32(n))

(* A short string needs the room of a long one.                            *)
AMF_EncodeString(output, outend, s) ==
  IF Len(output) + 5 + Len(s) > outend THEN Failed
  ELSE output \o (IF Len(s) < Byte * Byte THEN <<AMF_STRING>> \o Int16(Len(s))
                  ELSE <<AMF_LONG_STRING>> \o Int32(Len(s))) \o s

AMF_EncodeNumber(output, outend, d) == Put(output, outend, <<AMF_NUMBER>> \o Reverse(d))

AMF_DecodeNumber(in) == Reverse(SubSeq(in, 1, 8))

AMF_EncodeBoolean(output, outend, b) ==
  Put(output, outend, <<AMF_BOOLEAN, IF b THEN 1 ELSE 0>>)

AMF_DecodeBoolean(in) == in[1] # 0

(* The name of a value, before the value itself.                           *)
EncodeName(output, outend, name) == Put(output, outend, Int16(Len(name)) \o name)

AMF_EncodeNamedString(output, outend, name, s) ==
  LET named == EncodeName(output, outend, name)
  IN  IF named = Failed THEN Failed ELSE AMF_EncodeString(named, outend, s)

AMF_EncodeNamedNumber(output, outend, name, d) ==
  LET named == EncodeName(output, outend, name)
  IN  IF named = Failed THEN Failed ELSE AMF_EncodeNumber(named, outend, d)

AMF_EncodeNamedBoolean(output, outend, name, b) ==
  LET named == EncodeName(output, outend, name)
  IN  IF named = Failed THEN Failed ELSE AMF_EncodeBoolean(named, outend, b)
=============================================================================
