------------------------------- MODULE Codec -------------------------------
(***************************************************************************)
(* Decoding of CANopen data (internal/codec/codec.go) as constant-level    *)
(* operators.  Data are sequences of bytes; a 64-bit raw value is the      *)
(* function of its bits, so that no width overflows.  An IEEE number is    *)
(* left as its bit pattern.                                                *)
(***************************************************************************)
EXTENDS Integers, Sequences

Bool     == "bool"
Signed   == {"int8", "int16", "int32", "int64"}
Unsigned == {"uint8", "uint16", "uint32", "uint64"}
Float    == {"float32", "float64"}
Bytes    == "bytes"
VisibleString == "visible_string"
ByteTypes == {Bytes, VisibleString}

Valid(type) == type \in {Bool} \cup Signed \cup Unsigned \cup Float \cup ByteTypes

BitWidth(type) ==
    CASE type = Bool -> 1
      [] type \in {"int8", "uint8"} -> 8
      [] type \in {"int16", "uint16"} -> 16
      [] type \in {"int32", "uint32", "float32"} -> 32
      [] type \in {"int64", "uint64", "float64"} -> 64
      [] OTHER -> 0

Error == [type |-> "error"]

\* bit i of a byte
BitOf(byte, i) == (byte \div 2^i) % 2

\* Mutant: the aligned path checks only that the field starts within the data.
extractBitsUnchecked(data, bitOffset, width) ==
    LET start == bitOffset \div 8
        at(k) == IF k <= Len(data) THEN data[k] ELSE 0
    IN  IF \/ bitOffset < 0 \/ width = 0
           \/ bitOffset % 8 = 0 /\ start >= Len(data)
           \/ bitOffset % 8 # 0 /\ bitOffset + width > 8 * Len(data)
        THEN Error
        ELSE [type |-> "raw", bit |-> [i \in 0 .. width - 1 |->
               BitOf(at((bitOffset + i) \div 8 + 1), (bitOffset + i) % 8)]]

(* extractBits: the byte-aligned fast path for the standard widths, whose  *)
(* bound is in whole bytes (none for a single bit), and the bit by bit     *)
(* path with its own bound.                                                *)
extractBits(data, bitOffset, width) ==
    LET start   == bitOffset \div 8
        aligned == bitOffset % 8 = 0
    IN  IF bitOffset < 0 \/ width = 0 THEN Error
        ELSE IF aligned /\ start + width \div 8 > Len(data) THEN Error
        ELSE IF aligned /\ width \in {8, 16, 32, 64}                 \* LittleEndian.UintN
        THEN [type |-> "raw", bit |-> [i \in 0 .. width - 1 |-> BitOf(data[start + i \div 8 + 1], i % 8)]]
        ELSE IF bitOffset + width > 8 * Len(data) THEN Error
        ELSE [type |-> "raw", bit |-> [i \in 0 .. width - 1 |->
               BitOf(data[(bitOffset + i) \div 8 + 1], (bitOffset + i) % 8)]]

\* The number w bits stand for, and the same in two's complement.
unsignedValue(bit, w) ==
    LET sum[k \in 0 .. w] == IF k = 0 THEN 0 ELSE sum[k - 1] + IF bit[k - 1] = 1 THEN 2^(k - 1) ELSE 0
    IN  sum[w]

signedValue(bit, w) ==
    IF bit[w - 1] = 0 THEN unsignedValue(bit, w - 1)
    ELSE -(1 + unsignedValue([i \in 0 .. w - 1 |-> 1 - bit[i]], w - 1))

(* Decode: a Value has the field its type selects, or Error.               *)
Decode(data, type, bitOffset, byteLen) ==
    LET start == bitOffset \div 8
        w     == BitWidth(type)
        raw   == extractBits(data, bitOffset, w)
    IN  IF ~Valid(type) THEN Error
        ELSE IF type \in ByteTypes
        THEN IF bitOffset % 8 # 0 \/ byteLen <= 0 \/ start < 0 \/ start + byteLen > Len(data) THEN Error
             ELSE [type |-> type, bytes |-> SubSeq(data, start + 1, start + byteLen)]
        ELSE IF raw = Error THEN Error
        ELSE CASE type \in Signed   -> [type |-> type, number |-> signedValue(raw.bit, w)]
               [] type \in Unsigned -> [type |-> type, number |-> unsignedValue(raw.bit, w)]
               [] type = Bool       -> [type |-> type, number |-> raw.bit[0]]
               [] type \in Float    -> [type |-> type, ieee |-> raw.bit]

\* AsFloat, of the types whose value is a number here
AsFloat(v) == IF v.type \in ByteTypes THEN 0 ELSE v.number

ApplyScale(v, scale, offset) ==
    LET factor == IF scale = 0 THEN 1 ELSE scale
    IN  IF v.type \in Float THEN [ieee |-> v.ieee, scale |-> factor, offset |-> offset]
        ELSE AsFloat(v) * factor + offset

\* BodyValue: byte types are rendered as hexadecimal digits or as text
BodyValue(v, scale, offset) ==
    CASE v.type = Bytes         -> [hex |-> v.bytes]
      [] v.type = VisibleString -> [text |-> v.bytes]
      [] OTHER                  -> ApplyScale(v, scale, offset)
=============================================================================
