---------------------------- MODULE Codec_proofs ----------------------------
(***************************************************************************)
(* Facts about decoding, for data of any length, any offset and every      *)
(* type (internal/codec/codec.go).                                         *)
(***************************************************************************)
EXTENDS Config, TLAPS

Byte == 0 .. 255

\* The widths that BitWidth gives, 0 for the byte types excepted.
Widths == {1, 8, 16, 32, 64}

\* A raw value or an error.
LEMMA RawIsNoError == ASSUME NEW b PROVE [type |-> "raw", bit |-> b] # Error
BY DEF Error

(* The byte-aligned path and the bit by bit path of extractBits are one    *)
(* function with one bound: a field is read exactly when its bits lie      *)
(* within the data, and bit i of the result is bit bitOffset + i of the    *)
(* data (bits are numbered from the low end of each byte).                 *)
THEOREM ExtractedBits ==
    ASSUME NEW data \in Seq(Byte), NEW bitOffset \in Int, NEW width \in Widths
    PROVE  /\ bitOffset >= 0 /\ bitOffset + width <= 8 * Len(data)
              => extractBits(data, bitOffset, width) =
                   [type |-> "raw", bit |-> [i \in 0 .. width - 1 |->
                       BitOf(data[(bitOffset + i) \div 8 + 1], (bitOffset + i) % 8)]]
           /\ ~(bitOffset >= 0 /\ bitOffset + width <= 8 * Len(data)) => extractBits(data, bitOffset, width) = Error
<1> DEFINE n == Len(data)
           start == bitOffset \div 8
           raw == [type |-> "raw", bit |-> [i \in 0 .. width - 1 |->
                       BitOf(data[(bitOffset + i) \div 8 + 1], (bitOffset + i) % 8)]]
           fast == [type |-> "raw", bit |-> [i \in 0 .. width - 1 |-> BitOf(data[start + i \div 8 + 1], i % 8)]]
<1>1. n \in Nat /\ width \in Nat /\ width # 0 BY DEF Widths
<1>2. bitOffset % 8 = 0 => bitOffset = 8 * start BY Z3
<1>3. ASSUME bitOffset % 8 = 0, width \in {8, 16, 32, 64}
      PROVE  start + width \div 8 > n <=> bitOffset + width > 8 * n
  BY <1>1, <1>2, <1>3
<1>4. ASSUME bitOffset % 8 = 0
      PROVE  start + width \div 8 > n => bitOffset + width > 8 * n
  BY <1>1, <1>2, <1>4 DEF Widths
<1>5. ASSUME bitOffset % 8 = 0 PROVE fast = raw
  <2>1. ASSUME NEW i \in 0 .. width - 1
        PROVE  (bitOffset + i) \div 8 = start + i \div 8 /\ (bitOffset + i) % 8 = i % 8
    BY <1>1, <1>2, <1>5, <2>1
  <2> QED BY <2>1
<1>6. extractBits(data, bitOffset, width) =
        IF bitOffset < 0 \/ width = 0 THEN Error
        ELSE IF bitOffset % 8 = 0 /\ start + width \div 8 > n THEN Error
        ELSE IF bitOffset % 8 = 0 /\ width \in {8, 16, 32, 64} THEN fast
        ELSE IF bitOffset + width > 8 * n THEN Error
        ELSE raw
  BY DEF extractBits
<1> HIDE DEF fast, raw, start
<1>7. CASE bitOffset < 0 BY <1>6, <1>7
<1>8. CASE bitOffset >= 0 /\ bitOffset % 8 = 0 /\ width \in {8, 16, 32, 64}
  <2>1. extractBits(data, bitOffset, width) = IF start + width \div 8 > n THEN Error ELSE raw
    BY <1>1, <1>5, <1>6, <1>8
  <2>2. start + width \div 8 > n <=> bitOffset + width > 8 * n BY <1>3, <1>8
  <2>3. extractBits(data, bitOffset, width) = IF bitOffset + width > 8 * n THEN Error ELSE raw BY <2>1, <2>2
  <2> QED BY <1>1, <1>8, <2>3 DEF raw
<1>9. CASE bitOffset >= 0 /\ ~(bitOffset % 8 = 0 /\ width \in {8, 16, 32, 64})
  <2>1. extractBits(data, bitOffset, width) = IF bitOffset + width > 8 * n THEN Error ELSE raw
    BY <1>1, <1>4, <1>6, <1>9
  <2> QED BY <1>1, <1>9, <2>1 DEF raw
<1> QED BY <1>7, <1>8, <1>9

\* BitWidth of a type that is not a byte type.
LEMMA TypesHaveWidths ==
    ASSUME NEW type, Valid(type), type \notin ByteTypes
    PROVE  BitWidth(type) \in Widths
BY DEF Valid, ByteTypes, BitWidth, Widths, Bool, Signed, Unsigned, Float, Bytes, VisibleString

\* A decoded value is told from an error by its type.
LEMMA ValidIsNoError == ASSUME NEW type, Valid(type) PROVE type # "error"
BY DEF Valid, ByteTypes, Bool, Signed, Unsigned, Float, Bytes, VisibleString

(* A field that Validate accepts is decoded exactly when it lies within    *)
(* the data: none is dropped that is there and none is read beyond the end *)
(* (Decode, extractBits; validateField).                                   *)
THEOREM DecodedExactlyWhenItFits ==
    ASSUME NEW data \in Seq(Byte), NEW f, f.bitOffset \in Int, f.byteLen \in Int, validateField(f)
    PROVE  Decode(data, f.type, f.bitOffset, f.byteLen) # Error <=> Fits(f, data)
<1> DEFINE type  == f.type
           start == f.bitOffset \div 8
           w     == BitWidth(type)
           raw   == extractBits(data, f.bitOffset, w)
           v     == Decode(data, type, f.bitOffset, f.byteLen)
<1>1. Valid(type) /\ f.bitOffset >= 0 /\ (type \in ByteTypes => f.byteLen > 0 /\ f.bitOffset % 8 = 0)
  BY DEF validateField
<1>2. Len(data) \in Nat OBVIOUS
<1>3. type # "error" BY <1>1, ValidIsNoError
<1>4. CASE type \in ByteTypes
  <2> DEFINE bytes == [type |-> type, bytes |-> SubSeq(data, start + 1, start + f.byteLen)]
  <2>1. v = IF start + f.byteLen > Len(data) THEN Error ELSE bytes
    <3>1. start >= 0 BY <1>1
    <3>2. v = IF f.bitOffset % 8 # 0 \/ f.byteLen <= 0 \/ start < 0 \/ start + f.byteLen > Len(data) THEN Error
              ELSE bytes
      BY <1>1, <1>4 DEF Decode
    <3> HIDE DEF v, bytes, start
    <3>3. start \in Int BY <1>1 DEF start
    <3> QED BY <3>1, <3>2, <3>3, <1>1, <1>4
  <2>2. bytes.type = type OBVIOUS
  <2>3. bytes # Error BY <2>2, <1>3 DEF Error
  <2>4. f.bitOffset = 8 * start BY <1>1, <1>4
  <2>5. start + f.byteLen > Len(data) <=> ~Fits(f, data) BY <2>4, <1>2, <1>4 DEF Fits
  <2>6. v # Error <=> Fits(f, data)
    <3> HIDE DEF v, bytes
    <3> QED BY <2>1, <2>3, <2>5
  <2> QED BY <2>6
<1>5. CASE type \notin ByteTypes
  <2>1. w \in Widths BY <1>1, <1>5, TypesHaveWidths
  <2>2. raw # Error <=> f.bitOffset + w <= 8 * Len(data) BY <2>1, <1>1, ExtractedBits, RawIsNoError
  <2>3. Fits(f, data) <=> f.bitOffset + w <= 8 * Len(data) BY <1>5 DEF Fits
  <2>4. raw # Error => v.type = type
    <3> HIDE DEF raw, w
    <3> SUFFICES ASSUME raw # Error PROVE v.type = type OBVIOUS
    <3>1. v = CASE type \in Signed   -> [type |-> type, number |-> signedValue(raw.bit, w)]
               [] type \in Unsigned -> [type |-> type, number |-> unsignedValue(raw.bit, w)]
               [] type = Bool       -> [type |-> type, number |-> raw.bit[0]]
               [] type \in Float    -> [type |-> type, ieee |-> raw.bit]
      BY <1>1, <1>5, Zenon DEF Decode, raw, w
    <3>2. type \in Signed \/ type \in Unsigned \/ type = Bool \/ type \in Float BY <1>1, <1>5 DEF Valid
    <3> QED BY <3>1, <3>2 DEF Signed, Unsigned, Bool, Float
  <2>5. raw = Error => v = Error BY <1>1, <1>5 DEF Decode
  <2>6. Error.type = "error" BY DEF Error
  <2>7. v # Error <=> Fits(f, data)
    <3> HIDE DEF v, raw
    <3> QED BY <2>2, <2>3, <2>4, <2>5, <2>6, <1>3
  <2> QED BY <2>7
<1> QED BY <1>4, <1>5
=============================================================================
