------------------------- MODULE FrameFormatProofs -------------------------
(***************************************************************************)
(* What the operators of FrameFormat compute, for every header, length,    *)
(* mask, payload, byte order and alignment.                                *)
(***************************************************************************)
EXTENDS FrameFormat, SequenceTheorems, TLAPS

-----------------------------------------------------------------------------
(* Numbers *)

LEMMA DivMod ==
  ASSUME NEW k \in Nat
  PROVE  k \div 256 \in Nat /\ k = 256 * (k \div 256) + (k % 256) /\ k % 256 \in Byte
BY Z3 DEF Byte

LEMMA DivMonotone ==
  ASSUME NEW k \in Nat, NEW l \in Nat, k <= l
  PROVE  k \div 256 <= l \div 256
BY Z3

LEMMA SmallMod ==
  ASSUME NEW k \in Byte
  PROVE  k % 256 = k
BY Z3 DEF Byte

\* The digits of a number behind the k-th.
LEMMA ShiftNat ==
  ASSUME NEW n \in Nat
  PROVE  /\ Shift1(n) \in Nat /\ Shift2(n) \in Nat /\ Shift3(n) \in Nat /\ Shift4(n) \in Nat
         /\ Shift5(n) \in Nat /\ Shift6(n) \in Nat /\ Shift7(n) \in Nat
<1>1. Shift1(n) \in Nat
  BY DivMod DEF Shift1
<1>2. Shift2(n) \in Nat
  BY <1>1, DivMod DEF Shift2
<1>3. Shift3(n) \in Nat
  BY <1>2, DivMod DEF Shift3
<1>4. Shift4(n) \in Nat
  BY <1>3, DivMod DEF Shift4
<1>5. Shift5(n) \in Nat
  BY <1>4, DivMod DEF Shift5
<1>6. Shift6(n) \in Nat
  BY <1>5, DivMod DEF Shift6
<1>7. Shift7(n) \in Nat
  BY <1>6, DivMod DEF Shift7
<1>. QED
  BY <1>1, <1>2, <1>3, <1>4, <1>5, <1>6, <1>7

\* A number is its last digit and those before.
LEMMA ShiftSplits ==
  ASSUME NEW n \in Nat
  PROVE  /\ 256 * Shift1(n) + (n % 256) = n
         /\ 256 * Shift2(n) + (Shift1(n) % 256) = Shift1(n)
         /\ 256 * Shift3(n) + (Shift2(n) % 256) = Shift2(n)
         /\ 256 * Shift4(n) + (Shift3(n) % 256) = Shift3(n)
         /\ 256 * Shift5(n) + (Shift4(n) % 256) = Shift4(n)
         /\ 256 * Shift6(n) + (Shift5(n) % 256) = Shift5(n)
         /\ 256 * Shift7(n) + (Shift6(n) % 256) = Shift6(n)
<1>0. 256 * Shift1(n) + (n % 256) = n
  BY ShiftNat, DivMod, Zenon DEF Shift1
<1>1. 256 * Shift2(n) + (Shift1(n) % 256) = Shift1(n)
  BY ShiftNat, DivMod, Zenon DEF Shift2
<1>2. 256 * Shift3(n) + (Shift2(n) % 256) = Shift2(n)
  BY ShiftNat, DivMod, Zenon DEF Shift3
<1>3. 256 * Shift4(n) + (Shift3(n) % 256) = Shift3(n)
  BY ShiftNat, DivMod, Zenon DEF Shift4
<1>4. 256 * Shift5(n) + (Shift4(n) % 256) = Shift4(n)
  BY ShiftNat, DivMod, Zenon DEF Shift5
<1>5. 256 * Shift6(n) + (Shift5(n) % 256) = Shift5(n)
  BY ShiftNat, DivMod, Zenon DEF Shift6
<1>6. 256 * Shift7(n) + (Shift6(n) % 256) = Shift6(n)
  BY ShiftNat, DivMod, Zenon DEF Shift7
<1>. QED
  BY <1>0, <1>1, <1>2, <1>3, <1>4, <1>5, <1>6, Zenon

\* A payload length is below 256^8.
LEMMA LengthIsU64 ==
  ASSUME NEW n \in 0..MaxLength
  PROVE  n \in Nat /\ Shift7(n) \in Byte
<1>. DEFINE m == MaxLength
<1>1. n \in Nat /\ m \in Nat /\ n <= m /\ Shift7(m) < 256
  BY MaxLengthAssumption
<1>. HIDE DEF m
<1>2. /\ Shift1(n) \in Nat /\ Shift2(n) \in Nat /\ Shift3(n) \in Nat /\ Shift4(n) \in Nat
      /\ Shift5(n) \in Nat /\ Shift6(n) \in Nat /\ Shift7(n) \in Nat
  BY <1>1, ShiftNat
<1>3. /\ Shift1(m) \in Nat /\ Shift2(m) \in Nat /\ Shift3(m) \in Nat /\ Shift4(m) \in Nat
      /\ Shift5(m) \in Nat /\ Shift6(m) \in Nat /\ Shift7(m) \in Nat
  BY <1>1, ShiftNat
<1>4. Shift1(n) <= Shift1(m)
  BY <1>1, <1>2, <1>3, DivMonotone, Zenon DEF Shift1
<1>5. Shift2(n) <= Shift2(m)
  BY <1>4, <1>2, <1>3, DivMonotone, Zenon DEF Shift2
<1>6. Shift3(n) <= Shift3(m)
  BY <1>5, <1>2, <1>3, DivMonotone, Zenon DEF Shift3
<1>7. Shift4(n) <= Shift4(m)
  BY <1>6, <1>2, <1>3, DivMonotone, Zenon DEF Shift4
<1>8. Shift5(n) <= Shift5(m)
  BY <1>7, <1>2, <1>3, DivMonotone, Zenon DEF Shift5
<1>9. Shift6(n) <= Shift6(m)
  BY <1>8, <1>2, <1>3, DivMonotone, Zenon DEF Shift6
<1>10. Shift7(n) <= Shift7(m)
  BY <1>9, <1>2, <1>3, DivMonotone, Zenon DEF Shift7
<1>. QED
  BY <1>1, <1>2, <1>3, <1>10 DEF Byte

\* to_be_bytes and from_be_bytes of a u16.
LEMMA BigEndian16 ==
  ASSUME NEW n \in Nat, n < 65536
  PROVE  256 * (Shift1(n) % 256) + (n % 256) = n
<1>. DEFINE a1 == Shift1(n)
            d0 == n % 256
<1>1. a1 \in Nat
  BY ShiftNat
<1>2. 256 * a1 + d0 = n
  BY ShiftSplits
<1>3. d0 \in Nat
  BY DivMod DEF Byte
<1>. HIDE DEF a1, d0
<1>4. a1 \in Byte
  BY <1>1, <1>2, <1>3 DEF Byte
<1>5. a1 % 256 = a1
  BY <1>4, SmallMod
<1>. QED
  BY <1>2, <1>5 DEF a1, d0

\* The same of a u64.
LEMMA BigEndian64 ==
  ASSUME NEW n \in Nat, Shift7(n) \in Byte
  PROVE  256 * (256 * (256 * (256 * (256 * (256 * (256 * (Shift7(n) % 256) + (Shift6(n) % 256))
           + (Shift5(n) % 256)) + (Shift4(n) % 256)) + (Shift3(n) % 256)) + (Shift2(n) % 256))
           + (Shift1(n) % 256)) + (n % 256) = n
<1>. DEFINE a1 == Shift1(n)  a2 == Shift2(n)  a3 == Shift3(n)  a4 == Shift4(n)
            a5 == Shift5(n)  a6 == Shift6(n)  a7 == Shift7(n)
            d0 == n % 256  d1 == a1 % 256  d2 == a2 % 256  d3 == a3 % 256
            d4 == a4 % 256  d5 == a5 % 256  d6 == a6 % 256  d7 == a7 % 256
<1>1. /\ a1 \in Nat /\ a2 \in Nat /\ a3 \in Nat /\ a4 \in Nat
      /\ a5 \in Nat /\ a6 \in Nat /\ a7 \in Nat
  BY ShiftNat
<1>2. /\ 256 * a1 + d0 = n /\ 256 * a2 + d1 = a1 /\ 256 * a3 + d2 = a2 /\ 256 * a4 + d3 = a3
      /\ 256 * a5 + d4 = a4 /\ 256 * a6 + d5 = a5 /\ 256 * a7 + d6 = a6
  BY ShiftSplits
<1>3. d7 = a7
  BY SmallMod
<1>4. /\ d0 \in Byte /\ d1 \in Byte /\ d2 \in Byte /\ d3 \in Byte
      /\ d4 \in Byte /\ d5 \in Byte /\ d6 \in Byte
  BY <1>1, DivMod
<1>5. /\ d0 \in Nat /\ d1 \in Nat /\ d2 \in Nat /\ d3 \in Nat
      /\ d4 \in Nat /\ d5 \in Nat /\ d6 \in Nat
  <2>. HIDE DEF d0, d1, d2, d3, d4, d5, d6
  <2>. QED
    BY <1>4 DEF Byte
<1>6. 256 * (256 * (256 * (256 * (256 * (256 * (256 * d7 + d6) + d5) + d4) + d3) + d2) + d1) + d0 = n
  <2>. HIDE DEF a1, a2, a3, a4, a5, a6, a7, d0, d1, d2, d3, d4, d5, d6, d7
  <2>. QED
    BY <1>1, <1>2, <1>3, <1>5, Z3
<1>. QED
  BY <1>6

-----------------------------------------------------------------------------
(* The bytes of a header *)

LEMMA FirstByteType ==
  ASSUME NEW h \in Header
  PROVE  OpCode_into(h.opcode) \in 0..15 /\ FirstByte(h) \in Byte
<1>1. h.opcode \in OpCodes
  BY DEF Header
<1>2. OpCode_into(h.opcode) \in 0..15
  BY <1>1, Z3 DEF OpCode_into, OpCodes, Op
<1>. DEFINE code == OpCode_into(h.opcode)
<1>. HIDE DEF code
<1>3. code \in 0..15
  BY <1>2 DEF code
<1>4. /\ Bit(h.is_final, 128) \in {0, 128} /\ Bit(h.rsv1, 64) \in {0, 64}
      /\ Bit(h.rsv2, 32) \in {0, 32} /\ Bit(h.rsv3, 16) \in {0, 16}
  BY DEF Bit
<1>5. FirstByte(h) = code + Bit(h.is_final, 128) + Bit(h.rsv1, 64) + Bit(h.rsv2, 32) + Bit(h.rsv3, 16)
  BY DEF FirstByte, code
<1>6. FirstByte(h) \in Byte
  BY <1>3, <1>4, <1>5, Z3 DEF Byte
<1>. QED
  BY <1>2, <1>6

LEMMA SecondByteType ==
  ASSUME NEW h \in Header, NEW n \in 0..MaxLength
  PROVE  /\ length_byte(for_length(n), n) \in 0..127
         /\ SecondByte(h, n) = length_byte(for_length(n), n) + Bit(h.mask # NoMask, 128)
         /\ SecondByte(h, n) \in Byte
<1>1. n \in Nat
  BY MaxLengthAssumption
<1>2. length_byte(for_length(n), n) \in 0..127
  BY <1>1 DEF length_byte, for_length
<1>3. Bit(h.mask # NoMask, 128) \in {0, 128}
  BY DEF Bit
<1>. QED
  BY <1>2, <1>3 DEF SecondByte, Byte

\* Reading a concatenation of three sequences.
LEMMA ConcatThree ==
  ASSUME NEW r \in Seq(Byte), NEW s \in Seq(Byte), NEW t \in Seq(Byte)
  PROVE  /\ r \o s \o t \in Seq(Byte)
         /\ Len(r \o s \o t) = Len(r) + Len(s) + Len(t)
         /\ \A i \in 1..Len(r) : (r \o s \o t)[i] = r[i]
         /\ \A i \in 1..Len(s) : (r \o s \o t)[Len(r) + i] = s[i]
         /\ \A i \in 1..Len(t) : (r \o s \o t)[Len(r) + Len(s) + i] = t[i]
<1>1. /\ r \o s \in Seq(Byte) /\ Len(r \o s) = Len(r) + Len(s)
      /\ \A i \in 1..Len(r) : (r \o s)[i] = r[i]
      /\ \A i \in 1..Len(s) : (r \o s)[Len(r) + i] = s[i]
  OBVIOUS
<1>. DEFINE u == r \o s
<1>. HIDE DEF u
<1>2. /\ u \o t \in Seq(Byte) /\ Len(u \o t) = Len(u) + Len(t)
      /\ \A i \in 1..Len(u) : (u \o t)[i] = u[i]
      /\ \A i \in 1..Len(t) : (u \o t)[Len(u) + i] = t[i]
  BY <1>1 DEF u
<1>. QED
  BY <1>1, <1>2 DEF u

LEMMA LengthBytesType ==
  ASSUME NEW n \in 0..MaxLength
  PROVE  /\ LengthBytes(n) \in Seq(Byte)
         /\ Len(LengthBytes(n)) = extra_bytes(for_length(n))
<1>1. n \in Nat
  BY MaxLengthAssumption
<1>2. /\ n % 256 \in Byte /\ Shift1(n) % 256 \in Byte /\ Shift2(n) % 256 \in Byte
      /\ Shift3(n) % 256 \in Byte /\ Shift4(n) % 256 \in Byte /\ Shift5(n) % 256 \in Byte
      /\ Shift6(n) % 256 \in Byte /\ Shift7(n) % 256 \in Byte
  BY <1>1, ShiftNat, DivMod
<1>3. be_bytes_u16(n) \in Seq(Byte) /\ Len(be_bytes_u16(n)) = 2
  BY <1>2 DEF be_bytes_u16
<1>4. be_bytes_u64(n) \in Seq(Byte) /\ Len(be_bytes_u64(n)) = 8
  BY <1>2 DEF be_bytes_u64
<1>5. <<>> \in Seq(Byte) /\ Len(<<>>) = 0
  OBVIOUS
<1>6. CASE for_length(n) = "U8"
  BY <1>5, <1>6 DEF LengthBytes, extra_bytes
<1>7. CASE for_length(n) = "U16"
  BY <1>3, <1>7 DEF LengthBytes, extra_bytes
<1>8. CASE for_length(n) = "U64"
  BY <1>4, <1>8 DEF LengthBytes, extra_bytes
<1>. QED
  BY <1>6, <1>7, <1>8 DEF for_length

LEMMA FourBytes ==
  ASSUME NEW m \in [1..4 -> Byte]
  PROVE  m \in Seq(Byte) /\ Len(m) = 4
<1>1. m \in Seq(Byte)
  BY SeqDef
<1>2. Len(m) \in Nat /\ DOMAIN m = 1..Len(m)
  BY <1>1, LenProperties
<1>3. DOMAIN m = 1..4
  OBVIOUS
<1>. QED
  BY <1>1, <1>2, <1>3

LEMMA MaskType ==
  ASSUME NEW h \in Header
  PROVE  /\ h.mask \in Seq(Byte) /\ Len(h.mask) = Bit(h.mask # NoMask, 4)
         /\ h.mask # NoMask => h.mask \in [1..4 -> Byte]
<1>1. h.mask \in Masks
  BY DEF Header
<1>2. CASE h.mask = NoMask
  BY <1>2 DEF NoMask, Bit
<1>3. CASE h.mask # NoMask
  <2>1. h.mask \in [1..4 -> Byte]
    BY <1>1, <1>3 DEF Masks
  <2>2. h.mask \in Seq(Byte) /\ Len(h.mask) = 4
    BY <2>1, FourBytes
  <2>. QED
    BY <2>1, <2>2, <1>3 DEF Bit
<1>. QED
  BY <1>2, <1>3

\* What format writes, position by position.
LEMMA FormatBytes ==
  ASSUME NEW h \in Header, NEW n \in 0..MaxLength
  PROVE  LET f == format(h, n)
             k == extra_bytes(for_length(n))
         IN  /\ f \in Seq(Byte) /\ Len(f) = header_len(h, n)
             /\ f[1] = FirstByte(h) /\ f[2] = SecondByte(h, n)
             /\ \A i \in 1..k : f[2 + i] = LengthBytes(n)[i]
             /\ \A i \in 1..Len(h.mask) : f[2 + k + i] = h.mask[i]
<1>. DEFINE r == <<FirstByte(h), SecondByte(h, n)>>
            k == extra_bytes(for_length(n))
<1>1. r \in Seq(Byte) /\ Len(r) = 2 /\ r[1] = FirstByte(h) /\ r[2] = SecondByte(h, n)
  BY FirstByteType, SecondByteType
<1>2. LengthBytes(n) \in Seq(Byte) /\ Len(LengthBytes(n)) = k
  BY LengthBytesType
<1>3. h.mask \in Seq(Byte) /\ Len(h.mask) = Bit(h.mask # NoMask, 4)
  BY MaskType
<1>4. format(h, n) = r \o LengthBytes(n) \o h.mask
  BY DEF format
<1>5. header_len(h, n) = 2 + k + Len(h.mask)
  BY <1>3 DEF header_len
<1>. HIDE DEF r, k
<1>6. /\ format(h, n) \in Seq(Byte) /\ Len(format(h, n)) = 2 + k + Len(h.mask)
      /\ \A i \in 1..2 : format(h, n)[i] = r[i]
      /\ \A i \in 1..k : format(h, n)[2 + i] = LengthBytes(n)[i]
      /\ \A i \in 1..Len(h.mask) : format(h, n)[2 + k + i] = h.mask[i]
  <2>. DEFINE s == LengthBytes(n)
              t == h.mask
              f == format(h, n)
  <2>1. r \in Seq(Byte) /\ s \in Seq(Byte) /\ t \in Seq(Byte) /\ Len(r) = 2 /\ Len(s) = k
        /\ f = r \o s \o t
    BY <1>1, <1>2, <1>3, <1>4
  <2>. HIDE DEF s, t, f
  <2>2. /\ r \o s \o t \in Seq(Byte) /\ Len(r \o s \o t) = Len(r) + Len(s) + Len(t)
        /\ \A i \in 1..Len(r) : (r \o s \o t)[i] = r[i]
        /\ \A i \in 1..Len(s) : (r \o s \o t)[Len(r) + i] = s[i]
        /\ \A i \in 1..Len(t) : (r \o s \o t)[Len(r) + Len(s) + i] = t[i]
    <3>1. r \in Seq(Byte) /\ s \in Seq(Byte) /\ t \in Seq(Byte)
      BY <2>1, Zenon
    <3>2. r \o s \o t \in Seq(Byte)
      BY <3>1, ConcatThree, Zenon
    <3>3. Len(r \o s \o t) = Len(r) + Len(s) + Len(t)
      BY <3>1, ConcatThree, Zenon
    <3>4. \A i \in 1..Len(r) : (r \o s \o t)[i] = r[i]
      BY <3>1, ConcatThree, Zenon
    <3>5. \A i \in 1..Len(s) : (r \o s \o t)[Len(r) + i] = s[i]
      BY <3>1, ConcatThree, Zenon
    <3>6. \A i \in 1..Len(t) : (r \o s \o t)[Len(r) + Len(s) + i] = t[i]
      BY <3>1, ConcatThree, Zenon
    <3>. QED
      BY <3>2, <3>3, <3>4, <3>5, <3>6, Zenon
  <2>3. /\ f \in Seq(Byte) /\ Len(f) = 2 + k + Len(t)
        /\ \A i \in 1..2 : f[i] = r[i]
        /\ \A i \in 1..k : f[2 + i] = s[i]
        /\ \A i \in 1..Len(t) : f[2 + k + i] = t[i]
    BY <2>1, <2>2, Zenon
  <2>. QED
    BY <2>3, Zenon DEF s, t, f
<1>7. format(h, n)[1] = FirstByte(h) /\ format(h, n)[2] = SecondByte(h, n)
  BY <1>1, <1>6
<1>. QED
  BY <1>5, <1>6, <1>7 DEF k

-----------------------------------------------------------------------------
(* Headers survive *)

LEMMA SecondByteParsed ==
  ASSUME NEW l \in 0..127, NEW b
  PROVE  /\ b = l => b % 128 = l /\ ~IsSet(b, 128)
         /\ b = l + 128 => b % 128 = l /\ IsSet(b, 128)
BY Z3 DEF IsSet

\* The fields of the first byte.
LEMMA FieldsParsed ==
  ASSUME NEW c \in 0..15, NEW f \in 0..1, NEW x \in 0..1, NEW y \in 0..1, NEW z \in 0..1,
         NEW b, b = c + 128 * f + 64 * x + 32 * y + 16 * z
  PROVE  /\ b % 16 = c /\ (b \div 128) % 2 = f /\ (b \div 64) % 2 = x
         /\ (b \div 32) % 2 = y /\ (b \div 16) % 2 = z
BY Z3

LEMMA FirstByteParsed ==
  ASSUME NEW h \in Header, NEW b, b = FirstByte(h)
  PROVE  /\ b % 16 = OpCode_into(h.opcode)
         /\ IsSet(b, 128) <=> h.is_final
         /\ IsSet(b, 64) <=> h.rsv1
         /\ IsSet(b, 32) <=> h.rsv2
         /\ IsSet(b, 16) <=> h.rsv3
<1>. DEFINE c == OpCode_into(h.opcode)
            one(v) == IF v THEN 1 ELSE 0
            f == one(h.is_final)  x == one(h.rsv1)  y == one(h.rsv2)  z == one(h.rsv3)
<1>1. c \in 0..15
  BY FirstByteType
<1>2. f \in 0..1 /\ x \in 0..1 /\ y \in 0..1 /\ z \in 0..1
  OBVIOUS
<1>3. /\ Bit(h.is_final, 128) = 128 * f /\ Bit(h.rsv1, 64) = 64 * x
      /\ Bit(h.rsv2, 32) = 32 * y /\ Bit(h.rsv3, 16) = 16 * z
  BY DEF Bit
<1>4. b = c + 128 * f + 64 * x + 32 * y + 16 * z
  BY <1>3, Zenon DEF FirstByte
<1>5. /\ f = 1 <=> h.is_final
      /\ x = 1 <=> h.rsv1
      /\ y = 1 <=> h.rsv2
      /\ z = 1 <=> h.rsv3
  OBVIOUS
<1>. HIDE DEF c, f, x, y, z
<1>6. /\ b % 16 = c /\ (b \div 128) % 2 = f /\ (b \div 64) % 2 = x
      /\ (b \div 32) % 2 = y /\ (b \div 16) % 2 = z
  BY <1>1, <1>2, <1>4, FieldsParsed
<1>. QED
  BY <1>5, <1>6, Zenon DEF IsSet, c

LEMMA OpCodeParsed ==
  ASSUME NEW op \in OpCodes
  PROVE  OpCode_from(OpCode_into(op)) = op
<1>1. CASE op \in {Op("Continue"), Op("Text"), Op("Binary"), Op("Close"), Op("Ping"), Op("Pong")}
  BY <1>1, Z3 DEF OpCode_from, OpCode_into, Op
<1>2. ASSUME NEW i \in 3..7, op = [name |-> "ReservedData", n |-> i]
      PROVE  OpCode_from(OpCode_into(op)) = op
  BY <1>2, Z3 DEF OpCode_from, OpCode_into, Op
<1>3. ASSUME NEW i \in 11..15, op = [name |-> "ReservedControl", n |-> i]
      PROVE  OpCode_from(OpCode_into(op)) = op
  BY <1>3, Z3 DEF OpCode_from, OpCode_into, Op
<1>. QED
  BY <1>1, <1>2, <1>3 DEF OpCodes

\* The format of the length is found again.
LEMMA FormatParsed ==
  ASSUME NEW n \in 0..MaxLength
  PROVE  for_byte(length_byte(for_length(n), n)) = for_length(n)
<1>1. n \in Nat
  BY MaxLengthAssumption
<1>. QED
  BY <1>1 DEF for_byte, length_byte, for_length

\* So is the length.
LEMMA LengthParsed ==
  ASSUME NEW n \in 0..MaxLength, NEW s \in Seq(Byte),
         s[2] % 128 = length_byte(for_length(n), n),
         \A i \in 1..extra_bytes(for_length(n)) : s[2 + i] = LengthBytes(n)[i]
  PROVE  ParsedLength(s, for_length(n)) = n
<1>1. n \in Nat /\ Shift7(n) \in Byte
  BY LengthIsU64
<1>2. CASE for_length(n) = "U8"
  BY <1>2 DEF ParsedLength, length_byte
<1>3. CASE for_length(n) = "U16"
  <2>1. n < 65536
    BY <1>1, <1>3 DEF for_length
  <2>2. LengthBytes(n) = be_bytes_u16(n) /\ extra_bytes(for_length(n)) = 2
    BY <1>3 DEF LengthBytes, extra_bytes
  <2>3. s[3] = Shift1(n) % 256 /\ s[4] = n % 256
    BY <2>2 DEF be_bytes_u16
  <2>4. ParsedLength(s, for_length(n)) = 256 * s[3] + s[4]
    BY <1>3 DEF ParsedLength, from_be_u16
  <2>. QED
    BY <1>1, <2>1, <2>3, <2>4, BigEndian16
<1>4. CASE for_length(n) = "U64"
  <2>1. LengthBytes(n) = be_bytes_u64(n) /\ extra_bytes(for_length(n)) = 8
    BY <1>4 DEF LengthBytes, extra_bytes
  <2>2. /\ s[3] = Shift7(n) % 256 /\ s[4] = Shift6(n) % 256 /\ s[5] = Shift5(n) % 256
        /\ s[6] = Shift4(n) % 256 /\ s[7] = Shift3(n) % 256 /\ s[8] = Shift2(n) % 256
        /\ s[9] = Shift1(n) % 256 /\ s[10] = n % 256
    BY <2>1 DEF be_bytes_u64
  <2>3. ParsedLength(s, for_length(n))
          = 256 * (256 * (256 * (256 * (256 * (256 * (256 * s[3] + s[4]) + s[5]) + s[6])
              + s[7]) + s[8]) + s[9]) + s[10]
    BY <1>4 DEF ParsedLength, from_be_u64
  <2>. QED
    BY <1>1, <2>2, <2>3, BigEndian64
<1>. QED
  BY <1>2, <1>3, <1>4 DEF for_length

\* However many bytes have arrived of a header that format wrote, and whatever
\* follows it, parse waits for the rest, or returns this header, this length and
\* the place behind it, or refuses its reserved opcode.
THEOREM HeaderAtAnyCut ==
  ASSUME NEW h \in Header, NEW n \in 0..MaxLength, NEW s \in Seq(Byte),
         \A i \in 1..Len(s) : i <= header_len(h, n) => s[i] = format(h, n)[i]
  PROVE  parse(s) = IF Len(s) < header_len(h, n) THEN Incomplete
                    ELSE IF Reserved(h.opcode) THEN BadOpcode
                    ELSE Parsed(h, n, header_len(h, n))
<1>. DEFINE k == extra_bytes(for_length(n))
            masked == h.mask # NoMask
            size == header_len(h, n)
<1>1. /\ size = 2 + k + Bit(masked, 4) /\ k \in {0, 2, 8} /\ Bit(masked, 4) \in {0, 4}
      /\ Len(s) \in Nat
  BY DEF header_len, extra_bytes, for_length, Bit
<1>2. CASE Len(s) < 2
  BY <1>1, <1>2, Z3 DEF parse
<1>3. CASE Len(s) >= 2
  <2>1. s[1] = FirstByte(h) /\ s[2] = SecondByte(h, n)
    <3>1. 1 \in 1..Len(s) /\ 2 \in 1..Len(s) /\ 2 <= size /\ 1 <= size
      BY <1>1, <1>3
    <3>2. s[1] = format(h, n)[1] /\ s[2] = format(h, n)[2]
      BY <3>1, Zenon
    <3>. QED
      BY <3>2, FormatBytes, Zenon
  <2>2. s[2] % 128 = length_byte(for_length(n), n) /\ (IsSet(s[2], 128) <=> masked)
    <3>. DEFINE l == length_byte(for_length(n), n)
    <3>1. l \in 0..127 /\ s[2] = l + Bit(masked, 128)
      BY <2>1, SecondByteType, Zenon
    <3>. HIDE DEF l
    <3>2. CASE masked
      <4>1. s[2] = l + 128
        BY <3>1, <3>2 DEF Bit
      <4>. QED
        BY <3>1, <3>2, <4>1, SecondByteParsed DEF l
    <3>3. CASE ~masked
      <4>1. s[2] = l
        BY <3>1, <3>3 DEF Bit
      <4>. QED
        BY <3>1, <3>3, <4>1, SecondByteParsed DEF l
    <3>. QED
      BY <3>2, <3>3
  <2>3. for_byte(s[2] % 128) = for_length(n)
    BY <2>2, FormatParsed
  <2>4. 2 + extra_bytes(for_byte(s[2] % 128)) + Bit(IsSet(s[2], 128), 4) = size
    BY <1>1, <2>2, <2>3 DEF Bit
  <2>5. OpCode_from(s[1] % 16) = h.opcode
    <3>1. h.opcode \in OpCodes
      BY DEF Header
    <3>. QED
      BY <2>1, <3>1, FirstByteParsed, OpCodeParsed
  <2>6. CASE Len(s) < size
    BY <1>3, <2>4, <2>6, <1>1 DEF parse
  <2>7. CASE Len(s) >= size
    <3>1. ParsedLength(s, for_length(n)) = n
      <4>1. \A i \in 1..k : s[2 + i] = LengthBytes(n)[i]
        <5>1. \A i \in 1..k : 2 + i \in 1..Len(s) /\ 2 + i <= size
          BY <1>1, <2>7
        <5>2. \A i \in 1..k : s[2 + i] = format(h, n)[2 + i]
          BY <5>1, Zenon
        <5>. QED
          BY <5>2, FormatBytes, Zenon
      <4>. QED
        BY <2>2, <4>1, LengthParsed
    <3>2. masked => [i \in 1..4 |-> s[2 + k + i]] = h.mask
      <4>. SUFFICES ASSUME masked PROVE [i \in 1..4 |-> s[2 + k + i]] = h.mask
        OBVIOUS
      <4>1. h.mask \in [1..4 -> Byte] /\ Len(h.mask) = 4 /\ size = 2 + k + 4
        BY <1>1, MaskType DEF Bit
      <4>2. \A i \in 1..4 : 2 + k + i \in 1..Len(s) /\ 2 + k + i <= size
        BY <1>1, <2>7, <4>1
      <4>3. \A i \in 1..4 : s[2 + k + i] = format(h, n)[2 + k + i]
        BY <4>2, Zenon
      <4>4. \A i \in 1..4 : s[2 + k + i] = h.mask[i]
        BY <4>1, <4>3, FormatBytes, Zenon
      <4>. QED
        BY <4>1, <4>4
    <3>. DEFINE hdr == [is_final |-> IsSet(s[1], 128), rsv1 |-> IsSet(s[1], 64),
                        rsv2 |-> IsSet(s[1], 32), rsv3 |-> IsSet(s[1], 16),
                        opcode |-> OpCode_from(s[1] % 16),
                        mask |-> IF IsSet(s[2], 128)
                                   THEN [i \in 1..4 |-> s[2 + extra_bytes(for_byte(s[2] % 128)) + i]]
                                   ELSE NoMask]
    <3>3. hdr = h
      <4>1. hdr.mask = h.mask
        BY <2>2, <2>3, <3>2
      <4>2. /\ IsSet(s[1], 128) = h.is_final /\ IsSet(s[1], 64) = h.rsv1
            /\ IsSet(s[1], 32) = h.rsv2 /\ IsSet(s[1], 16) = h.rsv3
        <5>1. /\ IsSet(s[1], 128) <=> h.is_final
              /\ IsSet(s[1], 64) <=> h.rsv1
              /\ IsSet(s[1], 32) <=> h.rsv2
              /\ IsSet(s[1], 16) <=> h.rsv3
          BY <2>1, FirstByteParsed
        <5>2. h.is_final \in BOOLEAN /\ h.rsv1 \in BOOLEAN /\ h.rsv2 \in BOOLEAN /\ h.rsv3 \in BOOLEAN
          BY DEF Header
        <5>. QED
          BY <5>1, <5>2, Zenon DEF IsSet
      <4>3. h = [is_final |-> h.is_final, rsv1 |-> h.rsv1, rsv2 |-> h.rsv2, rsv3 |-> h.rsv3,
                 opcode |-> h.opcode, mask |-> h.mask]
        BY DEF Header
      <4>. QED
        BY <2>5, <4>1, <4>2, <4>3, Zenon
    <3>4. parse(s) = IF Reserved(OpCode_from(s[1] % 16)) THEN BadOpcode
                     ELSE Parsed(hdr, ParsedLength(s, for_byte(s[2] % 128)), size)
      <4>1. ~(Len(s) < 2) /\ ~(Len(s) < size)
        BY <1>1, <1>3, <2>7
      <4>. QED
        BY <4>1, <2>4, Zenon DEF parse
    <3>5. ~(Len(s) < size)
      BY <1>1, <2>7
    <3>. QED
      BY <2>3, <2>5, <3>1, <3>3, <3>4, <3>5, Zenon
  <2>. QED
    BY <1>1, <2>6, <2>7
<1>. QED
  BY <1>1, <1>2, <1>3

-----------------------------------------------------------------------------
(* Masking *)

\* The mask rotated by a byte order's own rotation is the mask from byte k + 1 on.
LEMMA RotatedMaskBytes ==
  ASSUME NEW mask \in [1..4 -> Byte], NEW endian \in {"little", "big"}, NEW k \in 0..3,
         NEW i \in 1..4
  PROVE  RotatedMask(endian, mask, k)[i] = mask[((i - 1 + k) % 4) + 1]
<1>1. CASE endian = "little"
  <2>. DEFINE w == from_ne_bytes(endian, mask)
  <2>1. w = [s \in 0..3 |-> mask[s + 1]]
    BY <1>1 DEF from_ne_bytes
  <2>2. RotatedMask(endian, mask, k)[i] = rotate_right(w, k)[i - 1]
    BY <1>1 DEF RotatedMask, to_ne_bytes, Significance
  <2>3. i - 1 \in 0..3 /\ (i - 1 + k) % 4 \in 0..3
    BY Z3
  <2>4. rotate_right(w, k)[i - 1] = w[(i - 1 + k) % 4]
    BY <2>3 DEF rotate_right
  <2>. QED
    BY <2>1, <2>2, <2>3, <2>4
<1>2. CASE endian = "big"
  <2>. DEFINE w == from_ne_bytes(endian, mask)
  <2>1. w = [s \in 0..3 |-> mask[4 - s]]
    BY <1>2 DEF from_ne_bytes
  <2>2. RotatedMask(endian, mask, k)[i] = rotate_left(w, k)[4 - i]
    BY <1>2 DEF RotatedMask, to_ne_bytes, Significance
  <2>3. 4 - i \in 0..3 /\ (4 - i - k) % 4 \in 0..3
    BY Z3
  <2>4. rotate_left(w, k)[4 - i] = w[(4 - i - k) % 4]
    BY <2>3 DEF rotate_left
  <2>5. 4 - ((4 - i - k) % 4) = ((i - 1 + k) % 4) + 1
    BY Z3
  <2>. QED
    BY <2>1, <2>2, <2>3, <2>4, <2>5
<1>. QED
  BY <1>1, <1>2

\* Positions in the payload, counted from its beginning and from an aligned one.
LEMMA MaskPosition ==
  ASSUME NEW p \in Nat, NEW j \in Nat, j > 0
  PROVE  /\ ((j - 1) % 4) + 1 \in 1..4 /\ p % 4 \in 0..3
         /\ (((((j - 1) % 4) + 1) - 1 + (p % 4)) % 4) = (p + j - 1) % 4
BY Z3

LEMMA WholeWords ==
  ASSUME NEW a \in Nat, NEW w \in Nat, NEW b \in Nat, b = a + 4 * w
  PROVE  a % 4 = b % 4
BY Z3

LEMMA RotatedMaskByte ==
  ASSUME NEW mask \in [1..4 -> Byte], NEW endian \in {"little", "big"}, NEW p \in Nat,
         NEW j \in Nat, j > 0
  PROVE  MaskByte(RotatedMask(endian, mask, p % 4), j) = MaskByte(mask, p + j)
<1>. DEFINE at == ((j - 1) % 4) + 1
            k == p % 4
<1>1. at \in 1..4 /\ k \in 0..3 /\ (at - 1 + k) % 4 = (p + j - 1) % 4
  BY MaskPosition
<1>. HIDE DEF at, k
<1>2. RotatedMask(endian, mask, k)[at] = mask[((at - 1 + k) % 4) + 1]
  BY <1>1, RotatedMaskBytes, Zenon
<1>3. RotatedMask(endian, mask, k)[at] = mask[((p + j - 1) % 4) + 1]
  BY <1>1, <1>2, Zenon
<1>4. MaskByte(RotatedMask(endian, mask, k), j) = RotatedMask(endian, mask, k)[at]
  BY DEF MaskByte, at
<1>5. MaskByte(mask, p + j) = mask[((p + j - 1) % 4) + 1]
  BY DEF MaskByte
<1>. QED
  BY <1>3, <1>4, <1>5, Zenon DEF k

\* Whatever the byte order of the machine and wherever align_to_mut cuts the
\* buffer, the fast masking is the byte by byte one.
THEOREM FastMaskIsMask ==
  ASSUME NEW buf \in Seq(Byte), NEW mask \in [1..4 -> Byte],
         NEW endian \in {"little", "big"}, NEW split \in Splits(Len(buf))
  PROVE  apply_mask_fast32(buf, mask, endian, split) = apply_mask_fallback(buf, mask)
<1>. DEFINE p == split[1]
            q == p + 4 * split[2]
            rot == RotatedMask(endian, mask, p % 4)
<1>1. p \in Nat /\ split[2] \in Nat /\ q \in Nat
  BY DEF Splits
<1>2. ASSUME NEW i \in 1..Len(buf)
      PROVE  (IF i <= p THEN MaskByte(mask, i)
              ELSE IF i <= q THEN MaskByte(rot, i - p)
              ELSE MaskByte(rot, i - q)) = MaskByte(mask, i)
  <2>. i \in Nat
    OBVIOUS
  <2>. HIDE DEF p, q, rot
  <2>1. CASE i <= p
    BY <2>1
  <2>2. CASE p < i /\ i <= q
    <3>1. i - p \in Nat /\ i - p > 0 /\ p + (i - p) = i /\ ~(i <= p)
      BY <1>1, <2>2
    <3>2. MaskByte(rot, i - p) = MaskByte(mask, p + (i - p))
      BY <1>1, <3>1, RotatedMaskByte DEF rot
    <3>. QED
      BY <2>2, <3>1, <3>2
  <2>3. CASE p < i /\ q < i
    <3>1. i - q \in Nat /\ i - q > 0 /\ ~(i <= p) /\ ~(i <= q)
      BY <1>1, <2>3
    <3>2. MaskByte(rot, i - q) = MaskByte(mask, p + (i - q))
      BY <1>1, <3>1, RotatedMaskByte DEF rot
    <3>3. ((p + (i - q)) - 1) % 4 = (i - 1) % 4
      <4>. DEFINE w == split[2]
                  a == (p + (i - q)) - 1
      <4>1. q = p + 4 * w /\ w \in Nat
        BY <1>1 DEF q
      <4>. HIDE DEF w
      <4>2. a \in Nat /\ i - 1 \in Nat /\ i - 1 = a + 4 * w
        BY <1>1, <2>3, <3>1, <4>1
      <4>. HIDE DEF a
      <4>3. a % 4 = (i - 1) % 4
        BY <4>1, <4>2, WholeWords, Zenon
      <4>. QED
        BY <4>3 DEF a
    <3>4. MaskByte(mask, p + (i - q)) = MaskByte(mask, i)
      <4>. DEFINE at == p + (i - q)
      <4>. HIDE DEF at
      <4>1. MaskByte(mask, at) = mask[((at - 1) % 4) + 1]
        BY DEF MaskByte
      <4>2. MaskByte(mask, i) = mask[((i - 1) % 4) + 1]
        BY DEF MaskByte
      <4>3. (at - 1) % 4 = (i - 1) % 4
        BY <3>3 DEF at
      <4>. QED
        BY <4>1, <4>2, <4>3, Zenon DEF at
    <3>. QED
      BY <3>1, <3>2, <3>4
  <2>. QED
    BY <1>1, <2>1, <2>2, <2>3
<1>. QED
  BY <1>2, Zenon DEF apply_mask_fast32, apply_mask_fallback

\* Masking on one machine is undone on any other.
THEOREM MaskIsUndone ==
  ASSUME NEW buf \in Seq(Byte), NEW mask \in Masks,
         NEW e1 \in {"little", "big"}, NEW s1 \in Splits(Len(buf)),
         NEW e2 \in {"little", "big"}, NEW s2 \in Splits(Len(buf))
  PROVE  /\ mask_payload(mask, buf, e1, s1) \in Seq(Byte)
         /\ Len(mask_payload(mask, buf, e1, s1)) = Len(buf)
         /\ mask_payload(mask, mask_payload(mask, buf, e1, s1), e2, s2) = buf
<1>1. CASE mask = NoMask
  BY <1>1 DEF mask_payload
<1>2. CASE mask # NoMask
  <2>. DEFINE out == apply_mask_fallback(buf, mask)
  <2>1. mask \in [1..4 -> Byte]
    BY <1>2 DEF Masks
  <2>2. mask_payload(mask, buf, e1, s1) = out
    BY <1>2, <2>1, FastMaskIsMask DEF mask_payload
  <2>3. \A i \in 1..Len(buf) : buf[i] \in Byte /\ MaskByte(mask, i) \in Byte
    <3>. SUFFICES ASSUME NEW i \in 1..Len(buf)
                  PROVE  buf[i] \in Byte /\ MaskByte(mask, i) \in Byte
      OBVIOUS
    <3>1. ((i - 1) % 4) + 1 \in 1..4
      BY Z3
    <3>. QED
      BY <2>1, <3>1 DEF MaskByte
  <2>4. out \in [1..Len(buf) -> Byte]
    BY <2>3, XorAssumption DEF apply_mask_fallback
  <2>5. out \in Seq(Byte) /\ Len(out) = Len(buf)
    <3>1. Len(buf) \in Nat
      OBVIOUS
    <3>. HIDE DEF out
    <3>2. out \in Seq(Byte)
      BY <2>4, <3>1, SeqDef
    <3>3. Len(out) \in Nat /\ DOMAIN out = 1..Len(out) /\ DOMAIN out = 1..Len(buf)
      BY <2>4, <3>2, LenProperties
    <3>. QED
      BY <3>1, <3>2, <3>3
  <2>6. mask_payload(mask, out, e2, s2) = apply_mask_fallback(out, mask)
    BY <1>2, <2>1, <2>5, FastMaskIsMask DEF mask_payload
  <2>7. \A i \in 1..Len(buf) : Xor(out[i], MaskByte(mask, i)) = buf[i]
    BY <2>3, XorAssumption DEF apply_mask_fallback
  <2>8. apply_mask_fallback(out, mask) = [i \in 1..Len(buf) |-> Xor(out[i], MaskByte(mask, i))]
    BY <2>5 DEF apply_mask_fallback
  <2>9. apply_mask_fallback(out, mask) = [i \in 1..Len(buf) |-> buf[i]]
    BY <2>7, <2>8, Zenon
  <2>10. [i \in 1..Len(buf) |-> buf[i]] = buf
    OBVIOUS
  <2>. QED
    BY <2>2, <2>5, <2>6, <2>9, <2>10, Zenon
<1>. QED
  BY <1>1, <1>2

=============================================================================
