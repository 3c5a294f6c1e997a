---------------------------- MODULE FrameFormat ----------------------------
(***************************************************************************)
(* The bytes of a frame: FrameHeader and Frame of                          *)
(* src/src/protocol/frame/frame.rs, the codes of coding.rs and the masking *)
(* of mask.rs, as operators on sequences of bytes.  Bit fields are written *)
(* with division and remainder: the fields of a byte do not overlap, so    *)
(* that `|` is a sum.                                                      *)
(***************************************************************************)
EXTENDS Integers, Sequences

CONSTANTS
  MaxLength,   \* the longest payload, usize::MAX
  Xor(_, _)    \* `^` on bytes

Byte == 0..255

\* The digits of a number to the base 256, behind the k-th.
Shift1(n) == n \div 256
Shift2(n) == Shift1(n) \div 256
Shift3(n) == Shift2(n) \div 256
Shift4(n) == Shift3(n) \div 256
Shift5(n) == Shift4(n) \div 256
Shift6(n) == Shift5(n) \div 256
Shift7(n) == Shift6(n) \div 256

\* A payload length is a u64; `^` is its own inverse.
ASSUME MaxLengthAssumption == MaxLength \in Nat /\ Shift7(MaxLength) < 256
ASSUME XorAssumption ==
         \A a, b \in Byte : Xor(a, b) \in Byte /\ Xor(Xor(a, b), b) = a

-----------------------------------------------------------------------------
(* Codes *)

\* Reserved(i) carries its number; the others have n = 0.
OpName == {"Continue", "Text", "Binary", "ReservedData", "Close", "Ping", "Pong", "ReservedControl"}
Op(name) == [name |-> name, n |-> 0]

OpCodes ==
  {Op("Continue"), Op("Text"), Op("Binary"), Op("Close"), Op("Ping"), Op("Pong")}
    \cup {[name |-> "ReservedData", n |-> i] : i \in 3..7}
    \cup {[name |-> "ReservedControl", n |-> i] : i \in 11..15}

OpCode_into(op) ==
  CASE op.name = "Continue" -> 0 [] op.name = "Text" -> 1 [] op.name = "Binary" -> 2
    [] op.name = "Close" -> 8 [] op.name = "Ping" -> 9 [] op.name = "Pong" -> 10
    [] OTHER -> op.n

OpCode_from(b) ==
  CASE b = 0 -> Op("Continue") [] b = 1 -> Op("Text") [] b = 2 -> Op("Binary")
    [] b = 8 -> Op("Close") [] b = 9 -> Op("Ping") [] b = 10 -> Op("Pong")
    [] OTHER -> [name |-> IF b < 8 THEN "ReservedData" ELSE "ReservedControl", n |-> b]

Reserved(op) == op.name \in {"ReservedData", "ReservedControl"}

-----------------------------------------------------------------------------
(* Lengths *)

\* Mutant: a length that is an escape is written into the second byte.
for_length_escape(n) == IF n <= 126 THEN "U8" ELSE IF n < 65536 THEN "U16" ELSE "U64"

for_length(n) == IF n < 126 THEN "U8" ELSE IF n < 65536 THEN "U16" ELSE "U64"

for_byte(b) == IF b = 126 THEN "U16" ELSE IF b = 127 THEN "U64" ELSE "U8"

extra_bytes(f) == IF f = "U8" THEN 0 ELSE IF f = "U16" THEN 2 ELSE 8

length_byte(f, n) == IF f = "U8" THEN n ELSE IF f = "U16" THEN 126 ELSE 127

\* to_be_bytes of a u16, which drops what does not fit, and of a u64.
be_bytes_u16(n) == <<Shift1(n) % 256, n % 256>>
be_bytes_u64(n) ==
  <<Shift7(n) % 256, Shift6(n) % 256, Shift5(n) % 256, Shift4(n) % 256,
    Shift3(n) % 256, Shift2(n) % 256, Shift1(n) % 256, n % 256>>

\* u64::from_be_bytes of the bytes of s from i on, two or eight of them.
from_be_u16(s, i) == 256 * s[i] + s[i + 1]
from_be_u64(s, i) ==
  256 * (256 * (256 * (256 * (256 * (256 * (256 * s[i] + s[i + 1]) + s[i + 2]) + s[i + 3])
    + s[i + 4]) + s[i + 5]) + s[i + 6]) + s[i + 7]

-----------------------------------------------------------------------------
(* Headers *)

NoMask == <<>>
Masks == {NoMask} \cup [1..4 -> Byte]
Header ==
  [is_final : BOOLEAN, rsv1 : BOOLEAN, rsv2 : BOOLEAN, rsv3 : BOOLEAN,
   opcode : OpCodes, mask : Masks]

Bit(b, value) == IF b THEN value ELSE 0

\* FrameHeader::len, and FrameHeader::MAX_SIZE, the room made for a header.
MAX_SIZE == 14
header_len(h, n) == 2 + extra_bytes(for_length(n)) + Bit(h.mask # NoMask, 4)

FirstByte(h) ==
  OpCode_into(h.opcode) + Bit(h.is_final, 128) + Bit(h.rsv1, 64) + Bit(h.rsv2, 32) + Bit(h.rsv3, 16)
SecondByte(h, n) == length_byte(for_length(n), n) + Bit(h.mask # NoMask, 128)

LengthBytes(n) ==
  IF for_length(n) = "U8" THEN <<>>
  ELSE IF for_length(n) = "U16" THEN be_bytes_u16(n) ELSE be_bytes_u64(n)

\* FrameHeader::format.
format(h, n) == <<FirstByte(h), SecondByte(h, n)>> \o LengthBytes(n) \o h.mask

IsSet(b, value) == (b \div value) % 2 = 1

\* What parse returns: not enough bytes, an error, or a header, the length of the
\* payload and where it begins.
Incomplete == [is |-> "None", header |-> <<>>, length |-> 0, at |-> 0]
BadOpcode == [is |-> "InvalidOpcode", header |-> <<>>, length |-> 0, at |-> 0]
Parsed(h, n, at) == [is |-> "Some", header |-> h, length |-> n, at |-> at]

ParsedLength(s, lenfmt) ==
  IF lenfmt = "U8" THEN s[2] % 128
  ELSE IF lenfmt = "U16" THEN from_be_u16(s, 3) ELSE from_be_u64(s, 3)

\* FrameHeader::parse, which consumes nothing unless the header is complete.
parse(s) ==
  LET lenfmt == for_byte(s[2] % 128)
      masked == IsSet(s[2], 128)
      maskAt == 2 + extra_bytes(lenfmt)
      end == maskAt + Bit(masked, 4)
      opcode == OpCode_from(s[1] % 16)
  IN  IF Len(s) < 2 THEN Incomplete
      ELSE IF Len(s) < end THEN Incomplete
      ELSE IF Reserved(opcode) THEN BadOpcode
      ELSE Parsed([is_final |-> IsSet(s[1], 128), rsv1 |-> IsSet(s[1], 64),
                   rsv2 |-> IsSet(s[1], 32), rsv3 |-> IsSet(s[1], 16), opcode |-> opcode,
                   mask |-> IF masked THEN [i \in 1..4 |-> s[maskAt + i]] ELSE NoMask],
                  ParsedLength(s, lenfmt), end)

-----------------------------------------------------------------------------
(* Masking *)

\* The byte of the mask for the i-th byte of a payload.
MaskByte(mask, i) == mask[((i - 1) % 4) + 1]

apply_mask_fallback(buf, mask) == [i \in 1..Len(buf) |-> Xor(buf[i], MaskByte(mask, i))]

\* A u32 is its four bytes by significance; memory holds them in this order on a
\* little-endian machine and in the other on a big-endian one.
Significance(endian, i) == IF endian = "little" THEN i - 1 ELSE 4 - i
from_ne_bytes(endian, bytes) ==
  [s \in 0..3 |-> bytes[IF endian = "little" THEN s + 1 ELSE 4 - s]]
to_ne_bytes(endian, word) == [i \in 1..4 |-> word[Significance(endian, i)]]

rotate_left(word, bytes) == [s \in 0..3 |-> word[(s - bytes) % 4]]
rotate_right(word, bytes) == [s \in 0..3 |-> word[(s + bytes) % 4]]

\* Mutant: the mask is rotated the wrong way on one kind of machine.
RotatedMask_left(endian, mask, head) ==
  to_ne_bytes(endian, rotate_left(from_ne_bytes(endian, mask), head))

\* The mask as it meets a buffer whose first `head` bytes are done.
RotatedMask(endian, mask, head) ==
  to_ne_bytes(endian, IF endian = "big"
                        THEN rotate_left(from_ne_bytes(endian, mask), head)
                        ELSE rotate_right(from_ne_bytes(endian, mask), head))

\* How align_to_mut may cut n bytes: a prefix, whole words and a suffix, with no
\* promise about their lengths.
Splits(n) == {x \in (0..n) \X (0..n) : x[1] + 4 * x[2] <= n}

\* apply_mask_fast32: prefix and suffix byte by byte, the words with the rotated
\* mask.
apply_mask_fast32(buf, mask, endian, split) ==
  LET prefix == split[1]
      suffixAt == prefix + 4 * split[2]
      rotated == RotatedMask(endian, mask, prefix % 4)
  IN  [i \in 1..Len(buf) |->
         Xor(buf[i], IF i <= prefix THEN MaskByte(mask, i)
                     ELSE IF i <= suffixAt THEN MaskByte(rotated, i - prefix)
                     ELSE MaskByte(rotated, i - suffixAt))]

\* The payload as format_into_buf writes it, and as read_frame gives it back.
mask_payload(mask, payload, endian, split) ==
  IF mask = NoMask THEN payload ELSE apply_mask_fast32(payload, mask, endian, split)

-----------------------------------------------------------------------------
(* Close codes *)

\* CloseCode, with its number.
CloseCode_from(c) ==
  [name |-> CASE c \in {1000, 1001, 1002, 1003} \cup 1007..1013 -> "Named"
              [] c \in {1005, 1006, 1015} -> "Internal"
              [] c \in 1016..2999 -> "Reserved"
              [] c \in 3000..3999 -> "Iana"
              [] c \in 4000..4999 -> "Library"
              [] OTHER -> "Bad",
   n |-> c]
CloseCode_into(code) == code.n

=============================================================================
