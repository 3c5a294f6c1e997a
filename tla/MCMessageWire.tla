--------------------------- MODULE MCMessageWire ---------------------------
(* An instance of MessageWire: bytes that begin and continue characters of *)
(* one to four bytes, lengths around the escapes, and two masks.           *)
EXTENDS MessageWire

\* Bytes as numbers of the digits 0 and 1, and `^` digit by digit.
BitAt(a, i) == (a \div 2^i) % 2
XorByte(a, b) ==
  LET digit(i) == IF BitAt(a, i) # BitAt(b, i) THEN 2^i ELSE 0
  IN  digit(0) + digit(1) + digit(2) + digit(3) + digit(4) + digit(5) + digit(6) + digit(7)

\* 'a' and the lead of two, three or four bytes with continuations, one of which
\* may not follow the lead of three or four.
SomeAlphabets == {{97, 195, 128}, {97, 224, 160, 128}, {97, 240, 160, 128}}

TwoMasks == {NoMask, <<1, 32, 4, 128>>}

SomeBinaries == {<<7, 8, 9>>, <<1, 2, 3, 4, 5, 6, 7, 8, 9>>}

Edges == {1, 125, 126, 127, 128, 255, 256, 65535, 65536, 65537, 16777216, 2147483647}

Codes == {0, 999, 1000, 1004, 1005, 1015, 1016, 3000, 4999, 5000, 65535}

SomeReasons == {<<>>, <<97>>, <<195>>}

=============================================================================
