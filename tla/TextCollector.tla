--------------------------- MODULE TextCollector ---------------------------
(***************************************************************************)
(* How a fragmented text is collected: StringCollector of                  *)
(* src/src/protocol/message.rs and the incremental decoder of              *)
(* src/src/utf8.rs, on sequences of bytes.  std::str::from_utf8 is         *)
(* external: it is given by the table of well-formed characters.           *)
(***************************************************************************)
EXTENDS Integers, Sequences, FiniteSetsExt

-----------------------------------------------------------------------------
(* std::str::from_utf8 *)

Tail8 == 128..191

\* The bytes a character may be made of, position by position.
Shapes ==
  {<<0..127>>, <<194..223, Tail8>>,
   <<{224}, 160..191, Tail8>>, <<225..236 \cup {238, 239}, Tail8, Tail8>>,
   <<{237}, 128..159, Tail8>>,
   <<{240}, 144..191, Tail8, Tail8>>, <<241..243, Tail8, Tail8, Tail8>>,
   <<{244}, 128..143, Tail8, Tail8>>}

\* The bytes of s behind position p that may begin a character of this shape.
Fit(s, p, shape) ==
  Max({k \in 0..Len(shape) :
         p + k <= Len(s) /\ \A i \in 1..k : s[p + i] \in shape[i]})

\* The length of the character behind position p, 0 if there is none.
CharLen(s, p) == Max({0} \cup {Len(sh) : sh \in {x \in Shapes : Fit(s, p, x) = Len(x)}})

\* Utf8Error::valid_up_to.
valid_up_to(s) ==
  LET upTo[p \in 0..Len(s)] == IF CharLen(s, p) = 0 THEN p ELSE upTo[p + CharLen(s, p)]
  IN  upTo[0]

\* Utf8Error::error_len: 0 for None, a character cut short by the end of the input.
error_len(s) ==
  LET p == valid_up_to(s)
      k == Max({Fit(s, p, sh) : sh \in Shapes})
  IN  IF p + k = Len(s) /\ k > 0 THEN 0 ELSE Max({1, k})

is_utf8(s) == valid_up_to(s) = Len(s)

-----------------------------------------------------------------------------
(* The decoder *)

Front(s, n) == SubSeq(s, 1, n)
Rest(s, n) == SubSeq(s, n + 1, Len(s))

\* Incomplete: the bytes of a character that is cut short; at most four fit.
BufferSize == 4

\* try_complete: the buffer after the call, its result, and the input left.
Completed(result, buffer, left) == [result |-> result, buffer |-> buffer, left |-> left]

\* Mutant: the bytes are counted from the beginning of the buffer.
try_complete_uncounted(buffer, input) ==
  LET copied == Min({BufferSize - Len(buffer), Len(input)})
      spliced == buffer \o Front(input, copied)
      upTo == valid_up_to(spliced)
  IN  CASE is_utf8(spliced) -> Completed("Ok", spliced, Rest(input, copied))
        [] ~is_utf8(spliced) /\ upTo > 0 ->
             Completed("Ok", Front(spliced, upTo), Rest(input, upTo))
        [] ~is_utf8(spliced) /\ upTo = 0 /\ error_len(spliced) > 0 ->
             Completed("Err", Front(spliced, error_len(spliced)), input)
        [] OTHER -> Completed("None", spliced, <<>>)

\* try_complete and try_complete_offsets.  Both subtractions are unwrapped, and
\* the input left behind an incomplete buffer is not looked at again.
try_complete(buffer, input) ==
  LET copied == Min({BufferSize - Len(buffer), Len(input)})
      spliced == buffer \o Front(input, copied)
      upTo == valid_up_to(spliced)
      consumed(n) == n - Len(buffer)
  IN  CASE is_utf8(spliced) -> Completed("Ok", spliced, Rest(input, copied))
        [] ~is_utf8(spliced) /\ upTo > 0 ->
             IF consumed(upTo) < 0 THEN Completed("Panic", buffer, input)
             ELSE Completed("Ok", Front(spliced, upTo), Rest(input, consumed(upTo)))
        [] ~is_utf8(spliced) /\ upTo = 0 /\ error_len(spliced) > 0 ->
             IF consumed(error_len(spliced)) < 0 THEN Completed("Panic", buffer, input)
             ELSE Completed("Err", Front(spliced, error_len(spliced)), input)
        [] OTHER -> Completed("None", spliced, <<>>)

-----------------------------------------------------------------------------
(* StringCollector *)

\* `incomplete` is empty for None: a suffix that is kept is never empty.
NewCollector == [data |-> <<>>, incomplete |-> <<>>]
Collected(data, incomplete, err) ==
  [c |-> [data |-> data, incomplete |-> incomplete], err |-> err]

\* `decode` of what is left, and what `extend` makes of it.
ExtendDecoded(data, input) ==
  LET upTo == valid_up_to(input)
      text == data \o Front(input, upTo)
  IN  CASE upTo = Len(input) -> Collected(text, <<>>, "None")
        [] upTo < Len(input) /\ error_len(input) = 0 ->
             IF Len(input) - upTo > BufferSize THEN Collected(text, <<>>, "Panic")
             ELSE Collected(text, Rest(input, upTo), "None")
        [] OTHER -> Collected(text, <<>>, "Utf8")

collector_extend(c, tail) ==
  IF c.incomplete = <<>> THEN ExtendDecoded(c.data, tail)
  ELSE LET done == try_complete(c.incomplete, tail)
       IN  CASE done.result = "None" -> Collected(c.data, done.buffer, "None")
             [] done.result = "Ok" -> ExtendDecoded(c.data \o done.buffer, done.left)
             [] done.result = "Err" -> Collected(c.data, <<>>, "Utf8")
             [] OTHER -> Collected(c.data, <<>>, "Panic")

into_string(c) == IF c.incomplete = <<>> THEN "None" ELSE "Utf8"

=============================================================================
