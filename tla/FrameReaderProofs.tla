-------------------------- MODULE FrameReaderProofs --------------------------
(***************************************************************************)
(* The theorems about FrameReader, for all frames, limits, buffer sizes    *)
(* and numbers of frames.                                                  *)
(***************************************************************************)
EXTENDS FrameReader, SequenceTheorems, TLAPS

\* The bytes of the frames the peer has begun to send.
SentByte == (1..Len(frames)) \X Nat

\* What makes TypeOK and InputIntact inductive: the reader looks up the frame of
\* the byte in front of the buffer, which must be one that was sent.
Inv ==
  /\ TypeOK
  /\ codec.in_buffer \in Seq(SentByte) /\ wire \in Seq(SentByte)
  /\ InputIntact

-----------------------------------------------------------------------------
(* Sequences *)

\* A sequence is the part up to any place and the part behind it.
LEMMA Cut ==
  ASSUME NEW S, NEW t \in Seq(S), NEW n \in 0..Len(t)
  PROVE  /\ SubSeq(t, 1, n) \in Seq(S) /\ Len(SubSeq(t, 1, n)) = n
         /\ SubSeq(t, n + 1, Len(t)) \in Seq(S)
         /\ Len(SubSeq(t, n + 1, Len(t))) = Len(t) - n
         /\ SubSeq(t, 1, n) \o SubSeq(t, n + 1, Len(t)) = t
<1>1. Len(t) \in Nat /\ \A i \in 1..Len(t) : t[i] \in S
  BY LenProperties, ElementOfSeq
<1>2. /\ SubSeq(t, 1, n) \in Seq(S)
      /\ Len(SubSeq(t, 1, n)) = IF 1 <= n THEN n - 1 + 1 ELSE 0
  <2>1. 1 \in Int /\ n \in Int /\ \A i \in 1..n : t[i] \in S
    BY <1>1
  <2> QED BY <2>1, SubSeqProperties
<1>3. /\ SubSeq(t, n + 1, Len(t)) \in Seq(S)
      /\ Len(SubSeq(t, n + 1, Len(t))) =
           IF n + 1 <= Len(t) THEN Len(t) - (n + 1) + 1 ELSE 0
  <2>1. n + 1 \in Int /\ Len(t) \in Int /\ \A i \in (n + 1)..Len(t) : t[i] \in S
    BY <1>1
  <2> QED BY <2>1, SubSeqProperties
<1>4. SubSeq(t, 1, n) \o SubSeq(t, n + 1, Len(t)) = SubSeq(t, 1, Len(t))
  <2>1. /\ 1 \in 1..(Len(t) + 1) /\ n \in (1 - 1)..Len(t) /\ Len(t) \in n..Len(t)
    BY <1>1
  <2> QED BY <2>1, ConcatAdjacentSubSeq
<1>5. SubSeq(t, 1, Len(t)) = t
  BY SubSeqFull
<1>6. Len(SubSeq(t, 1, n)) = n /\ Len(SubSeq(t, n + 1, Len(t))) = Len(t) - n
  BY <1>1, <1>2, <1>3
<1> QED BY <1>2, <1>3, <1>4, <1>5, <1>6, Zenon

LEMMA Associative ==
  ASSUME NEW s \in Seq(Byte), NEW t \in Seq(Byte), NEW u \in Seq(Byte)
  PROVE  (s \o t) \o u = s \o (t \o u)
BY ConcatAssociative

\* Three adjacent runs of bytes.
Whole(s, t, u) == (s \o t) \o u

\* Bytes that go from the front of one sequence to the end of the one before it
\* leave the whole as it was.
LEMMA Flow ==
  ASSUME NEW s \in Seq(Byte), NEW x \in Seq(Byte), NEW y \in Seq(Byte),
         NEW z \in Seq(Byte), NEW w \in Seq(Byte)
  PROVE  Whole(s \o x, y \o z, w) = Whole(s, x \o y, z \o w)
<1> DEFINE a == s \o x
           b == x \o y
           c == s \o b
<1>1. a \in Seq(Byte) /\ b \in Seq(Byte)
  BY ConcatProperties
<1>2. a \o y = c
  BY Associative
<1> HIDE DEF a, b
<1>3. c \in Seq(Byte)
  BY <1>1, ConcatProperties
<1> HIDE DEF c
<1>4. (a \o y) \o z = a \o (y \o z)
  <2>1. a \in Seq(Byte)
    BY <1>1
  <2> QED BY <2>1, Associative
<1>5. (c \o z) \o w = c \o (z \o w)
  BY <1>3, Associative
<1>6. (a \o (y \o z)) \o w = c \o (z \o w)
  BY <1>2, <1>4, <1>5, Zenon
<1> QED BY <1>6 DEF a, b, c, Whole

Both(s, t) == s \o t
Short(s, n) == SubSeq(s, 1, Len(s) - n)

\* Cutting the end of the second of two sequences cuts the end of both.
LEMMA CutEnd ==
  ASSUME NEW S, NEW s \in Seq(S), NEW t \in Seq(S), NEW n \in 0..Len(t)
  PROVE  Short(Both(s, t), n) = Both(s, Short(t, n))
<1> DEFINE u == SubSeq(t, 1, Len(t) - n)
           st == s \o t
           k == Len(st) - n
<1>1. Len(s) \in Nat /\ Len(t) \in Nat /\ Len(t) - n \in 0..Len(t)
  BY LenProperties
<1>2. /\ u \in Seq(S) /\ Len(u) = Len(t) - n
      /\ \A i \in 1..(Len(t) - n) : u[i] = t[i]
  BY <1>1, Cut
<1>3. /\ st \in Seq(S) /\ Len(st) = Len(s) + Len(t)
      /\ \A i \in 1..(Len(s) + Len(t)) : st[i] = IF i <= Len(s) THEN s[i] ELSE t[i - Len(s)]
  BY ConcatProperties
<1> HIDE DEF u, st
<1>4. /\ s \o u \in Seq(S) /\ Len(s \o u) = Len(s) + Len(u)
      /\ \A i \in 1..(Len(s) + Len(u)) :
           (s \o u)[i] = IF i <= Len(s) THEN s[i] ELSE u[i - Len(s)]
  BY <1>2, ConcatProperties
<1>5. k \in 0..Len(st)
  BY <1>1, <1>3
<1>6. /\ SubSeq(st, 1, k) \in Seq(S) /\ Len(SubSeq(st, 1, k)) = k
      /\ \A i \in 1..k : SubSeq(st, 1, k)[i] = st[i]
  BY <1>3, <1>5, Cut
<1>7. ASSUME NEW i \in 1..k PROVE SubSeq(st, 1, k)[i] = (s \o u)[i]
  <2>1. i \in 1..(Len(s) + Len(t)) /\ i \in 1..(Len(s) + Len(u)) /\ i - Len(s) <= Len(t) - n
    BY <1>1, <1>2, <1>3
  <2>2. SubSeq(st, 1, k)[i] = st[i]
    BY <1>6, Zenon
  <2>3. CASE i <= Len(s)
    BY <2>1, <2>2, <2>3, <1>3, <1>4, Zenon
  <2>4. CASE ~(i <= Len(s))
    <3>1. u[i - Len(s)] = t[i - Len(s)]
      <4>1. i - Len(s) \in 1..(Len(t) - n)
        BY <2>1, <2>4, <1>1
      <4> QED BY <4>1, <1>2, Zenon
    <3> QED BY <3>1, <2>1, <2>2, <2>4, <1>3, <1>4, Zenon
  <2> QED BY <2>3, <2>4
<1>8. Len(SubSeq(st, 1, k)) = Len(s \o u)
  BY <1>1, <1>2, <1>3, <1>4, <1>6
<1>9. SubSeq(st, 1, k) = s \o u
  <2> HIDE DEF k
  <2>1. \A i \in 1..Len(SubSeq(st, 1, k)) : SubSeq(st, 1, k)[i] = (s \o u)[i]
    BY <1>6, <1>7
  <2> QED BY <2>1, <1>4, <1>6, <1>8, SeqEqual
<1> QED BY <1>9 DEF u, st, Both, Short
-----------------------------------------------------------------------------
(* Operators *)

\* The frame in front of the buffer is one that was sent, and its header fits.
LEMMA ParseType ==
  ASSUME TypeOK, NEW c \in Codec, c.in_buffer \in Seq(SentByte)
  PROVE  /\ parse(c) \in 0..Len(frames)
         /\ parse(c) # 0 => /\ frames[parse(c)] \in Frame
                            /\ frames[parse(c)].hlen <= Len(c.in_buffer)
<1>1. CASE c.in_buffer = <<>>
  BY <1>1 DEF parse, TypeOK
<1>2. CASE c.in_buffer # <<>>
  <2>1. Len(c.in_buffer) \in Nat \ {0}
    BY <1>2, EmptySeq
  <2>2. c.in_buffer[1] \in SentByte
    BY <2>1, ElementOfSeq
  <2>3. c.in_buffer[1][1] \in 1..Len(frames)
    BY <2>2 DEF SentByte
  <2>4. frames[c.in_buffer[1][1]] \in Frame
    BY <2>3 DEF TypeOK
  <2> QED BY <1>2, <2>1, <2>3, <2>4 DEF parse, Frame
<1> QED BY <1>1, <1>2

\* What is left of the buffer behind its first n bytes.
LEMMA AdvanceType ==
  ASSUME NEW c \in Codec, c.in_buffer \in Seq(SentByte), NEW n \in 0..Len(c.in_buffer)
  PROVE  /\ advance(c, n) \in Codec
         /\ advance(c, n).in_buffer = SubSeq(c.in_buffer, n + 1, Len(c.in_buffer))
         /\ advance(c, n).in_buffer \in Seq(SentByte)
         /\ advance(c, n).spare = c.spare /\ advance(c, n).header = c.header
<1>1. c.in_buffer \in Seq(Byte)
  BY DEF Codec
<1>2. SubSeq(c.in_buffer, n + 1, Len(c.in_buffer)) \in Seq(Byte)
  BY <1>1, Cut
<1>3. SubSeq(c.in_buffer, n + 1, Len(c.in_buffer)) \in Seq(SentByte)
  BY Cut
<1> QED BY <1>2, <1>3 DEF advance, Codec

\* The first half of an iteration takes whole headers out of the buffer: `used`
\* bytes leave it and nothing else changes in it.
LEMMA ParseHeaderType ==
  ASSUME TypeOK, codec.in_buffer \in Seq(SentByte), NEW p, p = ParseHeader(codec)
  PROVE  /\ p.c \in Codec /\ p.c.header \in 0..Len(frames)
         /\ p.used \in 0..Len(codec.in_buffer)
         /\ p.c.in_buffer = SubSeq(codec.in_buffer, p.used + 1, Len(codec.in_buffer))
         /\ p.c.in_buffer \in Seq(SentByte)
         /\ p.err \in {"None", "InvalidOpcode", "MessageTooLong"}
<1> DEFINE k == parse(codec)
           f == frames[k]
           n == Len(codec.in_buffer)
           a == advance(codec, f.hlen)
           s == [a EXCEPT !.header = k]
<1>1. /\ codec \in Codec /\ codec.header \in 0..Len(frames) /\ n \in Nat
      /\ 0 \in 0..Len(codec.in_buffer) /\ Len(frames) \in Nat
  BY LenProperties DEF TypeOK
<1>2. /\ k \in 0..Len(frames)
      /\ k # 0 => f \in Frame /\ f.hlen <= n
  BY <1>1, ParseType
<1>3. codec.in_buffer = SubSeq(codec.in_buffer, 0 + 1, Len(codec.in_buffer))
  BY SubSeqFull
<1>4. CASE codec.header # 0
  <2>1. p = [c |-> codec, err |-> "None", used |-> 0]
    BY <1>4 DEF ParseHeader
  <2> QED BY <2>1, <1>1, <1>3
<1>5. CASE codec.header = 0 /\ k = 0
  <2>1. p = [c |-> reserve(codec, HeaderMax), err |-> "None", used |-> 0]
    BY <1>5 DEF ParseHeader, Rewind
  <2>2. /\ reserve(codec, HeaderMax) \in Codec
        /\ reserve(codec, HeaderMax).header = codec.header
        /\ reserve(codec, HeaderMax).in_buffer = codec.in_buffer
    BY <1>1, SizesAssumption DEF reserve, Codec
  <2> QED BY <2>1, <2>2, <1>1, <1>3
<1>6. CASE codec.header = 0 /\ k # 0 /\ f.reserved
  <2>1. p = [c |-> codec, err |-> "InvalidOpcode", used |-> 0]
    BY <1>6 DEF ParseHeader, Undefined
  <2> QED BY <2>1, <1>1, <1>3
<1>7. CASE codec.header = 0 /\ k # 0 /\ ~f.reserved
  <2>1. f.hlen \in 0..Len(codec.in_buffer) /\ f.len \in Nat
    BY <1>1, <1>2, <1>7 DEF Frame
  <2>2. /\ a \in Codec /\ a.in_buffer \in Seq(SentByte)
        /\ a.in_buffer = SubSeq(codec.in_buffer, f.hlen + 1, Len(codec.in_buffer))
    BY <2>1, <1>1, AdvanceType
  <2>3. /\ s \in Codec /\ s.header = k /\ s.in_buffer = a.in_buffer
    BY <2>2, <1>2, <1>1 DEF Codec
  <2>4. /\ reserve(s, f.len) \in Codec /\ reserve(s, f.len).header = k
        /\ reserve(s, f.len).in_buffer = a.in_buffer
    BY <2>1, <2>3 DEF reserve, Codec
  <2>5. \/ p = [c |-> s, err |-> "MessageTooLong", used |-> f.hlen]
        \/ p = [c |-> reserve(s, f.len), err |-> "None", used |-> f.hlen]
    BY <1>7 DEF ParseHeader, RoomFor
  <2> HIDE DEF k, f, a, s
  <2>6. /\ p.c = s \/ p.c = reserve(s, f.len)
        /\ p.used = f.hlen /\ p.err \in {"None", "MessageTooLong"}
    BY <2>5
  <2>7. p.c \in Codec /\ p.c.header = k /\ p.c.in_buffer = a.in_buffer
    BY <2>3, <2>4, <2>6, Zenon
  <2>8. p.c.in_buffer = SubSeq(codec.in_buffer, p.used + 1, Len(codec.in_buffer))
    BY <2>2, <2>6, <2>7
  <2> QED BY <2>1, <2>2, <2>6, <2>7, <2>8, <1>2
<1> QED BY <1>4, <1>5, <1>6, <1>7

\* The bytes of the k-th frame belong to one of the first k frames.
LEMMA FrameBytesType ==
  ASSUME NEW f \in Frame, NEW k \in Nat \ {0}
  PROVE  /\ FrameBytes(f, k) \in Seq((1..k) \X Nat)
         /\ FrameBytes(f, k) \in Seq(Byte)
         /\ Len(FrameBytes(f, k)) = f.hlen + f.len
<1>1. f.hlen + f.len \in Nat
  BY DEF Frame
<1>2. \A i \in 1..(f.hlen + f.len) : <<k, i>> \in (1..k) \X Nat /\ <<k, i>> \in Byte
  BY <1>1 DEF Byte
<1> QED BY <1>1, <1>2 DEF FrameBytes

-----------------------------------------------------------------------------
(* The invariant *)

LEMMA InitInv == Init => Inv
<1> SUFFICES ASSUME Init PROVE Inv
  OBVIOUS
<1>1. PICK f \in FrameKinds : \E part \in 0..(f.hlen + f.len) :
        LET bytes == FrameBytes(f, 1)
        IN  /\ frames = <<f>>
            /\ stream = bytes
            /\ wire = SubSeq(bytes, part + 1, Len(bytes))
            /\ codec = [in_buffer |-> SubSeq(bytes, 1, part),
                        spare |-> IF part < InBufLen THEN InBufLen - part ELSE 0,
                        header |-> 0]
            /\ args \in Arguments
            /\ ended = FALSE /\ taken = <<>> /\ delivered = <<>> /\ ret = "None"
  BY DEF Init
<1> DEFINE bytes == FrameBytes(f, 1)
<1>2. PICK part \in 0..(f.hlen + f.len) :
            /\ frames = <<f>>
            /\ stream = bytes
            /\ wire = SubSeq(bytes, part + 1, Len(bytes))
            /\ codec = [in_buffer |-> SubSeq(bytes, 1, part),
                        spare |-> IF part < InBufLen THEN InBufLen - part ELSE 0,
                        header |-> 0]
            /\ args \in Arguments
            /\ ended = FALSE /\ taken = <<>> /\ delivered = <<>> /\ ret = "None"
  BY <1>1
<1>3. f \in Frame /\ f.hlen + f.len \in Nat
  BY KindsAssumption DEF Frame
<1>4. /\ bytes \in Seq((1..1) \X Nat) /\ bytes \in Seq(Byte)
      /\ Len(bytes) = f.hlen + f.len
  BY <1>3, FrameBytesType
<1> HIDE DEF bytes
<1>5. part \in 0..Len(bytes)
  BY <1>4
<1>6. Len(frames) = 1 /\ frames \in Seq(Frame)
  BY <1>2, <1>3
<1>7. /\ codec.in_buffer \in Seq(SentByte) /\ wire \in Seq(SentByte)
      /\ codec.in_buffer \in Seq(Byte) /\ wire \in Seq(Byte)
      /\ codec.in_buffer \o wire = bytes
  <2>1. codec.in_buffer = SubSeq(bytes, 1, part)
    BY <1>2
  <2>2. codec.in_buffer \in Seq(Byte) /\ wire \in Seq(Byte) /\ codec.in_buffer \o wire = bytes
    BY <1>2, <1>4, <1>5, <2>1, Cut
  <2>3. codec.in_buffer \in Seq((1..1) \X Nat) /\ wire \in Seq((1..1) \X Nat)
    BY <1>2, <1>4, <1>5, <2>1, Cut
  <2> QED BY <2>2, <2>3, <1>6 DEF SentByte
<1>8. TypeOK
  <2>1. codec \in Codec /\ codec.header \in 0..Len(frames)
    <3> DEFINE room == IF part < InBufLen THEN InBufLen - part ELSE 0
    <3>1. room \in Nat
      BY <1>3, SizesAssumption
    <3>2. codec = [in_buffer |-> SubSeq(bytes, 1, part), spare |-> room, header |-> 0]
      BY <1>2
    <3> HIDE DEF room
    <3>3. SubSeq(bytes, 1, part) \in Seq(Byte)
      BY <3>2, <1>7
    <3>4. codec \in Codec /\ codec.header = 0
      BY <3>1, <3>2, <3>3 DEF Codec
    <3> QED BY <3>4, <1>6
  <2>2. Len(frames) <= MaxFrames + 1
    BY <1>6, SizesAssumption
  <2>3. /\ stream \in Seq(Byte) /\ taken = <<>> /\ delivered = <<>> /\ ended = FALSE
        /\ ret = "None" /\ args \in Arguments
    BY <1>2, <1>4
  <2>4. taken \in Seq(Byte) /\ delivered \in Seq([frame : 1..Len(frames), payload : Seq(Byte)])
    BY <2>3, EmptySeq
  <2> QED BY <1>6, <1>7, <2>1, <2>2, <2>3, <2>4 DEF TypeOK
<1>9. InputIntact
  <2>1. <<>> \o codec.in_buffer = codec.in_buffer
    BY <1>7, ConcatEmptySeq
  <2>2. taken = <<>> /\ stream = bytes
    BY <1>2
  <2> QED BY <2>1, <2>2, <1>7 DEF InputIntact
<1> QED BY <1>7, <1>8, <1>9 DEF Inv

\* An iteration takes `used` bytes out of the buffer and may append others that
\* it takes from the stream: no byte is lost.
LEMMA BytesMove ==
  ASSUME Inv, NEW x \in Seq(Byte), NEW y \in Seq(Byte), NEW z \in Seq(Byte),
         codec.in_buffer = x \o y, wire' \in Seq(Byte), wire = z \o wire',
         taken' = taken \o x, codec'.in_buffer = y \o z, stream' = stream
  PROVE  InputIntact' /\ taken' \in Seq(Byte) /\ codec'.in_buffer \in Seq(Byte)
<1>1. taken \in Seq(Byte)
  BY DEF Inv, TypeOK
<1>2. Whole(taken \o x, y \o z, wire') = Whole(taken, x \o y, z \o wire')
  BY <1>1, Flow
<1>3. Whole(taken, codec.in_buffer, wire) = stream
  BY DEF Inv, InputIntact, Whole
<1>4. taken \o x \in Seq(Byte) /\ y \o z \in Seq(Byte)
  BY <1>1, ConcatProperties
<1>5. Whole(taken', codec'.in_buffer, wire') = stream'
  BY <1>2, <1>3, Zenon
<1> QED BY <1>4, <1>5 DEF InputIntact, Whole

\* The same for an iteration that reads nothing.
LEMMA BytesTaken ==
  ASSUME Inv, NEW x \in Seq(Byte), NEW y \in Seq(Byte), codec.in_buffer = x \o y,
         taken' = taken \o x, codec'.in_buffer = y, wire' = wire, stream' = stream
  PROVE  InputIntact' /\ taken' \in Seq(Byte)
<1>1. <<>> \in Seq(Byte) /\ wire \in Seq(Byte)
  BY EmptySeq DEF Inv, TypeOK
<1>2. wire = <<>> \o wire' /\ codec'.in_buffer = y \o <<>>
  BY <1>1, ConcatEmptySeq
<1> QED BY <1>1, <1>2, BytesMove

\* The buffer is what the first half of an iteration takes, and the rest.
LEMMA Parsed ==
  ASSUME Inv, NEW p, p = ParseHeader(codec)
  PROVE  /\ SubSeq(codec.in_buffer, 1, p.used) \in Seq(Byte)
         /\ p.c.in_buffer \in Seq(Byte)
         /\ codec.in_buffer = SubSeq(codec.in_buffer, 1, p.used) \o p.c.in_buffer
         /\ p.c.in_buffer \in Seq(SentByte)
         /\ p.c \in Codec /\ p.c.header \in 0..Len(frames)
         /\ p.err \in {"None", "InvalidOpcode", "MessageTooLong"}
<1>1. /\ p.c \in Codec /\ p.c.header \in 0..Len(frames)
      /\ p.used \in 0..Len(codec.in_buffer)
      /\ p.c.in_buffer = SubSeq(codec.in_buffer, p.used + 1, Len(codec.in_buffer))
      /\ p.c.in_buffer \in Seq(SentByte)
      /\ p.err \in {"None", "InvalidOpcode", "MessageTooLong"}
  BY ParseHeaderType DEF Inv
<1>2. codec.in_buffer \in Seq(Byte) /\ p.c.in_buffer \in Seq(Byte)
  BY <1>1 DEF Inv, TypeOK, Codec
<1>3. /\ SubSeq(codec.in_buffer, 1, p.used) \in Seq(Byte)
      /\ SubSeq(codec.in_buffer, 1, p.used)
           \o SubSeq(codec.in_buffer, p.used + 1, Len(codec.in_buffer)) = codec.in_buffer
  <2>1. \A t \in Seq(Byte) : \A n \in 0..Len(t) :
          /\ SubSeq(t, 1, n) \in Seq(Byte)
          /\ SubSeq(t, 1, n) \o SubSeq(t, n + 1, Len(t)) = t
    BY Cut, Zenon
  <2> QED BY <1>1, <1>2, <2>1, Zenon
<1> QED BY <1>1, <1>2, <1>3

\* An iteration that only parses keeps the invariant.
LEMMA IterateInv ==
  ASSUME Inv, NEW p, p = ParseHeader(codec), Iterate(p), ret' \in {"InvalidOpcode",
         "MessageTooLong", "NoFrame"} \cup StreamErrors,
         UNCHANGED <<frames, stream, wire, ended, args, delivered>>
  PROVE  Inv'
<1>1. /\ SubSeq(codec.in_buffer, 1, p.used) \in Seq(Byte)
      /\ p.c.in_buffer \in Seq(Byte)
      /\ codec.in_buffer = SubSeq(codec.in_buffer, 1, p.used) \o p.c.in_buffer
      /\ p.c.in_buffer \in Seq(SentByte)
      /\ p.c \in Codec /\ p.c.header \in 0..Len(frames)
  BY Parsed
<1>2. /\ taken' = taken \o SubSeq(codec.in_buffer, 1, p.used) /\ codec' = p.c
      /\ frames' = frames /\ stream' = stream /\ wire' = wire /\ ended' = ended
      /\ delivered' = delivered /\ args' = args
  BY DEF Iterate
<1>3. InputIntact' /\ taken' \in Seq(Byte)
  <2>1. codec'.in_buffer = p.c.in_buffer
    BY <1>2
  <2> QED BY <1>1, <1>2, <2>1, BytesTaken
<1>4. TypeOK'
  BY <1>1, <1>2, <1>3 DEF Inv, TypeOK
<1>5. codec'.in_buffer \in Seq(SentByte') /\ wire' \in Seq(SentByte')
  BY <1>1, <1>2 DEF Inv, SentByte
<1> QED BY <1>3, <1>4, <1>5 DEF Inv

LEMMA ReadFrameInv ==
  ASSUME Inv, ReadFrame PROVE Inv'
<1> DEFINE p == ParseHeader(codec)
           f == frames[p.c.header]
           b == p.c.in_buffer
           x == SubSeq(codec.in_buffer, 1, p.used)
           payload == SubSeq(b, 1, f.len)
           rest == SubSeq(b, f.len + 1, Len(b))
<1>1. /\ x \in Seq(Byte) /\ b \in Seq(Byte) /\ codec.in_buffer = x \o b
      /\ b \in Seq(SentByte) /\ p.c \in Codec /\ p.c.header \in 0..Len(frames)
  BY Parsed
<1>2. /\ HasPayload(p.c)
      /\ codec' = [advance(p.c, f.len) EXCEPT !.header = 0]
      /\ taken' = (taken \o x) \o payload
      /\ \/ ret' = "UnmaskedFrameFromClient" /\ delivered' = delivered
         \/ /\ ret' = "Frame"
            /\ delivered' = Append(delivered, [frame |-> p.c.header, payload |-> payload])
      /\ frames' = frames /\ stream' = stream /\ wire' = wire /\ ended' = ended
      /\ args' = args
  BY DEF ReadFrame
<1> HIDE DEF p, x
<1>3. p.c.header \in 1..Len(frames) /\ f.len <= Len(b)
  <2>1. HasPayload(p.c)
    BY <1>2
  <2>2. p.c.header # 0 /\ f.len <= Len(b)
    BY <2>1, Zenon DEF HasPayload
  <2>3. p.c.header \in 0..Len(frames) /\ Len(frames) \in Nat
    BY <1>1, LenProperties DEF Inv, TypeOK
  <2> QED BY <2>2, <2>3
<1>4. f \in Frame
  BY <1>3 DEF Inv, TypeOK
<1>5. f.len \in 0..Len(b)
  BY <1>1, <1>3, <1>4 DEF Frame
<1>6. /\ payload \in Seq(Byte) /\ rest \in Seq(Byte) /\ payload \o rest = b
      /\ rest \in Seq(SentByte)
  BY <1>1, <1>5, Cut
<1>7. codec' \in Codec /\ codec'.header = 0 /\ codec'.in_buffer = rest
  <2>1. advance(p.c, f.len) \in Codec /\ advance(p.c, f.len).in_buffer = rest
    BY <1>1, <1>5, AdvanceType
  <2> QED BY <1>2, <2>1 DEF Codec
<1>8. InputIntact' /\ taken' \in Seq(Byte)
  <2> HIDE DEF b, f, payload, rest
  <2>1. taken \in Seq(Byte)
    BY DEF Inv, TypeOK
  <2>2. (taken \o x) \o payload = taken \o (x \o payload)
    BY <1>1, <1>6, <2>1, Associative
  <2>3. (x \o payload) \o rest = x \o (payload \o rest)
    BY <1>1, <1>6, Associative
  <2>4. x \o payload \in Seq(Byte)
    BY <1>1, <1>6, ConcatProperties
  <2>5. codec.in_buffer = (x \o payload) \o rest
    BY <1>1, <1>6, <2>3, Zenon
  <2>6. taken' = taken \o (x \o payload)
    BY <1>2, <2>2, Zenon
  <2> QED BY <1>2, <1>6, <1>7, <2>4, <2>5, <2>6, BytesTaken
<1>9. TypeOK'
  <2>1. delivered' \in Seq([frame : 1..Len(frames), payload : Seq(Byte)])
    <3> DEFINE D == [frame : 1..Len(frames), payload : Seq(Byte)]
               e == [frame |-> p.c.header, payload |-> payload]
    <3>1. delivered \in Seq(D)
      BY DEF Inv, TypeOK
    <3>2. e \in D
      BY <1>3, <1>6
    <3>3. delivered' = delivered \/ delivered' = Append(delivered, e)
      BY <1>2
    <3> HIDE DEF D, e
    <3>4. Append(delivered, e) \in Seq(D)
      BY <3>1, <3>2, AppendProperties
    <3>5. delivered' \in Seq(D)
      BY <3>1, <3>3, <3>4
    <3> QED BY <3>5 DEF D
  <2>2. ret' \in {"Frame", "UnmaskedFrameFromClient"} /\ Len(frames) \in Nat
    BY <1>2, LenProperties DEF Inv, TypeOK
  <2>3. /\ frames' = frames /\ stream' = stream /\ wire' = wire /\ ended' = ended
        /\ args' = args
    BY <1>2
  <2> QED BY <2>1, <2>2, <2>3, <1>7, <1>8 DEF Inv, TypeOK
<1>10. codec'.in_buffer \in Seq(SentByte') /\ wire' \in Seq(SentByte')
  <2>1. frames' = frames /\ wire' = wire
    BY <1>2
  <2> QED BY <2>1, <1>6, <1>7 DEF Inv, SentByte
<1> QED BY <1>8, <1>9, <1>10 DEF Inv

LEMMA ReadMoreInv ==
  ASSUME Inv, ReadMore PROVE Inv'
<1> DEFINE p == ParseHeader(codec)
           b == p.c.in_buffer
           x == SubSeq(codec.in_buffer, 1, p.used)
<1>1. /\ x \in Seq(Byte) /\ b \in Seq(Byte) /\ codec.in_buffer = x \o b
      /\ b \in Seq(SentByte) /\ p.c \in Codec /\ p.c.header \in 0..Len(frames)
  BY Parsed
<1>2. PICK n \in ReadSizes(p.c) :
        /\ codec' = read_in(p.c, SubSeq(wire, 1, n))
        /\ wire' = SubSeq(wire, n + 1, Len(wire))
  BY DEF ReadMore
<1>3. /\ taken' = taken \o x /\ ret' = "Loop"
      /\ frames' = frames /\ stream' = stream /\ ended' = ended /\ delivered' = delivered
      /\ args' = args
  BY DEF ReadMore
<1>4. /\ n \in 0..Len(wire) /\ n \in Nat /\ n <= p.c.spare
      /\ wire \in Seq(Byte) /\ wire \in Seq(SentByte)
  BY SizesAssumption DEF ReadSizes, in_buf_max_read, Inv, TypeOK
<1> DEFINE z == SubSeq(wire, 1, n)
<1>5. /\ z \in Seq(Byte) /\ wire' \in Seq(Byte) /\ wire = z \o wire' /\ Len(z) = n
      /\ z \in Seq(SentByte) /\ wire' \in Seq(SentByte)
  BY <1>2, <1>4, Cut
<1> HIDE DEF p, x, z
<1>6. b \o z \in Seq(Byte) /\ b \o z \in Seq(SentByte)
  BY <1>1, <1>5, ConcatProperties
<1>7. /\ codec' \in Codec /\ codec'.header = p.c.header /\ codec'.in_buffer = b \o z
  <2>1. codec' = read_in(p.c, z)
    BY <1>2 DEF z
  <2>2. p.c.spare - Len(z) \in Nat
    BY <1>1, <1>4, <1>5 DEF Codec
  <2> QED BY <2>1, <2>2, <1>1, <1>6 DEF read_in, Codec
<1>8. InputIntact' /\ taken' \in Seq(Byte)
  <2> HIDE DEF b
  <2> QED BY <1>1, <1>3, <1>5, <1>7, BytesMove
<1>9. TypeOK'
  BY <1>1, <1>3, <1>5, <1>7, <1>8 DEF Inv, TypeOK
<1>10. codec'.in_buffer \in Seq(SentByte') /\ wire' \in Seq(SentByte')
  BY <1>3, <1>5, <1>6, <1>7 DEF SentByte
<1> QED BY <1>8, <1>9, <1>10 DEF Inv

LEMMA PeerSendsInv ==
  ASSUME Inv, PeerSends PROVE Inv'
<1> DEFINE k == Len(frames) + 1
<1>1. PICK f \in FrameKinds :
        /\ frames' = Append(frames, f)
        /\ stream' = stream \o FrameBytes(f, k)
        /\ wire' = wire \o FrameBytes(f, k)
  BY DEF PeerSends
<1> DEFINE bytes == FrameBytes(f, k)
<1>2. /\ Len(frames) < MaxFrames /\ Len(frames) \in Nat /\ frames \in Seq(Frame)
      /\ stream \in Seq(Byte) /\ wire \in Seq(Byte) /\ taken \in Seq(Byte)
      /\ codec \in Codec /\ codec.in_buffer \in Seq(Byte) /\ codec.header \in 0..Len(frames)
  BY LenProperties DEF PeerSends, Inv, TypeOK, Codec
<1>3. /\ ended' = ended /\ codec' = codec /\ taken' = taken /\ delivered' = delivered /\ ret' = ret
      /\ args' = args
  BY DEF PeerSends
<1>4. f \in Frame /\ k \in Nat \ {0}
  BY <1>2, KindsAssumption
<1>5. bytes \in Seq((1..k) \X Nat) /\ bytes \in Seq(Byte)
  BY <1>4, FrameBytesType
<1>6. frames' \in Seq(Frame) /\ Len(frames') = k /\ Len(frames') <= MaxFrames + 1
  BY <1>1, <1>2, <1>4, AppendProperties, SizesAssumption
<1> HIDE DEF bytes
<1>7. SentByte \subseteq SentByte' /\ SentByte' = (1..k) \X Nat
  BY <1>2, <1>6 DEF SentByte
<1>8. codec'.in_buffer \in Seq(SentByte') /\ wire' \in Seq(SentByte') /\ wire' \in Seq(Byte)
  <2>1. codec.in_buffer \in Seq(SentByte) /\ wire \in Seq(SentByte)
    BY DEF Inv
  <2>2. codec.in_buffer \in Seq(SentByte') /\ wire \in Seq(SentByte')
    BY <2>1, <1>7, SeqMonotonic
  <2>3. wire \o bytes \in Seq(SentByte')
    BY <2>2, <1>5, <1>7, ConcatProperties
  <2>4. wire \o bytes \in Seq(Byte)
    BY <1>2, <1>5, ConcatProperties
  <2> QED BY <2>2, <2>3, <2>4, <1>1, <1>3 DEF bytes
<1>9. InputIntact' /\ stream' \in Seq(Byte)
  <2> DEFINE a == taken \o codec.in_buffer
  <2>1. a \in Seq(Byte)
    BY <1>2, ConcatProperties
  <2>2. a \o wire = stream
    BY DEF Inv, InputIntact
  <2> HIDE DEF a
  <2>3. (a \o wire) \o bytes = a \o (wire \o bytes)
    BY <2>1, <1>2, <1>5, Associative
  <2>4. stream' = a \o wire' /\ stream \o bytes \in Seq(Byte)
    <3>1. stream' = stream \o bytes /\ wire' = wire \o bytes
      BY <1>1 DEF bytes
    <3>2. stream \o bytes \in Seq(Byte)
      BY <1>2, <1>5, ConcatProperties
    <3> QED BY <3>1, <3>2, <2>2, <2>3, Zenon
  <2>5. stream' \in Seq(Byte)
    BY <2>4, <1>1 DEF bytes
  <2> QED BY <2>4, <2>5, <1>3 DEF InputIntact, a
<1>10. delivered' \in Seq([frame : 1..Len(frames'), payload : Seq(Byte)])
  <2> DEFINE D == [frame : 1..Len(frames), payload : Seq(Byte)]
             E == [frame : 1..Len(frames'), payload : Seq(Byte)]
  <2>1. D \subseteq E
    BY <1>2, <1>6
  <2>2. delivered \in Seq(D)
    BY DEF Inv, TypeOK
  <2> HIDE DEF D, E
  <2>3. delivered \in Seq(E)
    BY <2>1, <2>2, SeqMonotonic
  <2> QED BY <2>3, <1>3 DEF E
<1>11. codec'.header \in 0..Len(frames')
  BY <1>2, <1>3, <1>6
<1>12. TypeOK'
  BY <1>2, <1>3, <1>6, <1>8, <1>9, <1>10, <1>11 DEF Inv, TypeOK
<1> QED BY <1>8, <1>9, <1>12 DEF Inv

LEMMA PeerClosesInv ==
  ASSUME Inv, PeerCloses PROVE Inv'
<1>1. PICK lost \in 0..Len(wire) :
        /\ wire' = SubSeq(wire, 1, Len(wire) - lost)
        /\ stream' = SubSeq(stream, 1, Len(stream) - lost)
  BY DEF PeerCloses
<1>2. /\ ended' = TRUE /\ frames' = frames /\ codec' = codec /\ taken' = taken
      /\ delivered' = delivered /\ ret' = ret /\ args' = args
  BY DEF PeerCloses
<1>3. /\ wire \in Seq(Byte) /\ taken \in Seq(Byte) /\ codec.in_buffer \in Seq(Byte)
      /\ wire \in Seq(SentByte)
  BY DEF Inv, TypeOK, Codec
<1>4. Len(wire) - lost \in 0..Len(wire)
  BY <1>3, LenProperties
<1>5. wire' \in Seq(Byte) /\ wire' \in Seq(SentByte)
  BY <1>1, <1>3, <1>4, Cut
<1>6. InputIntact' /\ stream' \in Seq(Byte)
  <2> DEFINE a == taken \o codec.in_buffer
  <2>1. a \in Seq(Byte)
    BY <1>3, ConcatProperties
  <2>2. a \o wire = stream
    BY DEF Inv, InputIntact
  <2> HIDE DEF a
  <2>3. Short(Both(a, wire), lost) = Both(a, Short(wire, lost))
    BY <2>1, <1>3, CutEnd
  <2>4. a \o wire' \in Seq(Byte)
    BY <2>1, <1>5, ConcatProperties
  <2>5. stream' = a \o wire'
    <3>1. stream = Both(a, wire)
      BY <2>2 DEF Both
    <3>2. stream' = Short(stream, lost) /\ wire' = Short(wire, lost)
      BY <1>1 DEF Short
    <3>3. stream' = Both(a, wire')
      BY <3>1, <3>2, <2>3, Zenon
    <3> QED BY <3>3 DEF Both
  <2>6. stream' \in Seq(Byte)
    BY <2>4, <2>5
  <2> QED BY <2>5, <2>6, <1>2 DEF InputIntact, a
<1>7. TypeOK'
  BY <1>2, <1>5, <1>6 DEF Inv, TypeOK
<1>8. codec'.in_buffer \in Seq(SentByte') /\ wire' \in Seq(SentByte')
  BY <1>2, <1>5 DEF Inv, SentByte
<1> QED BY <1>6, <1>7, <1>8 DEF Inv

LEMMA NextInv == Inv /\ [Next]_vars => Inv'
<1> SUFFICES ASSUME Inv, [Next]_vars PROVE Inv'
  OBVIOUS
<1>1. CASE ReadRefused
  <2>1. /\ ParseHeader(codec).err \in {"InvalidOpcode", "MessageTooLong"}
        /\ Iterate(ParseHeader(codec)) /\ ret' = ParseHeader(codec).err
        /\ UNCHANGED <<frames, stream, wire, ended, args, delivered>>
    BY <1>1, Parsed DEF ReadRefused
  <2> QED BY <2>1, IterateInv
<1>2. CASE ReadFrame
  BY <1>2, ReadFrameInv
<1>3. CASE ReadMore
  BY <1>3, ReadMoreInv
<1>4. CASE ReadNone \/ ReadFails
  BY <1>4, IterateInv DEF ReadNone, ReadFails
<1>5. CASE PeerSends
  BY <1>5, PeerSendsInv
<1>6. CASE PeerCloses
  BY <1>6, PeerClosesInv
<1>7. CASE SetArguments \/ Stopped \/ UNCHANGED vars
  BY <1>7 DEF SetArguments, Stopped, vars, Inv, TypeOK, InputIntact, SentByte
<1> QED BY <1>1, <1>2, <1>3, <1>4, <1>5, <1>6, <1>7 DEF Next, Read

\* The codec, the stream and the history of FrameReader keep their types.
THEOREM TypeCorrect == Spec => []TypeOK
<1>1. Inv => TypeOK
  BY DEF Inv
<1> QED BY <1>1, InitInv, NextInv, PTL DEF Spec

\* read_frame and read_in lose, repeat and reorder no byte of the peer's.
THEOREM BytesKept == Spec => []InputIntact
<1>1. Inv => InputIntact
  BY DEF Inv
<1> QED BY <1>1, InitInv, NextInv, PTL DEF Spec

-----------------------------------------------------------------------------
(* The frames in the stream *)

Size(f) == f.hlen + f.len

\* The bytes of a frame stand one behind the other, and the next frame behind
\* them.  Stated for any two places, so that it needs no induction.
Laid(s, fs) ==
  \A i \in 1..Len(s) :
    /\ s[i][1] \in 1..Len(fs)
    /\ \A n \in Nat :
         i + n <= Len(s) =>
           /\ s[i][2] + n <= Size(fs[s[i][1]]) => s[i + n] = <<s[i][1], s[i][2] + n>>
           /\ s[i][2] + n = Size(fs[s[i][1]]) + 1 => s[i + n] = <<s[i][1] + 1, 1>>

\* The last frame is whole, until the connection ends.
LastWhole ==
  ~ended => /\ Len(stream) > 0
            /\ stream[Len(stream)] = <<Len(frames), Size(frames[Len(frames)])>>

\* The reader has taken t bytes and holds header h: it stands in front of a frame,
\* or in front of the payload of h.  What it has delivered came before.
At(t, h) ==
  /\ h = 0 /\ t < Len(stream) =>
       /\ stream[t + 1][2] = 1
       /\ \A i \in 1..Len(delivered) : delivered[i].frame < stream[t + 1][1]
  /\ h # 0 =>
       /\ t < Len(stream) =>
            stream[t + 1] = IF frames[h].len > 0 THEN <<h, frames[h].hlen + 1>>
                              ELSE <<h + 1, 1>>
       /\ t = Len(stream) /\ ~ended => h = Len(frames) /\ frames[h].len = 0
       /\ \A i \in 1..Len(delivered) : delivered[i].frame < h

Ordered ==
  Laid(stream, frames) /\ LastWhole /\ At(Len(taken), codec.header) /\ WholeFrames

\* Sequence b is the part of s behind its first t elements.
Behind(s, t, b) ==
  /\ t \in Nat /\ Len(b) \in Nat /\ t + Len(b) <= Len(s)
  /\ \A j \in 1..Len(b) : s[t + j] = b[j]

LEMMA InStream ==
  ASSUME NEW s \in Seq(Byte), NEW b \in Seq(Byte), NEW w \in Seq(Byte)
  PROVE  Behind(Whole(s, b, w), Len(s), b)
<1> DEFINE a == s \o b
           Joined(y, z) ==
             /\ y \o z \in Seq(Byte) /\ Len(y \o z) = Len(y) + Len(z)
             /\ \A i \in 1..(Len(y) + Len(z)) :
                  (y \o z)[i] = IF i <= Len(y) THEN y[i] ELSE z[i - Len(y)]
<1>0. \A y \in Seq(Byte), z \in Seq(Byte) : Joined(y, z)
  BY ConcatProperties
<1>1. /\ Len(s) \in Nat /\ Len(b) \in Nat /\ Len(w) \in Nat
      /\ a \in Seq(Byte) /\ Len(a) = Len(s) + Len(b)
      /\ \A i \in 1..(Len(s) + Len(b)) : a[i] = IF i <= Len(s) THEN s[i] ELSE b[i - Len(s)]
  BY <1>0, LenProperties
<1> HIDE DEF a
<1>2. Joined(a, w)
  BY <1>0, <1>1, Zenon
<1>3. ASSUME NEW j \in 1..Len(b) PROVE (a \o w)[Len(s) + j] = b[j]
  BY <1>1, <1>2
<1>4. Len(s) + Len(b) <= Len(a \o w)
  BY <1>1, <1>2
<1>5. Behind(a \o w, Len(s), b)
  BY <1>1, <1>3, <1>4 DEF Behind
<1> QED BY <1>5 DEF a, Whole

\* A header is taken: the reader moves to the payload.
LEMMA HeaderAt ==
  ASSUME Ordered, stream \in Seq(Byte), NEW m \in Nat, m < Len(stream), At(m, 0),
         NEW k \in 1..Len(frames), stream[m + 1][1] = k, frames[k] \in Frame,
         m + frames[k].hlen <= Len(stream)
  PROVE  At(m + frames[k].hlen, k)
<1> DEFINE h == frames[k].hlen
           l == frames[k].len
           z == Len(stream)
           t == m + h
           N == Len(frames)
<1>1. h \in Nat \ {0} /\ l \in Nat /\ z \in Nat /\ t <= z /\ t \in Nat /\ m + 1 <= z
  BY LenProperties DEF Frame
<1>2. /\ m + 1 \in 1..Len(stream) /\ stream[m + 1][2] = 1
      /\ \A i \in 1..Len(delivered) : delivered[i].frame < k
  BY <1>1 DEF At
<1>3. \A n \in Nat : m + 1 + n <= z =>
         /\ 1 + n <= h + l => stream[m + 1 + n] = <<k, 1 + n>>
         /\ 1 + n = h + l + 1 => stream[m + 1 + n] = <<k + 1, 1>>
  BY <1>2 DEF Ordered, Laid, Size
<1> HIDE DEF h, l, z, t
<1>4. ASSUME t < z PROVE stream[t + 1] = IF l > 0 THEN <<k, h + 1>> ELSE <<k + 1, 1>>
  <2>1. m + 1 + h <= z /\ t + 1 = m + 1 + h
    BY <1>1, <1>4 DEF t
  <2>2. /\ 1 + h <= h + l => stream[t + 1] = <<k, 1 + h>>
        /\ 1 + h = h + l + 1 => stream[t + 1] = <<k + 1, 1>>
    BY <1>1, <1>3, <2>1
  <2>3. 1 + h = h + 1 /\ (l > 0 => 1 + h <= h + l) /\ (~(l > 0) => 1 + h = h + l + 1)
    BY <1>1
  <2> QED BY <2>2, <2>3, Zenon
<1>5. ASSUME t = z, ~ended PROVE k = N /\ l = 0
  <2> DEFINE n == h - 1
             last == Size(frames[N])
  <2>1. n \in Nat /\ m + 1 + n = t /\ 1 + n = h /\ 1 + n <= h + l
    BY <1>1 DEF t
  <2> HIDE DEF n, last
  <2>2. stream[m + 1 + n] = <<k, 1 + n>>
    BY <1>1, <1>3, <2>1
  <2>3. stream[z] = <<N, last>>
    BY <1>5, Zenon DEF Ordered, LastWhole, z, last
  <2> HIDE DEF N
  <2>4. <<k, h>> = <<N, last>>
    BY <1>5, <2>1, <2>2, <2>3, Zenon
  <2>5. k = N /\ h = last
    BY <2>4
  <2>6. last = h + l
    BY <2>5 DEF last, Size, h, l
  <2> QED BY <1>1, <2>5, <2>6
<1>6. k # 0
  OBVIOUS
<1> QED BY <1>2, <1>4, <1>5, <1>6, Zenon DEF At, h, l, z, t

\* The first half of an iteration, as a move in the stream.
LEMMA ParsedAt ==
  ASSUME Inv, Ordered, NEW p, p = ParseHeader(codec),
         NEW t, t = Len(taken \o SubSeq(codec.in_buffer, 1, p.used))
  PROVE  /\ t \in Nat /\ At(t, p.c.header)
         /\ t + Len(p.c.in_buffer) <= Len(stream)
         /\ \A j \in 1..Len(p.c.in_buffer) : stream[t + j] = p.c.in_buffer[j]
<1> DEFINE x == SubSeq(codec.in_buffer, 1, p.used)
           u == taken \o x
           b == codec.in_buffer
           k == parse(codec)
           f == frames[k]
<1>1. /\ TypeOK /\ taken \in Seq(Byte) /\ b \in Seq(Byte) /\ wire \in Seq(Byte)
      /\ codec \in Codec /\ stream = (taken \o b) \o wire /\ b \in Seq(SentByte)
      /\ stream \in Seq(Byte) /\ frames \in Seq(Frame) /\ Len(frames) \in Nat
      /\ codec.header \in 0..Len(frames) /\ Len(stream) \in Nat
  BY LenProperties DEF Inv, TypeOK, Codec, InputIntact
<1>2. /\ x \in Seq(Byte) /\ p.c.in_buffer \in Seq(Byte) /\ b = x \o p.c.in_buffer
  BY Parsed
<1>3. /\ u \in Seq(Byte) /\ Len(u) = Len(taken) + Len(x) /\ Len(taken) \in Nat
      /\ Len(x) \in Nat
  BY <1>1, <1>2, ConcatProperties, LenProperties
<1>4. stream = (u \o p.c.in_buffer) \o wire
  <2>1. (taken \o x) \o p.c.in_buffer = taken \o (x \o p.c.in_buffer)
    <3>1. taken \in Seq(Byte) /\ x \in Seq(Byte) /\ p.c.in_buffer \in Seq(Byte)
      BY <1>1, <1>2
    <3> HIDE DEF x
    <3> QED BY <3>1, Associative
  <2> HIDE DEF x, b
  <2> QED BY <1>1, <1>2, <2>1, Zenon DEF u
<1>5. /\ t \in Nat /\ t + Len(p.c.in_buffer) <= Len(stream)
      /\ \A j \in 1..Len(p.c.in_buffer) : stream[t + j] = p.c.in_buffer[j]
  <2> HIDE DEF u
  <2>1. t = Len(u)
    BY DEF u
  <2>2. Behind(stream, t, p.c.in_buffer)
    <3>1. Behind(Whole(u, p.c.in_buffer, wire), Len(u), p.c.in_buffer)
      BY <1>1, <1>2, <1>3, InStream
    <3> QED BY <1>4, <2>1, <3>1, Zenon DEF Whole
  <2> QED BY <2>2 DEF Behind
<1>6. /\ Len(taken) + Len(b) <= Len(stream) /\ Len(b) \in Nat
      /\ \A j \in 1..Len(b) : stream[Len(taken) + j] = b[j]
  <2>1. Behind(Whole(taken, b, wire), Len(taken), b)
    BY <1>1, InStream
  <2>2. Behind(stream, Len(taken), b)
    BY <1>1, <2>1, Zenon DEF Whole
  <2> QED BY <2>2 DEF Behind
<1>7. t = Len(taken) + Len(x)
  BY <1>3
<1>8. p.used \in 0..Len(b) /\ Len(x) = p.used
  <2>1. p.used \in 0..Len(b)
    BY <1>1, ParseHeaderType
  <2> QED BY <1>1, <2>1, Cut
<1>9. CASE p.c.header = codec.header /\ p.used = 0
  BY <1>3, <1>5, <1>7, <1>8, <1>9 DEF Ordered
<1>10. CASE codec.header = 0 /\ k # 0 /\ p.c.header = k /\ p.used = f.hlen
  <2>1. /\ k \in 1..Len(frames) /\ f \in Frame /\ f.hlen \in 1..Len(b) /\ b[1][1] = k
    <3>1. /\ k \in 0..Len(frames)
          /\ k # 0 => f \in Frame /\ f.hlen <= Len(b)
      BY <1>1, ParseType
    <3>2. b[1][1] = k
      BY <1>10 DEF parse
    <3> QED BY <1>6, <1>10, <3>1, <3>2 DEF Frame
  <2>2. 1 \in 1..Len(b)
    BY <1>6, <2>1
  <2>3. stream[Len(taken) + 1] = b[1]
    BY <1>6, <2>2, Zenon
  <2>4. /\ Len(taken) < Len(stream) /\ Len(taken) + f.hlen <= Len(stream)
    <3> HIDE DEF b, f, k
    <3>1. Len(stream) \in Nat
      BY <1>1
    <3> QED BY <1>3, <1>6, <2>1, <3>1
  <2>5. At(Len(taken), 0)
    BY <1>10 DEF Ordered
  <2>6. At(Len(taken) + f.hlen, k)
    <3> HIDE DEF f, k, b
    <3>1. Len(taken) \in Nat /\ stream[Len(taken) + 1][1] = k /\ stream \in Seq(Byte)
      BY <1>1, <1>3, <2>1, <2>3, Zenon
    <3> QED BY <2>1, <2>4, <2>5, <3>1, HeaderAt DEF f
  <2>7. t = Len(taken) + f.hlen
    BY <1>7, <1>8, <1>10, Zenon
  <2> QED BY <1>5, <1>10, <2>6, <2>7, Zenon
<1>11. \/ p.c.header = codec.header /\ p.used = 0
       \/ codec.header = 0 /\ k # 0 /\ p.c.header = k /\ p.used = f.hlen
  <2>1. CASE codec.header # 0
    BY <2>1 DEF ParseHeader
  <2>2. CASE codec.header = 0 /\ k = 0
    BY <1>1, <2>2 DEF ParseHeader, Rewind, reserve, Codec
  <2>3. CASE codec.header = 0 /\ k # 0 /\ f.reserved
    BY <2>3 DEF ParseHeader, Undefined
  <2>4. CASE codec.header = 0 /\ k # 0 /\ ~f.reserved
    BY <1>1, <2>4 DEF ParseHeader, advance, reserve, Codec
  <2> QED BY <2>1, <2>2, <2>3, <2>4
<1> QED BY <1>5, <1>9, <1>10, <1>11

\* A payload is taken: the reader moves to the next frame.
LEMMA PayloadAt ==
  ASSUME Ordered, stream \in Seq(Byte), NEW m \in Nat, NEW k \in 1..Len(frames), At(m, k),
         frames[k] \in Frame, m + frames[k].len <= Len(stream)
  PROVE  /\ \A j \in 1..frames[k].len : stream[m + j] = <<k, frames[k].hlen + j>>
         /\ m + frames[k].len < Len(stream) => stream[m + frames[k].len + 1] = <<k + 1, 1>>
<1> DEFINE h == frames[k].hlen
           l == frames[k].len
           z == Len(stream)
<1>1. h \in Nat \ {0} /\ l \in Nat /\ z \in Nat /\ k \in Nat /\ k # 0
  BY LenProperties DEF Frame
<1>2. m < z => stream[m + 1] = IF l > 0 THEN <<k, h + 1>> ELSE <<k + 1, 1>>
  BY <1>1, Zenon DEF At
<1>3. ASSUME m < z, stream[m + 1][1] = k, stream[m + 1][2] = h + 1, NEW n \in Nat, m + 1 + n <= z
      PROVE  /\ h + 1 + n <= h + l => stream[m + 1 + n] = <<k, h + 1 + n>>
             /\ h + 1 + n = h + l + 1 => stream[m + 1 + n] = <<k + 1, 1>>
  <2>1. m + 1 \in 1..Len(stream)
    BY <1>1, <1>3
  <2> QED BY <1>3, <2>1 DEF Ordered, Laid, Size
<1>4. m + l <= z
  OBVIOUS
<1> HIDE DEF h, l, z
<1>5. l > 0 => m < z
  BY <1>1, <1>4
<1>6. l > 0 => stream[m + 1][1] = k /\ stream[m + 1][2] = h + 1
  BY <1>2, <1>5
<1>7. ASSUME NEW j \in 1..l PROVE stream[m + j] = <<k, h + j>>
  <2> DEFINE n == j - 1
  <2>1. /\ n \in Nat /\ m + 1 + n <= z /\ m + 1 + n = m + j /\ h + 1 + n = h + j
        /\ h + 1 + n <= h + l /\ l > 0
    BY <1>1, <1>4
  <2> HIDE DEF n
  <2>2. stream[m + 1 + n] = <<k, h + 1 + n>>
    BY <1>3, <1>5, <1>6, <2>1
  <2> QED BY <2>1, <2>2, Zenon
<1>8. ASSUME m + l < z PROVE stream[m + l + 1] = <<k + 1, 1>>
  <2>1. CASE l = 0
    <3>1. m < z /\ m + l + 1 = m + 1 /\ ~(l > 0)
      BY <1>1, <1>8, <2>1
    <3> QED BY <1>2, <3>1, Zenon
  <2>2. CASE l > 0
    <3>1. m + 1 + l <= z /\ m + 1 + l = m + l + 1 /\ h + 1 + l = h + l + 1
      BY <1>1, <1>8
    <3>2. stream[m + 1 + l] = <<k + 1, 1>>
      BY <1>1, <1>3, <1>5, <1>6, <2>2, <3>1
    <3> QED BY <3>1, <3>2, Zenon
  <2> QED BY <1>1, <2>1, <2>2
<1> QED BY <1>7, <1>8 DEF h, l, z

LEMMA StreamKept ==
  ASSUME Ordered, UNCHANGED <<frames, stream, ended>>
  PROVE  Laid(stream, frames)' /\ LastWhole'
BY DEF Ordered, Laid, LastWhole

\* An iteration that returns no frame.
LEMMA IterateOrdered ==
  ASSUME Inv, Ordered, NEW p, p = ParseHeader(codec),
         taken' = taken \o SubSeq(codec.in_buffer, 1, p.used), codec'.header = p.c.header,
         UNCHANGED <<frames, stream, ended, delivered>>
  PROVE  Ordered'
<1>1. At(Len(taken'), p.c.header)
  BY ParsedAt
<1>2. Laid(stream, frames)' /\ LastWhole' /\ WholeFrames'
  BY StreamKept DEF Ordered, WholeFrames
<1>3. At(Len(taken), codec.header)'
  BY <1>1, Zenon DEF At
<1> QED BY <1>2, <1>3 DEF Ordered

LEMMA PayloadType ==
  ASSUME NEW f \in Frame, NEW k \in Nat
  PROVE  /\ Payload(f, k) \in Seq(Byte) /\ Len(Payload(f, k)) = f.len
         /\ \A j \in 1..f.len : Payload(f, k)[j] = <<k, f.hlen + j>>
<1>1. f.len \in Nat /\ f.hlen \in Nat
  BY DEF Frame
<1>2. \A i \in 1..f.len : <<k, f.hlen + i>> \in Byte
  BY <1>1 DEF Byte
<1>3. Payload(f, k) \in Seq(Byte) /\ Len(Payload(f, k)) = f.len
  BY <1>1, <1>2 DEF Payload
<1>4. \A j \in 1..f.len : Payload(f, k)[j] = <<k, f.hlen + j>>
  BY Zenon DEF Payload
<1> QED BY <1>3, <1>4

\* The payload that is taken is the payload of the header.
LEMMA PayloadTaken ==
  ASSUME NEW f \in Frame, NEW k \in Nat, NEW b \in Seq(Byte), f.len <= Len(b),
         \A j \in 1..f.len : b[j] = <<k, f.hlen + j>>
  PROVE  SubSeq(b, 1, f.len) = Payload(f, k)
<1>1. f.len \in Nat /\ f.hlen \in Nat /\ Len(b) \in Nat
  BY LenProperties DEF Frame
<1>2. Payload(f, k) \in Seq(Byte) /\ Len(Payload(f, k)) = f.len
      /\ \A j \in 1..f.len : Payload(f, k)[j] = <<k, f.hlen + j>>
  BY PayloadType
<1>3. /\ SubSeq(b, 1, f.len) \in Seq(Byte) /\ Len(SubSeq(b, 1, f.len)) = f.len
      /\ \A j \in 1..f.len : SubSeq(b, 1, f.len)[j] = b[j]
  <2>1. \A i \in 1..f.len : b[i] \in Byte
    BY <1>1, ElementOfSeq
  <2>2. /\ SubSeq(b, 1, f.len) \in Seq(Byte)
        /\ Len(SubSeq(b, 1, f.len)) = IF 1 <= f.len THEN f.len - 1 + 1 ELSE 0
        /\ \A i \in 1..(f.len - 1 + 1) : SubSeq(b, 1, f.len)[i] = b[1 + i - 1]
    BY <1>1, <2>1, SubSeqProperties
  <2>3. Len(SubSeq(b, 1, f.len)) = f.len
    BY <1>1, <2>2
  <2>4. ASSUME NEW j \in 1..f.len PROVE SubSeq(b, 1, f.len)[j] = b[j]
    <3>1. j \in 1..(f.len - 1 + 1) /\ 1 + j - 1 = j
      BY <1>1
    <3> QED BY <2>2, <3>1, Zenon
  <2> QED BY <2>2, <2>3, <2>4
<1> DEFINE x == SubSeq(b, 1, f.len)
           y == Payload(f, k)
<1>4. /\ x \in Seq(Byte) /\ y \in Seq(Byte) /\ Len(x) = Len(y)
      /\ \A i \in 1..Len(x) : x[i] = y[i]
  BY <1>2, <1>3, Zenon
<1> HIDE DEF x, y
<1>5. x = y
  BY <1>4, SeqEqual
<1> QED BY <1>5 DEF x, y

\* The deliveries in s are of frames before k, whole and in order.
Deliveries(s, fs, k) ==
  /\ \A i \in 1..Len(s) : s[i].frame < k /\ s[i].payload = Payload(fs[s[i].frame], s[i].frame)
  /\ \A i, j \in 1..Len(s) : i < j => s[i].frame < s[j].frame

LEMMA DeliverOne ==
  ASSUME NEW N \in Nat, NEW fs, NEW s \in Seq([frame : 1..N, payload : Seq(Byte)]),
         NEW k \in 1..N, Deliveries(s, fs, k), NEW v \in Seq(Byte), v = Payload(fs[k], k)
  PROVE  /\ Deliveries(s, fs, k + 1)
         /\ Deliveries(Append(s, [frame |-> k, payload |-> v]), fs, k + 1)
<1> DEFINE D == [frame : 1..N, payload : Seq(Byte)]
           e == [frame |-> k, payload |-> v]
           w == Append(s, e)
           n == Len(s)
<1>1. e \in D /\ e.frame = k /\ e.payload = Payload(fs[k], k)
  OBVIOUS
<1> HIDE DEF e
<1>2. ASSUME NEW i \in 1..n PROVE s[i].frame \in Nat
  <2> DEFINE g == s[i]
  <2>1. g \in D
    BY ElementOfSeq
  <2> HIDE DEF g
  <2>2. g.frame \in 1..N
    BY <2>1
  <2> QED BY <2>2 DEF g
<1>3. \A g \in Nat : g < k => g < k + 1
  OBVIOUS
<1> HIDE DEF D
<1>4. /\ n \in Nat /\ Len(w) = n + 1 /\ w[n + 1] = e
      /\ \A i \in 1..n : w[i] = s[i]
  BY <1>1, AppendProperties, LenProperties DEF D
<1> HIDE DEF w, n
<1>5. /\ \A i \in 1..n : s[i].frame < k /\ s[i].payload = Payload(fs[s[i].frame], s[i].frame)
      /\ \A i, j \in 1..n : i < j => s[i].frame < s[j].frame
  BY DEF Deliveries, n
<1>6. \A i \in 1..n : s[i].frame < k + 1
  BY <1>2, <1>3, <1>5, Zenon
<1>7. Deliveries(s, fs, k + 1)
  BY <1>5, <1>6 DEF Deliveries, n
<1>8. ASSUME NEW i \in 1..(n + 1)
      PROVE  w[i].frame < k + 1 /\ w[i].payload = Payload(fs[w[i].frame], w[i].frame)
  <2>1. i \in 1..n \/ i = n + 1
    BY <1>4
  <2>2. CASE i \in 1..n
    BY <1>4, <1>5, <1>6, <2>2, Zenon
  <2>3. CASE i = n + 1
    <3>1. k < k + 1
      OBVIOUS
    <3> QED BY <1>1, <1>4, <2>3, <3>1, Zenon
  <2> QED BY <2>1, <2>2, <2>3
<1>9. ASSUME NEW i \in 1..(n + 1), NEW j \in 1..(n + 1), i < j PROVE w[i].frame < w[j].frame
  <2>1. i \in 1..n /\ (j \in 1..n \/ j = n + 1)
    BY <1>4, <1>9
  <2>2. CASE j \in 1..n
    BY <1>4, <1>5, <1>9, <2>1, <2>2, Zenon
  <2>3. CASE j = n + 1
    BY <1>1, <1>4, <1>5, <2>1, <2>3, Zenon
  <2> QED BY <2>1, <2>2, <2>3
<1>10. Deliveries(w, fs, k + 1)
  BY <1>4, <1>8, <1>9 DEF Deliveries
<1> QED BY <1>7, <1>10 DEF w, e

\* Behind a header the buffer begins with the payload, and the next frame follows.
LEMMA BufferHolds ==
  ASSUME Ordered, stream \in Seq(Byte), NEW k \in 1..Len(frames), frames[k] \in Frame,
         NEW t \in Nat, At(t, k), NEW b \in Seq(Byte), Behind(stream, t, b),
         frames[k].len <= Len(b)
  PROVE  /\ SubSeq(b, 1, frames[k].len) = Payload(frames[k], k)
         /\ t + frames[k].len < Len(stream) => stream[t + frames[k].len + 1] = <<k + 1, 1>>
<1> DEFINE f == frames[k]
           l == f.len
           m == Len(b)
           z == Len(stream)
<1>1. /\ l \in Nat /\ m \in Nat /\ z \in Nat /\ l <= m /\ t + m <= z /\ k \in Nat
      /\ \A j \in 1..m : stream[t + j] = b[j]
  BY LenProperties DEF Frame, Behind
<1> HIDE DEF l, m, z
<1>2. t + l <= z /\ \A j \in 1..l : j \in 1..m
  BY <1>1
<1>3. /\ \A j \in 1..l : stream[t + j] = <<k, f.hlen + j>>
      /\ t + l < z => stream[t + l + 1] = <<k + 1, 1>>
  BY <1>2, PayloadAt DEF l, z
<1>4. \A j \in 1..l : b[j] = <<k, f.hlen + j>>
  BY <1>1, <1>2, <1>3, Zenon
<1>5. SubSeq(b, 1, f.len) = Payload(f, k)
  <2>1. f \in Frame /\ k \in Nat /\ f.len <= Len(b) /\ \A j \in 1..f.len : b[j] = <<k, f.hlen + j>>
    BY <1>1, <1>4 DEF l
  <2> HIDE DEF f
  <2> QED BY <2>1, PayloadTaken
<1> QED BY <1>3, <1>5 DEF l, z

\* A frame is taken; k is its number.
LEMMA FrameTaken ==
  ASSUME Ordered, NEW k, NEW t,
         t < Len(stream) => stream[t + 1][1] = k + 1 /\ stream[t + 1][2] = 1,
         Deliveries(delivered', frames, k + 1), DOMAIN delivered' = 1..Len(delivered'),
         Len(taken') = t, codec'.header = 0, UNCHANGED <<frames, stream, ended>>
  PROVE  Ordered'
<1>1. frames' = frames /\ stream' = stream /\ ended' = ended
  OBVIOUS
<1>2. WholeFrames'
  BY <1>1, Zenon DEF WholeFrames, Deliveries
<1>3. At(t, 0)'
  <2>1. \A i \in 1..Len(delivered') : delivered'[i].frame < k + 1
    BY Zenon DEF Deliveries
  <2>2. t < Len(stream) =>
          \A i \in 1..Len(delivered') : delivered'[i].frame < stream[t + 1][1]
    BY <2>1, Zenon
  <2> QED BY <1>1, <2>2, Zenon DEF At
<1>4. At(Len(taken), codec.header)'
  BY <1>3, Zenon DEF At
<1>5. Laid(stream, frames)' /\ LastWhole'
  BY StreamKept
<1> QED BY <1>2, <1>4, <1>5 DEF Ordered

LEMMA ReadFrameOrdered ==
  ASSUME Inv, Ordered, ReadFrame PROVE Ordered'
<1> DEFINE p == ParseHeader(codec)
           k == p.c.header
           f == frames[k]
           b == p.c.in_buffer
           x == SubSeq(codec.in_buffer, 1, p.used)
           u == taken \o x
           payload == SubSeq(b, 1, f.len)
<1>1. /\ b \in Seq(Byte) /\ p.c \in Codec /\ k \in 0..Len(frames) /\ x \in Seq(Byte)
  BY Parsed
<1>2. /\ Len(u) \in Nat /\ At(Len(u), k) /\ Behind(stream, Len(u), b)
  <2>1. Len(b) \in Nat
    BY <1>1, LenProperties
  <2>2. PICK q : q = ParseHeader(codec)
    OBVIOUS
  <2>3. PICK t : t = Len(taken \o SubSeq(codec.in_buffer, 1, q.used))
    OBVIOUS
  <2>4. /\ t \in Nat /\ At(t, q.c.header)
        /\ t + Len(q.c.in_buffer) <= Len(stream)
        /\ \A j \in 1..Len(q.c.in_buffer) : stream[t + j] = q.c.in_buffer[j]
    BY <2>2, <2>3, ParsedAt
  <2>5. t = Len(u) /\ q = p
    BY <2>2, <2>3
  <2> HIDE DEF p, u
  <2> QED BY <2>1, <2>4, <2>5, Zenon DEF Behind
<1>3. /\ HasPayload(p.c)
      /\ codec' = [advance(p.c, f.len) EXCEPT !.header = 0]
      /\ taken' = (taken \o x) \o payload
      /\ \/ ret' = "UnmaskedFrameFromClient" /\ delivered' = delivered
         \/ /\ ret' = "Frame"
            /\ delivered' = Append(delivered, [frame |-> p.c.header, payload |-> payload])
      /\ frames' = frames /\ stream' = stream /\ wire' = wire /\ ended' = ended
  BY DEF ReadFrame
<1> HIDE DEF p, x
<1>4. k # 0 /\ f.len <= Len(b)
  BY <1>3, Zenon DEF HasPayload
<1>5. /\ stream \in Seq(Byte) /\ taken \in Seq(Byte) /\ frames \in Seq(Frame)
      /\ delivered \in Seq([frame : 1..Len(frames), payload : Seq(Byte)])
      /\ Len(frames) \in Nat
  BY LenProperties DEF Inv, TypeOK
<1>6. k \in 1..Len(frames) /\ f \in Frame
  <2> HIDE DEF k
  <2>1. k \in 1..Len(frames)
    BY <1>1, <1>4, <1>5
  <2> QED BY <1>5, <2>1, ElementOfSeq
<1>7. f.len \in 0..Len(b)
  BY <1>1, <1>4, <1>6 DEF Frame
<1>8. payload \in Seq(Byte) /\ Len(payload) = f.len
  <2> HIDE DEF f, b
  <2> QED BY <1>1, <1>7, Cut
<1>9. codec'.header = 0
  <2> HIDE DEF f
  <2> QED BY <1>1, <1>3 DEF advance, Codec
<1>10. /\ payload = Payload(f, k)
       /\ Len(u) + f.len < Len(stream) => stream[Len(u) + f.len + 1] = <<k + 1, 1>>
  <2> DEFINE t == Len(u)
  <2>1. t \in Nat /\ At(t, k) /\ Behind(stream, t, b)
    BY <1>2
  <2> HIDE DEF t, k, b
  <2>2. /\ SubSeq(b, 1, frames[k].len) = Payload(frames[k], k)
        /\ t + frames[k].len < Len(stream) => stream[t + frames[k].len + 1] = <<k + 1, 1>>
    BY <1>1, <1>4, <1>5, <1>6, <2>1, BufferHolds
  <2> QED BY <2>2 DEF t
<1>11. Len(taken') = Len(u) + f.len
  <2> HIDE DEF payload, f
  <2>1. u \in Seq(Byte) /\ taken' = u \o payload
    BY <1>1, <1>3, <1>5, ConcatProperties
  <2> HIDE DEF u
  <2>2. Len(u \o payload) = Len(u) + Len(payload)
    BY <1>8, <2>1, ConcatProperties
  <2> QED BY <1>8, <2>1, <2>2, Zenon
<1>12. Deliveries(delivered, frames, k)
  <2>1. DOMAIN delivered = 1..Len(delivered)
    BY <1>5, LenProperties
  <2>2. \A i \in 1..Len(delivered) : delivered[i].frame < k
    BY <1>2, <1>4, Zenon DEF At
  <2> QED BY <2>1, <2>2, Zenon DEF Ordered, WholeFrames, Deliveries
<1>13. Deliveries(delivered', frames, k + 1)
  <2>1. payload \in Seq(Byte) /\ payload = Payload(frames[k], k)
    BY <1>8, <1>10, Zenon
  <2> HIDE DEF payload
  <2>2. delivered' = delivered \/ delivered' = Append(delivered, [frame |-> k, payload |-> payload])
    BY <1>3, Zenon
  <2> HIDE DEF k
  <2>3. /\ Deliveries(delivered, frames, k + 1)
        /\ Deliveries(Append(delivered, [frame |-> k, payload |-> payload]), frames, k + 1)
    BY <1>5, <1>6, <1>12, <2>1, DeliverOne
  <2> QED BY <2>2, <2>3, Zenon
<1>14. DOMAIN delivered' = 1..Len(delivered')
  <2>1. Inv'
    BY ReadFrameInv
  <2> QED BY <2>1, LenProperties DEF Inv, TypeOK
<1> DEFINE t == Len(u) + f.len
<1>15. t < Len(stream) => stream[t + 1][1] = k + 1 /\ stream[t + 1][2] = 1
  BY <1>10
<1>16. Len(taken') = t /\ UNCHANGED <<frames, stream, ended>>
  BY <1>3, <1>11
<1> HIDE DEF t, k
<1> QED BY <1>9, <1>13, <1>14, <1>15, <1>16, FrameTaken

LEMMA SizeType == \A f \in Frame : Size(f) \in Nat /\ Size(f) > 0
BY DEF Frame, Size

\* Stream w is s with frame f behind it, and gs are its frames.
Grown(s, fs, f, w, gs) ==
  /\ Len(w) = Len(s) + Size(f) /\ Len(gs) = Len(fs) + 1
  /\ gs[Len(fs) + 1] = f /\ \A i \in 1..Len(fs) : gs[i] = fs[i]
  /\ \A i \in 1..Len(s) : w[i] = s[i]
  /\ \A j \in 1..Size(f) : w[Len(s) + j] = <<Len(fs) + 1, j>>

\* The peer sends frame f.
LEMMA LaidMore ==
  ASSUME NEW s \in Seq(Byte), NEW fs \in Seq(Frame), Laid(s, fs), NEW f \in Frame,
         Len(s) > 0, s[Len(s)] = <<Len(fs), Size(fs[Len(fs)])>>,
         NEW w, NEW gs, Grown(s, fs, f, w, gs)
  PROVE  Laid(w, gs)
<1> DEFINE z == Len(s)
           N == Len(fs)
           Z(k) == Size(fs[k])
           y == Size(f)
<1>1. z \in Nat /\ N \in Nat /\ y \in Nat
  BY LenProperties, SizeType
<1>2. \A i \in 1..z : s[i] \in Nat \X Nat
  BY ElementOfSeq DEF Byte
<1>3. \A k \in 1..N : Z(k) \in Nat /\ Size(gs[k]) = Z(k)
  <2> SUFFICES ASSUME NEW k \in 1..N PROVE Z(k) \in Nat /\ Size(gs[k]) = Z(k)
    OBVIOUS
  <2>1. fs[k] \in Frame /\ gs[k] = fs[k]
    BY ElementOfSeq DEF Grown
  <2> QED BY <2>1, SizeType, Zenon
<1>4. ASSUME NEW i \in 1..z
      PROVE  /\ s[i][1] \in 1..N /\ s[i][2] \in Nat /\ w[i] = s[i]
             /\ \A n \in Nat : i + n <= z =>
                  /\ s[i][2] + n <= Z(s[i][1]) => s[i + n] = <<s[i][1], s[i][2] + n>>
                  /\ s[i][2] + n = Z(s[i][1]) + 1 => s[i + n] = <<s[i][1] + 1, 1>>
  BY <1>2 DEF Laid, Grown
<1>5. /\ s[z] = <<N, Z(N)>> /\ z > 0 /\ Len(w) = z + y /\ Len(gs) = N + 1 /\ Size(gs[N + 1]) = y
      /\ \A i \in 1..z : w[i] = s[i]
      /\ \A j \in 1..y : w[z + j] = <<N + 1, j>>
  BY DEF Grown
<1> HIDE DEF z, N, Z, y
<1> DEFINE Runs(i) ==
             /\ w[i][1] \in 1..(N + 1)
             /\ \A n \in Nat : i + n <= z + y =>
                  /\ w[i][2] + n <= Size(gs[w[i][1]]) => w[i + n] = <<w[i][1], w[i][2] + n>>
                  /\ w[i][2] + n = Size(gs[w[i][1]]) + 1 => w[i + n] = <<w[i][1] + 1, 1>>
<1>6. ASSUME NEW i \in 1..z PROVE Runs(i)
  <2> DEFINE k == s[i][1]
             a == s[i][2]
  <2>1. k \in 1..N /\ a \in Nat /\ w[i][1] = k /\ w[i][2] = a /\ Size(gs[k]) = Z(k) /\ Z(k) \in Nat
    BY <1>3, <1>4
  <2>2. \A n \in Nat : i + n <= z =>
          /\ a + n <= Z(k) => s[i + n] = <<k, a + n>>
          /\ a + n = Z(k) + 1 => s[i + n] = <<k + 1, 1>>
    BY <1>4
  <2> HIDE DEF k, a
  <2>3. ASSUME NEW n \in Nat, i + n <= z + y
        PROVE  /\ a + n <= Z(k) => w[i + n] = <<k, a + n>>
               /\ a + n = Z(k) + 1 => w[i + n] = <<k + 1, 1>>
    <3>1. CASE i + n <= z
      <4>1. i + n \in 1..z
        BY <1>1, <3>1
      <4> QED BY <1>5, <2>2, <3>1, <4>1
    <3>2. CASE i + n > z
      <4> DEFINE n0 == z - i
                 m == i + n - z
      <4>1. /\ n0 \in Nat /\ i + n0 <= z /\ i + n0 = z /\ m \in 1..y /\ z + m = i + n
            /\ a + n0 + m = a + n /\ m > 0 /\ a + n0 \in Nat
        BY <1>1, <2>1, <2>3, <3>2
      <4> HIDE DEF n0, m
      <4>2. a + n0 <= Z(k) => <<k, a + n0>> = <<N, Z(N)>>
        BY <1>5, <2>2, <4>1
      <4>3. a + n0 <= Z(k) => k = N /\ a + n0 = Z(k)
        BY <4>2
      <4>4. ~(a + n <= Z(k))
        BY <1>1, <2>1, <4>1, <4>3
      <4>5. ASSUME a + n = Z(k) + 1 PROVE w[i + n] = <<k + 1, 1>>
        <5>1. k = N /\ m = 1
          BY <1>1, <2>1, <4>1, <4>3, <4>5
        <5> QED BY <1>5, <4>1, <5>1
      <4> QED BY <4>4, <4>5
    <3> QED BY <1>1, <3>1, <3>2
  <2>4. k \in 1..(N + 1)
    BY <1>1, <2>1
  <2> QED BY <2>1, <2>3, <2>4
<1>7. ASSUME NEW i \in (z + 1)..(z + y) PROVE Runs(i)
  <2> DEFINE j == i - z
  <2>1. j \in 1..y /\ z + j = i /\ j \in Nat
    BY <1>1
  <2> HIDE DEF j
  <2>2. w[i] = <<N + 1, j>> /\ N + 1 \in 1..(N + 1)
    <3>1. w[z + j] = <<N + 1, j>>
      BY <1>5, <2>1, Zenon
    <3>2. N + 1 \in 1..(N + 1)
      BY <1>1
    <3> QED BY <2>1, <3>1, <3>2, Zenon
  <2>3. w[i][1] = N + 1 /\ w[i][2] = j
    BY <2>2
  <2>4. ASSUME NEW n \in Nat, i + n <= z + y
        PROVE  w[i + n] = <<N + 1, j + n>> /\ ~(j + n = y + 1)
    <3>1. j + n \in 1..y /\ z + (j + n) = i + n
      BY <1>1, <2>1, <2>4
    <3>2. w[z + (j + n)] = <<N + 1, j + n>>
      BY <1>5, <3>1, Zenon
    <3>3. ~(j + n = y + 1)
      BY <1>1, <3>1
    <3> QED BY <3>1, <3>2, <3>3, Zenon
  <2> QED BY <1>5, <2>2, <2>3, <2>4
<1>8. \A i \in 1..(z + y) : Runs(i)
  <2>1. \A i \in 1..(z + y) : i \in 1..z \/ i \in (z + 1)..(z + y)
    BY <1>1
  <2> HIDE DEF Runs
  <2> QED BY <1>6, <1>7, <2>1
<1> QED BY <1>5, <1>8 DEF Laid

LEMMA BytesOf ==
  ASSUME NEW f \in Frame, NEW k \in Nat
  PROVE  /\ FrameBytes(f, k) \in Seq(Byte) /\ Len(FrameBytes(f, k)) = Size(f)
         /\ \A j \in 1..Size(f) : FrameBytes(f, k)[j] = <<k, j>>
<1>1. f.len \in Nat /\ f.hlen \in Nat /\ Size(f) \in Nat /\ Size(f) = f.hlen + f.len
  BY DEF Frame, Size
<1>2. \A i \in 1..Size(f) : <<k, i>> \in Byte
  BY <1>1 DEF Byte
<1>3. FrameBytes(f, k) \in Seq(Byte) /\ Len(FrameBytes(f, k)) = Size(f)
  BY <1>1, <1>2 DEF FrameBytes
<1>4. \A j \in 1..Size(f) : FrameBytes(f, k)[j] = <<k, j>>
  BY <1>1, Zenon DEF FrameBytes
<1> QED BY <1>3, <1>4

LEMMA FrameGrows ==
  ASSUME NEW s \in Seq(Byte), NEW fs \in Seq(Frame), NEW f \in Frame
  PROVE  Grown(s, fs, f, s \o FrameBytes(f, Len(fs) + 1), Append(fs, f))
<1> DEFINE n == Len(fs)
           b == FrameBytes(f, n + 1)
           y == Size(f)
           z == Len(s)
<1>1. n \in Nat /\ z \in Nat /\ n + 1 \in Nat /\ y \in Nat
  BY LenProperties, SizeType
<1>2. b \in Seq(Byte) /\ Len(b) = y /\ \A j \in 1..y : b[j] = <<n + 1, j>>
  <2> HIDE DEF n
  <2> QED BY <1>1, BytesOf
<1>3. /\ Len(Append(fs, f)) = n + 1 /\ Append(fs, f)[n + 1] = f
      /\ \A i \in 1..n : Append(fs, f)[i] = fs[i]
  BY AppendProperties
<1> HIDE DEF b
<1>4. /\ Len(s \o b) = z + y
      /\ \A i \in 1..(z + y) : (s \o b)[i] = IF i <= z THEN s[i] ELSE b[i - z]
  BY <1>2, ConcatProperties
<1> DEFINE w == s \o b
<1> HIDE DEF w, y, z, n
<1>5. ASSUME NEW i \in 1..z PROVE w[i] = s[i]
  <2>1. i \in 1..(z + y) /\ i <= z
    BY <1>1
  <2> QED BY <1>4, <2>1, Zenon DEF w
<1>6. ASSUME NEW j \in 1..y PROVE w[z + j] = <<n + 1, j>>
  <2>1. z + j \in 1..(z + y) /\ ~(z + j <= z) /\ (z + j) - z = j
    BY <1>1
  <2> QED BY <1>2, <1>4, <2>1, Zenon DEF w
<1>7. Len(w) = z + y
  BY <1>4 DEF w
<1>8. Grown(s, fs, f, w, Append(fs, f))
  BY <1>3, <1>5, <1>6, <1>7, Zenon DEF Grown, n, y, z
<1> QED BY <1>8 DEF w, b, n

\* How far the reader is in the stream.
LEMMA TakenInStream == Inv => Len(taken) \in Nat /\ Len(taken) <= Len(stream)
<1> SUFFICES ASSUME Inv PROVE Len(taken) \in Nat /\ Len(taken) <= Len(stream)
  OBVIOUS
<1> DEFINE b == codec.in_buffer
<1>1. /\ taken \in Seq(Byte) /\ b \in Seq(Byte) /\ wire \in Seq(Byte)
      /\ stream = Whole(taken, b, wire) /\ stream \in Seq(Byte)
  BY DEF Inv, TypeOK, Codec, InputIntact, Whole
<1>2. Behind(stream, Len(taken), b)
  BY <1>1, InStream
<1>3. Len(stream) \in Nat
  BY <1>1, LenProperties
<1> QED BY <1>2, <1>3 DEF Behind

\* The place of the reader, when a frame comes.
LEMMA AtMore ==
  ASSUME NEW t \in Nat, NEW h, NEW f \in Frame, At(t, h), ~ended, t <= Len(stream),
         Len(stream) \in Nat, Len(frames) \in Nat, h \in 0..Len(frames),
         Grown(stream, frames, f, stream', frames'), delivered' = delivered,
         \A i \in 1..Len(delivered) : delivered[i].frame \in 1..Len(frames)
  PROVE  At(t, h)'
<1> DEFINE z == Len(stream)
           N == Len(frames)
           y == Size(f)
           Before(k) == \A i \in 1..Len(delivered) : delivered[i].frame < k
           w == stream'
           gs == frames'
<1>1. /\ z \in Nat /\ N \in Nat /\ y \in Nat /\ y > 0 /\ t <= z /\ h \in 0..N
  BY SizeType
<1>2. /\ Len(w) = z + y /\ \A i \in 1..N : gs[i] = frames[i]
      /\ \A i \in 1..z : w[i] = stream[i]
      /\ \A j \in 1..y : w[z + j] = <<N + 1, j>>
  BY DEF Grown
<1>3. Before(N + 1)
  BY <1>1
<1>4. /\ h = 0 /\ t < z => stream[t + 1][2] = 1 /\ Before(stream[t + 1][1])
      /\ h # 0 =>
           /\ t < z => stream[t + 1] = IF frames[h].len > 0 THEN <<h, frames[h].hlen + 1>>
                                         ELSE <<h + 1, 1>>
           /\ t = z => h = N /\ frames[h].len = 0
           /\ Before(h)
  BY DEF At
<1> HIDE DEF z, N, y, Before, w, gs
<1>5. CASE t < z
  <2>1. t + 1 \in 1..z /\ t < z + y /\ (h # 0 => h \in 1..N)
    BY <1>1, <1>5
  <2>2. w[t + 1] = stream[t + 1] /\ (h # 0 => gs[h] = frames[h])
    BY <1>2, <2>1, Zenon
  <2>3. t # z + y
    BY <1>1, <1>5
  <2> QED BY <1>2, <1>4, <1>5, <2>1, <2>2, <2>3, Zenon DEF At, Before, w, gs
<1>6. CASE t = z
  <2>1. 1 \in 1..y /\ t + 1 = z + 1 /\ t # z + y /\ (h # 0 => h \in 1..N)
    BY <1>1, <1>6
  <2>2. w[t + 1] = <<N + 1, 1>> /\ t # Len(w)
    BY <1>2, <2>1, Zenon
  <2>3. w[t + 1][1] = N + 1 /\ w[t + 1][2] = 1
    BY <2>2
  <2>4. CASE h = 0
    <3>1. Before(w[t + 1][1])
      BY <1>3, <2>3, Zenon
    <3> QED BY <2>3, <2>4, <3>1, Zenon DEF At, Before, w
  <2>5. CASE h # 0
    <3>1. h = N /\ frames[h].len = 0 /\ Before(h) /\ gs[h] = frames[h]
      BY <1>2, <1>4, <1>6, <2>1, <2>5, Zenon
    <3>2. ~(gs[h].len > 0)
      BY <3>1
    <3>3. w[t + 1] = <<h + 1, 1>>
      BY <2>2, <3>1, Zenon
    <3> QED BY <2>2, <2>5, <3>1, <3>2, <3>3, Zenon DEF At, Before, w, gs
  <2> QED BY <2>4, <2>5
<1> QED BY <1>1, <1>5, <1>6

LEMMA PeerSendsOrdered ==
  ASSUME Inv, Ordered, PeerSends PROVE Ordered'
<1> DEFINE N == Len(frames)
           D == [frame : 1..Len(frames), payload : Seq(Byte)]
<1>1. PICK f \in FrameKinds :
        /\ frames' = Append(frames, f)
        /\ stream' = stream \o FrameBytes(f, N + 1)
  BY DEF PeerSends
<1>2. /\ ~ended /\ ended' = ended /\ codec' = codec /\ taken' = taken
      /\ delivered' = delivered
  BY DEF PeerSends
<1>3. /\ f \in Frame /\ stream \in Seq(Byte) /\ frames \in Seq(Frame) /\ N \in Nat
      /\ Len(stream) \in Nat /\ codec.header \in 0..N /\ delivered \in Seq(D)
  BY KindsAssumption, LenProperties DEF Inv, TypeOK
<1>4. Grown(stream, frames, f, stream', frames')
  <2>1. Grown(stream, frames, f, stream \o FrameBytes(f, N + 1), Append(frames, f))
    BY <1>3, FrameGrows
  <2> QED BY <1>1, <2>1, Zenon
<1>5. /\ Laid(stream, frames) /\ Len(stream) > 0
      /\ stream[Len(stream)] = <<N, Size(frames[N])>>
      /\ At(Len(taken), codec.header) /\ WholeFrames
  BY <1>2, Zenon DEF Ordered, LastWhole
<1>6. Laid(stream', frames')
  <2> DEFINE w == stream'
             gs == frames'
  <2>1. Grown(stream, frames, f, w, gs)
    BY <1>4
  <2> HIDE DEF w, gs
  <2>2. Laid(w, gs)
    BY <1>3, <1>5, <2>1, LaidMore
  <2> QED BY <2>2 DEF w, gs
<1>7. LastWhole'
  <2> DEFINE y == Size(f)
             z == Len(stream)
  <2>1. y \in Nat /\ y > 0 /\ z \in Nat
    BY <1>3, SizeType
  <2>2. /\ Len(stream') = z + y /\ Len(frames') = N + 1 /\ frames'[N + 1] = f
        /\ \A j \in 1..y : stream'[z + j] = <<N + 1, j>>
    BY <1>4 DEF Grown
  <2> HIDE DEF z, y, N
  <2>3. y \in 1..y /\ z + y > 0
    BY <2>1
  <2>4. stream'[z + y] = <<N + 1, y>>
    BY <2>2, <2>3, Zenon
  <2>5. Len(stream') > 0
    BY <2>2, <2>3, Zenon
  <2>6. stream'[Len(stream')] = <<Len(frames'), Size(frames'[Len(frames')])>>
    BY <2>2, <2>4, Zenon DEF y
  <2> QED BY <2>5, <2>6, Zenon DEF LastWhole
<1>8. \A i \in 1..Len(delivered) : delivered[i].frame \in 1..N
  <2> SUFFICES ASSUME NEW i \in 1..Len(delivered) PROVE delivered[i].frame \in 1..N
    OBVIOUS
  <2>1. delivered[i] \in D
    BY <1>3, ElementOfSeq
  <2> QED BY <2>1
<1>9. At(Len(taken), codec.header)'
  <2>0. PICK t, h : t = Len(taken) /\ h = codec.header
    OBVIOUS
  <2>1. t \in Nat /\ t <= Len(stream) /\ At(t, h) /\ h \in 0..Len(frames)
    BY <1>3, <1>5, <2>0, TakenInStream
  <2>2. Len(taken') = t /\ codec'.header = h
    BY <1>2, <2>0
  <2>3. At(t, h)'
    BY <1>2, <1>3, <1>4, <1>8, <2>1, AtMore
  <2> QED BY <2>2, <2>3, Zenon DEF At
<1>10. WholeFrames'
  <2>1. DOMAIN delivered = 1..Len(delivered)
    BY <1>3, LenProperties
  <2>2. \A i \in 1..N : frames'[i] = frames[i]
    BY <1>4 DEF Grown
  <2>3. ASSUME NEW i \in DOMAIN delivered
        PROVE  delivered[i].payload = Payload(frames'[delivered[i].frame], delivered[i].frame)
    BY <1>5, <1>8, <2>1, <2>2, Zenon DEF WholeFrames
  <2> QED BY <1>2, <1>5, <2>3, Zenon DEF WholeFrames
<1> QED BY <1>6, <1>7, <1>9, <1>10 DEF Ordered

LEMMA LaidPrefix ==
  ASSUME NEW s, NEW fs, Laid(s, fs), Len(s) \in Nat, NEW w, Len(w) \in 0..Len(s),
         \A i \in 1..Len(w) : w[i] = s[i]
  PROVE  Laid(w, fs)
<1> DEFINE z == Len(s)
           y == Len(w)
<1>1. z \in Nat /\ y \in 0..z
  OBVIOUS
<1> HIDE DEF z, y
<1> SUFFICES ASSUME NEW i \in 1..y
             PROVE  /\ w[i][1] \in 1..Len(fs)
                    /\ \A n \in Nat : i + n <= y =>
                         /\ w[i][2] + n <= Size(fs[w[i][1]]) => w[i + n] = <<w[i][1], w[i][2] + n>>
                         /\ w[i][2] + n = Size(fs[w[i][1]]) + 1 => w[i + n] = <<w[i][1] + 1, 1>>
  BY DEF Laid, y
<1>2. i \in 1..z /\ w[i] = s[i]
  BY <1>1 DEF y
<1>3. ASSUME NEW n \in Nat, i + n <= y PROVE w[i + n] = s[i + n] /\ i + n <= z
  <2>1. i + n \in 1..y /\ i + n <= z
    BY <1>1, <1>3
  <2> QED BY <2>1, Zenon DEF y
<1>4. /\ s[i][1] \in 1..Len(fs)
      /\ \A n \in Nat : i + n <= z =>
           /\ s[i][2] + n <= Size(fs[s[i][1]]) => s[i + n] = <<s[i][1], s[i][2] + n>>
           /\ s[i][2] + n = Size(fs[s[i][1]]) + 1 => s[i + n] = <<s[i][1] + 1, 1>>
  BY <1>2, Zenon DEF Laid, z
<1> QED BY <1>2, <1>3, <1>4, Zenon

LEMMA WireInStream == Inv => Len(wire) \in Nat /\ Len(stream) \in Nat /\ Len(wire) <= Len(stream)
<1> SUFFICES ASSUME Inv PROVE Len(wire) \in Nat /\ Len(stream) \in Nat /\ Len(wire) <= Len(stream)
  OBVIOUS
<1> DEFINE a == taken \o codec.in_buffer
<1>1. /\ a \in Seq(Byte) /\ wire \in Seq(Byte) /\ stream = a \o wire /\ stream \in Seq(Byte)
  BY ConcatProperties DEF Inv, TypeOK, Codec, InputIntact
<1> HIDE DEF a
<1>2. Len(a) \in Nat /\ Len(wire) \in Nat /\ Len(stream) \in Nat
  BY <1>1, LenProperties
<1>3. Len(stream) = Len(a) + Len(wire)
  BY <1>1, ConcatProperties
<1> QED BY <1>2, <1>3

LEMMA PeerClosesOrdered ==
  ASSUME Inv, Ordered, PeerCloses PROVE Ordered'
<1>1. PICK lost \in 0..Len(wire) : stream' = SubSeq(stream, 1, Len(stream) - lost)
  BY DEF PeerCloses
<1>2. /\ ended' = TRUE /\ frames' = frames /\ codec' = codec /\ taken' = taken
      /\ delivered' = delivered
  BY DEF PeerCloses
<1>3. PICK n : n = Len(stream) - lost
  OBVIOUS
<1>4. n \in 0..Len(stream) /\ Len(stream) \in Nat
  BY <1>3, WireInStream
<1>5. /\ Len(stream') = n /\ \A i \in 1..n : stream'[i] = stream[i]
  <2>1. stream \in Seq(Byte) /\ stream' = SubSeq(stream, 1, n)
    BY <1>1, <1>3 DEF Inv, TypeOK
  <2>2. \A i \in 1..n : stream[i] \in Byte
    BY <1>4, <2>1, ElementOfSeq
  <2>3. /\ Len(SubSeq(stream, 1, n)) = IF 1 <= n THEN n - 1 + 1 ELSE 0
        /\ \A i \in 1..(n - 1 + 1) : SubSeq(stream, 1, n)[i] = stream[1 + i - 1]
    BY <1>4, <2>1, <2>2, SubSeqProperties
  <2> DEFINE w == SubSeq(stream, 1, n)
  <2> HIDE DEF w
  <2>4. Len(w) = n
    BY <1>4, <2>3 DEF w
  <2>5. ASSUME NEW i \in 1..n PROVE w[i] = stream[i]
    <3>1. i \in 1..(n - 1 + 1) /\ 1 + i - 1 = i
      BY <1>4
    <3> QED BY <2>3, <3>1, Zenon DEF w
  <2> QED BY <2>1, <2>4, <2>5, Zenon DEF w
<1>6. Laid(stream, frames)'
  <2> DEFINE w == stream'
  <2>1. Len(w) \in 0..Len(stream) /\ \A i \in 1..Len(w) : w[i] = stream[i]
    BY <1>4, <1>5, Zenon
  <2>2. Laid(stream, frames)
    BY DEF Ordered
  <2> HIDE DEF w
  <2>3. Laid(w, frames)
    BY <1>4, <2>1, <2>2, LaidPrefix
  <2> QED BY <1>2, <2>3 DEF w
<1>7. LastWhole' /\ WholeFrames'
  BY <1>2, Zenon DEF Ordered, LastWhole, WholeFrames
<1>8. PICK t, h : t = Len(taken) /\ h = codec.header
  OBVIOUS
<1>9. At(t, h)'
  <2>1. t \in Nat /\ At(t, h)
    BY <1>8, TakenInStream DEF Ordered
  <2>2. t < n => t + 1 \in 1..n /\ t < Len(stream)
    BY <1>4, <2>1
  <2> QED BY <1>2, <1>5, <2>1, <2>2, Zenon DEF At
<1>10. At(Len(taken), codec.header)'
  <2>1. Len(taken') = t /\ codec'.header = h
    BY <1>2, <1>8
  <2> QED BY <1>9, <2>1, Zenon DEF At
<1> QED BY <1>6, <1>7, <1>10 DEF Ordered

LEMMA InitOrdered == Init => Ordered
<1> SUFFICES ASSUME Init PROVE Ordered
  OBVIOUS
<1>1. PICK f \in FrameKinds : frames = <<f>> /\ stream = FrameBytes(f, 1)
  BY DEF Init
<1>2. /\ codec.header = 0 /\ taken = <<>> /\ delivered = <<>>
  BY DEF Init
<1>3. PICK y : y = Size(f)
  OBVIOUS
<1>4. /\ f \in Frame /\ y \in Nat /\ y > 0
  BY <1>3, KindsAssumption, SizeType
<1>5. Len(stream) = y /\ \A j \in 1..y : stream[j] = <<1, j>>
  BY <1>1, <1>3, <1>4, BytesOf
<1>6. Len(frames) = 1 /\ frames[1] = f /\ Len(taken) = 0 /\ Len(delivered) = 0
  BY <1>1, <1>2
<1>7. Laid(stream, frames)
  <2> SUFFICES ASSUME NEW i \in 1..y
               PROVE  /\ stream[i][1] \in 1..Len(frames)
                      /\ \A n \in Nat : i + n <= y =>
                           /\ stream[i][2] + n <= Size(frames[stream[i][1]]) =>
                                stream[i + n] = <<stream[i][1], stream[i][2] + n>>
                           /\ stream[i][2] + n = Size(frames[stream[i][1]]) + 1 =>
                                stream[i + n] = <<stream[i][1] + 1, 1>>
    BY <1>5 DEF Laid
  <2>1. stream[i] = <<1, i>>
    BY <1>5, Zenon
  <2>2. stream[i][1] = 1 /\ stream[i][2] = i /\ Size(frames[stream[i][1]]) = y
        /\ stream[i][1] \in 1..Len(frames)
    BY <1>3, <1>6, <2>1
  <2>3. ASSUME NEW n \in Nat, i + n <= y
        PROVE  stream[i + n] = <<1, i + n>> /\ ~(i + n = y + 1)
    <3>1. i + n \in 1..y /\ ~(i + n = y + 1)
      BY <1>4, <2>3
    <3> QED BY <1>5, <3>1, Zenon
  <2> QED BY <2>2, <2>3, Zenon
<1>8. LastWhole
  <2>1. y \in 1..y
    BY <1>4
  <2>2. stream[y] = <<1, y>>
    BY <1>5, <2>1, Zenon
  <2> QED BY <1>3, <1>4, <1>5, <1>6, <2>2, Zenon DEF LastWhole
<1>9. At(Len(taken), codec.header)
  <2>1. 0 + 1 \in 1..y /\ 0 + 1 = 1 /\ \A i \in 1..0 : FALSE
    BY <1>4
  <2>2. stream[0 + 1] = <<1, 1>>
    BY <1>5, <2>1, Zenon
  <2>3. stream[0 + 1][2] = 1
    BY <2>2
  <2> QED BY <1>2, <1>6, <2>1, <2>3, Zenon DEF At
<1>10. WholeFrames
  BY <1>2 DEF WholeFrames
<1> QED BY <1>7, <1>8, <1>9, <1>10 DEF Ordered

LEMMA NextOrdered == Inv /\ Ordered /\ [Next]_vars => Ordered'
<1> SUFFICES ASSUME Inv, Ordered, [Next]_vars PROVE Ordered'
  OBVIOUS
<1> DEFINE p == ParseHeader(codec)
<1>1. CASE ReadRefused \/ ReadNone \/ ReadFails
  <2>1. /\ taken' = taken \o SubSeq(codec.in_buffer, 1, p.used) /\ codec' = p.c
        /\ UNCHANGED <<frames, stream, ended, delivered>>
    BY <1>1 DEF ReadRefused, ReadNone, ReadFails, Iterate
  <2> QED BY <2>1, IterateOrdered
<1>2. CASE ReadFrame
  BY <1>2, ReadFrameOrdered
<1>3. CASE ReadMore
  <2>1. PICK n \in ReadSizes(p.c) : codec' = read_in(p.c, SubSeq(wire, 1, n))
    BY <1>3 DEF ReadMore
  <2>2. /\ taken' = taken \o SubSeq(codec.in_buffer, 1, p.used)
        /\ UNCHANGED <<frames, stream, ended, delivered>>
    BY <1>3 DEF ReadMore
  <2>3. p.c \in Codec
    BY Parsed
  <2>4. codec'.header = p.c.header
    <3> DEFINE z == SubSeq(wire, 1, n)
    <3> HIDE DEF p, z
    <3> QED BY <2>1, <2>3 DEF read_in, Codec, z
  <2> QED BY <2>2, <2>4, IterateOrdered
<1>4. CASE PeerSends
  BY <1>4, PeerSendsOrdered
<1>5. CASE PeerCloses
  BY <1>5, PeerClosesOrdered
<1>6. CASE SetArguments \/ Stopped \/ UNCHANGED vars
  <2>1. UNCHANGED <<frames, stream, ended, codec, taken, delivered>>
    BY <1>6 DEF SetArguments, Stopped, vars
  <2>2. Laid(stream, frames)' /\ LastWhole'
    BY <2>1, StreamKept
  <2> QED BY <2>1, <2>2, Zenon DEF Ordered, At, WholeFrames
<1> QED BY <1>1, <1>2, <1>3, <1>4, <1>5, <1>6 DEF Next, Read

\* The frames read_frame returns are frames the peer sent, in its order, each
\* with its own payload: however the bytes are cut into reads, whatever errors
\* come between, and also for a caller that goes on behind MessageTooLong.
THEOREM FramesAreWhole == Spec => []WholeFrames
<1>1. Init => Inv /\ Ordered
  BY InitInv, InitOrdered
<1>2. Inv /\ Ordered /\ [Next]_vars => Inv' /\ Ordered'
  BY NextInv, NextOrdered
<1>3. Inv /\ Ordered => WholeFrames
  BY DEF Ordered
<1> QED BY <1>1, <1>2, <1>3, PTL DEF Spec

-----------------------------------------------------------------------------
(* A caller that stops behind MessageTooLong *)

\* The room for the payload of the stored header is there, unless the header was just
\* refused.  The room is made once and must last for any number of reads; that is what
\* the room left in the buffer and the bytes in it add up to.
Careful ==
  /\ codec.header # 0 /\ ret # "MessageTooLong" =>
       frames[codec.header].len <= Len(codec.in_buffer) + codec.spare
  /\ NoFrameIsTheEnd

\* The same for the codec in the middle of an iteration; without a header there
\* is room for one.
LEMMA ParseCareful ==
  ASSUME Inv, Careful, ret # "MessageTooLong",
         NEW p, p = ParseHeader(codec), p.err # "MessageTooLong"
  PROVE  /\ p.c.header # 0 => /\ frames[p.c.header] \in Frame
                              /\ frames[p.c.header].len <= Len(p.c.in_buffer) + p.c.spare
         /\ p.c.header = 0 /\ p.err = "None" => p.c.spare > 0
<1> DEFINE k == parse(codec)
           f == frames[k]
           a == advance(codec, f.hlen)
           s == [a EXCEPT !.header = k]
<1>1. /\ codec \in Codec /\ codec.header \in 0..Len(frames)
      /\ codec.in_buffer \in Seq(SentByte) /\ Len(codec.in_buffer) \in Nat
      /\ frames \in Seq(Frame) /\ TypeOK
  BY LenProperties DEF Inv, TypeOK
<1>2. /\ k \in 0..Len(frames)
      /\ k # 0 => f \in Frame /\ f.hlen <= Len(codec.in_buffer)
  BY <1>1, ParseType
<1>3. CASE codec.header # 0
  <2>1. p.c = codec
    BY <1>3 DEF ParseHeader
  <2>2. frames[codec.header] \in Frame
    BY <1>1, <1>3
  <2> QED BY <2>1, <2>2, <1>3 DEF Careful
<1>4. CASE codec.header = 0 /\ k = 0
  <2>1. p.c = reserve(codec, HeaderMax)
    BY <1>4 DEF ParseHeader, Rewind
  <2>2. reserve(codec, HeaderMax).header = 0 /\ reserve(codec, HeaderMax).spare > 0
    BY <1>1, <1>4, SizesAssumption DEF reserve, Codec
  <2> QED BY <2>1, <2>2
<1>5. CASE codec.header = 0 /\ k # 0 /\ f.reserved
  <2>1. p = [c |-> codec, err |-> "InvalidOpcode", used |-> 0]
    BY <1>5 DEF ParseHeader, Undefined
  <2> QED BY <2>1, <1>5
<1>6. CASE codec.header = 0 /\ k # 0 /\ ~f.reserved
  <2>1. f \in Frame /\ f.hlen \in 0..Len(codec.in_buffer) /\ f.len \in Nat
    BY <1>1, <1>2, <1>6 DEF Frame
  <2>2. a \in Codec
    BY <2>1, <1>1, AdvanceType
  <2>3. p.c = reserve(s, f.len)
    BY <1>6 DEF ParseHeader, RoomFor
  <2>4. /\ reserve(s, f.len).header = k /\ reserve(s, f.len).spare >= f.len
        /\ reserve(s, f.len).in_buffer = a.in_buffer
    BY <2>1, <2>2 DEF reserve, Codec
  <2>5. Len(a.in_buffer) \in Nat /\ reserve(s, f.len).spare \in Nat
    BY <2>1, <2>2, <2>3, SizesAssumption DEF Codec, reserve
  <2> HIDE DEF a, f, k, s
  <2> QED BY <2>1, <2>3, <2>4, <2>5, <1>6 DEF f
<1> QED BY <1>2, <1>3, <1>4, <1>5, <1>6

\* An iteration that returns the result of parsing, or of a read.
LEMMA IterateCareful ==
  ASSUME Inv, Careful, ret # "MessageTooLong", NEW p, p = ParseHeader(codec),
         codec' = p.c, frames' = frames,
         p.err = "MessageTooLong" => ret' = "MessageTooLong",
         ret' = "NoFrame" => wire' = <<>> /\ ended'
  PROVE  Careful'
<1>1. NoFrameIsTheEnd'
  BY DEF Careful, NoFrameIsTheEnd
<1>2. CASE ret' = "MessageTooLong"
  BY <1>1, <1>2 DEF Careful
<1>3. CASE ret' # "MessageTooLong"
  <2>1. p.err # "MessageTooLong"
    BY <1>3
  <2>2. p.c.header # 0 => frames[p.c.header].len <= Len(p.c.in_buffer) + p.c.spare
    BY <2>1, ParseCareful
  <2> QED BY <1>1, <2>2 DEF Careful
<1> QED BY <1>2, <1>3

LEMMA ReadFrameCareful ==
  ASSUME Inv, ReadFrame PROVE Careful'
<1> DEFINE p == ParseHeader(codec)
           f == frames[p.c.header]
<1>1. /\ codec' = [advance(p.c, f.len) EXCEPT !.header = 0]
      /\ ret' \in {"Frame", "UnmaskedFrameFromClient"}
  BY DEF ReadFrame
<1>2. p.c \in Codec
  BY Parsed
<1> HIDE DEF p, f
<1>3. codec'.header = 0
  BY <1>1, <1>2 DEF advance, Codec
<1> QED BY <1>1, <1>3 DEF Careful, NoFrameIsTheEnd

LEMMA ReadMoreCareful ==
  ASSUME Inv, Careful, ret # "MessageTooLong", ReadMore PROVE Careful'
<1> DEFINE p == ParseHeader(codec)
<1>1. PICK n \in ReadSizes(p.c) : codec' = read_in(p.c, SubSeq(wire, 1, n))
  BY DEF ReadMore
<1>2. p.err = "None" /\ ret' = "Loop" /\ frames' = frames /\ delivered' = delivered
  BY DEF ReadMore
<1>3. p.c \in Codec /\ p.c.in_buffer \in Seq(Byte)
  BY Parsed
<1>4. p.c.header # 0 => /\ frames[p.c.header] \in Frame
                        /\ frames[p.c.header].len <= Len(p.c.in_buffer) + p.c.spare
  BY <1>2, ParseCareful
<1> HIDE DEF p
<1> DEFINE z == SubSeq(wire, 1, n)
<1>5. wire \in Seq(Byte) /\ n \in 0..Len(wire) /\ n <= p.c.spare
  BY SizesAssumption DEF ReadSizes, in_buf_max_read, Inv, TypeOK
<1>6. z \in Seq(Byte) /\ Len(z) = n
  BY <1>5, Cut
<1>7. codec' = [p.c EXCEPT !.in_buffer = @ \o z, !.spare = @ - Len(z)]
  BY <1>1 DEF read_in
<1> HIDE DEF z
<1>8. Len(p.c.in_buffer \o z) = Len(p.c.in_buffer) + n
  BY <1>3, <1>6, ConcatProperties
<1>9. /\ codec'.header = p.c.header /\ codec'.in_buffer = p.c.in_buffer \o z
      /\ codec'.spare = p.c.spare - n
  BY <1>3, <1>6, <1>7 DEF Codec
<1>10. Len(codec'.in_buffer) + codec'.spare = Len(p.c.in_buffer) + p.c.spare
  <2>1. Len(p.c.in_buffer) \in Nat /\ p.c.spare \in Nat /\ n \in Nat
    BY <1>3, <1>5, LenProperties DEF Codec
  <2> QED BY <2>1, <1>8, <1>9
<1>11. NoFrameIsTheEnd'
  BY <1>2 DEF Careful, NoFrameIsTheEnd
<1>12. codec'.header # 0 =>
         frames'[codec'.header].len <= Len(codec'.in_buffer) + codec'.spare
  BY <1>2, <1>4, <1>9, <1>10
<1> QED BY <1>11, <1>12 DEF Careful

\* read_in reports the end of the stream only there: it always has room.
LEMMA ReadNoneAtEnd ==
  ASSUME Inv, Careful, ret # "MessageTooLong", ReadNone PROVE wire = <<>> /\ ended
<1> DEFINE p == ParseHeader(codec)
<1>1. p.err = "None" /\ ~HasPayload(p.c) /\ ((wire = <<>> /\ ended) \/ p.c.spare = 0)
  BY DEF ReadNone
<1>2. /\ p.c.header # 0 => /\ frames[p.c.header] \in Frame
                           /\ frames[p.c.header].len <= Len(p.c.in_buffer) + p.c.spare
      /\ p.c.header = 0 => p.c.spare > 0
  BY <1>1, ParseCareful
<1>3. p.c.in_buffer \in Seq(Byte) /\ Len(p.c.in_buffer) \in Nat
  BY Parsed, LenProperties
<1> HIDE DEF p
<1>4. p.c.spare # 0
  BY <1>1, <1>2, <1>3 DEF HasPayload, Frame
<1> QED BY <1>1, <1>4

LEMMA NextCareful ==
  ASSUME RetriesTooLong = FALSE, Inv, Careful, [Next]_vars PROVE Careful'
<1>1. CASE ReadRefused
  <2>1. /\ Iterate(ParseHeader(codec)) /\ ret' = ParseHeader(codec).err
        /\ ret # "MessageTooLong" /\ ret' # "NoFrame"
        /\ codec' = ParseHeader(codec).c /\ frames' = frames /\ delivered' = delivered
    BY <1>1, Parsed DEF ReadRefused, Iterate, CallsAgain
  <2> QED BY <2>1, IterateCareful
<1>2. CASE ReadFrame
  BY <1>2, ReadFrameCareful
<1>3. CASE ReadMore
  BY <1>3, ReadMoreCareful DEF ReadMore, CallsAgain
<1>4. CASE ReadNone
  <2>1. /\ ret # "MessageTooLong" /\ ParseHeader(codec).err = "None"
        /\ codec' = ParseHeader(codec).c /\ frames' = frames /\ delivered' = delivered
        /\ wire' = wire /\ ended' = ended
    BY <1>4 DEF ReadNone, Iterate, CallsAgain
  <2>2. wire = <<>> /\ ended
    BY <1>4, <2>1, ReadNoneAtEnd
  <2> QED BY <2>1, <2>2, IterateCareful
<1>5. CASE ReadFails
  <2>1. /\ ret # "MessageTooLong" /\ ParseHeader(codec).err = "None" /\ ret' # "NoFrame"
        /\ codec' = ParseHeader(codec).c /\ frames' = frames /\ delivered' = delivered
    BY <1>5, ErrorsAssumption DEF ReadFails, Iterate, CallsAgain
  <2> QED BY <2>1, IterateCareful
<1>6. CASE PeerSends
  <2>1. PICK f \in FrameKinds : frames' = Append(frames, f)
    BY <1>6 DEF PeerSends
  <2>2. codec' = codec /\ delivered' = delivered /\ ret' = ret /\ ~ended
    BY <1>6 DEF PeerSends
  <2>3. f \in Frame /\ frames \in Seq(Frame) /\ codec.header \in 0..Len(frames)
    BY KindsAssumption DEF Inv, TypeOK
  <2>4. codec.header # 0 => frames'[codec.header] = frames[codec.header]
    BY <2>1, <2>3, AppendProperties
  <2>5. NoFrameIsTheEnd'
    BY <2>2 DEF Careful, NoFrameIsTheEnd
  <2> QED BY <2>2, <2>4, <2>5 DEF Careful
<1>7. CASE PeerCloses
  <2>1. /\ codec' = codec /\ frames' = frames /\ delivered' = delivered /\ ret' = ret /\ ~ended
    BY <1>7 DEF PeerCloses
  <2>2. NoFrameIsTheEnd'
    BY <2>1 DEF Careful, NoFrameIsTheEnd
  <2> QED BY <2>1, <2>2 DEF Careful
<1>8. CASE SetArguments \/ Stopped \/ UNCHANGED vars
  BY <1>8 DEF SetArguments, Stopped, vars, Careful, NoFrameIsTheEnd
<1> QED BY <1>1, <1>2, <1>3, <1>4, <1>5, <1>6, <1>7, <1>8 DEF Next, Read

LEMMA InitCareful == Init => Careful
<1> SUFFICES ASSUME Init PROVE Careful
  OBVIOUS
<1>1. codec.header = 0 /\ delivered = <<>> /\ ret = "None"
  BY DEF Init
<1> QED BY <1>1 DEF Careful, NoFrameIsTheEnd

\* If the caller of read_frame gives up behind MessageTooLong, read_in always has room
\* to read into, and "no frame" is the end of the stream; however the limits change
\* from call to call.
THEOREM CarefulReader ==
  ASSUME RetriesTooLong = FALSE
  PROVE  Spec => [](RoomToRead /\ NoFrameIsTheEnd)
<1>1. Inv /\ Careful => RoomToRead /\ NoFrameIsTheEnd
  <2> SUFFICES ASSUME Inv, Careful PROVE RoomToRead
    BY DEF Careful
  <2> SUFFICES ASSUME ret # "MessageTooLong", codec.header # 0
               PROVE  codec.spare > 0 \/ HasPayload(codec)
    BY DEF RoomToRead
  <2>1. /\ frames[codec.header].len <= Len(codec.in_buffer) + codec.spare
        /\ codec.header \in 1..Len(frames) /\ frames \in Seq(Frame) /\ codec.spare \in Nat
        /\ Len(codec.in_buffer) \in Nat
    BY LenProperties DEF Careful, Inv, TypeOK, Codec
  <2>2. frames[codec.header] \in Frame
    BY <2>1, ElementOfSeq
  <2>3. frames[codec.header].len \in Nat
    BY <2>2 DEF Frame
  <2> QED BY <2>1, <2>3 DEF HasPayload
<1>2. Init => Inv /\ Careful
  BY InitInv, InitCareful
<1>3. Inv /\ Careful /\ [Next]_vars => Inv' /\ Careful'
  BY NextInv, NextCareful
<1> QED BY <1>1, <1>2, <1>3, PTL DEF Spec

-----------------------------------------------------------------------------
(* FrameReader implements FrameChannel *)

\* The bytes of the stream go from frame to frame and, within one, from its first to
\* its last.
Rising(s, fs) ==
  \A i \in 1..Len(s) :
    /\ s[i][2] \in 1..Size(fs[s[i][1]])
    /\ \A j \in 1..Len(s) :
         i < j => \/ s[i][1] < s[j][1]
                  \/ s[i][1] = s[j][1] /\ s[i][2] < s[j][2]

\* The reader has taken t bytes and holds header h: the last byte it took ends a frame,
\* or is the last of the header of h, which was not refused for its opcode.
Stands(s, fs, t, h) ==
  /\ Len(s) > 0 => s[1] = <<1, 1>>
  /\ h = 0 /\ t > 0 => s[t][2] = Size(fs[s[t][1]])
  /\ h # 0 => t > 0 /\ s[t] = <<h, fs[h].hlen>> /\ ~fs[h].reserved

\* What makes the reader a queue of frames: it knows where it is.
Queued ==
  /\ frames \in Seq(FrameKinds)
  /\ Rising(stream, frames)
  /\ Stands(stream, frames, Len(taken), codec.header)

\* The frame the reader stands in front of, or whose header it has taken.
Cur(s, t, h) == IF h # 0 THEN h ELSE IF t = 0 THEN 1 ELSE s[t][1] + 1

\* How many frames are whole.
Arr(s, fs) ==
  IF Len(s) = 0 THEN 0
  ELSE IF s[Len(s)][2] = Size(fs[s[Len(s)][1]]) THEN s[Len(s)][1]
  ELSE s[Len(s)][1] - 1

\* Between frames, the next byte is the first of the next frame.
LEMMA NextByte ==
  ASSUME NEW s, Len(s) \in Nat, NEW fs, Laid(s, fs), NEW t \in Nat, t < Len(s),
         Stands(s, fs, t, 0)
  PROVE  s[t + 1] = <<Cur(s, t, 0), 1>> /\ Cur(s, t, 0) \in 1..Len(fs)
<1>1. s[t + 1] = <<Cur(s, t, 0), 1>>
  <2>1. CASE t = 0
    <3>1. 0 + 1 = 1 /\ Len(s) > 0
      BY <2>1
    <3>2. s[1] = <<1, 1>> /\ Cur(s, t, 0) = 1
      BY <2>1, <3>1, Zenon DEF Stands, Cur
    <3>. QED
      BY <2>1, <3>1, <3>2, Zenon
  <2>2. CASE t # 0
    <3>1. t \in 1..Len(s) /\ 1 \in Nat /\ t + 1 <= Len(s) /\ t > 0
      BY <2>2
    <3>2. s[t][2] = Size(fs[s[t][1]])
      BY <3>1, Zenon DEF Stands
    <3>3. s[t][2] + 1 = Size(fs[s[t][1]]) + 1 => s[t + 1] = <<s[t][1] + 1, 1>>
      BY <3>1, Zenon DEF Laid
    <3>4. Cur(s, t, 0) = s[t][1] + 1
      BY <2>2, Zenon DEF Cur
    <3>. QED
      BY <3>2, <3>3, <3>4, Zenon
  <2>. QED
    BY <2>1, <2>2
<1>2. t + 1 \in 1..Len(s)
  OBVIOUS
<1>3. s[t + 1][1] \in 1..Len(fs)
  BY <1>2, Zenon DEF Laid
<1>4. PICK c : c = Cur(s, t, 0)
  OBVIOUS
<1>5. <<c, 1>>[1] = c
  OBVIOUS
<1>. QED
  BY <1>1, <1>3, <1>4, <1>5, Zenon

\* A header is taken.
LEMMA HeaderStands ==
  ASSUME NEW s, Len(s) \in Nat, NEW fs, Laid(s, fs), NEW t \in Nat, t < Len(s),
         Stands(s, fs, t, 0), NEW k, k = s[t + 1][1], fs[k] \in Frame, ~fs[k].reserved,
         t + fs[k].hlen <= Len(s)
  PROVE  k # 0 /\ k = Cur(s, t, 0) /\ Stands(s, fs, t + fs[k].hlen, k)
<1>1. PICK c : c = Cur(s, t, 0)
  OBVIOUS
<1>2. s[t + 1] = <<c, 1>> /\ c \in 1..Len(fs)
  BY <1>1, NextByte
<1>3. k = c /\ s[t + 1][1] = k /\ s[t + 1][2] = 1
  BY <1>2
<1>4. PICK h, l : h = fs[k].hlen /\ l = fs[k].len
  OBVIOUS
<1>5. h \in Nat \ {0} /\ l \in Nat /\ Size(fs[k]) = h + l
  BY <1>4 DEF Frame, Size
<1>6. PICK n : n = h - 1
  OBVIOUS
<1>12. t + h <= Len(s)
  BY <1>4, Zenon
<1>7. /\ n \in Nat /\ t + 1 \in 1..Len(s) /\ t + 1 + n <= Len(s) /\ t + 1 + n = t + h
      /\ 1 + n = h /\ 1 + n <= h + l /\ t + h > 0
  BY <1>5, <1>6, <1>12
<1>8. s[t + 1 + n] = <<k, 1 + n>>
  <2>1. s[t + 1][2] + n <= Size(fs[s[t + 1][1]]) => s[t + 1 + n] = <<s[t + 1][1], s[t + 1][2] + n>>
    BY <1>7, Zenon DEF Laid
  <2>. QED
    BY <1>3, <1>5, <1>7, <2>1, Zenon
<1>9. s[t + h] = <<k, h>>
  BY <1>7, <1>8, Zenon
<1>10. k # 0
  BY <1>2, <1>3
<1>11. Len(s) > 0 => s[1] = <<1, 1>>
  BY Zenon DEF Stands
<1>. QED
  BY <1>1, <1>3, <1>4, <1>7, <1>9, <1>10, <1>11, Zenon DEF Stands

\* A payload is taken.
LEMMA PayloadStands ==
  ASSUME NEW s, Len(s) \in Nat, NEW fs, Laid(s, fs), NEW t \in Nat, NEW k \in Nat, k # 0,
         Stands(s, fs, t, k), fs[k] \in Frame, t + fs[k].len <= Len(s)
  PROVE  /\ Stands(s, fs, t + fs[k].len, 0)
         /\ t + fs[k].len > 0 /\ s[t + fs[k].len] = <<k, Size(fs[k])>>
<1>1. PICK h, l : h = fs[k].hlen /\ l = fs[k].len
  OBVIOUS
<1>2. h \in Nat \ {0} /\ l \in Nat /\ Size(fs[k]) = h + l
  BY <1>1 DEF Frame, Size
<1>3. t > 0 /\ s[t] = <<k, h>> /\ (Len(s) > 0 => s[1] = <<1, 1>>)
  BY <1>1, Zenon DEF Stands
<1>4. s[t][1] = k /\ s[t][2] = h
  BY <1>3
<1>5. t \in 1..Len(s) /\ t + l <= Len(s) /\ h + l <= h + l /\ t + l > 0
  BY <1>1, <1>2, <1>3
<1>6. s[t][2] + l <= Size(fs[s[t][1]]) => s[t + l] = <<s[t][1], s[t][2] + l>>
  BY <1>2, <1>5, Zenon DEF Laid
<1>7. s[t + l] = <<k, Size(fs[k])>>
  BY <1>2, <1>4, <1>5, <1>6, Zenon
<1>8. s[t + l][1] = k /\ s[t + l][2] = Size(fs[k])
  BY <1>7
<1>9. Stands(s, fs, t + l, 0)
  BY <1>3, <1>8, Zenon DEF Stands
<1>. QED
  BY <1>1, <1>5, <1>7, <1>9, Zenon

\* No more frames are whole than were sent, and no fewer than end at any byte.
LEMMA ArrIs ==
  ASSUME NEW s, Len(s) \in Nat, NEW fs, Len(fs) \in Nat, Laid(s, fs), Rising(s, fs),
         \A k \in 1..Len(fs) : Size(fs[k]) \in Nat
  PROVE  /\ Arr(s, fs) \in 0..Len(fs)
         /\ \A i \in 1..Len(s) :
              /\ Arr(s, fs) >= s[i][1] - 1
              /\ s[i][2] = Size(fs[s[i][1]]) => Arr(s, fs) >= s[i][1]
<1>1. PICK z, N, A : z = Len(s) /\ N = Len(fs) /\ A = Arr(s, fs)
  OBVIOUS
<1>2. CASE z = 0
  <2>1. A = 0
    BY <1>1, <1>2, Zenon DEF Arr
  <2>2. \A i \in 1..z : FALSE
    BY <1>2
  <2>3. 0 \in 0..N
    BY <1>1
  <2>. QED
    BY <1>1, <2>1, <2>2, <2>3, Zenon
<1>3. CASE z # 0
  <2>1. z \in 1..z /\ z \in Nat /\ N \in Nat
    BY <1>1, <1>3
  <2>2. PICK a, b : a = s[z][1] /\ b = s[z][2]
    OBVIOUS
  <2>3. a \in 1..N /\ b \in 1..Size(fs[a])
    BY <1>1, <2>1, <2>2, Zenon DEF Laid, Rising
  <2>4. A = IF b = Size(fs[a]) THEN a ELSE a - 1
    BY <1>1, <1>3, <2>2, Zenon DEF Arr
  <2>5. A \in 0..N /\ A >= a - 1 /\ (b = Size(fs[a]) => A = a)
    BY <2>3, <2>4, <2>1
  <2>6. ASSUME NEW i \in 1..z
        PROVE  A >= s[i][1] - 1 /\ (s[i][2] = Size(fs[s[i][1]]) => A >= s[i][1])
    <3>1. PICK c, d : c = s[i][1] /\ d = s[i][2]
      OBVIOUS
    <3>2. c \in 1..N /\ d \in 1..Size(fs[c])
      BY <1>1, <3>1, Zenon DEF Laid, Rising
    <3>3. i < z => c < a \/ (c = a /\ d < b)
      BY <1>1, <2>1, <2>2, <3>1, Zenon DEF Rising
    <3>4. i = z => c = a /\ d = b
      BY <2>2, <3>1, Zenon
    <3>5. PICK u : u = Size(fs[a])
      OBVIOUS
    <3>10. u \in Nat
      BY <1>1, <2>3, <3>5, Zenon
    <3>6. c = a => Size(fs[c]) = u
      BY <3>5, Zenon
    <3>7. i < z \/ i = z
      BY <2>1
    <3>8. A >= c - 1
      BY <2>3, <2>5, <3>2, <3>3, <3>4, <3>7
    <3>9. ASSUME d = Size(fs[c]) PROVE A >= c
      <4>1. CASE c < a
        BY <2>3, <2>5, <3>2, <4>1
      <4>2. CASE c = a
        <5>1. d = u /\ b \in 1..u /\ u \in Nat
          BY <2>3, <3>5, <3>6, <3>9, <3>10, <4>2, Zenon
        <5>2. ~(d < b)
          BY <3>5, <5>1
        <5>3. d = b
          BY <2>3, <3>3, <3>4, <3>7, <4>2, <5>2
        <5>4. A = a
          BY <2>5, <3>5, <5>1, <5>3, Zenon
        <5>. QED
          BY <2>3, <4>2, <5>4
      <4>. QED
        BY <2>3, <3>3, <3>4, <3>7, <4>1, <4>2
    <3>. QED
      BY <3>1, <3>8, <3>9, Zenon
  <2>. QED
    BY <1>1, <2>5, <2>6, Zenon
<1>. QED
  BY <1>2, <1>3

\* What is taken is the front of the stream.
LEMMA TakenLast ==
  ASSUME NEW a \in Seq(Byte), NEW b \in Seq(Byte), NEW w \in Seq(Byte), NEW s,
         s = (a \o b) \o w
  PROVE  /\ Len(a) \in Nat /\ Len(s) \in Nat /\ Len(a) <= Len(s)
         /\ a = <<>> <=> Len(a) = 0
         /\ a # <<>> => a[Len(a)] = s[Len(a)]
<1>. DEFINE Joined(y, z) ==
             /\ y \o z \in Seq(Byte) /\ Len(y \o z) = Len(y) + Len(z)
             /\ \A i \in 1..(Len(y) + Len(z)) :
                  (y \o z)[i] = IF i <= Len(y) THEN y[i] ELSE z[i - Len(y)]
<1>0. \A y \in Seq(Byte), z \in Seq(Byte) : Joined(y, z)
  BY ConcatProperties
<1>1. PICK c : c = a \o b
  OBVIOUS
<1>2. /\ Len(a) \in Nat /\ Len(b) \in Nat /\ Len(w) \in Nat
      /\ c \in Seq(Byte) /\ Len(c) = Len(a) + Len(b)
      /\ \A i \in 1..(Len(a) + Len(b)) : c[i] = IF i <= Len(a) THEN a[i] ELSE b[i - Len(a)]
  <2>1. Len(a) \in Nat /\ Len(b) \in Nat /\ Len(w) \in Nat
    BY LenProperties
  <2>2. Joined(a, b)
    BY <1>0, Zenon
  <2>. QED
    BY <1>1, <2>1, <2>2, Zenon
<1>3. s = c \o w
  BY <1>1
<1>4. /\ s \in Seq(Byte) /\ Len(s) = Len(c) + Len(w)
      /\ \A i \in 1..(Len(c) + Len(w)) : s[i] = IF i <= Len(c) THEN c[i] ELSE w[i - Len(c)]
  <2>1. /\ c \o w \in Seq(Byte) /\ Len(c \o w) = Len(c) + Len(w)
        /\ \A i \in 1..(Len(c) + Len(w)) :
             (c \o w)[i] = IF i <= Len(c) THEN c[i] ELSE w[i - Len(c)]
    BY <1>0, <1>2, Zenon
  <2>. QED
    BY <1>3, <2>1, Zenon
<1>5. a = <<>> <=> Len(a) = 0
  BY EmptySeq
<1>6. PICK n : n = Len(a)
  OBVIOUS
<1>7. ASSUME n # 0 PROVE a[n] = s[n]
  <2>1. /\ n \in 1..(Len(a) + Len(b)) /\ n \in 1..(Len(c) + Len(w)) /\ n <= Len(a) /\ n <= Len(c)
    BY <1>2, <1>6, <1>7
  <2>. QED
    BY <1>2, <1>4, <2>1, Zenon
<1>8. Len(s) \in Nat /\ Len(a) <= Len(s)
  BY <1>2, <1>4
<1>. QED
  BY <1>2, <1>5, <1>6, <1>7, <1>8, Zenon

\* Where the reader stands, in terms of the stream.
Place ==
  /\ Current = Cur(stream, Len(taken), codec.header)
  /\ Arriving = Arr(stream, frames)
  /\ Len(taken) \in Nat /\ Len(stream) \in Nat /\ Len(taken) <= Len(stream)
  /\ Len(frames) \in Nat /\ \A k \in 1..Len(frames) : frames[k] \in Frame /\ Size(frames[k]) \in Nat

LEMMA PlaceIs == Inv => Place
<1>. SUFFICES ASSUME Inv PROVE Place
  OBVIOUS
<1>1. /\ taken \in Seq(Byte) /\ codec.in_buffer \in Seq(Byte) /\ wire \in Seq(Byte)
      /\ stream = (taken \o codec.in_buffer) \o wire /\ frames \in Seq(Frame)
      /\ stream \in Seq(Byte)
  BY DEF Inv, TypeOK, Codec, InputIntact
<1>2. PICK b : b = codec.in_buffer
  OBVIOUS
<1>3. /\ Len(taken) \in Nat /\ Len(stream) \in Nat /\ Len(taken) <= Len(stream)
      /\ taken = <<>> <=> Len(taken) = 0
      /\ taken # <<>> => taken[Len(taken)] = stream[Len(taken)]
  <2>1. b \in Seq(Byte) /\ stream = (taken \o b) \o wire
    BY <1>1, <1>2
  <2>. QED
    BY <1>1, <2>1, TakenLast
<1>4. Current = Cur(stream, Len(taken), codec.header)
  BY <1>3, Zenon DEF Current, Cur
<1>5. Arriving = Arr(stream, frames)
  <2>1. stream = <<>> <=> Len(stream) = 0
    BY <1>1, EmptySeq
  <2>2. \A k : frames[k].hlen + frames[k].len = Size(frames[k])
    BY Zenon DEF Size
  <2>. QED
    BY <2>1, <2>2, Zenon DEF Arriving, Arr
<1>6. Len(frames) \in Nat /\ \A k \in 1..Len(frames) : frames[k] \in Frame
  BY <1>1, ElementOfSeq, LenProperties
<1>7. \A k \in 1..Len(frames) : Size(frames[k]) \in Nat
  BY <1>6, SizeType, Zenon
<1>. QED
  BY <1>3, <1>4, <1>5, <1>6, <1>7, Zenon DEF Place

LEMMA PlaceNext == Inv' => Place'
BY PlaceIs, PTL

\* What the stream says of the frames that are whole.
Arrives ==
  /\ Arriving \in 0..Len(frames)
  /\ ~ ended => Arriving = Len(frames)
  /\ \A i \in 1..Len(stream) :
       /\ Arriving >= stream[i][1] - 1
       /\ stream[i][2] = Size(frames[stream[i][1]]) => Arriving >= stream[i][1]

LEMMA ArrivingIs == Inv /\ Ordered /\ Queued => Arrives
<1>. SUFFICES ASSUME Inv, Ordered, Queued PROVE Arrives
  OBVIOUS
<1>1. /\ Arriving = Arr(stream, frames) /\ Len(stream) \in Nat /\ Len(frames) \in Nat
      /\ \A k \in 1..Len(frames) : Size(frames[k]) \in Nat
  BY PlaceIs, Zenon DEF Place
<1>2. Laid(stream, frames) /\ Rising(stream, frames) /\ LastWhole
  BY Zenon DEF Ordered, Queued
<1>3. /\ Arr(stream, frames) \in 0..Len(frames)
      /\ \A i \in 1..Len(stream) :
           /\ Arr(stream, frames) >= stream[i][1] - 1
           /\ stream[i][2] = Size(frames[stream[i][1]]) => Arr(stream, frames) >= stream[i][1]
  BY <1>1, <1>2, ArrIs
<1>4. ASSUME ~ ended PROVE Arr(stream, frames) = Len(frames)
  <2>1. Len(stream) > 0 /\ stream[Len(stream)] = <<Len(frames), Size(frames[Len(frames)])>>
    BY <1>2, <1>4, Zenon DEF LastWhole
  <2>2. PICK b : b = stream[Len(stream)]
    OBVIOUS
  <2>3. b[1] = Len(frames) /\ b[2] = Size(frames[Len(frames)])
    BY <2>1, <2>2
  <2>4. Len(stream) # 0
    BY <1>1, <2>1
  <2>. QED
    BY <2>2, <2>3, <2>4, Zenon DEF Arr
<1>. QED
  BY <1>1, <1>3, <1>4, Zenon DEF Arrives

LEMMA ArrivingNext == Inv' /\ Ordered' /\ Queued' => Arrives'
BY ArrivingIs, PTL

\* The buffer is what follows in the stream.
LEMMA BufferBehind == Inv => Behind(stream, Len(taken), codec.in_buffer)
<1>. SUFFICES ASSUME Inv PROVE Behind(stream, Len(taken), codec.in_buffer)
  OBVIOUS
<1>1. /\ taken \in Seq(Byte) /\ codec.in_buffer \in Seq(Byte) /\ wire \in Seq(Byte)
      /\ stream = (taken \o codec.in_buffer) \o wire
  BY DEF Inv, TypeOK, Codec, InputIntact
<1>2. Behind(Whole(taken, codec.in_buffer, wire), Len(taken), codec.in_buffer)
  BY <1>1, InStream
<1>. QED
  BY <1>1, <1>2, Zenon DEF Whole

\* A header in front of the buffer is that of the next frame.
LEMMA ParseFront ==
  ASSUME Inv, Ordered, Queued, codec.header = 0, NEW k, k = parse(codec), k # 0
  PROVE  /\ k \in 1..Len(frames) /\ frames[k] \in Frame /\ k = Current
         /\ Len(taken) + frames[k].hlen <= Len(stream)
         /\ ~ frames[k].reserved => Stands(stream, frames, Len(taken) + frames[k].hlen, k)
<1>1. PICK b, m : b = codec.in_buffer /\ m = Len(taken)
  OBVIOUS
<1>2. TypeOK /\ codec \in Codec /\ b \in Seq(Byte) /\ codec.in_buffer \in Seq(SentByte)
  BY <1>1 DEF Inv, TypeOK, Codec
<1>3. k \in 1..Len(frames) /\ frames[k] \in Frame /\ frames[k].hlen <= Len(b)
  <2>1. /\ k \in 0..Len(frames)
        /\ k # 0 => frames[k] \in Frame /\ frames[k].hlen <= Len(codec.in_buffer)
    BY <1>2, ParseType
  <2>. QED
    BY <1>1, <2>1
<1>4. b[1][1] = k
  BY <1>1 DEF parse
<1>5. /\ m \in Nat /\ Len(b) \in Nat /\ m + Len(b) <= Len(stream)
      /\ \A j \in 1..Len(b) : stream[m + j] = b[j]
  BY <1>1, BufferBehind, Zenon DEF Behind
<1>6. PICK h : h = frames[k].hlen
  OBVIOUS
<1>7. h \in Nat \ {0} /\ h <= Len(b)
  BY <1>3, <1>6 DEF Frame
<1>8. Len(stream) \in Nat /\ Current = Cur(stream, m, 0)
  BY <1>1, PlaceIs, Zenon DEF Place
<1>9. 1 \in 1..Len(b) /\ m < Len(stream) /\ m + h <= Len(stream)
  BY <1>5, <1>7, <1>8
<1>10. stream[m + 1][1] = k
  BY <1>4, <1>5, <1>9, Zenon
<1>11. Laid(stream, frames) /\ Stands(stream, frames, m, 0)
  BY <1>1, Zenon DEF Ordered, Queued
<1>12. k = Current
  <2>1. PICK c : c = Cur(stream, m, 0)
    OBVIOUS
  <2>2. stream[m + 1] = <<c, 1>>
    BY <1>5, <1>8, <1>9, <1>11, <2>1, NextByte
  <2>3. stream[m + 1][1] = c
    BY <2>2
  <2>. QED
    BY <1>8, <1>10, <2>1, <2>3, Zenon
<1>13. ASSUME ~ frames[k].reserved PROVE Stands(stream, frames, m + h, k)
  <2>1. Stands(stream, frames, m + frames[k].hlen, k)
    <3>1. m + frames[k].hlen <= Len(stream)
      BY <1>6, <1>9, Zenon
    <3>. QED
      BY <1>3, <1>5, <1>8, <1>9, <1>10, <1>11, <1>13, <3>1, HeaderStands
  <2>. QED
    BY <1>6, <2>1, Zenon
<1>. QED
  BY <1>1, <1>3, <1>6, <1>9, <1>12, <1>13, Zenon

\* What the first half of an iteration does: nothing, or it makes room for a header,
\* or refuses the next frame for its opcode, or takes its header.
LEMMA ParseCases ==
  ASSUME Inv, NEW p, p = ParseHeader(codec), NEW k, k = parse(codec)
  PROVE  \/ codec.header # 0 /\ p.c = codec /\ p.err = "None" /\ p.used = 0
         \/ /\ codec.header = 0 /\ k = 0 /\ p.err = "None" /\ p.used = 0
            /\ p.c.header = 0 /\ p.c.in_buffer = codec.in_buffer
         \/ /\ codec.header = 0 /\ k # 0 /\ frames[k].reserved
            /\ p.c = codec /\ p.err = "InvalidOpcode" /\ p.used = 0
         \/ /\ codec.header = 0 /\ k # 0 /\ ~ frames[k].reserved
            /\ p.c.header = k /\ p.used = frames[k].hlen
            /\ p.err = IF TooLong(frames[k], args) THEN "MessageTooLong" ELSE "None"
<1>1. codec \in Codec
  BY DEF Inv, TypeOK
<1>2. CASE codec.header # 0
  BY <1>2 DEF ParseHeader
<1>3. CASE codec.header = 0 /\ k = 0
  BY <1>1, <1>3 DEF ParseHeader, Rewind, reserve, Codec
<1>4. CASE codec.header = 0 /\ k # 0 /\ frames[k].reserved
  BY <1>4 DEF ParseHeader, Undefined
<1>5. CASE codec.header = 0 /\ k # 0 /\ ~ frames[k].reserved
  BY <1>1, <1>5 DEF ParseHeader, advance, reserve, Codec
<1>. QED
  BY <1>2, <1>3, <1>4, <1>5

\* Behind the first half of an iteration the reader stands in front of the same frame.
LEMMA ParsedStands ==
  ASSUME Inv, Ordered, Queued, NEW p, p = ParseHeader(codec),
         NEW t, t = Len(taken \o SubSeq(codec.in_buffer, 1, p.used))
  PROVE  /\ t \in Nat /\ Stands(stream, frames, t, p.c.header)
         /\ Cur(stream, t, p.c.header) = Current
         /\ Behind(stream, t, p.c.in_buffer)
         /\ p.c.header \in 0..Len(frames)
         /\ p.err # "None" => Current \in 1..Len(frames)
         /\ p.err = "InvalidOpcode" => frames[Current].reserved
         /\ p.err = "MessageTooLong" => ~ frames[Current].reserved /\ TooLong(frames[Current], args)
<1>1. PICK b, m : b = codec.in_buffer /\ m = Len(taken)
  OBVIOUS
<1>2. PICK k : k = parse(codec)
  OBVIOUS
<1>3. TypeOK /\ b \in Seq(Byte) /\ codec.in_buffer \in Seq(SentByte) /\ taken \in Seq(Byte)
  BY <1>1 DEF Inv, TypeOK, Codec
<1>4. p.used \in 0..Len(b) /\ p.c.header \in 0..Len(frames) /\ p.c.in_buffer \in Seq(Byte)
  <2>1. p.used \in 0..Len(codec.in_buffer) /\ p.c.header \in 0..Len(frames)
    BY <1>3, ParseHeaderType
  <2>2. p.c.in_buffer \in Seq(Byte)
    BY Parsed
  <2>. QED
    BY <1>1, <2>1, <2>2, Zenon
<1>5. t = m + p.used /\ m \in Nat
  <2>1. PICK u, x : u = p.used /\ x = SubSeq(b, 1, u)
    OBVIOUS
  <2>2. u \in 0..Len(b)
    BY <1>4, <2>1
  <2>3. x \in Seq(Byte) /\ Len(x) = u
    BY <1>3, <2>1, <2>2, Cut
  <2>4. Len(taken \o x) = Len(taken) + Len(x) /\ Len(taken) \in Nat
    BY <1>3, <2>3, ConcatProperties, LenProperties
  <2>5. t = Len(taken \o x)
    BY <1>1, <2>1, Zenon
  <2>. QED
    BY <1>1, <2>1, <2>3, <2>4, <2>5, Zenon
<1>6. /\ t \in Nat /\ t + Len(p.c.in_buffer) <= Len(stream)
      /\ \A j \in 1..Len(p.c.in_buffer) : stream[t + j] = p.c.in_buffer[j]
  BY ParsedAt
<1>7. Behind(stream, t, p.c.in_buffer)
  <2>1. Len(p.c.in_buffer) \in Nat
    BY <1>4, LenProperties
  <2>. QED
    BY <1>6, <2>1, Zenon DEF Behind
<1>8. Current = Cur(stream, m, codec.header) /\ Stands(stream, frames, m, codec.header)
  BY <1>1, PlaceIs, Zenon DEF Place, Queued
<1>9. CASE codec.header # 0 /\ p.c = codec /\ p.err = "None" /\ p.used = 0
  <2>1. t = m
    BY <1>5, <1>9
  <2>2. p.err # "InvalidOpcode" /\ p.err # "MessageTooLong"
    BY <1>9
  <2>. QED
    BY <1>4, <1>6, <1>7, <1>8, <1>9, <2>1, <2>2, Zenon
<1>10. CASE /\ codec.header = 0 /\ p.err = "None" /\ p.used = 0 /\ p.c.header = 0
  <2>1. t = m
    BY <1>5, <1>10
  <2>2. p.err # "InvalidOpcode" /\ p.err # "MessageTooLong"
    BY <1>10
  <2>. QED
    BY <1>4, <1>6, <1>7, <1>8, <1>10, <2>1, <2>2, Zenon
<1>11. CASE /\ codec.header = 0 /\ k # 0 /\ frames[k].reserved
            /\ p.c = codec /\ p.err = "InvalidOpcode" /\ p.used = 0
  <2>1. t = m
    BY <1>5, <1>11
  <2>2. p.err # "MessageTooLong"
    BY <1>11
  <2>3. k \in 1..Len(frames) /\ k = Current
    BY <1>2, <1>11, ParseFront
  <2>. QED
    BY <1>4, <1>6, <1>7, <1>8, <1>11, <2>1, <2>2, <2>3, Zenon
<1>12. CASE /\ codec.header = 0 /\ k # 0 /\ ~ frames[k].reserved
            /\ p.c.header = k /\ p.used = frames[k].hlen
            /\ p.err = IF TooLong(frames[k], args) THEN "MessageTooLong" ELSE "None"
  <2>1. t = m + frames[k].hlen
    BY <1>5, <1>12, Zenon
  <2>2. /\ k \in 1..Len(frames) /\ k = Current
        /\ Stands(stream, frames, m + frames[k].hlen, k)
    <3>1. /\ k \in 1..Len(frames) /\ k = Current
          /\ ~ frames[k].reserved => Stands(stream, frames, Len(taken) + frames[k].hlen, k)
      BY <1>2, <1>12, ParseFront
    <3>. QED
      BY <1>1, <1>12, <3>1, Zenon
  <2>3. Cur(stream, t, p.c.header) = k
    BY <1>12, Zenon DEF Cur
  <2>4. p.err # "InvalidOpcode" /\ (p.err = "MessageTooLong" => TooLong(frames[k], args))
    BY <1>12
  <2>. QED
    BY <1>4, <1>6, <1>7, <1>12, <2>1, <2>2, <2>3, <2>4, Zenon
<1>. QED
  BY <1>2, <1>9, <1>10, <1>11, <1>12, ParseCases, Zenon

\* A header that is not refused is that of the frame in front: of a defined opcode, and
\* within the limit unless an earlier call has admitted it.
LEMMA HeaderAllowed ==
  ASSUME Inv, Ordered, Queued, NEW p, p = ParseHeader(codec),
         p.err = "None", p.c.header # 0
  PROVE  /\ Current \in 1..Len(frames) /\ p.c.header = Current
         /\ ~ frames[Current].reserved
         /\ codec.header # 0 \/ ~ TooLong(frames[Current], args)
<1>1. PICK t : t = Len(taken \o SubSeq(codec.in_buffer, 1, p.used))
  OBVIOUS
<1>2. PICK k : k = parse(codec)
  OBVIOUS
<1>3. /\ Stands(stream, frames, t, p.c.header) /\ Cur(stream, t, p.c.header) = Current
      /\ p.c.header \in 0..Len(frames)
  BY <1>1, ParsedStands
<1>4. p.c.header = Current /\ ~ frames[p.c.header].reserved
  BY <1>3, Zenon DEF Cur, Stands
<1>5. p.c.header \in 1..Len(frames)
  <2>1. Len(frames) \in Nat
    BY PlaceIs, Zenon DEF Place
  <2>. QED
    BY <1>3, <2>1
<1>6. codec.header # 0 \/ ~ TooLong(frames[p.c.header], args)
  <2>1. CASE codec.header = 0 /\ k = 0 /\ p.c.header = 0
    BY <2>1
  <2>2. CASE p.err = "InvalidOpcode"
    BY <2>2
  <2>3. CASE p.c.header = k /\ p.err = IF TooLong(frames[k], args) THEN "MessageTooLong" ELSE "None"
    BY <2>3
  <2>. QED
    BY <1>2, <2>1, <2>2, <2>3, ParseCases, Zenon
<1>. QED
  BY <1>4, <1>5, <1>6, Zenon

\* A step that reads no frame leaves the reader where it is.
LEMMA IterateQueued ==
  ASSUME Inv, Ordered, Queued, Inv', NEW p, p = ParseHeader(codec),
         taken' = taken \o SubSeq(codec.in_buffer, 1, p.used), codec'.header = p.c.header,
         UNCHANGED <<frames, stream>>
  PROVE  Queued' /\ Current' = Current
<1>1. PICK t : t = Len(taken \o SubSeq(codec.in_buffer, 1, p.used))
  OBVIOUS
<1>2. Stands(stream, frames, t, p.c.header) /\ Cur(stream, t, p.c.header) = Current
  BY <1>1, ParsedStands
<1>3. Len(taken') = t /\ frames' = frames /\ stream' = stream
  BY <1>1
<1>4. Queued'
  BY <1>2, <1>3, Zenon DEF Queued
<1>5. Current' = Cur(stream', Len(taken'), codec'.header)
  BY PlaceNext, Zenon DEF Place
<1>. QED
  BY <1>2, <1>3, <1>4, <1>5, Zenon

\* A frame is taken: it is the one the reader stood in front of, it is whole, and
\* the reader stands in front of the next.
LEMMA ReadFrameQueued ==
  ASSUME Inv, Ordered, Queued, Inv', ReadFrame
  PROVE  /\ Queued' /\ Current' = Current + 1
         /\ Current \in 1..Len(frames) /\ Current <= Arriving /\ ~ frames[Current].reserved
         /\ Current = ParseHeader(codec).c.header
         /\ IF NotMasked(frames[Current], args)
              THEN ret' = "UnmaskedFrameFromClient" /\ delivered' = delivered
              ELSE /\ ret' = "Frame"
                   /\ delivered' = Append(delivered,
                        [frame |-> Current, payload |-> Payload(frames[Current], Current)])
<1>1. PICK p : p = ParseHeader(codec)
  OBVIOUS
<1>2. PICK k, b, f : k = p.c.header /\ b = p.c.in_buffer /\ f = frames[k]
  OBVIOUS
<1>3. PICK x, v : x = SubSeq(codec.in_buffer, 1, p.used) /\ v = SubSeq(b, 1, f.len)
  OBVIOUS
<1>4. PICK t : t = Len(taken \o x)
  OBVIOUS
<1>5. /\ HasPayload(p.c) /\ codec' = [advance(p.c, f.len) EXCEPT !.header = 0]
      /\ taken' = (taken \o x) \o v
      /\ IF NotMasked(f, args)
           THEN ret' = "UnmaskedFrameFromClient" /\ delivered' = delivered
           ELSE ret' = "Frame" /\ delivered' = Append(delivered, [frame |-> k, payload |-> v])
      /\ frames' = frames /\ stream' = stream
  BY <1>1, <1>2, <1>3, Zenon DEF ReadFrame
<1>6. /\ t \in Nat /\ Stands(stream, frames, t, k) /\ Cur(stream, t, k) = Current
      /\ Behind(stream, t, b) /\ k \in 0..Len(frames)
  <2>1. t = Len(taken \o SubSeq(codec.in_buffer, 1, p.used))
    BY <1>3, <1>4, Zenon
  <2>2. /\ t \in Nat /\ Stands(stream, frames, t, p.c.header)
        /\ Cur(stream, t, p.c.header) = Current
        /\ Behind(stream, t, p.c.in_buffer) /\ p.c.header \in 0..Len(frames)
    BY <1>1, <2>1, ParsedStands
  <2>. QED
    BY <1>2, <2>2, Zenon
<1>7. At(t, k)
  <2>1. t = Len(taken \o SubSeq(codec.in_buffer, 1, p.used))
    BY <1>3, <1>4, Zenon
  <2>2. At(t, p.c.header)
    BY <1>1, <2>1, ParsedAt
  <2>. QED
    BY <1>2, <2>2, Zenon
<1>8. k # 0 /\ f.len <= Len(b)
  BY <1>2, <1>5, Zenon DEF HasPayload
<1>9. /\ Len(stream) \in Nat /\ Len(frames) \in Nat
      /\ \A i \in 1..Len(frames) : frames[i] \in Frame
  BY PlaceIs, Zenon DEF Place
<1>10. k \in 1..Len(frames) /\ k \in Nat
  BY <1>6, <1>8, <1>9
<1>11. f \in Frame /\ f.len \in Nat
  <2>1. f \in Frame
    BY <1>2, <1>9, <1>10, Zenon
  <2>. QED
    BY <2>1 DEF Frame
<1>12. p.c \in Codec /\ b \in Seq(Byte) /\ x \in Seq(Byte)
  BY <1>1, <1>2, <1>3, Parsed
<1>13. Current = k
  BY <1>6, <1>8, Zenon DEF Cur
<1>14. PICK l : l = f.len
  OBVIOUS
<1>15. v \in Seq(Byte) /\ Len(v) = l /\ v = Payload(f, k)
  <2>1. l \in 0..Len(b) /\ v = SubSeq(b, 1, l)
    <3>1. Len(b) \in Nat
      BY <1>12, LenProperties
    <3>2. l \in Nat /\ l <= Len(b) /\ v = SubSeq(b, 1, l)
      BY <1>3, <1>8, <1>11, <1>14, Zenon
    <3>. QED
      BY <3>1, <3>2
  <2>2. v \in Seq(Byte) /\ Len(v) = l
    BY <1>12, <2>1, Cut
  <2>3. SubSeq(b, 1, frames[k].len) = Payload(frames[k], k)
    <3>1. frames[k] \in Frame /\ frames[k].len <= Len(b) /\ stream \in Seq(Byte)
      BY <1>2, <1>8, <1>11 DEF Inv, TypeOK
    <3>. QED
      BY <1>6, <1>7, <1>10, <1>12, <3>1, BufferHolds
  <2>. QED
    BY <1>2, <1>3, <2>2, <2>3, Zenon
<1>16. Len(taken') = t + l
  <2>1. taken \in Seq(Byte)
    BY DEF Inv, TypeOK
  <2>2. PICK u : u = taken \o x
    OBVIOUS
  <2>3. u \in Seq(Byte)
    BY <1>12, <2>1, <2>2, ConcatProperties
  <2>4. Len(u \o v) = Len(u) + Len(v)
    BY <1>15, <2>3, ConcatProperties
  <2>. QED
    BY <1>4, <1>5, <1>15, <2>2, <2>4, Zenon
<1>17. codec'.header = 0
  <2>1. advance(p.c, f.len) = [p.c EXCEPT !.in_buffer = SubSeq(b, f.len + 1, Len(b))]
    BY <1>2, Zenon DEF advance
  <2>. QED
    BY <1>5, <1>12, <2>1 DEF Codec
<1>18. t + l \in 1..Len(stream)
       /\ Stands(stream, frames, t + l, 0) /\ stream[t + l] = <<k, Size(frames[k])>>
  <2>1. l <= Len(b) /\ t + Len(b) <= Len(stream) /\ Len(b) \in Nat /\ l \in Nat
    BY <1>6, <1>8, <1>11, <1>14, Zenon DEF Behind
  <2>2. t + l <= Len(stream)
    BY <1>6, <1>9, <2>1
  <2>3. t + frames[k].len <= Len(stream) /\ frames[k] \in Frame
    BY <1>2, <1>11, <1>14, <2>2, Zenon
  <2>4. /\ Stands(stream, frames, t + frames[k].len, 0)
        /\ t + frames[k].len > 0 /\ stream[t + frames[k].len] = <<k, Size(frames[k])>>
    BY <1>6, <1>8, <1>9, <1>10, <2>3, PayloadStands DEF Ordered
  <2>5. /\ Stands(stream, frames, t + l, 0)
        /\ t + l > 0 /\ stream[t + l] = <<k, Size(frames[k])>>
    BY <1>2, <1>14, <2>4, Zenon
  <2>6. t + l \in 1..Len(stream)
    BY <1>6, <1>9, <2>1, <2>2, <2>5
  <2>. QED
    BY <2>5, <2>6
<1>19. stream[t + l][1] = k /\ stream[t + l][2] = Size(frames[k])
  BY <1>18
<1>20. Queued'
  BY <1>5, <1>16, <1>17, <1>18, Zenon DEF Queued
<1>21. Current' = k + 1
  <2>1. Current' = Cur(stream, t + l, 0)
    BY <1>5, <1>16, <1>17, PlaceNext, Zenon DEF Place
  <2>2. t + l # 0
    BY <1>18
  <2>. QED
    BY <1>19, <2>1, <2>2, Zenon DEF Cur
<1>22. k <= Arriving
  <2>1. Arrives
    BY ArrivingIs
  <2>2. Arriving >= k
    BY <1>18, <1>19, <2>1, Zenon DEF Arrives
  <2>. QED
    BY <2>2
<1>23. ~ frames[k].reserved
  BY <1>6, <1>8, Zenon DEF Stands
<1>24. IF NotMasked(frames[k], args)
         THEN ret' = "UnmaskedFrameFromClient" /\ delivered' = delivered
         ELSE /\ ret' = "Frame"
              /\ delivered' = Append(delivered, [frame |-> k, payload |-> Payload(frames[k], k)])
  BY <1>2, <1>5, <1>15, Zenon
<1>. QED
  BY <1>1, <1>2, <1>10, <1>13, <1>20, <1>21, <1>22, <1>23, <1>24, Zenon

\* A frame is sent.
LEMMA RisingMore ==
  ASSUME NEW s, NEW fs, Len(s) \in Nat, Len(fs) \in Nat, Laid(s, fs), Rising(s, fs),
         NEW f \in Frame, NEW w, NEW gs, Grown(s, fs, f, w, gs),
         \A k \in 1..Len(fs) : Size(fs[k]) \in Nat
  PROVE  Rising(w, gs)
<1>1. PICK z, N, y : z = Len(s) /\ N = Len(fs) /\ y = Size(f)
  OBVIOUS
<1>2. z \in Nat /\ N \in Nat /\ y \in Nat
  BY <1>1, SizeType
<1>3. /\ Len(w) = z + y /\ Size(gs[N + 1]) = y
      /\ \A i \in 1..N : gs[i] = fs[i]
      /\ \A i \in 1..z : w[i] = s[i]
      /\ \A j \in 1..y : w[z + j] = <<N + 1, j>>
  BY <1>1, Zenon DEF Grown
<1>4. ASSUME NEW i \in 1..z
      PROVE  /\ w[i] = s[i] /\ s[i][1] \in 1..N
             /\ s[i][2] \in 1..Size(gs[s[i][1]])
  <2>1. s[i][1] \in 1..N /\ s[i][2] \in 1..Size(fs[s[i][1]])
    BY <1>1, Zenon DEF Laid, Rising
  <2>. QED
    BY <1>3, <2>1, Zenon
<1>5. ASSUME NEW i \in (z + 1)..(z + y)
      PROVE  w[i][1] = N + 1 /\ w[i][2] = i - z /\ i - z \in 1..y
  <2>1. PICK j : j = i - z
    OBVIOUS
  <2>2. j \in 1..y /\ z + j = i
    BY <1>2, <2>1
  <2>3. w[i] = <<N + 1, j>>
    BY <1>3, <2>2, Zenon
  <2>. QED
    BY <2>1, <2>2, <2>3
<1>6. \A i \in 1..(z + y) : i \in 1..z \/ i \in (z + 1)..(z + y)
  BY <1>2
<1>7. ASSUME NEW i \in 1..(z + y) PROVE w[i][2] \in 1..Size(gs[w[i][1]])
  <2>1. CASE i \in 1..z
    BY <1>4, <2>1, Zenon
  <2>2. CASE i \in (z + 1)..(z + y)
    BY <1>3, <1>5, <2>2, Zenon
  <2>. QED
    BY <1>6, <2>1, <2>2, Zenon
<1>8. ASSUME NEW i \in 1..(z + y), NEW j \in 1..(z + y), i < j
      PROVE  w[i][1] < w[j][1] \/ (w[i][1] = w[j][1] /\ w[i][2] < w[j][2])
  <2>1. CASE i \in 1..z /\ j \in 1..z
    <3>1. s[i][1] < s[j][1] \/ (s[i][1] = s[j][1] /\ s[i][2] < s[j][2])
      BY <1>1, <1>8, <2>1, Zenon DEF Rising
    <3>. QED
      BY <1>4, <2>1, <3>1, Zenon
  <2>2. CASE i \in 1..z /\ j \in (z + 1)..(z + y)
    <3>1. PICK a : a = w[i][1]
      OBVIOUS
    <3>2. a \in 1..N
      BY <1>4, <2>2, <3>1, Zenon
    <3>3. a < N + 1
      BY <1>2, <3>2
    <3>. QED
      BY <1>5, <2>2, <3>1, <3>3, Zenon
  <2>3. CASE i \in (z + 1)..(z + y) /\ j \in (z + 1)..(z + y)
    <3>1. i - z < j - z
      BY <1>2, <1>8
    <3>2. w[i][1] = N + 1 /\ w[i][2] = i - z
      BY <1>5, <2>3, Zenon
    <3>3. w[j][1] = N + 1 /\ w[j][2] = j - z
      BY <1>5, <2>3, Zenon
    <3>4. w[i][1] = w[j][1] /\ w[i][2] < w[j][2]
      BY <3>1, <3>2, <3>3, Zenon
    <3>. QED
      BY <3>4
  <2>4. ~ (i \in (z + 1)..(z + y) /\ j \in 1..z)
    BY <1>2, <1>8
  <2>. QED
    BY <1>6, <2>1, <2>2, <2>3, <2>4, Zenon
<1>. QED
  BY <1>3, <1>7, <1>8, Zenon DEF Rising

LEMMA StandsMore ==
  ASSUME NEW s, NEW fs, Len(s) \in Nat, Len(s) > 0, Len(fs) \in Nat, Laid(s, fs),
         NEW f, NEW w, NEW gs, Grown(s, fs, f, w, gs),
         NEW t \in 0..Len(s), NEW h \in 0..Len(fs), Stands(s, fs, t, h)
  PROVE  Stands(w, gs, t, h)
<1>1. /\ \A i \in 1..Len(fs) : gs[i] = fs[i]
      /\ \A i \in 1..Len(s) : w[i] = s[i]
  BY Zenon DEF Grown
<1>2. w[1] = <<1, 1>>
  <2>1. 1 \in 1..Len(s)
    OBVIOUS
  <2>. QED
    BY <1>1, <2>1, Zenon DEF Stands
<1>3. ASSUME h = 0, t > 0 PROVE w[t][2] = Size(gs[w[t][1]])
  <2>1. t \in 1..Len(s)
    BY <1>3
  <2>2. s[t][1] \in 1..Len(fs)
    BY <2>1, Zenon DEF Laid
  <2>. QED
    BY <1>1, <1>3, <2>1, <2>2, Zenon DEF Stands
<1>4. ASSUME h # 0 PROVE t > 0 /\ w[t] = <<h, gs[h].hlen>> /\ ~ gs[h].reserved
  <2>1. t > 0 /\ s[t] = <<h, fs[h].hlen>> /\ ~ fs[h].reserved
    BY <1>4, Zenon DEF Stands
  <2>2. t \in 1..Len(s) /\ h \in 1..Len(fs)
    BY <1>4, <2>1
  <2>. QED
    BY <1>1, <2>1, <2>2, Zenon
<1>. QED
  BY <1>2, <1>3, <1>4, Zenon DEF Stands

\* The end of the stream is lost.
LEMMA QueuedPrefix ==
  ASSUME NEW s, NEW fs, Len(s) \in Nat, Rising(s, fs), NEW w, Len(w) \in 0..Len(s),
         \A i \in 1..Len(w) : w[i] = s[i],
         NEW t \in 0..Len(w), NEW h, Stands(s, fs, t, h)
  PROVE  Rising(w, fs) /\ Stands(w, fs, t, h)
<1>1. \A i \in 1..Len(w) : i \in 1..Len(s)
  OBVIOUS
<1>2. Rising(w, fs)
  <2>1. ASSUME NEW i \in 1..Len(w) PROVE w[i][2] \in 1..Size(fs[w[i][1]])
    BY <1>1, Zenon DEF Rising
  <2>2. ASSUME NEW i \in 1..Len(w), NEW j \in 1..Len(w), i < j
        PROVE  w[i][1] < w[j][1] \/ (w[i][1] = w[j][1] /\ w[i][2] < w[j][2])
    <3>1. w[i] = s[i] /\ w[j] = s[j] /\ i \in 1..Len(s) /\ j \in 1..Len(s)
      BY <1>1, Zenon
    <3>2. s[i][1] < s[j][1] \/ (s[i][1] = s[j][1] /\ s[i][2] < s[j][2])
      BY <2>2, <3>1, Zenon DEF Rising
    <3>. QED
      BY <3>1, <3>2, Zenon
  <2>. QED
    BY <2>1, <2>2, Zenon DEF Rising
<1>3. Len(w) > 0 => Len(s) > 0 /\ 1 \in 1..Len(w)
  OBVIOUS
<1>4. t > 0 => t \in 1..Len(w)
  OBVIOUS
<1>5. Stands(w, fs, t, h)
  BY <1>3, <1>4, Zenon DEF Stands
<1>. QED
  BY <1>2, <1>5

LEMMA PeerSendsQueued ==
  ASSUME Inv, Ordered, Queued, Inv', Ordered', PeerSends
  PROVE  Queued' /\ Current' = Current /\ Arriving' = Arriving + 1 /\ Channel!Send
<1>1. PICK f \in FrameKinds :
        /\ frames' = Append(frames, f)
        /\ stream' = stream \o FrameBytes(f, Len(frames) + 1)
  BY DEF PeerSends
<1>2. /\ ~ ended /\ ended' = ended /\ codec' = codec /\ taken' = taken
      /\ delivered' = delivered /\ ret' = ret /\ args' = args
  BY DEF PeerSends
<1>3. /\ f \in Frame /\ stream \in Seq(Byte) /\ frames \in Seq(Frame)
      /\ codec.header \in 0..Len(frames)
  BY KindsAssumption DEF Inv, TypeOK
<1>4. Grown(stream, frames, f, stream', frames')
  <2>1. Grown(stream, frames, f, stream \o FrameBytes(f, Len(frames) + 1), Append(frames, f))
    BY <1>3, FrameGrows
  <2>. QED
    BY <1>1, <2>1, Zenon
<1>5. PICK w, gs, t, h : w = stream' /\ gs = frames' /\ t = Len(taken) /\ h = codec.header
  OBVIOUS
<1>6. /\ Len(stream) \in Nat /\ Len(frames) \in Nat /\ t \in Nat /\ t <= Len(stream)
      /\ \A k \in 1..Len(frames) : Size(frames[k]) \in Nat
  BY <1>5, PlaceIs, Zenon DEF Place
<1>7. /\ Laid(stream, frames) /\ Rising(stream, frames) /\ Stands(stream, frames, t, h)
      /\ frames \in Seq(FrameKinds) /\ Len(stream) > 0
  BY <1>2, <1>5, Zenon DEF Ordered, LastWhole, Queued
<1>8. Grown(stream, frames, f, w, gs)
  BY <1>4, <1>5, Zenon
<1>9. Rising(w, gs)
  BY <1>3, <1>6, <1>7, <1>8, RisingMore
<1>10. Stands(w, gs, t, h)
  <2>1. t \in 0..Len(stream) /\ h \in 0..Len(frames)
    BY <1>3, <1>5, <1>6
  <2>. QED
    BY <1>6, <1>7, <1>8, <2>1, StandsMore
<1>11. frames' \in Seq(FrameKinds) /\ Len(frames') = Len(frames) + 1
  BY <1>1, <1>7, AppendProperties
<1>12. Queued'
  <2>1. Len(taken') = t /\ codec'.header = h
    BY <1>2, <1>5
  <2>. QED
    BY <1>5, <1>9, <1>10, <1>11, <2>1, Zenon DEF Queued
<1>13. Current' = Current
  BY <1>2, Zenon DEF Current
<1>14. Arriving' = Arriving + 1
  <2>1. Arriving = Len(frames)
    BY <1>2, ArrivingIs, Zenon DEF Arrives
  <2>2. Arriving' = Len(frames')
    BY <1>2, <1>12, ArrivingNext, Zenon DEF Arrives
  <2>. QED
    BY <1>11, <2>1, <2>2, Zenon
<1>. QED
  BY <1>1, <1>2, <1>12, <1>13, <1>14, Zenon DEF Channel!Send

LEMMA PeerClosesQueued ==
  ASSUME Inv, Ordered, Queued, Inv', Ordered', PeerCloses
  PROVE  Queued' /\ Channel!End
<1>1. PICK lost \in 0..Len(wire) : stream' = SubSeq(stream, 1, Len(stream) - lost)
  BY DEF PeerCloses
<1>2. /\ ~ ended /\ ended' = TRUE /\ frames' = frames /\ codec' = codec /\ taken' = taken
      /\ delivered' = delivered /\ ret' = ret /\ args' = args
  BY DEF PeerCloses
<1>3. PICK n, s, w : n = Len(stream) - lost /\ s = stream /\ w = stream'
  OBVIOUS
<1>4. n \in 0..Len(s) /\ Len(s) \in Nat /\ s \in Seq(Byte)
  <2>1. n \in 0..Len(stream) /\ Len(stream) \in Nat
    BY <1>3, WireInStream
  <2>2. stream \in Seq(Byte)
    BY DEF Inv, TypeOK
  <2>. QED
    BY <1>3, <2>1, <2>2, Zenon
<1>5. Len(w) = n /\ \A i \in 1..n : w[i] = s[i]
  <2>1. w = SubSeq(s, 1, n)
    BY <1>1, <1>3, Zenon
  <2>2. \A i \in 1..n : s[i] \in Byte
    BY <1>4, ElementOfSeq
  <2>3. /\ Len(SubSeq(s, 1, n)) = IF 1 <= n THEN n - 1 + 1 ELSE 0
        /\ \A i \in 1..(n - 1 + 1) : SubSeq(s, 1, n)[i] = s[1 + i - 1]
    BY <1>4, <2>2, SubSeqProperties
  <2>4. \A m \in Nat : (IF 1 <= m THEN m - 1 + 1 ELSE 0) = m
    OBVIOUS
  <2>5. n \in Nat
    BY <1>4
  <2>6. Len(w) = n
    BY <2>1, <2>3, <2>4, <2>5, Zenon
  <2>7. \A i \in 1..n : i \in 1..(n - 1 + 1) /\ 1 + i - 1 = i
    BY <2>5
  <2>. QED
    BY <2>1, <2>3, <2>6, <2>7, Zenon
<1>6. PICK t, h : t = Len(taken) /\ h = codec.header
  OBVIOUS
<1>7. /\ Rising(s, frames) /\ Stands(s, frames, t, h) /\ frames \in Seq(FrameKinds)
  BY <1>3, <1>6, Zenon DEF Queued
<1>8. t \in 0..Len(w)
  <2>1. Len(taken') \in Nat /\ Len(stream') \in Nat /\ Len(taken') <= Len(stream')
    BY PlaceNext, Zenon DEF Place
  <2>2. t \in Nat /\ Len(w) \in Nat /\ t <= Len(w)
    BY <1>2, <1>3, <1>6, <2>1, Zenon
  <2>. QED
    BY <2>2
<1>9. Rising(w, frames) /\ Stands(w, frames, t, h)
  BY <1>4, <1>5, <1>7, <1>8, QueuedPrefix
<1>10. Queued'
  <2>1. Len(taken') = t /\ codec'.header = h
    BY <1>2, <1>6
  <2>. QED
    BY <1>2, <1>3, <1>7, <1>9, <2>1, Zenon DEF Queued
<1>11. Current' = Current
  BY <1>2, Zenon DEF Current
<1>12. Arriving = Len(frames) /\ Arriving' \in 0..Len(frames)
  <2>1. Arriving = Len(frames)
    BY <1>2, ArrivingIs, Zenon DEF Arrives
  <2>2. Arriving' \in 0..Len(frames')
    BY <1>10, ArrivingNext, Zenon DEF Arrives
  <2>. QED
    BY <1>2, <2>1, <2>2, Zenon
<1>13. Current - 1 <= Arriving'
  <2>1. /\ \A i \in 1..Len(w) :
             /\ Arriving' >= w[i][1] - 1
             /\ w[i][2] = Size(frames[w[i][1]]) => Arriving' >= w[i][1]
    BY <1>2, <1>3, <1>10, ArrivingNext, Zenon DEF Arrives
  <2>2. Current = Cur(s, t, h)
    BY <1>3, <1>6, PlaceIs, Zenon DEF Place
  <2>3. CASE h # 0
    <3>1. t > 0 /\ w[t] = <<h, frames[h].hlen>>
      BY <1>9, <2>3, Zenon DEF Stands
    <3>2. t \in 1..Len(w) /\ w[t][1] = h
      BY <1>8, <3>1
    <3>3. Arriving' >= h - 1 /\ Current = h
      BY <2>1, <2>2, <2>3, <3>2, Zenon DEF Cur
    <3>4. h \in Int /\ Arriving' \in Int
      <4>1. h \in 0..Len(frames) /\ Len(frames) \in Nat
        BY <1>6, LenProperties DEF Inv, TypeOK
      <4>. QED
        BY <1>12, <4>1
    <3>. QED
      BY <3>3, <3>4
  <2>4. CASE h = 0 /\ t = 0
    <3>1. Current = 1
      BY <2>2, <2>4, Zenon DEF Cur
    <3>. QED
      BY <1>12, <3>1
  <2>5. CASE h = 0 /\ t # 0
    <3>1. t \in 1..Len(w) /\ t > 0 /\ t \in 1..n
      BY <1>5, <1>8, <2>5
    <3>2. w[t][2] = Size(frames[w[t][1]]) /\ w[t] = s[t]
      BY <1>5, <1>9, <2>5, <3>1, Zenon DEF Stands
    <3>3. PICK a : a = w[t][1]
      OBVIOUS
    <3>4. Arriving' >= a /\ Current = a + 1
      BY <2>1, <2>2, <2>5, <3>1, <3>2, <3>3, Zenon DEF Cur
    <3>5. a \in 1..Len(frames)
      <4>1. Laid(s, frames) /\ t \in 1..Len(s)
        BY <1>3, <1>4, <3>1 DEF Ordered
      <4>. QED
        BY <3>2, <3>3, <4>1, Zenon DEF Laid
    <3>. QED
      BY <1>12, <3>4, <3>5
  <2>. QED
    BY <2>3, <2>4, <2>5
<1>14. Arriving' \in (Current - 1)..Arriving
  <2>1. Current \in Int
    <3>1. h \in 0..Len(frames) /\ Len(frames) \in Nat /\ Laid(stream, frames)
      BY <1>6, LenProperties DEF Inv, TypeOK, Ordered
    <3>2. Current = Cur(stream, t, h) /\ t \in Nat /\ t <= Len(stream) /\ Len(stream) \in Nat
      BY <1>6, PlaceIs, Zenon DEF Place
    <3>3. CASE t = 0 \/ h # 0
      BY <3>1, <3>2, <3>3 DEF Cur
    <3>4. CASE t # 0 /\ h = 0
      <4>1. t \in 1..Len(stream)
        BY <3>2, <3>4
      <4>2. PICK a : a = stream[t][1]
        OBVIOUS
      <4>3. a \in 1..Len(frames) /\ Current = a + 1
        BY <3>1, <3>2, <3>4, <4>1, <4>2, Zenon DEF Laid, Cur
      <4>. QED
        BY <4>3
    <3>. QED
      BY <3>3, <3>4
  <2>2. Len(frames) \in Nat
    BY PlaceIs, Zenon DEF Place
  <2>. QED
    BY <1>12, <1>13, <2>1, <2>2
<1>. QED
  BY <1>2, <1>10, <1>11, <1>14, Zenon DEF Channel!End

LEMMA InitQueued == Init => Queued /\ Channel!Init
<1>. SUFFICES ASSUME Init PROVE Queued /\ Channel!Init
  OBVIOUS
<1>1. PICK f \in FrameKinds : frames = <<f>> /\ stream = FrameBytes(f, 1)
  BY DEF Init
<1>2. /\ codec.header = 0 /\ taken = <<>> /\ delivered = <<>> /\ ret = "None" /\ ended = FALSE
  BY DEF Init
<1>3. PICK y, s : y = Size(f) /\ s = stream
  OBVIOUS
<1>4. f \in Frame /\ y \in Nat /\ y > 0
  BY <1>3, KindsAssumption, SizeType
<1>5. Len(s) = y /\ \A j \in 1..y : s[j] = <<1, j>>
  BY <1>1, <1>3, <1>4, BytesOf
<1>6. frames \in Seq(FrameKinds) /\ frames[1] = f /\ Len(frames) = 1 /\ Len(taken) = 0
  BY <1>1, <1>2
<1>7. \A j \in 1..y : s[j][1] = 1 /\ s[j][2] = j
  BY <1>5
<1>8. Rising(s, frames)
  <2>1. ASSUME NEW i \in 1..y PROVE s[i][2] \in 1..Size(frames[s[i][1]])
    <3>1. Size(frames[1]) = y
      BY <1>3, <1>6, Zenon
    <3>2. s[i][1] = 1 /\ s[i][2] = i
      BY <1>7, Zenon
    <3>3. Size(frames[s[i][1]]) = y
      BY <3>1, <3>2, Zenon
    <3>4. PICK a, u : a = s[i][2] /\ u = Size(frames[s[i][1]])
      OBVIOUS
    <3>5. a = i /\ u = y
      BY <3>2, <3>3, <3>4, Zenon
    <3>6. a \in 1..u
      BY <3>5
    <3>. QED
      BY <3>4, <3>6, Zenon
  <2>2. ASSUME NEW i \in 1..y, NEW j \in 1..y, i < j
        PROVE  s[i][1] < s[j][1] \/ (s[i][1] = s[j][1] /\ s[i][2] < s[j][2])
    <3>1. PICK a, b : a = s[i][2] /\ b = s[j][2]
      OBVIOUS
    <3>4. s[i][1] = 1 /\ s[i][2] = i
      BY <1>7, Zenon
    <3>5. s[j][1] = 1 /\ s[j][2] = j
      BY <1>7, Zenon
    <3>2. s[i][1] = s[j][1]
      BY <3>4, <3>5, Zenon
    <3>6. a = i /\ b = j
      BY <3>1, <3>4, <3>5, Zenon
    <3>3. a < b
      BY <2>2, <3>6
    <3>. QED
      BY <3>1, <3>2, <3>3, Zenon
  <2>. QED
    BY <1>5, <2>1, <2>2, Zenon DEF Rising
<1>9. Stands(s, frames, 0, 0)
  <2>1. 1 \in 1..y /\ ~ (0 > 0)
    BY <1>4
  <2>. QED
    BY <1>5, <2>1, Zenon DEF Stands
<1>10. Queued
  BY <1>2, <1>3, <1>6, <1>8, <1>9, Zenon DEF Queued
<1>11. Arriving = 1
  BY <1>2, <1>6, <1>10, InitInv, InitOrdered, ArrivingIs, Zenon DEF Arrives
<1>12. Current = 1
  BY <1>2, Zenon DEF Current
<1>13. args \in Arguments /\ (codec.header # 0 /\ ret # "MessageTooLong") = FALSE
  BY <1>2 DEF Init
<1>14. \E g \in FrameKinds : frames = <<g>>
  BY <1>1, Zenon
<1>. QED
  BY <1>2, <1>10, <1>11, <1>12, <1>13, <1>14, Zenon DEF Channel!Init

\* The last byte of the stream tells how many frames are whole.
LEMMA LastByte ==
  ASSUME NEW s, NEW fs, NEW c, NEW d, Len(s) # 0, s[Len(s)] = <<c, d>>
  PROVE  Arr(s, fs) = IF d = Size(fs[c]) THEN c ELSE c - 1
<1>1. PICK b : b = s[Len(s)]
  OBVIOUS
<1>2. b[1] = c /\ b[2] = d
  BY <1>1
<1>. QED
  BY <1>1, <1>2, Zenon DEF Arr

\* At the end of the stream, a reader that has not got all of a frame will not get it.
LEMMA EndIsEnd ==
  ASSUME Inv, Ordered, Queued, wire = <<>>,
         NEW p, p = ParseHeader(codec), p.err = "None", ~ HasPayload(p.c)
  PROVE  Current = Arriving + 1
<1>1. PICK b, h, s, x : /\ b = p.c.in_buffer /\ h = p.c.header /\ s = stream
                        /\ x = SubSeq(codec.in_buffer, 1, p.used)
  OBVIOUS
<1>2. PICK t : t = Len(taken \o SubSeq(codec.in_buffer, 1, p.used))
  OBVIOUS
<1>3. /\ t \in Nat /\ Stands(s, frames, t, h) /\ Cur(s, t, h) = Current /\ h \in 0..Len(frames)
  BY <1>1, <1>2, ParsedStands, Zenon
<1>4. b \in Seq(Byte) /\ x \in Seq(Byte) /\ codec.in_buffer = x \o b
  BY <1>1, Parsed, Zenon
<1>5. Len(s) = t + Len(b) /\ Len(b) \in Nat /\ Len(s) \in Nat
  <2>1. /\ taken \in Seq(Byte) /\ stream = (taken \o codec.in_buffer) \o wire
        /\ codec.in_buffer \in Seq(Byte)
    BY DEF Inv, TypeOK, Codec, InputIntact
  <2>2. \A u \in Seq(Byte) : u \o <<>> = u
    BY ConcatEmptySeq
  <2>3. \A u, v \in Seq(Byte) : u \o v \in Seq(Byte) /\ Len(u \o v) = Len(u) + Len(v)
    BY ConcatProperties
  <2>4. taken \o codec.in_buffer \in Seq(Byte)
    BY <2>1, <2>3, Zenon
  <2>5. stream = taken \o codec.in_buffer
    BY <2>1, <2>2, <2>4, Zenon
  <2>6. Len(s) = Len(taken) + Len(codec.in_buffer)
    BY <1>1, <2>1, <2>3, <2>5, Zenon
  <2>7. Len(codec.in_buffer) = Len(x) + Len(b)
    BY <1>4, <2>3, Zenon
  <2>8. t = Len(taken) + Len(x)
    BY <1>1, <1>2, <1>4, <2>1, <2>3, Zenon
  <2>9. Len(taken) \in Nat /\ Len(x) \in Nat /\ Len(b) \in Nat
    BY <1>4, <2>1, LenProperties
  <2>10. \A i, j, k \in Nat : i + (j + k) = (i + j) + k /\ (i + j) + k \in Nat
    OBVIOUS
  <2>11. Len(s) = Len(taken) + (Len(x) + Len(b))
    BY <2>6, <2>7, Zenon
  <2>12. /\ Len(taken) + (Len(x) + Len(b)) = (Len(taken) + Len(x)) + Len(b)
         /\ (Len(taken) + Len(x)) + Len(b) \in Nat
    BY <2>9, <2>10, Zenon
  <2>13. Len(s) = t + Len(b) /\ t + Len(b) \in Nat
    BY <2>8, <2>11, <2>12, Zenon
  <2>. QED
    BY <2>9, <2>13, Zenon
<1>6. /\ Arriving = Arr(s, frames) /\ Len(frames) \in Nat
      /\ \A k \in 1..Len(frames) : frames[k] \in Frame
  BY <1>1, PlaceIs, Zenon DEF Place
<1>7. Laid(s, frames)
  BY <1>1, Zenon DEF Ordered
<1>8. PICK n : n = Len(b)
  OBVIOUS
<1>9. n \in Nat /\ Len(s) = t + n
  BY <1>5, <1>8, Zenon
<1>10. CASE h # 0
  <2>1. PICK f : f = frames[h]
    OBVIOUS
  <2>2. h \in 1..Len(frames) /\ h \in Nat
    BY <1>3, <1>6, <1>10
  <2>3. f \in Frame
    BY <1>6, <2>1, <2>2, Zenon
  <2>4. PICK hl, l : hl = f.hlen /\ l = f.len
    OBVIOUS
  <2>5. hl \in Nat /\ l \in Nat /\ Size(f) = hl + l
    BY <2>3, <2>4 DEF Frame, Size
  <2>6. ~ (l <= n)
    BY <1>1, <1>8, <1>10, <2>1, <2>4, Zenon DEF HasPayload
  <2>7. t > 0 /\ s[t] = <<h, hl>>
    BY <1>3, <1>10, <2>1, <2>4, Zenon DEF Stands
  <2>8. s[t][1] = h /\ s[t][2] = hl
    BY <2>7
  <2>9. t \in 1..Len(s) /\ t + n <= Len(s) /\ hl + n <= hl + l /\ hl + n # hl + l
    BY <1>3, <1>5, <1>9, <2>5, <2>6, <2>7
  <2>10. s[t][2] + n <= Size(frames[s[t][1]]) => s[t + n] = <<s[t][1], s[t][2] + n>>
    BY <1>7, <1>9, <2>9, Zenon DEF Laid
  <2>11. s[Len(s)] = <<h, hl + n>>
    BY <1>9, <2>1, <2>5, <2>8, <2>9, <2>10, Zenon
  <2>12. Len(s) # 0
    BY <1>5, <2>9
  <2>13. Arr(s, frames) = IF hl + n = Size(frames[h]) THEN h ELSE h - 1
    BY <2>11, <2>12, LastByte
  <2>14. Arriving = h - 1
    BY <1>6, <2>1, <2>5, <2>9, <2>13, Zenon
  <2>15. Current = h
    BY <1>3, <1>10, Zenon DEF Cur
  <2>. QED
    BY <2>2, <2>14, <2>15
<1>11. CASE h = 0 /\ b = <<>>
  <2>1. Len(s) = t
    <3>1. n = 0
      BY <1>8, <1>11
    <3>. QED
      BY <1>3, <1>9, <3>1
  <2>2. CASE t = 0
    <3>1. Arriving = 0 /\ Current = 1
      BY <1>3, <1>6, <1>11, <2>1, <2>2, Zenon DEF Arr, Cur
    <3>. QED
      BY <3>1
  <2>3. CASE t # 0
    <3>1. t > 0 /\ t \in 1..Len(s)
      BY <1>3, <2>1, <2>3
    <3>2. s[t][2] = Size(frames[s[t][1]])
      BY <1>3, <1>11, <3>1, Zenon DEF Stands
    <3>3. Arriving = s[t][1]
      BY <1>6, <2>1, <2>3, <3>2, Zenon DEF Arr
    <3>4. Current = s[t][1] + 1
      BY <1>3, <1>11, <2>3, Zenon DEF Cur
    <3>. QED
      BY <3>3, <3>4, Zenon
  <2>. QED
    BY <2>2, <2>3
<1>12. CASE h = 0 /\ b # <<>>
  <2>1. PICK k : k = parse(codec)
    OBVIOUS
  <2>2. codec.header = 0 /\ k = 0 /\ b = codec.in_buffer
    <3>1. "None" # "InvalidOpcode"
      OBVIOUS
    <3>. QED
      BY <1>1, <1>12, <2>1, <3>1, ParseCases, Zenon
  <2>3. n > 0 /\ t < Len(s) /\ t + 1 \in 1..Len(s) /\ 1 \in 1..n
    <3>1. n # 0
      BY <1>4, <1>8, <1>12, EmptySeq
    <3>. QED
      BY <1>3, <1>5, <1>9, <3>1
  <2>4. PICK c : c = Cur(s, t, 0)
    OBVIOUS
  <2>5. s[t + 1] = <<c, 1>> /\ c \in 1..Len(frames)
    BY <1>3, <1>5, <1>7, <1>12, <2>3, <2>4, NextByte
  <2>6. b[1] = s[t + 1]
    <3>1. Behind(stream, t, p.c.in_buffer)
      BY <1>2, ParsedStands
    <3>. QED
      BY <1>1, <1>8, <2>3, <3>1, Zenon DEF Behind
  <2>7. b[1][1] = c /\ s[t + 1][1] = c /\ s[t + 1][2] = 1
    BY <2>5, <2>6
  <2>8. PICK f : f = frames[c]
    OBVIOUS
  <2>9. PICK hl, l : hl = f.hlen /\ l = f.len
    OBVIOUS
  <2>10. hl \in Nat /\ l \in Nat /\ Size(f) = hl + l
    <3>1. f \in Frame
      BY <1>6, <2>5, <2>8, Zenon
    <3>. QED
      BY <2>9, <3>1 DEF Frame, Size
  <2>11. n < hl
    <3>1. c # 0
      BY <2>5
    <3>2. parse(codec) = IF n < hl THEN 0 ELSE c
      BY <1>8, <1>12, <2>2, <2>7, <2>8, <2>9, Zenon DEF parse
    <3>. QED
      BY <2>1, <2>2, <3>1, <3>2, Zenon
  <2>12. PICK m : m = n - 1
    OBVIOUS
  <2>13. /\ m \in Nat /\ t + 1 + m <= Len(s) /\ t + 1 + m = t + n /\ 1 + m = n
         /\ n <= hl + l /\ n # hl + l
    BY <1>3, <1>9, <2>3, <2>10, <2>11, <2>12
  <2>14. s[t + 1][2] + m <= Size(frames[s[t + 1][1]]) =>
           s[t + 1 + m] = <<s[t + 1][1], s[t + 1][2] + m>>
    BY <1>7, <2>3, <2>13, Zenon DEF Laid
  <2>15. s[Len(s)] = <<c, n>>
    BY <1>9, <2>7, <2>8, <2>10, <2>13, <2>14, Zenon
  <2>16. Len(s) # 0
    BY <1>5, <2>3
  <2>17. Arr(s, frames) = IF n = Size(frames[c]) THEN c ELSE c - 1
    BY <2>15, <2>16, LastByte
  <2>18. Arriving = c - 1 /\ Current = c
    BY <1>3, <1>6, <1>12, <2>4, <2>8, <2>10, <2>13, <2>17, Zenon
  <2>19. c \in Nat
    BY <1>6, <2>5
  <2>. QED
    BY <2>18, <2>19
<1>. QED
  BY <1>10, <1>11, <1>12

\* The reader's calls: what they leave alone, and that they are made.
LEMMA Calls ==
  ASSUME ret # "MessageTooLong", UNCHANGED <<frames, stream, ended, args>>,
         Channel!Wait \/ Channel!Take \/ Channel!Refuse \/ Channel!Finish \/ Channel!Fail
  PROVE  Channel!Read
<1>1. Arriving' = Arriving
  BY DEF Arriving
<1>. QED
  BY <1>1, Zenon DEF Channel!Read

\* What the channel allows, in the reader's words.
LEMMA AllowedIs ==
  ASSUME Queued, ret # "MessageTooLong", Current \in 1..Len(frames)
  PROVE  Channel!Allowed <=>
           /\ ~ frames[Current].reserved
           /\ codec.header # 0 \/ ~ TooLong(frames[Current], args)
<1>1. PICK c : c = Current
  OBVIOUS
<1>2. frames[c] \in FrameKinds
  BY <1>1, ElementOfSeq DEF Queued
<1>3. frames[c] \notin {g \in FrameKinds : g.reserved} <=> ~ frames[c].reserved
  BY <1>2
<1>. QED
  BY <1>1, <1>3, Zenon DEF Channel!Allowed

\* An iteration that takes no frame may admit the one in front.
LEMMA Leaves ==
  ASSUME Inv, Ordered, Queued, ret # "MessageTooLong", ret' # "MessageTooLong",
         NEW p, p = ParseHeader(codec), p.err = "None", codec'.header = p.c.header,
         Current' = Current, delivered' = delivered
  PROVE  Channel!Leave
<1>1. CASE p.c.header = 0
  <2>1. codec.header = 0
    BY <1>1 DEF ParseHeader
  <2>2. (codec'.header # 0 /\ ret' # "MessageTooLong") = (codec.header # 0 /\ ret # "MessageTooLong")
    BY <1>1, <2>1
  <2>. QED
    BY <2>2, Zenon DEF Channel!Leave
<1>2. CASE p.c.header # 0
  <2>1. /\ Current \in 1..Len(frames) /\ ~ frames[Current].reserved
        /\ codec.header # 0 \/ ~ TooLong(frames[Current], args)
    BY <1>2, HeaderAllowed
  <2>2. Channel!Allowed
    BY <2>1, AllowedIs, Zenon
  <2>3. (codec'.header # 0 /\ ret' # "MessageTooLong") = TRUE
    BY <1>2
  <2>4. Current <= Len(frames)
    BY <2>1
  <2>. QED
    BY <2>2, <2>3, <2>4, Zenon DEF Channel!Leave
<1>. QED
  BY <1>1, <1>2

LEMMA ReadRefusedChannel ==
  ASSUME RetriesTooLong = FALSE, Inv, Ordered, Queued, Inv', ReadRefused
  PROVE  Queued' /\ Channel!Read
<1>1. PICK p : p = ParseHeader(codec)
  OBVIOUS
<1>2. /\ p.err # "None" /\ Iterate(p) /\ ret' = p.err
      /\ frames' = frames /\ stream' = stream /\ ended' = ended /\ delivered' = delivered
      /\ args' = args
  BY <1>1 DEF ReadRefused
<1>3. /\ taken' = taken \o SubSeq(codec.in_buffer, 1, p.used) /\ codec' = p.c
      /\ ret # "MessageTooLong"
  BY <1>2 DEF Iterate, CallsAgain
<1>4. codec'.header = p.c.header
  BY <1>3
<1>5. Queued' /\ Current' = Current
  BY <1>1, <1>2, <1>3, <1>4, IterateQueued
<1>6. PICK t : t = Len(taken \o SubSeq(codec.in_buffer, 1, p.used))
  OBVIOUS
<1>7. /\ Current \in 1..Len(frames)
      /\ p.err = "InvalidOpcode" => frames[Current].reserved
      /\ p.err = "MessageTooLong" => ~ frames[Current].reserved /\ TooLong(frames[Current], args)
  BY <1>1, <1>2, <1>6, ParsedStands, Zenon
<1>8. p.err = "InvalidOpcode" \/ p.err = "MessageTooLong"
  BY <1>1, <1>2, Parsed
<1>9. codec.header = 0
  BY <1>1, <1>2 DEF ParseHeader
<1>10. ~ Channel!Allowed
  BY <1>3, <1>7, <1>8, <1>9, AllowedIs
<1>11. ret' = IF frames[Current] \in {g \in FrameKinds : g.reserved}
                THEN "InvalidOpcode" ELSE "MessageTooLong"
  <2>1. PICK c : c = Current
    OBVIOUS
  <2>2. frames[c] \in FrameKinds
    BY <1>7, <2>1, ElementOfSeq DEF Queued
  <2>3. CASE p.err = "InvalidOpcode"
    BY <1>2, <1>7, <2>1, <2>2, <2>3
  <2>4. CASE p.err = "MessageTooLong"
    BY <1>2, <1>7, <2>1, <2>2, <2>4
  <2>. QED
    BY <1>8, <2>3, <2>4
<1>12. (codec'.header # 0 /\ ret' # "MessageTooLong") = (codec.header # 0 /\ ret # "MessageTooLong")
  <2>1. CASE p.err = "InvalidOpcode"
    <3>1. p.c.header = 0
      BY <1>1, <1>9, <2>1, ParseCases
    <3>. QED
      BY <1>4, <1>9, <3>1
  <2>2. CASE p.err = "MessageTooLong"
    BY <1>2, <1>9, <2>2
  <2>. QED
    BY <1>8, <2>1, <2>2
<1>13. Current <= Len(frames)
  BY <1>7
<1>14. Channel!Refuse
  BY <1>2, <1>5, <1>10, <1>11, <1>12, <1>13, Zenon DEF Channel!Refuse
<1>. QED
  BY <1>2, <1>3, <1>5, <1>14, Calls

LEMMA ReadFrameChannel ==
  ASSUME RetriesTooLong = FALSE, Inv, Ordered, Queued, Inv', ReadFrame
  PROVE  Queued' /\ Channel!Read
<1>1. PICK f, c : f = frames[Current] /\ c = Current
  OBVIOUS
<1>2. /\ ret # "MessageTooLong" /\ ParseHeader(codec).err = "None"
      /\ frames' = frames /\ stream' = stream /\ ended' = ended /\ args' = args
  BY DEF ReadFrame, CallsAgain
<1>3. /\ Queued' /\ Current' = c + 1
      /\ c \in 1..Len(frames) /\ c <= Arriving /\ ~ f.reserved
      /\ c = ParseHeader(codec).c.header
      /\ IF NotMasked(f, args)
           THEN ret' = "UnmaskedFrameFromClient" /\ delivered' = delivered
           ELSE /\ ret' = "Frame"
                /\ delivered' = Append(delivered, [frame |-> c, payload |-> Payload(f, c)])
  BY <1>1, ReadFrameQueued, Zenon
<1>4. Channel!Allowed
  <2>1. PICK p : p = ParseHeader(codec)
    OBVIOUS
  <2>2. p.err = "None" /\ p.c.header # 0
    BY <1>2, <1>3, <2>1
  <2>3. /\ Current \in 1..Len(frames) /\ ~ frames[Current].reserved
        /\ codec.header # 0 \/ ~ TooLong(frames[Current], args)
    BY <2>1, <2>2, HeaderAllowed
  <2>. QED
    BY <1>2, <2>3, AllowedIs, Zenon
<1>5. (codec'.header # 0 /\ ret' # "MessageTooLong") = FALSE
  <2>1. PICK p : p = ParseHeader(codec)
    OBVIOUS
  <2>2. codec' = [advance(p.c, frames[p.c.header].len) EXCEPT !.header = 0] /\ p.c \in Codec
    BY <2>1, Parsed DEF ReadFrame
  <2>3. codec'.header = 0
    BY <2>2 DEF advance, Codec
  <2>. QED
    BY <2>3
<1>6. Channel!Take
  BY <1>1, <1>3, <1>4, <1>5, Zenon DEF Channel!Take
<1>. QED
  BY <1>2, <1>3, <1>6, Calls

LEMMA ReadMoreChannel ==
  ASSUME RetriesTooLong = FALSE, Inv, Ordered, Queued, Inv', ReadMore
  PROVE  Queued' /\ Channel!Read
<1>1. PICK p : p = ParseHeader(codec)
  OBVIOUS
<1>2. PICK n \in ReadSizes(p.c) : codec' = read_in(p.c, SubSeq(wire, 1, n))
  BY <1>1 DEF ReadMore
<1>3. /\ taken' = taken \o SubSeq(codec.in_buffer, 1, p.used) /\ ret' = "Loop"
      /\ ret # "MessageTooLong" /\ delivered' = delivered
      /\ frames' = frames /\ stream' = stream /\ ended' = ended /\ args' = args
      /\ p.err = "None"
  BY <1>1 DEF ReadMore, CallsAgain
<1>4. codec'.header = p.c.header
  <2>1. p.c \in Codec
    BY <1>1, Parsed
  <2>2. PICK z : z = SubSeq(wire, 1, n)
    OBVIOUS
  <2>3. codec' = read_in(p.c, z)
    BY <1>2, <2>2
  <2>. QED
    BY <2>1, <2>3 DEF read_in, Codec
<1>5. Queued' /\ Current' = Current
  BY <1>1, <1>3, <1>4, IterateQueued
<1>6. Channel!Leave
  BY <1>1, <1>3, <1>4, <1>5, Leaves
<1>7. Channel!Wait
  BY <1>3, <1>6, Zenon DEF Channel!Wait
<1>. QED
  BY <1>3, <1>5, <1>7, Calls

LEMMA ReadNoneChannel ==
  ASSUME RetriesTooLong = FALSE, Inv, Ordered, Queued, Careful, Inv', ReadNone
  PROVE  Queued' /\ Channel!Read
<1>1. PICK p : p = ParseHeader(codec)
  OBVIOUS
<1>2. /\ p.err = "None" /\ ~ HasPayload(p.c) /\ Iterate(p) /\ ret' = "NoFrame"
      /\ frames' = frames /\ stream' = stream /\ ended' = ended /\ delivered' = delivered
      /\ args' = args
  BY <1>1 DEF ReadNone
<1>3. /\ taken' = taken \o SubSeq(codec.in_buffer, 1, p.used) /\ codec' = p.c
      /\ ret # "MessageTooLong"
  BY <1>2 DEF Iterate, CallsAgain
<1>4. codec'.header = p.c.header
  BY <1>3
<1>5. Queued' /\ Current' = Current
  BY <1>1, <1>2, <1>3, <1>4, IterateQueued
<1>6. wire = <<>> /\ ended
  BY <1>3, ReadNoneAtEnd
<1>7. Current = Arriving + 1
  BY <1>1, <1>2, <1>6, EndIsEnd
<1>8. Current > Arriving
  <2>1. Arriving \in 0..Len(frames)
    BY ArrivingIs, Zenon DEF Arrives
  <2>2. Len(frames) \in Nat
    BY PlaceIs, Zenon DEF Place
  <2>. QED
    BY <1>7, <2>1, <2>2
<1>9. Channel!Leave
  BY <1>1, <1>2, <1>3, <1>4, <1>5, Leaves
<1>10. Channel!Finish
  BY <1>2, <1>6, <1>8, <1>9, Zenon DEF Channel!Finish
<1>. QED
  BY <1>2, <1>3, <1>5, <1>10, Calls

LEMMA ReadFailsChannel ==
  ASSUME RetriesTooLong = FALSE, Inv, Ordered, Queued, Inv', ReadFails
  PROVE  Queued' /\ Channel!Read
<1>1. PICK p : p = ParseHeader(codec)
  OBVIOUS
<1>2. /\ p.err = "None" /\ Iterate(p) /\ ret' \in StreamErrors
      /\ frames' = frames /\ stream' = stream /\ ended' = ended /\ delivered' = delivered
      /\ args' = args
  BY <1>1 DEF ReadFails
<1>3. /\ taken' = taken \o SubSeq(codec.in_buffer, 1, p.used) /\ codec' = p.c
      /\ ret # "MessageTooLong"
  BY <1>2 DEF Iterate, CallsAgain
<1>4. codec'.header = p.c.header
  BY <1>3
<1>5. Queued' /\ Current' = Current
  BY <1>1, <1>2, <1>3, <1>4, IterateQueued
<1>6. Channel!Leave
  BY <1>1, <1>2, <1>3, <1>4, <1>5, ErrorsAssumption, Leaves
<1>7. Channel!Fail
  BY <1>2, <1>6, Zenon DEF Channel!Fail
<1>. QED
  BY <1>2, <1>3, <1>5, <1>7, Calls

\* Every step is a step of the channel or invisible.
LEMMA StepImplements ==
  ASSUME RetriesTooLong = FALSE, Inv, Ordered, Queued, Careful, Inv', Ordered', [Next]_vars
  PROVE  Queued' /\ [Channel!Next]_(Channel!vars)
<1>1. CASE ReadRefused
  BY <1>1, ReadRefusedChannel DEF Channel!Next
<1>2. CASE ReadFrame
  BY <1>2, ReadFrameChannel DEF Channel!Next
<1>3. CASE ReadMore
  BY <1>3, ReadMoreChannel DEF Channel!Next
<1>4. CASE ReadNone
  BY <1>4, ReadNoneChannel DEF Channel!Next
<1>5. CASE ReadFails
  BY <1>5, ReadFailsChannel DEF Channel!Next
<1>6. CASE PeerSends
  BY <1>6, PeerSendsQueued DEF Channel!Next
<1>7. CASE PeerCloses
  BY <1>7, PeerClosesQueued DEF Channel!Next
<1>8. CASE SetArguments \/ Stopped \/ UNCHANGED vars
  <2>1. /\ frames' = frames /\ stream' = stream /\ ended' = ended /\ codec' = codec
        /\ taken' = taken /\ delivered' = delivered /\ ret' = ret
        /\ args' = args \/ (ret # "Loop" /\ args' \in Arguments)
    BY <1>8 DEF SetArguments, Stopped, vars
  <2>2. Arriving' = Arriving /\ Current' = Current
    BY <2>1, Zenon DEF Arriving, Current
  <2>3. Queued'
    BY <2>1, Zenon DEF Queued
  <2>4. Channel!Change \/ UNCHANGED Channel!vars
    BY <2>1, <2>2, Zenon DEF Channel!vars, Channel!Change
  <2>. QED
    BY <2>3, <2>4, Zenon DEF Channel!Next
<1>. QED
  BY <1>1, <1>2, <1>3, <1>4, <1>5, <1>6, <1>7, <1>8, Zenon DEF Next, Read

\* For a caller that gives up behind MessageTooLong, read_frame makes a queue of
\* frames of the byte stream: each is taken once, in order and whole, none is skipped,
\* one that is refused stays in front, and "no frame" means that no whole one is left;
\* for all frames, sizes of reads, failures of the stream and ways it may end.
THEOREM ReaderImplementsChannel ==
  ASSUME RetriesTooLong = FALSE
  PROVE  Spec => ImplementsFrames
<1>1. Init => Inv /\ Ordered /\ Careful /\ Queued /\ Channel!Init
  BY InitInv, InitOrdered, InitCareful, InitQueued
<1>2. Inv /\ Ordered /\ Careful /\ Queued /\ [Next]_vars =>
        Inv' /\ Ordered' /\ Careful' /\ Queued' /\ [Channel!Next]_(Channel!vars)
  <2>1. Inv /\ Ordered /\ Careful /\ [Next]_vars => Inv' /\ Ordered' /\ Careful'
    BY NextInv, NextOrdered, NextCareful
  <2>. QED
    BY <2>1, StepImplements
<1>. QED
  BY <1>1, <1>2, PTL DEF Spec, ImplementsFrames, Channel!Spec

=============================================================================
