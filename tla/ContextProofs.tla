---------------------------- MODULE ContextProofs ----------------------------
(***************************************************************************)
(* What every operator of WebSocketContext preserves, for all values of    *)
(* the constants: one lemma per operator, in the order the operators call  *)
(* each other.                                                             *)
(***************************************************************************)
EXTENDS WebSocketContext, SequenceTheorems, TLAPS

Result == [c : Context, err : Error, should_flush : BOOLEAN, msg : Frame]

-----------------------------------------------------------------------------
(* Types *)

\* The frames the code makes are frames.
LEMMA FrameTypes ==
  /\ NoFrame \in Frame
  /\ \A op \in DataOp \cup ControlOp : \A n \in Nat : MakeFrame(op, n) \in Frame
  /\ \A code \in CloseCode : \A n \in Nat : CloseFrame(code, n) \in Frame
  /\ \A f \in Frame, n \in Nat : Compressed(f, n) \in Frame
BY DEF NoFrame, MakeFrame, CloseFrame, Compressed, Frame, DataOp, ControlOp,
       Utf8Class, CloseCode

\* A frame occupies a positive number of bytes.
LEMMA FrameLenType ==
  ASSUME NEW f \in Frame PROVE FrameLen(f) \in Nat \ {0}
BY HeaderLenAssumption, MaskLenAssumption DEF FrameLen, Frame

LEMMA ResultTypes ==
  ASSUME NEW c \in Context
  PROVE  /\ Ok(c) \in Result
         /\ \A e \in Error : Err(c, e) \in Result
         /\ \A m \in Frame : Value(c, m) \in Result
         /\ \A b \in BOOLEAN : ShouldFlush(c, b) \in Result
         /\ \A f \in Frame : WriteBufferFull(c, f) \in Result
BY FrameTypes DEF Ok, Err, Value, ShouldFlush, WriteBufferFull, Res, Result, Error

-----------------------------------------------------------------------------
(* Sequences of bytes *)

LEMMA ConcatBytes ==
  ASSUME NEW s \in Seq(Byte), NEW t \in Seq(Byte), NEW u \in Seq(Byte)
  PROVE  /\ s \o t \in Seq(Byte)
         /\ Len(s \o t) = Len(s) + Len(t)
         /\ s \o (t \o u) = (s \o t) \o u
<1>1. s \o t \in Seq(Byte) /\ Len(s \o t) = Len(s) + Len(t)
  BY ConcatProperties
<1>2. (s \o t) \o u = s \o (t \o u)
  BY ConcatAssociative
<1> QED BY <1>1, <1>2, Zenon

\* Moving the first n elements of t to the end of s leaves s \o t as it was.
LEMMA MovePrefix ==
  ASSUME NEW s \in Seq(Byte), NEW t \in Seq(Byte), NEW n \in 0..Len(t)
  PROVE  /\ SubSeq(t, 1, n) \in Seq(Byte)
         /\ SubSeq(t, n + 1, Len(t)) \in Seq(Byte)
         /\ Len(SubSeq(t, n + 1, Len(t))) = Len(t) - n
         /\ (s \o SubSeq(t, 1, n)) \o SubSeq(t, n + 1, Len(t)) = s \o t
<1> DEFINE u == SubSeq(t, 1, n)
           v == SubSeq(t, n + 1, Len(t))
<1>1. Len(t) \in Nat
  OBVIOUS
<1>2. u \in Seq(Byte) /\ v \in Seq(Byte) /\ Len(u) = n /\ Len(v) = Len(t) - n
  BY <1>1
<1>3. /\ \A i \in 1..n : u[i] = t[i]
      /\ \A i \in 1..(Len(t) - n) : v[i] = t[n + i]
  BY <1>1
<1> DEFINE x == s \o u
           y == x \o v
           w == s \o t
<1>4. /\ x \in Seq(Byte) /\ Len(x) = Len(s) + n
      /\ \A i \in 1..(Len(s) + n) : x[i] = IF i <= Len(s) THEN s[i] ELSE u[i - Len(s)]
  BY <1>2, ConcatProperties
<1>5. /\ w \in Seq(Byte) /\ Len(w) = Len(s) + Len(t)
      /\ \A i \in 1..(Len(s) + Len(t)) : w[i] = IF i <= Len(s) THEN s[i] ELSE t[i - Len(s)]
  BY ConcatProperties
<1> HIDE DEF u, v, x, w
<1>6. x \in Seq(Byte) /\ v \in Seq(Byte)
  BY <1>2, <1>4
<1>7. /\ y \in Seq(Byte) /\ Len(y) = Len(x) + Len(v)
      /\ \A i \in 1..(Len(x) + Len(v)) : y[i] = IF i <= Len(x) THEN x[i] ELSE v[i - Len(x)]
  BY <1>6, ConcatProperties, Zenon
<1> HIDE DEF y
<1>8. Len(s) \in Nat /\ n \in Nat /\ Len(y) = Len(s) + Len(t) /\ Len(y) = Len(w)
  BY <1>1, <1>2, <1>4, <1>5, <1>7
<1>9. ASSUME NEW i \in 1..Len(y) PROVE y[i] = w[i]
  <2>1. CASE i <= Len(s)
    <3>1. y[i] = x[i]
      BY <2>1, <1>2, <1>4, <1>7, <1>8
    <3>2. x[i] = s[i] /\ w[i] = s[i]
      BY <2>1, <1>1, <1>4, <1>5, <1>8
    <3> QED BY <3>1, <3>2
  <2>2. CASE i > Len(s) /\ i <= Len(s) + n
    <3> DEFINE j == i - Len(s)
    <3>1. j \in 1..n /\ j \in 1..Len(t)
      BY <2>2, <1>1, <1>8
    <3>2. y[i] = x[i]
      BY <2>2, <1>2, <1>4, <1>7, <1>8
    <3>3. x[i] = u[j] /\ w[i] = t[j]
      BY <2>2, <1>1, <1>4, <1>5, <1>8
    <3> QED BY <3>1, <3>2, <3>3, <1>3
  <2>3. CASE i > Len(s) + n
    <3> DEFINE j == i - (Len(s) + n)
    <3>1. j \in 1..(Len(t) - n) /\ n + j = i - Len(s)
      BY <2>3, <1>1, <1>8
    <3>2. y[i] = v[j]
      BY <2>3, <1>2, <1>4, <1>7, <1>8
    <3>3. w[i] = t[n + j]
      BY <2>3, <1>1, <1>5, <1>8
    <3>4. v[j] = t[n + j]
      BY <3>1, <1>3
    <3> QED BY <3>2, <3>3, <3>4
  <2> QED BY <2>1, <2>2, <2>3, <1>8
<1>10. y = w
  BY <1>5, <1>7, <1>8, <1>9, SeqEqual
<1> QED BY <1>2, <1>10 DEF u, v, x, y, w

LEMMA FrameBytesType ==
  ASSUME NEW n \in Nat, NEW f \in Frame
  PROVE  /\ FrameBytes(n, f) \in Seq(Byte)
         /\ Len(FrameBytes(n, f)) = FrameLen(f)
         /\ \A i \in 1..FrameLen(f) : FrameBytes(n, f)[i] = <<n, i>>
<1>1. FrameLen(f) \in Nat
  BY FrameLenType
<1>2. FrameBytes(n, f) \in [1..FrameLen(f) -> Byte]
  BY <1>1 DEF FrameBytes, Byte
<1>3. FrameBytes(n, f) \in Seq(Byte)
  BY <1>1, <1>2, SeqDef
<1> QED BY <1>1, <1>2, <1>3 DEF FrameBytes

\* The bytes of one more frame extend a framed run.
LEMMA FramedAppend ==
  ASSUME NEW q \in Seq(Byte), NEW sent \in Seq(Frame), NEW f \in Frame,
         Framed(q, sent)
  PROVE  Framed(q \o FrameBytes(Len(sent) + 1, f), Append(sent, f))
<1> DEFINE N == Len(sent) + 1
           L == FrameLen(f)
           b == FrameBytes(N, f)
           p == q \o b
           more == Append(sent, f)
<1>1. Len(sent) \in Nat /\ N \in Nat /\ L \in Nat \ {0} /\ Len(q) \in Nat
  BY FrameLenType
<1>2. b \in Seq(Byte) /\ Len(b) = L /\ \A i \in 1..L : b[i] = <<N, i>>
  BY <1>1, FrameBytesType
<1>3. /\ more \in Seq(Frame) /\ Len(more) = N /\ more[N] = f
      /\ \A i \in 1..Len(sent) : more[i] = sent[i]
  OBVIOUS
<1> HIDE DEF b, more, L, N
<1>4. /\ p \in Seq(Byte) /\ Len(p) = Len(q) + L
      /\ \A k \in 1..Len(q) : p[k] = q[k]
      /\ \A i \in 1..L : p[Len(q) + i] = <<N, i>>
  <2>1. /\ p \in Seq(Byte) /\ Len(p) = Len(q) + L
        /\ \A k \in 1..(Len(q) + L) : p[k] = IF k <= Len(q) THEN q[k] ELSE b[k - Len(q)]
    BY <1>2, ConcatProperties
  <2> HIDE DEF p
  <2>2. \A k \in 1..Len(q) : p[k] = q[k]
    BY <2>1, <1>1
  <2>3. \A i \in 1..L : p[Len(q) + i] = b[i]
    BY <2>1, <1>1
  <2> QED BY <2>1, <2>2, <2>3, <1>2
<1> HIDE DEF p
<1>5. \A k \in 1..Len(p) :
        p[k][1] \in 1..Len(more) /\ p[k][2] \in 1..FrameLen(more[p[k][1]])
  <2> TAKE k \in 1..Len(p)
  <2>1. CASE k \in 1..Len(q)
    <3>1. q[k][1] \in 1..Len(sent) /\ q[k][2] \in 1..FrameLen(sent[q[k][1]])
      BY <2>1 DEF Framed
    <3>2. p[k] = q[k] /\ more[q[k][1]] = sent[q[k][1]]
      BY <2>1, <3>1, <1>3, <1>4
    <3> QED BY <3>1, <3>2, <1>1, <1>3 DEF N
  <2>2. CASE k \notin 1..Len(q)
    <3> DEFINE i == k - Len(q)
    <3>1. i \in 1..L /\ k = Len(q) + i
      BY <2>2, <1>1, <1>4
    <3>2. p[k] = <<N, i>>
      BY <3>1, <1>4
    <3> QED BY <3>1, <3>2, <1>1, <1>3 DEF N, L
  <2> QED BY <2>1, <2>2
<1>6. \A k \in 1..(Len(p) - 1) : p[k + 1] = NextByte(more, p[k])
  <2> TAKE k \in 1..(Len(p) - 1)
  <2>1. CASE k \in 1..(Len(q) - 1)
    <3>1. q[k + 1] = NextByte(sent, q[k]) /\ q[k][1] \in 1..Len(sent)
      BY <2>1, <1>1 DEF Framed
    <3>2. p[k] = q[k] /\ p[k + 1] = q[k + 1] /\ more[q[k][1]] = sent[q[k][1]]
      BY <2>1, <3>1, <1>1, <1>3, <1>4
    <3> QED BY <3>1, <3>2 DEF NextByte
  <2>2. CASE k = Len(q)
    <3>1. sent # <<>>
      <4> SUFFICES ASSUME sent = <<>> PROVE FALSE
        OBVIOUS
      <4>1. q[1][1] \in 1..Len(sent)
        BY <2>2, <1>1 DEF Framed
      <4> QED BY <4>1
    <3>2. q[Len(q)] = <<Len(sent), FrameLen(sent[Len(sent)])>>
      BY <3>1 DEF Framed
    <3>3. Len(sent) \in 1..Len(sent)
      BY <3>1, <1>1
    <3>4. p[k] = <<Len(sent), FrameLen(more[Len(sent)])>>
      BY <2>2, <3>2, <3>3, <1>1, <1>3, <1>4
    <3>5. p[k + 1] = <<N, 1>>
      BY <2>2, <1>1, <1>4
    <3>6. NextByte(more, p[k]) = <<Len(sent) + 1, 1>>
      <4>1. more[Len(sent)] \in Frame
        BY <3>3, <1>3
      <4>2. FrameLen(more[Len(sent)]) \in Nat
        BY <4>1, FrameLenType
      <4> QED BY <3>4, <4>2 DEF NextByte
    <3> QED BY <3>5, <3>6 DEF N
  <2>3. CASE k > Len(q)
    <3> DEFINE i == k - Len(q)
    <3>1. i \in 1..L /\ i + 1 \in 1..L /\ k = Len(q) + i /\ k + 1 = Len(q) + (i + 1)
      BY <2>3, <1>1, <1>4
    <3> HIDE DEF i
    <3>2. p[k] = <<N, i>> /\ p[k + 1] = <<N, i + 1>>
      BY <3>1, <1>4
    <3>3. FrameLen(more[N]) = L /\ i < L
      BY <3>1, <1>1, <1>3 DEF L
    <3> QED BY <3>2, <3>3 DEF NextByte
  <2> QED BY <2>1, <2>2, <2>3, <1>1, <1>4
<1>7. p # <<>> /\ p[1] = <<1, 1>> /\ p[Len(p)] = <<N, L>>
  <2>1. p[Len(p)] = <<N, L>> /\ Len(p) > 0
    BY <1>1, <1>4
  <2>2. CASE sent = <<>>
    <3>1. Len(q) = 0
      <4> SUFFICES ASSUME Len(q) # 0 PROVE FALSE
        OBVIOUS
      <4>1. q[1][1] \in 1..Len(sent)
        BY <1>1 DEF Framed
      <4> QED BY <2>2, <4>1
    <3> QED BY <2>1, <2>2, <3>1, <1>1, <1>4 DEF N
  <2>3. CASE sent # <<>>
    <3>1. q # <<>> /\ q[1] = <<1, 1>>
      BY <2>3 DEF Framed
    <3> QED BY <2>1, <3>1, <1>1, <1>4
  <2> QED BY <2>2, <2>3
<1>8. Len(more) = N /\ FrameLen(more[Len(more)]) = L
  BY <1>3 DEF L
<1>9. Framed(p, more)
  BY <1>5, <1>6, <1>7, <1>8 DEF Framed
<1> QED BY <1>9 DEF p, b, more, N

\* Bytes come in the order of their frames and of their places in a frame.  It
\* follows from Framed by induction; stated for any two places it needs none.
Ascending(q) ==
  \A k, l \in 1..Len(q) :
    k < l => q[k][1] < q[l][1] \/ (q[k][1] = q[l][1] /\ q[k][2] < q[l][2])

LEMMA AscendingAppend ==
  ASSUME NEW q \in Seq(Byte), NEW sent \in Seq(Frame), NEW f \in Frame,
         Framed(q, sent), Ascending(q)
  PROVE  Ascending(q \o FrameBytes(Len(sent) + 1, f))
<1>1. PICK N : N = Len(sent) + 1
  OBVIOUS
<1>2. PICK b : b = FrameBytes(N, f)
  OBVIOUS
<1>3. N \in Nat /\ Len(q) \in Nat /\ Len(sent) \in Nat
  BY <1>1, LenProperties
<1>4. /\ b \in Seq(Byte) /\ Len(b) = FrameLen(f) /\ Len(b) \in Nat
      /\ \A i \in 1..Len(b) : b[i] = <<N, i>>
  BY <1>2, <1>3, FrameBytesType, FrameLenType
<1>5. PICK p : p = q \o b
  OBVIOUS
<1>6. /\ Len(p) = Len(q) + Len(b)
      /\ \A k \in 1..Len(q) : p[k] = q[k]
      /\ \A i \in 1..Len(b) : p[Len(q) + i] = b[i]
  <2>1. /\ Len(p) = Len(q) + Len(b)
        /\ \A k \in 1..(Len(q) + Len(b)) : p[k] = IF k <= Len(q) THEN q[k] ELSE b[k - Len(q)]
    BY <1>4, <1>5, ConcatProperties, Zenon
  <2>2. \A k \in 1..Len(q) : p[k] = q[k]
    BY <2>1, <1>3, <1>4
  <2>3. \A i \in 1..Len(b) : p[Len(q) + i] = b[i]
    BY <2>1, <1>3, <1>4
  <2> QED BY <2>1, <2>2, <2>3
<1>7. \A k \in 1..Len(q) : q[k][1] \in 1..Len(sent)
  BY DEF Framed
<1>8. ASSUME NEW k \in 1..Len(p), NEW l \in 1..Len(p), k < l
      PROVE  p[k][1] < p[l][1] \/ (p[k][1] = p[l][1] /\ p[k][2] < p[l][2])
  <2>1. CASE l <= Len(q)
    <3>1. k \in 1..Len(q) /\ l \in 1..Len(q)
      BY <1>3, <1>4, <1>6, <1>8, <2>1
    <3>2. p[k] = q[k] /\ p[l] = q[l]
      BY <1>6, <3>1
    <3> QED BY <1>8, <3>1, <3>2 DEF Ascending
  <2>2. CASE l > Len(q)
    <3>1. PICK j : j = l - Len(q)
      OBVIOUS
    <3>2. j \in 1..Len(b) /\ l = Len(q) + j
      BY <1>3, <1>4, <1>6, <2>2, <3>1
    <3>3. p[l] = <<N, j>>
      BY <1>4, <1>6, <3>2
    <3>4. CASE k \in 1..Len(q)
      <4>1. p[k][1] \in 1..Len(sent)
        BY <1>6, <1>7, <3>4
      <4> QED BY <1>1, <1>3, <3>3, <4>1
    <3>5. CASE k \notin 1..Len(q)
      <4>1. PICK i : i = k - Len(q)
        OBVIOUS
      <4>2. i \in 1..Len(b) /\ k = Len(q) + i /\ i < j
        BY <1>3, <1>4, <1>6, <1>8, <3>2, <3>5, <4>1
      <4>3. p[k] = <<N, i>>
        BY <1>4, <1>6, <4>2
      <4> QED BY <3>3, <4>2, <4>3
    <3> QED BY <3>4, <3>5
  <2> QED BY <1>3, <1>4, <1>6, <2>1, <2>2
<1>9. Ascending(p)
  BY <1>8 DEF Ascending
<1> QED BY <1>1, <1>2, <1>5, <1>9, Zenon

\* Sequence t begins with s.
Begins(s, t) == Len(s) <= Len(t) /\ \A i \in 1..Len(s) : t[i] = s[i]

LEMMA BeginsReflexive == ASSUME NEW S, NEW s \in Seq(S) PROVE Begins(s, s)
BY LenProperties DEF Begins

LEMMA BeginsTransitive ==
  ASSUME NEW S, NEW s \in Seq(S), NEW t \in Seq(S), NEW u \in Seq(S), Begins(s, t), Begins(t, u)
  PROVE  Begins(s, u)
BY LenProperties DEF Begins

LEMMA BeginsAppend ==
  ASSUME NEW S, NEW s \in Seq(S), NEW x \in S PROVE Begins(s, Append(s, x))
BY LenProperties, AppendProperties DEF Begins

LEMMA BeginsConcat ==
  ASSUME NEW S, NEW s \in Seq(S), NEW t \in Seq(S) PROVE Begins(s, s \o t)
<1>1. Len(s) \in Nat /\ Len(t) \in Nat /\ Len(s \o t) = Len(s) + Len(t)
  BY LenProperties, ConcatProperties
<1>2. \A i \in 1..Len(s) : (s \o t)[i] = s[i]
  BY <1>1, ConcatProperties
<1> QED BY <1>1, <1>2 DEF Begins

-----------------------------------------------------------------------------
(* What the operators preserve *)

\* The inductive invariant of a context: its type, the order of the codec's two
\* limits, whole frames on the wire, and a failed codec only in a connection
\* that is over.
Good(c) ==
  /\ c \in Context
  /\ c.out_buffer_write_len < c.max_out_buffer_len
  /\ Framed(c.wire \o c.out_buffer, c.sent) /\ Ascending(c.wire \o c.out_buffer)
  /\ c.compression_unusable => c.state = "Terminated"

\* What a call may do to the context c, leaving d.
Follows(c, d) ==
  /\ d.role = c.role
  /\ d.max_out_buffer_len = c.max_out_buffer_len
  /\ d.out_buffer_write_len = c.out_buffer_write_len
  /\ \/ Len(d.out_buffer) <= Len(c.out_buffer)
     \/ Len(d.out_buffer) <= c.max_out_buffer_len
  /\ MayFollow(c.state, d.state)
  /\ c.compression_unusable => d.compression_unusable
  /\ Begins(c.wire, d.wire) /\ Begins(c.sent, d.sent)

\* The results that are fine for a call on c.
Steps(c) == {r \in Result : Good(r.c) /\ Follows(c, r.c)}

LEMMA ContextFields ==
  ASSUME NEW c \in Context
  PROVE  /\ c.role \in Role /\ c.state \in WebSocketState
         /\ c.out_buffer \in Seq(Byte) /\ Len(c.out_buffer) \in Nat
         /\ c.wire \in Seq(Byte) /\ Len(c.wire) \in Nat
         /\ c.sent \in Seq(Frame) /\ Len(c.sent) \in Nat
         /\ c.max_out_buffer_len \in Nat /\ c.out_buffer_write_len \in Nat
         /\ c.max_message_size \in Nat
         /\ c.incomplete \in Incomplete /\ c.additional_send \in Frame
         /\ c.unflushed_additional \in BOOLEAN
<1>1. /\ c.role \in Role /\ c.state \in WebSocketState
      /\ c.out_buffer \in Seq(Byte) /\ c.wire \in Seq(Byte) /\ c.sent \in Seq(Frame)
      /\ c.max_out_buffer_len \in Nat /\ c.out_buffer_write_len \in Nat
      /\ c.max_message_size \in Nat
      /\ c.incomplete \in Incomplete /\ c.additional_send \in Frame
      /\ c.unflushed_additional \in BOOLEAN
  BY DEF Context
<1> QED BY <1>1, LenProperties

LEMMA FollowsReflexive ==
  ASSUME NEW c \in Context PROVE Follows(c, c)
<1>1. /\ c.wire \in Seq(Byte) /\ c.sent \in Seq(Frame) /\ Len(c.out_buffer) \in Nat
  BY ContextFields
<1>2. Begins(c.wire, c.wire) /\ Begins(c.sent, c.sent)
  BY <1>1, BeginsReflexive
<1> QED BY <1>1, <1>2 DEF Follows, MayFollow

LEMMA StepsTransitive ==
  ASSUME NEW c \in Context, NEW d \in Context, Follows(c, d)
  PROVE  Steps(d) \subseteq Steps(c)
<1>1. ASSUME NEW e \in Context, Follows(d, e) PROVE Follows(c, e)
  <2>1. Len(c.out_buffer) \in Nat /\ Len(d.out_buffer) \in Nat /\ Len(e.out_buffer) \in Nat
        /\ c.max_out_buffer_len \in Nat
    BY ContextFields
  <2>2. MayFollow(c.state, e.state)
    BY <1>1 DEF Follows, MayFollow
  <2>3. \A x \in {c, d, e} : x.wire \in Seq(Byte) /\ x.sent \in Seq(Frame)
    BY ContextFields
  <2>4. Begins(c.wire, d.wire) /\ Begins(d.wire, e.wire) /\ Begins(c.sent, d.sent) /\ Begins(d.sent, e.sent)
    BY <1>1 DEF Follows
  <2>5. Begins(c.wire, e.wire) /\ Begins(c.sent, e.sent)
    BY <2>3, <2>4, BeginsTransitive
  <2> QED BY <1>1, <2>1, <2>2, <2>5 DEF Follows
<1> QED BY <1>1 DEF Steps, Result

\* A step that leaves the buffer, the wire and the limits alone.
LEMMA SameBuffer ==
  ASSUME NEW c, Good(c), NEW d \in Context,
         d.wire = c.wire, d.out_buffer = c.out_buffer, d.sent = c.sent,
         d.role = c.role, d.max_out_buffer_len = c.max_out_buffer_len,
         d.out_buffer_write_len = c.out_buffer_write_len,
         MayFollow(c.state, d.state),
         c.compression_unusable => d.compression_unusable,
         d.compression_unusable => d.state = "Terminated"
  PROVE  Good(d) /\ Follows(c, d)
<1>1. Len(d.out_buffer) \in Nat /\ d.wire \in Seq(Byte) /\ d.sent \in Seq(Frame)
  BY ContextFields
<1>2. Begins(c.wire, d.wire) /\ Begins(c.sent, d.sent)
  BY <1>1, BeginsReflexive
<1> QED BY <1>1, <1>2 DEF Good, Follows

LEMMA DrainGood ==
  ASSUME NEW c, Good(c), NEW n \in 0..Len(c.out_buffer)
  PROVE  Good(Drain(c, n)) /\ Follows(c, Drain(c, n))
<1> DEFINE w == c.wire \o SubSeq(c.out_buffer, 1, n)
           b == SubSeq(c.out_buffer, n + 1, Len(c.out_buffer))
           d == [c EXCEPT !.wire = w, !.out_buffer = b]
<1>1. c \in Context /\ c.wire \in Seq(Byte) /\ c.out_buffer \in Seq(Byte)
  BY ContextFields DEF Good
<1>2. /\ SubSeq(c.out_buffer, 1, n) \in Seq(Byte) /\ b \in Seq(Byte)
      /\ Len(b) = Len(c.out_buffer) - n
      /\ w \o b = c.wire \o c.out_buffer
  BY <1>1, MovePrefix, Zenon
<1>3. w \in Seq(Byte)
  BY <1>1, <1>2, ConcatProperties
<1>4. Drain(c, n) = d
  BY <1>1 DEF Drain, Context
<1> HIDE DEF w, b
<1>5. d \in Context
  BY <1>1, <1>2, <1>3 DEF Context
<1>6. /\ d.wire = w /\ d.out_buffer = b /\ d.sent = c.sent /\ d.role = c.role
      /\ d.max_out_buffer_len = c.max_out_buffer_len
      /\ d.out_buffer_write_len = c.out_buffer_write_len
      /\ d.state = c.state /\ d.compression_unusable = c.compression_unusable
  BY <1>1 DEF Context
<1>7. Len(c.out_buffer) \in Nat /\ Len(b) <= Len(c.out_buffer)
  BY <1>1, <1>2
<1> HIDE DEF d
<1>8. Begins(c.wire, d.wire) /\ Begins(c.sent, d.sent)
  <2>1. Begins(c.wire, w)
    BY <1>1, <1>2, BeginsConcat DEF w
  <2>2. c.sent \in Seq(Frame)
    BY <1>1, ContextFields
  <2> QED BY <1>6, <2>1, <2>2, BeginsReflexive
<1> QED BY <1>2, <1>4, <1>5, <1>6, <1>7, <1>8 DEF Good, Follows, MayFollow

LEMMA WriteOutBuffer ==
  ASSUME NEW c, Good(c) PROVE write_out_buffer(c) \subseteq Steps(c)
<1> SUFFICES ASSUME NEW r \in write_out_buffer(c) PROVE r \in Steps(c)
  OBVIOUS
<1>1. Len(c.out_buffer) \in Nat
  BY ContextFields DEF Good
<1>2. CASE r = Ok(Drain(c, Len(c.out_buffer)))
  <2>1. Good(Drain(c, Len(c.out_buffer))) /\ Follows(c, Drain(c, Len(c.out_buffer)))
    BY <1>1, DrainGood
  <2>2. r \in Result
    BY <1>2, <2>1, ResultTypes DEF Good
  <2> QED BY <1>2, <2>1, <2>2 DEF Steps, Ok, Res
<1>3. CASE \E n \in 0..(Len(c.out_buffer) - 1), e \in StreamErrors : r = Err(Drain(c, n), e)
  <2>1. PICK n \in 0..(Len(c.out_buffer) - 1), e \in StreamErrors : r = Err(Drain(c, n), e)
    BY <1>3
  <2>2. Good(Drain(c, n)) /\ Follows(c, Drain(c, n))
    BY <1>1, DrainGood
  <2>3. e \in Error
    BY StreamErrorsAssumption DEF Error, IoError
  <2>4. r \in Result
    BY <2>1, <2>2, <2>3, ResultTypes DEF Good
  <2> QED BY <2>1, <2>2, <2>4 DEF Steps, Err, Res
<1> QED BY <1>2, <1>3 DEF write_out_buffer

LEMMA AppendGood ==
  ASSUME NEW c, Good(c), NEW f \in Frame, can_buffer(c, FrameLen(f))
  PROVE  Good(AppendFrame(c, f)) /\ Follows(c, AppendFrame(c, f))
<1> DEFINE bytes == FrameBytes(Len(c.sent) + 1, f)
           b == c.out_buffer \o bytes
           s == Append(c.sent, f)
           a == Accepted(c, f)
           d == [c EXCEPT !.out_buffer = b, !.sent = s, !.acc = a]
<1>1. c \in Context
  BY DEF Good
<1>2. /\ c.wire \in Seq(Byte) /\ c.out_buffer \in Seq(Byte) /\ c.sent \in Seq(Frame)
      /\ Len(c.sent) + 1 \in Nat /\ Len(c.out_buffer) \in Nat
  BY <1>1, ContextFields
<1>3. bytes \in Seq(Byte) /\ Len(bytes) = FrameLen(f) /\ FrameLen(f) \in Nat
  BY <1>2, FrameBytesType, FrameLenType
<1>4. /\ Framed((c.wire \o c.out_buffer) \o bytes, s)
      /\ Ascending((c.wire \o c.out_buffer) \o bytes)
  <2>1. /\ c.wire \o c.out_buffer \in Seq(Byte)
        /\ Framed(c.wire \o c.out_buffer, c.sent) /\ Ascending(c.wire \o c.out_buffer)
    BY <1>2, ConcatProperties, Zenon DEF Good
  <2> QED BY <1>2, <2>1, FramedAppend, AscendingAppend, Zenon
<1>5. s \in Seq(Frame)
  BY <1>2
<1>6. a \in Nat
  BY <1>1 DEF Accepted, Context
<1>7. AppendFrame(c, f) = d
  BY <1>1 DEF AppendFrame, Context
<1> HIDE DEF bytes, s, a
<1>8. b \in Seq(Byte) /\ Len(b) = Len(c.out_buffer) + FrameLen(f)
  BY <1>2, <1>3, ConcatBytes, Zenon
<1>9. c.wire \o b = (c.wire \o c.out_buffer) \o bytes
  BY <1>2, <1>3, ConcatBytes, Zenon
<1> HIDE DEF b
<1>10. d \in Context
  BY <1>1, <1>5, <1>6, <1>8 DEF Context
<1>11. /\ d.wire = c.wire /\ d.out_buffer = b /\ d.sent = s /\ d.role = c.role
       /\ d.max_out_buffer_len = c.max_out_buffer_len
       /\ d.out_buffer_write_len = c.out_buffer_write_len
       /\ d.state = c.state /\ d.compression_unusable = c.compression_unusable
  BY <1>1 DEF Context
<1>12. Len(b) <= c.max_out_buffer_len
  BY <1>2, <1>3, <1>8 DEF can_buffer
<1> HIDE DEF d
<1>13. Begins(c.wire, d.wire) /\ Begins(c.sent, d.sent)
  BY <1>2, <1>11, BeginsReflexive, BeginsAppend DEF s
<1> QED BY <1>4, <1>7, <1>9, <1>10, <1>11, <1>12, <1>13 DEF Good, Follows, MayFollow

LEMMA CodecBufferFrame ==
  ASSUME NEW c, Good(c), NEW f \in Frame
  PROVE  FrameCodec_buffer_frame(c, f) \subseteq Steps(c)
<1> DEFINE a == AppendFrame(c, f)
<1>1. c \in Context
  BY DEF Good
<1>2. CASE ~can_buffer(c, FrameLen(f))
  <2>1. WriteBufferFull(c, f) \in Result /\ WriteBufferFull(c, f).c = c
    BY <1>1, ResultTypes DEF WriteBufferFull, Res
  <2>2. WriteBufferFull(c, f) \in Steps(c)
    BY <1>1, <2>1, FollowsReflexive DEF Steps
  <2> QED BY <1>2, <2>2 DEF FrameCodec_buffer_frame
<1>3. CASE can_buffer(c, FrameLen(f))
  <2>1. Good(a) /\ Follows(c, a) /\ a \in Context
    BY <1>3, AppendGood DEF Good
  <2> HIDE DEF a
  <2>2. Steps(a) \subseteq Steps(c)
    BY <1>1, <2>1, StepsTransitive
  <2>3. write_out_buffer(a) \subseteq Steps(a)
    BY <2>1, WriteOutBuffer
  <2>4. Ok(a) \in Steps(c)
    <3>1. Ok(a) \in Result /\ Ok(a).c = a
      BY <2>1, ResultTypes DEF Ok, Res
    <3> QED BY <2>1, <3>1 DEF Steps
  <2> QED BY <1>3, <2>2, <2>3, <2>4 DEF FrameCodec_buffer_frame, a
<1> QED BY <1>2, <1>3

\* check_connection_reset changes nothing but the error.
LEMMA ConnectionReset ==
  ASSUME NEW c, NEW d, NEW r \in Steps(c)
  PROVE  check_connection_reset(r, d) \in Steps(c)
<1>1. r.c \in Context
  BY DEF Steps, Result
<1>2. Err(r.c, "ConnectionClosed") \in Result /\ Err(r.c, "ConnectionClosed").c = r.c
  BY <1>1, ResultTypes DEF Err, Res, Error
<1> QED BY <1>2 DEF check_connection_reset, Steps

LEMMA BufferFrame ==
  ASSUME NEW c, Good(c), NEW f \in Frame
  PROVE  buffer_frame(c, f) \subseteq Steps(c)
<1> DEFINE masked == [f EXCEPT !.masked = @ \/ c.role = "Client"]
<1>1. masked \in Frame
  BY DEF Frame
<1> HIDE DEF masked
<1>2. FrameCodec_buffer_frame(c, masked) \subseteq Steps(c)
  BY <1>1, CodecBufferFrame
<1>3. \A r \in FrameCodec_buffer_frame(c, masked) : check_connection_reset(r, c) \in Steps(c)
  BY <1>2, ConnectionReset
<1> QED BY <1>3 DEF buffer_frame, masked

\* A single field other than the buffer, the wire and the limits is assigned.
LEMMA Assign ==
  ASSUME NEW c, Good(c)
  PROVE  /\ \A f \in Frame : LET d == [c EXCEPT !.additional_send = f]
                             IN  Good(d) /\ Follows(c, d)
         /\ \A b \in BOOLEAN : LET d == [c EXCEPT !.unflushed_additional = b]
                               IN  Good(d) /\ Follows(c, d)
         /\ \A s \in WebSocketState :
              MayFollow(c.state, s) =>
                LET d == [c EXCEPT !.state = s] IN  Good(d) /\ Follows(c, d)
<1>1. c \in Context
  BY DEF Good
<1>2. ASSUME NEW f \in Frame
      PROVE  LET d == [c EXCEPT !.additional_send = f] IN  Good(d) /\ Follows(c, d)
  <2> DEFINE d == [c EXCEPT !.additional_send = f]
  <2>1. d \in Context
    BY <1>1 DEF Context
  <2>2. /\ d.wire = c.wire /\ d.out_buffer = c.out_buffer /\ d.sent = c.sent
        /\ d.role = c.role /\ d.max_out_buffer_len = c.max_out_buffer_len
        /\ d.out_buffer_write_len = c.out_buffer_write_len /\ d.state = c.state
        /\ d.compression_unusable = c.compression_unusable
    BY <1>1 DEF Context
  <2>3. MayFollow(c.state, d.state) /\ (d.compression_unusable => d.state = "Terminated")
    BY <2>2 DEF MayFollow, Good
  <2> HIDE DEF d
  <2>4. Good(d) /\ Follows(c, d)
    BY <2>1, <2>2, <2>3, SameBuffer
  <2> QED BY <2>4 DEF d
<1>3. ASSUME NEW b \in BOOLEAN
      PROVE  LET d == [c EXCEPT !.unflushed_additional = b] IN  Good(d) /\ Follows(c, d)
  <2> DEFINE d == [c EXCEPT !.unflushed_additional = b]
  <2>1. d \in Context
    BY <1>1 DEF Context
  <2>2. /\ d.wire = c.wire /\ d.out_buffer = c.out_buffer /\ d.sent = c.sent
        /\ d.role = c.role /\ d.max_out_buffer_len = c.max_out_buffer_len
        /\ d.out_buffer_write_len = c.out_buffer_write_len /\ d.state = c.state
        /\ d.compression_unusable = c.compression_unusable
    BY <1>1 DEF Context
  <2>3. MayFollow(c.state, d.state) /\ (d.compression_unusable => d.state = "Terminated")
    BY <2>2 DEF MayFollow, Good
  <2> HIDE DEF d
  <2>4. Good(d) /\ Follows(c, d)
    BY <2>1, <2>2, <2>3, SameBuffer
  <2> QED BY <2>4 DEF d
<1>4. ASSUME NEW s \in WebSocketState, MayFollow(c.state, s)
      PROVE  LET d == [c EXCEPT !.state = s] IN  Good(d) /\ Follows(c, d)
  <2> DEFINE d == [c EXCEPT !.state = s]
  <2>1. d \in Context
    BY <1>1 DEF Context
  <2>2. /\ d.wire = c.wire /\ d.out_buffer = c.out_buffer /\ d.sent = c.sent
        /\ d.role = c.role /\ d.max_out_buffer_len = c.max_out_buffer_len
        /\ d.out_buffer_write_len = c.out_buffer_write_len /\ d.state = s
        /\ d.compression_unusable = c.compression_unusable
    BY <1>1 DEF Context
  <2>3. d.compression_unusable => d.state = "Terminated"
    BY <1>4, <2>2 DEF MayFollow, Good
  <2> HIDE DEF d
  <2>4. Good(d) /\ Follows(c, d)
    BY <1>4, <2>1, <2>2, <2>3, SameBuffer
  <2> QED BY <2>4 DEF d
<1> QED BY <1>2, <1>3, <1>4

\* A result with a context that is fine is fine, whatever it returns.
LEMMA Returns ==
  ASSUME NEW c, NEW d, Good(d), Follows(c, d)
  PROVE  /\ Ok(d) \in Steps(c)
         /\ \A e \in Error : Err(d, e) \in Steps(c)
         /\ \A m \in Frame : Value(d, m) \in Steps(c)
         /\ \A b \in BOOLEAN : ShouldFlush(d, b) \in Steps(c)
         /\ \A m \in Frame : WriteBufferFull(d, m) \in Steps(c)
<1>1. d \in Context
  BY DEF Good
<1>2. /\ Ok(d) \in Result
      /\ \A e \in Error : Err(d, e) \in Result
      /\ \A m \in Frame : Value(d, m) \in Result
      /\ \A b \in BOOLEAN : ShouldFlush(d, b) \in Result
      /\ \A m \in Frame : WriteBufferFull(d, m) \in Result
  BY <1>1, ResultTypes
<1> QED BY <1>2 DEF Steps, Ok, Err, Value, ShouldFlush, WriteBufferFull, Res

LEMMA Returned ==
  ASSUME NEW c \in Context, NEW r \in Steps(c)
  PROVE  /\ Good(r.c) /\ Follows(c, r.c) /\ r.c \in Context
         /\ r.err \in Error /\ r.msg \in Frame /\ r.should_flush \in BOOLEAN
         /\ Steps(r.c) \subseteq Steps(c)
<1>1. /\ Good(r.c) /\ Follows(c, r.c) /\ r.c \in Context
      /\ r.err \in Error /\ r.msg \in Frame /\ r.should_flush \in BOOLEAN
  BY DEF Steps, Result
<1>2. Steps(r.c) \subseteq Steps(c)
  BY <1>1, StepsTransitive
<1> QED BY <1>1, <1>2

LEMMA SetAdditional ==
  ASSUME NEW c, Good(c), NEW f \in Frame
  PROVE  Good(set_additional(c, f)) /\ Follows(c, set_additional(c, f))
BY Assign, FollowsReflexive DEF set_additional, Good

LEMMA BufferAdditionalGood ==
  ASSUME NEW c, Good(c) PROVE BufferAdditional(c) \subseteq Steps(c)
<1>1. c \in Context /\ c.additional_send \in Frame /\ c.unflushed_additional \in BOOLEAN
  BY ContextFields DEF Good
<1>2. CASE c.additional_send = NoFrame
  <2>1. ShouldFlush(c, c.unflushed_additional) \in Steps(c)
    BY <1>1, FollowsReflexive, Returns
  <2> QED BY <1>2, <2>1 DEF BufferAdditional
<1>3. CASE c.additional_send # NoFrame
  <2> DEFINE d == [c EXCEPT !.additional_send = NoFrame]
             Q(r) == CASE r.err = "None" -> ShouldFlush(r.c, TRUE)
                       [] r.err = "WriteBufferFull" -> Ok(set_additional(r.c, r.msg))
                       [] OTHER -> r
  <2>1. Good(d) /\ Follows(c, d) /\ d \in Context
    BY FrameTypes, Assign DEF Good
  <2>2. BufferAdditional(c) = {Q(r) : r \in buffer_frame(d, c.additional_send)}
    BY <1>3 DEF BufferAdditional
  <2> HIDE DEF d
  <2>3. buffer_frame(d, c.additional_send) \subseteq Steps(c)
    BY <1>1, <2>1, BufferFrame, StepsTransitive
  <2>4. ASSUME NEW r \in Steps(c) PROVE Q(r) \in Steps(c)
    <3>1. Good(r.c) /\ Follows(c, r.c) /\ r.msg \in Frame /\ r.c \in Context
      BY <1>1, Returned
    <3>2. ShouldFlush(r.c, TRUE) \in Steps(c)
      BY <3>1, Returns
    <3>3. Ok(set_additional(r.c, r.msg)) \in Steps(r.c)
      BY <3>1, SetAdditional, Returns
    <3>4. Ok(set_additional(r.c, r.msg)) \in Steps(c)
      BY <1>1, <3>3, Returned
    <3> QED BY <3>2, <3>4
  <2> HIDE DEF Q
  <2> QED BY <2>2, <2>3, <2>4
<1> QED BY <1>2, <1>3

LEMMA CloseIfDoneGood ==
  ASSUME NEW c \in Context, NEW r \in Steps(c) PROVE CloseIfDone(r) \subseteq Steps(c)
<1>1. Good(r.c) /\ r.c \in Context /\ Steps(r.c) \subseteq Steps(c)
  BY Returned
<1>2. write_out_buffer(r.c) \subseteq Steps(c)
  BY <1>1, WriteOutBuffer
<1>3. ASSUME NEW w \in Steps(c)
      PROVE  Err([w.c EXCEPT !.state = "Terminated"], "ConnectionClosed") \in Steps(c)
  <2> DEFINE d == [w.c EXCEPT !.state = "Terminated"]
  <2>1. Good(w.c) /\ Steps(w.c) \subseteq Steps(c)
    BY Returned
  <2>2. Good(d) /\ Follows(w.c, d)
    BY <2>1, Assign DEF WebSocketState, MayFollow
  <2> HIDE DEF d
  <2>3. Err(d, "ConnectionClosed") \in Steps(w.c)
    BY <2>2, Returns DEF Error
  <2> QED BY <2>1, <2>3 DEF d
<1> QED BY <1>2, <1>3 DEF CloseIfDone, Then

LEMMA UnderscoreWrite ==
  ASSUME NEW c, Good(c), NEW data \in Frame PROVE _write(c, data) \subseteq Steps(c)
<1>1. c \in Context
  BY DEF Good
<1> DEFINE S == IF data = NoFrame THEN {Ok(c)} ELSE buffer_frame(c, data)
           G(d) == Then(BufferAdditional(d.c), CloseIfDone)
<1>2. S \subseteq Steps(c)
  BY <1>1, FollowsReflexive, Returns, BufferFrame
<1>3. ASSUME NEW d \in Steps(c) PROVE G(d) \subseteq Steps(c)
  <2>1. Good(d.c) /\ Steps(d.c) \subseteq Steps(c)
    BY <1>1, Returned
  <2>2. BufferAdditional(d.c) \subseteq Steps(c)
    BY <2>1, BufferAdditionalGood
  <2>3. \A r \in BufferAdditional(d.c) : CloseIfDone(r) \subseteq Steps(c)
    BY <1>1, <2>2, CloseIfDoneGood
  <2> QED BY <2>2, <2>3 DEF Then
<1>4. _write(c, data) = {r \in S : r.err # "None"}
                          \cup UNION {G(r) : r \in {s \in S : s.err = "None"}}
  BY DEF _write, Then
<1> HIDE DEF S, G
<1> QED BY <1>2, <1>3, <1>4

LEMMA StreamFlushGood ==
  ASSUME NEW c, Good(c) PROVE StreamFlush(c) \subseteq Steps(c)
<1>1. c \in Context /\ Len(c.wire) \in Nat
  BY ContextFields DEF Good
<1> DEFINE n == Len(c.wire)
           d == [c EXCEPT !.flushed = n, !.unflushed_additional = FALSE]
<1>2. n \in Nat
  BY <1>1
<1>3. StreamFlush(c) = {Ok(d)} \cup {Err(c, e) : e \in StreamErrors}
  BY DEF StreamFlush
<1> HIDE DEF n
<1>4. d \in Context
  BY <1>1, <1>2 DEF Context
<1>5. /\ d.wire = c.wire /\ d.out_buffer = c.out_buffer /\ d.sent = c.sent
      /\ d.role = c.role /\ d.max_out_buffer_len = c.max_out_buffer_len
      /\ d.out_buffer_write_len = c.out_buffer_write_len /\ d.state = c.state
      /\ d.compression_unusable = c.compression_unusable
  BY <1>1 DEF Context
<1>6. MayFollow(c.state, d.state) /\ (d.compression_unusable => d.state = "Terminated")
  BY <1>5 DEF MayFollow, Good
<1> HIDE DEF d
<1>7. Good(d) /\ Follows(c, d)
  BY <1>4, <1>5, <1>6, SameBuffer
<1>8. Ok(d) \in Steps(c)
  BY <1>7, Returns
<1>9. \A e \in StreamErrors : Err(c, e) \in Steps(c)
  BY <1>1, FollowsReflexive, Returns, StreamErrorsAssumption DEF Error
<1> QED BY <1>3, <1>8, <1>9

LEMMA FlushGood ==
  ASSUME NEW c, Good(c) PROVE flush(c) \subseteq Steps(c)
<1>1. c \in Context
  BY DEF Good
<1>2. CASE c.compression_unusable
  <2>1. Err(c, "AlreadyClosed") \in Steps(c)
    BY <1>1, FollowsReflexive, Returns DEF Error
  <2> QED BY <1>2, <2>1 DEF flush
<1>3. CASE ~c.compression_unusable
  <2> DEFINE S == _write(c, NoFrame)
             G(r) == Then(write_out_buffer(r.c), LAMBDA w : StreamFlush(w.c))
  <2>1. S \subseteq Steps(c)
    BY FrameTypes, UnderscoreWrite
  <2>2. ASSUME NEW r \in Steps(c) PROVE G(r) \subseteq Steps(c)
    <3>1. Good(r.c) /\ Steps(r.c) \subseteq Steps(c)
      BY <1>1, Returned
    <3>2. write_out_buffer(r.c) \subseteq Steps(c)
      BY <3>1, WriteOutBuffer
    <3>3. \A w \in Steps(c) : StreamFlush(w.c) \subseteq Steps(c)
      BY <1>1, Returned, StreamFlushGood
    <3> QED BY <3>2, <3>3 DEF Then
  <2>3. flush(c) = {r \in S : r.err # "None"}
                     \cup UNION {G(r) : r \in {s \in S : s.err = "None"}}
    BY <1>3 DEF flush, Then
  <2> HIDE DEF S, G
  <2> QED BY <2>1, <2>2, <2>3
<1> QED BY <1>2, <1>3

LEMMA CloseGood ==
  ASSUME NEW c, Good(c), NEW f \in Frame PROVE close(c, f) \subseteq Steps(c)
<1>1. c \in Context
  BY DEF Good
<1>2. CASE is_active(c)
  <2> DEFINE d == [c EXCEPT !.state = "ClosedByUs"]
  <2>1. Good(d) /\ Follows(c, d) /\ d \in Context
    BY <1>2, Assign DEF is_active, WebSocketState, MayFollow, Good
  <2>2. close(c, f) = Then(_write(d, f), LAMBDA r : flush(r.c))
    BY <1>2 DEF close
  <2> HIDE DEF d
  <2>3. _write(d, f) \subseteq Steps(c)
    BY <1>1, <2>1, UnderscoreWrite, StepsTransitive
  <2>4. \A r \in Steps(c) : flush(r.c) \subseteq Steps(c)
    BY <1>1, Returned, FlushGood
  <2> QED BY <2>2, <2>3, <2>4 DEF Then
<1>3. CASE ~is_active(c)
  BY <1>3, FlushGood DEF close
<1> QED BY <1>2, <1>3

LEMMA WriteAndFlushGood ==
  ASSUME NEW c, Good(c), NEW f \in Frame PROVE WriteAndFlush(c, f) \subseteq Steps(c)
<1>1. c \in Context /\ _write(c, f) \subseteq Steps(c)
  BY UnderscoreWrite DEF Good
<1>2. ASSUME NEW r \in Steps(c) PROVE flush(r.c) \subseteq Steps(c) /\ Ok(r.c) \in Steps(c)
  BY <1>1, Returned, Returns, FlushGood
<1> QED BY <1>1, <1>2 DEF WriteAndFlush, Then

-----------------------------------------------------------------------------
(* Compressing and writing *)

LEMMA ResetEncoderGood ==
  ASSUME NEW c, Good(c) PROVE Good(reset_encoder(c)) /\ Follows(c, reset_encoder(c))
<1> DEFINE d == [c EXCEPT !.enc = 0, !.acc = 0]
<1>1. c \in Context
  BY DEF Good
<1>2. d \in Context
  BY <1>1 DEF Context
<1>3. /\ d.wire = c.wire /\ d.out_buffer = c.out_buffer /\ d.sent = c.sent
      /\ d.role = c.role /\ d.max_out_buffer_len = c.max_out_buffer_len
      /\ d.out_buffer_write_len = c.out_buffer_write_len /\ d.state = c.state
      /\ d.compression_unusable = c.compression_unusable
  BY <1>1 DEF Context
<1>4. MayFollow(c.state, d.state) /\ (d.compression_unusable => d.state = "Terminated")
  BY <1>3 DEF MayFollow, Good
<1> HIDE DEF d
<1>5. Good(d) /\ Follows(c, d)
  BY <1>2, <1>3, <1>4, SameBuffer
<1> QED BY <1>5 DEF d, reset_encoder

LEMMA EncodeGood ==
  ASSUME NEW c, Good(c)
  PROVE  LET d == [c EXCEPT !.enc = @ + 1] IN  Good(d) /\ Follows(c, d)
<1>1. c \in Context
  BY DEF Good
<1> DEFINE n == c.enc + 1
           d == [c EXCEPT !.enc = n]
<1>2. n \in Nat
  BY <1>1 DEF Context
<1>3. [c EXCEPT !.enc = @ + 1] = d
  OBVIOUS
<1> HIDE DEF n
<1>4. d \in Context
  BY <1>1, <1>2 DEF Context
<1>5. /\ d.wire = c.wire /\ d.out_buffer = c.out_buffer /\ d.sent = c.sent
      /\ d.role = c.role /\ d.max_out_buffer_len = c.max_out_buffer_len
      /\ d.out_buffer_write_len = c.out_buffer_write_len /\ d.state = c.state
      /\ d.compression_unusable = c.compression_unusable
  BY <1>1 DEF Context
<1>6. MayFollow(c.state, d.state) /\ (d.compression_unusable => d.state = "Terminated")
  BY <1>5 DEF MayFollow, Good
<1> HIDE DEF d
<1>7. Good(d) /\ Follows(c, d)
  BY <1>4, <1>5, <1>6, SameBuffer
<1> QED BY <1>3, <1>7

LEMMA CompressGood ==
  ASSUME NEW c, Good(c), NEW f \in Frame PROVE compress(c, f) \subseteq Steps(c)
<1> DEFINE e == [c EXCEPT !.enc = @ + 1]
           k == reset_encoder(c)
<1>1. Good(e) /\ Follows(c, e) /\ Good(k) /\ Follows(c, k) /\ Follows(c, c)
  BY EncodeGood, ResetEncoderGood, FollowsReflexive DEF Good
<1>2. compress(c, f) =
        IF f.len = 0
          THEN {Value(c, Compressed(f, 1))}
          ELSE {Value(IF NoContextTakeover[c.role] THEN k ELSE e, Compressed(f, n)) :
                n \in CompressedSizes}
               \cup {Err(e, "Compression")}
  BY DEF compress
<1> HIDE DEF e, k
<1>3. Err(e, "Compression") \in Steps(c)
  BY <1>1, Returns DEF Error
<1>4. ASSUME NEW n \in Nat
      PROVE  /\ Value(c, Compressed(f, n)) \in Steps(c)
             /\ Value(k, Compressed(f, n)) \in Steps(c)
             /\ Value(e, Compressed(f, n)) \in Steps(c)
  <2>1. Compressed(f, n) \in Frame
    BY FrameTypes
  <2> QED BY <1>1, <2>1, Returns
<1>5. CompressedSizes \subseteq Nat
  BY CompressedSizesAssumption
<1>6. CASE f.len = 0
  <2>1. compress(c, f) = {Value(c, Compressed(f, 1))}
    BY <1>2, <1>6
  <2> QED BY <1>4, <2>1
<1>7. CASE f.len # 0
  <2> DEFINE d == IF NoContextTakeover[c.role] THEN k ELSE e
  <2>1. compress(c, f) = {Value(d, Compressed(f, n)) : n \in CompressedSizes}
                           \cup {Err(e, "Compression")}
    BY <1>2, <1>7
  <2>2. \A n \in CompressedSizes : Value(d, Compressed(f, n)) \in Steps(c)
    BY <1>4, <1>5
  <2> HIDE DEF d
  <2> QED BY <1>3, <2>1, <2>2
<1> QED BY <1>6, <1>7

LEMMA PrepareGood ==
  ASSUME NEW c, Good(c), NEW f \in Frame PROVE prepare_data(c, f) \subseteq Steps(c)
<1>1. c \in Context /\ Follows(c, c)
  BY FollowsReflexive DEF Good
<1>2. Value(c, f) \in Steps(c) /\ WriteBufferFull(c, f) \in Steps(c)
  BY <1>1, Returns
<1> DEFINE Q(r) == CASE r.err # "None" -> Err(reset_encoder(r.c), r.err)
                     [] r.err = "None" /\ can_buffer(r.c, wire_size(r.c, r.msg)) -> r
                     [] OTHER -> Value(reset_encoder(r.c), f)
<1>3. ASSUME NEW r \in Steps(c) PROVE Q(r) \in Steps(c)
  <2>1. Good(r.c) /\ r.err \in Error /\ Steps(r.c) \subseteq Steps(c)
    BY <1>1, Returned
  <2> DEFINE d == reset_encoder(r.c)
  <2>2. Good(d) /\ Follows(r.c, d)
    BY <2>1, ResetEncoderGood
  <2> HIDE DEF d
  <2>3. Err(d, r.err) \in Steps(r.c) /\ Value(d, f) \in Steps(r.c)
    BY <2>1, <2>2, Returns
  <2>4. Err(d, r.err) \in Steps(c) /\ Value(d, f) \in Steps(c)
    BY <2>1, <2>3
  <2> QED BY <2>4 DEF d
<1>4. prepare_data(c, f) =
        IF ~Deflate THEN {Value(c, f)}
        ELSE IF ~can_buffer(c, wire_size(c, f)) THEN {WriteBufferFull(c, f)}
        ELSE {Q(r) : r \in compress(c, f)}
  BY DEF prepare_data
<1>5. compress(c, f) \subseteq Steps(c)
  BY CompressGood
<1> HIDE DEF Q
<1> QED BY <1>2, <1>3, <1>4, <1>5

LEMMA WriteGood ==
  ASSUME NEW c, Good(c), NEW m, m.frame \in Frame,
         m.kind \in {"Text", "Binary", "Ping", "Pong", "Close", "Frame"}
  PROVE  write(c, m) \subseteq Steps(c)
<1>1. c \in Context /\ Follows(c, c)
  BY FollowsReflexive DEF Good
<1>2. /\ Err(c, "AlreadyClosed") \in Steps(c) /\ Err(c, "SendAfterClosing") \in Steps(c)
      /\ Err(c, "NonZeroReservedBits") \in Steps(c)
  BY <1>1, Returns DEF Error
<1>3. /\ WriteAndFlush(c, m.frame) \subseteq Steps(c)
      /\ close(c, m.frame) \subseteq Steps(c)
  BY WriteAndFlushGood, CloseGood
<1>4. Then(prepare_data(c, m.frame), LAMBDA p : WriteAndFlush(p.c, p.msg)) \subseteq Steps(c)
  <2>1. prepare_data(c, m.frame) \subseteq Steps(c)
    BY PrepareGood
  <2>2. ASSUME NEW p \in Steps(c) PROVE WriteAndFlush(p.c, p.msg) \subseteq Steps(c)
    BY <1>1, Returned, WriteAndFlushGood
  <2> QED BY <2>1, <2>2 DEF Then
<1>5. Then(_write(set_additional(c, m.frame), NoFrame), LAMBDA r : {Ok(r.c)}) \subseteq Steps(c)
  <2> DEFINE d == set_additional(c, m.frame)
  <2>1. Good(d) /\ Follows(c, d) /\ d \in Context
    BY SetAdditional DEF Good
  <2> HIDE DEF d
  <2>2. _write(d, NoFrame) \subseteq Steps(c)
    BY <1>1, <2>1, FrameTypes, UnderscoreWrite, StepsTransitive
  <2>3. \A r \in Steps(c) : Ok(r.c) \in Steps(c)
    BY <1>1, Returned, Returns
  <2> QED BY <2>2, <2>3 DEF Then, d
<1> QED BY <1>2, <1>3, <1>4, <1>5 DEF write, is_active

-----------------------------------------------------------------------------
(* Reading *)

LEMMA FailCompressionGood ==
  ASSUME NEW c, Good(c)
  PROVE  Good(fail_compression(c)) /\ Follows(c, fail_compression(c))
<1> DEFINE d == [c EXCEPT !.compression_unusable = TRUE, !.state = "Terminated"]
<1>1. c \in Context
  BY DEF Good
<1>2. d \in Context
  BY <1>1 DEF Context, WebSocketState
<1>3. /\ d.wire = c.wire /\ d.out_buffer = c.out_buffer /\ d.sent = c.sent
      /\ d.role = c.role /\ d.max_out_buffer_len = c.max_out_buffer_len
      /\ d.out_buffer_write_len = c.out_buffer_write_len /\ d.state = "Terminated"
      /\ d.compression_unusable
  BY <1>1 DEF Context
<1>4. MayFollow(c.state, d.state)
  BY <1>3 DEF MayFollow
<1> HIDE DEF d
<1>5. Good(d) /\ Follows(c, d)
  BY <1>2, <1>3, <1>4, SameBuffer
<1> QED BY <1>5 DEF d, fail_compression

LEMMA DiscardedGood ==
  ASSUME NEW c, Good(c), NEW f
  PROVE  LET d == fail_compression_on_discarded_frame(c, f)
         IN  Good(d) /\ Follows(c, d)
BY FailCompressionGood, FollowsReflexive DEF fail_compression_on_discarded_frame, Good

LEMMA DecompressGood ==
  ASSUME NEW c, Good(c), NEW f \in Frame
  PROVE  decompress(c, f) \in Steps(c) /\ decompress(c, f).msg.op \in {f.op, "None"}
         /\ (decompress(c, f).err = "None" => decompress(c, f).msg.op = f.op)
<1>1. c \in Context
  BY DEF Good
<1> DEFINE n == Remembered(c.role, f, c.dec)
           d == [c EXCEPT !.dec = n]
           g == [f EXCEPT !.rsv1 = FALSE, !.len = f.plain]
           x == fail_compression(c)
<1>2. n \in Nat
  BY <1>1 DEF Context, Remembered
<1>3. decompress(c, f) \in {Err(x, "Compression"), Err(x, "MessageTooLong"), Value(d, g)}
  BY DEF decompress
<1>4. Good(x) /\ Follows(c, x)
  BY FailCompressionGood
<1>5. g \in Frame /\ g.op = f.op
  BY DEF Frame
<1> HIDE DEF n, g, x
<1>6. Good(d) /\ Follows(c, d)
  <2>1. d \in Context
    BY <1>1, <1>2 DEF Context
  <2>2. /\ d.wire = c.wire /\ d.out_buffer = c.out_buffer /\ d.sent = c.sent
        /\ d.role = c.role /\ d.max_out_buffer_len = c.max_out_buffer_len
        /\ d.out_buffer_write_len = c.out_buffer_write_len /\ d.state = c.state
        /\ d.compression_unusable = c.compression_unusable
    BY <1>1 DEF Context
  <2>3. MayFollow(c.state, d.state) /\ (d.compression_unusable => d.state = "Terminated")
    BY <2>2 DEF MayFollow, Good
  <2> HIDE DEF d
  <2> QED BY <2>1, <2>2, <2>3, SameBuffer
<1> HIDE DEF d
<1>7. /\ Err(x, "Compression") \in Steps(c) /\ Err(x, "MessageTooLong") \in Steps(c)
      /\ Value(d, g) \in Steps(c)
  BY <1>4, <1>5, <1>6, Returns DEF Error
<1>8. /\ Err(x, "Compression").msg.op = "None" /\ Err(x, "MessageTooLong").msg.op = "None"
      /\ Err(x, "Compression").err # "None" /\ Err(x, "MessageTooLong").err # "None"
      /\ Value(d, g).msg = g
  BY DEF Err, Value, Res, NoFrame, MakeFrame
<1> QED BY <1>3, <1>5, <1>7, <1>8

LEMMA ExtendType ==
  ASSUME NEW m \in Incomplete, NEW f \in Frame, NEW max_size \in Nat,
         NEW x \in extend(m, f, max_size)
  PROVE  x.m \in Incomplete /\ x.m.op = m.op
         /\ x.err \in {"None", "MessageTooLong", "Utf8"}
<1>1. m.len \in Nat /\ f.len \in Nat /\ m.cut \in BOOLEAN
  BY DEF Incomplete, Frame
<1>2. \A n \in (IF m.cut THEN 0 ELSE m.len)..(m.len + f.len) : n \in Nat
  BY <1>1
<1>3. \A n \in Nat, b \in BOOLEAN :
        LET k == [m EXCEPT !.len = n, !.cut = b] IN  k \in Incomplete /\ k.op = m.op
  BY DEF Incomplete
<1>4. CASE m.len > max_size \/ f.len > max_size - m.len
  <2>1. x = [m |-> m, err |-> "MessageTooLong"]
    BY <1>4, Zenon DEF extend
  <2> QED BY <2>1
<1>5. CASE /\ ~(m.len > max_size \/ f.len > max_size - m.len)
           /\ m.op = "Text" /\ ~Utf8Continues(m.cut, f)
  <2>1. PICK n \in (IF m.cut THEN 0 ELSE m.len)..(m.len + f.len) :
          x = [m |-> [m EXCEPT !.len = n, !.cut = FALSE], err |-> "Utf8"]
    BY <1>5 DEF extend
  <2>2. x.m = [m EXCEPT !.len = n, !.cut = FALSE] /\ x.err = "Utf8"
    BY <2>1
  <2> QED BY <1>2, <1>3, <2>2
<1>6. CASE /\ ~(m.len > max_size \/ f.len > max_size - m.len)
           /\ ~(m.op = "Text" /\ ~Utf8Continues(m.cut, f))
  <2> DEFINE n == m.len + f.len
             b == IF f.len = 0 THEN m.cut ELSE m.op = "Text" /\ f.utf8 \in {"cut", "mid"}
  <2>1. x = [m |-> [m EXCEPT !.len = n, !.cut = b], err |-> "None"]
    BY <1>6, Zenon DEF extend
  <2>2. n \in Nat
    BY <1>1
  <2>4. b \in BOOLEAN
    BY <1>1, Zenon
  <2> HIDE DEF n, b
  <2>3. x.m = [m EXCEPT !.len = n, !.cut = b] /\ x.err = "None"
    BY <2>1
  <2> QED BY <1>3, <2>2, <2>3, <2>4
<1> QED BY <1>4, <1>5, <1>6

\* Assignments to the message being assembled.
LEMMA AssignReading ==
  ASSUME NEW c, Good(c)
  PROVE  /\ \A m \in Incomplete : LET d == [c EXCEPT !.incomplete = m]
                                  IN  Good(d) /\ Follows(c, d)
         /\ \A b \in BOOLEAN : LET d == [c EXCEPT !.compressed_incomplete = b]
                               IN  Good(d) /\ Follows(c, d)
<1>1. c \in Context
  BY DEF Good
<1>2. ASSUME NEW m \in Incomplete
      PROVE  LET d == [c EXCEPT !.incomplete = m] IN  Good(d) /\ Follows(c, d)
  <2> DEFINE d == [c EXCEPT !.incomplete = m]
  <2>1. d \in Context
    BY <1>1 DEF Context
  <2>2. /\ d.wire = c.wire /\ d.out_buffer = c.out_buffer /\ d.sent = c.sent
        /\ d.role = c.role /\ d.max_out_buffer_len = c.max_out_buffer_len
        /\ d.out_buffer_write_len = c.out_buffer_write_len /\ d.state = c.state
        /\ d.compression_unusable = c.compression_unusable
    BY <1>1 DEF Context
  <2>3. MayFollow(c.state, d.state) /\ (d.compression_unusable => d.state = "Terminated")
    BY <2>2 DEF MayFollow, Good
  <2> HIDE DEF d
  <2>4. Good(d) /\ Follows(c, d)
    BY <2>1, <2>2, <2>3, SameBuffer
  <2> QED BY <2>4 DEF d
<1>3. ASSUME NEW b \in BOOLEAN
      PROVE  LET d == [c EXCEPT !.compressed_incomplete = b] IN  Good(d) /\ Follows(c, d)
  <2> DEFINE d == [c EXCEPT !.compressed_incomplete = b]
  <2>1. d \in Context
    BY <1>1 DEF Context
  <2>2. /\ d.wire = c.wire /\ d.out_buffer = c.out_buffer /\ d.sent = c.sent
        /\ d.role = c.role /\ d.max_out_buffer_len = c.max_out_buffer_len
        /\ d.out_buffer_write_len = c.out_buffer_write_len /\ d.state = c.state
        /\ d.compression_unusable = c.compression_unusable
    BY <1>1 DEF Context
  <2>3. MayFollow(c.state, d.state) /\ (d.compression_unusable => d.state = "Terminated")
    BY <2>2 DEF MayFollow, Good
  <2> HIDE DEF d
  <2>4. Good(d) /\ Follows(c, d)
    BY <2>1, <2>2, <2>3, SameBuffer
  <2> QED BY <2>4 DEF d
<1> QED BY <1>2, <1>3

\* The inflated frame is one of the same kind.
LEMMA InflateGood ==
  ASSUME NEW c, Good(c), NEW f \in Frame, NEW q \in InflateData(c, f)
  PROVE  q \in Steps(c) /\ (q.err = "None" => q.msg.op = f.op)
<1> DEFINE owns == (f.op = "Continue") = (c.incomplete # NoMessage)
           compressed == IF f.op = "Continue" THEN c.compressed_incomplete ELSE f.rsv1
           Saved(d) ==
             CASE f.op # "Continue" /\ ~f.fin -> [d EXCEPT !.compressed_incomplete = compressed]
               [] f.op = "Continue" /\ f.fin -> [d EXCEPT !.compressed_incomplete = FALSE]
               [] OTHER -> d
           r == IF compressed THEN decompress(c, f) ELSE Value(c, f)
           d1 == fail_compression_on_discarded_frame(c, f)
<1>1. c \in Context /\ Follows(c, c)
  BY FollowsReflexive DEF Good
<1>2. compressed \in BOOLEAN
  BY <1>1, Zenon DEF Context, Frame
<1>3. \/ q = Value(c, f)
      \/ q = Value(d1, f)
      \/ q = r /\ r.err # "None"
      \/ q = Value(Saved(r.c), r.msg) /\ r.err = "None"
  <2>1. InflateData(c, f) =
          CASE ~Deflate -> {Value(c, f)}
            [] Deflate /\ ~owns -> {Value(d1, f)}
            [] Deflate /\ owns -> {s \in {r} : s.err # "None"}
                 \cup UNION {{Value(Saved(s.c), s.msg)} : s \in {t \in {r} : t.err = "None"}}
    BY DEF InflateData, Then
  <2> HIDE DEF owns, compressed, Saved, r, d1
  <2> QED BY <2>1, DeflateAssumption
<1>4. Good(d1) /\ Follows(c, d1)
  BY DiscardedGood
<1>5. r \in Steps(c) /\ (r.err = "None" => r.msg.op = f.op)
  <2>1. Value(c, f) \in Steps(c) /\ Value(c, f).msg = f
    BY <1>1, Returns DEF Value, Res
  <2> QED BY <2>1, DecompressGood
<1>6. ASSUME NEW d, Good(d) PROVE Good(Saved(d)) /\ Follows(d, Saved(d))
  <2> HIDE DEF compressed
  <2>1. /\ Good([d EXCEPT !.compressed_incomplete = compressed])
        /\ Follows(d, [d EXCEPT !.compressed_incomplete = compressed])
        /\ Good([d EXCEPT !.compressed_incomplete = FALSE])
        /\ Follows(d, [d EXCEPT !.compressed_incomplete = FALSE])
    BY <1>2, <1>6, AssignReading
  <2>2. Follows(d, d)
    BY <1>6, FollowsReflexive DEF Good
  <2> QED BY <1>6, <2>1, <2>2
<1> HIDE DEF Saved, r, d1, owns, compressed
<1>7. CASE q = Value(c, f) \/ q = Value(d1, f)
  <2>1. Value(c, f) \in Steps(c) /\ Value(d1, f) \in Steps(c)
    BY <1>1, <1>4, Returns
  <2>2. Value(c, f).msg = f /\ Value(d1, f).msg = f
    BY DEF Value, Res
  <2> QED BY <1>7, <2>1, <2>2
<1>8. CASE q = r /\ r.err # "None"
  BY <1>5, <1>8
<1>9. CASE q = Value(Saved(r.c), r.msg) /\ r.err = "None"
  <2>1. Good(r.c) /\ r.msg \in Frame /\ Steps(r.c) \subseteq Steps(c)
    BY <1>1, <1>5, Returned
  <2>2. Good(Saved(r.c)) /\ Follows(r.c, Saved(r.c))
    BY <1>6, <2>1
  <2>3. Value(Saved(r.c), r.msg) \in Steps(r.c) /\ Value(Saved(r.c), r.msg).msg = r.msg
    BY <2>1, <2>2, Returns DEF Value, Res
  <2> QED BY <1>5, <1>9, <2>1, <2>3
<1> QED BY <1>3, <1>7, <1>8, <1>9

LEMMA ReceiveDataGood ==
  ASSUME NEW c, Good(c), NEW f \in Frame, IsData(f) PROVE ReceiveData(c, f) \subseteq Steps(c)
<1>1. c \in Context /\ Follows(c, c) /\ c.incomplete \in Incomplete /\ c.max_message_size \in Nat
  BY FollowsReflexive, ContextFields DEF Good
<1>2. NoMessage \in Incomplete
  BY DEF NoMessage, Incomplete
<1>3. \A op \in {"Text", "Binary", "Continue", "None"} : \A n \in Nat : Message(op, n) \in Frame
  BY DEF Message, MakeFrame, Frame, DataOp, ControlOp, Utf8Class, CloseCode
<1>4. /\ Err(c, "UnexpectedContinueFrame") \in Steps(c) /\ Err(c, "ExpectedFragment") \in Steps(c)
      /\ Err(c, "MessageTooLong") \in Steps(c) /\ Err(c, "Utf8") \in Steps(c)
  BY <1>1, Returns DEF Error
<1>5. ASSUME NEW m \in Incomplete
      PROVE  LET d == [c EXCEPT !.incomplete = m]
             IN  /\ Loop(d) \in Steps(c)
                 /\ Err(d, "Utf8") \in Steps(c) /\ Err(d, "MessageTooLong") \in Steps(c)
                 /\ \A g \in Frame : Value(d, g) \in Steps(c)
  <2> DEFINE d == [c EXCEPT !.incomplete = m]
  <2>1. Good(d) /\ Follows(c, d)
    BY AssignReading
  <2> HIDE DEF d
  <2>2. /\ Loop(d) \in Steps(c)
        /\ Err(d, "Utf8") \in Steps(c) /\ Err(d, "MessageTooLong") \in Steps(c)
        /\ \A g \in Frame : Value(d, g) \in Steps(c)
    BY <2>1, Returns DEF Loop, Error
  <2> QED BY <2>2 DEF d
<1>6. CASE f.op = "Continue" /\ c.incomplete # NoMessage
  <2> DEFINE done == [c EXCEPT !.incomplete = NoMessage]
             With(m) == [c EXCEPT !.incomplete = m]
             Q(x) == CASE x.err # "None" -> Err(With(x.m), x.err)
                       [] x.err = "None" /\ ~f.fin -> Loop(With(x.m))
                       [] x.err = "None" /\ f.fin /\ x.m.cut -> Err(done, "Utf8")
                       [] OTHER -> Value(done, Message(x.m.op, x.m.len))
  <2>1. ReceiveData(c, f) = {Q(x) : x \in extend(c.incomplete, f, c.max_message_size)}
    BY <1>6 DEF ReceiveData
  <2>2. ASSUME NEW x \in extend(c.incomplete, f, c.max_message_size) PROVE Q(x) \in Steps(c)
    <3>1. x.m \in Incomplete /\ x.err \in {"None", "MessageTooLong", "Utf8"}
      BY <1>1, ExtendType
    <3>2. Message(x.m.op, x.m.len) \in Frame
      BY <3>1, <1>3 DEF Incomplete
    <3>3. /\ Loop(With(x.m)) \in Steps(c)
          /\ Err(With(x.m), "Utf8") \in Steps(c) /\ Err(With(x.m), "MessageTooLong") \in Steps(c)
      BY <3>1, <1>5
    <3>4. Err(done, "Utf8") \in Steps(c) /\ Value(done, Message(x.m.op, x.m.len)) \in Steps(c)
      BY <3>2, <1>2, <1>5
    <3> HIDE DEF With, done
    <3> QED BY <3>1, <3>3, <3>4
  <2> HIDE DEF Q
  <2> QED BY <2>1, <2>2
<1>7. CASE f.op # "Continue" /\ c.incomplete = NoMessage /\ f.fin
  <2>1. Message(f.op, f.len) \in Frame
    BY <1>3 DEF IsData, DataOp, Frame
  <2>2. Value(c, Message(f.op, f.len)) \in Steps(c)
    BY <1>1, <2>1, Returns
  <2>3. ReceiveData(c, f) =
          {CASE f.len > c.max_message_size -> Err(c, "MessageTooLong")
             [] f.len <= c.max_message_size /\ f.op = "Text" /\ f.len > 0 /\ f.utf8 # "ok" ->
                  Err(c, "Utf8")
             [] OTHER -> Value(c, Message(f.op, f.len))}
    BY <1>7 DEF ReceiveData
  <2> QED BY <1>4, <2>2, <2>3
<1>8. CASE f.op # "Continue" /\ c.incomplete = NoMessage /\ ~f.fin
  <2> DEFINE m0 == NewIncomplete(f.op)
             With(m) == [c EXCEPT !.incomplete = m]
             Q(x) == IF x.err # "None" THEN Err(c, x.err) ELSE Loop(With(x.m))
  <2>1. m0 \in Incomplete
    BY <1>8 DEF NewIncomplete, Incomplete, IsData, DataOp
  <2>2. ReceiveData(c, f) = {Q(x) : x \in extend(m0, f, c.max_message_size)}
    BY <1>8 DEF ReceiveData
  <2> HIDE DEF m0
  <2>3. ASSUME NEW x \in extend(m0, f, c.max_message_size) PROVE Q(x) \in Steps(c)
    <3>1. x.m \in Incomplete /\ x.err \in {"None", "MessageTooLong", "Utf8"}
      BY <1>1, <2>1, ExtendType
    <3>2. Loop(With(x.m)) \in Steps(c)
      BY <3>1, <1>5
    <3> HIDE DEF With
    <3> QED BY <3>1, <3>2, <1>4
  <2> HIDE DEF Q
  <2> QED BY <2>2, <2>3
<1>9. CASE f.op = "Continue" /\ c.incomplete = NoMessage
  <2>1. ReceiveData(c, f) = {Err(c, "UnexpectedContinueFrame")}
    BY <1>9 DEF ReceiveData
  <2> QED BY <1>4, <2>1
<1>10. CASE f.op # "Continue" /\ c.incomplete # NoMessage
  <2>1. ReceiveData(c, f) = {Err(c, "ExpectedFragment")}
    BY <1>10 DEF ReceiveData
  <2> QED BY <1>4, <2>1
<1> QED BY <1>6, <1>7, <1>8, <1>9, <1>10

LEMMA DoCloseGood ==
  ASSUME NEW c, Good(c), NEW f \in Frame PROVE do_close(c, f) \in Steps(c)
<1>1. c \in Context /\ Follows(c, c)
  BY FollowsReflexive DEF Good
<1>2. CloseReply(f) \in Frame /\ CloseFrame(f.code, f.len) \in Frame
  <2>1. f.code \in CloseCode /\ f.len \in Nat
    BY DEF Frame
  <2>2. "protocol" \in CloseCode /\ ProtocolReplyLen \in Nat
    BY ProtocolReplyLenAssumption DEF CloseCode
  <2>3. CloseFrame(f.code, f.len) \in Frame /\ CloseFrame("protocol", ProtocolReplyLen) \in Frame
    BY <2>1, <2>2, FrameTypes
  <2> QED BY <2>3 DEF CloseReply
<1>3. CASE c.state = "Active"
  <2> DEFINE d == [c EXCEPT !.state = "ClosedByPeer"]
             e == set_additional(d, CloseReply(f))
  <2>1. Good(d) /\ Follows(c, d) /\ d \in Context
    BY <1>3, Assign DEF WebSocketState, MayFollow, Good
  <2>2. do_close(c, f) = Value(e, CloseReply(f))
    BY <1>3 DEF do_close
  <2> HIDE DEF d
  <2>3. Good(e) /\ Follows(d, e)
    BY <1>2, <2>1, SetAdditional
  <2> HIDE DEF e
  <2>4. Value(e, CloseReply(f)) \in Steps(d)
    BY <1>2, <2>3, Returns
  <2> QED BY <1>1, <2>1, <2>2, <2>4, StepsTransitive
<1>4. CASE c.state = "ClosedByUs"
  <2> DEFINE d == [c EXCEPT !.state = "CloseAcknowledged"]
  <2>1. Good(d) /\ Follows(c, d)
    BY <1>4, Assign DEF WebSocketState, MayFollow
  <2>2. do_close(c, f) = Value(d, CloseFrame(f.code, f.len))
    BY <1>4 DEF do_close
  <2> HIDE DEF d
  <2> QED BY <1>2, <2>1, <2>2, Returns
<1>5. CASE c.state \notin {"Active", "ClosedByUs"}
  <2>1. do_close(c, f) \in {Loop(c), Err(c, "Panic")}
    BY <1>5 DEF do_close
  <2>2. Loop(c) \in Steps(c) /\ Err(c, "Panic") \in Steps(c)
    BY <1>1, Returns DEF Loop, Error
  <2> QED BY <2>1, <2>2
<1> QED BY <1>3, <1>4, <1>5

LEMMA ReceiveControlGood ==
  ASSUME NEW c, Good(c), NEW f \in Frame PROVE ReceiveControl(c, f) \in Steps(c)
<1>1. c \in Context /\ Follows(c, c)
  BY FollowsReflexive DEF Good
<1>2. /\ Err(c, "FragmentedControlFrame") \in Steps(c) /\ Err(c, "ControlFrameTooBig") \in Steps(c)
      /\ Err(c, "InvalidCloseSequence") \in Steps(c) /\ Err(c, "Utf8") \in Steps(c)
  BY <1>1, Returns DEF Error
<1>3. /\ Message("Ping", f.len) \in Frame /\ Message("Pong", f.len) \in Frame
      /\ MakeFrame("Pong", f.len) \in Frame
  BY FrameTypes DEF Message, ControlOp, Frame
<1>4. do_close(c, f) \in Steps(c)
  BY DoCloseGood
<1> DEFINE d == IF is_active(c) THEN set_additional(c, MakeFrame("Pong", f.len)) ELSE c
<1>5. Good(d) /\ Follows(c, d)
  BY <1>1, <1>3, SetAdditional
<1>6. ReceiveControl(c, f) \in
        {Err(c, "FragmentedControlFrame"), Err(c, "ControlFrameTooBig"),
         Err(c, "InvalidCloseSequence"), Err(c, "Utf8"), do_close(c, f),
         Value(d, Message("Ping", f.len)), Value(c, Message("Pong", f.len))}
  BY DEF ReceiveControl
<1> HIDE DEF d
<1>7. /\ Value(d, Message("Ping", f.len)) \in Steps(c)
      /\ Value(c, Message("Pong", f.len)) \in Steps(c)
  BY <1>1, <1>3, <1>5, Returns
<1> QED BY <1>2, <1>4, <1>6, <1>7

LEMMA ReceiveFrameGood ==
  ASSUME NEW c, Good(c), NEW f \in Frame PROVE ReceiveFrame(c, f) \subseteq Steps(c)
<1>1. c \in Context /\ Follows(c, c)
  BY FollowsReflexive DEF Good
<1> DEFINE d1 == IF Deflate THEN fail_compression(c) ELSE c
           d2 == fail_compression_on_discarded_frame(c, f)
           S == Then(InflateData(c, f), LAMBDA r : ReceiveData(r.c, r.msg))
<1>2. Good(d1) /\ Follows(c, d1) /\ Good(d2) /\ Follows(c, d2)
  BY <1>1, FailCompressionGood, DiscardedGood
<1>3. IsData(f) => S \subseteq Steps(c)
  <2> SUFFICES ASSUME IsData(f) PROVE S \subseteq Steps(c)
    OBVIOUS
  <2>1. \A q \in InflateData(c, f) : q \in Steps(c) /\ (q.err = "None" => q.msg.op = f.op)
    BY InflateGood
  <2>2. ASSUME NEW q \in InflateData(c, f), q.err = "None"
        PROVE  ReceiveData(q.c, q.msg) \subseteq Steps(c)
    <3>1. Good(q.c) /\ q.msg \in Frame /\ Steps(q.c) \subseteq Steps(c)
      BY <1>1, <2>1, Returned
    <3>2. IsData(q.msg)
      BY <2>1, <2>2 DEF IsData
    <3> QED BY <3>1, <3>2, ReceiveDataGood
  <2> QED BY <2>1, <2>2 DEF Then
<1>4. ReceiveControl(c, f) \in Steps(c)
  BY ReceiveControlGood
<1>5. \/ ReceiveFrame(c, f) \in {{Err(d1, "UnmaskedFrameFromClient")},
                                 {Err(c, "ReceivedAfterClosing")},
                                 {Err(d2, "NonZeroReservedBits")},
                                 {Err(d2, "MaskedFrameFromServer")},
                                 {ReceiveControl(c, f)}}
      \/ IsData(f) /\ ReceiveFrame(c, f) = S
  BY DEF ReceiveFrame
<1> HIDE DEF d1, d2, S
<1>6. /\ Err(d1, "UnmaskedFrameFromClient") \in Steps(c)
      /\ Err(c, "ReceivedAfterClosing") \in Steps(c)
      /\ Err(d2, "NonZeroReservedBits") \in Steps(c)
      /\ Err(d2, "MaskedFrameFromServer") \in Steps(c)
  BY <1>1, <1>2, Returns DEF Error
<1> QED BY <1>3, <1>4, <1>5, <1>6

\* The inputs of read_message_frame.
Inputs == {FrameInput(f) : f \in Frame} \cup {EofInput} \cup {ErrorInput(e) : e \in InputError}

LEMMA ReadMessageFrameGood ==
  ASSUME NEW c, Good(c), NEW in \in Inputs PROVE read_message_frame(c, in) \subseteq Steps(c)
<1>1. c \in Context /\ Follows(c, c)
  BY FollowsReflexive DEF Good
<1>2. CASE \E f \in Frame : in = FrameInput(f)
  <2>1. PICK f \in Frame : in = FrameInput(f)
    BY <1>2
  <2>2. read_message_frame(c, in) = ReceiveFrame(c, f)
    BY <2>1 DEF read_message_frame, FrameInput
  <2> QED BY <2>2, ReceiveFrameGood
<1>3. CASE in = EofInput
  <2> DEFINE d == [c EXCEPT !.state = "Terminated"]
  <2>1. Good(d) /\ Follows(c, d)
    BY Assign DEF WebSocketState, MayFollow
  <2>2. read_message_frame(c, in) \in
          {{Err(d, "ConnectionClosed")}, {Err(d, "ResetWithoutClosingHandshake")}}
    BY <1>3 DEF read_message_frame, EofInput
  <2> HIDE DEF d
  <2>3. /\ Err(d, "ConnectionClosed") \in Steps(c)
        /\ Err(d, "ResetWithoutClosingHandshake") \in Steps(c)
    BY <2>1, Returns DEF Error
  <2> QED BY <2>2, <2>3
<1>4. CASE \E e \in InputError : in = ErrorInput(e)
  <2>1. PICK e \in InputError : in = ErrorInput(e)
    BY <1>4
  <2>2. read_message_frame(c, in) = {check_connection_reset(Err(c, e), c)}
    BY <2>1 DEF read_message_frame, ErrorInput
  <2>3. Err(c, e) \in Steps(c)
    BY <1>1, Returns DEF InputError, Error
  <2> QED BY <2>2, <2>3, ConnectionReset
<1> QED BY <1>2, <1>3, <1>4 DEF Inputs

LEMMA ReadPrepareGood ==
  ASSUME NEW c, Good(c) PROVE ReadPrepare(c) \subseteq Steps(c)
<1>1. c \in Context /\ Follows(c, c)
  BY FollowsReflexive DEF Good
<1> DEFINE d == [c EXCEPT !.state = "Terminated"]
           Q(r) == IF r.err = "WouldBlock"
                     THEN Ok([r.c EXCEPT !.unflushed_additional = TRUE]) ELSE r
<1>2. Err(d, "ConnectionClosed") \in Steps(c) /\ Ok(c) \in Steps(c)
  <2>1. Good(d) /\ Follows(c, d)
    BY Assign DEF WebSocketState, MayFollow
  <2> HIDE DEF d
  <2> QED BY <1>1, <2>1, Returns DEF Error
<1>3. ASSUME NEW r \in Steps(c) PROVE Q(r) \in Steps(c)
  <2> DEFINE e == [r.c EXCEPT !.unflushed_additional = TRUE]
  <2>1. Good(r.c) /\ Steps(r.c) \subseteq Steps(c)
    BY <1>1, Returned
  <2>2. Good(e) /\ Follows(r.c, e)
    BY <2>1, Assign
  <2> HIDE DEF e
  <2>3. Ok(e) \in Steps(c)
    BY <2>1, <2>2, Returns
  <2> QED BY <2>3 DEF e
<1>4. flush(c) \subseteq Steps(c)
  BY FlushGood
<1>5. \/ ReadPrepare(c) = {Q(r) : r \in flush(c)}
      \/ ReadPrepare(c) = {Err(d, "ConnectionClosed")}
      \/ ReadPrepare(c) = {Ok(c)}
  BY DEF ReadPrepare
<1> HIDE DEF d, Q
<1> QED BY <1>2, <1>3, <1>4, <1>5

-----------------------------------------------------------------------------
(* Creating and configuring *)

LEMMA NewContextGood ==
  ASSUME NEW role \in Role, NEW cfg, ValidConfig(cfg),
         cfg.max_write_buffer_size \in Nat, cfg.write_buffer_size \in Nat,
         cfg.max_message_size \in Nat, cfg.accept_unmasked_frames \in BOOLEAN
  PROVE  Good(NewContext(role, cfg))
<1> DEFINE c == NewContext(role, cfg)
<1>1. <<>> \in Seq(Byte) /\ <<>> \in Seq(Frame) /\ NoMessage \in Incomplete
  BY DEF NoMessage, Incomplete
<1>2. c \in Context
  BY <1>1, FrameTypes DEF NewContext, Context, WebSocketState
<1>3. /\ c.wire = <<>> /\ c.out_buffer = <<>> /\ c.sent = <<>>
      /\ c.max_out_buffer_len > c.out_buffer_write_len /\ ~c.compression_unusable
  BY DEF NewContext, ValidConfig
<1>4. Framed(<<>> \o <<>>, <<>>) /\ Ascending(<<>> \o <<>>)
  <2>1. <<>> \o <<>> = <<>>
    OBVIOUS
  <2>2. Framed(<<>>, <<>>) /\ Ascending(<<>>)
    BY DEF Framed, Ascending
  <2> QED BY <2>1, <2>2
<1> HIDE DEF c
<1>5. c.out_buffer_write_len < c.max_out_buffer_len
  BY <1>2, <1>3, ContextFields
<1>6. Good(c)
  BY <1>2, <1>3, <1>4, <1>5 DEF Good
<1> QED BY <1>6 DEF c

\* set_config is the one call that moves the limits; it keeps them in order even
\* when it panics.
LEMMA SetConfigGood ==
  ASSUME NEW c, Good(c), NEW cfg, NEW agreed \in BOOLEAN,
         cfg.max_write_buffer_size \in Nat, cfg.write_buffer_size \in Nat,
         cfg.max_message_size \in Nat, cfg.accept_unmasked_frames \in BOOLEAN
  PROVE  LET r == set_config(c, cfg, agreed)
         IN  /\ r \in Result /\ Good(r.c)
             /\ r.c.out_buffer = c.out_buffer /\ r.c.state = c.state
<1> DEFINE d == [c EXCEPT !.max_message_size = cfg.max_message_size,
                          !.accept_unmasked_frames = cfg.accept_unmasked_frames]
           e == [d EXCEPT !.max_out_buffer_len = cfg.max_write_buffer_size,
                          !.out_buffer_write_len = cfg.write_buffer_size]
<1>1. c \in Context
  BY DEF Good
<1>2. /\ d \in Context /\ d.wire = c.wire /\ d.out_buffer = c.out_buffer /\ d.sent = c.sent
      /\ d.max_out_buffer_len = c.max_out_buffer_len
      /\ d.out_buffer_write_len = c.out_buffer_write_len /\ d.state = c.state
      /\ d.compression_unusable = c.compression_unusable
  BY <1>1 DEF Context
<1>3. set_config(c, cfg, agreed) =
        IF agreed THEN (IF ValidConfig(cfg) THEN Ok(e) ELSE Err(d, "Panic"))
        ELSE Err(c, "Panic")
  BY DEF set_config
<1> HIDE DEF d
<1>4. /\ e \in Context /\ e.wire = d.wire /\ e.out_buffer = d.out_buffer /\ e.sent = d.sent
      /\ e.max_out_buffer_len = cfg.max_write_buffer_size
      /\ e.out_buffer_write_len = cfg.write_buffer_size /\ e.state = d.state
      /\ e.compression_unusable = d.compression_unusable
  BY <1>2 DEF Context
<1> HIDE DEF e
<1>5. Good(d)
  BY <1>2 DEF Good
<1>6. ValidConfig(cfg) => Good(e)
  BY <1>2, <1>4 DEF Good, ValidConfig
<1>7. /\ Ok(e) \in Result /\ Ok(e).c = e
      /\ Err(d, "Panic") \in Result /\ Err(d, "Panic").c = d
      /\ Err(c, "Panic") \in Result /\ Err(c, "Panic").c = c
  BY <1>1, <1>2, <1>4, ResultTypes DEF Ok, Err, Res, Error
<1> QED BY <1>2, <1>3, <1>4, <1>5, <1>6, <1>7

-----------------------------------------------------------------------------
(* What is sent *)

\* The frame as buffer_frame buffers it.
Masked(c, f) == [f EXCEPT !.masked = @ \/ c.role = "Client"]

\* What no write and no flush touches.
Same(c, d) ==
  /\ d.role = c.role /\ d.incomplete = c.incomplete
  /\ d.max_message_size = c.max_message_size
  /\ d.compressed_incomplete = c.compressed_incomplete
  /\ d.compression_unusable = c.compression_unusable
  /\ d.enc = c.enc /\ d.dec = c.dec

\* At most bytes went from the buffer to the stream.
Unmoved(c, d) ==
  /\ Same(c, d) /\ d.state = c.state /\ d.additional_send = c.additional_send
  /\ d.sent = c.sent /\ d.acc = c.acc

\* Frame f was put into the write buffer.
Appended(c, f, d) ==
  /\ Same(c, d) /\ d.state = c.state /\ d.additional_send = c.additional_send
  /\ d.sent = Append(c.sent, Masked(c, f)) /\ d.acc = Accepted(c, Masked(c, f))

\* The reply in additional_send stayed there or was put into the write buffer.
Replied(c, d) ==
  /\ Same(c, d)
  /\ \/ /\ d.sent = c.sent /\ d.acc = c.acc
        /\ \/ d.additional_send = c.additional_send
           \/ /\ c.additional_send # NoFrame
              /\ d.additional_send = Masked(c, c.additional_send)
     \/ /\ c.additional_send # NoFrame /\ d.additional_send = NoFrame
        /\ d.sent = Append(c.sent, Masked(c, c.additional_send))
        /\ d.acc = Accepted(c, Masked(c, c.additional_send))

\* The server ends a connection that is done.
MayEnd(c, d) ==
  d.state = c.state \/ (d.state = "Terminated" /\ c.role = "Server" /\ ~can_read(c))

\* Only a call on a connection that is not read any more reports its end: at a
\* server, or because of a reset.
MayReport(c, e) ==
  /\ e \notin {"WriteBufferFull", "Loop", "ResetWithoutClosingHandshake"}
  /\ e = "ConnectionClosed" =>
       ~can_read(c) /\ (c.role = "Server" \/ "ConnectionReset" \in StreamErrors)

\* The results of a call that sends no more than the reply.
Quiet(c) ==
  {r \in Steps(c) :
     /\ Replied(c, r.c) /\ MayEnd(c, r.c) /\ MayReport(c, r.err)
     /\ r.err # "ConnectionClosed" => r.c.state = c.state}

LEMMA MaskedType ==
  ASSUME NEW c, NEW f \in Frame
  PROVE  /\ Masked(c, f) \in Frame /\ Masked(c, Masked(c, f)) = Masked(c, f)
         /\ Masked(c, f).op = f.op /\ Masked(c, f).code = f.code
         /\ Masked(c, f).rsv1 = f.rsv1 /\ Masked(c, f).plain = f.plain
         /\ Masked(c, f).len = f.len
<1> DEFINE b == f.masked \/ c.role = "Client"
<1>1. b \in BOOLEAN /\ Masked(c, f) = [f EXCEPT !.masked = b]
  BY Zenon DEF Masked, Frame
<1>2. /\ [f EXCEPT !.masked = b] \in Frame
      /\ [f EXCEPT !.masked = b].op = f.op /\ [f EXCEPT !.masked = b].code = f.code
      /\ [f EXCEPT !.masked = b].rsv1 = f.rsv1 /\ [f EXCEPT !.masked = b].plain = f.plain
      /\ [f EXCEPT !.masked = b].len = f.len
  <2> HIDE DEF b
  <2> QED BY <1>1 DEF Frame
<1>3. Masked(c, Masked(c, f)) = Masked(c, f)
  BY DEF Masked, Frame
<1> QED BY <1>1, <1>2, <1>3

LEMMA DrainUnmoved ==
  ASSUME NEW c \in Context, NEW n PROVE Unmoved(c, Drain(c, n))
BY DEF Unmoved, Same, Drain, Context

LEMMA WriteOutBufferUnmoved ==
  ASSUME NEW c, Good(c), NEW r \in write_out_buffer(c)
  PROVE  /\ r \in Steps(c) /\ Unmoved(c, r.c)
         /\ r.err \in IoError \cup {"None"} /\ r.err \in StreamErrors \cup {"None"}
<1>1. c \in Context /\ r \in Steps(c)
  BY WriteOutBuffer DEF Good
<1>2. \E n : r.c = Drain(c, n)
  BY DEF write_out_buffer, Ok, Err, Res
<1>3. r.err \in IoError \cup {"None"} /\ r.err \in StreamErrors \cup {"None"}
  BY StreamErrorsAssumption DEF write_out_buffer, Ok, Err, Res
<1> QED BY <1>1, <1>2, <1>3, DrainUnmoved

LEMMA AppendAppended ==
  ASSUME NEW c \in Context, NEW f \in Frame
  PROVE  Appended(c, f, AppendFrame(c, Masked(c, f)))
BY DEF Appended, Same, AppendFrame, Context

\* A frame that does not fit changes nothing; one that fits is buffered, though
\* the stream may then fail.
LEMMA BufferFrameSent ==
  ASSUME NEW c, Good(c), NEW f \in Frame, NEW r \in buffer_frame(c, f)
  PROVE  /\ r \in Steps(c)
         /\ \/ /\ ~can_buffer(c, FrameLen(Masked(c, f)))
               /\ r = WriteBufferFull(c, Masked(c, f))
            \/ /\ can_buffer(c, FrameLen(Masked(c, f)))
               /\ Appended(c, f, r.c)
               /\ r.err \in IoError \cup {"None", "ConnectionClosed"} /\ MayReport(c, r.err)
<1> DEFINE g == Masked(c, f)
           a == AppendFrame(c, g)
<1>1. c \in Context /\ g \in Frame /\ r \in Steps(c)
  BY MaskedType, BufferFrame DEF Good
<1>2. PICK s \in FrameCodec_buffer_frame(c, g) : r = check_connection_reset(s, c)
  BY DEF buffer_frame, Masked
<1>3. CASE ~can_buffer(c, FrameLen(g))
  <2>1. s = WriteBufferFull(c, g)
    BY <1>2, <1>3 DEF FrameCodec_buffer_frame
  <2>2. r = s
    BY <1>2, <2>1 DEF check_connection_reset, WriteBufferFull, Res
  <2> QED BY <1>1, <1>3, <2>1, <2>2
<1>4. CASE can_buffer(c, FrameLen(g))
  <2>1. Good(a) /\ Appended(c, f, a)
    BY <1>1, <1>4, AppendGood, AppendAppended
  <2>2. s \in write_out_buffer(a) \/ s = Ok(a)
    BY <1>2, <1>4 DEF FrameCodec_buffer_frame
  <2> HIDE DEF a
  <2>3. /\ Unmoved(a, s.c)
        /\ s.err \in IoError \cup {"None"} /\ s.err \in StreamErrors \cup {"None"}
    <3>1. CASE s = Ok(a)
      BY <3>1 DEF Ok, Res, Unmoved, Same
    <3>2. CASE s \in write_out_buffer(a)
      BY <2>1, <3>2, WriteOutBufferUnmoved
    <3> QED BY <2>2, <3>1, <3>2
  <2>4. Appended(c, f, s.c)
    BY <2>1, <2>3 DEF Appended, Unmoved, Same
  <2>5. /\ r.c = s.c /\ r.err \in {s.err, "ConnectionClosed"} /\ MayReport(c, r.err)
    BY <1>2, <2>3 DEF check_connection_reset, Err, Res, IoError, MayReport
  <2> QED BY <1>1, <1>4, <2>3, <2>4, <2>5
<1> QED BY <1>3, <1>4

LEMMA MaskedSameRole ==
  ASSUME NEW c, NEW d, d.role = c.role, NEW f \in Frame
  PROVE  /\ Masked(d, f) = Masked(c, f)
         /\ d.acc = c.acc => Accepted(d, f) = Accepted(c, f)
BY DEF Masked, Accepted

LEMMA RepliedReflexive ==
  ASSUME NEW c \in Context PROVE Replied(c, c) /\ MayEnd(c, c)
BY DEF Replied, Same, MayEnd

LEMMA RepliedTransitive ==
  ASSUME NEW c \in Context, NEW d \in Context, NEW e, Replied(c, d), Replied(d, e)
  PROVE  Replied(c, e)
<1> DEFINE f == c.additional_send
<1>1. f \in Frame /\ d.role = c.role
  BY ContextFields DEF Replied, Same
<1>2. /\ Masked(d, f) = Masked(c, f) /\ Masked(c, f) \in Frame
      /\ Masked(d, Masked(c, f)) = Masked(c, f)
  <2>1. Masked(c, f) \in Frame /\ Masked(c, Masked(c, f)) = Masked(c, f)
    BY <1>1, MaskedType
  <2>2. Masked(d, f) = Masked(c, f) /\ Masked(d, Masked(c, f)) = Masked(c, Masked(c, f))
    BY <1>1, <2>1, MaskedSameRole
  <2> QED BY <2>1, <2>2
<1>3. d.acc = c.acc => Accepted(d, Masked(c, f)) = Accepted(c, Masked(c, f))
  BY <1>1, <1>2, MaskedSameRole
<1>4. Same(c, e)
  BY DEF Replied, Same
<1>5. CASE d.sent = c.sent /\ d.acc = c.acc /\ d.additional_send = f
  BY <1>2, <1>3, <1>4, <1>5 DEF Replied
<1>6. CASE /\ d.sent = c.sent /\ d.acc = c.acc /\ f # NoFrame
           /\ d.additional_send = Masked(c, f)
  BY <1>2, <1>3, <1>4, <1>6 DEF Replied
<1>7. CASE /\ f # NoFrame /\ d.additional_send = NoFrame
           /\ d.sent = Append(c.sent, Masked(c, f)) /\ d.acc = Accepted(c, Masked(c, f))
  BY <1>4, <1>7 DEF Replied
<1> QED BY <1>5, <1>6, <1>7 DEF Replied

\* A call that goes on in d after c is as quiet as one that starts in d.
LEMMA QuietTransitive ==
  ASSUME NEW c \in Context, NEW d \in Context,
         Follows(c, d), Replied(c, d), d.state = c.state
  PROVE  Quiet(d) \subseteq Quiet(c)
<1> SUFFICES ASSUME NEW r \in Quiet(d) PROVE r \in Quiet(c)
  OBVIOUS
<1>1. r \in Steps(c)
  BY StepsTransitive DEF Quiet
<1>2. Replied(c, r.c)
  BY RepliedTransitive DEF Quiet
<1>3. /\ d.role = c.role /\ (can_read(d) <=> can_read(c))
  BY DEF Replied, Same, can_read
<1> QED BY <1>1, <1>2, <1>3 DEF Quiet, MayEnd, MayReport

LEMMA UnmovedReplied ==
  ASSUME NEW c, NEW d, Unmoved(c, d) PROVE Replied(c, d) /\ d.state = c.state
BY DEF Unmoved, Replied

LEMMA WriteOutBufferQuiet ==
  ASSUME NEW c, Good(c) PROVE write_out_buffer(c) \subseteq Quiet(c)
<1> SUFFICES ASSUME NEW r \in write_out_buffer(c) PROVE r \in Quiet(c)
  OBVIOUS
<1>1. r \in Steps(c) /\ Unmoved(c, r.c) /\ r.err \in IoError \cup {"None"}
  BY WriteOutBufferUnmoved
<1>2. Replied(c, r.c) /\ r.c.state = c.state
  BY <1>1, UnmovedReplied
<1> QED BY <1>1, <1>2 DEF Quiet, MayEnd, MayReport, IoError

\* The reply stays in additional_send exactly if it does not fit.
LEMMA BufferAdditionalQuiet ==
  ASSUME NEW c, Good(c), NEW r \in BufferAdditional(c)
  PROVE  r \in Quiet(c) /\ r.c.state = c.state
<1>1. c \in Context /\ c.additional_send \in Frame /\ r \in Steps(c)
  BY ContextFields, BufferAdditionalGood DEF Good
<1>2. CASE c.additional_send = NoFrame
  <2>1. r = ShouldFlush(c, c.unflushed_additional)
    BY <1>2 DEF BufferAdditional
  <2> QED BY <1>1, <2>1, RepliedReflexive DEF ShouldFlush, Res, Quiet, MayReport
<1>3. CASE c.additional_send # NoFrame
  <2> DEFINE f == c.additional_send
             d == [c EXCEPT !.additional_send = NoFrame]
  <2>1. Good(d) /\ d.additional_send = NoFrame
    BY <1>1, FrameTypes, Assign DEF Context
  <2>2. /\ Same(c, d) /\ d.state = c.state /\ d.sent = c.sent /\ d.acc = c.acc
        /\ d.role = c.role
    BY <1>1 DEF Same, Context
  <2>3. PICK s \in buffer_frame(d, f) :
          r = CASE s.err = "None" -> ShouldFlush(s.c, TRUE)
                [] s.err = "WriteBufferFull" -> Ok(set_additional(s.c, s.msg))
                [] OTHER -> s
    BY <1>3 DEF BufferAdditional
  <2> HIDE DEF d
  <2>4. /\ Masked(d, f) = Masked(c, f) /\ Masked(c, f) \in Frame
        /\ Accepted(d, Masked(c, f)) = Accepted(c, Masked(c, f))
        /\ (can_read(d) <=> can_read(c))
    BY <1>1, <2>2, MaskedType, MaskedSameRole DEF can_read
  <2>5. CASE s = WriteBufferFull(d, Masked(d, f))
    <3> DEFINE g == Masked(c, f)
               e == [d EXCEPT !.additional_send = g]
    <3>1. r = Ok(e)
      BY <2>1, <2>3, <2>4, <2>5 DEF WriteBufferFull, Res, set_additional, NoFrame, MakeFrame
    <3>2. /\ Same(d, e) /\ e.state = d.state /\ e.sent = d.sent /\ e.acc = d.acc
          /\ e.additional_send = g
      BY <2>1 DEF Good, Same, Context
    <3> HIDE DEF e, g
    <3>3. Replied(c, e) /\ e.state = c.state
      BY <1>3, <2>2, <3>2 DEF Replied, Same, g
    <3> QED BY <1>1, <3>1, <3>3 DEF Quiet, MayEnd, MayReport, Ok, Res
  <2>6. CASE /\ Appended(d, f, s.c)
             /\ s.err \in IoError \cup {"None", "ConnectionClosed"} /\ MayReport(d, s.err)
    <3>1. Replied(c, s.c) /\ s.c.state = c.state
      BY <1>3, <2>1, <2>2, <2>4, <2>6 DEF Appended, Replied, Same
    <3>2. r = ShouldFlush(s.c, TRUE) \/ (r = s /\ s.err # "None")
      BY <2>3, <2>6 DEF IoError
    <3>3. /\ r.c = s.c /\ r.err \in IoError \cup {"None", "ConnectionClosed"}
          /\ MayReport(c, r.err)
      BY <2>2, <2>4, <2>6, <3>2 DEF ShouldFlush, Res, MayReport
    <3> QED BY <1>1, <3>1, <3>3 DEF Quiet, MayEnd, IoError
  <2> QED BY <1>1, <2>1, <2>5, <2>6, BufferFrameSent
<1> QED BY <1>2, <1>3

\* The end of a connection that is done is an error.
LEMMA CloseIfDoneQuiet ==
  ASSUME NEW c \in Context, NEW r \in Quiet(c), r.err = "None"
  PROVE  CloseIfDone(r) \subseteq Quiet(c)
<1> DEFINE b == r.c
<1>1. /\ Good(b) /\ b \in Context /\ Replied(c, b) /\ b.state = c.state /\ Follows(c, b)
      /\ b.role = c.role /\ (can_read(b) <=> can_read(c)) /\ r \in Steps(c)
  BY Returned DEF Quiet, Replied, Same, can_read
<1> HIDE DEF b
<1>2. CASE ~(b.role = "Server" /\ ~can_read(b))
  <2>1. CloseIfDone(r) = {r}
    BY <1>2, Zenon DEF CloseIfDone, b
  <2> QED BY <2>1
<1>3. CASE b.role = "Server" /\ ~can_read(b)
  <2> SUFFICES ASSUME NEW q \in CloseIfDone(r) PROVE q \in Quiet(c)
    OBVIOUS
  <2>1. write_out_buffer(b) \subseteq Quiet(c)
    BY <1>1, WriteOutBufferQuiet, QuietTransitive
  <2>2. \/ q \in write_out_buffer(b)
        \/ \E w \in write_out_buffer(b) :
             w.err = "None" /\ q = Err([w.c EXCEPT !.state = "Terminated"], "ConnectionClosed")
    BY <1>3 DEF CloseIfDone, Then, b
  <2>3. ASSUME NEW w \in write_out_buffer(b),
               q = Err([w.c EXCEPT !.state = "Terminated"], "ConnectionClosed")
        PROVE  q \in Quiet(c)
    <3> DEFINE d == [w.c EXCEPT !.state = "Terminated"]
    <3>1. w \in Quiet(c) /\ w.c \in Context
      BY <2>1, Returned DEF Quiet
    <3>2. Same(w.c, d) /\ d.sent = w.c.sent /\ d.acc = w.c.acc
          /\ d.additional_send = w.c.additional_send /\ d.state = "Terminated"
      BY <3>1 DEF Same, Context
    <3>3. q \in Steps(c)
      BY <1>1, <1>3, <2>3, CloseIfDoneGood, WriteOutBuffer DEF CloseIfDone, Then, b
    <3> HIDE DEF d
    <3>4. Replied(c, d)
      BY <3>1, <3>2 DEF Replied, Same, Quiet
    <3>5. MayEnd(c, d)
      BY <1>1, <1>3, <3>2 DEF MayEnd
    <3>6. q = Err(d, "ConnectionClosed") /\ ~can_read(c) /\ c.role = "Server"
      BY <1>1, <1>3, <2>3 DEF d
    <3> QED BY <3>3, <3>4, <3>5, <3>6 DEF Quiet, MayReport, Err, Res
  <2> QED BY <2>1, <2>2, <2>3
<1> QED BY <1>2, <1>3

\* A call goes on in b after it was quiet so far.
LEMMA QuietGoesOn ==
  ASSUME NEW c \in Context, NEW r \in Quiet(c), r.err = "None"
  PROVE  /\ Good(r.c) /\ r.c \in Context /\ Follows(c, r.c)
         /\ Replied(c, r.c) /\ r.c.state = c.state /\ Quiet(r.c) \subseteq Quiet(c)
<1>1. /\ Good(r.c) /\ r.c \in Context /\ Follows(c, r.c)
      /\ Replied(c, r.c) /\ r.c.state = c.state
  BY Returned DEF Quiet
<1>2. Quiet(r.c) \subseteq Quiet(c)
  BY <1>1, QuietTransitive
<1> QED BY <1>1, <1>2

\* The part of _write behind the data.
LEMMA WriteReply ==
  ASSUME NEW c, Good(c) PROVE Then(BufferAdditional(c), CloseIfDone) \subseteq Quiet(c)
<1>1. c \in Context /\ BufferAdditional(c) \subseteq Quiet(c)
  BY BufferAdditionalQuiet DEF Good
<1>2. \A r \in BufferAdditional(c) : r.err = "None" => CloseIfDone(r) \subseteq Quiet(c)
  BY <1>1, CloseIfDoneQuiet
<1> QED BY <1>1, <1>2 DEF Then

LEMMA UnderscoreWriteQuiet ==
  ASSUME NEW c, Good(c) PROVE _write(c, NoFrame) \subseteq Quiet(c)
<1> DEFINE G(r) == Then(BufferAdditional(r.c), CloseIfDone)
<1>1. _write(c, NoFrame) = {r \in {Ok(c)} : r.err # "None"}
                             \cup UNION {G(r) : r \in {s \in {Ok(c)} : s.err = "None"}}
  BY DEF _write, Then
<1>2. Ok(c).err = "None" /\ Ok(c).c = c
  BY DEF Ok, Res
<1>3. G(Ok(c)) \subseteq Quiet(c)
  BY <1>2, WriteReply
<1> HIDE DEF G
<1> QED BY <1>1, <1>2, <1>3

LEMMA StreamFlushQuiet ==
  ASSUME NEW c, Good(c) PROVE StreamFlush(c) \subseteq Quiet(c)
<1> SUFFICES ASSUME NEW r \in StreamFlush(c) PROVE r \in Quiet(c)
  OBVIOUS
<1>1. c \in Context /\ r \in Steps(c)
  BY StreamFlushGood DEF Good
<1> DEFINE d == [c EXCEPT !.flushed = Len(c.wire), !.unflushed_additional = FALSE]
<1>2. Unmoved(c, d) /\ Unmoved(c, c)
  BY <1>1 DEF Unmoved, Same, Context
<1>3. r.c \in {c, d} /\ r.err \in IoError \cup {"None"}
  BY StreamErrorsAssumption DEF StreamFlush, Ok, Err, Res
<1>4. Replied(c, r.c) /\ r.c.state = c.state
  BY <1>2, <1>3, UnmovedReplied
<1> QED BY <1>1, <1>3, <1>4 DEF Quiet, MayEnd, MayReport, IoError

LEMMA FlushQuiet ==
  ASSUME NEW c, Good(c) PROVE flush(c) \subseteq Quiet(c)
<1>1. c \in Context
  BY DEF Good
<1>2. CASE c.compression_unusable
  <2>1. Err(c, "AlreadyClosed") \in Steps(c)
    BY <1>1, FollowsReflexive, Returns DEF Error
  <2>2. Err(c, "AlreadyClosed") \in Quiet(c)
    BY <1>1, <2>1, RepliedReflexive DEF Quiet, MayReport, Err, Res
  <2> QED BY <1>2, <2>2 DEF flush
<1>3. CASE ~c.compression_unusable
  <2> DEFINE G(r) == Then(write_out_buffer(r.c), LAMBDA w : StreamFlush(w.c))
  <2>1. _write(c, NoFrame) \subseteq Quiet(c)
    BY UnderscoreWriteQuiet
  <2>2. ASSUME NEW r \in _write(c, NoFrame), r.err = "None" PROVE G(r) \subseteq Quiet(c)
    <3>1. Good(r.c) /\ r.c \in Context /\ Quiet(r.c) \subseteq Quiet(c)
      BY <1>1, <2>1, <2>2, QuietGoesOn
    <3>2. write_out_buffer(r.c) \subseteq Quiet(r.c)
      BY <3>1, WriteOutBufferQuiet
    <3>3. \A w \in write_out_buffer(r.c) : w.err = "None" => StreamFlush(w.c) \subseteq Quiet(r.c)
      BY <3>1, <3>2, QuietGoesOn, StreamFlushQuiet
    <3> QED BY <3>1, <3>2, <3>3 DEF Then
  <2>3. flush(c) = {r \in _write(c, NoFrame) : r.err # "None"}
                     \cup UNION {G(r) : r \in {s \in _write(c, NoFrame) : s.err = "None"}}
    BY <1>3 DEF flush, Then
  <2> HIDE DEF G
  <2> QED BY <2>1, <2>2, <2>3
<1> QED BY <1>2, <1>3

\* The results of a call that sends frame f, and the reply behind it.
Loud(c, f) ==
  {r \in Steps(c) :
     \/ /\ r = WriteBufferFull(c, Masked(c, f))
        /\ ~can_buffer(c, FrameLen(Masked(c, f)))
     \/ /\ \E d \in Context : Appended(c, f, d) /\ Replied(d, r.c)
        /\ MayEnd(c, r.c) /\ MayReport(c, r.err)
        /\ r.err # "ConnectionClosed" => r.c.state = c.state}

\* What follows a frame that was buffered.
LEMMA QuietIsLoud ==
  ASSUME NEW c \in Context, NEW f \in Frame, NEW d \in Context, NEW b,
         Appended(c, f, d), Replied(d, b), b \in Context, Follows(c, b), b.state = c.state
  PROVE  Quiet(b) \subseteq Loud(c, f)
<1> SUFFICES ASSUME NEW r \in Quiet(b) PROVE r \in Loud(c, f)
  OBVIOUS
<1>1. r \in Steps(c)
  BY StepsTransitive DEF Quiet
<1>2. Replied(d, r.c)
  BY RepliedTransitive DEF Quiet
<1>3. /\ b.role = c.role /\ (can_read(b) <=> can_read(c))
  BY DEF Replied, Appended, Same, can_read
<1>4. MayEnd(c, r.c)
  BY <1>3 DEF Quiet, MayEnd
<1> QED BY <1>1, <1>2, <1>3, <1>4 DEF Quiet, Loud, MayReport

\* Go on with quiet calls after a loud one.
LEMMA LoudGoesOn ==
  ASSUME NEW c \in Context, NEW f \in Frame, NEW r \in Loud(c, f), r.err = "None"
  PROVE  Good(r.c) /\ r.c \in Context /\ Quiet(r.c) \subseteq Loud(c, f)
         /\ Ok(r.c) \in Loud(c, f)
<1>1. Good(r.c) /\ r.c \in Context /\ Follows(c, r.c)
  BY Returned DEF Loud
<1>2. PICK d \in Context : Appended(c, f, d) /\ Replied(d, r.c)
  BY DEF Loud, WriteBufferFull, Res
<1>3. r.c.state = c.state
  BY DEF Loud, WriteBufferFull, Res
<1>4. Quiet(r.c) \subseteq Loud(c, f)
  BY <1>1, <1>2, <1>3, QuietIsLoud
<1>5. Ok(r.c) \in Quiet(r.c)
  <2>1. Ok(r.c) \in Steps(r.c)
    BY <1>1, FollowsReflexive, Returns
  <2> QED BY <1>1, <2>1, RepliedReflexive DEF Quiet, MayReport, Ok, Res
<1> QED BY <1>1, <1>4, <1>5

LEMMA UnderscoreWriteLoud ==
  ASSUME NEW c, Good(c), NEW f \in Frame, f # NoFrame PROVE _write(c, f) \subseteq Loud(c, f)
<1>1. c \in Context
  BY DEF Good
<1> DEFINE G(r) == Then(BufferAdditional(r.c), CloseIfDone)
<1>2. ASSUME NEW r \in buffer_frame(c, f) PROVE r \in Loud(c, f)
  <2>1. CASE r = WriteBufferFull(c, Masked(c, f))
    BY <2>1, BufferFrameSent DEF Loud, WriteBufferFull, Res, IoError
  <2>2. CASE r # WriteBufferFull(c, Masked(c, f))
    <3>1. /\ r \in Steps(c) /\ Appended(c, f, r.c)
          /\ r.err \in IoError \cup {"None", "ConnectionClosed"} /\ MayReport(c, r.err)
      BY <2>2, BufferFrameSent
    <3>2. r.c \in Context /\ Replied(r.c, r.c) /\ r.c.state = c.state
      BY <1>1, <3>1, Returned, RepliedReflexive DEF Appended
    <3> QED BY <3>1, <3>2 DEF Loud, MayEnd, IoError
  <2> QED BY <2>1, <2>2
<1>3. ASSUME NEW r \in buffer_frame(c, f), r.err = "None" PROVE G(r) \subseteq Loud(c, f)
  <2>1. Good(r.c) /\ Quiet(r.c) \subseteq Loud(c, f)
    BY <1>1, <1>2, <1>3, LoudGoesOn
  <2> QED BY <2>1, WriteReply
<1>4. _write(c, f) = {r \in buffer_frame(c, f) : r.err # "None"}
                       \cup UNION {G(r) : r \in {s \in buffer_frame(c, f) : s.err = "None"}}
  BY DEF _write, Then
<1> HIDE DEF G
<1> QED BY <1>2, <1>3, <1>4

LEMMA WriteAndFlushLoud ==
  ASSUME NEW c, Good(c), NEW f \in Frame, f # NoFrame
  PROVE  WriteAndFlush(c, f) \subseteq Loud(c, f)
<1>1. c \in Context /\ _write(c, f) \subseteq Loud(c, f)
  BY UnderscoreWriteLoud DEF Good
<1>2. ASSUME NEW r \in _write(c, f), r.err = "None"
      PROVE  flush(r.c) \subseteq Loud(c, f) /\ Ok(r.c) \in Loud(c, f)
  BY <1>1, <1>2, LoudGoesOn, FlushQuiet
<1> QED BY <1>1, <1>2 DEF WriteAndFlush, Then

LEMMA CloseLoud ==
  ASSUME NEW c, Good(c), NEW f \in Frame, f # NoFrame, is_active(c)
  PROVE  LET d == [c EXCEPT !.state = "ClosedByUs"]
         IN  Good(d) /\ Follows(c, d) /\ close(c, f) \subseteq Loud(d, f)
<1> DEFINE d == [c EXCEPT !.state = "ClosedByUs"]
<1>1. Good(d) /\ Follows(c, d) /\ d \in Context
  BY Assign DEF is_active, WebSocketState, MayFollow, Good
<1>2. close(c, f) = Then(_write(d, f), LAMBDA r : flush(r.c))
  BY DEF close
<1> HIDE DEF d
<1>3. _write(d, f) \subseteq Loud(d, f)
  BY <1>1, UnderscoreWriteLoud
<1>4. \A r \in _write(d, f) : r.err = "None" => flush(r.c) \subseteq Loud(d, f)
  BY <1>1, <1>3, LoudGoesOn, FlushQuiet
<1>5. close(c, f) \subseteq Loud(d, f)
  BY <1>2, <1>3, <1>4 DEF Then
<1> QED BY <1>1, <1>5 DEF d

-----------------------------------------------------------------------------
(* The order of what is sent *)

HasClose(s) == \E i \in 1..Len(s) : s[i].op = "Close"

OnlyPongs(s) ==
  \A i, j \in 1..Len(s) : i < j /\ s[i].op = "Close" => s[j].op = "Pong"

IsReply(f) == f.op = "Close" /\ f.code # "disallowed"

\* additional_send holds an automatic reply or nothing.
Queued(c) ==
  /\ c.additional_send.op \in {"None", "Pong", "Close"}
  /\ c.additional_send.op = "None" => c.additional_send = NoFrame
  /\ ~c.additional_send.rsv1

\* One close frame: what is sent and what is queued hold at most one between
\* them, and neither holds one while the connection is active.
ClosesOnce(c) ==
  /\ OnlyPongs(c.sent)
  /\ HasClose(c.sent) => c.state # "Active" /\ c.additional_send.op # "Close"
  /\ c.additional_send.op = "Close" => c.state # "Active"

ReplyOwed(c) ==
  c.state = "ClosedByPeer" =>
    \/ IsReply(c.additional_send)
    \/ /\ c.additional_send = NoFrame
       /\ c.sent # <<>> /\ IsReply(c.sent[Len(c.sent)])

\* What every call preserves besides Good.
Sound(c) ==
  Queued(c) /\ ClosesOnce(c) /\ ReplyOwed(c) /\ (Deflate => c.enc = c.acc)

LEMMA OneMore ==
  ASSUME NEW s \in Seq(Frame), NEW f \in Frame
  PROVE  /\ Len(Append(s, f)) = Len(s) + 1 /\ Append(s, f) # <<>>
         /\ Append(s, f)[Len(s) + 1] = f
         /\ \A i \in 1..Len(s) : Append(s, f)[i] = s[i]
         /\ HasClose(Append(s, f)) <=> HasClose(s) \/ f.op = "Close"
         /\ OnlyPongs(s) /\ (HasClose(s) => f.op = "Pong") => OnlyPongs(Append(s, f))
<1> DEFINE t == Append(s, f)
<1>1. /\ Len(s) \in Nat /\ Len(t) = Len(s) + 1 /\ t # <<>> /\ t[Len(s) + 1] = f
      /\ \A i \in 1..Len(s) : t[i] = s[i]
  BY AppendProperties, LenProperties
<1> HIDE DEF t
<1>2. HasClose(t) <=> HasClose(s) \/ f.op = "Close"
  BY <1>1 DEF HasClose
<1>3. ASSUME OnlyPongs(s), HasClose(s) => f.op = "Pong" PROVE OnlyPongs(t)
  <2> SUFFICES ASSUME NEW i \in 1..Len(t), NEW j \in 1..Len(t), i < j, t[i].op = "Close"
               PROVE  t[j].op = "Pong"
    BY DEF OnlyPongs
  <2>1. i \in 1..Len(s) /\ s[i].op = "Close"
    BY <1>1
  <2>2. CASE j \in 1..Len(s)
    BY <1>1, <1>3, <2>1, <2>2 DEF OnlyPongs
  <2>3. CASE j = Len(s) + 1
    BY <1>1, <1>3, <2>1, <2>3 DEF HasClose
  <2> QED BY <1>1, <2>2, <2>3
<1> QED BY <1>1, <1>2, <1>3 DEF t

LEMMA NoFrameFields == NoFrame.op = "None" /\ ~NoFrame.rsv1
BY DEF NoFrame, MakeFrame

\* The reply goes into the write buffer, or stays where it is.
LEMMA SoundReplied ==
  ASSUME NEW c \in Context, NEW d \in Context, Sound(c), Replied(c, d), MayEnd(c, d)
  PROVE  Sound(d)
<1> DEFINE f == c.additional_send
           g == Masked(c, f)
<1>1. f \in Frame /\ c.sent \in Seq(Frame)
  BY ContextFields
<1>2. g \in Frame /\ g.op = f.op /\ g.code = f.code /\ g.rsv1 = f.rsv1
  BY <1>1, MaskedType
<1>3. /\ d.state = "Active" => c.state = "Active"
      /\ d.state = "ClosedByPeer" => c.state = "ClosedByPeer"
      /\ c.state # "Active" => d.state # "Active"
      /\ d.enc = c.enc
  BY DEF MayEnd, can_read, Replied, Same
<1> HIDE DEF g
<1>4. CASE d.sent = c.sent /\ d.acc = c.acc /\ d.additional_send = f
  BY <1>3, <1>4 DEF Sound, Queued, ClosesOnce, ReplyOwed
<1>5. CASE d.sent = c.sent /\ d.acc = c.acc /\ f # NoFrame /\ d.additional_send = g
  BY <1>2, <1>3, <1>5 DEF Sound, Queued, ClosesOnce, ReplyOwed, IsReply
<1>6. CASE /\ f # NoFrame /\ d.additional_send = NoFrame
           /\ d.sent = Append(c.sent, g) /\ d.acc = Accepted(c, g)
  <2>1. /\ Len(d.sent) = Len(c.sent) + 1 /\ d.sent # <<>> /\ d.sent[Len(c.sent) + 1] = g
        /\ HasClose(d.sent) <=> HasClose(c.sent) \/ g.op = "Close"
        /\ OnlyPongs(c.sent) /\ (HasClose(c.sent) => g.op = "Pong") => OnlyPongs(d.sent)
    BY <1>1, <1>2, <1>6, OneMore
  <2>2. f.op \in {"Pong", "Close"} /\ ~g.rsv1
    BY <1>2, <1>6 DEF Sound, Queued
  <2>3. Queued(d) /\ d.additional_send.op # "Close"
    BY <1>6, NoFrameFields DEF Queued
  <2>4. ClosesOnce(d)
    BY <1>2, <1>3, <2>1, <2>2, <2>3 DEF Sound, ClosesOnce
  <2>5. ReplyOwed(d)
    BY <1>2, <1>3, <1>6, <2>1 DEF Sound, ReplyOwed, IsReply
  <2>6. Deflate => d.enc = d.acc
    BY <1>3, <1>6, <2>2 DEF Sound, Accepted
  <2> QED BY <2>3, <2>4, <2>5, <2>6 DEF Sound
<1> QED BY <1>4, <1>5, <1>6 DEF Replied, g

\* A frame is buffered before any close frame.
LEMMA SoundAppended ==
  ASSUME NEW c \in Context, NEW d \in Context, NEW f \in Frame, Appended(c, f, d),
         Queued(c), ~HasClose(c.sent), c.additional_send.op # "Close",
         c.state = "ClosedByUs" \/ (c.state = "Active" /\ f.op # "Close"),
         Deflate => c.enc = Accepted(c, Masked(c, f))
  PROVE  Sound(d)
<1> DEFINE g == Masked(c, f)
<1>1. g \in Frame /\ g.op = f.op /\ c.sent \in Seq(Frame)
  BY ContextFields, MaskedType
<1>2. /\ d.sent = Append(c.sent, g) /\ d.state = c.state /\ d.enc = c.enc
      /\ d.additional_send = c.additional_send /\ d.acc = Accepted(c, g)
  BY DEF Appended, Same
<1> HIDE DEF g
<1>3. OnlyPongs(c.sent)
  BY DEF OnlyPongs, HasClose
<1>4. /\ HasClose(d.sent) <=> f.op = "Close"
      /\ OnlyPongs(d.sent)
  BY <1>1, <1>2, <1>3, OneMore
<1> QED BY <1>2, <1>4 DEF Sound, Queued, ClosesOnce, ReplyOwed, g

LEMMA ActiveSound ==
  ASSUME NEW c \in Context, Sound(c), is_active(c)
  PROVE  /\ Queued(c) /\ ~HasClose(c.sent) /\ c.additional_send.op \in {"None", "Pong"}
         /\ can_read(c) /\ c.state = "Active"
BY DEF Sound, Queued, ClosesOnce, is_active, can_read

\* What a control frame may do.
LEMMA ReceiveControlSound ==
  ASSUME NEW c, Good(c), Sound(c), can_read(c), NEW f \in Frame, f.code # "none" => f.len > 1
  PROVE  LET q == ReceiveControl(c, f)
         IN  /\ Sound(q.c) /\ q.c.sent = c.sent /\ q.c.incomplete = c.incomplete
             /\ q.c.dec = c.dec /\ q.c.compressed_incomplete = c.compressed_incomplete
             /\ q.c.max_message_size = c.max_message_size
             /\ q.err \notin {"ConnectionClosed", "WriteBufferFull", "Loop"}
             /\ q.msg.op \notin {"Text", "Binary"}
             /\ q.c.additional_send = c.additional_send \/ q.c.additional_send.op # "None"
             /\ \/ q.c.state = c.state
                \/ f.op = "Close" /\ q.err = "None"
<1> DEFINE Q(q) ==
             /\ Sound(q.c) /\ q.c.sent = c.sent /\ q.c.incomplete = c.incomplete
             /\ q.c.dec = c.dec /\ q.c.compressed_incomplete = c.compressed_incomplete
             /\ q.c.max_message_size = c.max_message_size
             /\ q.err \notin {"ConnectionClosed", "WriteBufferFull", "Loop"}
             /\ q.msg.op \notin {"Text", "Binary"}
             /\ q.c.additional_send = c.additional_send \/ q.c.additional_send.op # "None"
             /\ \/ q.c.state = c.state
                \/ f.op = "Close" /\ q.err = "None"
<1>1. c \in Context /\ f.len \in Nat
  BY DEF Good, Frame
<1>2. ASSUME NEW e, e \notin {"ConnectionClosed", "WriteBufferFull", "Loop"} PROVE Q(Err(c, e))
  <2>1. Err(c, e).c = c /\ Err(c, e).err = e /\ Err(c, e).msg = NoFrame
    BY DEF Err, Res
  <2> HIDE DEF Err
  <2> QED BY <1>2, <2>1, NoFrameFields
<1>3. ASSUME NEW m, m.op \notin {"Text", "Binary"} PROVE Q(Value(c, m))
  <2>1. Value(c, m).c = c /\ Value(c, m).err = "None" /\ Value(c, m).msg = m
    BY DEF Value, Res
  <2> HIDE DEF Value
  <2> QED BY <1>3, <2>1
<1>4. \A op : Message(op, f.len).op = op /\ MakeFrame(op, f.len).op = op
              /\ ~MakeFrame(op, f.len).rsv1
  BY DEF Message, MakeFrame
\* Queueing a reply while the connection is active.
<1>5. ASSUME is_active(c), NEW g, g.op = "Pong", ~g.rsv1, NEW m, m.op \notin {"Text", "Binary"}
      PROVE  Q(Value(set_additional(c, g), m))
  <2> DEFINE d == [c EXCEPT !.additional_send = g]
  <2>1. c.additional_send.op \in {"None", "Pong"} /\ ~HasClose(c.sent)
    BY <1>1, <1>5, ActiveSound
  <2>2. set_additional(c, g) = d
    BY <2>1 DEF set_additional
  <2>3. /\ d.additional_send = g /\ d.sent = c.sent /\ d.incomplete = c.incomplete
        /\ d.dec = c.dec /\ d.compressed_incomplete = c.compressed_incomplete
        /\ d.max_message_size = c.max_message_size /\ d.state = c.state
        /\ d.enc = c.enc /\ d.acc = c.acc
    BY <1>1 DEF Context
  <2> HIDE DEF d
  <2>4. Sound(d)
    BY <1>5, <2>1, <2>3 DEF Sound, Queued, ClosesOnce, ReplyOwed, is_active
  <2>5. Value(d, m).c = d /\ Value(d, m).err = "None" /\ Value(d, m).msg = m
    BY DEF Value, Res
  <2> HIDE DEF Value
  <2> QED BY <1>5, <2>2, <2>3, <2>4, <2>5
<1>6. ASSUME f.op = "Close" PROVE Q(do_close(c, f))
  <2> DEFINE g == CloseReply(f)
             m == CloseFrame(f.code, f.len)
  <2>1. IsReply(g) /\ ~g.rsv1 /\ g.op # "None" /\ m.op = "Close"
    BY <1>1 DEF CloseReply, CloseFrame, MakeFrame, IsReply
  <2>2. CASE c.state = "Active"
    <3> DEFINE d == [c EXCEPT !.state = "ClosedByPeer"]
               e == [d EXCEPT !.additional_send = g]
    <3>1. c.additional_send.op \in {"None", "Pong"} /\ ~HasClose(c.sent)
      BY <1>1, <2>2, ActiveSound DEF is_active
    <3>2. d.additional_send = c.additional_send
      BY <1>1 DEF Context
    <3>3. do_close(c, f) = Value(e, g)
      BY <2>2, <3>1, <3>2 DEF do_close, set_additional
    <3> HIDE DEF g, m
    <3>4. /\ e.additional_send = g /\ e.sent = c.sent /\ e.incomplete = c.incomplete
          /\ e.dec = c.dec /\ e.compressed_incomplete = c.compressed_incomplete
          /\ e.max_message_size = c.max_message_size /\ e.state = "ClosedByPeer"
          /\ e.enc = c.enc /\ e.acc = c.acc
      BY <1>1 DEF Context
    <3> HIDE DEF d, e
    <3>5. Sound(e)
      BY <2>1, <3>1, <3>4 DEF Sound, Queued, ClosesOnce, ReplyOwed, IsReply
    <3>6. Value(e, g).c = e /\ Value(e, g).err = "None" /\ Value(e, g).msg = g
      BY DEF Value, Res
    <3> HIDE DEF Value
    <3> QED BY <1>6, <2>1, <3>3, <3>4, <3>5, <3>6 DEF IsReply
  <2>3. CASE c.state = "ClosedByUs"
    <3> DEFINE d == [c EXCEPT !.state = "CloseAcknowledged"]
    <3>1. do_close(c, f) = Value(d, m)
      BY <2>3 DEF do_close
    <3> HIDE DEF g, m
    <3>2. /\ d.additional_send = c.additional_send /\ d.sent = c.sent
          /\ d.incomplete = c.incomplete
          /\ d.dec = c.dec /\ d.compressed_incomplete = c.compressed_incomplete
          /\ d.max_message_size = c.max_message_size /\ d.state = "CloseAcknowledged"
          /\ d.enc = c.enc /\ d.acc = c.acc
      BY <1>1 DEF Context
    <3> HIDE DEF d
    <3>3. Sound(d)
      BY <2>3, <3>2 DEF Sound, Queued, ClosesOnce, ReplyOwed
    <3>4. Value(d, m).c = d /\ Value(d, m).err = "None" /\ Value(d, m).msg = m
      BY DEF Value, Res
    <3> HIDE DEF Value
    <3> QED BY <1>6, <2>1, <3>1, <3>2, <3>3, <3>4
  <2> QED BY <2>2, <2>3 DEF can_read
<1>7. \/ \E e \in {"FragmentedControlFrame", "ControlFrameTooBig", "InvalidCloseSequence",
                   "Utf8"} : ReceiveControl(c, f) = Err(c, e)
      \/ f.op = "Close" /\ ReceiveControl(c, f) = do_close(c, f)
      \/ is_active(c) /\ ReceiveControl(c, f) =
                           Value(set_additional(c, MakeFrame("Pong", f.len)), Message("Ping", f.len))
      \/ ReceiveControl(c, f) = Value(c, Message("Ping", f.len))
      \/ ReceiveControl(c, f) = Value(c, Message("Pong", f.len))
  BY DEF ReceiveControl
<1>8. Q(ReceiveControl(c, f))
  <2> HIDE DEF Q
  <2> QED BY <1>2, <1>3, <1>4, <1>5, <1>6, <1>7
<1> QED BY <1>8

=============================================================================
