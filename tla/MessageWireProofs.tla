------------------------- MODULE MessageWireProofs -------------------------
(***************************************************************************)
(* A frame is read as it was sent, and a message is received as its        *)
(* fragments were meant, for all texts, payloads, masks, lengths and       *)
(* portions in which the bytes arrive.  A text is judged as a whole,       *)
(* wherever its fragments cut it.                                          *)
(***************************************************************************)
EXTENDS MessageWire, FrameFormatProofs, WellFoundedInduction

\* The payload behind the header: as it was masked, or still to come.
Body(body) ==
  \/ body = <<>> /\ frame.length > 0
  \/ frame.length = Len(frame.payload) /\ body \in Maskings(frame.header.mask, frame.payload)

\* The inductive invariant: the wire holds the frame as it was written.
IInv ==
  /\ arrived \in Nat
  /\ frame = NoFrame => wire = <<>> /\ arrived = 0
  /\ frame # NoFrame =>
       /\ frame.header \in Header /\ frame.length \in 0..MaxLength /\ frame.payload \in Seq(Byte)
       /\ \E body \in Seq(Byte) : wire = format(frame.header, frame.length) \o body /\ Body(body)
       /\ arrived <= Len(wire)

-----------------------------------------------------------------------------
(* Operators *)

LEMMA ConcatTwo ==
  ASSUME NEW r \in Seq(Byte), NEW s \in Seq(Byte)
  PROVE  /\ r \o s \in Seq(Byte) /\ Len(r \o s) = Len(r) + Len(s)
         /\ \A i \in 1..Len(r) : (r \o s)[i] = r[i]
         /\ \A i \in 1..Len(s) : (r \o s)[Len(r) + i] = s[i]
OBVIOUS

\* Masking keeps the length, and unmasking gives the payload back.
LEMMA MaskingsUndone ==
  ASSUME NEW mask \in Masks, NEW payload \in Seq(Byte), NEW body \in Maskings(mask, payload)
  PROVE  /\ body \in Seq(Byte) /\ Len(body) = Len(payload)
         /\ Maskings(mask, body) = {payload}
<1>1. PICK e1 \in {"little", "big"}, s1 \in Splits(Len(payload)) :
             body = mask_payload(mask, payload, e1, s1)
  BY DEF Maskings
<1>2. <<0, 0>> \in Splits(Len(payload))
  BY DEF Splits
<1>3. body \in Seq(Byte) /\ Len(body) = Len(payload)
  BY <1>1, <1>2, MaskIsUndone
<1>4. \A e2 \in {"little", "big"}, s2 \in Splits(Len(payload)) :
        mask_payload(mask, body, e2, s2) = payload
  BY <1>1, MaskIsUndone
<1>. QED
  BY <1>2, <1>3, <1>4 DEF Maskings

LEMMA HeaderSize ==
  ASSUME NEW h \in Header, NEW n \in 0..MaxLength
  PROVE  header_len(h, n) \in 2..MAX_SIZE
BY DEF header_len, extra_bytes, Bit, MAX_SIZE

\* The front of a sequence.
LEMMA FrontBytes ==
  ASSUME NEW s \in Seq(Byte), NEW n \in 0..Len(s)
  PROVE  /\ Front(s, n) \in Seq(Byte) /\ Len(Front(s, n)) = n
         /\ \A i \in 1..n : Front(s, n)[i] = s[i]
BY DEF Front

\* The part of a sequence behind its first k, when it is followed by nothing.
LEMMA BehindHeader ==
  ASSUME NEW r \in Seq(Byte), NEW s \in Seq(Byte)
  PROVE  SubSeq(r \o s, Len(r) + 1, Len(r) + Len(s)) = s
OBVIOUS

\* A frame is a frame.
LEMMA FrameIsNotNone ==
  ASSUME NEW h \in Header, NEW n, NEW payload
  PROVE  [header |-> h, length |-> n, payload |-> payload] # NoFrame
<1>1. DOMAIN h = {"is_final", "rsv1", "rsv2", "rsv3", "opcode", "mask"}
  BY DEF Header
<1>2. "is_final" \in DOMAIN h
  BY <1>1, Zenon
<1>3. DOMAIN <<>> = {}
  OBVIOUS
<1>4. h # <<>>
  BY <1>2, <1>3, Zenon
<1>5. SUFFICES ASSUME [header |-> h, length |-> n, payload |-> payload] = NoFrame PROVE FALSE
  OBVIOUS
<1>6. [header |-> h, length |-> n, payload |-> payload].header = NoFrame.header
  BY <1>5, Zenon
<1>. QED
  BY <1>4, <1>6 DEF NoFrame

-----------------------------------------------------------------------------
(* The invariant *)

\* What is on the wire of a frame.
LEMMA WireBytes ==
  ASSUME IInv, frame # NoFrame
  PROVE  LET size == header_len(frame.header, frame.length)
         IN  /\ wire \in Seq(Byte) /\ size \in 2..MAX_SIZE
             /\ \A i \in 1..size : wire[i] = format(frame.header, frame.length)[i]
             /\ \/ Len(wire) = size /\ frame.length > 0
                \/ /\ Len(wire) = size + frame.length
                   /\ \E body \in Maskings(frame.header.mask, frame.payload) :
                        SubSeq(wire, size + 1, size + frame.length) = body
<1>. DEFINE h == frame.header
            n == frame.length
            size == header_len(h, n)
            f == format(h, n)
<1>1. h \in Header /\ n \in 0..MaxLength /\ frame.payload \in Seq(Byte)
  BY DEF IInv
<1>2. size \in 2..MAX_SIZE
  BY <1>1, HeaderSize, Zenon
<1>3. f \in Seq(Byte) /\ Len(f) = size
  BY <1>1, FormatBytes, Zenon
<1>4. PICK body \in Seq(Byte) : wire = f \o body /\ Body(body)
  BY Zenon DEF IInv
<1>5. h.mask \in Masks
  BY <1>1 DEF Header
<1>6. CASE body = <<>> /\ n > 0
  <2>. HIDE DEF h, n, size, f
  <2>1. /\ wire \in Seq(Byte) /\ Len(wire) = Len(f) + Len(body)
        /\ \A i \in 1..Len(f) : wire[i] = f[i]
    BY <1>3, <1>4, ConcatTwo
  <2>2. Len(wire) = size
    BY <1>2, <1>3, <1>6, <2>1 DEF MAX_SIZE
  <2>. QED
    BY <1>2, <1>3, <1>6, <2>1, <2>2, Zenon DEF h, n, size, f
<1>7. CASE n = Len(frame.payload) /\ body \in Maskings(h.mask, frame.payload)
  <2>. HIDE DEF h, n, size, f
  <2>1. Len(body) = n
    <3>1. Len(body) = Len(frame.payload)
      BY <1>1, <1>5, <1>7, MaskingsUndone
    <3>. QED
      BY <1>7, <3>1
  <2>2. /\ wire \in Seq(Byte) /\ Len(wire) = Len(f) + Len(body)
        /\ \A i \in 1..Len(f) : wire[i] = f[i]
    BY <1>3, <1>4, ConcatTwo
  <2>3. SubSeq(f \o body, Len(f) + 1, Len(f) + Len(body)) = body
    BY <1>3, BehindHeader
  <2>4. Len(wire) = size + n /\ SubSeq(wire, size + 1, size + n) = body
    BY <1>3, <1>4, <2>1, <2>2, <2>3, Zenon
  <2>. QED
    BY <1>2, <1>3, <1>7, <2>2, <2>4, Zenon DEF h, n, size, f
<1>. QED
  BY <1>4, <1>6, <1>7, Zenon DEF Body

\* The invariant says what is read.
LEMMA IInvSurvives == IInv => FrameSurvives
<1>. SUFFICES ASSUME IInv, frame # NoFrame, arrived > 0
              PROVE  LET h == frame.header
                         size == header_len(h, frame.length)
                         p == parse(Input)
                     IN  /\ size <= MAX_SIZE
                         /\ p = IF arrived < size THEN Incomplete
                                ELSE IF Reserved(h.opcode) THEN BadOpcode
                                ELSE Parsed(h, frame.length, size)
                         /\ p.is = "Some" /\ p.length <= arrived - p.at =>
                              Unmasked(p) = {frame.payload}
  BY DEF FrameSurvives
<1>. DEFINE h == frame.header
            n == frame.length
            size == header_len(h, n)
            p == parse(Input)
<1>1. h \in Header /\ n \in 0..MaxLength /\ frame.payload \in Seq(Byte) /\ n \in Nat
  BY MaxLengthAssumption DEF IInv
<1>2. arrived \in 0..Len(wire) /\ wire \in Seq(Byte) /\ size \in 2..MAX_SIZE
  <2>1. wire \in Seq(Byte) /\ size \in 2..MAX_SIZE
    BY WireBytes, Zenon
  <2>2. arrived \in Nat /\ arrived <= Len(wire)
    BY DEF IInv
  <2>. QED
    BY <2>1, <2>2
<1>3. Input \in Seq(Byte) /\ Len(Input) = arrived /\ \A i \in 1..arrived : Input[i] = wire[i]
  BY <1>2, FrontBytes DEF Input
<1>4. \A i \in 1..Len(Input) : i <= size => Input[i] = format(h, n)[i]
  <2>. SUFFICES ASSUME NEW i \in 1..Len(Input), i <= size PROVE Input[i] = format(h, n)[i]
    OBVIOUS
  <2>1. i \in 1..size /\ i \in 1..arrived
    BY <1>2, <1>3 DEF MAX_SIZE
  <2>2. wire[i] = format(h, n)[i]
    BY <2>1, WireBytes, Zenon
  <2>. QED
    BY <1>3, <2>1, <2>2, Zenon
<1>5. p = IF arrived < size THEN Incomplete
          ELSE IF Reserved(h.opcode) THEN BadOpcode ELSE Parsed(h, n, size)
  BY <1>1, <1>3, <1>4, HeaderAtAnyCut, Zenon
<1>6. ASSUME p.is = "Some", p.length <= arrived - p.at
      PROVE  Unmasked(p) = {frame.payload}
  <2>1. p.header = h /\ p.length = n /\ p.at = size
    <3>. HIDE DEF h, n, size, p
    <3>. QED
      BY <1>5, <1>6 DEF Incomplete, BadOpcode, Parsed
  <2>2. arrived = Len(wire) /\ Len(wire) = size + n
    <3>1. size \in Nat /\ n \in Nat /\ arrived \in Nat /\ arrived <= Len(wire) /\ n <= arrived - size
      BY <1>1, <1>2, <1>6, <2>1
    <3>2. (Len(wire) = size /\ n > 0) \/ Len(wire) = size + n
      BY WireBytes, Zenon
    <3>. HIDE DEF size, n
    <3>. QED
      BY <3>1, <3>2
  <2>3. PICK body \in Maskings(h.mask, frame.payload) : SubSeq(wire, size + 1, size + n) = body
    <3>1. ~(Len(wire) = size /\ n > 0)
      BY <1>1, <1>2, <2>2
    <3>. QED
      BY <3>1, WireBytes, Zenon
  <2>4. Input = wire
    BY <1>2, <2>2 DEF Input, Front
  <2>5. h.mask \in Masks
    BY <1>1 DEF Header
  <2>6. Unmasked(p) = Maskings(h.mask, body)
    BY <2>1, <2>3, <2>4, Zenon DEF Unmasked
  <2>. QED
    BY <1>1, <2>5, <2>6, MaskingsUndone, Zenon
<1>. QED
  BY <1>2, <1>5, <1>6 DEF MAX_SIZE

-----------------------------------------------------------------------------
(* Induction *)

LEMMA InitIInv == Init => IInv
BY DEF Init, IInv

\* The parts of the assumption.
LEMMA TextsFit == MaxText \in Nat /\ MaxText + 2 <= MaxLength
BY WireAssumption, Zenon

LEMMA AlphabetsAreBytes == ASSUME NEW bytes \in Alphabets PROVE bytes \subseteq Byte
BY WireAssumption, Zenon

LEMMA PayloadsFit ==
  ASSUME NEW s \in Binaries \cup Reasons PROVE s \in Seq(Byte) /\ Len(s) + 2 <= MaxLength
BY WireAssumption, Zenon

LEMMA CodesAreU16 == ASSUME NEW c \in CloseCodes PROVE c \in Nat /\ Shift1(c) \in Byte
BY WireAssumption, Zenon

LEMMA MasksAreMasks == ASSUME NEW mask \in SomeMasks PROVE mask \in Masks
BY WireAssumption, Zenon

LEMMA BareLengthsFit == ASSUME NEW n \in BareLengths PROVE n \in 1..MaxLength
BY WireAssumption, Zenon

LEMMA PlainIsHeader ==
  ASSUME NEW op \in {"Continue", "Text", "Binary", "Close"}, NEW fin \in BOOLEAN,
         NEW mask \in SomeMasks
  PROVE  Plain(op, fin, mask) \in Header
<1>1. mask \in Masks
  BY MasksAreMasks, Zenon
<1>2. Op(op) \in OpCodes
  BY DEF OpCodes, Op
<1>. QED
  BY <1>1, <1>2 DEF Plain, Header

\* A frame is sent.
LEMMA SendIInv ==
  ASSUME IInv, CanSend, NEW h \in Header, NEW payload \in Seq(Byte),
         Len(payload) <= MaxLength, Send(h, payload)
  PROVE  IInv'
<1>. DEFINE n == Len(payload)
<1>1. n \in 0..MaxLength /\ n \in Nat
  BY MaxLengthAssumption
<1>2. frame' = [header |-> h, length |-> n, payload |-> payload] /\ arrived' = 0
  BY DEF Send, CanSend, IInv
<1>3. PICK masked \in Maskings(h.mask, payload) : wire' = format(h, n) \o masked
  BY DEF Send
<1>4. frame' # NoFrame
  BY <1>2, FrameIsNotNone, Zenon
<1>5. h.mask \in Masks
  BY DEF Header
<1>6. masked \in Seq(Byte)
  BY <1>5, MaskingsUndone, Zenon
<1>7. /\ frame'.header = h /\ frame'.length = n /\ frame'.payload = payload
  BY <1>2
<1>8. Body(masked)'
  BY <1>3, <1>7, Zenon DEF Body
<1>9. arrived' \in Nat /\ arrived' <= Len(wire')
  <2>1. format(h, n) \in Seq(Byte)
    BY <1>1, FormatBytes, Zenon
  <2>2. Len(wire') \in Nat
    BY <1>3, <1>6, <2>1
  <2>. QED
    BY <1>2, <2>2
<1>. HIDE DEF n
<1>. QED
  BY <1>1, <1>3, <1>4, <1>6, <1>7, <1>8, <1>9, Zenon DEF IInv

LEMMA SendTextIInv == IInv /\ SendText => IInv'
<1>. SUFFICES ASSUME IInv, SendText PROVE IInv'
  OBVIOUS
<1>1. PICK fin \in BOOLEAN, mask \in SomeMasks, chunk \in Chunks :
        Send(Plain(IF incomplete.kind = "None" THEN "Text" ELSE "Continue", fin, mask), chunk)
  BY DEF SendText
<1>2. PICK k \in 0..(MaxText - Len(told)), bytes \in Alphabets :
        told \in Seq(bytes) /\ chunk \in [1..k -> bytes]
  BY DEF Chunks
<1>3. k \in Nat /\ k <= MaxText /\ MaxText <= MaxLength /\ bytes \subseteq Byte
  <2>1. Len(told) \in Nat /\ MaxText \in Nat /\ MaxLength \in Nat /\ MaxText + 2 <= MaxLength
    BY <1>2, TextsFit, MaxLengthAssumption
  <2>2. bytes \subseteq Byte
    BY AlphabetsAreBytes, Zenon
  <2>. QED
    BY <2>1, <2>2
<1>4. chunk \in [1..k -> Byte]
  BY <1>2, <1>3
<1>5. chunk \in Seq(Byte)
  BY <1>3, <1>4, SeqDef
<1>6. Len(chunk) = k
  <2>1. Len(chunk) \in Nat /\ DOMAIN chunk = 1..Len(chunk)
    BY <1>5, LenProperties, Zenon
  <2>2. DOMAIN chunk = 1..k
    BY <1>4, Zenon
  <2>3. 1..Len(chunk) = 1..k
    BY <2>1, <2>2, Zenon
  <2>. DEFINE l == Len(chunk)
  <2>. HIDE DEF l
  <2>4. l \in Nat /\ 1..l = 1..k
    BY <2>1, <2>3, Zenon DEF l
  <2>5. l = k
    BY <1>3, <2>4
  <2>. QED
    BY <2>5 DEF l
<1>7. Len(chunk) <= MaxLength
  BY <1>3, <1>6, TextsFit, MaxLengthAssumption
<1>8. (IF incomplete.kind = "None" THEN "Text" ELSE "Continue") \in {"Continue", "Text", "Binary", "Close"}
  OBVIOUS
<1>9. Plain(IF incomplete.kind = "None" THEN "Text" ELSE "Continue", fin, mask) \in Header
  BY <1>8, PlainIsHeader, Zenon
<1>. QED
  BY <1>1, <1>5, <1>7, <1>9, SendIInv DEF SendText

LEMMA SendBinaryIInv == IInv /\ SendBinary => IInv'
<1>. SUFFICES ASSUME IInv, SendBinary PROVE IInv'
  OBVIOUS
<1>1. PICK fin \in BOOLEAN, mask \in SomeMasks, chunk \in Binaries :
        Send(Plain(IF incomplete.kind = "None" THEN "Binary" ELSE "Continue", fin, mask), chunk)
  BY DEF SendBinary
<1>2. chunk \in Seq(Byte) /\ Len(chunk) <= MaxLength
  <2>1. chunk \in Binaries \cup Reasons
    OBVIOUS
  <2>2. chunk \in Seq(Byte) /\ Len(chunk) + 2 <= MaxLength /\ MaxLength \in Nat
    BY <2>1, PayloadsFit, MaxLengthAssumption, Zenon
  <2>. QED
    BY <2>2
<1>3. (IF incomplete.kind = "None" THEN "Binary" ELSE "Continue") \in {"Continue", "Text", "Binary", "Close"}
  OBVIOUS
<1>4. Plain(IF incomplete.kind = "None" THEN "Binary" ELSE "Continue", fin, mask) \in Header
  BY <1>3, PlainIsHeader, Zenon
<1>. QED
  BY <1>1, <1>2, <1>4, SendIInv DEF SendBinary

LEMMA ClosePayloadType ==
  ASSUME NEW c \in CloseCodes, NEW reason \in Reasons,
         NEW payload \in {<<>>, <<c \div 256>>, close_payload(CloseCode_from(c), reason)}
  PROVE  payload \in Seq(Byte) /\ Len(payload) <= MaxLength
<1>1. c \in Nat /\ Shift1(c) \in Byte
  BY CodesAreU16, Zenon
<1>2. /\ reason \in Seq(Byte) /\ Len(reason) + 2 <= MaxLength
      /\ MaxLength \in Nat /\ Len(reason) \in Nat /\ 2 <= MaxLength
  <2>1. reason \in Binaries \cup Reasons
    OBVIOUS
  <2>2. reason \in Seq(Byte) /\ Len(reason) + 2 <= MaxLength /\ MaxLength \in Nat
    BY <2>1, PayloadsFit, MaxLengthAssumption, Zenon
  <2>. QED
    BY <2>2
<1>3. c \div 256 \in Byte
  BY <1>1, Zenon DEF Shift1
<1>4. CASE payload = <<>>
  BY <1>2, <1>4
<1>5. CASE payload = <<c \div 256>>
  BY <1>2, <1>3, <1>5
<1>6. CASE payload = close_payload(CloseCode_from(c), reason)
  <2>1. CloseCode_into(CloseCode_from(c)) = c
    BY DEF CloseCode_into, CloseCode_from
  <2>2. be_bytes_u16(c) \in Seq(Byte) /\ Len(be_bytes_u16(c)) = 2
    <3>1. Shift1(c) % 256 \in Byte /\ c % 256 \in Byte
      BY <1>1, ShiftNat, DivMod, Zenon
    <3>. QED
      BY <3>1 DEF be_bytes_u16
  <2>3. payload = be_bytes_u16(c) \o reason
    BY <1>6, <2>1, Zenon DEF close_payload
  <2>4. payload \in Seq(Byte) /\ Len(payload) = 2 + Len(reason)
    <3>. DEFINE r == be_bytes_u16(c)
    <3>. HIDE DEF r
    <3>1. r \in Seq(Byte) /\ Len(r) = 2 /\ payload = r \o reason /\ reason \in Seq(Byte)
      BY <1>2, <2>2, <2>3, Zenon DEF r
    <3>2. r \o reason \in Seq(Byte) /\ Len(r \o reason) = Len(r) + Len(reason)
      BY <3>1, ConcatTwo, Zenon
    <3>. QED
      BY <3>1, <3>2, Zenon
  <2>. QED
    BY <1>2, <2>4
<1>. QED
  BY <1>4, <1>5, <1>6

LEMMA SendCloseIInv == IInv /\ SendClose => IInv'
<1>. SUFFICES ASSUME IInv, SendClose PROVE IInv'
  OBVIOUS
<1>1. PICK mask \in SomeMasks, c \in CloseCodes, reason \in Reasons :
        \E payload \in {<<>>, <<c \div 256>>, close_payload(CloseCode_from(c), reason)} :
          Send(Plain("Close", TRUE, mask), payload)
  BY Zenon DEF SendClose
<1>2. PICK payload \in {<<>>, <<c \div 256>>, close_payload(CloseCode_from(c), reason)} :
        Send(Plain("Close", TRUE, mask), payload)
  BY <1>1, Zenon
<1>3. payload \in Seq(Byte) /\ Len(payload) <= MaxLength
  BY <1>2, ClosePayloadType, Zenon
<1>4. Plain("Close", TRUE, mask) \in Header
  BY PlainIsHeader
<1>5. CanSend
  BY DEF SendClose
<1>. QED
  BY <1>2, <1>3, <1>4, <1>5, SendIInv, Zenon

LEMMA SendHeaderIInv == IInv /\ SendHeader => IInv'
<1>. SUFFICES ASSUME IInv, SendHeader PROVE IInv'
  OBVIOUS
<1>1. PICK fin \in BOOLEAN, r1 \in BOOLEAN, r2 \in BOOLEAN, r3 \in BOOLEAN, op \in OpCodes,
           mask \in SomeMasks, n \in BareLengths :
        LET h == [is_final |-> fin, rsv1 |-> r1, rsv2 |-> r2, rsv3 |-> r3,
                  opcode |-> op, mask |-> mask]
        IN  frame' = [header |-> h, length |-> n, payload |-> <<>>] /\ wire' = format(h, n)
  BY Zenon DEF SendHeader
<1>. DEFINE h == [is_final |-> fin, rsv1 |-> r1, rsv2 |-> r2, rsv3 |-> r3,
                  opcode |-> op, mask |-> mask]
<1>2. mask \in Masks /\ n \in 1..MaxLength
  BY MasksAreMasks, BareLengthsFit, Zenon
<1>3. h \in Header
  BY <1>2 DEF Header
<1>4. frame' = [header |-> h, length |-> n, payload |-> <<>>] /\ wire' = format(h, n)
  BY <1>1, Zenon
<1>. HIDE DEF h
<1>5. frame' # NoFrame
  BY <1>3, <1>4, FrameIsNotNone, Zenon
<1>6. frame'.header = h /\ frame'.length = n /\ frame'.payload = <<>>
  BY <1>4
<1>7. n \in 0..MaxLength /\ n > 0
  BY <1>2, MaxLengthAssumption
<1>8. <<>> \in Seq(Byte) /\ Body(<<>>)'
  BY <1>6, <1>7 DEF Body
<1>9. format(h, n) \in Seq(Byte)
  BY <1>3, <1>7, FormatBytes, Zenon
<1>10. wire' = format(h, n) \o <<>>
  BY <1>4, <1>9
<1>11. arrived' = 0 /\ Len(wire') \in Nat
  BY <1>4, <1>9 DEF SendHeader, CanSend, IInv
<1>12. arrived' \in Nat /\ arrived' <= Len(wire')
  BY <1>11
<1>13. frame'.payload \in Seq(Byte)
  BY <1>6, <1>8
<1>. QED
  BY <1>3, <1>5, <1>6, <1>7, <1>8, <1>10, <1>12, <1>13, Zenon DEF IInv

LEMMA ArriveIInv == IInv /\ Arrive => IInv'
<1>. SUFFICES ASSUME IInv, Arrive PROVE IInv'
  OBVIOUS
<1>1. arrived' \in (arrived + 1)..Len(wire) /\ frame' = frame /\ wire' = wire
  BY DEF Arrive
<1>2. frame # NoFrame
  BY <1>1 DEF IInv
<1>3. arrived' \in Nat /\ arrived' <= Len(wire)
  <2>1. wire \in Seq(Byte)
    BY <1>2, WireBytes, Zenon
  <2>2. arrived \in Nat /\ Len(wire) \in Nat
    BY <2>1 DEF IInv
  <2>. QED
    BY <1>1, <2>2
<1>4. \A body : Body(body)' <=> Body(body)
  BY <1>1 DEF Body
<1>. QED
  BY <1>1, <1>2, <1>3, <1>4, Zenon DEF IInv

\* Take reads the frame that was sent, to its last byte.
LEMMA Taken ==
  ASSUME IInv, Take
  PROVE  /\ frame # NoFrame /\ outcome = Pending
         /\ frame.length = Len(frame.payload)
         /\ ReceiveFrame(frame.header, frame.payload)
         /\ told' = told \o frame.payload
         /\ frame' = NoFrame /\ arrived' = 0 /\ wire' = <<>>
<1>. DEFINE p == parse(Input)
            h == frame.header
            n == frame.length
            size == header_len(h, n)
<1>1. /\ p.is = "Some" /\ p.length <= arrived - p.at /\ frame' = NoFrame
      /\ wire' = Rest(wire, p.at + p.length) /\ arrived' = arrived - (p.at + p.length)
  BY Zenon DEF Take
<1>2. frame # NoFrame /\ arrived > 0
  <2>1. SUFFICES ASSUME arrived = 0 PROVE FALSE
    BY DEF IInv
  <2>2. Input = <<>>
    BY <2>1 DEF Input, Front
  <2>3. parse(<<>>) = Incomplete
    BY DEF parse
  <2>. QED
    BY <1>1, <2>2, <2>3 DEF Incomplete
<1>3. p = IF arrived < size THEN Incomplete
          ELSE IF Reserved(h.opcode) THEN BadOpcode ELSE Parsed(h, n, size)
  BY <1>2, IInvSurvives, Zenon DEF FrameSurvives
<1>4. p.length = n /\ p.at = size
  <2>. HIDE DEF h, n, size, p
  <2>. QED
    BY <1>1, <1>3 DEF Incomplete, BadOpcode, Parsed
<1>5. n \in Nat /\ size \in Nat /\ arrived \in Nat /\ arrived <= Len(wire) /\ wire \in Seq(Byte)
  <2>1. wire \in Seq(Byte) /\ size \in 2..MAX_SIZE
    BY <1>2, WireBytes, Zenon
  <2>2. n \in 0..MaxLength
    BY <1>2, Zenon DEF IInv
  <2>3. arrived \in Nat /\ arrived <= Len(wire)
    BY <1>2, Zenon DEF IInv
  <2>. HIDE DEF n, size
  <2>. QED
    BY <2>1, <2>2, <2>3, MaxLengthAssumption DEF MAX_SIZE
<1>6. (Len(wire) = size /\ n > 0) \/ Len(wire) = size + n
  BY <1>2, WireBytes, Zenon
<1>7. arrived = size + n /\ Len(wire) = size + n
  <2>. HIDE DEF n, size
  <2>. QED
    BY <1>1, <1>4, <1>5, <1>6
<1>8. arrived' = 0 /\ wire' = <<>>
  <2>. HIDE DEF n, size, p
  <2>1. arrived' = 0
    BY <1>1, <1>4, <1>5, <1>7
  <2>2. Rest(wire, size + n) = <<>>
    BY <1>5, <1>7 DEF Rest
  <2>. QED
    BY <1>1, <1>4, <2>1, <2>2
<1>9. frame.length = Len(frame.payload)
  <2>1. ~(Len(wire) = size /\ n > 0)
    <3>. HIDE DEF n, size
    <3>. QED
      BY <1>5, <1>7
  <2>2. \E body : body \in Seq(Byte) /\ wire = format(h, n) \o body /\ Body(body)
    BY <1>2, Zenon DEF IInv
  <2>3. PICK body \in Seq(Byte) : wire = format(h, n) \o body /\ Body(body)
    BY <2>2, Zenon
  <2>4. ~(body = <<>> /\ n > 0)
    <3>1. ASSUME body = <<>> PROVE Len(wire) = size
      <4>1. h \in Header /\ n \in 0..MaxLength
        BY <1>2, Zenon DEF IInv
      <4>2. format(h, n) \in Seq(Byte) /\ Len(format(h, n)) = size
        BY <4>1, FormatBytes, Zenon
      <4>. QED
        BY <2>3, <3>1, <4>2
    <3>. QED
      BY <2>1, <3>1, Zenon
  <2>. QED
    BY <2>3, <2>4, Zenon DEF Body
<1>10. ReceiveFrame(h, frame.payload)
  <2>1. p.header = h
    <3>. HIDE DEF h, n, size, p
    <3>. QED
      BY <1>1, <1>3 DEF Incomplete, BadOpcode, Parsed
  <2>2. Unmasked(p) = {frame.payload}
    BY <1>1, <1>2, IInvSurvives, Zenon DEF FrameSurvives
  <2>3. PICK payload \in Unmasked(p) : ReceiveFrame(p.header, payload)
    BY Zenon DEF Take
  <2>4. payload = frame.payload
    BY <2>2, <2>3
  <2>. QED
    BY <2>1, <2>3, <2>4, Zenon
<1>. QED
  BY <1>1, <1>2, <1>8, <1>9, <1>10, Zenon DEF Take

LEMMA TakeIInv == IInv /\ Take => IInv'
<1>. SUFFICES ASSUME IInv, Take PROVE IInv'
  OBVIOUS
<1>1. frame' = NoFrame /\ arrived' = 0 /\ wire' = <<>>
  BY Taken, Zenon
<1>. QED
  BY <1>1 DEF IInv

\* A frame is read as it was sent: FrameSurvives, for all texts, payloads, close
\* codes, masks and lengths, however its bytes arrive.
THEOREM FramesSurvive == Spec => []FrameSurvives
<1>1. ASSUME IInv, [Next]_vars PROVE IInv'
  <2>1. CASE SendText
    BY <1>1, <2>1, SendTextIInv
  <2>2. CASE SendBinary
    BY <1>1, <2>2, SendBinaryIInv
  <2>3. CASE SendClose
    BY <1>1, <2>3, SendCloseIInv
  <2>4. CASE SendHeader
    BY <1>1, <2>4, SendHeaderIInv
  <2>5. CASE Arrive
    BY <1>1, <2>5, ArriveIInv
  <2>6. CASE Take
    BY <1>1, <2>6, TakeIInv
  <2>7. CASE frame' = frame /\ wire' = wire /\ arrived' = arrived
    <3>1. \A body : Body(body)' <=> Body(body)
      BY <2>7 DEF Body
    <3>. QED
      BY <1>1, <2>7, <3>1, Zenon DEF IInv
  <2>. QED
    BY <1>1, <2>1, <2>2, <2>3, <2>4, <2>5, <2>6, <2>7 DEF Next, Refuse, vars
<1>. QED
  BY <1>1, InitIInv, IInvSurvives, PTL DEF Spec

-----------------------------------------------------------------------------
(* Induction: a set of numbers has a least one *)

\* Every set of natural numbers has a least element, and every bounded one a
\* greatest, which is what Max returns.
LEMMA Least ==
  ASSUME NEW S, S \subseteq Nat, S # {}
  PROVE  \E m \in S : \A k \in S : m <= k
<1>1. PICK R : R = OpToRel(<, Nat)
  OBVIOUS
<1>2. IsWellFoundedOn(R, Nat)
  BY <1>1, NatLessThanWellFounded, Zenon
<1>3. \A k, m \in Nat : k < m => <<k, m>> \in R
  BY <1>1 DEF OpToRel
<1>4. PICK m \in S : \A k \in S : ~ (<<k, m>> \in R)
  BY <1>2, WFMin, Zenon
<1>5. ASSUME NEW k \in S PROVE m <= k
  <2>1. k \in Nat /\ m \in Nat /\ <<k, m>> \notin R
    BY <1>4, Zenon
  <2>2. ~(k < m)
    BY <1>3, <2>1, Zenon
  <2>. QED
    BY <2>1, <2>2
<1>. QED
  BY <1>5, Zenon

LEMMA MaxIs ==
  ASSUME NEW n \in Nat, NEW S, S \subseteq 0..n, S # {}
  PROVE  Max(S) \in S /\ \A k \in S : k <= Max(S)
<1>1. \A k \in S : k \in Nat /\ k <= n /\ n - k \in Nat
  <2>1. SUFFICES ASSUME NEW k \in S PROVE k \in Nat /\ k <= n /\ n - k \in Nat
    OBVIOUS
  <2>2. k \in 0..n
    BY Zenon
  <2>. QED
    BY <2>2
<1>2. PICK T : T = {n - k : k \in S}
  OBVIOUS
<1>3. T \subseteq Nat /\ T # {}
  BY <1>1, <1>2, Zenon
<1>4. PICK m \in T : \A k \in T : m <= k
  BY <1>3, Least, Zenon
<1>5. PICK x \in S : m = n - x
  BY <1>2, Zenon
<1>6. \A k \in S : x >= k
  <2>1. SUFFICES ASSUME NEW k \in S PROVE x >= k
    OBVIOUS
  <2>2. m <= n - k
    BY <1>2, <1>4, Zenon
  <2>3. k \in Nat /\ x \in Nat
    BY <1>1, Zenon
  <2>. QED
    BY <1>5, <2>2, <2>3
<1>7. Max(S) \in S /\ \A k \in S : Max(S) >= k
  BY <1>6, Zenon DEF Max
<1>8. PICK y : y = Max(S)
  OBVIOUS
<1>9. ASSUME NEW k \in S PROVE k <= y
  <2>1. k \in Nat /\ y \in Nat /\ y >= k
    BY <1>1, <1>7, <1>8, Zenon
  <2>. QED
    BY <2>1
<1>. QED
  BY <1>7, <1>8, <1>9, Zenon

\* A number of steps forwards, none of them beyond n, leads somewhere from every
\* place: there is a function that tells where.
LEMMA WalkEnds ==
  ASSUME NEW n \in Nat, NEW c \in [0..n -> Nat], \A p \in 0..n : p + c[p] <= n
  PROVE  \E g \in [0..n -> 0..n] : \A p \in 0..n : g[p] = IF c[p] = 0 THEN p ELSE g[p + c[p]]
<1>0. ASSUME NEW p \in 0..n PROVE p \in Nat /\ c[p] \in Nat /\ p + c[p] \in 0..n
  <2>1. PICK d : d = c[p]
    OBVIOUS
  <2>2. d \in Nat /\ p + d <= n /\ p \in Nat
    BY <2>1
  <2>3. p + d \in 0..n
    BY <2>2
  <2>. QED
    BY <2>1, <2>2, <2>3, Zenon
<1>1. PICK S : S = {m \in 0..n : \E g \in [0..n -> 0..n] :
                      \A p \in m..n : g[p] = IF c[p] = 0 THEN p ELSE g[p + c[p]]}
  OBVIOUS
<1>2. n \in S
  <2>1. PICK g : g = [p \in 0..n |-> n]
    OBVIOUS
  <2>2. g \in [0..n -> 0..n] /\ n \in 0..n
    BY <2>1
  <2>3. ASSUME NEW p \in n..n PROVE g[p] = IF c[p] = 0 THEN p ELSE g[p + c[p]]
    <3>1. p = n /\ n \in 0..n /\ c[n] \in Nat /\ n + c[n] <= n
      OBVIOUS
    <3>2. c[n] = 0
      BY <3>1
    <3>. QED
      BY <2>1, <3>1, <3>2
  <2>. QED
    BY <1>1, <2>2, <2>3
<1>3. S \subseteq Nat /\ S # {}
  <2>1. 0..n \subseteq Nat
    OBVIOUS
  <2>. QED
    BY <1>1, <1>2, <2>1, Zenon
<1>4. PICK m \in S : \A k \in S : m <= k
  BY <1>3, Least, Zenon
<1>5. m \in 0..n
  BY <1>1, Zenon
<1>6. PICK g \in [0..n -> 0..n] : \A p \in m..n : g[p] = IF c[p] = 0 THEN p ELSE g[p + c[p]]
  BY <1>1, Zenon
<1>7. m = 0
  <2>1. SUFFICES ASSUME m # 0 PROVE FALSE
    OBVIOUS
  <2>2. PICK k : k = m - 1
    OBVIOUS
  <2>3. k \in 0..n /\ m = k + 1 /\ ~(m <= k)
    BY <1>5, <2>1, <2>2
  <2>4. k + c[k] \in 0..n
    BY <1>0, <2>3, Zenon
  <2>6. PICK v : v = IF c[k] = 0 THEN k ELSE g[k + c[k]]
    OBVIOUS
  <2>7. v \in 0..n
    BY <2>3, <2>4, <2>6
  <2>8. PICK h : h = [g EXCEPT ![k] = v]
    OBVIOUS
  <2>9. h \in [0..n -> 0..n] /\ h[k] = v /\ \A p \in 0..n : p # k => h[p] = g[p]
    BY <2>3, <2>7, <2>8
  <2>10. ASSUME NEW p \in k..n PROVE h[p] = IF c[p] = 0 THEN p ELSE h[p + c[p]]
    <3>1. p \in 0..n /\ k <= p
      BY <2>3
    <3>2. p \in Nat /\ c[p] \in Nat /\ p + c[p] \in 0..n
      BY <1>0, <3>1, Zenon
    <3>3. c[p] # 0 => p + c[p] # k
      BY <2>3, <3>1, <3>2
    <3>4. c[p] # 0 => h[p + c[p]] = g[p + c[p]]
      BY <2>9, <3>2, <3>3, Zenon
    <3>5. CASE p = k
      BY <2>6, <2>9, <3>4, <3>5, Zenon
    <3>6. CASE p # k
      <4>1. p \in m..n
        BY <2>3, <3>1, <3>6
      <4>2. g[p] = IF c[p] = 0 THEN p ELSE g[p + c[p]]
        BY <1>6, <4>1, Zenon
      <4>3. h[p] = g[p]
        BY <2>9, <3>1, <3>6, Zenon
      <4>. QED
        BY <3>4, <4>2, <4>3, Zenon
    <3>. QED
      BY <3>5, <3>6
  <2>11. k \in S
    BY <1>1, <2>3, <2>9, <2>10, Zenon
  <2>. QED
    BY <1>4, <2>3, <2>11, Zenon
<1>. QED
  BY <1>6, <1>7, Zenon

LEMMA Greatest ==
  ASSUME NEW n \in Nat, NEW S, S \subseteq 0..n, S # {}
  PROVE  \E x \in S : \A k \in S : k <= x
BY MaxIs, Zenon

-----------------------------------------------------------------------------
(* Characters *)

\* The first k bytes of the shape stand behind position p.
Matches(s, p, shape, k) == p + k <= Len(s) /\ \A i \in 1..k : s[p + i] \in shape[i]

\* The first byte of a character tells its shape.
ShapeOf(b) ==
  IF b <= 127 THEN <<0..127>>
  ELSE IF b <= 223 THEN <<194..223, Tail8>>
  ELSE IF b = 224 THEN <<{224}, 160..191, Tail8>>
  ELSE IF b = 237 THEN <<{237}, 128..159, Tail8>>
  ELSE IF b <= 239 THEN <<225..236 \cup {238, 239}, Tail8, Tail8>>
  ELSE IF b = 240 THEN <<{240}, 144..191, Tail8, Tail8>>
  ELSE IF b <= 243 THEN <<241..243, Tail8, Tail8, Tail8>>
  ELSE <<{244}, 128..143, Tail8, Tail8>>

LEMMA ShapeLen ==
  ASSUME NEW sh \in Shapes
  PROVE  Len(sh) \in 1..4 /\ Len(sh) \in Nat /\ 0 < Len(sh) /\ Len(sh) <= 4 /\ 1 \in 1..Len(sh)
<1>1. PICK n : n = Len(sh)
  OBVIOUS
<1>2. n \in 1..4
  BY <1>1 DEF Shapes
<1>3. n \in Nat /\ 0 < n /\ n <= 4 /\ 1 \in 1..n
  BY <1>2
<1>. QED
  BY <1>1, <1>2, <1>3, Zenon

LEMMA ShapeByFirst ==
  ASSUME NEW sh \in Shapes, NEW b \in sh[1]
  PROVE  sh = ShapeOf(b)
<1>1. CASE sh = <<0..127>>
  BY <1>1 DEF ShapeOf
<1>2. CASE sh = <<194..223, Tail8>>
  BY <1>2 DEF ShapeOf
<1>3. CASE sh = <<{224}, 160..191, Tail8>>
  BY <1>3 DEF ShapeOf
<1>4. CASE sh = <<225..236 \cup {238, 239}, Tail8, Tail8>>
  BY <1>4 DEF ShapeOf
<1>5. CASE sh = <<{237}, 128..159, Tail8>>
  BY <1>5 DEF ShapeOf
<1>6. CASE sh = <<{240}, 144..191, Tail8, Tail8>>
  BY <1>6 DEF ShapeOf
<1>7. CASE sh = <<241..243, Tail8, Tail8, Tail8>>
  BY <1>7 DEF ShapeOf
<1>8. CASE sh = <<{244}, 128..143, Tail8, Tail8>>
  BY <1>8 DEF ShapeOf
<1>. QED
  BY <1>1, <1>2, <1>3, <1>4, <1>5, <1>6, <1>7, <1>8 DEF Shapes

LEMMA MatchesLess ==
  ASSUME NEW s \in Seq(Byte), NEW p \in Nat, NEW sh, NEW k \in Nat, NEW j \in 0..k,
         Matches(s, p, sh, k)
  PROVE  Matches(s, p, sh, j)
<1>1. Len(s) \in Nat
  OBVIOUS
<1>. QED
  BY <1>1 DEF Matches

LEMMA FitIs ==
  ASSUME NEW s \in Seq(Byte), NEW p \in 0..Len(s), NEW sh \in Shapes
  PROVE  /\ Fit(s, p, sh) \in 0..Len(sh) /\ Matches(s, p, sh, Fit(s, p, sh))
         /\ \A k \in 0..Len(sh) : Matches(s, p, sh, k) => k <= Fit(s, p, sh)
<1>1. PICK S : S = {k \in 0..Len(sh) : p + k <= Len(s) /\ \A i \in 1..k : s[p + i] \in sh[i]}
  OBVIOUS
<1>2. Fit(s, p, sh) = Max(S)
  BY <1>1, Zenon DEF Fit
<1>3. \A k : k \in S <=> k \in 0..Len(sh) /\ Matches(s, p, sh, k)
  BY <1>1, Zenon DEF Matches
<1>4. Len(sh) \in Nat /\ Len(s) \in Nat
  <2>1. Len(sh) \in Nat
    BY ShapeLen, Zenon
  <2>. QED
    BY <2>1
<1>5. 0 \in S
  <2>1. 0 \in 0..Len(sh) /\ Matches(s, p, sh, 0)
    BY <1>4 DEF Matches
  <2>. QED
    BY <1>3, <2>1, Zenon
<1>6. S \subseteq 0..Len(sh) /\ S # {}
  BY <1>3, <1>5, Zenon
<1>7. Max(S) \in S /\ \A k \in S : k <= Max(S)
  BY <1>4, <1>6, MaxIs, Zenon
<1>. QED
  BY <1>2, <1>3, <1>7, Zenon

\* All of a shape fits if it matches to its end.
LEMMA FitFull ==
  ASSUME NEW s \in Seq(Byte), NEW p \in 0..Len(s), NEW sh \in Shapes
  PROVE  Fit(s, p, sh) = Len(sh) <=> Matches(s, p, sh, Len(sh))
<1>1. PICK f : f = Fit(s, p, sh)
  OBVIOUS
<1>2. f \in 0..Len(sh) /\ Matches(s, p, sh, f) /\ \A k \in 0..Len(sh) : Matches(s, p, sh, k) => k <= f
  BY <1>1, FitIs, Zenon
<1>3. Len(sh) \in 0..Len(sh)
  <2>1. Len(sh) \in 1..4
    BY ShapeLen
  <2>. QED
    BY <2>1
<1>4. ASSUME Matches(s, p, sh, Len(sh)) PROVE f = Len(sh)
  <2>1. Len(sh) <= f
    BY <1>2, <1>3, <1>4, Zenon
  <2>. QED
    BY <1>2, <1>3, <2>1
<1>. QED
  BY <1>1, <1>2, <1>4, Zenon

\* The length of a character is that of the one shape that matches.
LEMMA CharLenIs ==
  ASSUME NEW s \in Seq(Byte), NEW p \in 0..Len(s)
  PROVE  /\ CharLen(s, p) \in 0..4 /\ p + CharLen(s, p) <= Len(s)
         /\ CharLen(s, p) # 0 =>
              \E sh \in Shapes : Len(sh) = CharLen(s, p) /\ Matches(s, p, sh, Len(sh))
         /\ \A sh \in Shapes : Matches(s, p, sh, Len(sh)) => CharLen(s, p) = Len(sh)
<1>1. PICK T : T = {sh \in Shapes : Matches(s, p, sh, Len(sh))}
  OBVIOUS
<1>2. PICK S : S = {0} \cup {Len(sh) : sh \in T}
  OBVIOUS
<1>3. PICK c : c = CharLen(s, p)
  OBVIOUS
<1>4. c = Max(S)
  <2>1. T = {x \in Shapes : Fit(s, p, x) = Len(x)}
    BY <1>1, FitFull, Zenon
  <2>. QED
    BY <1>2, <1>3, <2>1, Zenon DEF CharLen
<1>5. S \subseteq 0..4 /\ S # {}
  <2>1. \A sh \in T : Len(sh) \in 0..4
    <3>1. SUFFICES ASSUME NEW sh \in T PROVE Len(sh) \in 0..4
      OBVIOUS
    <3>2. Len(sh) \in 1..4
      BY <1>1, ShapeLen, Zenon
    <3>. QED
      BY <3>2
  <2>2. 0 \in 0..4
    OBVIOUS
  <2>. QED
    BY <1>2, <2>1, <2>2, Zenon
<1>6. c \in S /\ \A k \in S : k <= c
  BY <1>4, <1>5, MaxIs, Zenon
<1>7. c \in 0..4
  BY <1>5, <1>6, Zenon
<1>8. ASSUME c # 0 PROVE \E sh \in Shapes : Len(sh) = c /\ Matches(s, p, sh, Len(sh))
  BY <1>1, <1>2, <1>6, <1>8, Zenon
<1>9. ASSUME NEW sh \in Shapes, Matches(s, p, sh, Len(sh)) PROVE c = Len(sh)
  <2>1. Len(sh) \in S /\ Len(sh) \in 1..4
    BY <1>1, <1>2, <1>9, ShapeLen, Zenon
  <2>2. Len(sh) <= c
    BY <1>6, <2>1, Zenon
  <2>3. c # 0
    <3>1. PICK n : n = Len(sh)
      OBVIOUS
    <3>2. n <= c /\ n \in 1..4
      BY <2>1, <2>2, <3>1, Zenon
    <3>. QED
      BY <1>7, <3>2
  <2>4. PICK other \in Shapes : Len(other) = c /\ Matches(s, p, other, Len(other))
    BY <1>8, <2>3, Zenon
  <2>6. 1 \in 1..Len(sh) /\ 1 \in 1..Len(other)
    BY ShapeLen, Zenon
  <2>7. s[p + 1] \in sh[1] /\ s[p + 1] \in other[1]
    BY <1>9, <2>4, <2>6, Zenon DEF Matches
  <2>8. sh = ShapeOf(s[p + 1]) /\ other = ShapeOf(s[p + 1])
    BY <2>7, ShapeByFirst, Zenon
  <2>. QED
    BY <2>4, <2>8, Zenon
<1>10. p + c <= Len(s)
  <2>1. CASE c = 0
    BY <2>1
  <2>2. CASE c # 0
    BY <1>8, <2>2, Zenon DEF Matches
  <2>. QED
    BY <2>1, <2>2
<1>. QED
  BY <1>3, <1>7, <1>8, <1>9, <1>10, Zenon

-----------------------------------------------------------------------------
(* A sequence put together from two *)

Joined(t, a, b) ==
  /\ Len(t) = Len(a) + Len(b)
  /\ \A i \in 1..Len(a) : t[i] = a[i]
  /\ \A i \in 1..Len(b) : t[Len(a) + i] = b[i]

\* A match inside the first part is one of the whole, and the other way round.
LEMMA MatchesBefore ==
  ASSUME NEW t \in Seq(Byte), NEW a \in Seq(Byte), NEW b \in Seq(Byte), Joined(t, a, b),
         NEW p \in Nat, NEW sh, NEW k \in Nat, p + k <= Len(a)
  PROVE  Matches(t, p, sh, k) <=> Matches(a, p, sh, k)
<1>1. PICK m, n : m = Len(a) /\ n = Len(b)
  OBVIOUS
<1>2. m \in Nat /\ n \in Nat /\ p + k <= m /\ Len(t) = m + n /\ \A i \in 1..m : t[i] = a[i]
  BY <1>1, LenProperties DEF Joined
<1>3. p + k <= Len(t) /\ p + k <= Len(a)
  BY <1>1, <1>2
<1>4. ASSUME NEW i \in 1..k PROVE t[p + i] = a[p + i]
  <2>1. p + i \in 1..m
    BY <1>2
  <2>. QED
    BY <1>2, <2>1, Zenon
<1>. QED
  BY <1>3, <1>4, Zenon DEF Matches

LEMMA MatchesKept ==
  ASSUME NEW t \in Seq(Byte), NEW a \in Seq(Byte), NEW b \in Seq(Byte), Joined(t, a, b),
         NEW p \in Nat, NEW sh, NEW k \in Nat, Matches(a, p, sh, k)
  PROVE  Matches(t, p, sh, k)
BY MatchesBefore, Zenon DEF Matches

\* A match in the second part, seen from the beginning of the whole.
LEMMA MatchesBehind ==
  ASSUME NEW t \in Seq(Byte), NEW a \in Seq(Byte), NEW b \in Seq(Byte), Joined(t, a, b),
         NEW p \in Nat, NEW sh, NEW k \in Nat
  PROVE  Matches(t, Len(a) + p, sh, k) <=> Matches(b, p, sh, k)
<1>1. PICK m, n : m = Len(a) /\ n = Len(b)
  OBVIOUS
<1>2. m \in Nat /\ n \in Nat /\ Len(t) = m + n /\ \A i \in 1..n : t[m + i] = b[i]
  BY <1>1, LenProperties DEF Joined
<1>3. (m + p) + k <= Len(t) <=> p + k <= Len(b)
  BY <1>1, <1>2
<1>4. ASSUME NEW i \in 1..k, p + k <= Len(b) PROVE t[(m + p) + i] = b[p + i]
  <2>1. p + i \in 1..n /\ (m + p) + i = m + (p + i)
    BY <1>1, <1>2, <1>4
  <2>. QED
    BY <1>2, <2>1, Zenon
<1>. QED
  BY <1>1, <1>3, <1>4, Zenon DEF Matches

\* A character that is complete stays what it is when more bytes follow.
LEMMA CharLenKept ==
  ASSUME NEW t \in Seq(Byte), NEW a \in Seq(Byte), NEW b \in Seq(Byte), Joined(t, a, b),
         NEW p \in 0..Len(a), CharLen(a, p) # 0
  PROVE  CharLen(t, p) = CharLen(a, p)
<1>1. PICK sh \in Shapes : Len(sh) = CharLen(a, p) /\ Matches(a, p, sh, Len(sh))
  BY CharLenIs, Zenon
<1>2. p \in Nat /\ p \in 0..Len(t)
  <2>1. Len(a) \in Nat /\ Len(b) \in Nat /\ Len(t) = Len(a) + Len(b)
    BY LenProperties DEF Joined
  <2>. QED
    BY <2>1
<1>3. Matches(t, p, sh, Len(sh))
  BY <1>1, <1>2, ShapeLen, MatchesKept, Zenon
<1>. QED
  BY <1>1, <1>2, <1>3, CharLenIs, Zenon

\* What stands in front of a character makes no difference.
LEMMA CharLenBehind ==
  ASSUME NEW t \in Seq(Byte), NEW a \in Seq(Byte), NEW b \in Seq(Byte), Joined(t, a, b),
         NEW p \in 0..Len(b)
  PROVE  CharLen(t, Len(a) + p) = CharLen(b, p) /\ Len(a) + p \in 0..Len(t)
<1>1. PICK q : q = Len(a) + p
  OBVIOUS
<1>2. p \in Nat /\ q \in 0..Len(t)
  <2>1. Len(a) \in Nat /\ Len(b) \in Nat /\ Len(t) = Len(a) + Len(b)
    BY LenProperties DEF Joined
  <2>. QED
    BY <1>1, <2>1
<1>3. \A sh \in Shapes : Matches(t, q, sh, Len(sh)) <=> Matches(b, p, sh, Len(sh))
  BY <1>1, <1>2, ShapeLen, MatchesBehind, Zenon
<1>4. ASSUME CharLen(t, q) # 0 PROVE CharLen(b, p) = CharLen(t, q)
  <2>1. PICK sh \in Shapes : Len(sh) = CharLen(t, q) /\ Matches(t, q, sh, Len(sh))
    BY <1>2, <1>4, CharLenIs, Zenon
  <2>2. Matches(b, p, sh, Len(sh))
    BY <1>3, <2>1, Zenon
  <2>. QED
    BY <2>1, <2>2, CharLenIs, Zenon
<1>5. ASSUME CharLen(b, p) # 0 PROVE CharLen(b, p) = CharLen(t, q)
  <2>1. PICK sh \in Shapes : Len(sh) = CharLen(b, p) /\ Matches(b, p, sh, Len(sh))
    BY <1>5, CharLenIs, Zenon
  <2>2. Matches(t, q, sh, Len(sh))
    BY <1>3, <2>1, Zenon
  <2>. QED
    BY <1>2, <2>1, <2>2, CharLenIs, Zenon
<1>6. CharLen(b, p) = CharLen(t, q)
  BY <1>4, <1>5, Zenon
<1>. QED
  BY <1>1, <1>2, <1>6, Zenon

-----------------------------------------------------------------------------
(* Where the valid characters end *)

\* What valid_up_to computes, for every place of s.
Walk(e, s) ==
  /\ \A p \in 0..Len(s) : e[p] \in p..Len(s) /\ CharLen(s, e[p]) = 0
  /\ \A p \in 0..Len(s) : e[p] = IF CharLen(s, p) = 0 THEN p ELSE e[p + CharLen(s, p)]

LEMMA WalkIs ==
  ASSUME NEW s \in Seq(Byte)
  PROVE  \E e : Walk(e, s) /\ valid_up_to(s) = e[0]
<1>1. PICK n : n = Len(s)
  OBVIOUS
<1>2. n \in Nat
  BY <1>1
<1>. DEFINE Def(e) == [p \in 0..n |-> IF CharLen(s, p) = 0 THEN p ELSE e[p + CharLen(s, p)]]
<1>3. PICK c : c = [p \in 0..n |-> CharLen(s, p)]
  OBVIOUS
<1>4. ASSUME NEW p \in 0..n PROVE c[p] = CharLen(s, p) /\ c[p] \in Nat /\ p + c[p] <= n
  <2>1. c[p] = CharLen(s, p)
    BY <1>3
  <2>2. CharLen(s, p) \in 0..4 /\ p + CharLen(s, p) <= n
    BY <1>1, CharLenIs, Zenon
  <2>3. CharLen(s, p) \in Nat
    BY <2>2
  <2>. QED
    BY <2>1, <2>2, <2>3, Zenon
<1>5. c \in [0..n -> Nat]
  BY <1>3, <1>4
<1>6. PICK g \in [0..n -> 0..n] : \A p \in 0..n : g[p] = IF c[p] = 0 THEN p ELSE g[p + c[p]]
  BY <1>2, <1>4, <1>5, WalkEnds, Zenon
<1>7. g = Def(g)
  <2>1. \A p \in 0..n : g[p] = Def(g)[p]
    BY <1>4, <1>6
  <2>. QED
    BY <2>1
<1>8. PICK e : e = CHOOSE f : f = Def(f)
  OBVIOUS
<1>9. e = Def(e)
  <2>. HIDE DEF Def
  <2>. QED
    BY <1>7, <1>8, Zenon
<1>10. valid_up_to(s) = e[0]
  BY <1>1, <1>8, Zenon DEF valid_up_to
<1>11. \A p \in 0..n : e[p] = IF CharLen(s, p) = 0 THEN p ELSE e[p + CharLen(s, p)]
  BY <1>9
<1>12. PICK S : S = {p \in 0..n : ~ (e[p] \in p..n /\ CharLen(s, e[p]) = 0)}
  OBVIOUS
<1>13. S = {}
  <2>1. SUFFICES ASSUME S # {} PROVE FALSE
    OBVIOUS
  <2>2. S \subseteq 0..n
    BY <1>12, Zenon
  <2>3. PICK p \in S : \A k \in S : k <= p
    BY <1>2, <2>1, <2>2, Greatest, Zenon
  <2>4. p \in 0..n /\ ~ (e[p] \in p..n /\ CharLen(s, e[p]) = 0)
    BY <1>12, Zenon
  <2>5. CharLen(s, p) # 0
    <3>1. SUFFICES ASSUME CharLen(s, p) = 0 PROVE FALSE
      OBVIOUS
    <3>2. e[p] = p
      BY <1>11, <2>4, <3>1, Zenon
    <3>3. p \in p..n
      BY <2>4
    <3>. QED
      BY <2>4, <3>1, <3>2, <3>3, Zenon
  <2>6. PICK q : q = p + CharLen(s, p)
    OBVIOUS
  <2>7. e[p] = e[q]
    BY <1>11, <2>4, <2>5, <2>6, Zenon
  <2>8. q \in 0..n /\ ~(q <= p) /\ q > p
    <3>1. PICK d : d = CharLen(s, p)
      OBVIOUS
    <3>2. d \in Nat /\ d # 0 /\ p + d <= n /\ q = p + d
      BY <1>4, <2>4, <2>5, <2>6, <3>1, Zenon
    <3>. QED
      BY <2>4, <3>2
  <2>9. q \notin S
    BY <2>3, <2>8, Zenon
  <2>10. e[q] \in q..n /\ CharLen(s, e[q]) = 0
    BY <1>12, <2>8, <2>9, Zenon
  <2>11. e[q] \in p..n
    BY <2>4, <2>8, <2>10
  <2>. QED
    BY <2>4, <2>7, <2>10, <2>11, Zenon
<1>14. Walk(e, s)
  BY <1>1, <1>11, <1>12, <1>13, Zenon DEF Walk
<1>. QED
  BY <1>10, <1>14, Zenon

\* A walk begun behind the first part of a sequence is a walk through the second.
LEMMA WalkBehind ==
  ASSUME NEW t \in Seq(Byte), NEW a \in Seq(Byte), NEW b \in Seq(Byte), Joined(t, a, b),
         NEW e, Walk(e, t), NEW f, Walk(f, b), NEW p \in 0..Len(b)
  PROVE  e[Len(a) + p] = Len(a) + f[p]
<1>1. PICK m, n : m = Len(a) /\ n = Len(b)
  OBVIOUS
<1>2. m \in Nat /\ n \in Nat
  BY <1>1
<1>3. PICK S : S = {k \in 0..n : e[m + k] # m + f[k]}
  OBVIOUS
<1>4. S = {}
  <2>1. SUFFICES ASSUME S # {} PROVE FALSE
    OBVIOUS
  <2>2. S \subseteq 0..n
    BY <1>3, Zenon
  <2>3. PICK k \in S : \A j \in S : j <= k
    BY <1>2, <2>1, <2>2, Greatest, Zenon
  <2>4. k \in 0..n /\ e[m + k] # m + f[k]
    BY <1>3, Zenon
  <2>5. PICK d : d = CharLen(b, k)
    OBVIOUS
  <2>6. d \in 0..4 /\ k + d <= n
    BY <1>1, <2>4, <2>5, CharLenIs, Zenon
  <2>7. CharLen(t, m + k) = d /\ m + k \in 0..Len(t)
    BY <1>1, <2>4, <2>5, CharLenBehind, Zenon
  <2>8. e[m + k] = IF d = 0 THEN m + k ELSE e[(m + k) + d]
    BY <2>7, Zenon DEF Walk
  <2>9. f[k] = IF d = 0 THEN k ELSE f[k + d]
    BY <1>1, <2>4, <2>5, Zenon DEF Walk
  <2>10. d # 0
    BY <2>4, <2>8, <2>9, Zenon
  <2>11. (m + k) + d = m + (k + d) /\ k + d \in 0..n /\ ~(k + d <= k)
    BY <1>2, <2>4, <2>6, <2>10
  <2>12. e[m + (k + d)] = m + f[k + d]
    BY <1>3, <2>3, <2>11, Zenon
  <2>. QED
    BY <2>4, <2>8, <2>9, <2>10, <2>11, <2>12, Zenon
<1>. QED
  BY <1>1, <1>3, <1>4, Zenon

\* A walk through a sequence comes by the place where the walk through its first
\* part ends.
LEMMA WalkPasses ==
  ASSUME NEW t \in Seq(Byte), NEW a \in Seq(Byte), NEW b \in Seq(Byte), Joined(t, a, b),
         NEW e, Walk(e, t), NEW f, Walk(f, a), NEW p \in 0..Len(a)
  PROVE  e[p] = e[f[p]]
<1>1. PICK m : m = Len(a)
  OBVIOUS
<1>2. m \in Nat /\ Len(b) \in Nat /\ Len(t) = m + Len(b)
  BY <1>1, LenProperties DEF Joined
<1>3. PICK S : S = {k \in 0..m : e[k] # e[f[k]]}
  OBVIOUS
<1>4. S = {}
  <2>1. SUFFICES ASSUME S # {} PROVE FALSE
    OBVIOUS
  <2>2. S \subseteq 0..m
    BY <1>3, Zenon
  <2>3. PICK k \in S : \A j \in S : j <= k
    BY <1>2, <2>1, <2>2, Greatest, Zenon
  <2>4. k \in 0..m /\ e[k] # e[f[k]]
    BY <1>3, Zenon
  <2>5. PICK d : d = CharLen(a, k)
    OBVIOUS
  <2>6. d \in 0..4 /\ k + d <= m
    BY <1>1, <2>4, <2>5, CharLenIs, Zenon
  <2>7. f[k] = IF d = 0 THEN k ELSE f[k + d]
    BY <1>1, <2>4, <2>5, Zenon DEF Walk
  <2>8. d # 0
    BY <2>4, <2>7, Zenon
  <2>9. CharLen(t, k) = d
    BY <1>1, <2>4, <2>5, <2>8, CharLenKept, Zenon
  <2>10. k \in 0..Len(t)
    BY <1>2, <2>4
  <2>11. e[k] = e[k + d]
    BY <2>8, <2>9, <2>10, Zenon DEF Walk
  <2>12. k + d \in 0..m /\ ~(k + d <= k)
    BY <1>2, <2>4, <2>6, <2>8
  <2>13. e[k + d] = e[f[k + d]]
    BY <1>3, <2>3, <2>12, Zenon
  <2>. QED
    BY <2>4, <2>7, <2>8, <2>11, <2>13, Zenon
<1>. QED
  BY <1>1, <1>3, <1>4, Zenon

LEMMA UpToIs ==
  ASSUME NEW s \in Seq(Byte)
  PROVE  valid_up_to(s) \in 0..Len(s) /\ CharLen(s, valid_up_to(s)) = 0
<1>1. PICK e : Walk(e, s) /\ valid_up_to(s) = e[0]
  BY WalkIs, Zenon
<1>2. 0 \in 0..Len(s)
  <2>1. Len(s) \in Nat
    OBVIOUS
  <2>. QED
    BY <2>1
<1>. QED
  BY <1>1, <1>2, Zenon DEF Walk

\* valid_up_to of a whole, from a part: whatever follows, the valid characters of
\* the part remain, and the search goes on behind them.
LEMMA UpToJoined ==
  ASSUME NEW a \in Seq(Byte), NEW b \in Seq(Byte), NEW t \in Seq(Byte), Joined(t, a, b),
         NEW v \in Seq(Byte), NEW w \in Seq(Byte), Joined(t, v, w), Len(v) = valid_up_to(a)
  PROVE  valid_up_to(t) = valid_up_to(a) + valid_up_to(w)
<1>1. PICK e : Walk(e, t) /\ valid_up_to(t) = e[0]
  BY WalkIs, Zenon
<1>2. PICK f : Walk(f, a) /\ valid_up_to(a) = f[0]
  BY WalkIs, Zenon
<1>3. PICK g : Walk(g, w) /\ valid_up_to(w) = g[0]
  BY WalkIs, Zenon
<1>4. 0 \in 0..Len(a) /\ 0 \in 0..Len(w) /\ Len(v) + 0 = Len(v)
  <2>1. Len(a) \in Nat /\ Len(w) \in Nat /\ Len(v) \in Nat
    BY LenProperties
  <2>. QED
    BY <2>1
<1>5. e[0] = e[Len(v)]
  <2>1. Walk(e, t) /\ Walk(f, a) /\ f[0] = Len(v)
    BY <1>1, <1>2, Zenon
  <2>2. e[0] = e[f[0]]
    BY <1>4, <2>1, WalkPasses, SMTT(30)
  <2>. QED
    BY <2>1, <2>2, Zenon
<1>6. e[Len(v) + 0] = Len(v) + g[0]
  <2>1. Walk(e, t) /\ Walk(g, w)
    BY <1>1, <1>3, Zenon
  <2>. QED
    BY <1>4, <2>1, WalkBehind, SMTT(30)
<1>. QED
  BY <1>1, <1>3, <1>4, <1>5, <1>6, Zenon

\* The search stays at the beginning if no character is there, and otherwise
\* comes at least behind the first.
LEMMA UpToFirst ==
  ASSUME NEW s \in Seq(Byte)
  PROVE  /\ CharLen(s, 0) = 0 <=> valid_up_to(s) = 0
         /\ CharLen(s, 0) <= valid_up_to(s)
<1>1. PICK e : Walk(e, s) /\ valid_up_to(s) = e[0]
  BY WalkIs, Zenon
<1>2. PICK n, c : n = Len(s) /\ c = CharLen(s, 0)
  OBVIOUS
<1>3. n \in Nat /\ 0 \in 0..n
  <2>1. n \in Nat
    BY <1>2
  <2>. QED
    BY <2>1
<1>4. c \in 0..4 /\ 0 + c <= n
  BY <1>2, <1>3, CharLenIs, Zenon
<1>5. e[0] = IF c = 0 THEN 0 ELSE e[0 + c]
  BY <1>1, <1>2, <1>3, Zenon DEF Walk
<1>6. 0 + c \in 0..n
  BY <1>3, <1>4
<1>7. e[0 + c] \in (0 + c)..n
  BY <1>1, <1>2, <1>6, Zenon DEF Walk
<1>8. (c = 0 <=> e[0] = 0) /\ c <= e[0]
  BY <1>4, <1>5, <1>7
<1>. QED
  BY <1>1, <1>2, <1>8, Zenon

-----------------------------------------------------------------------------
(* Parts of sequences of bytes *)

LEMMA JoinIs ==
  ASSUME NEW a \in Seq(Byte), NEW b \in Seq(Byte)
  PROVE  a \o b \in Seq(Byte) /\ Joined(a \o b, a, b) /\ Len(a \o b) = Len(a) + Len(b)
BY ConcatTwo, Zenon DEF Joined

LEMMA RestIs ==
  ASSUME NEW s \in Seq(Byte), NEW n \in 0..Len(s)
  PROVE  /\ Rest(s, n) \in Seq(Byte) /\ Len(Rest(s, n)) = Len(s) - n
         /\ \A i \in 1..(Len(s) - n) : Rest(s, n)[i] = s[n + i]
BY DEF Rest

\* A sequence is its front and its rest.
LEMMA FrontAndRest ==
  ASSUME NEW s \in Seq(Byte), NEW n \in 0..Len(s)
  PROVE  s = Front(s, n) \o Rest(s, n)
<1>1. PICK a, b : a = Front(s, n) /\ b = Rest(s, n)
  OBVIOUS
<1>2. PICK m : m = Len(s)
  OBVIOUS
<1>3. n \in Nat /\ m \in Nat /\ n <= m
  BY <1>2
<1>4. /\ a \in Seq(Byte) /\ Len(a) = n /\ \A i \in 1..n : a[i] = s[i]
      /\ b \in Seq(Byte) /\ Len(b) = m - n /\ \A i \in 1..(m - n) : b[i] = s[n + i]
  BY <1>1, <1>2, FrontBytes, RestIs, Zenon
<1>5. PICK t : t = a \o b
  OBVIOUS
<1>6. /\ t \in Seq(Byte) /\ Len(t) = n + (m - n)
      /\ \A i \in 1..n : t[i] = a[i]
      /\ \A i \in 1..(m - n) : t[n + i] = b[i]
  <2>1. t \in Seq(Byte) /\ Joined(t, a, b)
    BY <1>4, <1>5, JoinIs, Zenon
  <2>. QED
    BY <1>4, <2>1, Zenon DEF Joined
<1>7. Len(t) = m
  BY <1>3, <1>6
<1>8. ASSUME NEW i \in 1..m PROVE t[i] = s[i]
  <2>1. CASE i <= n
    <3>1. i \in 1..n
      BY <1>3, <2>1
    <3>. QED
      BY <1>4, <1>6, <3>1, Zenon
  <2>2. CASE i > n
    <3>1. PICK j : j = i - n
      OBVIOUS
    <3>2. j \in 1..(m - n) /\ n + j = i
      BY <1>3, <2>2, <3>1
    <3>. QED
      BY <1>4, <1>6, <3>2, Zenon
  <2>. QED
    BY <1>3, <2>1, <2>2
<1>9. t = s
  BY <1>2, <1>6, <1>7, <1>8, SeqEqual
<1>. QED
  BY <1>1, <1>5, <1>9, Zenon

\* The beginning of a whole that reaches no farther than its first part.
LEMMA FrontOfJoin ==
  ASSUME NEW a \in Seq(Byte), NEW b \in Seq(Byte), NEW n \in 0..Len(a)
  PROVE  Front(a \o b, n) = Front(a, n) /\ n \in 0..Len(a \o b)
<1>1. PICK t : t = a \o b
  OBVIOUS
<1>2. /\ t \in Seq(Byte) /\ Len(t) = Len(a) + Len(b)
      /\ \A i \in 1..Len(a) : t[i] = a[i]
  BY <1>1, JoinIs, Zenon DEF Joined
<1>3. Len(a) \in Nat /\ Len(b) \in Nat /\ n \in Nat /\ n <= Len(a)
  BY LenProperties
<1>4. n \in 0..Len(t)
  BY <1>2, <1>3
<1>5. PICK f, g : f = Front(t, n) /\ g = Front(a, n)
  OBVIOUS
<1>6. /\ f \in Seq(Byte) /\ Len(f) = n /\ \A i \in 1..n : f[i] = t[i]
      /\ g \in Seq(Byte) /\ Len(g) = n /\ \A i \in 1..n : g[i] = a[i]
  BY <1>2, <1>4, <1>5, FrontBytes, Zenon
<1>7. ASSUME NEW i \in 1..n PROVE f[i] = g[i]
  <2>1. i \in 1..Len(a)
    BY <1>3
  <2>. QED
    BY <1>2, <1>6, <2>1, Zenon
<1>8. f = g
  BY <1>6, <1>7, SeqEqual
<1>. QED
  BY <1>1, <1>4, <1>5, <1>8, Zenon

\* What is left of a whole behind some of its second part.
LEMMA RestOfJoin ==
  ASSUME NEW a \in Seq(Byte), NEW b \in Seq(Byte), NEW j \in 0..Len(b)
  PROVE  Rest(a \o b, Len(a) + j) = Rest(b, j)
<1>1. PICK t, k, m, n : t = a \o b /\ k = Len(a) + j /\ m = Len(a) /\ n = Len(b)
  OBVIOUS
<1>2. /\ t \in Seq(Byte) /\ Len(t) = m + n
      /\ \A i \in 1..n : t[m + i] = b[i]
  BY <1>1, JoinIs, Zenon DEF Joined
<1>3. m \in Nat /\ n \in Nat /\ j \in Nat /\ j <= n /\ k = m + j
  BY <1>1, LenProperties
<1>4. k \in 0..Len(t) /\ Len(t) - k = n - j /\ n - j \in Nat
  BY <1>2, <1>3
<1>5. PICK f, g : f = Rest(t, k) /\ g = Rest(b, j)
  OBVIOUS
<1>6. /\ f \in Seq(Byte) /\ Len(f) = n - j /\ \A i \in 1..(n - j) : f[i] = t[k + i]
      /\ g \in Seq(Byte) /\ Len(g) = n - j /\ \A i \in 1..(n - j) : g[i] = b[j + i]
  <2>1. f \in Seq(Byte) /\ Len(f) = Len(t) - k /\ \A i \in 1..(Len(t) - k) : f[i] = t[k + i]
    BY <1>2, <1>4, <1>5, RestIs, Zenon
  <2>2. g \in Seq(Byte) /\ Len(g) = n - j /\ \A i \in 1..(n - j) : g[i] = b[j + i]
    BY <1>1, <1>5, RestIs, Zenon
  <2>. QED
    BY <1>4, <2>1, <2>2, Zenon
<1>7. ASSUME NEW i \in 1..(n - j) PROVE f[i] = g[i]
  <2>1. k + i = m + (j + i) /\ j + i \in 1..n
    BY <1>3
  <2>. QED
    BY <1>2, <1>6, <2>1, Zenon
<1>8. f = g
  BY <1>6, <1>7, SeqEqual
<1>. QED
  BY <1>1, <1>5, <1>8, Zenon

\* t is a followed by b.
Cat(t, a, b) == a \in Seq(Byte) /\ b \in Seq(Byte) /\ t = a \o b

LEMMA CatIs ==
  ASSUME NEW t, NEW a, NEW b, Cat(t, a, b)
  PROVE  /\ a \in Seq(Byte) /\ b \in Seq(Byte) /\ t \in Seq(Byte)
         /\ Joined(t, a, b) /\ Len(t) = Len(a) + Len(b)
BY JoinIs, Zenon DEF Cat

LEMMA CatParts ==
  ASSUME NEW s \in Seq(Byte), NEW n \in 0..Len(s)
  PROVE  Cat(s, Front(s, n), Rest(s, n))
BY FrontBytes, RestIs, FrontAndRest, Zenon DEF Cat

LEMMA CatAssoc ==
  ASSUME NEW t, NEW a, NEW b, NEW c, NEW ab, NEW bc, Cat(ab, a, b), Cat(bc, b, c)
  PROVE  Cat(t, ab, c) <=> Cat(t, a, bc)
<1>1. a \in Seq(Byte) /\ b \in Seq(Byte) /\ c \in Seq(Byte) /\ ab = a \o b /\ bc = b \o c
  BY Zenon DEF Cat
<1>2. (a \o b) \o c = a \o (b \o c)
  BY <1>1, ConcatAssociative
<1>3. ab \in Seq(Byte) /\ bc \in Seq(Byte)
  BY CatIs, Zenon
<1>. QED
  BY <1>1, <1>2, <1>3, Zenon DEF Cat

LEMMA CatUpTo ==
  ASSUME NEW t, NEW a, NEW b, NEW v, NEW w, Cat(t, a, b), Cat(t, v, w),
         Len(v) = valid_up_to(a)
  PROVE  valid_up_to(t) = valid_up_to(a) + valid_up_to(w)
<1>1. /\ t \in Seq(Byte) /\ a \in Seq(Byte) /\ b \in Seq(Byte) /\ v \in Seq(Byte) /\ w \in Seq(Byte)
      /\ Joined(t, a, b) /\ Joined(t, v, w)
  BY CatIs, Zenon
<1>. QED
  BY <1>1, UpToJoined, SMTT(30)

-----------------------------------------------------------------------------
(* Characters cut short *)

\* The bytes behind position p, at least one, are the beginning of a character.
Cut(s, p) ==
  \E sh \in Shapes : Len(s) - p \in 1..Len(sh) /\ Matches(s, p, sh, Len(s) - p)

\* error_len is 0 if and only if s ends in a character cut short; otherwise no shape
\* matches any farther.
LEMMA ErrorLenIs ==
  ASSUME NEW s \in Seq(Byte)
  PROVE  /\ error_len(s) = 0 <=> Cut(s, valid_up_to(s))
         /\ error_len(s) \in Nat
         /\ error_len(s) # 0 =>
              \A sh \in Shapes : \A j \in 0..Len(sh) :
                Matches(s, valid_up_to(s), sh, j) => j <= error_len(s)
<1>1. PICK p, n : p = valid_up_to(s) /\ n = Len(s)
  OBVIOUS
<1>2. p \in 0..n /\ n \in Nat /\ p \in Nat /\ p <= n
  <2>1. p \in 0..n
    BY <1>1, UpToIs, Zenon
  <2>2. n \in Nat
    BY <1>1
  <2>. QED
    BY <2>1, <2>2
<1>3. PICK F : F = {Fit(s, p, sh) : sh \in Shapes}
  OBVIOUS
<1>4. PICK k : k = Max(F)
  OBVIOUS
<1>5. \A sh \in Shapes : Fit(s, p, sh) \in 0..4
  <2>1. SUFFICES ASSUME NEW sh \in Shapes PROVE Fit(s, p, sh) \in 0..4
    OBVIOUS
  <2>2. PICK f, l : f = Fit(s, p, sh) /\ l = Len(sh)
    OBVIOUS
  <2>3. f \in 0..l /\ l \in 1..4
    BY <1>1, <1>2, <2>2, FitIs, ShapeLen, Zenon
  <2>4. f \in 0..4
    BY <2>3
  <2>. QED
    BY <2>2, <2>4, Zenon
<1>6. F \subseteq 0..4 /\ F # {}
  <2>1. <<0..127>> \in Shapes
    BY DEF Shapes
  <2>. QED
    BY <1>3, <1>5, <2>1, Zenon
<1>7. k \in F /\ \A f \in F : f <= k
  BY <1>4, <1>6, MaxIs, 4 \in Nat, Zenon
<1>8. k \in 0..4
  BY <1>6, <1>7, Zenon
<1>9. PICK best \in Shapes : k = Fit(s, p, best)
  BY <1>3, <1>7, Zenon
<1>10. k \in 0..Len(best) /\ Matches(s, p, best, k)
  BY <1>1, <1>2, <1>9, FitIs, Zenon
<1>11. p + k <= n
  BY <1>1, <1>10, Zenon DEF Matches
<1>12. ASSUME NEW sh \in Shapes, NEW j \in 0..Len(sh), Matches(s, p, sh, j) PROVE j <= k
  <2>1. PICK f : f = Fit(s, p, sh)
    OBVIOUS
  <2>2. j <= f
    BY <1>1, <1>2, <1>12, <2>1, FitIs, Zenon
  <2>3. f <= k /\ f \in 0..4
    BY <1>3, <1>5, <1>7, <2>1, Zenon
  <2>4. j \in Nat
    BY ShapeLen
  <2>. QED
    BY <1>8, <2>2, <2>3, <2>4
<1>13. PICK x : x = Max({1, k})
  OBVIOUS
<1>14. x \in Nat /\ x > 0 /\ k <= x
  <2>1. {1, k} \subseteq 0..4 /\ {1, k} # {}
    BY <1>8
  <2>2. x \in {1, k} /\ \A y \in {1, k} : y <= x
    BY <1>13, <2>1, MaxIs, 4 \in Nat, Zenon
  <2>3. (x = 1 \/ x = k) /\ 1 <= x /\ k <= x
    BY <2>2, Zenon
  <2>. QED
    BY <1>8, <2>3
<1>15. error_len(s) = IF p + k = n /\ k > 0 THEN 0 ELSE x
  BY <1>1, <1>3, <1>4, <1>13, Zenon DEF error_len
<1>16. ASSUME p + k = n, k > 0 PROVE Cut(s, p)
  <2>1. n - p = k /\ k \in 1..Len(best)
    BY <1>2, <1>8, <1>10, <1>16
  <2>. QED
    BY <1>1, <1>10, <2>1, Zenon DEF Cut
<1>17. ASSUME Cut(s, p) PROVE p + k = n /\ k > 0
  <2>1. PICK sh \in Shapes : n - p \in 1..Len(sh) /\ Matches(s, p, sh, n - p)
    BY <1>1, <1>17, Zenon DEF Cut
  <2>2. PICK d : d = n - p
    OBVIOUS
  <2>3. d \in 1..Len(sh) /\ Matches(s, p, sh, d)
    BY <2>1, <2>2, Zenon
  <2>4. d \in 0..Len(sh) /\ d > 0 /\ d \in Nat
    BY <2>3
  <2>5. d <= k
    BY <1>12, <2>3, <2>4, Zenon
  <2>. QED
    BY <1>2, <1>8, <1>11, <2>2, <2>4, <2>5
<1>18. error_len(s) = 0 <=> Cut(s, p)
  <2>1. x # 0
    BY <1>14
  <2>. QED
    BY <1>15, <1>16, <1>17, <2>1, Zenon
<1>19. error_len(s) \in Nat /\ (error_len(s) # 0 => k <= error_len(s))
  BY <1>14, <1>15
<1>20. ASSUME error_len(s) # 0, NEW sh \in Shapes, NEW j \in 0..Len(sh), Matches(s, p, sh, j)
       PROVE  j <= error_len(s)
  <2>1. PICK l : l = error_len(s)
    OBVIOUS
  <2>2. k <= l /\ j <= k /\ l \in Nat
    BY <1>12, <1>19, <1>20, <2>1, Zenon
  <2>3. j \in Nat
    BY ShapeLen
  <2>4. j <= l
    BY <1>8, <2>2, <2>3
  <2>. QED
    BY <2>1, <2>4, Zenon
<1>. QED
  BY <1>1, <1>18, <1>19, <1>20, Zenon

\* The end of a whole is cut short if that of its second part is.
LEMMA CutBehind ==
  ASSUME NEW a \in Seq(Byte), NEW b \in Seq(Byte), NEW p \in 0..Len(b)
  PROVE  Cut(a \o b, Len(a) + p) <=> Cut(b, p)
<1>1. PICK t, q : t = a \o b /\ q = Len(a) + p
  OBVIOUS
<1>2. t \in Seq(Byte) /\ Joined(t, a, b) /\ Len(t) = Len(a) + Len(b)
  BY <1>1, JoinIs, Zenon
<1>3. Len(t) - q = Len(b) - p /\ Len(b) - p \in Nat /\ p \in Nat
  BY <1>1, <1>2, LenProperties
<1>4. PICK d : d = Len(b) - p
  OBVIOUS
<1>5. \A sh : Matches(t, q, sh, d) <=> Matches(b, p, sh, d)
  BY <1>1, <1>2, <1>3, <1>4, MatchesBehind, Zenon
<1>. QED
  BY <1>1, <1>3, <1>4, <1>5, Zenon DEF Cut

\* A character cut short has at most three bytes.
LEMMA CutIsShort ==
  ASSUME NEW s \in Seq(Byte), Cut(s, 0), CharLen(s, 0) = 0
  PROVE  Len(s) \in 1..3
<1>1. PICK n : n = Len(s)
  OBVIOUS
<1>2. n \in Nat /\ n - 0 = n /\ 0 \in 0..n
  <2>1. n \in Nat
    BY <1>1
  <2>. QED
    BY <2>1
<1>3. PICK sh \in Shapes : n \in 1..Len(sh) /\ Matches(s, 0, sh, n)
  BY <1>1, <1>2, Zenon DEF Cut
<1>4. PICK l : l = Len(sh)
  OBVIOUS
<1>5. l \in 1..4 /\ n \in 1..l
  BY <1>3, <1>4, ShapeLen, Zenon
<1>6. n # l
  <2>1. SUFFICES ASSUME n = l PROVE FALSE
    OBVIOUS
  <2>2. Matches(s, 0, sh, Len(sh))
    BY <1>3, <1>4, <2>1, Zenon
  <2>3. CharLen(s, 0) = l
    BY <1>1, <1>2, <1>4, <2>2, CharLenIs, Zenon
  <2>. QED
    BY <1>5, <2>3
<1>7. n \in 1..3
  BY <1>5, <1>6
<1>. QED
  BY <1>1, <1>7, Zenon

\* A character that may still become one does not end before its cut.
LEMMA CutGoesOn ==
  ASSUME NEW r \in Seq(Byte), NEW b \in Seq(Byte), CharLen(r, 0) = 0,
         valid_up_to(r \o b) # 0
  PROVE  Len(r) <= valid_up_to(r \o b)
<1>1. PICK w, u, c, n : w = r \o b /\ u = valid_up_to(w) /\ c = CharLen(w, 0) /\ n = Len(r)
  OBVIOUS
<1>2. w \in Seq(Byte) /\ Joined(w, r, b)
  BY <1>1, JoinIs, Zenon
<1>3. u # 0 /\ c # 0 /\ c <= u
  BY <1>1, <1>2, UpToFirst, Zenon
<1>4. n \in Nat /\ u \in Nat /\ 0 \in 0..Len(w) /\ 0 \in 0..n
  <2>1. n \in Nat /\ Len(w) \in Nat
    BY <1>1, <1>2
  <2>2. u \in 0..Len(w)
    BY <1>1, <1>2, UpToIs, Zenon
  <2>. QED
    BY <2>1, <2>2
<1>5. c \in 0..4
  BY <1>1, <1>2, <1>4, CharLenIs, Zenon
<1>6. PICK sh \in Shapes : Len(sh) = c /\ Matches(w, 0, sh, c)
  <2>1. CharLen(w, 0) # 0 /\ c = CharLen(w, 0)
    BY <1>1, <1>3, Zenon
  <2>2. PICK sh \in Shapes : Len(sh) = CharLen(w, 0) /\ Matches(w, 0, sh, Len(sh))
    BY <1>2, <1>4, <2>1, CharLenIs, Zenon
  <2>. QED
    BY <2>1, <2>2, Zenon
<1>7. ~ (c <= n)
  <2>1. SUFFICES ASSUME c <= n PROVE FALSE
    OBVIOUS
  <2>2. c \in Nat /\ 0 + c <= Len(r)
    BY <1>1, <1>5, <2>1
  <2>3. Matches(r, 0, sh, c)
    BY <1>2, <1>6, <2>2, MatchesBefore, 0 \in Nat, Zenon
  <2>4. CharLen(r, 0) = c
    BY <1>1, <1>4, <1>6, <2>3, CharLenIs, Zenon
  <2>. QED
    BY <1>3, <2>4, Zenon
<1>8. n <= u
  BY <1>3, <1>4, <1>5, <1>7
<1>. QED
  BY <1>1, <1>8, Zenon

\* An invalid sequence remains one, whatever follows.
LEMMA InvalidStays ==
  ASSUME NEW r \in Seq(Byte), NEW b \in Seq(Byte), r # <<>>, CharLen(r, 0) = 0, ~ Cut(r, 0)
  PROVE  CharLen(r \o b, 0) = 0 /\ ~ Cut(r \o b, 0)
<1>1. PICK w, n, m : w = r \o b /\ n = Len(r) /\ m = Len(w)
  OBVIOUS
<1>2. w \in Seq(Byte) /\ Joined(w, r, b) /\ m = n + Len(b)
  BY <1>1, JoinIs, Zenon
<1>3. n \in Nat /\ m \in Nat /\ 0 < n /\ n <= m /\ n - 0 = n /\ m - 0 = m /\ 0 \in 0..n /\ 0 \in 0..m
  <2>1. n \in Nat /\ Len(b) \in Nat
    BY <1>1
  <2>2. n # 0
    BY <1>1
  <2>. QED
    BY <1>2, <2>1, <2>2
<1>4. ASSUME NEW sh \in Shapes, NEW j \in 1..Len(sh), j >= n PROVE ~ Matches(w, 0, sh, j)
  <2>1. SUFFICES ASSUME Matches(w, 0, sh, j) PROVE FALSE
    OBVIOUS
  <2>2. j \in Nat /\ n \in 0..j /\ n \in 1..Len(sh) /\ 0 + n <= n
    BY <1>3, <1>4, ShapeLen
  <2>3. Matches(w, 0, sh, n)
    BY <1>2, <2>1, <2>2, MatchesLess, 0 \in Nat, Zenon
  <2>4. Matches(r, 0, sh, n)
    BY <1>1, <1>2, <1>3, <2>2, <2>3, MatchesBefore, 0 \in Nat, Zenon
  <2>. QED
    BY <1>1, <1>3, <2>2, <2>4, Zenon DEF Cut
<1>5. ASSUME NEW sh \in Shapes PROVE ~ Matches(w, 0, sh, Len(sh))
  <2>1. PICK l : l = Len(sh)
    OBVIOUS
  <2>2. l \in Nat /\ l \in 1..l
    BY <2>1, ShapeLen
  <2>3. CASE l >= n
    BY <1>4, <2>1, <2>2, <2>3, Zenon
  <2>4. CASE l < n
    <3>1. SUFFICES ASSUME Matches(w, 0, sh, l) PROVE FALSE
      BY <2>1, Zenon
    <3>2. 0 + l <= n
      BY <1>3, <2>2, <2>4
    <3>3. Matches(r, 0, sh, l)
      BY <1>1, <1>2, <2>2, <3>1, <3>2, MatchesBefore, 0 \in Nat, Zenon
    <3>4. CharLen(r, 0) = l
      BY <1>1, <1>3, <2>1, <3>3, CharLenIs, Zenon
    <3>. QED
      BY <2>2, <3>4
  <2>. QED
    BY <1>3, <2>2, <2>3, <2>4
<1>6. CharLen(w, 0) = 0
  BY <1>1, <1>2, <1>3, <1>5, CharLenIs, Zenon
<1>7. ~ Cut(w, 0)
  <2>1. SUFFICES ASSUME Cut(w, 0) PROVE FALSE
    OBVIOUS
  <2>2. PICK sh \in Shapes : m \in 1..Len(sh) /\ Matches(w, 0, sh, m)
    BY <1>1, <1>3, <2>1, Zenon DEF Cut
  <2>3. m >= n
    BY <1>3
  <2>. QED
    BY <1>4, <2>2, <2>3, Zenon
<1>. QED
  BY <1>1, <1>6, <1>7, Zenon

-----------------------------------------------------------------------------
(* The collector *)

\* The collector has decoded d of the text t, and keeps the rest r of it.
Collects(t, d, r) ==
  /\ d \in Seq(Byte) /\ r \in Seq(Byte) /\ t = d \o r
  /\ Len(d) = valid_up_to(t) /\ (r # <<>> => Cut(r, 0))

\* What valid_up_to and error_len say of a text that is decoded up to its second part.
LEMMA DecodedUpTo ==
  ASSUME NEW d \in Seq(Byte), NEW r \in Seq(Byte), Len(d) = valid_up_to(d \o r)
  PROVE  /\ CharLen(r, 0) = 0 /\ valid_up_to(r) = 0
         /\ is_utf8(d \o r) <=> r = <<>>
         /\ error_len(d \o r) = 0 <=> Cut(r, 0)
<1>1. PICK t, n : t = d \o r /\ n = Len(d)
  OBVIOUS
<1>2. t \in Seq(Byte) /\ Joined(t, d, r) /\ Len(t) = n + Len(r)
  BY <1>1, JoinIs, Zenon
<1>3. n \in Nat /\ Len(r) \in Nat /\ n + 0 = n /\ 0 \in 0..Len(r) /\ (Len(r) = 0 <=> r = <<>>)
  <2>1. n \in Nat /\ Len(r) \in Nat /\ (Len(r) = 0 <=> r = <<>>)
    BY <1>1
  <2>. QED
    BY <2>1
<1>4. CharLen(t, n) = 0
  BY <1>1, <1>2, UpToIs, Zenon
<1>5. CharLen(r, 0) = 0
  <2>1. CharLen(t, Len(d) + 0) = CharLen(r, 0)
    BY <1>2, <1>3, CharLenBehind, Zenon
  <2>. QED
    BY <1>1, <1>3, <1>4, <2>1, Zenon
<1>6. valid_up_to(r) = 0
  BY <1>5, UpToFirst, Zenon
<1>7. is_utf8(t) <=> r = <<>>
  <2>1. is_utf8(t) <=> n = Len(t)
    BY <1>1, Zenon DEF is_utf8
  <2>2. n = Len(t) <=> Len(r) = 0
    BY <1>2, <1>3
  <2>. QED
    BY <1>3, <2>1, <2>2, Zenon
<1>8. error_len(t) = 0 <=> Cut(t, n)
  BY <1>1, <1>2, ErrorLenIs, Zenon
<1>9. Cut(t, n) <=> Cut(r, 0)
  <2>1. Cut(d \o r, Len(d) + 0) <=> Cut(r, 0)
    BY <1>3, CutBehind, Zenon
  <2>. QED
    BY <1>1, <1>3, <2>1, Zenon
<1>. QED
  BY <1>1, <1>5, <1>6, <1>7, <1>8, <1>9, Zenon

\* What extend must make of a text: it is collected, or no text.
Judged(t, x) ==
  \/ x.err = "None" /\ Collects(t, x.c.data, x.c.incomplete)
  \/ x.err = "Utf8" /\ ~ is_utf8(t) /\ error_len(t) # 0

LEMMA CollectedIs ==
  ASSUME NEW d, NEW r, NEW e
  PROVE  /\ Collected(d, r, e).err = e /\ Collected(d, r, e).c.data = d
         /\ Collected(d, r, e).c.incomplete = r
BY DEF Collected

LEMMA JudgedCollected ==
  ASSUME NEW t, NEW d, NEW r, Collects(t, d, r)
  PROVE  Judged(t, Collected(d, r, "None"))
<1>1. PICK x : x = Collected(d, r, "None")
  OBVIOUS
<1>2. x.err = "None" /\ x.c.data = d /\ x.c.incomplete = r
  BY <1>1, CollectedIs
<1>. QED
  BY <1>1, <1>2, Zenon DEF Judged

LEMMA JudgedInvalid ==
  ASSUME NEW t, NEW d, NEW r, ~ is_utf8(t), error_len(t) # 0
  PROVE  Judged(t, Collected(d, r, "Utf8"))
<1>1. PICK x : x = Collected(d, r, "Utf8")
  OBVIOUS
<1>2. x.err = "Utf8"
  BY <1>1, CollectedIs
<1>. QED
  BY <1>1, <1>2, Zenon DEF Judged

\* decode, behind what is decoded already.
LEMMA DecodedIsWhole ==
  ASSUME NEW data \in Seq(Byte), NEW input \in Seq(Byte),
         valid_up_to(data \o input) = Len(data) + valid_up_to(input)
  PROVE  Judged(data \o input, ExtendDecoded(data, input))
<1>1. PICK u, n, f, r : u = valid_up_to(input) /\ n = Len(input) /\ f = Front(input, u) /\ r = Rest(input, u)
  OBVIOUS
<1>2. u \in 0..n /\ CharLen(input, u) = 0
  BY <1>1, UpToIs, Zenon
<1>3. f \in Seq(Byte) /\ Len(f) = u /\ r \in Seq(Byte) /\ Len(r) = n - u /\ input = f \o r
  BY <1>1, <1>2, FrontBytes, RestIs, FrontAndRest, Zenon
<1>4. PICK text, t : text = data \o f /\ t = data \o input
  OBVIOUS
<1>5. text \in Seq(Byte) /\ Len(text) = Len(data) + u /\ t \in Seq(Byte)
  BY <1>3, <1>4, JoinIs, Zenon
<1>6. t = text \o r
  BY <1>3, <1>4, ConcatAssociative
<1>7. Len(text) = valid_up_to(t)
  BY <1>1, <1>4, <1>5, Zenon
<1>8. /\ CharLen(r, 0) = 0 /\ (is_utf8(t) <=> r = <<>>)
      /\ (error_len(t) = 0 <=> Cut(r, 0))
  BY <1>3, <1>5, <1>6, <1>7, DecodedUpTo, Zenon
<1>9. Len(f) = valid_up_to(f \o r)
  BY <1>1, <1>3, Zenon
<1>10. error_len(input) = 0 <=> Cut(r, 0)
  BY <1>3, <1>9, DecodedUpTo, Zenon
<1>11. n \in Nat /\ u \in Nat /\ u <= n /\ n - u \in Nat
  <2>1. n \in Nat
    BY <1>1
  <2>. QED
    BY <1>2, <2>1
<1>12. r = <<>> <=> u = n
  <2>1. r = <<>> <=> Len(r) = 0
    BY <1>3
  <2>. QED
    BY <1>3, <1>11, <2>1
<1>13. CASE u = n
  <2>1. ExtendDecoded(data, input) = Collected(text, <<>>, "None")
    <3>1. ~ (u < n)
      BY <1>11, <1>13
    <3>. QED
      BY <1>1, <1>4, <1>13, <3>1, Zenon DEF ExtendDecoded
  <2>2. Collects(t, text, <<>>)
    BY <1>3, <1>5, <1>6, <1>7, <1>12, <1>13, Zenon DEF Collects
  <2>. QED
    BY <1>4, <2>1, <2>2, JudgedCollected, Zenon
<1>14. CASE u < n /\ error_len(input) = 0
  <2>1. Cut(r, 0) /\ u # n
    BY <1>10, <1>11, <1>14
  <2>2. Len(r) \in 1..3
    BY <1>3, <1>8, <2>1, CutIsShort, Zenon
  <2>3. ~ (n - u > BufferSize)
    BY <1>3, <1>11, <2>2 DEF BufferSize
  <2>4. ExtendDecoded(data, input) = Collected(text, r, "None")
    BY <1>1, <1>4, <1>14, <2>1, <2>3, Zenon DEF ExtendDecoded
  <2>5. Collects(t, text, r)
    BY <1>3, <1>5, <1>6, <1>7, <2>1, Zenon DEF Collects
  <2>. QED
    BY <1>4, <2>4, <2>5, JudgedCollected, Zenon
<1>15. CASE u < n /\ error_len(input) # 0
  <2>1. u # n
    BY <1>11, <1>15
  <2>2. ExtendDecoded(data, input) = Collected(text, <<>>, "Utf8")
    BY <1>1, <1>4, <1>15, <2>1, Zenon DEF ExtendDecoded
  <2>3. ~ is_utf8(t) /\ error_len(t) # 0
    BY <1>8, <1>10, <1>12, <1>15, <2>1, Zenon
  <2>. QED
    BY <1>4, <2>2, <2>3, JudgedInvalid, Zenon
<1>. QED
  BY <1>11, <1>13, <1>14, <1>15

LEMMA MinIs ==
  ASSUME NEW a \in Nat, NEW b \in Nat
  PROVE  Min({a, b}) \in Nat /\ Min({a, b}) <= a /\ Min({a, b}) <= b /\ Min({a, b}) \in {a, b}
<1>1. \E x \in {a, b} : \A y \in {a, b} : x <= y
  OBVIOUS
<1>2. PICK m : m = Min({a, b})
  OBVIOUS
<1>3. m \in {a, b} /\ \A y \in {a, b} : m <= y
  BY <1>1, <1>2, Zenon DEF Min
<1>4. (m = a \/ m = b) /\ m <= a /\ m <= b
  BY <1>3, Zenon
<1>. QED
  BY <1>2, <1>4

\* try_complete, given a character cut short and what follows it: it completes
\* characters and leaves the rest, or finds that no character begins so, or keeps
\* everything as still cut short.  Its subtractions do not underflow.
LEMMA TryCompleteIs ==
  ASSUME NEW r \in Seq(Byte), NEW tail \in Seq(Byte), NEW w, Cat(w, r, tail),
         r # <<>>, Cut(r, 0), CharLen(r, 0) = 0
  PROVE  \/ \E buffer, left : /\ try_complete(r, tail) = Completed("Ok", buffer, left)
                              /\ Cat(w, buffer, left)
                              /\ valid_up_to(w) = Len(buffer) + valid_up_to(left)
         \/ \E buffer, left : /\ try_complete(r, tail) = Completed("Err", buffer, left)
                              /\ CharLen(w, 0) = 0 /\ ~ Cut(w, 0)
         \/ /\ try_complete(r, tail) = Completed("None", w, <<>>)
            /\ CharLen(w, 0) = 0 /\ Cut(w, 0)
<1>1. Len(r) \in 1..3
  BY CutIsShort, Zenon
<1>2. PICK n, k, f, b : /\ n = Len(r) /\ k = Min({BufferSize - n, Len(tail)})
                        /\ f = Front(tail, k) /\ b = Rest(tail, k)
  OBVIOUS
<1>3. n \in Nat /\ n \in 1..3 /\ Len(tail) \in Nat /\ BufferSize - n \in Nat
  BY <1>1, <1>2 DEF BufferSize
<1>4. k \in Nat /\ k <= BufferSize - n /\ k <= Len(tail) /\ (k = BufferSize - n \/ k = Len(tail))
  <2>1. k \in Nat /\ k <= BufferSize - n /\ k <= Len(tail) /\ k \in {BufferSize - n, Len(tail)}
    BY <1>2, <1>3, MinIs, Zenon
  <2>. QED
    BY <2>1, Zenon
<1>5. k \in 0..Len(tail)
  BY <1>3, <1>4
<1>6. Cat(tail, f, b) /\ Len(f) = k
  BY <1>2, <1>5, CatParts, FrontBytes, Zenon
<1>7. PICK s, u, e : s = r \o f /\ u = valid_up_to(s) /\ e = error_len(s)
  OBVIOUS
<1>8. Cat(s, r, f)
  BY <1>6, <1>7, Zenon DEF Cat
<1>9. Cat(w, s, b)
  BY <1>6, <1>8, CatAssoc, Zenon
<1>10. s \in Seq(Byte) /\ Len(s) = n + k /\ b \in Seq(Byte) /\ w \in Seq(Byte)
  <2>1. s \in Seq(Byte) /\ Len(s) = Len(r) + Len(f)
    BY <1>8, CatIs
  <2>2. b \in Seq(Byte) /\ w \in Seq(Byte)
    BY <1>9, CatIs, Zenon
  <2>. QED
    BY <1>2, <1>6, <2>1, <2>2, Zenon
<1>11. u \in 0..Len(s) /\ u \in Nat /\ Len(s) \in Nat /\ u <= Len(s)
  <2>1. u \in 0..Len(s)
    BY <1>7, <1>10, UpToIs, Zenon
  <2>. QED
    BY <1>10, <2>1
<1>12. s # <<>>
  <2>1. Len(s) # 0
    BY <1>3, <1>4, <1>10
  <2>. QED
    BY <2>1
<1>13. e \in Nat
  BY <1>7, <1>10, ErrorLenIs, Zenon
<1>14. is_utf8(s) <=> u = Len(s)
  BY <1>7, Zenon DEF is_utf8
<1>15. CASE is_utf8(s)
  <2>1. try_complete(r, tail) = Completed("Ok", s, b)
    BY <1>2, <1>7, <1>15, Zenon DEF try_complete
  <2>2. Len(s) = valid_up_to(s)
    BY <1>7, <1>14, <1>15, Zenon
  <2>3. valid_up_to(w) = valid_up_to(s) + valid_up_to(b)
    BY <1>9, <2>2, CatUpTo, SMTT(30)
  <2>. QED
    BY <1>9, <2>1, <2>2, <2>3, Zenon
<1>16. CASE ~ is_utf8(s) /\ u > 0
  <2>1. PICK x, j : x = Front(s, u) /\ j = u - n
    OBVIOUS
  <2>2. n <= u
    <3>1. u # 0 /\ valid_up_to(r \o f) = u /\ f \in Seq(Byte)
      BY <1>6, <1>7, <1>16 DEF Cat
    <3>. QED
      BY <1>2, <3>1, CutGoesOn, Zenon
  <2>3. j \in 0..k /\ ~ (j < 0) /\ u = n + j /\ j \in 0..Len(tail)
    BY <1>3, <1>4, <1>10, <1>11, <2>1, <2>2
  <2>4. PICK y : y = Rest(tail, j)
    OBVIOUS
  <2>5. ~ (u - n < 0)
    BY <2>1, <2>3, Zenon
  <2>6. try_complete(r, tail) = Completed("Ok", x, y)
    <3>1. try_complete(r, tail) = Completed("Ok", Front(s, u), Rest(tail, u - n))
      <4>1. ~ (u = 0)
        BY <1>16
      <4>2. ~ is_utf8(s) /\ u > 0
        BY <1>16
      <4>3. ~ (valid_up_to(s) - Len(r) < 0)
        BY <1>2, <1>7, <2>5, Zenon
      <4>. QED
        BY <1>2, <1>7, <4>1, <4>2, <4>3, Zenon DEF try_complete
    <3>. QED
      BY <2>1, <2>4, <3>1, Zenon
  <2>7. Cat(w, x, y)
    <3>1. w = s \o b /\ w = r \o tail
      BY <1>9, Zenon DEF Cat
    <3>2. Front(w, u) = x /\ u \in 0..Len(w)
      <4>1. Front(s \o b, u) = Front(s, u) /\ u \in 0..Len(s \o b)
        BY <1>10, <1>11, FrontOfJoin, Zenon
      <4>. QED
        BY <2>1, <3>1, <4>1, Zenon
    <3>3. Rest(w, Len(r) + j) = y
      BY <2>3, <2>4, <3>1, RestOfJoin, Zenon
    <3>4. Rest(w, u) = y
      BY <1>2, <2>3, <3>3, Zenon
    <3>5. Cat(w, Front(w, u), Rest(w, u))
      BY <1>10, <3>2, CatParts, Zenon
    <3>. QED
      BY <3>2, <3>4, <3>5, Zenon
  <2>8. Len(x) = u
    BY <1>10, <1>11, <2>1, FrontBytes, Zenon
  <2>9. Len(x) = valid_up_to(s)
    BY <1>7, <2>8, Zenon
  <2>10. valid_up_to(w) = valid_up_to(s) + valid_up_to(y)
    BY <1>9, <2>7, <2>9, CatUpTo, SMTT(30)
  <2>. QED
    BY <2>6, <2>7, <2>9, <2>10, Zenon
<1>17. CASE u = 0
  <2>1. ~ is_utf8(s) /\ ~ (u > 0)
    BY <1>3, <1>4, <1>10, <1>14, <1>17
  <2>2. CharLen(s, 0) = 0
    BY <1>7, <1>10, <1>17, UpToFirst, Zenon
  <2>3. e = 0 <=> Cut(s, 0)
    BY <1>7, <1>10, <1>17, ErrorLenIs, Zenon
  <2>4. CASE e > 0
    <3>1. CharLen(w, 0) = 0 /\ ~ Cut(w, 0)
      <4>1. ~ Cut(s, 0)
        BY <2>3, <2>4
      <4>2. w = s \o b
        BY <1>9, Zenon DEF Cat
      <4>. QED
        BY <1>10, <1>12, <2>2, <4>1, <4>2, InvalidStays, Zenon
    <3>2. n <= e
      <4>1. n - 0 = n
        BY <1>3
      <4>2. PICK sh \in Shapes : n \in 1..Len(sh) /\ Matches(r, 0, sh, n)
        BY <1>2, <4>1, Zenon DEF Cut
      <4>3. n \in 0..Len(sh)
        BY <4>2
      <4>4. Joined(s, r, f) /\ f \in Seq(Byte)
        BY <1>8, CatIs, Zenon
      <4>5. Matches(s, 0, sh, n)
        BY <1>3, <1>10, <4>2, <4>4, MatchesKept, 0 \in Nat, Zenon
      <4>6. e # 0
        BY <2>4
      <4>. QED
        BY <1>7, <1>10, <1>17, <4>3, <4>5, <4>6, ErrorLenIs, Zenon
    <3>3. ~ (e - n < 0)
      BY <1>3, <1>13, <3>2
    <3>4. try_complete(r, tail) = Completed("Err", Front(s, e), tail)
      BY <1>2, <1>7, <1>17, <2>1, <2>4, <3>3, Zenon DEF try_complete
    <3>. QED
      BY <3>1, <3>4, Zenon
  <2>5. CASE e = 0
    <3>1. Cut(s, 0)
      BY <2>3, <2>5, Zenon
    <3>2. Len(s) \in 1..3
      BY <1>10, <2>2, <3>1, CutIsShort, Zenon
    <3>3. k = Len(tail)
      BY <1>3, <1>4, <1>10, <3>2 DEF BufferSize
    <3>4. f = tail
      <4>1. Front(tail, Len(tail)) = tail
        BY DEF Front
      <4>. QED
        BY <1>2, <3>3, <4>1, Zenon
    <3>5. s = w
      BY <1>7, <3>4, Zenon DEF Cat
    <3>6. ~ (e > 0)
      BY <2>5
    <3>7. try_complete(r, tail) = Completed("None", s, <<>>)
      BY <1>2, <1>7, <1>17, <2>1, <3>6, Zenon DEF try_complete
    <3>. QED
      BY <2>2, <3>1, <3>5, <3>7, Zenon
  <2>. QED
    BY <1>13, <2>4, <2>5
<1>. QED
  BY <1>11, <1>15, <1>16, <1>17

\* A text that grows is judged as the whole of it would be, wherever it is cut
\* (StringCollector::extend, Incomplete::try_complete, decode): what was sent so far
\* is collected, or it can no longer become a text; the decoder never panics.
THEOREM CollectorIsWhole ==
  ASSUME NEW text \in Seq(Byte), NEW c, Collects(text, c.data, c.incomplete),
         NEW tail \in Seq(Byte)
  PROVE  Judged(text \o tail, collector_extend(c, tail))
<1>1. PICK d, r, all, w : d = c.data /\ r = c.incomplete /\ all = text \o tail /\ w = r \o tail
  OBVIOUS
<1>2. /\ d \in Seq(Byte) /\ r \in Seq(Byte) /\ text = d \o r
      /\ Len(d) = valid_up_to(text) /\ (r # <<>> => Cut(r, 0))
  BY <1>1, Zenon DEF Collects
<1>3. Cat(text, d, r) /\ Cat(all, text, tail) /\ Cat(w, r, tail)
  BY <1>1, <1>2, Zenon DEF Cat
<1>4. Cat(all, d, w)
  BY <1>3, CatAssoc, Zenon
<1>5. valid_up_to(all) = Len(d) + valid_up_to(w)
  <2>1. Len(d) = valid_up_to(text)
    BY <1>2, Zenon
  <2>2. valid_up_to(all) = valid_up_to(text) + valid_up_to(w)
    BY <1>3, <1>4, <2>1, CatUpTo, SMTT(30)
  <2>. QED
    BY <2>1, <2>2, Zenon
<1>6. CASE r = <<>>
  <2>1. w = tail
    BY <1>1, <1>6, ConcatEmptySeq
  <2>2. collector_extend(c, tail) = ExtendDecoded(d, tail)
    BY <1>1, <1>6, Zenon DEF collector_extend
  <2>3. all = d \o tail /\ d \in Seq(Byte)
    BY <1>2, <1>4, <2>1, Zenon DEF Cat
  <2>4. valid_up_to(d \o tail) = Len(d) + valid_up_to(tail)
    BY <1>5, <2>1, <2>3, Zenon
  <2>5. Judged(d \o tail, ExtendDecoded(d, tail))
    BY <2>3, <2>4, DecodedIsWhole, Zenon
  <2>. QED
    BY <1>1, <2>2, <2>3, <2>5, Zenon
<1>7. CASE r # <<>>
  <2>1. Cut(r, 0) /\ CharLen(r, 0) = 0
    <3>1. Len(d) = valid_up_to(d \o r)
      BY <1>2, Zenon
    <3>. QED
      BY <1>2, <1>7, <3>1, DecodedUpTo, Zenon
  <2>2. PICK done : done = try_complete(r, tail)
    OBVIOUS
  <2>3. CASE \E buffer, left : /\ done = Completed("Ok", buffer, left) /\ Cat(w, buffer, left)
                               /\ valid_up_to(w) = Len(buffer) + valid_up_to(left)
    <3>1. PICK buffer, left : /\ done = Completed("Ok", buffer, left) /\ Cat(w, buffer, left)
                              /\ valid_up_to(w) = Len(buffer) + valid_up_to(left)
      BY <2>3, Zenon
    <3>2. PICK data : data = d \o buffer
      OBVIOUS
    <3>3. done.result = "Ok" /\ done.buffer = buffer /\ done.left = left
      BY <3>1 DEF Completed
    <3>4. collector_extend(c, tail) = ExtendDecoded(data, left)
      BY <1>1, <1>7, <2>2, <3>2, <3>3 DEF collector_extend
    <3>5. Cat(data, d, buffer)
      BY <1>2, <3>1, <3>2, Zenon DEF Cat
    <3>6. Cat(all, data, left)
      BY <1>4, <3>1, <3>5, CatAssoc, Zenon
    <3>7. Len(data) = Len(d) + Len(buffer) /\ left \in Seq(Byte) /\ data \in Seq(Byte)
      BY <3>1, <3>5, CatIs
    <3>8. valid_up_to(all) = Len(data) + valid_up_to(left)
      <4>1. Len(d) \in Nat /\ Len(buffer) \in Nat /\ valid_up_to(left) \in Nat
        <5>1. valid_up_to(left) \in 0..Len(left) /\ buffer \in Seq(Byte)
          BY <3>1, <3>7, CatIs, UpToIs, Zenon
        <5>. QED
          BY <1>2, <5>1
      <4>. QED
        BY <1>5, <3>1, <3>7, <4>1
    <3>9. all = data \o left
      BY <3>6, Zenon DEF Cat
    <3>10. Judged(data \o left, ExtendDecoded(data, left))
      BY <3>7, <3>8, <3>9, DecodedIsWhole, Zenon
    <3>. QED
      BY <1>1, <3>4, <3>9, <3>10, Zenon
  <2>4. ASSUME CharLen(w, 0) = 0
        PROVE  /\ Len(d) = valid_up_to(all) /\ w # <<>>
               /\ ~ is_utf8(all) /\ (error_len(all) = 0 <=> Cut(w, 0))
    <3>1. w \in Seq(Byte) /\ Len(w) = Len(r) + Len(tail)
      BY <1>3, CatIs
    <3>2. valid_up_to(w) = 0
      BY <2>4, <3>1, UpToFirst, Zenon
    <3>3. Len(d) = valid_up_to(all)
      <4>1. Len(d) \in Nat
        BY <1>2
      <4>. QED
        BY <1>5, <3>2, <4>1
    <3>4. w # <<>>
      <4>1. Len(r) \in Nat /\ Len(r) # 0 /\ Len(tail) \in Nat
        BY <1>2, <1>7
      <4>. QED
        BY <3>1, <4>1
    <3>5. all = d \o w
      BY <1>4, Zenon DEF Cat
    <3>. QED
      BY <1>2, <3>1, <3>3, <3>4, <3>5, DecodedUpTo, Zenon
  <2>5. CASE \E buffer, left : /\ done = Completed("Err", buffer, left)
                               /\ CharLen(w, 0) = 0 /\ ~ Cut(w, 0)
    <3>1. done.result = "Err"
      BY <2>5 DEF Completed
    <3>2. collector_extend(c, tail) = Collected(d, <<>>, "Utf8")
      BY <1>1, <1>7, <2>2, <3>1 DEF collector_extend
    <3>. QED
      BY <1>1, <2>4, <2>5, <3>2, JudgedInvalid, Zenon
  <2>6. CASE /\ done = Completed("None", w, <<>>)
             /\ CharLen(w, 0) = 0 /\ Cut(w, 0)
    <3>1. done.result = "None" /\ done.buffer = w
      BY <2>6 DEF Completed
    <3>2. collector_extend(c, tail) = Collected(d, w, "None")
      BY <1>1, <1>7, <2>2, <3>1 DEF collector_extend
    <3>3. Collects(all, d, w)
      BY <1>4, <2>4, <2>6, Zenon DEF Collects, Cat
    <3>. QED
      BY <1>1, <3>2, <3>3, JudgedCollected, Zenon
  <2>. QED
    BY <1>2, <1>3, <1>7, <2>1, <2>2, <2>3, <2>5, <2>6, TryCompleteIs, Zenon
<1>. QED
  BY <1>6, <1>7

-----------------------------------------------------------------------------
(* The message *)

\* What the reader keeps of the payloads sent so far.
Gathers(m, text) ==
  \/ m = NoMessage /\ text = <<>>
  \/ m.kind = "Text" /\ Collects(text, m.c.data, m.c.incomplete)
  \/ m.kind = "Binary" /\ m.c.data = text /\ m.c.incomplete = <<>>

\* Which frames may follow.
Follows(op, kind) ==
  \/ kind = "None" /\ op \in {"Text", "Binary", "Close"}
  \/ kind \in {"Text", "Binary"} /\ op = "Continue"

\* What is returned are the bytes that were sent.
Returned(out, text) ==
  /\ out.is \in {"Text", "Binary"} => out.bytes = text
  /\ out.is = "Close" => text \in {<<>>, close_payload(out.code, out.bytes)}

\* The inductive invariant: on top of what the wire holds, what the reader holds.
MessageInv ==
  /\ IInv
  /\ told \in Seq(Byte)
  /\ outcome = Pending => Gathers(incomplete, told)
  /\ frame # NoFrame /\ frame.length = Len(frame.payload) =>
       Follows(frame.header.opcode.name, incomplete.kind)
  /\ Returned(outcome, told)

LEMMA Outcomes ==
  /\ Pending.is = "Pending" /\ Pending # Failure("Utf8")
  /\ \A err : Failure(err).is = err
  /\ \A kind, bytes : Message(kind, bytes).is = kind /\ Message(kind, bytes).bytes = bytes
<1>1. Pending.is = "Pending" /\ \A err : Failure(err).is = err
  BY DEF Pending, Failure
<1>2. \A kind, bytes : Message(kind, bytes).is = kind /\ Message(kind, bytes).bytes = bytes
  BY DEF Message, Pending
<1>. QED
  BY <1>1, <1>2

LEMMA NoneIsGathered ==
  ASSUME NEW m, NEW text, Gathers(m, text), m.kind = "None"
  PROVE  m = NoMessage /\ text = <<>>
BY DEF Gathers

LEMMA EmptyCollected == Collects(<<>>, <<>>, <<>>) /\ <<>> \in Seq(Byte)
<1>1. <<>> \in Seq(Byte) /\ <<>> \o <<>> = <<>> /\ Len(<<>>) = 0
  OBVIOUS
<1>2. valid_up_to(<<>>) \in 0..0
  BY <1>1, UpToIs, Zenon
<1>3. Len(<<>>) = valid_up_to(<<>>)
  BY <1>1, <1>2
<1>. QED
  BY <1>1, <1>3, Zenon DEF Collects

LEMMA NewMessageIs ==
  ASSUME NEW kind
  PROVE  /\ NewMessage(kind).kind = kind
         /\ NewMessage(kind).c.data = <<>> /\ NewMessage(kind).c.incomplete = <<>>
BY DEF NewMessage, NewCollector

\* What a reader must make of a text: gather it, return it or refuse it.
Answers(out, m, text, final) ==
  /\ out = Pending => Gathers(m, text)
  /\ out.is = Verdict(text, final)
  /\ Returned(out, text)

\* What ReceiveData does with a fragment of a text.
Fragment(m, payload, final, out, inc) ==
  LET ext == Extended(m, payload)
      grown == [kind |-> "Text", c |-> ext.c]
  IN  /\ ext.err # "None" => out = Failure(ext.err)
      /\ ext.err = "None" /\ final => out = complete(grown)
      /\ ext.err = "None" /\ ~final => inc = grown /\ out = Pending

\* A fragment of a text, the first or a later one, that is not the whole of it.
LEMMA ReceiveFragment ==
  ASSUME NEW m, m.kind = "Text", NEW text \in Seq(Byte),
         Collects(text, m.c.data, m.c.incomplete), NEW payload \in Seq(Byte),
         NEW final \in BOOLEAN, NEW out, NEW inc, Fragment(m, payload, final, out, inc)
  PROVE  Answers(out, inc, text \o payload, final)
<1>0. SUFFICES ASSUME NEW all, all = text \o payload
              PROVE  /\ out = Pending => Gathers(inc, all)
                     /\ out.is = Verdict(all, final)
                     /\ Returned(out, all)
  BY Zenon DEF Answers
<1>. DEFINE ext == Extended(m, payload)
            grown == [kind |-> "Text", c |-> ext.c]
<1>1. ext = collector_extend(m.c, payload)
  BY DEF Extended
<1>. HIDE DEF ext
<1>2. Judged(all, ext)
  BY <1>0, <1>1, CollectorIsWhole, Zenon
<1>3. grown.kind = "Text" /\ grown.c = ext.c
  OBVIOUS
<1>4. /\ ext.err # "None" => out = Failure(ext.err)
      /\ ext.err = "None" /\ final => out = complete(grown)
      /\ ext.err = "None" /\ ~final => inc = grown /\ out = Pending
  BY DEF Fragment, ext
<1>. HIDE DEF grown
<1>5. CASE ext.err = "Utf8" /\ ~ is_utf8(all) /\ error_len(all) # 0
  <2>1. out = Failure("Utf8")
    BY <1>4, <1>5
  <2>2. out.is = "Utf8" /\ out # Pending
    BY <2>1, Outcomes, Zenon
  <2>3. Verdict(all, final) = "Utf8"
    BY <1>5 DEF Verdict
  <2>. QED
    BY <2>2, <2>3 DEF Returned
<1>6. CASE ext.err = "None" /\ Collects(all, ext.c.data, ext.c.incomplete)
  <2>1. PICK d, r : d = ext.c.data /\ r = ext.c.incomplete
    OBVIOUS
  <2>2. /\ is_utf8(all) <=> r = <<>>
        /\ r = <<>> => d = all
        /\ r # <<>> => error_len(all) = 0
    <3>1. Collects(all, d, r)
      BY <1>6, <2>1, Zenon
    <3>2. d \in Seq(Byte) /\ r \in Seq(Byte) /\ all = d \o r /\ Len(d) = valid_up_to(d \o r)
      BY <3>1, Zenon DEF Collects
    <3>3. (is_utf8(all) <=> r = <<>>) /\ (error_len(all) = 0 <=> Cut(r, 0))
      BY <3>2, DecodedUpTo, Zenon
    <3>4. r # <<>> => Cut(r, 0)
      BY <3>1, Zenon DEF Collects
    <3>5. r = <<>> => d = all
      BY <3>2, ConcatEmptySeq
    <3>. QED
      BY <3>3, <3>4, <3>5, Zenon
  <2>3. CASE ~ final
    <3>1. inc = grown /\ out = Pending
      BY <1>4, <1>6, <2>3
    <3>2. Gathers(inc, all)
      BY <1>3, <1>6, <3>1, Zenon DEF Gathers
    <3>3. Verdict(all, final) = "Pending"
      BY <2>2, <2>3, Zenon DEF Verdict
    <3>4. out.is = "Pending"
      BY <3>1, Outcomes, Zenon
    <3>. QED
      BY <3>2, <3>3, <3>4 DEF Returned
  <2>4. CASE final /\ r = <<>>
    <3>1. into_string(grown.c) = "None"
      BY <1>3, <2>1, <2>4, Zenon DEF into_string
    <3>2. out = Message("Text", d)
      <4>1. out = complete(grown)
        BY <1>4, <1>6, <2>4
      <4>. QED
        BY <1>3, <2>1, <3>1, <4>1, Zenon DEF complete
    <3>3. out.is = "Text" /\ out.bytes = all
      BY <2>2, <2>4, <3>2, Outcomes, Zenon
    <3>4. Verdict(all, final) = "Text"
      BY <2>2, <2>4, Zenon DEF Verdict
    <3>. QED
      BY <3>3, <3>4, Outcomes DEF Returned
  <2>5. CASE final /\ r # <<>>
    <3>1. into_string(grown.c) = "Utf8"
      BY <1>3, <2>1, <2>5, Zenon DEF into_string
    <3>2. out = Failure("Utf8")
      <4>1. out = complete(grown)
        BY <1>4, <1>6, <2>5
      <4>2. complete(grown) = Failure(into_string(grown.c))
        BY <1>3, <3>1 DEF complete
      <4>. QED
        BY <3>1, <4>1, <4>2, Zenon
    <3>3. out.is = "Utf8" /\ out # Pending
      BY <3>2, Outcomes, Zenon
    <3>4. Verdict(all, final) = "Utf8"
      BY <2>2, <2>5, Zenon DEF Verdict
    <3>. QED
      BY <3>3, <3>4 DEF Returned
  <2>. QED
    BY <2>3, <2>4, <2>5, Zenon
<1>. QED
  BY <1>2, <1>5, <1>6, Zenon DEF Judged

LEMMA ReceiveTextIs ==
  ASSUME outcome = Pending, Gathers(incomplete, told), told \in Seq(Byte),
         NEW h \in Header, NEW payload \in Seq(Byte),
         Follows(h.opcode.name, incomplete.kind), ReceiveData(h, payload),
         h.opcode.name = "Text" \/ incomplete.kind = "Text",
         NEW all, all = told \o payload
  PROVE  Answers(outcome', incomplete', all, h.is_final)
<1>1. PICK op, fin : op = h.opcode.name /\ fin = h.is_final
  OBVIOUS
<1>2. fin \in BOOLEAN
  BY <1>1 DEF Header
<1>3. CASE op = "Text"
  <2>1. incomplete.kind = "None"
    BY <1>1, <1>3 DEF Follows
  <2>2. incomplete = NoMessage /\ told = <<>>
    BY <2>1, NoneIsGathered, Zenon
  <2>3. all = payload
    BY <2>2
  <2>4. CASE fin
    <3>1. outcome' = IF ~is_utf8(payload) THEN Failure("Utf8") ELSE Message("Text", payload)
      BY <1>1, <1>3, <2>4 DEF ReceiveData
    <3>2. CASE is_utf8(payload)
      <4>1. outcome'.is = "Text" /\ outcome'.bytes = payload
        BY <3>1, <3>2, Outcomes, Zenon
      <4>2. Verdict(all, fin) = "Text"
        BY <2>3, <2>4, <3>2, Zenon DEF Verdict
      <4>. QED
        BY <1>1, <2>3, <4>1, <4>2, Outcomes DEF Returned, Answers
    <3>3. CASE ~ is_utf8(payload)
      <4>1. outcome'.is = "Utf8" /\ outcome' # Pending
        BY <3>1, <3>3, Outcomes, Zenon
      <4>2. Verdict(all, fin) = "Utf8"
        BY <2>3, <2>4, <3>3, Zenon DEF Verdict
      <4>. QED
        BY <1>1, <4>1, <4>2 DEF Returned, Answers
    <3>. QED
      BY <3>2, <3>3
  <2>5. CASE ~ fin
    <3>1. PICK m, out, inc : m = NewMessage("Text") /\ out = outcome' /\ inc = incomplete'
      OBVIOUS
    <3>2. Fragment(m, payload, fin, out, inc)
      BY <1>1, <1>3, <2>5, <3>1 DEF ReceiveData, Fragment
    <3>3. m.kind = "Text" /\ Collects(told, m.c.data, m.c.incomplete)
      BY <2>2, <3>1, NewMessageIs, EmptyCollected, Zenon
    <3>4. Answers(out, inc, told \o payload, fin)
      BY <1>2, <3>2, <3>3, ReceiveFragment, Zenon
    <3>. QED
      BY <1>1, <3>1, <3>4, Zenon
  <2>. QED
    BY <1>2, <2>4, <2>5
<1>4. CASE op # "Text"
  <2>1. op = "Continue" /\ incomplete.kind = "Text"
    BY <1>1, <1>4 DEF Follows
  <2>2. PICK m, out, inc : m = incomplete /\ out = outcome' /\ inc = incomplete'
    OBVIOUS
  <2>3. Fragment(m, payload, fin, out, inc)
    BY <1>1, <2>1, <2>2 DEF ReceiveData, Fragment
  <2>4. m.kind = "Text" /\ Collects(told, m.c.data, m.c.incomplete)
    <3>1. NoMessage.kind = "None"
      BY DEF NoMessage
    <3>. QED
      BY <2>1, <2>2, <3>1 DEF Gathers
  <2>5. Answers(out, inc, told \o payload, fin)
    BY <1>2, <2>3, <2>4, ReceiveFragment, Zenon
  <2>. QED
    BY <1>1, <2>2, <2>5, Zenon
<1>. QED
  BY <1>3, <1>4

LEMMA ReceiveBinaryIs ==
  ASSUME outcome = Pending, Gathers(incomplete, told), told \in Seq(Byte),
         NEW h \in Header, NEW payload \in Seq(Byte),
         Follows(h.opcode.name, incomplete.kind), ReceiveData(h, payload),
         h.opcode.name = "Binary" \/ incomplete.kind = "Binary",
         NEW all, all = told \o payload
  PROVE  /\ outcome' = Pending => Gathers(incomplete', all)
         /\ outcome'.is # "Utf8"
         /\ Returned(outcome', all)
<1>1. PICK op, fin : op = h.opcode.name /\ fin = h.is_final
  OBVIOUS
<1>2. fin \in BOOLEAN
  BY <1>1 DEF Header
<1>3. PICK m : m = IF op = "Binary" THEN NewMessage("Binary") ELSE incomplete
  OBVIOUS
<1>4. m.kind = "Binary" /\ m.c.data = told
  <2>1. CASE op = "Binary"
    <3>1. incomplete.kind = "None"
      BY <1>1, <2>1 DEF Follows
    <3>2. told = <<>>
      BY <3>1, NoneIsGathered, Zenon
    <3>. QED
      BY <1>3, <2>1, <3>2, NewMessageIs, Zenon
  <2>2. CASE op # "Binary"
    <3>1. incomplete.kind = "Binary" /\ incomplete # NoMessage
      BY <1>1, <2>2 DEF NoMessage
    <3>2. incomplete.c.data = told
      BY <3>1 DEF Gathers
    <3>. QED
      BY <1>3, <2>2, <3>1, <3>2, Zenon
  <2>. QED
    BY <2>1, <2>2
<1>5. PICK ext, grown : ext = Extended(m, payload) /\ grown = [kind |-> "Binary", c |-> ext.c]
  OBVIOUS
<1>6. ext.err = "None" /\ ext.c.data = all /\ ext.c.incomplete = <<>>
  BY <1>4, <1>5 DEF Extended, Collected
<1>7. grown.kind = "Binary" /\ grown.c = ext.c
  BY <1>5
<1>8. CASE op = "Binary" /\ fin
  <2>1. incomplete.kind = "None"
    BY <1>1, <1>8 DEF Follows
  <2>2. told = <<>>
    BY <2>1, NoneIsGathered, Zenon
  <2>3. outcome' = Message("Binary", payload)
    BY <1>1, <1>8 DEF ReceiveData
  <2>4. outcome'.is = "Binary" /\ outcome'.bytes = all
    <3>1. outcome'.is = "Binary" /\ outcome'.bytes = payload
      BY <2>3, Outcomes, Zenon
    <3>. QED
      BY <2>2, <3>1
  <2>. QED
    BY <2>4, Outcomes DEF Returned
<1>9. CASE ~ (op = "Binary" /\ fin) /\ fin
  <2>1. outcome' = complete(grown)
    <3>1. op = "Continue" /\ m = incomplete /\ incomplete.kind = "Binary"
      BY <1>1, <1>3, <1>9 DEF Follows
    <3>. QED
      BY <1>1, <1>5, <1>6, <1>9, <3>1 DEF ReceiveData
  <2>2. complete(grown) = Message("Binary", all)
    <3>1. ~ (grown.kind = "Text")
      BY <1>7
    <3>. QED
      BY <1>6, <1>7, <3>1, Zenon DEF complete
  <2>3. outcome' = Message("Binary", all)
    BY <2>1, <2>2, Zenon
  <2>4. outcome'.is = "Binary" /\ outcome'.bytes = all
    BY <2>3, Outcomes, Zenon
  <2>. QED
    BY <2>4, Outcomes DEF Returned
<1>10. CASE ~ fin
  <2>1. incomplete' = grown /\ outcome' = Pending
    <3>1. CASE op = "Binary"
      BY <1>1, <1>3, <1>5, <1>6, <1>10, <3>1 DEF ReceiveData
    <3>2. CASE op # "Binary"
      <4>1. op = "Continue" /\ m = incomplete /\ incomplete.kind = "Binary"
        BY <1>1, <1>3, <3>2 DEF Follows
      <4>. QED
        BY <1>1, <1>5, <1>6, <1>10, <4>1 DEF ReceiveData
    <3>. QED
      BY <3>1, <3>2
  <2>2. Gathers(incomplete', all)
    BY <1>6, <1>7, <2>1 DEF Gathers
  <2>3. outcome'.is = "Pending"
    BY <2>1, Outcomes, Zenon
  <2>. QED
    BY <2>2, <2>3 DEF Returned
<1>. QED
  BY <1>2, <1>8, <1>9, <1>10

\* A close code is read as it was written.
LEMMA CodeSurvives ==
  ASSUME NEW a \in Byte, NEW b \in Byte
  PROVE  be_bytes_u16(256 * a + b) = <<a, b>>
<1>. DEFINE n == 256 * a + b
<1>1. Shift1(n) = a /\ a % 256 = a /\ n % 256 = b
  BY DEF Byte, Shift1
<1>. QED
  BY <1>1 DEF be_bytes_u16

LEMMA CloseSurvives ==
  ASSUME NEW payload \in Seq(Byte), Len(payload) > 1
  PROVE  close_payload(CloseCode_from(from_be_u16(payload, 1)), Rest(payload, 2)) = payload
<1>1. PICK a, b, f : a = payload[1] /\ b = payload[2] /\ f = Front(payload, 2)
  OBVIOUS
<1>2. a \in Byte /\ b \in Byte /\ 2 \in 0..Len(payload)
  BY <1>1
<1>3. from_be_u16(payload, 1) = 256 * a + b
  <2>1. 1 + 1 = 2
    OBVIOUS
  <2>. QED
    BY <1>1, <2>1, Zenon DEF from_be_u16
<1>4. CloseCode_into(CloseCode_from(256 * a + b)) = 256 * a + b
  BY DEF CloseCode_into, CloseCode_from
<1>5. f = <<a, b>>
  <2>1. f \in Seq(Byte) /\ Len(f) = 2 /\ \A i \in 1..2 : f[i] = payload[i]
    BY <1>1, <1>2, FrontBytes, Zenon
  <2>2. f[1] = a /\ f[2] = b
    <3>1. 1 \in 1..2 /\ 2 \in 1..2
      OBVIOUS
    <3>. QED
      BY <1>1, <2>1, <3>1, Zenon
  <2>3. <<a, b>> \in Seq(Byte) /\ Len(<<a, b>>) = 2 /\ <<a, b>>[1] = a /\ <<a, b>>[2] = b
    BY <1>2
  <2>4. PICK g : g = <<a, b>>
    OBVIOUS
  <2>5. g \in Seq(Byte) /\ Len(g) = 2 /\ g[1] = a /\ g[2] = b
    BY <2>3, <2>4, Zenon
  <2>6. \A i \in 1..Len(f) : f[i] = g[i]
    BY <2>1, <2>2, <2>5
  <2>7. f = g
    BY <2>1, <2>5, <2>6, SeqEqual
  <2>. QED
    BY <2>4, <2>7
<1>6. payload = f \o Rest(payload, 2)
  BY <1>1, <1>2, FrontAndRest, Zenon
<1>7. be_bytes_u16(256 * a + b) = f
  BY <1>2, <1>5, CodeSurvives, Zenon
<1>8. close_payload(CloseCode_from(256 * a + b), Rest(payload, 2)) = f \o Rest(payload, 2)
  BY <1>4, <1>7, Zenon DEF close_payload
<1>. QED
  BY <1>3, <1>6, <1>8, Zenon

LEMMA ReceiveCloseIs ==
  ASSUME NEW payload \in Seq(Byte)
  PROVE  /\ into_close(payload) # Pending
         /\ into_close(payload).is = "Utf8" => ~ is_utf8(Rest(payload, 2))
         /\ Returned(into_close(payload), payload)
<1>1. PICK out, reason : out = into_close(payload) /\ reason = Rest(payload, 2)
  OBVIOUS
<1>2. Len(payload) \in Nat
  OBVIOUS
<1>3. CASE Len(payload) = 0
  <2>1. payload = <<>>
    BY <1>3
  <2>2. out = Message("Close", <<>>)
    BY <1>1, <1>3 DEF into_close
  <2>3. out.is = "Close"
    BY <2>2, Outcomes, Zenon
  <2>. QED
    BY <1>1, <2>1, <2>3, Outcomes DEF Returned
<1>4. CASE Len(payload) = 1
  <2>1. out = Failure("InvalidCloseSequence")
    BY <1>1, <1>4 DEF into_close
  <2>2. out.is = "InvalidCloseSequence"
    BY <2>1, Outcomes, Zenon
  <2>. QED
    BY <1>1, <2>2, Outcomes DEF Returned
<1>5. CASE Len(payload) > 1 /\ ~ is_utf8(reason)
  <2>1. out = Failure("Utf8")
    BY <1>1, <1>5 DEF into_close
  <2>2. out.is = "Utf8" /\ out # Pending
    BY <2>1, Outcomes, Zenon
  <2>. QED
    BY <1>1, <1>5, <2>2 DEF Returned
<1>6. CASE Len(payload) > 1 /\ is_utf8(reason)
  <2>1. out = [is |-> "Close", bytes |-> reason,
               code |-> CloseCode_from(from_be_u16(payload, 1))]
    <3>1. ~ (Len(payload) = 0) /\ ~ (Len(payload) = 1)
      <4>1. \A n \in Nat : n > 1 => ~ (n = 0) /\ ~ (n = 1)
        OBVIOUS
      <4>. QED
        BY <1>2, <1>6, <4>1, Zenon
    <3>2. is_utf8(Rest(payload, 2))
      BY <1>1, <1>6, Zenon
    <3>3. into_close(payload) = [is |-> "Close", bytes |-> Rest(payload, 2),
                                 code |-> CloseCode_from(from_be_u16(payload, 1))]
      BY <3>1, <3>2 DEF into_close
    <3>. QED
      BY <1>1, <3>3, Zenon
  <2>2. out.is = "Close" /\ out.bytes = reason /\ out.code = CloseCode_from(from_be_u16(payload, 1))
    BY <2>1
  <2>3. close_payload(out.code, out.bytes) = payload
    BY <1>1, <1>6, <2>2, CloseSurvives, Zenon
  <2>. QED
    BY <1>1, <2>2, <2>3, Outcomes DEF Returned
<1>7. CASE Len(payload) > 1
  BY <1>5, <1>6, <1>7
<1>8. Len(payload) = 0 \/ Len(payload) = 1 \/ Len(payload) > 1
  <2>1. \A n \in Nat : n = 0 \/ n = 1 \/ n > 1
    OBVIOUS
  <2>. QED
    BY <1>2, <2>1, Zenon
<1>. QED
  BY <1>3, <1>4, <1>7, <1>8

-----------------------------------------------------------------------------
(* What is returned *)

\* A frame is received, of whatever kind.
LEMMA ReceiveIs ==
  ASSUME outcome = Pending, Gathers(incomplete, told), told \in Seq(Byte),
         NEW h \in Header, NEW payload \in Seq(Byte),
         Follows(h.opcode.name, incomplete.kind), ReceiveFrame(h, payload),
         NEW all, all = told \o payload
  PROVE  /\ outcome' = Pending => Gathers(incomplete', all)
         /\ Returned(outcome', all)
         /\ IF h.opcode.name = "Text" \/ incomplete.kind = "Text"
              THEN outcome'.is = Verdict(all, h.is_final)
              ELSE outcome'.is = "Utf8" => ~ is_utf8(Rest(all, 2))
<1>1. PICK op, fin : op = h.opcode.name /\ fin = h.is_final
  OBVIOUS
<1>2. CASE op = "Close"
  <2>1. incomplete.kind = "None"
    BY <1>1, <1>2 DEF Follows
  <2>2. told = <<>>
    BY <2>1, NoneIsGathered, Zenon
  <2>3. all = payload
    BY <2>2
  <2>4. outcome' = into_close(all)
    BY <1>1, <1>2, <2>3, Zenon DEF ReceiveFrame
  <2>5. /\ outcome' # Pending
        /\ outcome'.is = "Utf8" => ~ is_utf8(Rest(all, 2))
        /\ Returned(outcome', all)
    BY <2>3, <2>4, ReceiveCloseIs, Zenon
  <2>6. ~ (h.opcode.name = "Text" \/ incomplete.kind = "Text")
    BY <1>1, <1>2, <2>1
  <2>. QED
    BY <2>5, <2>6, Zenon
<1>3. ASSUME op # "Close" PROVE ReceiveData(h, payload)
  BY <1>1, <1>3, Zenon DEF ReceiveFrame
<1>4. CASE op # "Close" /\ (op = "Text" \/ incomplete.kind = "Text")
  <2>1. Answers(outcome', incomplete', all, fin)
    BY <1>1, <1>3, <1>4, ReceiveTextIs, Zenon
  <2>. QED
    BY <1>1, <1>4, <2>1, Zenon DEF Answers
<1>5. CASE op # "Close" /\ ~ (op = "Text" \/ incomplete.kind = "Text")
  <2>1. op = "Binary" \/ incomplete.kind = "Binary"
    BY <1>1, <1>5 DEF Follows
  <2>2. /\ outcome' = Pending => Gathers(incomplete', all)
        /\ outcome'.is # "Utf8"
        /\ Returned(outcome', all)
    BY <1>1, <1>3, <1>5, <2>1, ReceiveBinaryIs, Zenon
  <2>. QED
    BY <1>1, <1>5, <2>2, Zenon
<1>. QED
  BY <1>2, <1>4, <1>5, Zenon

\* The invariant says what is returned.
LEMMA MessageInvIntact == MessageInv => PayloadIntact
<1>. SUFFICES ASSUME MessageInv PROVE PayloadIntact
  OBVIOUS
<1>1. ASSUME incomplete # NoMessage, outcome = Pending
      PROVE  incomplete.c.data \o incomplete.c.incomplete = told
  <2>1. Gathers(incomplete, told) /\ told \in Seq(Byte)
    BY <1>1 DEF MessageInv
  <2>2. CASE incomplete.kind = "Text" /\ Collects(told, incomplete.c.data, incomplete.c.incomplete)
    BY <2>2, Zenon DEF Collects
  <2>3. CASE incomplete.c.data = told /\ incomplete.c.incomplete = <<>>
    <3>1. told \o <<>> = told
      BY <2>1, ConcatEmptySeq
    <3>. QED
      BY <2>3, <3>1, Zenon
  <2>. QED
    BY <1>1, <2>1, <2>2, <2>3, Zenon DEF Gathers
<1>. QED
  BY <1>1, Zenon DEF PayloadIntact, MessageInv, Returned

LEMMA InitMessageInv == Init => MessageInv
<1>. SUFFICES ASSUME Init PROVE MessageInv
  OBVIOUS
<1>1. IInv
  BY InitIInv
<1>2. told = <<>> /\ incomplete = NoMessage /\ outcome = Pending /\ frame = NoFrame
  BY DEF Init
<1>3. told \in Seq(Byte) /\ Gathers(incomplete, told)
  BY <1>2 DEF Gathers
<1>4. Returned(outcome, told)
  BY <1>2, Outcomes DEF Returned
<1>. QED
  BY <1>1, <1>2, <1>3, <1>4, Zenon DEF MessageInv

\* A step that leaves the reader alone and sends what may follow.
LEMMA KeepsMessageInv ==
  ASSUME MessageInv, IInv', told' = told, incomplete' = incomplete, outcome' = outcome,
         frame' # NoFrame /\ frame'.length = Len(frame'.payload) =>
           Follows(frame'.header.opcode.name, incomplete.kind)
  PROVE  MessageInv'
<1>1. frame' # NoFrame /\ frame'.length = Len(frame'.payload) =>
        Follows(frame'.header.opcode.name, incomplete'.kind)
  BY Zenon
<1>2. told' \in Seq(Byte) /\ (outcome' = Pending => Gathers(incomplete', told'))
      /\ Returned(outcome', told')
  BY Zenon DEF MessageInv
<1>. QED
  BY <1>1, <1>2, Zenon DEF MessageInv

LEMMA SendIsPlain ==
  ASSUME NEW op, NEW fin, NEW mask, NEW payload, Send(Plain(op, fin, mask), payload)
  PROVE  /\ frame'.header.opcode.name = op
         /\ told' = told /\ incomplete' = incomplete /\ outcome' = outcome
<1>1. frame' = [header |-> Plain(op, fin, mask), length |-> Len(payload), payload |-> payload]
      /\ told' = told /\ incomplete' = incomplete /\ outcome' = outcome
  BY DEF Send
<1>2. Plain(op, fin, mask).opcode.name = op
  BY DEF Plain, Op
<1>. QED
  BY <1>1, <1>2

LEMMA SendTextMessageInv == MessageInv /\ SendText => MessageInv'
<1>. SUFFICES ASSUME MessageInv, SendText PROVE MessageInv'
  OBVIOUS
<1>1. IInv'
  BY SendTextIInv DEF MessageInv
<1>2. PICK op : op = IF incomplete.kind = "None" THEN "Text" ELSE "Continue"
  OBVIOUS
<1>3. PICK fin, mask, chunk : Send(Plain(op, fin, mask), chunk)
  BY <1>2, Zenon DEF SendText
<1>4. incomplete.kind \in {"None", "Text"}
  BY DEF SendText
<1>5. Follows(op, incomplete.kind)
  BY <1>2, <1>4 DEF Follows
<1>6. /\ frame'.header.opcode.name = op
      /\ told' = told /\ incomplete' = incomplete /\ outcome' = outcome
  BY <1>3, SendIsPlain, Zenon
<1>. QED
  BY <1>1, <1>5, <1>6, KeepsMessageInv, Zenon

LEMMA SendBinaryMessageInv == MessageInv /\ SendBinary => MessageInv'
<1>. SUFFICES ASSUME MessageInv, SendBinary PROVE MessageInv'
  OBVIOUS
<1>1. IInv'
  BY SendBinaryIInv DEF MessageInv
<1>2. PICK op : op = IF incomplete.kind = "None" THEN "Binary" ELSE "Continue"
  OBVIOUS
<1>3. PICK fin, mask, chunk : Send(Plain(op, fin, mask), chunk)
  BY <1>2, Zenon DEF SendBinary
<1>4. incomplete.kind \in {"None", "Binary"}
  BY DEF SendBinary
<1>5. Follows(op, incomplete.kind)
  BY <1>2, <1>4 DEF Follows
<1>6. /\ frame'.header.opcode.name = op
      /\ told' = told /\ incomplete' = incomplete /\ outcome' = outcome
  BY <1>3, SendIsPlain, Zenon
<1>. QED
  BY <1>1, <1>5, <1>6, KeepsMessageInv, Zenon

LEMMA SendCloseMessageInv == MessageInv /\ SendClose => MessageInv'
<1>. SUFFICES ASSUME MessageInv, SendClose PROVE MessageInv'
  OBVIOUS
<1>1. IInv'
  BY SendCloseIInv DEF MessageInv
<1>2. PICK mask \in SomeMasks, c \in CloseCodes, reason \in Reasons :
        \E payload \in {<<>>, <<c \div 256>>, close_payload(CloseCode_from(c), reason)} :
          Send(Plain("Close", TRUE, mask), payload)
  BY Zenon DEF SendClose
<1>3. PICK payload : Send(Plain("Close", TRUE, mask), payload)
  BY <1>2, Zenon
<1>4. /\ frame'.header.opcode.name = "Close"
      /\ told' = told /\ incomplete' = incomplete /\ outcome' = outcome
  BY <1>3, SendIsPlain, Zenon
<1>5. incomplete.kind = "None"
  BY DEF SendClose, NoMessage
<1>6. Follows(frame'.header.opcode.name, incomplete.kind)
  BY <1>4, <1>5 DEF Follows
<1>. QED
  BY <1>1, <1>4, <1>6, KeepsMessageInv, Zenon

LEMMA SendHeaderMessageInv == MessageInv /\ SendHeader => MessageInv'
<1>. SUFFICES ASSUME MessageInv, SendHeader PROVE MessageInv'
  OBVIOUS
<1>1. IInv'
  BY SendHeaderIInv DEF MessageInv
<1>2. \E n \in BareLengths, h \in Header : frame' = [header |-> h, length |-> n, payload |-> <<>>]
  <2>1. PICK fin \in BOOLEAN, r1 \in BOOLEAN, r2 \in BOOLEAN, r3 \in BOOLEAN, op \in OpCodes,
             mask \in SomeMasks, n \in BareLengths :
          LET h == [is_final |-> fin, rsv1 |-> r1, rsv2 |-> r2, rsv3 |-> r3,
                    opcode |-> op, mask |-> mask]
          IN  frame' = [header |-> h, length |-> n, payload |-> <<>>] /\ wire' = format(h, n)
    BY Zenon DEF SendHeader
  <2>2. PICK h : h = [is_final |-> fin, rsv1 |-> r1, rsv2 |-> r2, rsv3 |-> r3,
                      opcode |-> op, mask |-> mask]
    OBVIOUS
  <2>3. frame' = [header |-> h, length |-> n, payload |-> <<>>]
    BY <2>1, <2>2
  <2>4. h \in Header
    BY <2>2, MasksAreMasks DEF Header
  <2>. QED
    BY <2>3, <2>4, Zenon
<1>3. told' = told /\ incomplete' = incomplete /\ outcome' = outcome
  BY DEF SendHeader
<1>4. frame'.length # Len(frame'.payload)
  <2>1. PICK n \in BareLengths, h \in Header : frame' = [header |-> h, length |-> n, payload |-> <<>>]
    BY <1>2, Zenon
  <2>2. frame'.length = n /\ frame'.payload = <<>> /\ n \in 1..MaxLength
    BY <2>1, BareLengthsFit
  <2>. QED
    BY <2>2, MaxLengthAssumption
<1>. QED
  BY <1>1, <1>3, <1>4, KeepsMessageInv, Zenon

LEMMA TakeMessageInv == MessageInv /\ Take => MessageInv'
<1>. SUFFICES ASSUME MessageInv, Take PROVE MessageInv'
  OBVIOUS
<1>1. IInv
  BY DEF MessageInv
<1>2. /\ frame # NoFrame /\ outcome = Pending /\ frame.length = Len(frame.payload)
      /\ ReceiveFrame(frame.header, frame.payload)
      /\ told' = told \o frame.payload /\ frame' = NoFrame
  BY <1>1, Taken, Zenon
<1>3. frame.header \in Header /\ frame.payload \in Seq(Byte)
  BY <1>1, <1>2, Zenon DEF IInv
<1>4. Gathers(incomplete, told) /\ Follows(frame.header.opcode.name, incomplete.kind)
  BY <1>2, Zenon DEF MessageInv
<1>5. told \in Seq(Byte)
  BY DEF MessageInv
<1>6. told' \in Seq(Byte)
  BY <1>2, <1>3, <1>5, ConcatTwo, Zenon
<1>7. (outcome' = Pending => Gathers(incomplete', told')) /\ Returned(outcome', told')
  BY <1>2, <1>3, <1>4, <1>5, ReceiveIs, Zenon
<1>8. IInv'
  BY <1>1, TakeIInv
<1>. QED
  BY <1>2, <1>6, <1>7, <1>8, Zenon DEF MessageInv

LEMMA NextMessageInv == MessageInv /\ [Next]_vars => MessageInv'
<1>. SUFFICES ASSUME MessageInv, [Next]_vars PROVE MessageInv'
  OBVIOUS
<1>1. IInv
  BY DEF MessageInv
<1>2. CASE Arrive
  <2>1. IInv'
    BY <1>1, <1>2, ArriveIInv
  <2>2. frame' = frame /\ told' = told /\ incomplete' = incomplete /\ outcome' = outcome
    BY <1>2 DEF Arrive
  <2>. QED
    BY <2>1, <2>2, KeepsMessageInv, Zenon DEF MessageInv
<1>3. CASE Refuse
  <2>1. outcome' = Failure("InvalidOpcode")
        /\ UNCHANGED <<frame, wire, arrived, told, incomplete>>
    BY <1>3, Zenon DEF Refuse
  <2>2. outcome'.is = "InvalidOpcode" /\ outcome' # Pending
    <3>1. outcome'.is = "InvalidOpcode"
      BY <2>1, Outcomes, Zenon
    <3>. QED
      BY <3>1, Outcomes
  <2>3. IInv'
    <3>1. \A body : Body(body)' <=> Body(body)
      BY <2>1 DEF Body
    <3>. QED
      BY <1>1, <2>1, <3>1, Zenon DEF IInv
  <2>4. Returned(outcome', told')
    BY <2>2 DEF Returned
  <2>. QED
    BY <2>1, <2>2, <2>3, <2>4, Zenon DEF MessageInv
<1>4. CASE UNCHANGED vars
  <2>1. frame' = frame /\ wire' = wire /\ arrived' = arrived
        /\ told' = told /\ incomplete' = incomplete /\ outcome' = outcome
    BY <1>4 DEF vars
  <2>2. IInv'
    <3>1. \A body : Body(body)' <=> Body(body)
      BY <2>1 DEF Body
    <3>. QED
      BY <1>1, <2>1, <3>1, Zenon DEF IInv
  <2>. QED
    BY <2>1, <2>2, KeepsMessageInv, Zenon DEF MessageInv
<1>. QED
  BY <1>2, <1>3, <1>4, SendTextMessageInv, SendBinaryMessageInv, SendCloseMessageInv,
     SendHeaderMessageInv, TakeMessageInv, Zenon DEF Next

\* What the reader has collected, and in the end returns, are the bytes that were
\* sent, for all texts, binary payloads, close frames, masks and byte orders, and
\* wherever the message and its characters are cut.
THEOREM PayloadIsIntact == Spec => []PayloadIntact
BY InitMessageInv, NextMessageInv, MessageInvIntact, PTL DEF Spec

\* A frame that is taken is judged as the whole of what was sent.
LEMMA TakeIsJudged ==
  ASSUME MessageInv, Take
  PROVE  IF IsText THEN outcome'.is = Verdict(told', frame.header.is_final)
         ELSE outcome'.is = "Utf8" => ~ is_utf8(Rest(told', 2))
<1>1. IInv
  BY DEF MessageInv
<1>2. /\ frame # NoFrame /\ outcome = Pending /\ frame.length = Len(frame.payload)
      /\ ReceiveFrame(frame.header, frame.payload)
      /\ told' = told \o frame.payload
  BY <1>1, Taken, Zenon
<1>3. frame.header \in Header /\ frame.payload \in Seq(Byte)
  BY <1>1, <1>2, Zenon DEF IInv
<1>4. Gathers(incomplete, told) /\ Follows(frame.header.opcode.name, incomplete.kind)
  BY <1>2, Zenon DEF MessageInv
<1>5. told \in Seq(Byte)
  BY DEF MessageInv
<1>. QED
  BY <1>2, <1>3, <1>4, <1>5, ReceiveIs, Zenon DEF IsText

\* A text in fragments is judged like the whole of it, a close frame refused only for
\* its reason, for all texts and reasons and all ways to cut them.
THEOREM TextsAreJudged == Spec => JudgedAsAWhole
<1>1. ASSUME MessageInv, [Next]_vars, frame # NoFrame, frame' = NoFrame
      PROVE  Take
  <2>1. ~ CanSend
    BY <1>1 DEF CanSend
  <2>2. ~ Arrive /\ ~ Refuse /\ ~ (UNCHANGED vars)
    BY <1>1 DEF Arrive, Refuse, vars
  <2>. QED
    BY <1>1, <2>1, <2>2, Zenon DEF Next, SendText, SendBinary, SendClose, SendHeader
<1>2. MessageInv /\ [Next]_vars =>
        [frame # NoFrame /\ frame' = NoFrame =>
           IF IsText THEN outcome'.is = Verdict(told', frame.header.is_final)
           ELSE outcome'.is = "Utf8" => ~ is_utf8(Rest(told', 2))]_vars
  BY <1>1, TakeIsJudged, Zenon
<1>. QED
  BY <1>2, InitMessageInv, NextMessageInv, PTL DEF Spec, JudgedAsAWhole

=============================================================================
