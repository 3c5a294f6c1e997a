--------------------------- MODULE EndpointProofs ---------------------------
(***************************************************************************)
(* Theorems about Endpoint for every value of its constants.  Each call is *)
(* an operator of WebSocketContext, so each step of the induction is one   *)
(* lemma of ContextProofs.                                                 *)
(***************************************************************************)
EXTENDS Endpoint, ContextProofs

-----------------------------------------------------------------------------
(* Calls that write *)

\* A queued reply that is gone was put into the write buffer.
Kept(c, d) ==
  c.additional_send.op # "None" /\ d.additional_send.op = "None"
    => \E i \in (Len(c.sent) + 1)..Len(d.sent) : d.sent[i].op = c.additional_send.op

\* What the reading side keeps is left alone.
Still(c, d) ==
  /\ d.incomplete = c.incomplete /\ d.dec = c.dec
  /\ d.compressed_incomplete = c.compressed_incomplete
  /\ d.max_message_size = c.max_message_size
  /\ d.state \in {"ClosedByPeer", "CloseAcknowledged"} => d.state = c.state

\* A frame refused for want of room comes back as it was given.
Refused(c, r) ==
  r.err = "WriteBufferFull" /\ Deflate
    => ~r.msg.rsv1 /\ r.msg.op # "None" /\ r.c.enc = c.enc /\ r.c.sent = c.sent

\* The results of a call that takes no frame.
Went(c) ==
  {r \in Steps(c) :
     /\ Sound(r.c) /\ Kept(c, r.c) /\ Still(c, r.c) /\ Refused(c, r)
     /\ r.err # "Loop"
     /\ r.err = "ConnectionClosed" => ~can_read(c)}

\* A call that does not meet the end of the stream ends only what was closed.
Wrote(c) == {r \in Went(c) : r.c.state = "Terminated" => ~can_read(c)}

LEMMA KeptReplied ==
  ASSUME NEW c \in Context, NEW d \in Context, Replied(c, d) PROVE Kept(c, d)
<1> DEFINE f == c.additional_send
           g == Masked(c, f)
<1>1. f \in Frame /\ c.sent \in Seq(Frame) /\ Len(c.sent) \in Nat
  BY ContextFields
<1>2. g \in Frame /\ g.op = f.op
  BY <1>1, MaskedType
<1>3. CASE d.additional_send \in {f, g}
  BY <1>2, <1>3 DEF Kept
<1>4. CASE d.sent = Append(c.sent, g)
  <2>1. Len(d.sent) = Len(c.sent) + 1 /\ d.sent[Len(c.sent) + 1] = g
    BY <1>1, <1>2, <1>4, OneMore
  <2> QED BY <1>1, <1>2, <2>1 DEF Kept
<1> QED BY <1>3, <1>4 DEF Replied

LEMMA KeptAppended ==
  ASSUME NEW c \in Context, NEW f \in Frame, NEW b \in Context, NEW d \in Context,
         Appended(c, f, b), Replied(b, d)
  PROVE  Kept(c, d)
<1>1. Kept(b, d)
  BY KeptReplied
<1>2. b.additional_send = c.additional_send /\ Len(b.sent) = Len(c.sent) + 1
  BY ContextFields, MaskedType, OneMore DEF Appended
<1>3. Len(c.sent) \in Nat
  BY ContextFields
<1> QED BY <1>1, <1>2, <1>3 DEF Kept

LEMMA QuietWrote ==
  ASSUME NEW c \in Context, Sound(c) PROVE Quiet(c) \subseteq Wrote(c)
<1> SUFFICES ASSUME NEW r \in Quiet(c) PROVE r \in Wrote(c)
  OBVIOUS
<1>1. r \in Steps(c) /\ Replied(c, r.c) /\ MayEnd(c, r.c) /\ r.c \in Context
  BY Returned DEF Quiet
<1>2. Sound(r.c) /\ Kept(c, r.c)
  BY <1>1, SoundReplied, KeptReplied
<1>3. Still(c, r.c) /\ (can_read(c) => r.c.state # "Terminated")
  BY <1>1 DEF Still, Replied, Same, MayEnd, can_read
<1> QED BY <1>1, <1>2, <1>3 DEF Quiet, MayReport, Wrote, Went, Refused

LEMMA FlushWrote ==
  ASSUME NEW c, Good(c), Sound(c) PROVE flush(c) \subseteq Wrote(c)
<1>1. c \in Context
  BY DEF Good
<1> QED BY <1>1, FlushQuiet, QuietWrote

\* A call that sends f from b, where b is c but for its state and its encoder.
LEMMA LoudWrote ==
  ASSUME NEW c \in Context, NEW b \in Context, NEW f \in Frame,
         Follows(c, b), Still(c, b), Sound(b) \/ can_buffer(b, FrameLen(Masked(b, f))),
         b.additional_send = c.additional_send, b.sent = c.sent,
         Queued(b), ~HasClose(b.sent), b.additional_send.op # "Close",
         b.state = "ClosedByUs" \/ (b.state = "Active" /\ f.op # "Close"),
         Deflate => b.enc = Accepted(b, Masked(b, f)),
         Deflate /\ ~can_buffer(b, FrameLen(Masked(b, f)))
           => ~f.rsv1 /\ f.op # "None" /\ b.enc = c.enc,
         can_read(c)
  PROVE  Loud(b, f) \subseteq Wrote(c)
<1> SUFFICES ASSUME NEW r \in Loud(b, f) PROVE r \in Wrote(c)
  OBVIOUS
<1>1. r \in Steps(c) /\ r.c \in Context
  BY StepsTransitive, Returned DEF Loud
<1>2. CASE r = WriteBufferFull(b, Masked(b, f)) /\ ~can_buffer(b, FrameLen(Masked(b, f)))
  <2>1. r.c = b /\ r.msg = Masked(b, f) /\ r.err = "WriteBufferFull"
    BY <1>2 DEF WriteBufferFull, Res
  <2>2. Refused(c, r)
    BY <1>2, <2>1, MaskedType DEF Refused
  <2> QED BY <1>1, <1>2, <2>1, <2>2 DEF Wrote, Went, Kept
<1>3. CASE ~(r = WriteBufferFull(b, Masked(b, f)) /\ ~can_buffer(b, FrameLen(Masked(b, f))))
  <2>1. PICK d \in Context : Appended(b, f, d) /\ Replied(d, r.c)
    BY <1>3 DEF Loud
  <2>2. /\ MayEnd(b, r.c) /\ r.err \notin {"WriteBufferFull", "Loop"}
        /\ r.err = "ConnectionClosed" => ~can_read(b)
    BY <1>3 DEF Loud, MayReport
  <2>3. can_read(b)
    BY DEF can_read
  <2>4. Sound(d)
    BY <2>1, SoundAppended
  <2>5. MayEnd(d, r.c) /\ r.c.state = b.state
    BY <2>1, <2>2, <2>3 DEF MayEnd, Appended
  <2>6. Sound(r.c)
    BY <1>1, <2>1, <2>4, <2>5, SoundReplied
  <2>7. Kept(b, r.c)
    BY <1>1, <2>1, KeptAppended
  <2>8. Still(c, r.c)
    BY <2>1, <2>5 DEF Still, Appended, Replied, Same
  <2> QED BY <1>1, <2>2, <2>3, <2>5, <2>6, <2>7, <2>8 DEF Wrote, Went, Kept, Refused
<1> QED BY <1>2, <1>3

\* The encoder moved, and nothing else.
Encoded(c, d) ==
  /\ d.role = c.role /\ d.state = c.state /\ d.out_buffer = c.out_buffer
  /\ d.max_out_buffer_len = c.max_out_buffer_len
  /\ d.additional_send = c.additional_send /\ d.sent = c.sent
  /\ d.incomplete = c.incomplete /\ d.dec = c.dec
  /\ d.compressed_incomplete = c.compressed_incomplete
  /\ d.max_message_size = c.max_message_size

LEMMA ResetEncoded ==
  ASSUME NEW c \in Context
  PROVE  Encoded(c, reset_encoder(c)) /\ reset_encoder(c).enc = 0 /\ reset_encoder(c).acc = 0
BY DEF Encoded, reset_encoder, Context

\* wire_size counts the mask that buffer_frame is going to add.
LEMMA MaskedFits ==
  ASSUME NEW c \in Context, NEW f \in Frame, can_buffer(c, wire_size(c, f))
  PROVE  can_buffer(c, FrameLen(Masked(c, f)))
<1> DEFINE g == Masked(c, f)
<1>1. /\ g \in Frame /\ g.len = f.len /\ f.len \in Nat
      /\ Len(c.out_buffer) \in Nat /\ c.max_out_buffer_len \in Nat
  BY MaskedType, ContextFields DEF Frame
<1> DEFINE a == IF f.masked THEN MaskLen ELSE 0
           b == IF g.masked THEN MaskLen ELSE 0
           k == IF c.role = "Client" THEN MaskLen ELSE 0
<1>2. a \in {0, MaskLen} /\ k \in {0, MaskLen} /\ (b = 0 \/ b = a \/ b = k)
  BY Zenon DEF Masked, Frame
<1>3. FrameLen(g) = HeaderLen + b + f.len /\ wire_size(c, f) = HeaderLen + a + f.len + k
  BY <1>1 DEF FrameLen, wire_size
<1> HIDE DEF a, b, k, g
<1>4. /\ FrameLen(g) \in Nat /\ wire_size(c, f) \in Nat
      /\ FrameLen(g) <= wire_size(c, f)
  <2>1. a \in Nat /\ b \in Nat /\ k \in Nat /\ HeaderLen \in Nat /\ f.len \in Nat
    BY <1>1, <1>2, HeaderLenAssumption, MaskLenAssumption
  <2>2. b <= a + k
    BY <1>2, <2>1
  <2> QED BY <1>3, <2>1, <2>2
<1> QED BY <1>1, <1>4 DEF can_buffer, g

\* A compressed message that is sent puts the two windows in step again.
LEMMA CompressSent ==
  ASSUME NEW c \in Context, NEW f \in Frame, f.plain = f.len, c.enc = c.acc,
         NEW r \in compress(c, f)
  PROVE  /\ Encoded(c, r.c) /\ r.err \in {"None", "Compression"}
         /\ r.err = "None" => /\ r.msg.op = f.op
                              /\ Deflate => r.c.enc = Accepted(r.c, Masked(r.c, r.msg))
<1> DEFINE e == [c EXCEPT !.enc = @ + 1]
           k == reset_encoder(c)
<1>1. Encoded(c, k) /\ k.enc = k.acc /\ k.role = c.role
  BY ResetEncoded DEF Encoded
<1>2. Encoded(c, e) /\ e.enc = e.acc + 1 /\ e.role = c.role
  BY DEF Encoded, Context
<1>3. Encoded(c, c)
  BY DEF Encoded
<1>4. \/ r = Err(e, "Compression")
      \/ f.len = 0 /\ r = Value(c, Compressed(f, 1))
      \/ \E n \in Nat : /\ f.len # 0 /\ NoContextTakeover[c.role]
                        /\ r = Value(k, Compressed(f, n))
      \/ \E n \in Nat : /\ f.len # 0 /\ ~NoContextTakeover[c.role]
                        /\ r = Value(e, Compressed(f, n))
  BY CompressedSizesAssumption DEF compress
<1> HIDE DEF e, k
<1>5. ASSUME NEW n \in Nat, NEW d
      PROVE  /\ Masked(d, Compressed(f, n)).rsv1
             /\ Masked(d, Compressed(f, n)).plain = f.len
             /\ Compressed(f, n).op = f.op
  <2> DEFINE h == Compressed(f, n)
  <2>1. h \in Frame /\ h.rsv1 /\ h.plain = f.len /\ h.op = f.op
    <3>1. h \in Frame
      BY FrameTypes
    <3>2. h.rsv1
      BY Zenon DEF Compressed, Frame
    <3>3. h.plain = f.len /\ h.op = f.op
      BY DEF Compressed, Frame
    <3> QED BY <3>1, <3>2, <3>3
  <2> HIDE DEF h
  <2>2. Masked(d, h).rsv1 /\ Masked(d, h).plain = f.len
    BY <2>1, MaskedType
  <2> QED BY <2>1, <2>2 DEF h
<1>6. f.len \in Nat
  BY DEF Frame
<1>7. CASE r = Err(e, "Compression")
  BY <1>2, <1>7 DEF Err, Res
<1>8. CASE f.len = 0 /\ r = Value(c, Compressed(f, 1))
  BY <1>3, <1>5, <1>8 DEF Value, Res, Accepted
<1>9. ASSUME NEW n \in Nat, NoContextTakeover[c.role], r = Value(k, Compressed(f, n))
      PROVE  Encoded(c, r.c) /\ r.err = "None" /\ r.msg.op = f.op
             /\ r.c.enc = Accepted(r.c, Masked(r.c, r.msg))
  BY <1>1, <1>5, <1>9 DEF Value, Res, Accepted
<1>10. ASSUME NEW n \in Nat, f.len # 0, ~NoContextTakeover[c.role],
              r = Value(e, Compressed(f, n))
       PROVE  Encoded(c, r.c) /\ r.err = "None" /\ r.msg.op = f.op
              /\ (Deflate => r.c.enc = Accepted(r.c, Masked(r.c, r.msg)))
  BY <1>2, <1>5, <1>6, <1>10 DEF Value, Res, Accepted
<1> QED BY <1>4, <1>7, <1>8, <1>9, <1>10

\* A data message is refused or given up with the encoder in step, or it is
\* ready to be buffered and fits.
LEMMA PrepareSent ==
  ASSUME NEW c, Good(c), Sound(c), NEW f \in Frame, f.plain = f.len, ~f.rsv1,
         f.op \in {"Text", "Binary"}, NEW p \in prepare_data(c, f)
  PROVE  /\ p \in Steps(c) /\ Encoded(c, p.c)
         /\ \/ /\ p.err = "None" /\ p.msg.op = f.op
               /\ Deflate => /\ p.c.enc = Accepted(p.c, Masked(p.c, p.msg))
                             /\ can_buffer(p.c, FrameLen(Masked(p.c, p.msg)))
               /\ ~Deflate => p.c = c
            \/ Deflate /\ p = WriteBufferFull(c, f)
            \/ Deflate /\ p.err = "Compression" /\ p.c.enc = p.c.acc
<1>1. c \in Context /\ p \in Steps(c) /\ Encoded(c, c)
  BY PrepareGood DEF Good, Encoded
<1>2. CASE ~Deflate
  <2>1. p = Value(c, f)
    BY <1>2 DEF prepare_data
  <2> QED BY <1>1, <1>2, <2>1 DEF Value, Res
<1>3. CASE Deflate /\ ~can_buffer(c, wire_size(c, f))
  <2>1. p = WriteBufferFull(c, f)
    BY <1>3 DEF prepare_data
  <2> QED BY <1>1, <1>3, <2>1 DEF WriteBufferFull, Res
<1>4. CASE Deflate /\ can_buffer(c, wire_size(c, f))
  <2>1. PICK r \in compress(c, f) :
          p = CASE r.err # "None" -> Err(reset_encoder(r.c), r.err)
                [] r.err = "None" /\ can_buffer(r.c, wire_size(r.c, r.msg)) -> r
                [] OTHER -> Value(reset_encoder(r.c), f)
    BY <1>4 DEF prepare_data
  <2>2. /\ Encoded(c, r.c) /\ r.err \in {"None", "Compression"} /\ r.c \in Context
        /\ r.err = "None" => /\ r.msg.op = f.op
                             /\ r.c.enc = Accepted(r.c, Masked(r.c, r.msg))
        /\ r.msg \in Frame
    BY <1>1, <1>4, CompressSent, CompressGood, Returned DEF Sound
  <2> DEFINE k == reset_encoder(r.c)
  <2>3. Encoded(r.c, k) /\ k.enc = 0 /\ k.acc = 0
    BY <2>2, ResetEncoded
  <2>4. Encoded(c, k)
    BY <2>2, <2>3 DEF Encoded
  <2> HIDE DEF k
  <2>5. CASE r.err # "None"
    <3>1. p = Err(k, "Compression")
      BY <2>1, <2>2, <2>5 DEF k
    <3> QED BY <1>1, <1>4, <2>3, <2>4, <3>1 DEF Err, Res
  <2>6. CASE r.err = "None" /\ can_buffer(r.c, wire_size(r.c, r.msg))
    BY <1>1, <1>4, <2>1, <2>2, <2>6, MaskedFits
  <2>7. CASE r.err = "None" /\ ~can_buffer(r.c, wire_size(r.c, r.msg))
    <3>1. p = Value(k, f)
      BY <2>1, <2>7 DEF k
    <3>2. p.c = k /\ p.msg = f /\ p.err = "None" /\ k \in Context
      BY <1>1, <3>1, Returned DEF Value, Res
    <3>3. can_buffer(k, FrameLen(Masked(k, f)))
      BY <1>4, <2>4, <3>2, MaskedFits DEF Encoded, can_buffer, wire_size
    <3>4. k.enc = Accepted(k, Masked(k, f))
      BY <2>3, MaskedType DEF Accepted
    <3> QED BY <1>1, <1>4, <2>4, <3>2, <3>3, <3>4
  <2> QED BY <2>5, <2>6, <2>7
<1> QED BY <1>2, <1>3, <1>4

LEMMA ErrWrote ==
  ASSUME NEW c, Good(c), Sound(c), NEW e \in Error,
         e \notin {"None", "Loop", "ConnectionClosed", "WriteBufferFull"}
  PROVE  Err(c, e) \in Wrote(c)
<1>1. Err(c, e) \in Steps(c)
  BY FollowsReflexive, Returns DEF Good
<1>2. Err(c, e).c = c /\ Err(c, e).err = e
  BY DEF Err, Res
<1> HIDE DEF Err
<1> QED BY <1>1, <1>2 DEF Wrote, Went, Kept, Still, Refused, can_read

\* `close` of an active connection moves the state before it writes.
LEMMA CloseWrote ==
  ASSUME NEW c, Good(c), Sound(c), NEW f \in Frame, f.op = "Close", ~f.rsv1
  PROVE  close(c, f) \subseteq Wrote(c)
<1>1. c \in Context /\ f # NoFrame
  BY NoFrameFields DEF Good
<1>2. CASE ~is_active(c)
  BY <1>2, FlushWrote DEF close
<1>3. CASE is_active(c)
  <2> DEFINE d == [c EXCEPT !.state = "ClosedByUs"]
  <2>1. Good(d) /\ Follows(c, d) /\ close(c, f) \subseteq Loud(d, f)
    BY <1>1, <1>3, CloseLoud
  <2>2. /\ d.additional_send = c.additional_send /\ d.sent = c.sent /\ d.role = c.role
        /\ d.enc = c.enc /\ d.acc = c.acc /\ Still(c, d) /\ d.state = "ClosedByUs"
    BY <1>1 DEF Context, Still
  <2> HIDE DEF d
  <2>3. d \in Context
    BY <2>1 DEF Good
  <2>4. Queued(c) /\ ~HasClose(c.sent) /\ c.additional_send.op # "Close" /\ can_read(c)
    BY <1>1, <1>3, ActiveSound
  <2>5. Queued(d) /\ ~HasClose(d.sent) /\ Sound(d)
    BY <2>2, <2>4 DEF Sound, Queued, ClosesOnce, ReplyOwed
  <2>6. Deflate => d.enc = Accepted(d, Masked(d, f))
    BY <2>2, MaskedType DEF Sound, Accepted
  <2>7. Loud(d, f) \subseteq Wrote(c)
    BY <1>1, <2>1, <2>2, <2>3, <2>4, <2>5, <2>6, LoudWrote
  <2> QED BY <2>1, <2>7
<1> QED BY <1>2, <1>3

\* A ping, or a frame of the application's own.
LEMMA WriteFrameWrote ==
  ASSUME NEW c, Good(c), Sound(c), is_active(c), NEW f \in Frame,
         f.op \notin {"None", "Close"}, Deflate => ~f.rsv1
  PROVE  WriteAndFlush(c, f) \subseteq Wrote(c)
<1>1. c \in Context /\ Follows(c, c) /\ f # NoFrame
  BY FollowsReflexive, NoFrameFields DEF Good
<1>2. Queued(c) /\ ~HasClose(c.sent) /\ c.additional_send.op # "Close" /\ can_read(c)
      /\ c.state = "Active"
  BY <1>1, ActiveSound
<1>3. Deflate => c.enc = Accepted(c, Masked(c, f))
  BY MaskedType DEF Sound, Accepted
<1>4. Loud(c, f) \subseteq Wrote(c)
  BY <1>1, <1>2, <1>3, LoudWrote DEF Still
<1> QED BY <1>1, <1>4, WriteAndFlushLoud

LEMMA WriteDataWrote ==
  ASSUME NEW c, Good(c), Sound(c), is_active(c), NEW f \in Frame,
         f.op \in {"Text", "Binary"}, ~f.rsv1, f.plain = f.len
  PROVE  Then(prepare_data(c, f), LAMBDA p : WriteAndFlush(p.c, p.msg)) \subseteq Wrote(c)
<1>1. c \in Context
  BY DEF Good
<1>2. Queued(c) /\ ~HasClose(c.sent) /\ c.additional_send.op # "Close" /\ can_read(c)
      /\ c.state = "Active"
  BY <1>1, ActiveSound
<1>3. ASSUME NEW p \in prepare_data(c, f), p.err # "None" PROVE p \in Wrote(c)
  <2>1. /\ p \in Steps(c) /\ Encoded(c, p.c) /\ Deflate
        /\ p = WriteBufferFull(c, f) \/ (p.err = "Compression" /\ p.c.enc = p.c.acc)
    BY <1>3, PrepareSent
  <2>2. Kept(c, p.c) /\ Still(c, p.c) /\ p.c.state # "Terminated"
    BY <1>2, <2>1 DEF Encoded, Kept, Still
  <2>3. CASE p = WriteBufferFull(c, f)
    <3>1. p.c = c /\ p.msg = f /\ p.err = "WriteBufferFull"
      BY <2>3 DEF WriteBufferFull, Res
    <3> QED BY <2>1, <2>2, <3>1 DEF Wrote, Went, Refused
  <2>4. CASE p.err = "Compression" /\ p.c.enc = p.c.acc
    <3>1. Sound(p.c)
      BY <2>1, <2>4 DEF Sound, Encoded, Queued, ClosesOnce, ReplyOwed
    <3> QED BY <2>1, <2>2, <2>4, <3>1 DEF Wrote, Went, Refused
  <2> QED BY <2>1, <2>3, <2>4
<1>4. ASSUME NEW p \in prepare_data(c, f), p.err = "None"
      PROVE  WriteAndFlush(p.c, p.msg) \subseteq Wrote(c)
  <2> DEFINE b == p.c
             g == p.msg
  <2>1. /\ p \in Steps(c) /\ Encoded(c, b) /\ g.op = f.op
        /\ Deflate => /\ b.enc = Accepted(b, Masked(b, g))
                      /\ can_buffer(b, FrameLen(Masked(b, g)))
        /\ ~Deflate => b = c
    BY <1>4, PrepareSent DEF WriteBufferFull, Res
  <2>2. Good(b) /\ b \in Context /\ Follows(c, b) /\ g \in Frame /\ g # NoFrame
    BY <1>1, <2>1, Returned, NoFrameFields
  <2> HIDE DEF b, g
  <2>3. Still(c, b) /\ b.state = "Active" /\ Queued(b) /\ ~HasClose(b.sent)
        /\ b.additional_send = c.additional_send /\ b.sent = c.sent
    BY <1>2, <2>1 DEF Encoded, Still, Queued
  <2>4. Sound(b) \/ can_buffer(b, FrameLen(Masked(b, g)))
    BY <2>1, DeflateAssumption
  <2>5. Loud(b, g) \subseteq Wrote(c)
    BY <1>1, <1>2, <2>1, <2>2, <2>3, <2>4, LoudWrote
  <2>6. WriteAndFlush(b, g) \subseteq Loud(b, g)
    BY <2>2, WriteAndFlushLoud
  <2> QED BY <2>5, <2>6 DEF b, g
<1> QED BY <1>3, <1>4 DEF Then

\* A pong of the application's own takes the place of the one that is queued.
LEMMA WritePongWrote ==
  ASSUME NEW c, Good(c), Sound(c), is_active(c), NEW f \in Frame, f.op = "Pong", ~f.rsv1
  PROVE  Then(_write(set_additional(c, f), NoFrame), LAMBDA r : {Ok(r.c)}) \subseteq Wrote(c)
<1>1. c \in Context
  BY DEF Good
<1>2. Queued(c) /\ ~HasClose(c.sent) /\ c.additional_send.op \in {"None", "Pong"}
      /\ can_read(c) /\ c.state = "Active"
  BY <1>1, ActiveSound
<1> DEFINE d == set_additional(c, f)
<1>3. Good(d) /\ Follows(c, d) /\ d = [c EXCEPT !.additional_send = f]
  BY <1>2, SetAdditional DEF set_additional
<1>4. /\ d.additional_send = f /\ d.sent = c.sent /\ d.enc = c.enc /\ d.acc = c.acc
      /\ d.state = c.state /\ Still(c, d)
  BY <1>1, <1>3 DEF Still, Context
<1> HIDE DEF d
<1>5. d \in Context /\ Sound(d)
  BY <1>2, <1>3, <1>4 DEF Good, Sound, Queued, ClosesOnce, ReplyOwed
<1>6. ASSUME NEW r \in _write(d, NoFrame) PROVE r \in Wrote(c)
  <2>1. r \in Quiet(d) /\ r \in Wrote(d)
    BY <1>3, <1>5, UnderscoreWriteQuiet, QuietWrote
  <2>2. r \in Steps(c) /\ Sound(r.c) /\ Still(c, r.c)
    BY <1>1, <1>3, <1>4, <1>5, <2>1, StepsTransitive DEF Wrote, Went, Still
  <2>3. Kept(c, r.c) /\ r.c.state # "Terminated"
    BY <1>2, <1>4, <2>1 DEF Wrote, Went, Kept, Quiet, MayEnd, can_read
  <2> QED BY <1>2, <1>4, <2>1, <2>2, <2>3 DEF Quiet, MayReport, Wrote, Went, Refused, can_read
<1>7. ASSUME NEW r \in _write(d, NoFrame) PROVE Ok(r.c) \in Wrote(c)
  <2>1. r \in Wrote(c) /\ Good(r.c) /\ Follows(c, r.c) /\ r.c.state # "Terminated"
    <3>1. r \in Quiet(d)
      BY <1>3, <1>5, <1>7, UnderscoreWriteQuiet
    <3> QED BY <1>1, <1>2, <1>4, <1>6, <1>7, <3>1, Returned DEF Wrote, Went, Quiet, MayEnd, can_read
  <2>2. Ok(r.c) \in Steps(c) /\ Ok(r.c).c = r.c /\ Ok(r.c).err = "None"
    BY <2>1, Returns DEF Ok, Res
  <2> QED BY <2>1, <2>2 DEF Wrote, Went, Refused
<1> QED BY <1>6, <1>7 DEF Then, d

LEMMA WriteWrote ==
  ASSUME NEW c, Good(c), Sound(c), NEW m \in Messages PROVE write(c, m) \subseteq Wrote(c)
<1>1. /\ m.kind \in {"Text", "Binary", "Ping", "Pong", "Close", "Frame"}
      /\ m.frame \in Frame /\ m.frame.op # "None"
      /\ m.kind # "Frame" => m.frame.op = m.kind /\ ~m.frame.rsv1 /\ m.frame.plain = m.frame.len
      /\ m.kind = "Frame" => m.frame.op # "Close"
  BY MessageAssumption
<1>2. /\ Err(c, "AlreadyClosed") \in Wrote(c) /\ Err(c, "SendAfterClosing") \in Wrote(c)
      /\ Err(c, "NonZeroReservedBits") \in Wrote(c)
  BY ErrWrote DEF Error
<1> DEFINE data == Then(prepare_data(c, m.frame), LAMBDA p : WriteAndFlush(p.c, p.msg))
           pong == Then(_write(set_additional(c, m.frame), NoFrame), LAMBDA r : {Ok(r.c)})
<1>3. ASSUME is_active(c), m.kind \in {"Text", "Binary"} PROVE data \subseteq Wrote(c)
  BY <1>1, <1>3, WriteDataWrote
<1>4. is_active(c) /\ (m.kind = "Ping" \/ (m.kind = "Frame" /\ ~(m.frame.rsv1 /\ Deflate)))
        => WriteAndFlush(c, m.frame) \subseteq Wrote(c)
  BY <1>1, WriteFrameWrote
<1>5. ASSUME is_active(c), m.kind = "Pong" PROVE pong \subseteq Wrote(c)
  <2>1. m.frame \in Frame /\ m.frame.op = "Pong" /\ ~m.frame.rsv1
    BY <1>1, <1>5
  <2> HIDE <1>1
  <2> QED BY <1>5, <2>1, WritePongWrote, Zenon
<1>6. m.kind = "Close" => close(c, m.frame) \subseteq Wrote(c)
  BY <1>1, CloseWrote
<1>7. write(c, m) =
        CASE c.state = "Terminated" -> {Err(c, "AlreadyClosed")}
          [] c.state # "Terminated" /\ ~is_active(c) -> {Err(c, "SendAfterClosing")}
          [] is_active(c) /\ m.kind \in {"Text", "Binary"} -> data
          [] is_active(c) /\ m.kind = "Ping" -> WriteAndFlush(c, m.frame)
          [] is_active(c) /\ m.kind = "Pong" -> pong
          [] is_active(c) /\ m.kind = "Close" -> close(c, m.frame)
          [] is_active(c) /\ m.kind = "Frame" ->
               IF m.frame.rsv1 /\ Deflate
                 THEN {Err(c, "NonZeroReservedBits")} ELSE WriteAndFlush(c, m.frame)
  BY DEF write, Then
<1> HIDE DEF data, pong
<1> QED BY <1>1, <1>2, <1>3, <1>4, <1>5, <1>6, <1>7 DEF is_active

-----------------------------------------------------------------------------
(* Frames that are read *)

\* What no data frame touches.
Rest(c, d) ==
  /\ d.role = c.role /\ d.sent = c.sent /\ d.enc = c.enc /\ d.acc = c.acc
  /\ d.max_message_size = c.max_message_size
  /\ d.additional_send = c.additional_send

\* A message that is being assembled has a type.
Assembling(c) == c.incomplete.op = "None" => c.incomplete = NoMessage

\* f begins a message while there is none, or goes on with the one there is.
Owns(c, f) == (f.op = "Continue") = (c.incomplete # NoMessage)

OpAfter(c, f) == IF f.op = "Continue" THEN c.incomplete.op ELSE f.op
LenAfter(c, f) == IF f.op = "Continue" THEN c.incomplete.len + f.len ELSE f.len

\* What ReceiveData(c, f) may do.
Assembled(c, f, q) ==
  /\ Rest(c, q.c) /\ q.c.state = c.state /\ q.c.dec = c.dec
  /\ q.c.compressed_incomplete = c.compressed_incomplete
  /\ q.c.compression_unusable = c.compression_unusable
  /\ Assembling(q.c)
  /\ q.err \notin {"ConnectionClosed", "WriteBufferFull"}
  /\ q.err \in {"None", "Loop"} => Owns(c, f)
  /\ q.err = "None" =>
       /\ f.fin /\ q.c.incomplete = NoMessage
       /\ q.msg = Message(OpAfter(c, f), LenAfter(c, f))
       /\ LenAfter(c, f) <= c.max_message_size
  /\ q.err = "Loop" =>
       /\ ~f.fin /\ q.c.incomplete # NoMessage
       /\ q.c.incomplete.op = OpAfter(c, f) /\ q.c.incomplete.len = LenAfter(c, f)
  /\ q.err \notin {"None", "Loop"} =>
       /\ f.op # "Continue" => q.c.incomplete = c.incomplete
       /\ q.c.incomplete # NoMessage => c.incomplete # NoMessage

LEMMA ExtendLength ==
  ASSUME NEW m \in Incomplete, NEW f \in Frame, NEW max_size \in Nat,
         NEW x \in extend(m, f, max_size), x.err = "None"
  PROVE  x.m.len = m.len + f.len /\ x.m.len <= max_size
<1>1. m.len \in Nat /\ f.len \in Nat
  BY DEF Incomplete, Frame
<1>2. /\ ~(m.len > max_size \/ f.len > max_size - m.len)
      /\ ~(m.op = "Text" /\ ~Utf8Continues(m.cut, f))
  <2>1. ASSUME m.len > max_size \/ f.len > max_size - m.len PROVE FALSE
    <3>1. x = [m |-> m, err |-> "MessageTooLong"]
      BY <2>1, Zenon DEF extend
    <3> QED BY <3>1
  <2>2. ASSUME ~(m.len > max_size \/ f.len > max_size - m.len),
               m.op = "Text" /\ ~Utf8Continues(m.cut, f)
        PROVE  FALSE
    <3> DEFINE S == (IF m.cut THEN 0 ELSE m.len)..(m.len + f.len)
               U(n) == [m |-> [m EXCEPT !.len = n, !.cut = FALSE], err |-> "Utf8"]
    <3>1. x \in {U(n) : n \in S}
      BY <2>2, Zenon DEF extend
    <3>2. \A n : U(n).err = "Utf8"
      OBVIOUS
    <3> HIDE DEF S, U
    <3> QED BY <3>1, <3>2
  <2> QED BY <2>1, <2>2
<1> DEFINE n == m.len + f.len
           b == IF f.len = 0 THEN m.cut ELSE m.op = "Text" /\ f.utf8 \in {"cut", "mid"}
<1>3. x = [m |-> [m EXCEPT !.len = n, !.cut = b], err |-> "None"]
  BY <1>2, Zenon DEF extend
<1> HIDE DEF b
<1>4. x.m.len = n
  BY <1>3 DEF Incomplete
<1> QED BY <1>1, <1>2, <1>4

\* Replacing the message that is being assembled.
LEMMA AssembleRest ==
  ASSUME NEW c \in Context, NEW m
  PROVE  LET d == [c EXCEPT !.incomplete = m]
         IN  /\ Rest(c, d) /\ d.state = c.state /\ d.dec = c.dec /\ d.incomplete = m
             /\ d.compressed_incomplete = c.compressed_incomplete
             /\ d.compression_unusable = c.compression_unusable
BY DEF Rest, Context

LEMMA ReceiveDataAssembles ==
  ASSUME NEW c \in Context, Assembling(c), NEW f \in Frame, IsData(f),
         NEW q \in ReceiveData(c, f)
  PROVE  Assembled(c, f, q)
<1>1. /\ c.incomplete \in Incomplete /\ c.max_message_size \in Nat /\ f.len \in Nat
      /\ Rest(c, c)
  BY ContextFields DEF Frame, Rest
<1>2. ASSUME NEW e, q = Err(c, e),
             e \notin {"None", "Loop", "ConnectionClosed", "WriteBufferFull"}
      PROVE  Assembled(c, f, q)
  <2>1. q.c = c /\ q.err = e
    BY <1>2 DEF Err, Res
  <2> QED BY <1>1, <1>2, <2>1 DEF Assembled
<1>3. CASE f.op = "Continue" /\ c.incomplete # NoMessage
  <2> DEFINE done == [c EXCEPT !.incomplete = NoMessage]
             With(m) == [c EXCEPT !.incomplete = m]
             Q(x) == CASE x.err # "None" -> Err(With(x.m), x.err)
                       [] x.err = "None" /\ ~f.fin -> Loop(With(x.m))
                       [] x.err = "None" /\ f.fin /\ x.m.cut -> Err(done, "Utf8")
                       [] OTHER -> Value(done, Message(x.m.op, x.m.len))
  <2>1. ReceiveData(c, f) = {Q(x) : x \in extend(c.incomplete, f, c.max_message_size)}
    BY <1>3 DEF ReceiveData
  <2>2. PICK x \in extend(c.incomplete, f, c.max_message_size) : q = Q(x)
    <3> HIDE DEF Q
    <3> QED BY <2>1
  <2>3. /\ x.m \in Incomplete /\ x.m.op = c.incomplete.op
        /\ x.err \in {"None", "MessageTooLong", "Utf8"}
        /\ x.err = "None" => /\ x.m.len = c.incomplete.len + f.len
                             /\ x.m.len <= c.max_message_size
    BY <1>1, ExtendType, ExtendLength
  <2>4. /\ Rest(c, With(x.m)) /\ With(x.m).state = c.state /\ With(x.m).dec = c.dec
        /\ With(x.m).incomplete = x.m
        /\ With(x.m).compressed_incomplete = c.compressed_incomplete
        /\ With(x.m).compression_unusable = c.compression_unusable
    BY AssembleRest
  <2>5. /\ Rest(c, done) /\ done.state = c.state /\ done.dec = c.dec
        /\ done.incomplete = NoMessage
        /\ done.compressed_incomplete = c.compressed_incomplete
        /\ done.compression_unusable = c.compression_unusable
    BY AssembleRest
  <2> HIDE DEF With, done
  <2>6. Assembling(With(x.m)) /\ Assembling(done) /\ x.m # NoMessage
    BY <1>3, <2>3, <2>4, <2>5 DEF Assembling, NoMessage
  <2>7. OpAfter(c, f) = x.m.op /\ Owns(c, f)
        /\ (x.err = "None" => LenAfter(c, f) = x.m.len)
    BY <1>3, <2>3 DEF OpAfter, LenAfter, Owns
  <2>8. CASE x.err # "None"
    <3>1. q.c = With(x.m) /\ q.err = x.err
      BY <2>2, <2>8 DEF Err, Res
    <3> QED BY <1>3, <2>3, <2>4, <2>6, <2>8, <3>1 DEF Assembled
  <2>9. CASE x.err = "None" /\ ~f.fin
    <3>1. q.c = With(x.m) /\ q.err = "Loop"
      BY <2>2, <2>9 DEF Loop, Err, Res
    <3> QED BY <2>4, <2>6, <2>7, <2>9, <3>1 DEF Assembled
  <2>10. CASE x.err = "None" /\ f.fin /\ x.m.cut
    <3>1. q.c = done /\ q.err = "Utf8"
      BY <2>2, <2>10 DEF Err, Res
    <3> QED BY <1>3, <2>5, <2>6, <3>1 DEF Assembled
  <2>11. CASE x.err = "None" /\ f.fin /\ ~x.m.cut
    <3>1. q.c = done /\ q.err = "None" /\ q.msg = Message(x.m.op, x.m.len)
      BY <2>2, <2>11 DEF Value, Res
    <3> QED BY <2>3, <2>5, <2>6, <2>7, <2>11, <3>1 DEF Assembled
  <2> QED BY <2>8, <2>9, <2>10, <2>11
<1>4. CASE f.op # "Continue" /\ c.incomplete = NoMessage /\ f.fin
  <2>1. \/ q = Err(c, "MessageTooLong") \/ q = Err(c, "Utf8")
        \/ f.len <= c.max_message_size /\ q = Value(c, Message(f.op, f.len))
    BY <1>1, <1>4 DEF ReceiveData
  <2>2. ASSUME f.len <= c.max_message_size, q = Value(c, Message(f.op, f.len))
        PROVE  Assembled(c, f, q)
    <3>1. q.c = c /\ q.err = "None" /\ q.msg = Message(f.op, f.len)
      BY <2>2 DEF Value, Res
    <3> QED BY <1>1, <1>4, <2>2, <3>1 DEF Assembled, OpAfter, LenAfter, Owns
  <2> QED BY <1>2, <2>1, <2>2
<1>5. CASE f.op # "Continue" /\ c.incomplete = NoMessage /\ ~f.fin
  <2> DEFINE m0 == NewIncomplete(f.op)
             With(m) == [c EXCEPT !.incomplete = m]
             Q(x) == IF x.err # "None" THEN Err(c, x.err) ELSE Loop(With(x.m))
  <2>1. m0 \in Incomplete /\ m0.op = f.op /\ m0.len = 0 /\ f.op \in {"Text", "Binary"}
    BY <1>5 DEF NewIncomplete, Incomplete, IsData, DataOp
  <2>2. ReceiveData(c, f) = {Q(x) : x \in extend(m0, f, c.max_message_size)}
    BY <1>5 DEF ReceiveData
  <2> HIDE DEF m0
  <2>3. PICK x \in extend(m0, f, c.max_message_size) : q = Q(x)
    <3> HIDE DEF Q
    <3> QED BY <2>2
  <2>4. /\ x.m.op = f.op /\ x.err \in {"None", "MessageTooLong", "Utf8"}
        /\ x.err = "None" => x.m.len = f.len
    BY <1>1, <2>1, ExtendType, ExtendLength
  <2>5. CASE x.err # "None"
    BY <1>2, <2>3, <2>4, <2>5
  <2>6. CASE x.err = "None"
    <3>1. /\ Rest(c, With(x.m)) /\ With(x.m).state = c.state /\ With(x.m).dec = c.dec
          /\ With(x.m).incomplete = x.m
          /\ With(x.m).compressed_incomplete = c.compressed_incomplete
          /\ With(x.m).compression_unusable = c.compression_unusable
      BY AssembleRest
    <3>2. q.c = With(x.m) /\ q.err = "Loop"
      BY <2>3, <2>6 DEF Loop, Err, Res
    <3> HIDE DEF With
    <3>3. x.m # NoMessage /\ Assembling(With(x.m))
      BY <2>1, <2>4, <3>1 DEF NoMessage, Assembling
    <3>4. OpAfter(c, f) = x.m.op /\ LenAfter(c, f) = x.m.len /\ Owns(c, f)
      BY <1>5, <2>4, <2>6 DEF OpAfter, LenAfter, Owns
    <3> QED BY <1>5, <3>1, <3>2, <3>3, <3>4 DEF Assembled
  <2> QED BY <2>5, <2>6
<1>6. CASE f.op = "Continue" /\ c.incomplete = NoMessage
  BY <1>2, <1>6 DEF ReceiveData
<1>7. CASE f.op # "Continue" /\ c.incomplete # NoMessage
  BY <1>2, <1>7 DEF ReceiveData
<1> QED BY <1>3, <1>4, <1>5, <1>6, <1>7

\* The frame is refused unread.  The connection goes on only if the frame does
\* not claim to be part of a compressed message.
Claims(c, f) ==
  f.rsv1 \/ (f.op = "Continue" /\ (c.compressed_incomplete \/ c.incomplete = NoMessage))

\* Only an unusable codec ends the connection.
Failing(c, d) == d.state = "Terminated" => c.state = "Terminated" \/ d.compression_unusable

Dropped(c, f, d) ==
  /\ Rest(c, d) /\ Failing(c, d) /\ d.incomplete = c.incomplete /\ d.dec = c.dec
  /\ d.compressed_incomplete = c.compressed_incomplete
  /\ d.state = "Terminated" \/ (d.state = c.state /\ ~(Deflate /\ Claims(c, f)))

LEMMA FailRest ==
  ASSUME NEW c \in Context
  PROVE  LET d == fail_compression(c)
         IN  /\ Rest(c, d) /\ d.incomplete = c.incomplete /\ d.dec = c.dec
             /\ d.compressed_incomplete = c.compressed_incomplete
             /\ d.state = "Terminated" /\ d.compression_unusable
<1>1. fail_compression(c).compression_unusable
  BY Zenon DEF fail_compression, Context
<1> QED BY <1>1 DEF fail_compression, Rest, Context

LEMMA DiscardDropped ==
  ASSUME NEW c \in Context, NEW f
  PROVE  Dropped(c, f, fail_compression_on_discarded_frame(c, f))
<1> DEFINE d == fail_compression_on_discarded_frame(c, f)
<1>1. d = IF Claims(c, f) /\ Deflate THEN fail_compression(c) ELSE c
  BY DEF fail_compression_on_discarded_frame, Claims
<1>2. CASE Claims(c, f) /\ Deflate
  <2>1. d = fail_compression(c)
    BY <1>1, <1>2, Zenon
  <2> QED BY <2>1, FailRest DEF Dropped, Failing
<1>3. CASE ~(Claims(c, f) /\ Deflate)
  <2>1. d = c
    BY <1>1, <1>3, Zenon
  <2> QED BY <1>3, <2>1 DEF Dropped, Rest, Failing
<1> QED BY <1>2, <1>3

\* The payload of f goes through the inflater.
Deflated(c, f) == IF f.op = "Continue" THEN c.compressed_incomplete ELSE f.rsv1

\* The frame is inflated if it is compressed, and the mode is kept for the
\* frames that continue its message.
Inflated(c, f, r) ==
  /\ Rest(c, r.c) /\ r.c.state = c.state /\ r.c.incomplete = c.incomplete
  /\ r.msg.op = f.op /\ r.msg.fin = f.fin
  /\ Deflated(c, f) => r.c.dec = Remembered(c.role, f, c.dec) /\ r.msg.len = f.plain
  /\ ~Deflated(c, f) => r.c.dec = c.dec /\ r.msg.len = f.len
  /\ f.op # "Continue" /\ ~f.fin => (r.c.compressed_incomplete <=> Deflated(c, f))
  /\ f.op = "Continue" /\ f.fin => ~r.c.compressed_incomplete
  /\ f.op = "Continue" /\ ~f.fin => (r.c.compressed_incomplete <=> c.compressed_incomplete)

LEMMA DecompressStep ==
  ASSUME NEW c \in Context, NEW f \in Frame
  PROVE  LET r == decompress(c, f)
         IN  \/ r.err \in {"Compression", "MessageTooLong"} /\ r.c = fail_compression(c)
             \/ /\ r.err = "None" /\ Rest(c, r.c) /\ r.c.state = c.state
                /\ r.c.incomplete = c.incomplete /\ r.c \in Context
                /\ r.c.compressed_incomplete = c.compressed_incomplete
                /\ r.c.dec = Remembered(c.role, f, c.dec)
                /\ r.msg.op = f.op /\ r.msg.fin = f.fin /\ r.msg.len = f.plain
<1> DEFINE n == Remembered(c.role, f, c.dec)
           d == [c EXCEPT !.dec = n]
           g == [f EXCEPT !.rsv1 = FALSE, !.len = f.plain]
           x == fail_compression(c)
<1>1. decompress(c, f) \in {Err(x, "Compression"), Err(x, "MessageTooLong"), Value(d, g)}
  BY DEF decompress
<1>2. g.op = f.op /\ g.fin = f.fin /\ g.len = f.plain
  BY DEF Frame
<1>3. n \in Nat
  BY DEF Context, Remembered
<1>4. /\ Rest(c, d) /\ d.state = c.state /\ d.incomplete = c.incomplete /\ d.dec = n
      /\ d.compressed_incomplete = c.compressed_incomplete /\ d \in Context
  <2> HIDE DEF n
  <2> QED BY <1>3 DEF Rest, Context
<1> HIDE DEF d, g, x
<1>5. /\ Err(x, "Compression").err = "Compression" /\ Err(x, "Compression").c = x
      /\ Err(x, "MessageTooLong").err = "MessageTooLong" /\ Err(x, "MessageTooLong").c = x
      /\ Value(d, g).err = "None" /\ Value(d, g).c = d /\ Value(d, g).msg = g
  BY DEF Err, Value, Res
<1> HIDE DEF Err, Value
<1> QED BY <1>1, <1>2, <1>4, <1>5 DEF x

LEMMA InflateStep ==
  ASSUME NEW c \in Context, NEW f \in Frame, NEW q \in InflateData(c, f)
  PROVE  \/ ~Deflate /\ q = Value(c, f)
         \/ Deflate /\ ~Owns(c, f) /\ q.err = "None" /\ q.msg = f /\ Dropped(c, f, q.c)
         \/ /\ Deflate /\ Owns(c, f) /\ q.err \in {"Compression", "MessageTooLong"}
            /\ Rest(c, q.c) /\ q.c.state = "Terminated" /\ q.c.incomplete = c.incomplete
            /\ q.c.compression_unusable
         \/ Deflate /\ Owns(c, f) /\ q.err = "None" /\ Inflated(c, f, q)
<1> DEFINE compressed == IF f.op = "Continue" THEN c.compressed_incomplete ELSE f.rsv1
           Saved(d) ==
             CASE f.op # "Continue" /\ ~f.fin -> [d EXCEPT !.compressed_incomplete = compressed]
               [] f.op = "Continue" /\ f.fin -> [d EXCEPT !.compressed_incomplete = FALSE]
               [] OTHER -> d
           r == IF compressed THEN decompress(c, f) ELSE Value(c, f)
           d1 == fail_compression_on_discarded_frame(c, f)
<1>1. \/ ~Deflate /\ q = Value(c, f)
      \/ Deflate /\ ~Owns(c, f) /\ q = Value(d1, f)
      \/ Deflate /\ Owns(c, f) /\ q = r /\ r.err # "None"
      \/ Deflate /\ Owns(c, f) /\ q = Value(Saved(r.c), r.msg) /\ r.err = "None"
  <2> DEFINE owns == (f.op = "Continue") = (c.incomplete # NoMessage)
  <2>1. InflateData(c, f) =
          CASE ~Deflate -> {Value(c, f)}
            [] Deflate /\ ~owns -> {Value(d1, f)}
            [] Deflate /\ owns -> {s \in {r} : s.err # "None"}
                 \cup UNION {{Value(Saved(s.c), s.msg)} : s \in {t \in {r} : t.err = "None"}}
    BY DEF InflateData, Then
  <2>2. owns <=> Owns(c, f)
    BY DEF Owns
  <2> HIDE DEF owns, compressed, Saved, r, d1
  <2> QED BY <2>1, <2>2, DeflateAssumption
<1>2. compressed \in BOOLEAN /\ (compressed <=> Deflated(c, f))
  BY Zenon DEF Context, Frame, Deflated
<1>3. Dropped(c, f, d1)
  BY DiscardDropped
<1>4. CASE Deflate /\ ~Owns(c, f) /\ q = Value(d1, f)
  <2>1. q.c = d1 /\ q.msg = f /\ q.err = "None"
    BY <1>4 DEF Value, Res
  <2> HIDE DEF d1
  <2> QED BY <1>3, <1>4, <2>1
<1>5. /\ r.err # "None" => /\ r.err \in {"Compression", "MessageTooLong"}
                           /\ r.c = fail_compression(c)
      /\ r.err = "None" =>
           /\ Rest(c, r.c) /\ r.c.state = c.state /\ r.c.incomplete = c.incomplete
           /\ r.c \in Context /\ r.c.compressed_incomplete = c.compressed_incomplete
           /\ r.msg.op = f.op /\ r.msg.fin = f.fin
           /\ compressed => r.c.dec = Remembered(c.role, f, c.dec) /\ r.msg.len = f.plain
           /\ ~compressed => r.c.dec = c.dec /\ r.msg.len = f.len
  <2>1. CASE compressed
    <3>1. r = decompress(c, f)
      BY <2>1, Zenon
    <3> HIDE DEF r, compressed
    <3> QED BY <2>1, <3>1, DecompressStep
  <2>2. CASE ~compressed
    <3>1. r = Value(c, f)
      BY <2>2, Zenon
    <3>2. r.c = c /\ r.msg = f /\ r.err = "None"
      BY <3>1 DEF Value, Res
    <3> HIDE DEF r, compressed
    <3> QED BY <2>2, <3>2 DEF Rest
  <2> QED BY <2>1, <2>2
<1> HIDE DEF r, d1
<1>6. CASE Deflate /\ Owns(c, f) /\ q = r /\ r.err # "None"
  BY <1>5, <1>6, FailRest
<1>7. CASE Deflate /\ Owns(c, f) /\ q = Value(Saved(r.c), r.msg) /\ r.err = "None"
  <2> DEFINE s == Saved(r.c)
  <2>1. q.c = s /\ q.msg = r.msg /\ q.err = "None"
    BY <1>7 DEF Value, Res
  <2> HIDE DEF compressed
  <2>2. Rest(r.c, s) /\ s.state = r.c.state /\ s.incomplete = r.c.incomplete /\ s.dec = r.c.dec
    BY <1>5, <1>7 DEF Rest, Context
  <2>3. /\ f.op # "Continue" /\ ~f.fin => s.compressed_incomplete = compressed
        /\ f.op = "Continue" /\ f.fin => s.compressed_incomplete = FALSE
        /\ f.op = "Continue" /\ ~f.fin => s.compressed_incomplete = r.c.compressed_incomplete
    BY <1>5, <1>7 DEF Context
  <2> HIDE DEF s
  <2>4. Inflated(c, f, q)
    BY <1>2, <1>5, <1>7, <2>1, <2>2, <2>3 DEF Inflated, Rest
  <2> QED BY <1>7, <2>1, <2>4
<1> QED BY <1>1, <1>4, <1>6, <1>7

\* The frame is refused, unread or because it does not inflate.
Refusal(c, f, q) ==
  /\ q.err \notin {"None", "Loop", "ConnectionClosed", "WriteBufferFull"}
  /\ Rest(c, q.c) /\ Failing(c, q.c) /\ q.c.incomplete = c.incomplete
  /\ q.c.state \in {c.state, "Terminated"}
  /\ Dropped(c, f, q.c) \/ ~can_read(q.c)

LEMMA DroppedRefusal ==
  ASSUME NEW c, NEW f, NEW d, Dropped(c, f, d),
         NEW e, e \notin {"None", "Loop", "ConnectionClosed", "WriteBufferFull"}
  PROVE  Refusal(c, f, Err(d, e))
<1>1. Err(d, e).c = d /\ Err(d, e).err = e
  BY DEF Err, Res
<1> HIDE DEF Err
<1> QED BY <1>1 DEF Refusal, Dropped

\* A data frame that was not refused before it is looked at.
LEMMA ReceiveDataFrame ==
  ASSUME NEW c, Good(c), Assembling(c), NEW f \in Frame, IsData(f),
         NEW r \in InflateData(c, f), NEW q,
         IF r.err = "None" THEN q \in ReceiveData(r.c, r.msg) ELSE q = r
  PROVE  \/ Refusal(c, f, q)
         \/ ~Deflate /\ Assembled(c, f, q)
         \/ Deflate /\ Owns(c, f) /\ Inflated(c, f, r) /\ Assembled(r.c, r.msg, q)
<1>1. c \in Context
  BY DEF Good
<1>2. r \in Steps(c) /\ r.c \in Context /\ r.msg \in Frame /\ (r.err = "None" => r.msg.op = f.op)
  BY <1>1, InflateGood, Returned
<1>3. CASE ~Deflate /\ r = Value(c, f)
  <2>1. r.c = c /\ r.msg = f /\ r.err = "None"
    BY <1>3 DEF Value, Res
  <2> QED BY <1>1, <1>3, <2>1, ReceiveDataAssembles
<1>4. CASE Deflate /\ ~Owns(c, f) /\ r.err = "None" /\ r.msg = f /\ Dropped(c, f, r.c)
  <2>1. r.c.incomplete = c.incomplete /\ Assembling(r.c) /\ ~Owns(r.c, f)
    BY <1>4 DEF Dropped, Assembling, Owns
  <2>2. Assembled(r.c, f, q)
    BY <1>2, <1>4, <2>1, ReceiveDataAssembles
  <2>3. q.err \notin {"None", "Loop", "ConnectionClosed", "WriteBufferFull"}
    BY <2>1, <2>2 DEF Assembled
  <2>4. q.c.incomplete = r.c.incomplete
    <3>1. CASE f.op # "Continue"
      BY <2>2, <2>3, <3>1 DEF Assembled
    <3>2. CASE f.op = "Continue"
      <4>1. r.c.incomplete = NoMessage
        BY <2>1, <3>2 DEF Owns
      <4> QED BY <2>2, <2>3, <4>1 DEF Assembled
    <3> QED BY <3>1, <3>2
  <2>5. Dropped(c, f, q.c)
    BY <1>4, <2>2, <2>4 DEF Dropped, Assembled, Rest, Failing
  <2> QED BY <2>3, <2>5 DEF Refusal, Dropped
<1>5. CASE /\ Deflate /\ Owns(c, f) /\ r.err \in {"Compression", "MessageTooLong"}
           /\ Rest(c, r.c) /\ r.c.state = "Terminated" /\ r.c.incomplete = c.incomplete
           /\ r.c.compression_unusable
  BY <1>5 DEF Refusal, can_read, Failing
<1>6. CASE Deflate /\ Owns(c, f) /\ r.err = "None" /\ Inflated(c, f, r)
  <2>1. Assembling(r.c) /\ IsData(r.msg)
    BY <1>2, <1>6 DEF Inflated, Assembling, IsData
  <2> QED BY <1>2, <1>6, <2>1, ReceiveDataAssembles
<1> QED BY <1>1, <1>3, <1>4, <1>5, <1>6, InflateStep

LEMMA ReceiveFrameCases ==
  ASSUME NEW c, Good(c), Assembling(c), NEW f \in Frame, NEW q \in ReceiveFrame(c, f)
  PROVE  \/ Refusal(c, f, q)
         \/ can_read(c) /\ ~IsData(f) /\ q = ReceiveControl(c, f)
         \/ can_read(c) /\ IsData(f) /\ ~Deflate /\ Assembled(c, f, q)
         \/ /\ can_read(c) /\ IsData(f) /\ Deflate /\ Owns(c, f)
            /\ \E r : Inflated(c, f, r) /\ Assembled(r.c, r.msg, q)
<1>1. c \in Context
  BY DEF Good
<1> DEFINE d1 == IF Deflate THEN fail_compression(c) ELSE c
           d2 == fail_compression_on_discarded_frame(c, f)
           S == Then(InflateData(c, f), LAMBDA r : ReceiveData(r.c, r.msg))
<1>2. \/ q = Err(d1, "UnmaskedFrameFromClient")
      \/ q = Err(c, "ReceivedAfterClosing") /\ ~can_read(c)
      \/ q \in {Err(d2, "NonZeroReservedBits"), Err(d2, "MaskedFrameFromServer")}
      \/ can_read(c) /\ ~IsData(f) /\ q = ReceiveControl(c, f)
      \/ can_read(c) /\ IsData(f) /\ q \in S
  BY DEF ReceiveFrame
<1>3. Dropped(c, f, d1)
  <2>1. CASE Deflate
    BY <1>1, <2>1, FailRest DEF Dropped, Failing
  <2>2. CASE ~Deflate
    BY <1>1, <2>2 DEF Dropped, Rest, Failing
  <2> QED BY <2>1, <2>2
<1>4. Dropped(c, f, d2)
  BY <1>1, DiscardDropped
<1> HIDE DEF d1, d2
<1>5. CASE q = Err(c, "ReceivedAfterClosing") /\ ~can_read(c)
  <2>1. q.c = c /\ q.err = "ReceivedAfterClosing"
    BY <1>5 DEF Err, Res
  <2> QED BY <1>5, <2>1 DEF Refusal, Rest, Failing
<1>6. CASE q = Err(d1, "UnmaskedFrameFromClient")
  BY <1>3, <1>6, DroppedRefusal
<1>7. CASE q \in {Err(d2, "NonZeroReservedBits"), Err(d2, "MaskedFrameFromServer")}
  BY <1>4, <1>7, DroppedRefusal
<1>8. CASE can_read(c) /\ IsData(f) /\ q \in S
  <2>1. \E r \in InflateData(c, f) :
          IF r.err = "None" THEN q \in ReceiveData(r.c, r.msg) ELSE q = r
    BY <1>8 DEF Then
  <2> QED BY <1>8, <2>1, ReceiveDataFrame
<1> HIDE DEF S
<1> QED BY <1>2, <1>5, <1>6, <1>7, <1>8

\* What a frame may do to the context, whatever it is.
Heard(c, f, q) ==
  /\ Sound(q.c) /\ Assembling(q.c) /\ q.c.sent = c.sent
  /\ q.c.additional_send = c.additional_send \/ q.c.additional_send.op # "None"
  /\ q.err \notin {"ConnectionClosed", "WriteBufferFull"}
  /\ q.err = "Loop" => can_read(q.c)
  /\ \/ q.c.state \in {c.state, "Terminated"} /\ Failing(c, q.c)
     \/ f.op = "Close" /\ q.err = "None"
  /\ q.err = "None" /\ q.msg.op \in {"Text", "Binary"} => q.msg.len <= q.c.max_message_size

LEMMA RestSound ==
  ASSUME NEW c, NEW d, Sound(c), Rest(c, d), d.state \in {c.state, "Terminated"}
  PROVE  Sound(d)
BY DEF Sound, Rest, Queued, ClosesOnce, ReplyOwed

LEMMA ReceiveFrameHeard ==
  ASSUME NEW c, Good(c), Sound(c), Assembling(c), NEW f \in InFrames,
         NEW q \in ReceiveFrame(c, f)
  PROVE  Heard(c, f, q)
<1>1. f \in Frame /\ (f.code # "none" => f.len > 1)
  BY InFrameAssumption
<1>2. CASE Refusal(c, f, q)
  <2>1. Sound(q.c)
    BY <1>2, RestSound DEF Refusal
  <2> QED BY <1>2, <2>1 DEF Refusal, Rest, Heard, Assembling
<1>3. CASE can_read(c) /\ ~IsData(f) /\ q = ReceiveControl(c, f)
  BY <1>1, <1>3, ReceiveControlSound DEF Heard, Assembling, Failing, can_read
<1>4. ASSUME NEW b, NEW g, can_read(c), Rest(c, b), b.state = c.state, Assembled(b, g, q)
      PROVE  Heard(c, f, q)
  <2>1. Rest(c, q.c) /\ q.c.state = c.state
    BY <1>4 DEF Assembled, Rest
  <2>2. Sound(q.c)
    BY <2>1, RestSound
  <2>3. q.err = "None" => q.msg.len = LenAfter(b, g) /\ LenAfter(b, g) <= q.c.max_message_size
    BY <1>4 DEF Assembled, Message, MakeFrame, Rest
  <2> QED BY <1>4, <2>1, <2>2, <2>3 DEF Heard, Assembled, Rest, Failing, can_read
<1>5. Rest(c, c)
  BY DEF Rest
<1> QED BY <1>1, <1>2, <1>3, <1>4, <1>5, ReceiveFrameCases DEF Inflated

-----------------------------------------------------------------------------
(* The peer *)

\* The inflater has taken what the peer's compressor produced, and the message
\* being assembled is the one the peer is in the middle of.
InStep(c, p) ==
  /\ Deflate /\ can_read(c) =>
       /\ c.dec = p.z
       /\ c.incomplete # NoMessage => (c.compressed_incomplete <=> p.open = "comp")
  /\ p.clean => /\ p.open = "none" <=> c.incomplete = NoMessage
                /\ p.open # "none" => c.incomplete.op = p.op /\ c.incomplete.len = p.len
  /\ ~Deflate => p.open # "comp"

\* The type and the length of the peer's message with f.
PeerOp(f) == IF f.op = "Continue" THEN peer.op ELSE f.op
PeerLen(f) ==
  (IF f.op = "Continue" THEN peer.len ELSE 0) + (IF ByCompressor(f) THEN f.plain ELSE f.len)

LEMMA AfterFrameFields ==
  ASSUME peer \in PeerType, NEW f \in InFrames, NEW r
  PROVE  LET p == AfterFrame(f, r)
         IN  /\ p.clean => peer.clean /\ r.err \in {"None", "Loop"}
             /\ peer.closed \/ (f.op = "Close" /\ r.err = "None") => p.closed
             /\ p.ended = peer.ended
             /\ ByCompressor(f) => p.z = Remembered(ws.role, f, peer.z)
             /\ ~ByCompressor(f) => p.z = peer.z
             /\ ~IsData(f) => p.open = peer.open /\ p.op = peer.op /\ p.len = peer.len
             /\ IsData(f) /\ f.fin =>
                  p.open = "none" /\ p.last = Message(PeerOp(f), PeerLen(f))
             /\ IsData(f) /\ ~f.fin =>
                  /\ p.open = IF ByCompressor(f) THEN "comp" ELSE "plain"
                  /\ p.op = PeerOp(f) /\ p.len = PeerLen(f)
<1> DEFINE clean == peer.clean /\ r.err \in {"None", "Loop"}
           closed == peer.closed \/ (f.op = "Close" /\ r.err = "None")
           n == peer.frames + 1
           k == IF ByCompressor(f) THEN Remembered(ws.role, f, peer.z) ELSE peer.z
           o == IF ByCompressor(f) THEN "comp" ELSE "plain"
           m == Message(PeerOp(f), PeerLen(f))
           counted == [peer EXCEPT !.frames = n, !.clean = clean, !.closed = closed, !.z = k]
           whole == [counted EXCEPT !.open = "none", !.op = "None", !.len = 0, !.last = m]
           part == [counted EXCEPT !.open = o, !.op = PeerOp(f), !.len = PeerLen(f)]
           p == AfterFrame(f, r)
<1>1. p = CASE ~IsData(f) -> counted
            [] IsData(f) /\ f.fin -> whole
            [] OTHER -> part
  BY DEF AfterFrame, PeerOp, PeerLen
<1>2. clean \in BOOLEAN /\ closed \in BOOLEAN
  <2>1. peer.clean \in BOOLEAN /\ peer.closed \in BOOLEAN
    BY DEF PeerType
  <2> QED BY <2>1, Zenon
<1>3. /\ clean => peer.clean /\ r.err \in {"None", "Loop"}
      /\ peer.closed \/ (f.op = "Close" /\ r.err = "None") => closed
      /\ ByCompressor(f) => k = Remembered(ws.role, f, peer.z)
      /\ ~ByCompressor(f) => k = peer.z
  BY Zenon
<1> HIDE DEF clean, closed, n, k, o, m
<1>4. /\ counted.clean = clean /\ counted.closed = closed /\ counted.z = k
      /\ counted.ended = peer.ended
      /\ counted.open = peer.open /\ counted.op = peer.op /\ counted.len = peer.len
      /\ DOMAIN counted = DOMAIN peer
  BY <1>2 DEF PeerType
<1>5. /\ whole.clean = clean /\ whole.closed = closed /\ whole.z = k
      /\ whole.ended = peer.ended
      /\ whole.open = "none" /\ whole.last = m
  BY <1>2 DEF PeerType
<1>6. /\ part.clean = clean /\ part.closed = closed /\ part.z = k
      /\ part.ended = peer.ended
      /\ part.open = o /\ part.op = PeerOp(f) /\ part.len = PeerLen(f)
  BY <1>2 DEF PeerType
<1> HIDE DEF counted, whole, part, p
<1>7. CASE ~IsData(f)
  <2>1. p = counted
    BY <1>1, <1>7
  <2> QED BY <1>3, <1>4, <1>7, <2>1 DEF p
<1>8. CASE IsData(f) /\ f.fin
  <2>1. p = whole
    BY <1>1, <1>8
  <2> QED BY <1>3, <1>5, <1>8, <2>1 DEF p, m
<1>9. CASE IsData(f) /\ ~f.fin
  <2>1. p = part
    BY <1>1, <1>9
  <2> QED BY <1>3, <1>6, <1>9, <2>1 DEF p, o
<1> QED BY <1>7, <1>8, <1>9

\* A frame that is refused and leaves the connection readable did not go through
\* the peer's compressor.
LEMMA RefusalInStep ==
  ASSUME peer \in PeerType, NEW c \in Context, InStep(c, peer), NEW f \in InFrames, Legal(f),
         NEW q, Refusal(c, f, q)
  PROVE  InStep(q.c, AfterFrame(f, q))
<1> DEFINE p == AfterFrame(f, q)
<1>1. /\ ~p.clean
      /\ ~ByCompressor(f) => p.z = peer.z
      /\ ~IsData(f) => p.open = peer.open
      /\ IsData(f) /\ f.fin => p.open = "none"
      /\ IsData(f) /\ ~f.fin => p.open = IF ByCompressor(f) THEN "comp" ELSE "plain"
  BY AfterFrameFields DEF Refusal
<1>2. ~Deflate => ~ByCompressor(f)
  BY DEF ByCompressor
<1> HIDE DEF p
<1>3. ~Deflate => p.open # "comp"
  BY <1>1, <1>2 DEF InStep
<1>4. ASSUME Deflate, can_read(q.c)
      PROVE  /\ q.c.dec = p.z
             /\ q.c.incomplete # NoMessage => (q.c.compressed_incomplete <=> p.open = "comp")
  <2>1. /\ ~Claims(c, f) /\ can_read(c) /\ q.c.dec = c.dec /\ q.c.incomplete = c.incomplete
        /\ q.c.compressed_incomplete = c.compressed_incomplete
    BY <1>4 DEF Refusal, Dropped, can_read
  <2>2. /\ c.dec = peer.z
        /\ c.incomplete # NoMessage => (c.compressed_incomplete <=> peer.open = "comp")
    BY <1>4, <2>1 DEF InStep
  <2>3. ~ByCompressor(f)
    BY <2>1, <2>2 DEF Claims, ByCompressor
  <2>4. q.c.dec = p.z
    BY <1>1, <2>1, <2>2, <2>3
  <2>5. ASSUME c.incomplete # NoMessage PROVE c.compressed_incomplete <=> p.open = "comp"
    <3>1. CASE ~IsData(f)
      BY <1>1, <2>2, <2>5, <3>1
    <3>2. CASE IsData(f)
      <4>1. p.open # "comp"
        BY <1>1, <2>3, <3>2
      <4>2. ~c.compressed_incomplete
        <5>1. CASE f.op = "Continue"
          BY <2>1, <5>1 DEF Claims
        <5>2. CASE f.op # "Continue"
          BY <2>2, <2>5, <3>2, <5>2 DEF Legal
        <5> QED BY <5>1, <5>2
      <4> QED BY <4>1, <4>2
    <3> QED BY <3>1, <3>2
  <2> QED BY <2>1, <2>4, <2>5
<1>5. InStep(q.c, p)
  BY <1>1, <1>3, <1>4 DEF InStep
<1> QED BY <1>5 DEF p

\* A frame that is taken into the message: g is f, inflated if it was compressed.
LEMMA AssembledInStep ==
  ASSUME peer \in PeerType, NEW c \in Context, InStep(c, peer), NEW f \in InFrames,
         Legal(f), IsData(f), NEW q, NEW b, NEW g, Assembled(b, g, q),
         b.incomplete = c.incomplete, g.op = f.op, g.fin = f.fin,
         g.len = IF ByCompressor(f) THEN f.plain ELSE f.len
  PROVE  LET p == AfterFrame(f, q)
         IN  p.clean =>
               /\ p.open = "none" <=> q.c.incomplete = NoMessage
               /\ p.open # "none" => q.c.incomplete.op = p.op /\ q.c.incomplete.len = p.len
               /\ q.err = "None" => q.msg = p.last /\ p.open = "none"
<1> DEFINE p == AfterFrame(f, q)
<1>1. /\ p.clean => peer.clean /\ q.err \in {"None", "Loop"}
      /\ f.fin => p.open = "none" /\ p.last = Message(PeerOp(f), PeerLen(f))
      /\ ~f.fin => /\ p.open = IF ByCompressor(f) THEN "comp" ELSE "plain"
                   /\ p.op = PeerOp(f) /\ p.len = PeerLen(f)
  BY AfterFrameFields
<1> HIDE DEF p
<1>2. SUFFICES ASSUME p.clean
               PROVE  /\ p.open = "none" <=> q.c.incomplete = NoMessage
                      /\ p.open # "none" =>
                           q.c.incomplete.op = p.op /\ q.c.incomplete.len = p.len
                      /\ q.err = "None" => q.msg = p.last /\ p.open = "none"
  BY DEF p
<1>3. peer.clean /\ q.err \in {"None", "Loop"}
  BY <1>1, <1>2
<1>4. f.op = "Continue" => c.incomplete.op = peer.op /\ c.incomplete.len = peer.len
  BY <1>3 DEF Legal, InStep
<1>5. g.len \in Nat
  BY InFrameAssumption DEF Frame
<1>6. OpAfter(b, g) = PeerOp(f) /\ LenAfter(b, g) = PeerLen(f)
  BY <1>4, <1>5 DEF OpAfter, LenAfter, PeerOp, PeerLen
<1>7. CASE q.err = "None"
  BY <1>1, <1>6, <1>7 DEF Assembled
<1>8. CASE q.err = "Loop"
  BY <1>1, <1>6, <1>8 DEF Assembled
<1> QED BY <1>3, <1>7, <1>8

\* Every frame keeps the two sides in step, and a message that is returned is the
\* one the peer has sent.
LEMMA ReceiveFrameInStep ==
  ASSUME peer \in PeerType, NEW c, Good(c), Sound(c), Assembling(c), InStep(c, peer),
         c.role = ws.role, NEW f \in InFrames, Legal(f), NEW q \in ReceiveFrame(c, f)
  PROVE  LET p == AfterFrame(f, q)
         IN  /\ InStep(q.c, p)
             /\ q.err = "None" /\ q.msg.op \in {"Text", "Binary"} /\ p.clean
                  => q.msg = p.last /\ p.open = "none" /\ q.c.incomplete = NoMessage
<1> DEFINE p == AfterFrame(f, q)
<1>1. c \in Context /\ f \in Frame /\ (f.code # "none" => f.len > 1)
  BY InFrameAssumption DEF Good
<1>2. CASE Refusal(c, f, q)
  BY <1>1, <1>2, RefusalInStep DEF Refusal
<1>3. CASE can_read(c) /\ ~IsData(f) /\ q = ReceiveControl(c, f)
  <2>1. /\ q.c.incomplete = c.incomplete /\ q.c.dec = c.dec
        /\ q.c.compressed_incomplete = c.compressed_incomplete
        /\ q.msg.op \notin {"Text", "Binary"}
    BY <1>1, <1>3, ReceiveControlSound
  <2>2. /\ p.clean => peer.clean
        /\ p.z = peer.z /\ p.open = peer.open /\ p.op = peer.op /\ p.len = peer.len
    BY <1>3, AfterFrameFields DEF ByCompressor
  <2> HIDE DEF p
  <2>3. InStep(q.c, p)
    BY <1>3, <2>1, <2>2 DEF InStep
  <2> QED BY <2>1, <2>3 DEF p
<1>4. CASE can_read(c) /\ IsData(f) /\ ~Deflate /\ Assembled(c, f, q)
  <2>1. ~ByCompressor(f)
    BY <1>4 DEF ByCompressor
  <2>2. p.clean =>
          /\ p.open = "none" <=> q.c.incomplete = NoMessage
          /\ p.open # "none" => q.c.incomplete.op = p.op /\ q.c.incomplete.len = p.len
          /\ q.err = "None" => q.msg = p.last /\ p.open = "none"
    BY <1>1, <1>4, <2>1, AssembledInStep
  <2>3. p.open # "comp"
    <3>1. /\ f.fin => p.open = "none"
          /\ ~f.fin => p.open = IF ByCompressor(f) THEN "comp" ELSE "plain"
      BY <1>4, AfterFrameFields
    <3> QED BY <2>1, <3>1
  <2> HIDE DEF p
  <2>4. InStep(q.c, p)
    BY <1>4, <2>2, <2>3 DEF InStep
  <2> QED BY <2>2, <2>4 DEF p
<1>5. ASSUME can_read(c), IsData(f), Deflate, Owns(c, f),
             NEW r, Inflated(c, f, r), Assembled(r.c, r.msg, q)
      PROVE  /\ InStep(q.c, p)
             /\ q.err = "None" /\ q.msg.op \in {"Text", "Binary"} /\ p.clean
                  => q.msg = p.last /\ p.open = "none" /\ q.c.incomplete = NoMessage
  <2>1. /\ c.dec = peer.z
        /\ c.incomplete # NoMessage => (c.compressed_incomplete <=> peer.open = "comp")
    BY <1>5 DEF InStep
  <2>2. Deflated(c, f) <=> ByCompressor(f)
    <3>1. CASE f.op = "Continue"
      <4>1. c.incomplete # NoMessage
        BY <1>5, <3>1 DEF Owns
      <4> QED BY <1>5, <2>1, <3>1, <4>1 DEF Deflated, ByCompressor
    <3>2. CASE f.op # "Continue"
      BY <1>5, <3>2 DEF Deflated, ByCompressor
    <3> QED BY <3>1, <3>2
  <2>3. /\ r.c.incomplete = c.incomplete /\ r.msg.op = f.op /\ r.msg.fin = f.fin
        /\ r.msg.len = IF ByCompressor(f) THEN f.plain ELSE f.len
    BY <1>5, <2>2 DEF Inflated
  <2>4. p.clean =>
          /\ p.open = "none" <=> q.c.incomplete = NoMessage
          /\ p.open # "none" => q.c.incomplete.op = p.op /\ q.c.incomplete.len = p.len
          /\ q.err = "None" => q.msg = p.last /\ p.open = "none"
    BY <1>1, <1>5, <2>3, AssembledInStep
  <2>5. /\ ByCompressor(f) => p.z = Remembered(ws.role, f, peer.z)
        /\ ~ByCompressor(f) => p.z = peer.z
        /\ f.fin => p.open = "none"
        /\ ~f.fin => p.open = IF ByCompressor(f) THEN "comp" ELSE "plain"
    BY <1>5, AfterFrameFields
  <2> HIDE DEF p
  <2>6. q.c.dec = p.z
    BY <1>5, <2>1, <2>2, <2>5 DEF Inflated, Assembled
  <2>7. ASSUME q.c.incomplete # NoMessage PROVE q.c.compressed_incomplete <=> p.open = "comp"
    <3>1. q.c.compressed_incomplete = r.c.compressed_incomplete
      BY <1>5 DEF Assembled
    <3>2. CASE f.op # "Continue" /\ f.fin
      <4>1. q.c.incomplete = NoMessage
        BY <1>5, <2>3, <3>2 DEF Assembled, Owns
      <4> QED BY <2>7, <4>1
    <3>3. CASE f.op # "Continue" /\ ~f.fin
      BY <1>5, <2>2, <2>5, <3>1, <3>3 DEF Inflated
    <3>4. CASE f.op = "Continue" /\ f.fin
      BY <1>5, <2>5, <3>1, <3>4 DEF Inflated
    <3>5. CASE f.op = "Continue" /\ ~f.fin
      <4>1. Deflated(c, f) <=> c.compressed_incomplete
        BY <3>5 DEF Deflated
      <4> QED BY <1>5, <2>2, <2>5, <3>1, <3>5, <4>1 DEF Inflated
    <3> QED BY <3>2, <3>3, <3>4, <3>5
  <2>8. InStep(q.c, p)
    BY <1>5, <2>4, <2>6, <2>7 DEF InStep
  <2> QED BY <2>4, <2>8
<1> QED BY <1>1, <1>2, <1>3, <1>4, <1>5, ReceiveFrameCases

-----------------------------------------------------------------------------
(* The first half of the inductive invariant: types and the write buffer *)

TypeInv == TypeOK /\ Good(ws)

LEMMA InitTypeInv == Init => TypeInv
<1> SUFFICES ASSUME Init PROVE TypeInv
  OBVIOUS
<1>1. Good(ws)
  <2>1. /\ InitConfig.max_write_buffer_size \in Nat /\ InitConfig.write_buffer_size \in Nat
        /\ InitConfig.max_message_size \in Nat /\ ValidConfig(InitConfig)
        /\ InitConfig.accept_unmasked_frames \in BOOLEAN
    BY ConfigAssumption DEF ConfigType
  <2>2. PICK role \in Roles : ws = NewContext(role, InitConfig)
    BY DEF Init
  <2>3. role \in Role
    BY RoleAssumption
  <2>4. Good(NewContext(role, InitConfig))
    BY <2>1, <2>3, NewContextGood
  <2> QED BY <2>2, <2>4
<1>2. ret \in [call : Calls, err : Error, msg : Frame]
  BY FrameTypes DEF Init, Calls, Error
<1>3. peer \in PeerType
  BY FrameTypes DEF Init, PeerType
<1> QED BY <1>1, <1>2, <1>3 DEF TypeInv, TypeOK, Good

\* A step that returns a result of Steps(ws).
LEMMA ReturnStep ==
  ASSUME TypeInv, NEW call \in Calls, NEW r \in Steps(ws), Return(call, r)
  PROVE  /\ Good(ws') /\ ws' \in Context /\ Follows(ws, ws')
         /\ ret' \in [call : Calls, err : Error, msg : Frame]
<1>1. ws \in Context
  BY DEF TypeInv, Good
<1>2. Good(r.c) /\ Follows(ws, r.c) /\ r.c \in Context /\ r.err \in Error /\ r.msg \in Frame
  BY <1>1, Returned
<1> QED BY <1>2 DEF Return

LEMMA AfterFrameType ==
  ASSUME peer \in PeerType, NEW f \in InFrames, NEW r PROVE AfterFrame(f, r) \in PeerType
<1> DEFINE z == ByCompressor(f)
           op == IF f.op = "Continue" THEN peer.op ELSE f.op
           len == (IF f.op = "Continue" THEN peer.len ELSE 0)
                    + (IF z THEN f.plain ELSE f.len)
           clean == peer.clean /\ r.err \in {"None", "Loop"}
           closed == peer.closed \/ (f.op = "Close" /\ r.err = "None")
           n == peer.frames + 1
           k == IF z THEN Remembered(ws.role, f, peer.z) ELSE peer.z
           counted == [peer EXCEPT !.frames = n, !.clean = clean, !.closed = closed, !.z = k]
<1>1. f \in Frame /\ f.op # "None"
  BY InFrameAssumption
<1>2. len \in Nat /\ n \in Nat /\ k \in Nat
  BY <1>1 DEF Frame, PeerType, Remembered
<1>3. clean \in BOOLEAN /\ closed \in BOOLEAN
  <2>1. peer.clean \in BOOLEAN /\ peer.closed \in BOOLEAN
    BY DEF PeerType
  <2> QED BY <2>1, Zenon
<1>4. IsData(f) => op \in {"Text", "Binary", "None"}
  BY <1>1 DEF IsData, DataOp, PeerType
<1>5. IsData(f) => Message(op, len) \in Frame
  BY <1>2, <1>4 DEF Message, MakeFrame, Frame, DataOp, ControlOp, Utf8Class, CloseCode
<1>6. AfterFrame(f, r) =
        CASE ~IsData(f) -> counted
          [] IsData(f) /\ f.fin ->
               [counted EXCEPT !.open = "none", !.op = "None", !.len = 0,
                               !.last = Message(op, len)]
          [] OTHER ->
               [counted EXCEPT !.open = IF z THEN "comp" ELSE "plain",
                               !.op = op, !.len = len]
  BY DEF AfterFrame
<1> HIDE DEF z, op, len, clean, closed, n, k
<1>7. counted \in PeerType
  BY <1>2, <1>3 DEF PeerType
<1> HIDE DEF counted
<1>8. CASE ~IsData(f)
  BY <1>6, <1>7, <1>8
<1>9. CASE IsData(f) /\ f.fin
  <2> DEFINE m == Message(op, len)
  <2>1. m \in Frame
    BY <1>5, <1>9
  <2>2. AfterFrame(f, r) =
          [counted EXCEPT !.open = "none", !.op = "None", !.len = 0, !.last = m]
    BY <1>6, <1>9
  <2> HIDE DEF m
  <2>3. ASSUME NEW q \in PeerType
        PROVE  [q EXCEPT !.open = "none", !.op = "None", !.len = 0, !.last = m] \in PeerType
    BY <2>1 DEF PeerType
  <2> QED BY <1>7, <2>2, <2>3
<1>10. CASE IsData(f) /\ ~f.fin
  <2> DEFINE o == IF z THEN "comp" ELSE "plain"
  <2>1. AfterFrame(f, r) = [counted EXCEPT !.open = o, !.op = op, !.len = len]
    BY <1>6, <1>10
  <2>2. o \in {"none", "plain", "comp"}
    OBVIOUS
  <2> HIDE DEF o
  <2> QED BY <1>2, <1>4, <1>7, <1>10, <2>1, <2>2 DEF PeerType
<1> QED BY <1>8, <1>9, <1>10

\* One step per action; the conjuncts are those of ReturnStep and the peer's type.
LEMMA StepTypeInv ==
  ASSUME TypeInv, [Next]_vars
  PROVE  /\ TypeInv'
         /\ \/ ws'.out_buffer = ws.out_buffer /\ ws'.state = ws.state
            \/ Follows(ws, ws')
<1>1. ws \in Context /\ Good(ws) /\ peer \in PeerType /\ Follows(ws, ws)
      /\ ret \in [call : Calls, err : Error, msg : Frame]
  BY FollowsReflexive DEF TypeInv, TypeOK
<1> DEFINE Q == /\ Good(ws') /\ ws' \in Context /\ Follows(ws, ws')
                /\ ret' \in [call : Calls, err : Error, msg : Frame]
<1>2. ASSUME Q, peer' \in PeerType PROVE TypeInv' /\ Follows(ws, ws')
  BY <1>2 DEF TypeInv, TypeOK
<1>3. "read" \in Calls /\ "write" \in Calls /\ "flush" \in Calls /\ "close" \in Calls
      /\ "set_config" \in Calls
  BY DEF Calls
<1>4. ASSUME NEW r \in ReadPrepare(ws)
      PROVE  /\ r \in Steps(ws) /\ Good(r.c) /\ Steps(r.c) \subseteq Steps(ws)
  BY <1>1, ReadPrepareGood, Returned
<1>5. CASE ReadTerminated
  <2>1. Err(ws, "AlreadyClosed") \in Steps(ws)
    BY <1>1, Returns DEF Error
  <2>2. Q
    BY <1>3, <1>5, <2>1, ReturnStep DEF ReadTerminated
  <2> QED BY <1>1, <1>2, <1>5, <2>2 DEF ReadTerminated
<1>6. CASE ReadReturns
  <2>1. Q
    BY <1>3, <1>4, <1>6, ReturnStep DEF ReadReturns
  <2> QED BY <1>1, <1>2, <1>6, <2>1 DEF ReadReturns
<1>7. CASE ReadFails
  <2>1. PICK r \in ReadPrepare(ws), e \in InputError :
          \E q \in read_message_frame(r.c, ErrorInput(e)) : Return("read", q)
    BY <1>7 DEF ReadFails
  <2>2. read_message_frame(r.c, ErrorInput(e)) \subseteq Steps(ws)
    <3>1. ErrorInput(e) \in Inputs
      BY DEF Inputs
    <3> QED BY <1>4, <3>1, ReadMessageFrameGood
  <2>3. Q
    BY <1>3, <2>1, <2>2, ReturnStep
  <2> QED BY <1>1, <1>2, <1>7, <2>3 DEF ReadFails
<1>8. CASE ReadEof
  <2>1. PICK r \in ReadPrepare(ws) :
          \E q \in read_message_frame(r.c, EofInput) : Return("read", q)
    BY <1>8 DEF ReadEof
  <2>2. read_message_frame(r.c, EofInput) \subseteq Steps(ws)
    <3>1. EofInput \in Inputs
      BY DEF Inputs
    <3> QED BY <1>4, <3>1, ReadMessageFrameGood
  <2>3. Q
    BY <1>3, <2>1, <2>2, ReturnStep
  <2>4. peer' \in PeerType
    BY <1>1, <1>8 DEF ReadEof, PeerType
  <2> QED BY <1>2, <2>3, <2>4
<1>9. CASE ReadFrame
  <2>1. PICK r \in ReadPrepare(ws), f \in InFrames :
          \E q \in read_message_frame(r.c, FrameInput(f)) :
            Return("read", q) /\ peer' = AfterFrame(f, q)
    BY <1>9 DEF ReadFrame
  <2>2. read_message_frame(r.c, FrameInput(f)) \subseteq Steps(ws)
    <3>1. FrameInput(f) \in Inputs
      BY InFrameAssumption DEF Inputs
    <3> QED BY <1>4, <3>1, ReadMessageFrameGood
  <2>3. Q
    BY <1>3, <2>1, <2>2, ReturnStep
  <2>4. peer' \in PeerType
    BY <1>1, <2>1, AfterFrameType
  <2> QED BY <1>2, <2>3, <2>4
<1>10. CASE Write
  <2>1. PICK m \in Messages : \E r \in write(ws, m) : Return("write", r)
    BY <1>10 DEF Write
  <2>2. write(ws, m) \subseteq Steps(ws)
    BY <1>1, MessageAssumption, WriteGood
  <2>3. Q
    BY <1>3, <2>1, <2>2, ReturnStep
  <2> QED BY <1>1, <1>2, <1>10, <2>3 DEF Write
<1>11. CASE Flush
  <2>1. flush(ws) \subseteq Steps(ws)
    BY <1>1, FlushGood
  <2>2. Q
    BY <1>3, <1>11, <2>1, ReturnStep DEF Flush
  <2> QED BY <1>1, <1>2, <1>11, <2>2 DEF Flush
<1>12. CASE Close
  <2>1. PICK f \in CloseFrames : \E r \in close(ws, f) : Return("close", r)
    BY <1>12 DEF Close
  <2>2. close(ws, f) \subseteq Steps(ws)
    BY <1>1, CloseFrameAssumption, CloseGood
  <2>3. Q
    BY <1>3, <2>1, <2>2, ReturnStep
  <2> QED BY <1>1, <1>2, <1>12, <2>3 DEF Close
<1>13. CASE SetConfig
  <2>1. PICK cfg \in Configs, agreed \in BOOLEAN :
          Return("set_config", set_config(ws, cfg, agreed))
    BY <1>13 DEF SetConfig
  <2> DEFINE r == set_config(ws, cfg, agreed)
  <2>2. /\ r \in Result /\ Good(r.c)
        /\ r.c.out_buffer = ws.out_buffer /\ r.c.state = ws.state
    <3>1. /\ cfg.max_write_buffer_size \in Nat /\ cfg.write_buffer_size \in Nat
          /\ cfg.max_message_size \in Nat /\ cfg.accept_unmasked_frames \in BOOLEAN
      BY ConfigAssumption DEF ConfigType
    <3> QED BY <1>1, <3>1, SetConfigGood
  <2>3. ws' = r.c /\ ret' = [call |-> "set_config", err |-> r.err, msg |-> r.msg]
    BY <2>1 DEF Return
  <2> HIDE DEF r
  <2>4. /\ Good(ws') /\ ws' \in Context /\ ret' \in [call : Calls, err : Error, msg : Frame]
        /\ ret'.call = "set_config"
    BY <1>3, <2>2, <2>3 DEF Result
  <2> QED BY <1>1, <1>13, <2>2, <2>3, <2>4 DEF SetConfig, TypeInv, TypeOK
<1>14. CASE UNCHANGED vars
  BY <1>1, <1>14 DEF vars, TypeInv, TypeOK, Good
<1> QED
  BY <1>5, <1>6, <1>7, <1>8, <1>9, <1>10, <1>11, <1>12, <1>13, <1>14 DEF Next

-----------------------------------------------------------------------------
(* The second half: what is sent, what is read, what is returned *)

\* A connection closed by the peer is one whose close frame was accepted; one that
\* is terminated was closed by the peer, met the end of the stream or lost its codec.
Closing(c, p) ==
  /\ c.state \in {"ClosedByPeer", "CloseAcknowledged"} => p.closed
  /\ c.state = "Terminated" => p.closed \/ p.ended \/ c.compression_unusable

\* A reader in its loop reads a connection that can be read.
CallInv ==
  /\ Sound(ws) /\ Assembling(ws) /\ InStep(ws, peer) /\ Closing(ws, peer)
  /\ ret.err = "Loop" => can_read(ws)
  /\ DeliveredWithinLimit /\ WholeMessages

\* The inductive invariant.
IInv == TypeInv /\ CallInv

\* What every step but set_config does.
CallStep ==
  /\ Kept(ws, ws')
  /\ ret'.err = "ConnectionClosed" /\ ~ws.compression_unusable
       => peer.closed \/ peer.ended
  /\ ret'.err = "WriteBufferFull" /\ Deflate =>
       ~ret'.msg.rsv1 /\ ret'.msg.op # "None" /\ ws'.enc = ws.enc /\ ws'.sent = ws.sent

\* What `read` does before it reaches the input.
LEMMA ReadPrepareWrote ==
  ASSUME NEW c, Good(c), Sound(c), NEW r \in ReadPrepare(c)
  PROVE  r \in Wrote(c) /\ (r.err = "None" => r.c.state = c.state)
<1>1. c \in Context /\ r \in Steps(c) /\ Follows(c, c)
  BY ReadPrepareGood, FollowsReflexive DEF Good
<1> DEFINE d == [c EXCEPT !.state = "Terminated"]
           Q(s) == IF s.err = "WouldBlock"
                     THEN Ok([s.c EXCEPT !.unflushed_additional = TRUE]) ELSE s
<1>2. \/ \E s \in flush(c) : r = Q(s)
      \/ ~can_read(c) /\ r = Err(d, "ConnectionClosed")
      \/ r = Ok(c)
  BY DEF ReadPrepare
<1>3. ASSUME NEW s \in flush(c), r = Q(s) PROVE r \in Wrote(c) /\ (r.err = "None" => r.c.state = c.state)
  <2>1. s \in Quiet(c) /\ s \in Wrote(c) /\ s.c \in Context
    BY <1>1, <1>3, FlushQuiet, QuietWrote, Returned DEF Quiet
  <2>2. CASE s.err # "WouldBlock"
    BY <1>3, <2>1, <2>2 DEF Quiet
  <2>3. CASE s.err = "WouldBlock"
    <3> DEFINE e == [s.c EXCEPT !.unflushed_additional = TRUE]
    <3>1. r = Ok(e)
      BY <1>3, <2>3
    <3>2. r.c = e /\ r.err = "None"
      BY <3>1 DEF Ok, Res
    <3>3. Unmoved(s.c, e)
      BY <2>1 DEF Unmoved, Same, Context
    <3> HIDE DEF e
    <3>4. Sound(e)
      BY <2>1, <3>3 DEF Wrote, Went, Unmoved, Same, Sound, Queued, ClosesOnce, ReplyOwed
    <3>5. Kept(c, e) /\ Still(c, e)
      BY <2>1, <3>3 DEF Wrote, Went, Unmoved, Same, Kept, Still
    <3>6. e.state = c.state
      BY <2>1, <2>3, <3>3 DEF Quiet, Unmoved
    <3> QED BY <1>1, <3>2, <3>4, <3>5, <3>6 DEF Wrote, Went, Refused, can_read
  <2> QED BY <2>2, <2>3
<1>4. CASE ~can_read(c) /\ r = Err(d, "ConnectionClosed")
  <2>1. r.c = d /\ r.err = "ConnectionClosed"
    BY <1>4 DEF Err, Res
  <2>2. Rest(c, d) /\ Still(c, d) /\ d.state = "Terminated"
    BY <1>1 DEF Rest, Still, Context
  <2> HIDE DEF d
  <2>3. Sound(d) /\ Kept(c, d)
    BY <2>2, RestSound DEF Rest, Kept
  <2> QED BY <1>1, <1>4, <2>1, <2>2, <2>3 DEF Wrote, Went, Refused
<1>5. CASE r = Ok(c)
  <2>1. r.c = c /\ r.err = "None"
    BY <1>5 DEF Ok, Res
  <2> QED BY <1>1, <2>1 DEF Wrote, Went, Refused, Kept, Still, can_read
<1> QED BY <1>2, <1>3, <1>4, <1>5

\* `read` finds the stream blocked, failed or at its end.
LEMMA ReadInputWrote ==
  ASSUME NEW c, Good(c), Sound(c), NEW r \in ReadPrepare(c), r.err = "None",
         NEW in \in {EofInput} \cup {ErrorInput(e) : e \in InputError},
         NEW q \in read_message_frame(r.c, in)
  PROVE  q \in Went(c) /\ q.err # "None" /\ (in # EofInput => q \in Wrote(c))
<1>1. c \in Context /\ r \in Wrote(c) /\ r.c.state = c.state
  BY ReadPrepareWrote DEF Good
<1>2. Good(r.c) /\ r.c \in Context /\ Steps(r.c) \subseteq Steps(c)
  BY <1>1, Returned DEF Wrote, Went
<1>3. in \in Inputs
  BY DEF Inputs
<1>4. q \in Steps(c)
  BY <1>2, <1>3, ReadMessageFrameGood
<1>5. can_read(r.c) <=> can_read(c)
  BY <1>1 DEF can_read
<1>6. CASE in = EofInput
  <2> DEFINE d == [r.c EXCEPT !.state = "Terminated"]
  <2>1. \/ q = Err(d, "ConnectionClosed") /\ r.c.state \in {"ClosedByPeer", "CloseAcknowledged"}
        \/ q = Err(d, "ResetWithoutClosingHandshake")
    BY <1>6 DEF read_message_frame, EofInput
  <2>2. Rest(r.c, d) /\ Still(r.c, d) /\ d.state = "Terminated"
    BY <1>2 DEF Rest, Still, Context
  <2> HIDE DEF d
  <2>3. Sound(d)
    BY <1>1, <2>2, RestSound DEF Wrote, Went
  <2>4. Kept(c, d) /\ Still(c, d)
    BY <1>1, <2>2 DEF Wrote, Went, Rest, Kept, Still
  <2>5. q.c = d /\ q.err \in {"ConnectionClosed", "ResetWithoutClosingHandshake"}
    BY <2>1 DEF Err, Res
  <2>6. q.err = "ConnectionClosed" => ~can_read(c)
    BY <1>5, <2>1 DEF Err, Res, can_read
  <2> QED BY <1>4, <1>6, <2>3, <2>4, <2>5, <2>6 DEF Went, Refused
<1>7. ASSUME NEW e \in InputError, in = ErrorInput(e) PROVE q \in Wrote(c) /\ q.err # "None"
  <2>1. q = check_connection_reset(Err(r.c, e), r.c)
    BY <1>7 DEF read_message_frame, ErrorInput
  <2>2. /\ q.c = r.c /\ q.err \in {e, "ConnectionClosed"}
        /\ q.err = "ConnectionClosed" => ~can_read(r.c)
    BY <2>1, <1>7 DEF check_connection_reset, Err, Res, InputError, IoError
  <2>3. e \notin {"None", "Loop", "WriteBufferFull", "ConnectionClosed"}
    BY <1>7 DEF InputError, IoError
  <2> QED BY <1>1, <1>4, <1>5, <2>2, <2>3 DEF Wrote, Went, Refused, can_read
<1> QED BY <1>6, <1>7 DEF Wrote

\* A call that writes, and a `read` that takes no frame.
LEMMA WroteStep ==
  ASSUME IInv, NEW call, NEW r \in Went(ws), Return(call, r),
         call # "read" \/ r.err # "None",
         \/ peer' = [peer EXCEPT !.ended = TRUE]
         \/ peer' = peer /\ r \in Wrote(ws)
  PROVE  CallInv' /\ CallStep
<1>1. ws \in Context /\ peer \in PeerType
  BY DEF IInv, TypeInv, TypeOK, Good
<1>2. /\ ws' = r.c /\ ret'.call = call /\ ret'.err = r.err /\ ret'.msg = r.msg
  BY DEF Return
<1>3. /\ peer'.closed = peer.closed /\ peer'.z = peer.z /\ peer'.open = peer.open
      /\ peer'.clean = peer.clean /\ peer'.op = peer.op /\ peer'.len = peer.len
      /\ peer.ended => peer'.ended
      /\ r.c.state = "Terminated" /\ can_read(ws) => peer'.ended
  <2>1. CASE peer' = peer /\ r \in Wrote(ws)
    BY <2>1 DEF Wrote
  <2>2. CASE peer' = [peer EXCEPT !.ended = TRUE]
    <3>1. peer'.ended
      BY <1>1, <2>2, Zenon DEF PeerType
    <3> QED BY <1>1, <2>2, <3>1 DEF PeerType
  <2> QED BY <2>1, <2>2
<1>4. /\ Sound(ws') /\ Kept(ws, ws') /\ Still(ws, ws') /\ Refused(ws, r)
      /\ r.err # "Loop" /\ (r.err = "ConnectionClosed" => ~can_read(ws))
      /\ ws.compression_unusable => ws'.compression_unusable
  BY <1>1, <1>2, Returned DEF Wrote, Went, Follows
<1>5. can_read(ws') => can_read(ws)
  <2>1. MayFollow(ws.state, ws'.state)
    BY <1>2, <1>1, Returned DEF Wrote, Went, Follows
  <2> QED BY <2>1 DEF MayFollow, can_read
<1>6. Assembling(ws') /\ InStep(ws', peer')
  BY <1>3, <1>4, <1>5 DEF IInv, CallInv, Still, Assembling, InStep
<1>7. Closing(ws', peer')
  <2>1. ws.state \in WebSocketState
    BY <1>1, ContextFields
  <2>2. ws'.state = "Terminated" =>
          \/ peer'.ended
          \/ ws.state \in {"ClosedByPeer", "CloseAcknowledged", "Terminated"}
    BY <1>2, <1>3, <2>1 DEF can_read, WebSocketState
  <2> QED BY <1>3, <1>4, <2>2 DEF IInv, CallInv, Closing, Still
<1>8. DeliveredWithinLimit' /\ WholeMessages'
  BY <1>2 DEF DeliveredWithinLimit, WholeMessages
<1>9. ret'.err # "Loop"
  BY <1>2, <1>4
<1>10. CallInv'
  BY <1>4, <1>6, <1>7, <1>8, <1>9 DEF CallInv
<1>11. ws.state \in WebSocketState
  BY <1>1, ContextFields
<1>12. ret'.err = "ConnectionClosed" /\ ~ws.compression_unusable
         => peer.closed \/ peer.ended
  BY <1>2, <1>4, <1>11 DEF IInv, CallInv, Closing, can_read, WebSocketState
<1> QED BY <1>2, <1>4, <1>10, <1>12 DEF CallStep, Refused

\* A `read` that takes a frame.
LEMMA HeardStep ==
  ASSUME IInv, NEW r \in ReadPrepare(ws), r.err = "None", NEW f \in InFrames, Legal(f),
         NEW q \in read_message_frame(r.c, FrameInput(f)), Return("read", q),
         peer' = AfterFrame(f, q)
  PROVE  CallInv' /\ CallStep
<1>1. /\ ws \in Context /\ Good(ws) /\ peer \in PeerType
      /\ Sound(ws) /\ Assembling(ws) /\ InStep(ws, peer) /\ Closing(ws, peer)
  BY DEF IInv, CallInv, TypeInv, TypeOK
<1>2. r \in Wrote(ws) /\ r.c.state = ws.state
  BY <1>1, ReadPrepareWrote
<1>3. Good(r.c) /\ Sound(r.c) /\ Kept(ws, r.c) /\ Still(ws, r.c) /\ Follows(ws, r.c)
      /\ r.c.role = ws.role
  BY <1>1, <1>2, Returned DEF Wrote, Went, Follows
<1>4. Assembling(r.c) /\ InStep(r.c, peer)
  BY <1>1, <1>2, <1>3 DEF Still, Assembling, InStep, can_read
<1>5. q \in ReceiveFrame(r.c, f)
  BY DEF read_message_frame, FrameInput
<1>6. Heard(r.c, f, q)
  BY <1>3, <1>4, <1>5, ReceiveFrameHeard
<1>7. /\ InStep(q.c, peer')
      /\ q.err = "None" /\ q.msg.op \in {"Text", "Binary"} /\ peer'.clean
           => q.msg = peer'.last /\ peer'.open = "none" /\ q.c.incomplete = NoMessage
  BY <1>1, <1>3, <1>4, <1>5, ReceiveFrameInStep
<1>8. /\ peer.closed => peer'.closed
      /\ peer'.ended = peer.ended
      /\ f.op = "Close" /\ q.err = "None" => peer'.closed
  BY <1>1, AfterFrameFields
<1>9. ws' = q.c /\ ret'.call = "read" /\ ret'.err = q.err /\ ret'.msg = q.msg
  BY DEF Return
<1>10. Closing(ws', peer')
  <2>1. ws.compression_unusable => q.c.compression_unusable
    BY <1>3, <1>5, InFrameAssumption, ReceiveFrameGood, Returned DEF Good, Follows
  <2> QED BY <1>1, <1>2, <2>1, <1>6, <1>8, <1>9 DEF Heard, Closing, Failing
<1>11. DeliveredWithinLimit' /\ WholeMessages'
  BY <1>6, <1>7, <1>9 DEF DeliveredWithinLimit, WholeMessages, Heard
<1>12. CallInv'
  BY <1>6, <1>7, <1>9, <1>10, <1>11 DEF CallInv, Heard
<1>13. Kept(ws, ws')
  BY <1>3, <1>6, <1>9 DEF Kept, Heard
<1> QED BY <1>6, <1>9, <1>12, <1>13 DEF CallStep, Heard

LEMMA SetConfigStep ==
  ASSUME IInv, NEW cfg \in Configs, NEW agreed \in BOOLEAN,
         Return("set_config", set_config(ws, cfg, agreed)),
         UNCHANGED peer
  PROVE  CallInv' /\ CallStep
<1> DEFINE Limits(x) ==
             /\ x.state = ws.state /\ x.sent = ws.sent /\ x.enc = ws.enc /\ x.acc = ws.acc
             /\ x.additional_send = ws.additional_send /\ x.incomplete = ws.incomplete
             /\ x.dec = ws.dec /\ x.compressed_incomplete = ws.compressed_incomplete
             /\ x.compression_unusable = ws.compression_unusable
           d == [ws EXCEPT !.max_message_size = cfg.max_message_size,
                           !.accept_unmasked_frames = cfg.accept_unmasked_frames]
           e == [d EXCEPT !.max_out_buffer_len = cfg.max_write_buffer_size,
                          !.out_buffer_write_len = cfg.write_buffer_size]
<1>1. ws \in Context
  BY DEF IInv, TypeInv, Good
<1>2. /\ ws' \in {ws, d, e}
      /\ ret'.call = "set_config" /\ ret'.err \in {"None", "Panic"}
  BY DEF Return, set_config, Ok, Err, Res
<1>3. \A x \in {ws, d, e} : Limits(x)
  BY <1>1 DEF Context
<1> HIDE DEF d, e
<1>4. Limits(ws')
  BY <1>2, <1>3
<1>5. Sound(ws')
  BY <1>4 DEF IInv, CallInv, Sound, Queued, ClosesOnce, ReplyOwed
<1>6. Assembling(ws') /\ InStep(ws', peer') /\ (can_read(ws') <=> can_read(ws))
  BY <1>4 DEF IInv, CallInv, Assembling, InStep, can_read
<1>7. DeliveredWithinLimit' /\ WholeMessages' /\ ret'.err # "Loop"
  BY <1>2 DEF DeliveredWithinLimit, WholeMessages
<1>8. Closing(ws', peer')
  BY <1>4 DEF IInv, CallInv, Closing
<1>9. CallInv'
  BY <1>5, <1>6, <1>7, <1>8 DEF CallInv
<1>10. Kept(ws, ws')
  BY <1>4 DEF Kept
<1> QED BY <1>2, <1>9, <1>10 DEF CallStep

LEMMA InitCallInv == Init => CallInv
<1> SUFFICES ASSUME Init PROVE CallInv
  OBVIOUS
<1>1. PICK role \in Roles : ws = NewContext(role, InitConfig)
  BY DEF Init
<1>2. /\ ws.state = "Active" /\ ws.additional_send = NoFrame /\ ws.sent = <<>>
      /\ ws.incomplete = NoMessage /\ ws.enc = 0 /\ ws.acc = 0 /\ ws.dec = 0
  BY <1>1 DEF NewContext
<1>3. /\ ret.call = "new" /\ ret.err = "None" /\ peer.open = "none" /\ peer.z = 0
  BY DEF Init
<1>4. Sound(ws)
  BY <1>2, NoFrameFields
     DEF Sound, Queued, ClosesOnce, ReplyOwed, OnlyPongs, HasClose
<1> QED BY <1>2, <1>3, <1>4
        DEF CallInv, Closing, Assembling, InStep, can_read, DeliveredWithinLimit, WholeMessages

\* One step per action.
LEMMA StepCalls ==
  ASSUME IInv, [Next]_vars
  PROVE  CallInv' /\ (CallStep \/ UNCHANGED vars)
<1>1. Good(ws) /\ Sound(ws)
  BY DEF IInv, TypeInv, CallInv
<1>2. CASE ReadTerminated
  <2>1. /\ Err(ws, "AlreadyClosed") \in Wrote(ws) /\ Err(ws, "AlreadyClosed").err # "None"
    BY <1>1, ErrWrote DEF Error, Err, Res
  <2> QED BY <1>2, <2>1, WroteStep DEF ReadTerminated, Wrote
<1>3. CASE ReadReturns
  BY <1>1, <1>3, ReadPrepareWrote, WroteStep DEF ReadReturns, Wrote
<1>4. CASE ReadFails
  <2>1. PICK r \in ReadPrepare(ws), e \in InputError :
          r.err = "None" /\ \E q \in read_message_frame(r.c, ErrorInput(e)) : Return("read", q)
    BY <1>4 DEF ReadFails
  <2>2. PICK q \in read_message_frame(r.c, ErrorInput(e)) : Return("read", q)
    BY <2>1
  <2>3. q \in Wrote(ws) /\ q.err # "None" /\ q \in Went(ws)
    BY <1>1, <2>1, ReadInputWrote DEF ErrorInput, EofInput
  <2> QED BY <1>4, <2>2, <2>3, WroteStep DEF ReadFails
<1>5. CASE ReadEof
  <2>1. PICK r \in ReadPrepare(ws) :
          r.err = "None" /\ \E q \in read_message_frame(r.c, EofInput) : Return("read", q)
    BY <1>5 DEF ReadEof
  <2>2. PICK q \in read_message_frame(r.c, EofInput) : Return("read", q)
    BY <2>1
  <2>3. q \in Went(ws) /\ q.err # "None"
    BY <1>1, <2>1, ReadInputWrote
  <2> QED BY <1>5, <2>2, <2>3, WroteStep DEF ReadEof
<1>6. CASE ReadFrame
  BY <1>6, HeardStep DEF ReadFrame
<1>7. CASE Write
  <2>1. PICK m \in Messages : \E r \in write(ws, m) : Return("write", r)
    BY <1>7 DEF Write
  <2>2. write(ws, m) \subseteq Wrote(ws)
    BY <1>1, MessageAssumption, WriteWrote
  <2> QED BY <1>7, <2>1, <2>2, WroteStep DEF Write, Wrote
<1>8. CASE Flush
  <2>1. flush(ws) \subseteq Wrote(ws)
    BY <1>1, FlushWrote
  <2> QED BY <1>8, <2>1, WroteStep DEF Flush, Wrote
<1>9. CASE Close
  <2>1. PICK f \in CloseFrames : \E r \in close(ws, f) : Return("close", r)
    BY <1>9 DEF Close
  <2>2. close(ws, f) \subseteq Wrote(ws)
    BY <1>1, CloseFrameAssumption, CloseWrote
  <2> QED BY <1>9, <2>1, <2>2, WroteStep DEF Close, Wrote
<1>10. CASE SetConfig
  BY <1>10, SetConfigStep DEF SetConfig
<1>11. CASE UNCHANGED vars
  <2>1. ws' = ws /\ ret' = ret /\ peer' = peer
    BY <1>11 DEF vars
  <2> QED BY <1>11, <2>1 DEF IInv, CallInv, DeliveredWithinLimit, WholeMessages
<1> QED BY <1>2, <1>3, <1>4, <1>5, <1>6, <1>7, <1>8, <1>9, <1>10, <1>11 DEF Next

\* A context whose compressor failed is Terminated, so `read` is not in its loop
\* and every call returns before it does anything.
LEMMA UnusableStep ==
  ASSUME IInv, Next, ws.compression_unusable
  PROVE  /\ ret'.call # "set_config" =>
              /\ ws'.wire = ws.wire /\ ws'.out_buffer = ws.out_buffer
              /\ ret'.err = "AlreadyClosed"
         /\ ret'.err # "ConnectionClosed"
<1>1. ws.state = "Terminated"
  BY DEF IInv, TypeInv, Good
<1>2. Idle /\ ~Reading
  BY <1>1 DEF IInv, CallInv, Idle, Reading, can_read
<1>3. flush(ws) = {Err(ws, "AlreadyClosed")}
  BY DEF flush
<1>4. \A f : close(ws, f) = {Err(ws, "AlreadyClosed")}
  BY <1>1, <1>3 DEF close, is_active
<1>5. \A m : write(ws, m) = {Err(ws, "AlreadyClosed")}
  BY <1>1 DEF write, Then, is_active
<1>6. \/ \E call : Return(call, Err(ws, "AlreadyClosed"))
      \/ SetConfig
  BY <1>2, <1>3, <1>4, <1>5
     DEF Next, ReadTerminated, ReadReturns, ReadFails, ReadEof, ReadFrame, Write, Flush, Close
<1>7. SetConfig => ret'.call = "set_config" /\ ret'.err \in {"None", "Panic"}
  BY DEF SetConfig, Return, set_config, Ok, Err, Res
<1> QED BY <1>6, <1>7 DEF Return, Err, Res

LEMMA Inductive == Init /\ [][Next]_vars => []IInv
<1>1. Init => IInv
  BY InitTypeInv, InitCallInv DEF IInv
<1>2. ASSUME IInv, [Next]_vars PROVE IInv'
  BY <1>2, StepTypeInv, StepCalls DEF IInv
<1> QED BY <1>1, <1>2, PTL

-----------------------------------------------------------------------------
(* Theorems *)

\* The context, the results and the history keep their types whatever the
\* application, the stream and the peer do (WebSocketContext, FrameCodec).
THEOREM TypeCorrect == Spec => []TypeOK
<1>1. TypeInv => TypeOK
  BY DEF TypeInv
<1> QED BY <1>1, InitTypeInv, StepTypeInv, PTL DEF Spec

\* Partial writes, blocked and failed writes and full buffers never tear, lose or
\* repeat a byte of a frame (FrameCodec::write_out_buffer, buffer_frame).
THEOREM WireIsFramed == Spec => []FramedWire
<1>1. TypeInv => FramedWire
  BY DEF TypeInv, Good, FramedWire
<1> QED BY <1>1, InitTypeInv, StepTypeInv, PTL DEF Spec

\* No call grows the write buffer beyond its limit, and the limits stay in order
\* (FrameCodec::can_buffer, WebSocketContext::set_config).
THEOREM WriteBufferBounded == Spec => BufferBound
<1>1. ASSUME TypeInv, [Next]_vars
      PROVE  [/\ \/ Len(ws'.out_buffer) <= Len(ws.out_buffer)
                 \/ Len(ws'.out_buffer) <= ws'.max_out_buffer_len
              /\ ws'.max_out_buffer_len > ws'.out_buffer_write_len]_vars
  <2>1. Good(ws') /\ ws' \in Context /\ ws \in Context
    BY <1>1, StepTypeInv DEF TypeInv, Good
  <2>2. /\ Len(ws'.out_buffer) \in Nat /\ Len(ws.out_buffer) \in Nat
        /\ ws'.max_out_buffer_len \in Nat /\ ws'.out_buffer_write_len \in Nat
    BY <2>1, ContextFields
  <2>3. \/ Len(ws'.out_buffer) <= Len(ws.out_buffer)
        \/ Len(ws'.out_buffer) <= ws'.max_out_buffer_len
    <3>1. CASE Follows(ws, ws')
      BY <3>1 DEF Follows
    <3>2. CASE ws'.out_buffer = ws.out_buffer
      BY <2>2, <3>2
    <3> QED BY <1>1, <3>1, <3>2, StepTypeInv
  <2>4. ws'.max_out_buffer_len > ws'.out_buffer_write_len
    BY <2>1, <2>2 DEF Good
  <2> QED BY <2>3, <2>4
<1> QED BY <1>1, InitTypeInv, StepTypeInv, PTL DEF Spec, BufferBound

\* The connection state only moves forward, and Terminated is final.
THEOREM StateMovesForward == Spec => StateOrder
<1>1. ASSUME TypeInv, [Next]_vars PROVE [MayFollow(ws.state, ws'.state)]_vars
  BY <1>1, StepTypeInv DEF Follows, MayFollow
<1> QED BY <1>1, InitTypeInv, StepTypeInv, PTL DEF Spec, StateOrder
\* Behind a close frame the endpoint sends at most pongs, in whatever order the
\* application closes, the peer closes and replies wait (WebSocketContext::write,
\* close, do_close): what is sent and what is queued hold one close frame at most.
THEOREM NothingAfterClose == Spec => []OnlyPongAfterClose
<1>1. IInv => OnlyPongAfterClose
  BY DEF IInv, CallInv, Sound, ClosesOnce, OnlyPongs, OnlyPongAfterClose
<1> QED BY <1>1, Inductive, PTL DEF Spec

\* The close reply is owed until it is buffered: a full write buffer, a failed
\* write, later frames and later calls do not lose it, and nothing is sent behind
\* it (_write, set_additional, do_close).
THEOREM CloseReplyIsKept == Spec => []CloseReplyKept
<1>1. IInv => CloseReplyKept
  BY DEF IInv, CallInv, Sound, ReplyOwed, IsReply, CloseReplyKept
<1> QED BY <1>1, Inductive, PTL DEF Spec

\* A queued pong or close reply leaves the queue only into the write buffer or
\* for a newer one (_write, set_additional).
THEOREM RepliesAreSent == Spec => ReplyNotDropped
<1>1. ASSUME IInv, [Next]_vars
      PROVE  [ws.additional_send.op # "None" /\ ws'.additional_send.op = "None"
                => \E i \in (Len(ws.sent) + 1)..Len(ws'.sent) :
                     ws'.sent[i].op = ws.additional_send.op]_vars
  BY <1>1, StepCalls DEF CallStep, Kept
<1> QED BY <1>1, Inductive, PTL DEF Spec, ReplyNotDropped

\* ConnectionClosed is returned only for a connection whose peer has sent a close
\* frame that was accepted, or behind an end of the stream that an earlier `read`
\* has reported, whatever the calls before it (check_connection_reset,
\* read_message_frame, _write).
THEOREM ClosedMeansPeerClosed == Spec => ClosedOnlyAfterPeerClose
<1>1. ASSUME IInv, [Next]_vars
      PROVE  [ret'.err = "ConnectionClosed" => peer.closed \/ peer.ended]_vars
  BY <1>1, StepCalls, UnusableStep DEF CallStep
<1> QED BY <1>1, Inductive, PTL DEF Spec, ClosedOnlyAfterPeerClose

\* Once the compression state is unusable every call returns AlreadyClosed and the
\* stream and the write buffer are left alone (WebSocketContext::read, write,
\* flush, close).
THEOREM UnusableStaysSilent == Spec => UnusableIsSilent
<1>1. ASSUME IInv, [Next]_vars
      PROVE  [ws.compression_unusable /\ ret'.call # "set_config"
                => /\ ws'.wire = ws.wire /\ ws'.out_buffer = ws.out_buffer
                   /\ ret'.err = "AlreadyClosed"]_vars
  BY <1>1, UnusableStep
<1> QED BY <1>1, Inductive, PTL DEF Spec, UnusableIsSilent

\* The encoder's window is the peer's decoder's: no message is in it that was
\* compressed and then refused, or sent plain (prepare_data, reset_encoder).
THEOREM EncoderStaysInStep == Spec => []EncoderInStep
<1>1. IInv => EncoderInStep
  BY DEF IInv, CallInv, Sound, EncoderInStep
<1> QED BY <1>1, Inductive, PTL DEF Spec

\* A message refused with WriteBufferFull can be written again: it comes back
\* uncompressed, and the encoder is as it was (prepare_data, _write).
THEOREM FullBufferIsRetryable == Spec => FullIsRetryable
<1>1. ASSUME IInv, [Next]_vars
      PROVE  [ret'.err = "WriteBufferFull" /\ Deflate
                => /\ ~ret'.msg.rsv1 /\ ret'.msg.op # "None"
                   /\ ws'.enc = ws.enc /\ ws'.sent = ws.sent]_vars
  BY <1>1, StepCalls DEF CallStep
<1> QED BY <1>1, Inductive, PTL DEF Spec, FullIsRetryable

\* As long as frames are read, each frame of the peer's compressor went through
\* the inflater (inflate_incoming, discard_incoming).
THEOREM DecoderStaysInStep == Spec => []DecoderInStep
<1>1. IInv => DecoderInStep
  BY DEF IInv, CallInv, InStep, DecoderInStep
<1> QED BY <1>1, Inductive, PTL DEF Spec

\* max_message_size bounds every message delivered, fragmented and compressed ones
\* included, under limits that change between the fragments
\* (IncompleteMessage::extend, set_config).
THEOREM MessagesWithinLimit == Spec => []DeliveredWithinLimit
<1>1. IInv => DeliveredWithinLimit
  BY DEF IInv, CallInv
<1> QED BY <1>1, Inductive, PTL DEF Spec

\* Until a frame is rejected, `read` returns the messages the peer completes, whole,
\* with their type and length, whatever control frames and interrupted calls come
\* between their fragments (read_message_frame, IncompleteMessage).
THEOREM MessagesAreWhole == Spec => []WholeMessages
<1>1. IInv => WholeMessages
  BY DEF IInv, CallInv
<1> QED BY <1>1, Inductive, PTL DEF Spec


=============================================================================
