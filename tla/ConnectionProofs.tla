-------------------------- MODULE ConnectionProofs --------------------------
(***************************************************************************)
(* Two contexts and the stream between them implement MessageChannel, for  *)
(* every value of the constants.  What one call does to one context comes  *)
(* from ContextProofs; a step of Connection is a turn of MessageChannel.   *)
(***************************************************************************)
EXTENDS Connection, ContextProofs

-----------------------------------------------------------------------------
(* The frames of the two ends *)

\* What is put on the wire, without masks: what the applications write, the
\* pongs that answer their pings, and the echo of their close frames.
Sendable ==
  {m.frame : m \in Messages} \cup CloseFrames
    \cup {MakeFrame("Pong", m.frame.len) : m \in {x \in Messages : x.kind = "Ping"}}

\* What the other end accepts.
Acceptable(f) ==
  /\ f \in Frame /\ f.op # "None" /\ f.masked = FALSE /\ f.rsv1 = FALSE
  /\ \/ /\ f.op \in {"Text", "Binary"} /\ f = MakeFrame(f.op, f.len)
        /\ f.len <= InitConfig.max_message_size
     \/ f.op \in {"Ping", "Pong"} /\ f = MakeFrame(f.op, f.len) /\ f.len <= ControlMax
     \/ /\ f.op = "Close" /\ f = CloseFrame(f.code, f.len) /\ f.len <= ControlMax
        /\ f.len # 1 /\ f.code # "disallowed" /\ (f.code # "none" => f.len > 1)

LEMMA CloseFrameIs ==
  ASSUME NEW f \in CloseFrames PROVE Acceptable(f) /\ f.op = "Close"
<1>1. PICK code, n : code = f.code /\ n = f.len
  OBVIOUS
<1>2. /\ f = CloseFrame(code, n) /\ code \in CloseCode \ {"disallowed"}
      /\ n \in 0..ControlMax /\ IF code = "none" THEN n = 0 ELSE n > 1
  BY <1>1, CloseFrameAssumption
<1>3. n \in Nat /\ n <= ControlMax /\ n # 1 /\ (code # "none" => n > 1)
  BY <1>2, ControlMaxAssumption
<1>4. f \in Frame
  BY <1>2, <1>3 DEF CloseFrame, MakeFrame, Frame, ControlOp, DataOp, Utf8Class, CloseCode
<1>5. /\ f.op = "Close" /\ f.masked = FALSE /\ f.rsv1 = FALSE
  BY <1>2 DEF CloseFrame, MakeFrame
<1>6. f = CloseFrame(f.code, f.len) /\ f.code # "disallowed"
  BY <1>1, <1>2, Zenon
<1>7. f.len <= ControlMax /\ f.len # 1 /\ (f.code # "none" => f.len > 1)
  BY <1>1, <1>3, Zenon
<1> QED BY <1>4, <1>5, <1>6, <1>7, Zenon DEF Acceptable

LEMMA MadeIs ==
  ASSUME NEW op \in {"Text", "Binary", "Ping", "Pong"}, NEW n \in Nat,
         n <= IF op \in {"Ping", "Pong"} THEN ControlMax ELSE InitConfig.max_message_size
  PROVE  Acceptable(MakeFrame(op, n))
<1>1. PICK f : f = MakeFrame(op, n)
  OBVIOUS
<1>2. f \in Frame
  BY <1>1, FrameTypes DEF DataOp, ControlOp
<1>3. f.op = op /\ f.len = n /\ f.masked = FALSE /\ f.rsv1 = FALSE
  BY <1>1 DEF MakeFrame
<1>4. f = MakeFrame(f.op, f.len)
  BY <1>1, <1>3, Zenon
<1>5. CASE op \in {"Text", "Binary"}
  <2>1. n <= InitConfig.max_message_size
    BY <1>5
  <2>2. f.len <= InitConfig.max_message_size /\ f.op \in {"Text", "Binary"} /\ f.op # "None"
    BY <1>3, <1>5, <2>1
  <2> QED BY <1>1, <1>2, <1>3, <1>4, <2>2, Zenon DEF Acceptable
<1>6. CASE op \in {"Ping", "Pong"}
  <2>1. n <= ControlMax
    BY <1>6
  <2>2. f.len <= ControlMax /\ f.op \in {"Ping", "Pong"} /\ f.op # "None"
    BY <1>3, <1>6, <2>1
  <2> QED BY <1>1, <1>2, <1>3, <1>4, <2>2, Zenon DEF Acceptable
<1> QED BY <1>5, <1>6

LEMMA MessageIs ==
  ASSUME NEW m \in Messages
  PROVE  /\ Acceptable(m.frame) /\ m.frame.op = m.kind
         /\ m.kind \in {"Text", "Binary", "Ping", "Pong", "Close"}
         /\ m.kind = "Close" => m.frame \in CloseFrames
         /\ m.kind = "Ping" => m.frame.len \in Nat /\ m.frame.len <= ControlMax
<1>1. CASE m.kind = "Close" /\ m.frame \in CloseFrames
  BY <1>1, CloseFrameIs
<1>2. CASE /\ m.kind \in {"Text", "Binary", "Ping", "Pong"}
           /\ m.frame = MakeFrame(m.kind, m.frame.len)
           /\ m.frame.len \in 0..(IF m.kind \in {"Ping", "Pong"} THEN ControlMax
                                   ELSE InitConfig.max_message_size)
  <2>1. PICK k, n : k = m.kind /\ n = m.frame.len
    OBVIOUS
  <2>2. /\ n \in Nat
        /\ n <= IF k \in {"Ping", "Pong"} THEN ControlMax ELSE InitConfig.max_message_size
    BY <1>2, <2>1, ControlMaxAssumption, ConnectionAssumption
  <2>3. Acceptable(MakeFrame(k, n)) /\ MakeFrame(k, n).op = k
    BY <1>2, <2>1, <2>2, MadeIs DEF MakeFrame
  <2>4. m.frame = MakeFrame(k, n) /\ k \in {"Text", "Binary", "Ping", "Pong"}
    BY <1>2, <2>1, Zenon
  <2>5. Acceptable(m.frame) /\ m.frame.op = k /\ (k = "Ping" => n <= ControlMax)
    <3>1. Acceptable(m.frame) /\ m.frame.op = k
      BY <2>3, <2>4, Zenon
    <3>2. k = "Ping" => n <= ControlMax
      BY <2>2
    <3> QED BY <3>1, <3>2
  <2>6. k # "Close"
    BY <2>4
  <2> QED BY <2>1, <2>2, <2>4, <2>5, <2>6, Zenon
<1> QED BY <1>1, <1>2, MessageAssumption

LEMMA SendableIs ==
  ASSUME NEW f \in Sendable
  PROVE  /\ Acceptable(f)
         /\ f.op = "Close" => f \in CloseFrames
         /\ f.op = "Ping" => MakeFrame("Pong", f.len) \in Sendable
<1>1. CASE \E m \in Messages : f = m.frame
  <2>1. PICK m \in Messages : f = m.frame
    BY <1>1
  <2>2. /\ Acceptable(f) /\ f.op = m.kind /\ (m.kind = "Close" => f \in CloseFrames)
    BY <2>1, MessageIs, Zenon
  <2>3. m.kind = "Ping" => MakeFrame("Pong", f.len) \in Sendable
    BY <2>1, Zenon DEF Sendable
  <2> QED BY <2>2, <2>3, Zenon
<1>2. CASE f \in CloseFrames
  BY <1>2, CloseFrameIs, Zenon
<1>3. CASE \E m \in {x \in Messages : x.kind = "Ping"} : f = MakeFrame("Pong", m.frame.len)
  <2>1. PICK m \in Messages : m.kind = "Ping" /\ f = MakeFrame("Pong", m.frame.len)
    BY <1>3
  <2>2. PICK n : n = m.frame.len
    OBVIOUS
  <2>3. n \in Nat /\ n <= ControlMax
    BY <2>1, <2>2, MessageIs
  <2>4. Acceptable(MakeFrame("Pong", n)) /\ MakeFrame("Pong", n).op = "Pong"
    BY <2>3, MadeIs DEF MakeFrame
  <2> QED BY <2>1, <2>2, <2>4
<1> QED BY <1>1, <1>2, <1>3 DEF Sendable

\* A frame that waits to be sent at the end `role`, and one that was put into its
\* write buffer: a client's is masked there.
Waiting(role, f) ==
  /\ f \in Frame /\ Plain(f) \in Sendable
  /\ role # "Client" => f.masked = FALSE
Fine(role, f) == Waiting(role, f) /\ (role = "Client" => f.masked = TRUE)

LEMMA PlainSendable ==
  ASSUME NEW f \in Sendable PROVE f \in Frame /\ f.masked = FALSE /\ Plain(f) = f
<1>1. f \in Frame /\ f.masked = FALSE
  BY SendableIs DEF Acceptable
<1> QED BY <1>1 DEF Plain, Frame

LEMMA SendableWaits ==
  ASSUME NEW f \in Sendable, NEW role PROVE Waiting(role, f)
<1>1. f \in Frame /\ f.masked = FALSE /\ Plain(f) = f
  BY PlainSendable
<1> QED BY <1>1 DEF Waiting

LEMMA MaskedFine ==
  ASSUME NEW c \in Context, NEW f, Waiting(c.role, f) PROVE Fine(c.role, Masked(c, f))
<1>1. PICK b \in BOOLEAN : b = (f.masked \/ c.role = "Client")
  BY Zenon
<1>2. PICK g : g = [f EXCEPT !.masked = b]
  OBVIOUS
<1>3. f \in Frame
  BY DEF Waiting
<1>4. g \in Frame /\ g.masked = b /\ Plain(g) = Plain(f)
  BY <1>2, <1>3 DEF Plain, Frame
<1>5. Masked(c, f) = g
  BY <1>1, <1>2, Zenon DEF Masked
<1>6. CASE c.role = "Client"
  <2>1. b = TRUE
    BY <1>1, <1>6, Zenon
  <2>2. g.masked = TRUE /\ Plain(g) \in Sendable
    BY <1>4, <2>1 DEF Waiting
  <2> QED BY <1>4, <1>5, <1>6, <2>2 DEF Fine, Waiting
<1>7. CASE c.role # "Client"
  <2>1. b = FALSE
    BY <1>1, <1>7 DEF Waiting
  <2>2. g.masked = FALSE /\ Plain(g) \in Sendable
    BY <1>4, <2>1 DEF Waiting
  <2> QED BY <1>4, <1>5, <1>7, <2>2 DEF Fine, Waiting
<1> QED BY <1>6, <1>7

-----------------------------------------------------------------------------
(* One context *)

\* It collects no fragments, and sends what the other end accepts.
Talks(c) ==
  /\ c.incomplete = NoMessage /\ c.max_message_size = InitConfig.max_message_size
  /\ \A i \in 1..Len(c.sent) : Fine(c.role, c.sent[i])
  /\ c.additional_send = NoFrame \/ Waiting(c.role, c.additional_send)

LEMMA TalksAppended ==
  ASSUME NEW c \in Context, NEW f, NEW d \in Context, Talks(c), Waiting(c.role, f),
         Appended(c, f, d)
  PROVE  Talks(d) /\ Len(d.sent) = Len(c.sent) + 1
<1>1. PICK g : g = Masked(c, f)
  OBVIOUS
<1>2. Fine(c.role, g) /\ g \in Frame /\ c.sent \in Seq(Frame) /\ Len(c.sent) \in Nat
  BY <1>1, MaskedFine, ContextFields DEF Fine, Waiting
<1>3. /\ d.role = c.role /\ d.incomplete = c.incomplete /\ d.max_message_size = c.max_message_size
      /\ d.additional_send = c.additional_send /\ d.sent = Append(c.sent, g)
  BY <1>1, Zenon DEF Appended, Same
<1>4. /\ Len(d.sent) = Len(c.sent) + 1 /\ d.sent[Len(c.sent) + 1] = g
      /\ \A i \in 1..Len(c.sent) : d.sent[i] = c.sent[i]
  BY <1>2, <1>3, OneMore
<1>5. ASSUME NEW i \in 1..Len(d.sent) PROVE Fine(c.role, d.sent[i])
  <2>1. i \in 1..Len(c.sent) \/ i = Len(c.sent) + 1
    BY <1>2, <1>4
  <2> QED BY <1>2, <1>4, <2>1 DEF Talks
<1> QED BY <1>3, <1>4, <1>5 DEF Talks

LEMMA TalksReplied ==
  ASSUME NEW c \in Context, NEW d \in Context, Talks(c), Replied(c, d)
  PROVE  Talks(d) /\ Len(d.sent) <= Len(c.sent) + 1
<1>1. PICK f : f = c.additional_send
  OBVIOUS
<1>2. PICK g : g = Masked(c, f)
  OBVIOUS
<1>3. Len(c.sent) \in Nat /\ c.sent \in Seq(Frame)
  BY ContextFields
<1>4. /\ d.role = c.role /\ d.incomplete = c.incomplete /\ d.max_message_size = c.max_message_size
  BY DEF Replied, Same
<1>5. f # NoFrame => Waiting(c.role, f) /\ Fine(c.role, g) /\ g \in Frame
  BY <1>1, <1>2, MaskedFine DEF Talks, Fine, Waiting
<1>6. CASE d.sent = c.sent /\ d.additional_send = f
  BY <1>1, <1>3, <1>4, <1>6 DEF Talks
<1>7. CASE d.sent = c.sent /\ f # NoFrame /\ d.additional_send = g
  BY <1>3, <1>4, <1>5, <1>7 DEF Talks, Fine
<1>8. CASE f # NoFrame /\ d.additional_send = NoFrame /\ d.sent = Append(c.sent, g)
  <2>1. /\ Len(d.sent) = Len(c.sent) + 1 /\ d.sent[Len(c.sent) + 1] = g
        /\ \A i \in 1..Len(c.sent) : d.sent[i] = c.sent[i]
    BY <1>3, <1>5, <1>8, OneMore
  <2>2. ASSUME NEW i \in 1..Len(d.sent) PROVE Fine(c.role, d.sent[i])
    <3>1. i \in 1..Len(c.sent) \/ i = Len(c.sent) + 1
      BY <1>3, <2>1
    <3> QED BY <1>5, <1>8, <2>1, <3>1 DEF Talks
  <2> QED BY <1>3, <1>4, <1>8, <2>1, <2>2 DEF Talks
<1> QED BY <1>1, <1>2, <1>6, <1>7, <1>8 DEF Replied

\* The inductive invariant of one context.
Open(c) == Good(c) /\ Sound(c) /\ Talks(c)

\* An end that is closing has its close frame sent or queued, if there was room.
Committed(c) == c.state # "Active" => HasClose(c.sent) \/ c.additional_send.op = "Close"
Keeps(c, d) == Committed(c) /\ RoomToClose(c) => Committed(d)

LEMMA CommittedReplied ==
  ASSUME NEW c \in Context, NEW d \in Context, Committed(c), Replied(c, d),
         d.state # "Active" => c.state # "Active"
  PROVE  Committed(d)
<1> SUFFICES ASSUME d.state # "Active" PROVE HasClose(d.sent) \/ d.additional_send.op = "Close"
  BY DEF Committed
<1>1. PICK f, g : f = c.additional_send /\ g = Masked(c, f)
  OBVIOUS
<1>2. HasClose(c.sent) \/ f.op = "Close"
  BY <1>1 DEF Committed
<1>3. f \in Frame /\ g \in Frame /\ g.op = f.op /\ c.sent \in Seq(Frame)
  BY <1>1, MaskedType, ContextFields
<1>4. CASE d.sent = c.sent /\ d.additional_send \in {f, g}
  BY <1>2, <1>3, <1>4
<1>5. CASE d.sent = Append(c.sent, g)
  BY <1>2, <1>3, <1>5, OneMore
<1> QED BY <1>1, <1>4, <1>5 DEF Replied

\* The results of a call that puts at most n frames into the write buffer and
\* reads nothing.  Only a server that has received a close frame is told by it
\* that the connection is over.
Spoke(c, n) ==
  {r \in Steps(c) :
     /\ Open(r.c) /\ Len(r.c.sent) <= Len(c.sent) + n /\ Keeps(c, r.c)
     /\ r.err # "ResetWithoutClosingHandshake"
     /\ IF r.err = "ConnectionClosed"
          THEN c.role = "Server" /\ ~can_read(c)
          ELSE r.c.state # "Terminated" /\ (can_read(r.c) <=> can_read(c))}

LEMMA QuietSpoke ==
  ASSUME NEW c, Open(c), c.state # "Terminated" PROVE Quiet(c) \subseteq Spoke(c, 1)
<1> SUFFICES ASSUME NEW r \in Quiet(c) PROVE r \in Spoke(c, 1)
  OBVIOUS
<1>1. c \in Context
  BY DEF Open, Good
<1>2. /\ r \in Steps(c) /\ r.c \in Context /\ Good(r.c) /\ Replied(c, r.c) /\ MayEnd(c, r.c)
      /\ MayReport(c, r.err) /\ (r.err # "ConnectionClosed" => r.c.state = c.state)
  BY <1>1, Returned DEF Quiet
<1>3. Sound(r.c) /\ Talks(r.c) /\ Len(r.c.sent) <= Len(c.sent) + 1
  BY <1>1, <1>2, SoundReplied, TalksReplied DEF Open
<1>4. IF r.err = "ConnectionClosed"
        THEN c.role = "Server" /\ ~can_read(c)
        ELSE r.c.state # "Terminated" /\ (can_read(r.c) <=> can_read(c))
  BY <1>2, PlainAssumption DEF MayReport, can_read
<1>5. Keeps(c, r.c)
  BY <1>1, <1>2, CommittedReplied DEF Keeps, MayEnd, can_read
<1> QED BY <1>2, <1>3, <1>4, <1>5 DEF Spoke, Open, MayReport

\* A call that sends f from b, which is c but for its state.
LEMMA LoudSpoke ==
  ASSUME NEW c \in Context, NEW b, NEW f, Open(b), Follows(c, b), b.sent = c.sent,
         Waiting(b.role, f), ~HasClose(b.sent), b.additional_send.op # "Close",
         b.state = "ClosedByUs" \/ (b.state = "Active" /\ f.op # "Close"), can_read(c),
         b.state = "ClosedByUs" => /\ f.op = "Close"
                                   /\ RoomToClose(c) => can_buffer(b, FrameLen(Masked(b, f)))
  PROVE  Loud(b, f) \subseteq Spoke(c, 2)
<1> SUFFICES ASSUME NEW r \in Loud(b, f) PROVE r \in Spoke(c, 2)
  OBVIOUS
<1>1. b \in Context /\ can_read(b) /\ b.state # "Terminated" /\ Queued(b)
  BY DEF Open, Good, can_read, Sound
<1>2. r \in Steps(c) /\ r.c \in Context /\ Good(r.c) /\ f \in Frame
  BY <1>1, StepsTransitive, Returned DEF Loud, Waiting
<1>3. Len(b.sent) \in Nat
  BY <1>1, ContextFields
<1>4. CASE r = WriteBufferFull(b, Masked(b, f))
  <2>1. r.c = b /\ r.err = "WriteBufferFull"
    BY <1>4 DEF WriteBufferFull, Res
  <2>2. ~can_buffer(b, FrameLen(Masked(b, f)))
    BY <2>1 DEF Loud, MayReport
  <2>3. Keeps(c, r.c)
    BY <2>1, <2>2 DEF Keeps, Committed
  <2> QED BY <1>1, <1>2, <1>3, <2>1, <2>3 DEF Spoke
<1>5. CASE r # WriteBufferFull(b, Masked(b, f))
  <2>1. PICK d \in Context : Appended(b, f, d) /\ Replied(d, r.c)
    BY <1>5 DEF Loud
  <2>2. /\ MayEnd(b, r.c) /\ MayReport(b, r.err)
        /\ r.err # "ConnectionClosed" => r.c.state = b.state
    BY <1>5 DEF Loud
  <2>3. r.err \notin {"ConnectionClosed", "ResetWithoutClosingHandshake"} /\ r.c.state = b.state
    BY <1>1, <2>2 DEF MayReport
  <2>4. Sound(d) /\ MayEnd(d, r.c)
    BY <1>1, <1>2, <2>1, <2>3, SoundAppended, PlainAssumption DEF MayEnd, Appended
  <2>5. Talks(d) /\ Len(d.sent) = Len(b.sent) + 1
    BY <1>1, <2>1, TalksAppended DEF Open
  <2>6. Sound(r.c) /\ Talks(r.c) /\ Len(r.c.sent) <= Len(d.sent) + 1
    BY <1>2, <2>1, <2>4, <2>5, SoundReplied, TalksReplied
  <2>7. Len(r.c.sent) \in Nat /\ Len(r.c.sent) <= Len(c.sent) + 2
    BY <1>2, <1>3, <2>5, <2>6, ContextFields
  <2>8. can_read(r.c) /\ r.c.state # "Terminated"
    BY <1>1, <2>3 DEF can_read
  <2>9. Committed(d)
    <3>1. d.state = b.state /\ d.sent = Append(b.sent, Masked(b, f)) /\ b.sent \in Seq(Frame)
      BY <1>1, <2>1, ContextFields DEF Appended
    <3>2. Masked(b, f) \in Frame /\ Masked(b, f).op = f.op
      BY <1>2, MaskedType
    <3>3. f.op = "Close" => HasClose(d.sent)
      BY <3>1, <3>2, OneMore
    <3> QED BY <3>1, <3>3 DEF Committed
  <2>10. Keeps(c, r.c)
    <3>1. d.state = b.state
      BY <2>1 DEF Appended
    <3>2. Committed(r.c)
      BY <1>2, <2>1, <2>3, <2>9, <3>1, CommittedReplied
    <3> QED BY <3>2 DEF Keeps
  <2> QED BY <1>2, <2>3, <2>6, <2>7, <2>8, <2>10 DEF Spoke, Open
<1> QED BY <1>4, <1>5

LEMMA FlushSpoke ==
  ASSUME NEW c, Open(c), c.state # "Terminated" PROVE flush(c) \subseteq Spoke(c, 1)
BY FlushQuiet, QuietSpoke DEF Open

\* Fewer frames than allowed.
LEMMA SpokeLess ==
  ASSUME NEW c \in Context PROVE Spoke(c, 1) \subseteq Spoke(c, 2)
<1> SUFFICES ASSUME NEW r \in Spoke(c, 1) PROVE r \in Spoke(c, 2)
  OBVIOUS
<1>1. r.c \in Context /\ Len(r.c.sent) <= Len(c.sent) + 1
  BY Returned DEF Spoke
<1>2. Len(r.c.sent) <= Len(c.sent) + 2
  BY <1>1, ContextFields
<1> QED BY <1>2 DEF Spoke

LEMMA RoomForMasked ==
  ASSUME NEW c \in Context, NEW f \in CloseFrames, f \in Frame, is_active(c),
         RoomToClose(c), NEW d, d = [c EXCEPT !.state = "ClosedByUs"]
  PROVE  can_buffer(d, FrameLen(Masked(d, f)))
<1>1. d.out_buffer = c.out_buffer /\ d.max_out_buffer_len = c.max_out_buffer_len /\ d.role = c.role
  BY DEF Context
<1>2. PICK n, g, h : n = Len(c.out_buffer) /\ g = [f EXCEPT !.masked = TRUE] /\ h = Masked(d, f)
  OBVIOUS
<1>3. FrameLen(g) + n <= c.max_out_buffer_len /\ n \in Nat /\ c.max_out_buffer_len \in Nat
  BY <1>2, ContextFields DEF RoomToClose, is_active, can_buffer
<1>4. g.masked = TRUE /\ g.len = f.len /\ h.len = f.len /\ f.len \in Nat
  BY <1>2, MaskedType DEF Frame
<1>5. FrameLen(h) <= FrameLen(g) /\ FrameLen(h) \in Nat /\ FrameLen(g) \in Nat
  BY <1>4, HeaderLenAssumption, MaskLenAssumption DEF FrameLen
<1>6. FrameLen(h) + n <= c.max_out_buffer_len
  BY <1>3, <1>5
<1> QED BY <1>1, <1>2, <1>6 DEF can_buffer

LEMMA CloseSpoke ==
  ASSUME NEW c, Open(c), c.state # "Terminated", NEW f \in CloseFrames
  PROVE  close(c, f) \subseteq Spoke(c, 2)
<1>1. c \in Context /\ f \in Frame /\ f.op = "Close" /\ f # NoFrame /\ Waiting(c.role, f)
  <2>1. f.op = "Close" /\ f \in Frame
    BY CloseFrameIs DEF Acceptable
  <2>2. Waiting(c.role, f)
    BY SendableWaits DEF Sendable
  <2> QED BY <2>1, <2>2, NoFrameFields DEF Open, Good
<1>2. CASE ~is_active(c)
  <2>1. close(c, f) = flush(c)
    BY <1>2 DEF close
  <2> QED BY <1>1, <2>1, FlushSpoke, SpokeLess
<1>3. CASE is_active(c)
  <2> DEFINE d == [c EXCEPT !.state = "ClosedByUs"]
  <2>1. Good(d) /\ Follows(c, d) /\ close(c, f) \subseteq Loud(d, f)
    BY <1>1, <1>3, CloseLoud DEF Open
  <2>2. /\ d.additional_send = c.additional_send /\ d.sent = c.sent /\ d.role = c.role
        /\ d.incomplete = c.incomplete /\ d.max_message_size = c.max_message_size
        /\ d.state = "ClosedByUs"
    BY <1>1 DEF Context
  <2>3. ASSUME RoomToClose(c) PROVE can_buffer(d, FrameLen(Masked(d, f)))
    BY <1>1, <1>3, <2>3, RoomForMasked
  <2> HIDE DEF d
  <2>4. Queued(c) /\ ~HasClose(c.sent) /\ c.additional_send.op # "Close" /\ can_read(c)
    BY <1>1, <1>3, ActiveSound DEF Open
  <2>5. Sound(d) /\ Talks(d)
    BY <2>2, <2>4, PlainAssumption DEF Open, Sound, Queued, ClosesOnce, ReplyOwed, Talks
  <2>6. Loud(d, f) \subseteq Spoke(c, 2)
    BY <1>1, <2>1, <2>2, <2>4, <2>5, <2>3, LoudSpoke DEF Open
  <2> QED BY <2>1, <2>6
<1> QED BY <1>2, <1>3

LEMMA ErrSpoke ==
  ASSUME NEW c, Open(c), c.state # "Terminated", NEW e \in Error,
         e \notin {"ConnectionClosed", "ResetWithoutClosingHandshake"}
  PROVE  Err(c, e) \in Spoke(c, 2)
<1>1. c \in Context /\ Good(c) /\ Len(c.sent) \in Nat
  BY ContextFields DEF Open, Good
<1>2. Err(c, e) \in Steps(c)
  BY <1>1, FollowsReflexive, Returns
<1>3. Err(c, e).c = c /\ Err(c, e).err = e
  BY DEF Err, Res
<1> HIDE DEF Err
<1> QED BY <1>1, <1>2, <1>3 DEF Spoke, Keeps

\* A text, a binary message or a ping.
LEMMA WriteFrameSpoke ==
  ASSUME NEW c, Open(c), is_active(c), NEW f \in Sendable, f.op # "Close"
  PROVE  WriteAndFlush(c, f) \subseteq Spoke(c, 2)
<1>1. c \in Context /\ Follows(c, c) /\ f \in Frame /\ f # NoFrame /\ Waiting(c.role, f)
  <2>1. f \in Frame /\ f.op # "None"
    BY SendableIs DEF Acceptable
  <2> QED BY <2>1, FollowsReflexive, NoFrameFields, SendableWaits DEF Open, Good
<1>2. ~HasClose(c.sent) /\ c.additional_send.op # "Close" /\ can_read(c) /\ c.state = "Active"
  BY <1>1, ActiveSound DEF Open
<1>3. Loud(c, f) \subseteq Spoke(c, 2)
  BY <1>1, <1>2, LoudSpoke
<1> QED BY <1>1, <1>3, WriteAndFlushLoud DEF Open

LEMMA WritePongSpoke ==
  ASSUME NEW c, Open(c), is_active(c), NEW f \in Sendable, f.op = "Pong"
  PROVE  Then(_write(set_additional(c, f), NoFrame), LAMBDA r : {Ok(r.c)}) \subseteq Spoke(c, 2)
<1>1. c \in Context /\ f \in Frame /\ ~f.rsv1 /\ Waiting(c.role, f)
  <2>1. f \in Frame /\ f.rsv1 = FALSE
    BY SendableIs DEF Acceptable
  <2> QED BY <2>1, SendableWaits DEF Open, Good
<1>2. Queued(c) /\ ~HasClose(c.sent) /\ c.additional_send.op \in {"None", "Pong"}
      /\ can_read(c) /\ c.state = "Active"
  BY <1>1, ActiveSound DEF Open
<1> DEFINE d == set_additional(c, f)
<1>3. Good(d) /\ Follows(c, d) /\ d = [c EXCEPT !.additional_send = f]
  BY <1>1, <1>2, SetAdditional DEF set_additional, Open
<1>4. /\ d.additional_send = f /\ d.sent = c.sent /\ d.role = c.role
      /\ d.incomplete = c.incomplete /\ d.max_message_size = c.max_message_size
      /\ d.state = c.state
  BY <1>1, <1>3 DEF Context
<1> HIDE DEF d
<1>5. d \in Context /\ Open(d) /\ d.state # "Terminated" /\ can_read(d)
  <2>1. Sound(d)
    BY <1>1, <1>2, <1>4, PlainAssumption DEF Open, Sound, Queued, ClosesOnce, ReplyOwed
  <2>2. Talks(d)
    BY <1>1, <1>4 DEF Open, Talks
  <2> QED BY <1>2, <1>3, <1>4, <2>1, <2>2 DEF Open, Good, can_read
<1>6. ASSUME NEW r \in _write(d, NoFrame) PROVE r \in Spoke(c, 2) /\ r.err # "ConnectionClosed"
  <2>1. r \in Spoke(d, 2)
    BY <1>3, <1>5, UnderscoreWriteQuiet, QuietSpoke, SpokeLess
  <2>2. r \in Steps(c)
    BY <1>1, <1>3, <1>5, <2>1, StepsTransitive DEF Spoke
  <2>3. r.err # "ConnectionClosed"
    BY <1>5, <2>1 DEF Spoke
  <2>4. r.c.state = "Active"
    BY <1>2, <1>3, <1>4, <1>5, <2>3, UnderscoreWriteQuiet DEF Quiet
  <2> QED BY <1>2, <1>4, <1>5, <2>1, <2>2, <2>4 DEF Spoke, Keeps, Committed
<1>7. ASSUME NEW r \in _write(d, NoFrame) PROVE Ok(r.c) \in Spoke(c, 2)
  <2>1. r \in Spoke(c, 2) /\ Good(r.c) /\ Follows(c, r.c) /\ r.err # "ConnectionClosed"
    BY <1>1, <1>6, <1>7, Returned DEF Spoke
  <2>2. Ok(r.c) \in Steps(c) /\ Ok(r.c).c = r.c /\ Ok(r.c).err = "None"
    BY <2>1, Returns DEF Ok, Res
  <2> QED BY <2>1, <2>2 DEF Spoke
<1> QED BY <1>6, <1>7 DEF Then, d

LEMMA WriteSpoke ==
  ASSUME NEW c, Open(c), c.state # "Terminated", NEW m \in Messages
  PROVE  write(c, m) \subseteq Spoke(c, 2)
<1>1. PICK k, f : k = m.kind /\ f = m.frame
  OBVIOUS
<1>2. /\ k \in {"Text", "Binary", "Ping", "Pong", "Close"} /\ f.op = k
      /\ f \in Sendable /\ (k = "Close" => f \in CloseFrames)
  BY <1>1, MessageIs, Zenon DEF Sendable
<1> DEFINE data == Then(prepare_data(c, f), LAMBDA p : WriteAndFlush(p.c, p.msg))
           pong == Then(_write(set_additional(c, f), NoFrame), LAMBDA r : {Ok(r.c)})
<1>3. Err(c, "AlreadyClosed") \in Spoke(c, 2) /\ Err(c, "SendAfterClosing") \in Spoke(c, 2)
  BY ErrSpoke DEF Error
<1>4. data = WriteAndFlush(c, f)
  <2> DEFINE G(p) == WriteAndFlush(p.c, p.msg)
  <2>1. prepare_data(c, f) = {Value(c, f)}
    BY PlainAssumption DEF prepare_data
  <2>2. Value(c, f).c = c /\ Value(c, f).msg = f /\ Value(c, f).err = "None"
    BY DEF Value, Res
  <2>3. data = {r \in {Value(c, f)} : r.err # "None"}
                 \cup UNION {G(r) : r \in {s \in {Value(c, f)} : s.err = "None"}}
    BY <2>1 DEF Then
  <2>4. G(Value(c, f)) = WriteAndFlush(c, f)
    BY <2>2, Zenon
  <2> HIDE DEF G, data
  <2> QED BY <2>2, <2>3, <2>4
<1>5. is_active(c) /\ k \in {"Text", "Binary", "Ping"}
        => WriteAndFlush(c, f) \subseteq Spoke(c, 2)
  BY <1>2, WriteFrameSpoke
<1>6. is_active(c) /\ k = "Pong" => pong \subseteq Spoke(c, 2)
  <2> SUFFICES ASSUME is_active(c), k = "Pong" PROVE pong \subseteq Spoke(c, 2)
    OBVIOUS
  <2>1. f \in Sendable /\ f.op = "Pong"
    BY <1>2
  <2> QED BY <2>1, WritePongSpoke, Zenon
<1>7. k = "Close" => close(c, f) \subseteq Spoke(c, 2)
  BY <1>2, CloseSpoke
<1>8. write(c, m) =
        CASE c.state = "Terminated" -> {Err(c, "AlreadyClosed")}
          [] c.state # "Terminated" /\ ~is_active(c) -> {Err(c, "SendAfterClosing")}
          [] is_active(c) /\ k \in {"Text", "Binary"} -> data
          [] is_active(c) /\ k = "Ping" -> WriteAndFlush(c, f)
          [] is_active(c) /\ k = "Pong" -> pong
          [] is_active(c) /\ k = "Close" -> close(c, f)
          [] is_active(c) /\ k = "Frame" ->
               IF f.rsv1 /\ Deflate
                 THEN {Err(c, "NonZeroReservedBits")} ELSE WriteAndFlush(c, f)
  BY <1>1 DEF write, Then
<1> HIDE DEF data, pong
<1> QED BY <1>2, <1>3, <1>4, <1>5, <1>6, <1>7, <1>8 DEF is_active

\* A context that is like c in all that Sound and Talks speak of, but may have ended.
LEMMA EndedOpen ==
  ASSUME NEW c, Open(c)
  PROVE  LET d == [c EXCEPT !.state = "Terminated"]
         IN  /\ Open(d) /\ Follows(c, d) /\ d.sent = c.sent /\ d.wire = c.wire
             /\ d.state = "Terminated" /\ d \in Context
             /\ c.state # "Active" => Keeps(c, d)
<1> DEFINE d == [c EXCEPT !.state = "Terminated"]
<1>1. c \in Context
  BY DEF Open, Good
<1>2. Good(d) /\ Follows(c, d)
  BY Assign DEF WebSocketState, MayFollow, Open
<1>3. /\ d.additional_send = c.additional_send /\ d.sent = c.sent /\ d.role = c.role
      /\ d.incomplete = c.incomplete /\ d.max_message_size = c.max_message_size
      /\ d.state = "Terminated" /\ d.wire = c.wire
  BY <1>1 DEF Context
<1> HIDE DEF d
<1>4. Sound(d) /\ Talks(d)
  BY <1>3, PlainAssumption DEF Open, Sound, Queued, ClosesOnce, ReplyOwed, Talks
<1>5. /\ Open(d) /\ Follows(c, d) /\ d.sent = c.sent /\ d.wire = c.wire
      /\ d.state = "Terminated" /\ d \in Context
      /\ c.state # "Active" => Keeps(c, d)
  BY <1>2, <1>3, <1>4 DEF Open, Good, Keeps, Committed
<1> QED BY <1>5 DEF d

LEMMA PrepareSpoke ==
  ASSUME NEW c, Open(c), c.state # "Terminated" PROVE ReadPrepare(c) \subseteq Spoke(c, 1)
<1> SUFFICES ASSUME NEW r \in ReadPrepare(c) PROVE r \in Spoke(c, 1)
  OBVIOUS
<1>1. c \in Context /\ Good(c) /\ r \in Steps(c) /\ Len(c.sent) \in Nat
  BY ReadPrepareGood, ContextFields DEF Open, Good
<1> DEFINE d == [c EXCEPT !.state = "Terminated"]
           Q(s) == IF s.err = "WouldBlock"
                     THEN Ok([s.c EXCEPT !.unflushed_additional = TRUE]) ELSE s
<1>2. \/ \E s \in flush(c) : r = Q(s)
      \/ c.role = "Server" /\ ~can_read(c) /\ r = Err(d, "ConnectionClosed")
      \/ r = Ok(c)
  BY DEF ReadPrepare
<1>3. ASSUME NEW s \in flush(c), r = Q(s) PROVE r \in Spoke(c, 1)
  <2>1. s \in Spoke(c, 1) /\ s.c \in Context
    BY <1>1, <1>3, FlushSpoke, Returned DEF Spoke
  <2>2. CASE s.err # "WouldBlock"
    BY <1>3, <2>1, <2>2
  <2>3. CASE s.err = "WouldBlock"
    <3> DEFINE e == [s.c EXCEPT !.unflushed_additional = TRUE]
    <3>1. r.c = e /\ r.err = "None"
      BY <1>3, <2>3 DEF Ok, Res
    <3>2. Unmoved(s.c, e)
      BY <2>1 DEF Unmoved, Same, Context
    <3> HIDE DEF e
    <3>3. Good(e)
      BY <1>1, <3>1 DEF Steps
    <3>4. Sound(e) /\ Talks(e) /\ e.sent = s.c.sent /\ e.state = s.c.state
      BY <2>1, <3>2, PlainAssumption
         DEF Spoke, Open, Unmoved, Same, Sound, Queued, ClosesOnce, ReplyOwed, Talks
    <3>5. e.state # "Terminated" /\ (can_read(e) <=> can_read(c)) /\ Len(e.sent) <= Len(c.sent) + 1
      BY <2>1, <2>3, <3>4 DEF Spoke, can_read
    <3>6. e.additional_send = s.c.additional_send /\ Keeps(c, s.c)
      BY <2>1, <3>2 DEF Unmoved, Spoke
    <3>7. Keeps(c, e)
      BY <3>4, <3>6 DEF Keeps, Committed
    <3> QED BY <1>1, <3>1, <3>3, <3>4, <3>5, <3>7 DEF Spoke, Open
  <2> QED BY <2>2, <2>3
<1>4. CASE c.role = "Server" /\ ~can_read(c) /\ r = Err(d, "ConnectionClosed")
  <2>1. r.c = d /\ r.err = "ConnectionClosed"
    BY <1>4 DEF Err, Res
  <2>2. Open(d) /\ d.sent = c.sent /\ (c.state # "Active" => Keeps(c, d))
    BY EndedOpen
  <2> HIDE DEF d
  <2>3. c.state # "Active"
    BY <1>4 DEF can_read
  <2> QED BY <1>1, <1>4, <2>1, <2>2, <2>3 DEF Spoke
<1>5. CASE r = Ok(c)
  <2>1. r.c = c /\ r.err = "None"
    BY <1>5 DEF Ok, Res
  <2> QED BY <1>1, <2>1 DEF Spoke, Keeps
<1> QED BY <1>2, <1>3, <1>4, <1>5

\* The end of the stream, and a stream that would block.
LEMMA ReadNothing ==
  ASSUME NEW c, Open(c), c.state # "Terminated"
  PROVE  /\ \A q \in read_message_frame(c, EofInput) :
              /\ Open(q.c) /\ Follows(c, q.c) /\ q.c.sent = c.sent /\ q.c \in Context
              /\ ~can_read(c) => q.c.state # "Active" /\ Keeps(c, q.c)
              /\ q.err = IF can_read(c) THEN "ResetWithoutClosingHandshake"
                         ELSE "ConnectionClosed"
         /\ \A q \in read_message_frame(c, ErrorInput("WouldBlock")) :
              q.c = c /\ q.err = "WouldBlock"
<1>1. ASSUME NEW q \in read_message_frame(c, EofInput)
      PROVE  /\ Open(q.c) /\ Follows(c, q.c) /\ q.c.sent = c.sent /\ q.c \in Context
             /\ ~can_read(c) => q.c.state # "Active" /\ Keeps(c, q.c)
             /\ q.err = IF can_read(c) THEN "ResetWithoutClosingHandshake"
                        ELSE "ConnectionClosed"
  <2> DEFINE d == [c EXCEPT !.state = "Terminated"]
  <2>1. c.state \in WebSocketState
    BY ContextFields DEF Open, Good
  <2>2. /\ q.c = d
        /\ q.err = IF c.state \in {"ClosedByPeer", "CloseAcknowledged"}
                     THEN "ConnectionClosed" ELSE "ResetWithoutClosingHandshake"
    BY <1>1 DEF read_message_frame, EofInput, Err, Res
  <2>3. /\ Open(d) /\ Follows(c, d) /\ d.sent = c.sent /\ d \in Context
        /\ d.state = "Terminated" /\ (c.state # "Active" => Keeps(c, d))
    BY EndedOpen
  <2> HIDE DEF d
  <2> QED BY <2>1, <2>2, <2>3 DEF can_read, WebSocketState
<1>2. ASSUME NEW q \in read_message_frame(c, ErrorInput("WouldBlock"))
      PROVE  q.c = c /\ q.err = "WouldBlock"
  BY <1>2 DEF read_message_frame, ErrorInput, check_connection_reset, Err, Res
<1> QED BY <1>1, <1>2

\* A frame of the other end is what it was before it was masked.
LEMMA FineFields ==
  ASSUME NEW role, NEW f, Fine(role, f)
  PROVE  /\ f \in Frame /\ Plain(f) \in Sendable /\ f.len \in Nat
         /\ f.fin = TRUE /\ f.rsv1 = FALSE /\ f.rsv23 = FALSE /\ f.utf8 = "ok"
         /\ f.op \in {"Text", "Binary", "Ping", "Pong", "Close"}
         /\ f.op \in {"Text", "Binary"} => f.len <= InitConfig.max_message_size
         /\ f.op \notin {"Text", "Binary"} => f.len <= ControlMax
         /\ f.op # "Close" => Plain(f) = MakeFrame(f.op, f.len) /\ f.code = "none"
         /\ f.op = "Ping" => MakeFrame("Pong", f.len) \in Sendable
         /\ f.op = "Close" => /\ f.len # 1 /\ f.code # "disallowed" /\ (f.code # "none" => f.len > 1)
                              /\ Plain(f) = CloseFrame(f.code, f.len)
         /\ Plain(f).op = f.op
<1>1. PICK g : g = Plain(f)
  OBVIOUS
<1>2. f \in Frame /\ g \in Sendable
  BY <1>1 DEF Fine, Waiting
<1>3. /\ Acceptable(g) /\ g \in Frame
      /\ g.op = "Ping" => MakeFrame("Pong", g.len) \in Sendable
  BY <1>2, SendableIs DEF Acceptable
<1>4. /\ g.op = f.op /\ g.len = f.len /\ g.fin = f.fin /\ g.rsv1 = f.rsv1 /\ g.rsv23 = f.rsv23
      /\ g.utf8 = f.utf8 /\ g.code = f.code
  BY <1>1, <1>2 DEF Plain, Frame
<1>5. /\ g.op \in {"Text", "Binary", "Ping", "Pong", "Close"}
      /\ g.op \in {"Text", "Binary"} => g.len <= InitConfig.max_message_size
      /\ g.op \notin {"Text", "Binary"} => g.len <= ControlMax
      /\ g.op # "Close" => g = MakeFrame(g.op, g.len)
      /\ g.op = "Close" => /\ g.len # 1 /\ g.code # "disallowed" /\ (g.code # "none" => g.len > 1)
                           /\ g = CloseFrame(g.code, g.len)
  BY <1>3 DEF Acceptable
<1>6. /\ g.fin = TRUE /\ g.rsv1 = FALSE /\ g.rsv23 = FALSE /\ g.utf8 = "ok" /\ g.len \in Nat
      /\ g.op # "Close" => g.code = "none"
  <2>1. CASE g.op # "Close"
    BY <1>3, <1>5, <2>1 DEF MakeFrame, Frame
  <2>2. CASE g.op = "Close"
    BY <1>3, <1>5, <2>2 DEF CloseFrame, MakeFrame, Frame
  <2> QED BY <2>1, <2>2
<1>7. /\ f.fin = TRUE /\ f.rsv1 = FALSE /\ f.rsv23 = FALSE /\ f.utf8 = "ok" /\ f.len \in Nat
      /\ f.op # "Close" => f.code = "none"
  BY <1>4, <1>6
<1>8. /\ f.op \in {"Text", "Binary", "Ping", "Pong", "Close"}
      /\ f.op \in {"Text", "Binary"} => f.len <= InitConfig.max_message_size
      /\ f.op \notin {"Text", "Binary"} => f.len <= ControlMax
      /\ f.op # "Close" => g = MakeFrame(f.op, f.len)
      /\ f.op = "Close" => /\ f.len # 1 /\ f.code # "disallowed" /\ (f.code # "none" => f.len > 1)
                           /\ g = CloseFrame(f.code, f.len)
      /\ f.op = "Ping" => MakeFrame("Pong", f.len) \in Sendable
  BY <1>3, <1>4, <1>5, Zenon
<1> QED BY <1>1, <1>2, <1>4, <1>7, <1>8, Zenon

\* The checks of read_message_frame pass.
LEMMA FrameAccepted ==
  ASSUME NEW c, Open(c), NEW f, Fine(Peer(c.role), f)
  PROVE  read_message_frame(c, FrameInput(f)) =
           IF ~can_read(c) THEN {Err(c, "ReceivedAfterClosing")}
           ELSE IF IsData(f) THEN {Value(c, Plain(f))}
           ELSE {ReceiveControl(c, f)}
<1>1. c.role \in Role /\ c.incomplete = NoMessage /\ c.max_message_size = InitConfig.max_message_size
  BY ContextFields DEF Open, Good, Talks
<1>2. /\ c.role = "Server" => f.masked = TRUE
      /\ c.role = "Client" => f.masked = FALSE
  BY DEF Peer, Fine, Waiting
<1>3. /\ f.fin = TRUE /\ f.rsv1 = FALSE /\ f.rsv23 = FALSE /\ f.utf8 = "ok" /\ f.len \in Nat
      /\ f.op \in {"Text", "Binary"} => f.len <= InitConfig.max_message_size
      /\ f.op \in {"Text", "Binary", "Ping", "Pong", "Close"}
      /\ f.op # "Close" => Plain(f) = MakeFrame(f.op, f.len)
  BY FineFields
<1>4. read_message_frame(c, FrameInput(f)) = ReceiveFrame(c, f)
  BY DEF read_message_frame, FrameInput
<1>5. ~reserved_bits_set(f)
  BY <1>3, PlainAssumption DEF reserved_bits_set
<1>6. ASSUME IsData(f)
      PROVE  Then(InflateData(c, f), LAMBDA r : ReceiveData(r.c, r.msg)) = {Value(c, Plain(f))}
  <2> DEFINE G(r) == ReceiveData(r.c, r.msg)
             S == Then(InflateData(c, f), LAMBDA r : ReceiveData(r.c, r.msg))
  <2>1. InflateData(c, f) = {Value(c, f)}
    BY PlainAssumption DEF InflateData
  <2>2. Value(c, f).c = c /\ Value(c, f).msg = f /\ Value(c, f).err = "None"
    BY DEF Value, Res
  <2>3. S = {r \in {Value(c, f)} : r.err # "None"}
              \cup UNION {G(r) : r \in {s \in {Value(c, f)} : s.err = "None"}}
    BY <2>1 DEF Then
  <2>4. G(Value(c, f)) = ReceiveData(c, f)
    BY <2>2, Zenon
  <2>5. f.op \in {"Text", "Binary"} /\ f.op # "Continue" /\ ~(f.len > c.max_message_size)
        /\ f.len <= c.max_message_size
    BY <1>1, <1>3, <1>6, ConnectionAssumption DEF IsData, DataOp
  <2>6. ReceiveData(c, f) = {Value(c, Message(f.op, f.len))}
    BY <1>1, <1>3, <2>5 DEF ReceiveData
  <2>7. Message(f.op, f.len) = Plain(f)
    BY <1>3, <2>5 DEF Message
  <2> HIDE DEF G, S
  <2>8. S = {Value(c, Plain(f))}
    BY <2>2, <2>3, <2>4, <2>6, <2>7
  <2> QED BY <2>8 DEF S
<1>7. ReceiveFrame(c, f) =
        IF ~can_read(c) THEN {Err(c, "ReceivedAfterClosing")}
        ELSE IF IsData(f) THEN Then(InflateData(c, f), LAMBDA r : ReceiveData(r.c, r.msg))
        ELSE {ReceiveControl(c, f)}
  BY <1>1, <1>2, <1>5, Zenon DEF ReceiveFrame
<1> QED BY <1>4, <1>6, <1>7, Zenon

\* What a control frame of the other end does.
LEMMA ControlAccepted ==
  ASSUME NEW c, Open(c), can_read(c), NEW f, Fine(Peer(c.role), f), ~IsData(f)
  PROVE  LET q == ReceiveControl(c, f)
         IN  /\ q.err = "None" /\ q.msg = Plain(f) /\ q.c.role = c.role
             /\ q.c.additional_send \in {c.additional_send, Plain(f), MakeFrame("Pong", f.len)}
             /\ q.c.additional_send = MakeFrame("Pong", f.len)
                  => q.c.additional_send = c.additional_send \/ f.op = "Ping"
             /\ q.c.state # "Terminated" /\ (can_read(q.c) <=> f.op # "Close")
             /\ Committed(c) => Committed(q.c)
<1> DEFINE Q(q) ==
             /\ q.err = "None" /\ q.msg = Plain(f) /\ q.c.role = c.role
             /\ q.c.additional_send \in {c.additional_send, Plain(f), MakeFrame("Pong", f.len)}
             /\ q.c.additional_send = MakeFrame("Pong", f.len)
                  => q.c.additional_send = c.additional_send \/ f.op = "Ping"
             /\ q.c.state # "Terminated" /\ (can_read(q.c) <=> f.op # "Close")
             /\ Committed(c) => Committed(q.c)
<1>1. /\ f.fin = TRUE /\ f.utf8 = "ok" /\ f.len \in Nat /\ f.len <= ControlMax
      /\ f.op \in {"Ping", "Pong", "Close"}
      /\ f.op # "Close" => Plain(f) = MakeFrame(f.op, f.len)
      /\ f.op = "Close" => /\ f.len # 1 /\ f.code # "disallowed"
                           /\ Plain(f) = CloseFrame(f.code, f.len)
      /\ Plain(f).op = f.op
  BY FineFields DEF IsData, DataOp
<1>2. c \in Context /\ Sound(c)
  BY DEF Open, Good
<1>3. \A d, m : Value(d, m).c = d /\ Value(d, m).err = "None" /\ Value(d, m).msg = m
  BY DEF Value, Res
<1>4. CASE f.op = "Pong"
  <2>1. ReceiveControl(c, f) = Value(c, Plain(f))
    BY <1>1, <1>4, ControlMaxAssumption DEF ReceiveControl, Message
  <2>2. c.state # "Terminated"
    BY DEF can_read
  <2> QED BY <1>3, <1>4, <2>1, <2>2
<1>5. CASE f.op = "Ping" /\ ~is_active(c)
  <2>1. ReceiveControl(c, f) = Value(c, Plain(f))
    BY <1>1, <1>5, ControlMaxAssumption DEF ReceiveControl, Message
  <2>2. c.state # "Terminated"
    BY DEF can_read
  <2> QED BY <1>3, <1>5, <2>1, <2>2
<1>6. CASE f.op = "Ping" /\ is_active(c)
  <2>1. PICK g : g = MakeFrame("Pong", f.len)
    OBVIOUS
  <2>2. PICK d : d = [c EXCEPT !.additional_send = g]
    OBVIOUS
  <2>3. c.additional_send.op \in {"None", "Pong"} /\ can_read(c) /\ c.state = "Active"
    BY <1>2, <1>6, ActiveSound
  <2>4. set_additional(c, g) = d
    BY <2>2, <2>3 DEF set_additional
  <2>5. ReceiveControl(c, f) = Value(set_additional(c, g), Plain(f))
    BY <1>1, <1>6, <2>1, ControlMaxAssumption DEF ReceiveControl, Message
  <2>6. d.role = c.role /\ d.additional_send = g /\ d.state = c.state
    BY <1>2, <2>2 DEF Context
  <2>7. can_read(d) /\ d.state # "Terminated"
    BY <2>3, <2>6 DEF can_read
  <2>8. PICK q : q = ReceiveControl(c, f)
    OBVIOUS
  <2>9. q.c = d /\ q.err = "None" /\ q.msg = Plain(f)
    <3>1. q = Value(d, Plain(f))
      BY <2>4, <2>5, <2>8, Zenon
    <3> QED BY <3>1 DEF Value, Res
  <2>10. Q(q)
    BY <1>6, <2>1, <2>3, <2>6, <2>7, <2>9 DEF Committed
  <2> QED BY <2>8, <2>10
<1>7. CASE f.op = "Close" /\ c.state = "Active"
  <2>1. PICK g : g = Plain(f)
    OBVIOUS
  <2>2. PICK d : d = [[c EXCEPT !.state = "ClosedByPeer"] EXCEPT !.additional_send = g]
    OBVIOUS
  <2>3. c.additional_send.op \in {"None", "Pong"}
    BY <1>2, <1>7, ActiveSound DEF is_active
  <2>4. CloseReply(f) = g
    BY <1>1, <1>7, <2>1 DEF CloseReply
  <2>5. ReceiveControl(c, f) = do_close(c, f)
    BY <1>1, <1>7, ControlMaxAssumption DEF ReceiveControl
  <2>6. [c EXCEPT !.state = "ClosedByPeer"].additional_send = c.additional_send
    BY <1>2 DEF Context
  <2>7. set_additional([c EXCEPT !.state = "ClosedByPeer"], g) = d
    BY <2>2, <2>3, <2>6 DEF set_additional
  <2>8. do_close(c, f) = Value(d, g)
    BY <1>7, <2>4, <2>7 DEF do_close
  <2>9. d.role = c.role /\ d.additional_send = g /\ d.state = "ClosedByPeer"
    BY <1>2, <2>2 DEF Context
  <2>10. PICK q : q = ReceiveControl(c, f)
    OBVIOUS
  <2>11. q.c = d /\ q.err = "None" /\ q.msg = g
    <3>1. q = Value(d, g)
      BY <2>5, <2>8, <2>10, Zenon
    <3> QED BY <3>1 DEF Value, Res
  <2>12. g # MakeFrame("Pong", f.len)
    BY <1>1, <1>7, <2>1 DEF MakeFrame
  <2>13. Q(q)
    BY <1>1, <1>7, <2>1, <2>9, <2>11, <2>12 DEF can_read, Committed
  <2> QED BY <2>10, <2>13
<1>8. CASE f.op = "Close" /\ c.state = "ClosedByUs"
  <2>1. PICK d : d = [c EXCEPT !.state = "CloseAcknowledged"]
    OBVIOUS
  <2>2. ReceiveControl(c, f) = do_close(c, f)
    BY <1>1, <1>8, ControlMaxAssumption DEF ReceiveControl
  <2>3. do_close(c, f) = Value(d, Plain(f))
    BY <1>1, <1>8, <2>1 DEF do_close
  <2>4. /\ d.role = c.role /\ d.additional_send = c.additional_send /\ d.sent = c.sent
        /\ d.state = "CloseAcknowledged"
    BY <1>2, <2>1 DEF Context
  <2>5. PICK q : q = ReceiveControl(c, f)
    OBVIOUS
  <2>6. q.c = d /\ q.err = "None" /\ q.msg = Plain(f)
    <3>1. q = Value(d, Plain(f))
      BY <2>2, <2>3, <2>5, Zenon
    <3> QED BY <3>1 DEF Value, Res
  <2>7. Q(q)
    BY <1>8, <2>4, <2>6 DEF can_read, Committed
  <2> QED BY <2>5, <2>7
<1> QED
  <2>1. \/ f.op = "Pong" \/ (f.op = "Ping" /\ ~is_active(c)) \/ (f.op = "Ping" /\ is_active(c))
        \/ (f.op = "Close" /\ c.state = "Active") \/ (f.op = "Close" /\ c.state = "ClosedByUs")
    BY <1>1 DEF can_read
  <2> QED BY <1>4, <1>5, <1>6, <1>7, <1>8, <2>1, Zenon

\* A frame of the other end is delivered as it was sent, unless a close frame came
\* before it.
LEMMA ReadFrame ==
  ASSUME NEW c, Open(c), c.state # "Terminated", NEW f, Fine(Peer(c.role), f),
         NEW q \in read_message_frame(c, FrameInput(f))
  PROVE  IF can_read(c)
           THEN /\ Open(q.c) /\ Follows(c, q.c) /\ q.c.sent = c.sent
                /\ q.err = "None" /\ q.msg = Plain(f)
                /\ q.c.state # "Terminated" /\ (can_read(q.c) <=> f.op # "Close")
                /\ Committed(c) => Committed(q.c)
           ELSE q.c = c /\ q.err = "ReceivedAfterClosing"
<1>1. c \in Context /\ Good(c) /\ Follows(c, c)
  BY FollowsReflexive DEF Open, Good
<1>2. read_message_frame(c, FrameInput(f)) =
        IF ~can_read(c) THEN {Err(c, "ReceivedAfterClosing")}
        ELSE IF IsData(f) THEN {Value(c, Plain(f))}
        ELSE {ReceiveControl(c, f)}
  BY FrameAccepted
<1>3. /\ f \in Frame /\ Plain(f) \in Sendable
      /\ f.op = "Ping" => MakeFrame("Pong", f.len) \in Sendable
      /\ f.code # "none" => f.len > 1
  BY FineFields
<1>4. CASE ~can_read(c)
  <2>1. q = Err(c, "ReceivedAfterClosing")
    BY <1>2, <1>4
  <2>2. q.c = c /\ q.err = "ReceivedAfterClosing"
    BY <2>1 DEF Err, Res
  <2> QED BY <1>4, <2>2
<1>5. CASE can_read(c) /\ IsData(f)
  <2>1. q = Value(c, Plain(f))
    BY <1>2, <1>5
  <2>2. q.c = c /\ q.err = "None" /\ q.msg = Plain(f)
    BY <2>1 DEF Value, Res
  <2> QED BY <1>1, <1>5, <2>2 DEF IsData, DataOp
<1>6. CASE can_read(c) /\ ~IsData(f)
  <2>1. q = ReceiveControl(c, f)
    BY <1>2, <1>6
  <2>2. Good(q.c) /\ Follows(c, q.c)
    BY <1>1, <1>3, <2>1, ReceiveControlGood, Returned
  <2>3. /\ Sound(q.c) /\ q.c.sent = c.sent /\ q.c.incomplete = c.incomplete
        /\ q.c.max_message_size = c.max_message_size
    BY <1>1, <1>3, <1>6, <2>1, ReceiveControlSound DEF Open
  <2>4. /\ q.err = "None" /\ q.msg = Plain(f) /\ q.c.role = c.role
        /\ q.c.additional_send \in {c.additional_send, Plain(f), MakeFrame("Pong", f.len)}
        /\ q.c.additional_send = MakeFrame("Pong", f.len)
             => q.c.additional_send = c.additional_send \/ f.op = "Ping"
        /\ q.c.state # "Terminated" /\ (can_read(q.c) <=> f.op # "Close")
        /\ Committed(c) => Committed(q.c)
    BY <1>6, <2>1, ControlAccepted
  <2>5. q.c.additional_send = c.additional_send \/ Waiting(c.role, q.c.additional_send)
    BY <1>3, <2>4, SendableWaits, Zenon
  <2>6. Talks(q.c)
    BY <2>3, <2>4, <2>5 DEF Open, Talks
  <2> QED BY <1>6, <2>2, <2>3, <2>4, <2>6 DEF Open
<1> QED BY <1>4, <1>5, <1>6

-----------------------------------------------------------------------------
(* The stream *)

\* The last byte the stream accepted belongs to a frame that was sent.
LEMMA WireByte ==
  ASSUME NEW c, Good(c), NEW k \in 1..Len(c.wire)
  PROVE  /\ c.wire[k][1] \in 1..Len(c.sent)
         /\ c.wire[k][2] \in 1..FrameLen(c.sent[c.wire[k][1]])
<1>1. c.wire \in Seq(Byte) /\ c.out_buffer \in Seq(Byte) /\ Len(c.wire) \in Nat
  BY ContextFields DEF Good
<1>2. PICK w : w = c.wire \o c.out_buffer
  OBVIOUS
<1>3. Begins(c.wire, w) /\ Framed(w, c.sent)
  BY <1>1, <1>2, BeginsConcat DEF Good
<1>4. Len(w) \in Nat
  <2>1. w \in Seq(Byte)
    BY <1>1, <1>2, ConcatProperties
  <2> QED BY <2>1, LenProperties
<1>5. k \in 1..Len(w) /\ w[k] = c.wire[k]
  BY <1>1, <1>3, <1>4 DEF Begins
<1> QED BY <1>3, <1>5 DEF Framed

LEMMA WireAscends ==
  ASSUME NEW c, Good(c), NEW k \in 1..Len(c.wire), NEW l \in 1..Len(c.wire), k < l
  PROVE  \/ c.wire[k][1] < c.wire[l][1]
         \/ c.wire[k][1] = c.wire[l][1] /\ c.wire[k][2] < c.wire[l][2]
<1>1. c.wire \in Seq(Byte) /\ c.out_buffer \in Seq(Byte) /\ Len(c.wire) \in Nat
  BY ContextFields DEF Good
<1>2. PICK w : w = c.wire \o c.out_buffer
  OBVIOUS
<1>3. Begins(c.wire, w) /\ Ascending(w)
  BY <1>1, <1>2, BeginsConcat DEF Good
<1>4. Len(w) \in Nat
  <2>1. w \in Seq(Byte)
    BY <1>1, <1>2, ConcatProperties
  <2> QED BY <2>1, LenProperties
<1>5. k \in 1..Len(w) /\ l \in 1..Len(w) /\ w[k] = c.wire[k] /\ w[l] = c.wire[l]
  BY <1>1, <1>3, <1>4 DEF Begins
<1> QED BY <1>3, <1>5 DEF Ascending

\* Arrived, of a stream that has accepted n bytes.
LEMMA ArrivedIs ==
  ASSUME NEW c, Good(c)
  PROVE  /\ c.wire = <<>> => Arrived(c) = 0
         /\ c.wire # <<>> =>
              /\ Len(c.wire) \in 1..Len(c.wire)
              /\ LET b == c.wire[Len(c.wire)]
                 IN  Arrived(c) = IF b[2] = FrameLen(c.sent[b[1]]) THEN b[1] ELSE b[1] - 1
<1>1. c.wire \in Seq(Byte) /\ Len(c.wire) \in Nat
  BY ContextFields DEF Good
<1>2. c.wire # <<>> => Len(c.wire) \in 1..Len(c.wire)
  BY <1>1
<1> QED BY <1>2 DEF Arrived

LEMMA ArrivedType ==
  ASSUME NEW c, Good(c) PROVE Arrived(c) \in Nat /\ Arrived(c) <= Len(c.sent)
<1>1. Len(c.sent) \in Nat
  BY ContextFields DEF Good
<1>2. CASE c.wire = <<>>
  BY <1>1, <1>2, ArrivedIs
<1>3. CASE c.wire # <<>>
  <2>1. PICK b : b = c.wire[Len(c.wire)]
    OBVIOUS
  <2>2. b[1] \in 1..Len(c.sent)
    BY <1>3, <2>1, ArrivedIs, WireByte
  <2>3. Arrived(c) \in {b[1], b[1] - 1}
    BY <1>3, <2>1, ArrivedIs
  <2> QED BY <1>1, <2>2, <2>3
<1> QED BY <1>2, <1>3

\* A frame that has arrived stays so.
LEMMA ArrivedGrows ==
  ASSUME NEW c, Good(c), NEW d, Good(d), Begins(c.wire, d.wire), Begins(c.sent, d.sent)
  PROVE  Arrived(c) <= Arrived(d)
<1>1. /\ Arrived(c) \in Nat /\ Arrived(d) \in Nat /\ Len(c.wire) \in Nat /\ Len(d.wire) \in Nat
      /\ c.wire \in Seq(Byte) /\ d.wire \in Seq(Byte)
      /\ c.sent \in Seq(Frame) /\ Len(c.sent) \in Nat
  BY ArrivedType, ContextFields DEF Good
<1>2. CASE c.wire = <<>>
  BY <1>1, <1>2, ArrivedIs
<1>3. CASE c.wire # <<>>
  <2>1. PICK k, l, x, y : /\ k = Len(c.wire) /\ l = Len(d.wire)
                          /\ x = c.wire[k] /\ y = d.wire[l]
    OBVIOUS
  <2>2. k \in 1..Len(c.wire) /\ k <= l /\ k \in Nat /\ l \in Nat
    BY <1>1, <1>3, <2>1, ArrivedIs DEF Begins
  <2>3. d.wire # <<>> /\ l \in 1..Len(d.wire) /\ k \in 1..Len(d.wire) /\ d.wire[k] = x
    <3>1. k \in 1..Len(d.wire) /\ d.wire[k] = x
      BY <1>1, <2>1, <2>2 DEF Begins
    <3>2. d.wire # <<>>
      BY <1>1, <2>1, <2>2
    <3> QED BY <2>1, <3>1, <3>2, ArrivedIs
  <2>4. /\ x[1] \in 1..Len(c.sent) /\ x[2] \in 1..FrameLen(c.sent[x[1]])
        /\ y[1] \in 1..Len(d.sent) /\ y[2] \in 1..FrameLen(d.sent[y[1]])
    BY <2>1, <2>2, <2>3, WireByte
  <2>5. PICK p, q : p = FrameLen(c.sent[x[1]]) /\ q = FrameLen(d.sent[y[1]])
    OBVIOUS
  <2>6. /\ Arrived(c) = IF x[2] = p THEN x[1] ELSE x[1] - 1
        /\ Arrived(d) = IF y[2] = q THEN y[1] ELSE y[1] - 1
    BY <1>3, <2>1, <2>3, <2>5, ArrivedIs
  <2>7. d.sent[x[1]] = c.sent[x[1]]
    BY <2>4 DEF Begins
  <2>8. CASE k = l
    <3>1. x = y
      BY <2>1, <2>3, <2>8
    <3>2. p = q
      BY <2>5, <2>7, <3>1
    <3>3. Arrived(c) = Arrived(d)
      BY <2>6, <3>1, <3>2
    <3> QED BY <1>1, <3>3
  <2>9. CASE k < l
    <3>1. x[1] < y[1] \/ (x[1] = y[1] /\ x[2] < y[2])
      <4>1. \/ d.wire[k][1] < d.wire[l][1]
            \/ d.wire[k][1] = d.wire[l][1] /\ d.wire[k][2] < d.wire[l][2]
        BY <2>3, <2>9, WireAscends
      <4> QED BY <2>1, <2>3, <4>1, Zenon
    <3>2. x[1] = y[1] => p = q
      BY <2>5, <2>7
    <3>3. /\ x[1] \in Nat /\ y[1] \in Nat /\ x[2] \in Nat /\ y[2] \in Nat
          /\ p \in Nat /\ q \in Nat /\ x[2] <= p /\ y[2] <= q
      <4>1. c.sent[x[1]] \in Frame /\ d.sent[y[1]] \in Frame
        BY <1>1, <2>4, ContextFields DEF Good
      <4>2. p \in Nat /\ q \in Nat
        BY <2>5, <4>1, FrameLenType
      <4>3. x[2] \in 1..p /\ y[2] \in 1..q
        BY <2>4, <2>5, Zenon
      <4>4. Len(d.sent) \in Nat
        BY ContextFields DEF Good
      <4> QED BY <1>1, <2>4, <4>2, <4>3, <4>4
    <3>4. PICK x1, x2, y1, y2 : x1 = x[1] /\ x2 = x[2] /\ y1 = y[1] /\ y2 = y[2]
      OBVIOUS
    <3> QED BY <1>1, <2>6, <3>1, <3>2, <3>3, <3>4
  <2> QED BY <2>2, <2>8, <2>9
<1> QED BY <1>2, <1>3

-----------------------------------------------------------------------------
(* The queues of MessageChannel *)

\* The frames of u from the k-th, exclusively, to the l-th, without masks.
Part(u, k, l) == [i \in 1..(l - k) |-> Plain(u[k + i])]

LEMMA PlainType ==
  ASSUME NEW f \in Frame PROVE Plain(f) \in Frame /\ Plain(f).op = f.op
BY DEF Plain, Frame

LEMMA PartType ==
  ASSUME NEW u \in Seq(Frame), NEW k \in Nat, NEW l \in Nat, k <= l, l <= Len(u)
  PROVE  /\ Part(u, k, l) \in Seq(Frame) /\ Len(Part(u, k, l)) = l - k
         /\ \A i \in 1..(l - k) :
              Part(u, k, l)[i] = Plain(u[k + i]) /\ k + i \in 1..Len(u) /\ u[k + i] \in Frame
<1>1. PICK n : n = l - k
  OBVIOUS
<1>2. n \in Nat /\ Len(u) \in Nat
  BY <1>1, LenProperties
<1>3. ASSUME NEW i \in 1..n PROVE k + i \in 1..Len(u) /\ u[k + i] \in Frame /\ Plain(u[k + i]) \in Frame
  <2>1. k + i \in 1..Len(u)
    BY <1>1, <1>2
  <2>2. u[k + i] \in Frame
    BY <2>1, ElementOfSeq
  <2> QED BY <2>1, <2>2, PlainType
<1>4. PICK g : g = Part(u, k, l)
  OBVIOUS
<1>5. g = [i \in 1..n |-> Plain(u[k + i])]
  BY <1>1, <1>4 DEF Part
<1>6. g \in [1..n -> Frame] /\ \A i \in 1..n : g[i] = Plain(u[k + i])
  BY <1>3, <1>5
<1>7. g \in Seq(Frame) /\ Len(g) = n
  <2>1. g \in Seq(Frame)
    BY <1>2, <1>6, SeqDef
  <2>2. DOMAIN g = 1..n
    BY <1>6
  <2>3. DOMAIN g = 1..Len(g) /\ Len(g) \in Nat
    BY <2>1, LenProperties
  <2> QED BY <1>2, <2>1, <2>2, <2>3
<1> QED BY <1>1, <1>3, <1>4, <1>6, <1>7

\* More was sent.
LEMMA PartGrows ==
  ASSUME NEW u \in Seq(Frame), NEW v \in Seq(Frame), Begins(u, v), NEW k \in Nat, k <= Len(u)
  PROVE  Part(v, k, Len(v)) = Part(u, k, Len(u)) \o Part(v, Len(u), Len(v))
<1>1. PICK m, n : m = Len(u) /\ n = Len(v)
  OBVIOUS
<1>2. m \in Nat /\ n \in Nat /\ k <= m /\ m <= n /\ k <= n
  BY <1>1, LenProperties DEF Begins
<1>3. PICK p, s, t : p = Part(u, k, m) /\ s = Part(v, m, n) /\ t = Part(v, k, n)
  OBVIOUS
<1>4. /\ p \in Seq(Frame) /\ Len(p) = m - k /\ \A i \in 1..(m - k) : p[i] = Plain(u[k + i])
      /\ s \in Seq(Frame) /\ Len(s) = n - m /\ \A i \in 1..(n - m) : s[i] = Plain(v[m + i])
      /\ t \in Seq(Frame) /\ Len(t) = n - k /\ \A i \in 1..(n - k) : t[i] = Plain(v[k + i])
  <2>1. m <= Len(u) /\ n <= Len(v)
    BY <1>1, <1>2
  <2>2. p \in Seq(Frame) /\ Len(p) = m - k /\ \A i \in 1..(m - k) : p[i] = Plain(u[k + i])
    BY <1>2, <1>3, <2>1, PartType
  <2>3. s \in Seq(Frame) /\ Len(s) = n - m /\ \A i \in 1..(n - m) : s[i] = Plain(v[m + i])
    BY <1>2, <1>3, <2>1, PartType
  <2>4. t \in Seq(Frame) /\ Len(t) = n - k /\ \A i \in 1..(n - k) : t[i] = Plain(v[k + i])
    BY <1>2, <1>3, <2>1, PartType
  <2> QED BY <2>2, <2>3, <2>4
<1>5. PICK w : w = p \o s
  OBVIOUS
<1>6. /\ w \in Seq(Frame) /\ Len(w) = Len(p) + Len(s)
      /\ \A i \in 1..(Len(p) + Len(s)) : w[i] = IF i <= Len(p) THEN p[i] ELSE s[i - Len(p)]
  <2>1. p \in Seq(Frame) /\ s \in Seq(Frame)
    BY <1>4
  <2> QED BY <1>5, <2>1, ConcatProperties, Zenon
<1>7. Len(w) = n - k /\ n - k \in Nat
  BY <1>2, <1>4, <1>6
<1>8. ASSUME NEW i \in 1..(n - k) PROVE t[i] = w[i]
  <2>1. CASE i <= m - k
    <3>1. i \in 1..(m - k) /\ i \in 1..(Len(p) + Len(s)) /\ i <= Len(p) /\ k + i \in 1..Len(u)
      <4>1. Len(p) = m - k /\ Len(s) = n - m
        BY <1>4
      <4>2. i \in Int /\ 1 <= i /\ i <= n - k
        BY <1>2
      <4>3. i \in 1..(m - k) /\ k + i \in 1..m
        BY <1>2, <2>1, <4>2
      <4>4. i \in 1..((m - k) + (n - m)) /\ i <= m - k
        BY <1>2, <2>1, <4>2
      <4> QED BY <1>1, <4>1, <4>3, <4>4, Zenon
    <3>2. w[i] = p[i]
      BY <1>6, <3>1
    <3>3. v[k + i] = u[k + i]
      BY <3>1 DEF Begins
    <3>4. p[i] = Plain(u[k + i]) /\ t[i] = Plain(v[k + i])
      BY <1>4, <1>8, <3>1
    <3> QED BY <3>2, <3>3, <3>4
  <2>2. CASE i > m - k
    <3>1. PICK j : j = i - (m - k)
      OBVIOUS
    <3>2. /\ j \in 1..(n - m) /\ i \in 1..(Len(p) + Len(s)) /\ ~(i <= Len(p))
          /\ i - Len(p) = j /\ m + j = k + i
      <4>1. Len(p) = m - k /\ Len(s) = n - m
        BY <1>4
      <4>2. i \in Int /\ 1 <= i /\ i <= n - k
        BY <1>2
      <4>3. j \in 1..(n - m) /\ m + j = k + i
        BY <1>2, <2>2, <3>1, <4>2
      <4>4. i \in 1..((m - k) + (n - m)) /\ ~(i <= m - k) /\ i - (m - k) = j
        BY <1>2, <2>2, <3>1, <4>2
      <4> QED BY <4>1, <4>3, <4>4, Zenon
    <3>3. w[i] = s[j]
      BY <1>6, <3>2
    <3>4. s[j] = Plain(v[m + j]) /\ t[i] = Plain(v[k + i])
      BY <1>4, <1>8, <3>2
    <3> QED BY <3>2, <3>3, <3>4
  <2> QED BY <1>2, <2>1, <2>2
<1>9. t = w
  BY <1>4, <1>6, <1>7, <1>8, SeqEqual
<1> QED BY <1>1, <1>3, <1>5, <1>9, Zenon

\* The first frame was taken.
LEMMA PartTakes ==
  ASSUME NEW u \in Seq(Frame), NEW k \in Nat, NEW l \in Nat, k < l, l <= Len(u)
  PROVE  /\ Part(u, k, l) # <<>> /\ Head(Part(u, k, l)) = Plain(u[k + 1])
         /\ Part(u, k + 1, l) = Tail(Part(u, k, l))
<1>1. k + 1 \in Nat /\ k + 1 <= l /\ k <= l /\ l - k \in Nat /\ l - k > 0
  OBVIOUS
<1>2. PICK p, t : p = Part(u, k, l) /\ t = Part(u, k + 1, l)
  OBVIOUS
<1>3. /\ p \in Seq(Frame) /\ Len(p) = l - k /\ \A i \in 1..(l - k) : p[i] = Plain(u[k + i])
      /\ t \in Seq(Frame) /\ Len(t) = l - (k + 1)
      /\ \A i \in 1..(l - (k + 1)) : t[i] = Plain(u[(k + 1) + i])
  BY <1>1, <1>2, PartType
<1>4. p # <<>>
  BY <1>1, <1>3
<1>5. PICK w : w = Tail(p)
  OBVIOUS
<1>6. /\ Head(p) = p[1] /\ w \in Seq(Frame) /\ Len(w) = Len(p) - 1
      /\ \A i \in 1..Len(w) : w[i] = p[i + 1]
  BY <1>3, <1>4, <1>5, HeadTailProperties
<1>7. Len(t) = Len(w)
  BY <1>3, <1>6
<1>8. ASSUME NEW i \in 1..Len(t) PROVE t[i] = w[i]
  <2>1. i \in 1..(l - (k + 1)) /\ i + 1 \in 1..(l - k) /\ (k + 1) + i = k + (i + 1) /\ i \in 1..Len(w)
    BY <1>1, <1>3, <1>7
  <2>2. t[i] = Plain(u[(k + 1) + i]) /\ w[i] = p[i + 1] /\ p[i + 1] = Plain(u[k + (i + 1)])
    BY <1>3, <1>6, <2>1
  <2> QED BY <2>1, <2>2
<1>9. t = w
  BY <1>3, <1>6, <1>7, <1>8, SeqEqual
<1>10. Head(p) = Plain(u[k + 1])
  BY <1>1, <1>3, <1>6
<1> QED BY <1>2, <1>4, <1>5, <1>9, <1>10, Zenon

\* The end of the queue is lost.
LEMMA PartCut ==
  ASSUME NEW u \in Seq(Frame), NEW k \in Nat, NEW a \in Nat, NEW l \in Nat,
         k <= a, a <= l, l <= Len(u)
  PROVE  /\ Part(u, k, a) = SubSeq(Part(u, k, l), 1, a - k)
         /\ a - k \in 0..Len(Part(u, k, l))
<1>1. PICK p, t : p = Part(u, k, l) /\ t = Part(u, k, a)
  OBVIOUS
<1>2. a - k \in Nat /\ a - k <= l - k /\ a <= Len(u) /\ k <= l /\ l - k \in Nat
  BY LenProperties
<1>3. /\ p \in Seq(Frame) /\ Len(p) = l - k /\ \A i \in 1..(l - k) : p[i] = Plain(u[k + i])
      /\ t \in Seq(Frame) /\ Len(t) = a - k /\ \A i \in 1..(a - k) : t[i] = Plain(u[k + i])
  BY <1>1, <1>2, PartType
<1>4. PICK n : n = a - k
  OBVIOUS
<1>5. n \in 0..Len(p) /\ n \in Nat
  BY <1>2, <1>3, <1>4
<1>6. PICK w : w = SubSeq(p, 1, n)
  OBVIOUS
<1>7. w \in Seq(Frame) /\ Len(w) = n /\ \A i \in 1..n : w[i] = p[i]
  BY <1>3, <1>5, <1>6
<1>8. ASSUME NEW i \in 1..n PROVE t[i] = w[i]
  <2>1. i \in 1..(a - k) /\ i \in 1..(l - k)
    BY <1>2, <1>4
  <2> QED BY <1>3, <1>7, <2>1
<1>9. t = w
  BY <1>3, <1>4, <1>7, <1>8, SeqEqual
<1> QED BY <1>1, <1>4, <1>5, <1>6, <1>9, Zenon

-----------------------------------------------------------------------------
(* The steps of Connection *)

Departure == {"no", "closed", "broken", "crashed"}

\* The inductive invariant: both contexts are sound, an end has taken no more than
\* arrived, and while it is there it reads on exactly until it was handed a close
\* frame.
EndInv(r) ==
  /\ Open(ws[r]) /\ ws[r].role = r
  /\ taken[r] <= Arrived(ws[Peer(r)])
  /\ ended[r] = "no" => /\ ws[r].state # "Terminated"
                        /\ HasClose(got[r]) <=> ~can_read(ws[r])

Inv ==
  /\ ws \in [Role -> Context] /\ taken \in [Role -> Nat]
  /\ got \in [Role -> Seq(Frame)] /\ ended \in [Role -> Departure]
  /\ \A r \in Role : EndInv(r)

\* The end r leaves the context d, in which at most two frames are new.
Leaves(r, d) ==
  /\ Open(d) /\ d.role = r /\ Begins(ws[r].wire, d.wire) /\ Begins(ws[r].sent, d.sent)
  /\ Len(d.sent) <= Len(ws[r].sent) + 2
  /\ ws' = [ws EXCEPT ![r] = d]

\* It reads nothing; it is told that the connection is over; it takes a frame.
QuietTurn(r, d) ==
  /\ Leaves(r, d) /\ UNCHANGED <<taken, got, ended>>
  /\ d.state # "Terminated" /\ (can_read(d) <=> can_read(ws[r])) /\ Keeps(ws[r], d)
EndTurn(r, d, how) ==
  /\ Leaves(r, d) /\ UNCHANGED <<taken, got>> /\ ended' = [ended EXCEPT ![r] = how]
  /\ \/ /\ how = "closed" /\ ~can_read(ws[r]) /\ (r = "Client" => ended["Server"] # "no")
        /\ d.state # "Active" /\ Keeps(ws[r], d)
     \/ /\ how = "broken" /\ can_read(ws[r]) /\ ended[Peer(r)] # "no"
        /\ taken[r] = Arrived(ws[Peer(r)])
TakeTurn(r, d, f) ==
  /\ Leaves(r, d) /\ UNCHANGED ended /\ d.state # "Terminated" /\ Keeps(ws[r], d)
  /\ taken[r] < Arrived(ws[Peer(r)]) /\ f = Plain(ws[Peer(r)].sent[taken[r] + 1])
  /\ taken' = [taken EXCEPT ![r] = @ + 1]
  /\ IF can_read(ws[r])
       THEN got' = [got EXCEPT ![r] = Append(@, f)] /\ (can_read(d) <=> f.op # "Close")
       ELSE UNCHANGED got /\ ~can_read(d)

LEMMA PeerProperties ==
  ASSUME NEW r \in Role
  PROVE  /\ Peer(r) \in Role /\ Peer(r) # r /\ Peer(Peer(r)) = r
         /\ \A s \in Role : s = r \/ s = Peer(r)
         /\ r = "Client" => Peer(r) = "Server"
BY DEF Peer, Role

LEMMA DeliveredOpen ==
  ASSUME NEW c, Open(c)
  PROVE  /\ Open(Delivered(c)) /\ Delivered(c).wire = c.wire /\ Delivered(c).sent = c.sent
         /\ Delivered(c).state = c.state /\ Delivered(c).role = c.role
         /\ Delivered(c).additional_send = c.additional_send
<1>1. c \in Context /\ Good(c) /\ Len(c.wire) \in Nat
  BY ContextFields DEF Open, Good
<1>2. PICK n : n = Len(c.wire)
  OBVIOUS
<1>3. PICK d : d = [c EXCEPT !.flushed = n]
  OBVIOUS
<1>4. Delivered(c) = d
  BY <1>2, <1>3 DEF Delivered
<1>5. n \in Nat
  BY <1>1, <1>2
<1>6. d \in Context
  BY <1>1, <1>3, <1>5 DEF Context
<1>7. /\ d.wire = c.wire /\ d.out_buffer = c.out_buffer /\ d.sent = c.sent
      /\ d.role = c.role /\ d.max_out_buffer_len = c.max_out_buffer_len
      /\ d.out_buffer_write_len = c.out_buffer_write_len /\ d.state = c.state
      /\ d.compression_unusable = c.compression_unusable
      /\ d.incomplete = c.incomplete /\ d.max_message_size = c.max_message_size
      /\ d.additional_send = c.additional_send
  BY <1>1, <1>3 DEF Context
<1>8. Good(d)
  BY <1>1, <1>6, <1>7 DEF Good
<1>9. Sound(d) /\ Talks(d)
  BY <1>7, PlainAssumption DEF Open, Sound, Queued, ClosesOnce, ReplyOwed, Talks
<1> QED BY <1>4, <1>7, <1>8, <1>9 DEF Open

\* A call that reads nothing.
LEMMA SpokeTurn ==
  ASSUME Inv, NEW r \in Role, ended[r] = "no", NEW q \in Spoke(ws[r], 2), Return(r, q),
         UNCHANGED <<taken, got>>
  PROVE  \E d : QuietTurn(r, d) \/ EndTurn(r, d, "closed")
<1>1. PICK c, d : c = ws[r] /\ d = Delivered(q.c)
  OBVIOUS
<1>2. c \in Context /\ c.role = r /\ q \in Spoke(c, 2)
  BY <1>1 DEF Inv, EndInv
<1>3. /\ Open(q.c) /\ Follows(c, q.c) /\ Len(q.c.sent) <= Len(c.sent) + 2 /\ Keeps(c, q.c)
      /\ q.err # "ResetWithoutClosingHandshake"
      /\ IF q.err = "ConnectionClosed"
           THEN c.role = "Server" /\ ~can_read(c)
           ELSE q.c.state # "Terminated" /\ (can_read(q.c) <=> can_read(c))
  BY <1>2, Returned DEF Spoke
<1>4. /\ Open(d) /\ d.wire = q.c.wire /\ d.sent = q.c.sent /\ d.state = q.c.state
      /\ d.role = q.c.role /\ d.additional_send = q.c.additional_send
  BY <1>1, <1>3, DeliveredOpen
<1>5. ws' = [ws EXCEPT ![r] = d]
  BY <1>1 DEF Return
<1>6. Leaves(r, d)
  BY <1>1, <1>2, <1>3, <1>4, <1>5 DEF Leaves, Follows
<1>7. Keeps(ws[r], d)
  BY <1>1, <1>3, <1>4 DEF Keeps, Committed
<1>8. CASE q.err = "ConnectionClosed"
  <2>1. ended' = [ended EXCEPT ![r] = "closed"]
    BY <1>8 DEF Return
  <2>2. ~can_read(ws[r]) /\ r # "Client"
    BY <1>1, <1>2, <1>3, <1>8
  <2>3. d.state # "Active"
    BY <1>1, <1>2, <1>3, <1>4, <2>2, ContextFields DEF Follows, MayFollow, can_read, WebSocketState
  <2> QED BY <1>6, <1>7, <2>1, <2>2, <2>3 DEF EndTurn
<1>9. CASE q.err # "ConnectionClosed"
  <2>1. ended' = [ended EXCEPT ![r] = @]
    BY <1>3, <1>9 DEF Return
  <2>2. ended' = ended
    BY <2>1 DEF Inv
  <2>3. d.state # "Terminated" /\ (can_read(d) <=> can_read(ws[r]))
    BY <1>1, <1>3, <1>4, <1>9 DEF can_read
  <2> QED BY <1>6, <1>7, <2>2, <2>3 DEF QuietTurn
<1> QED BY <1>8, <1>9

\* A round of `read` whose head sent what there was to send.
LEMMA InputTurn ==
  ASSUME Inv, NEW r \in Role, ended[r] = "no",
         NEW p \in Spoke(ws[r], 1), p.err = "None",
         NEW in, in = Input(r), NEW q \in read_message_frame(p.c, in), Return(r, q),
         taken' = [taken EXCEPT ![r] = IF in.kind = "frame" THEN @ + 1 ELSE @],
         got' = [got EXCEPT ![r] = IF q.err = "None" THEN Append(@, q.msg) ELSE @]
  PROVE  \E d : \/ QuietTurn(r, d) \/ EndTurn(r, d, "closed") \/ EndTurn(r, d, "broken")
                \/ \E f : TakeTurn(r, d, f)
<1>1. PICK c, b, e : c = ws[r] /\ b = p.c /\ e = ws[Peer(r)]
  OBVIOUS
<1>2. /\ c \in Context /\ c.role = r /\ Peer(r) \in Role /\ e.role = Peer(r) /\ Open(e)
      /\ taken[r] <= Arrived(e) /\ taken[r] \in Nat /\ got[r] \in Seq(Frame)
  BY <1>1, PeerProperties DEF Inv, EndInv
<1>3. /\ Open(b) /\ Follows(c, b) /\ Len(b.sent) <= Len(c.sent) + 1 /\ b \in Context
      /\ b.state # "Terminated" /\ (can_read(b) <=> can_read(c)) /\ b.role = r /\ Keeps(c, b)
  <2>1. p \in Spoke(c, 1)
    BY <1>1
  <2>2. Follows(c, b) /\ b \in Context
    BY <1>1, <1>2, <2>1, Returned DEF Spoke
  <2>3. Open(b) /\ Len(b.sent) <= Len(c.sent) + 1 /\ b.state # "Terminated"
        /\ (can_read(b) <=> can_read(c)) /\ Keeps(c, b)
    BY <1>1, <2>1 DEF Spoke
  <2> QED BY <1>2, <2>2, <2>3 DEF Follows
<1>4. PICK d : d = Delivered(q.c)
  OBVIOUS
<1>5. ws' = [ws EXCEPT ![r] = d]
  BY <1>4 DEF Return
\* Whatever was read, if the context that is left is open.
<1>6. ASSUME Open(q.c), Follows(b, q.c), q.c.sent = b.sent
      PROVE  /\ Leaves(r, d) /\ d.state = q.c.state
             /\ (Committed(b) => Committed(q.c)) => Keeps(ws[r], d)
  <2>1. /\ Open(d) /\ d.wire = q.c.wire /\ d.sent = q.c.sent /\ d.state = q.c.state
        /\ d.role = q.c.role /\ d.additional_send = q.c.additional_send
    BY <1>4, <1>6, DeliveredOpen
  <2>2. /\ c.wire \in Seq(Byte) /\ b.wire \in Seq(Byte) /\ d.wire \in Seq(Byte)
        /\ Len(c.sent) \in Nat /\ Len(b.sent) \in Nat
    BY <1>2, <1>3, <2>1, ContextFields DEF Open, Good
  <2>3. Begins(c.wire, b.wire) /\ Begins(b.wire, d.wire) /\ Begins(c.sent, d.sent)
    BY <1>3, <1>6, <2>1 DEF Follows
  <2>4. Begins(c.wire, d.wire)
    BY <2>2, <2>3, BeginsTransitive
  <2>5. d.role = r /\ Len(d.sent) <= Len(c.sent) + 2
    BY <1>3, <1>6, <2>1, <2>2 DEF Follows
  <2>6. (Committed(b) => Committed(q.c)) => Keeps(ws[r], d)
    BY <1>1, <1>3, <2>1 DEF Keeps, Committed
  <2> QED BY <1>1, <1>5, <2>1, <2>3, <2>4, <2>5, <2>6 DEF Leaves
<1>7. Follows(b, b)
  BY <1>3, FollowsReflexive
<1>8. CASE taken[r] < Arrived(e)
  <2>1. PICK n, g : n = taken[r] + 1 /\ g = e.sent[n]
    OBVIOUS
  <2>2. n \in 1..Len(e.sent)
    BY <1>2, <1>8, <2>1, ArrivedType, ContextFields DEF Open, Good
  <2>3. Fine(Peer(b.role), g) /\ g \in Frame
    BY <1>2, <1>3, <2>1, <2>2 DEF Open, Talks, Fine, Waiting
  <2>4. in = FrameInput(g)
    <3>1. taken[r] # Arrived(e)
      BY <1>2, <1>8, ArrivedType DEF Open
    <3> QED BY <1>1, <1>8, <2>1, <3>1 DEF Input
  <2>5. in.kind = "frame" /\ q \in read_message_frame(b, FrameInput(g))
    <3>1. in.kind = "frame"
      BY <2>4 DEF FrameInput
    <3> QED BY <1>1, <2>4, <3>1, Zenon
  <2>6. taken' = [taken EXCEPT ![r] = @ + 1]
    BY <2>5
  <2>7. IF can_read(b)
          THEN /\ Open(q.c) /\ Follows(b, q.c) /\ q.c.sent = b.sent
               /\ q.err = "None" /\ q.msg = Plain(g)
               /\ q.c.state # "Terminated" /\ (can_read(q.c) <=> g.op # "Close")
               /\ Committed(b) => Committed(q.c)
          ELSE q.c = b /\ q.err = "ReceivedAfterClosing"
    BY <1>3, <2>3, <2>5, ReadFrame
  <2>8. /\ Open(q.c) /\ Follows(b, q.c) /\ q.c.sent = b.sent /\ q.c.state # "Terminated"
        /\ q.err \in {"None", "ReceivedAfterClosing"} /\ (Committed(b) => Committed(q.c))
    BY <1>3, <1>7, <2>7
  <2>9. Leaves(r, d) /\ d.state = q.c.state /\ Keeps(ws[r], d)
    BY <1>6, <2>8
  <2>10. ended' = ended
    <3>1. ended' = [ended EXCEPT ![r] = @]
      BY <2>8 DEF Return
    <3> QED BY <3>1 DEF Inv
  <2>11. Plain(g).op = g.op
    BY <2>3, PlainType
  <2>12. Plain(g) = Plain(ws[Peer(r)].sent[taken[r] + 1])
    BY <1>1, <2>1
  <2>13. IF can_read(c)
           THEN got' = [got EXCEPT ![r] = Append(@, Plain(g))] /\ (can_read(d) <=> Plain(g).op # "Close")
           ELSE UNCHANGED got /\ ~can_read(d)
    <3>1. CASE can_read(c)
      <4>1. q.err = "None" /\ q.msg = Plain(g) /\ (can_read(q.c) <=> g.op # "Close")
        BY <1>3, <2>7, <3>1
      <4>2. got' = [got EXCEPT ![r] = Append(@, Plain(g))]
        BY <4>1
      <4> QED BY <2>9, <2>11, <3>1, <4>1, <4>2 DEF can_read
    <3>2. CASE ~can_read(c)
      <4>1. q.c = b /\ q.err = "ReceivedAfterClosing"
        BY <1>3, <2>7, <3>2
      <4>2. got' = [got EXCEPT ![r] = @]
        BY <4>1
      <4>3. got' = got
        BY <4>2 DEF Inv
      <4> QED BY <1>3, <2>9, <3>2, <4>1, <4>3 DEF can_read
    <3> QED BY <3>1, <3>2
  <2>14. TakeTurn(r, d, Plain(g))
    BY <1>1, <1>8, <2>6, <2>8, <2>9, <2>10, <2>12, <2>13 DEF TakeTurn
  <2> QED BY <2>14
<1>9. CASE taken[r] = Arrived(e) /\ ended[Peer(r)] # "no"
  <2>1. in = EofInput
    BY <1>1, <1>2, <1>9, ArrivedType DEF Input, Open
  <2>2. /\ Open(q.c) /\ Follows(b, q.c) /\ q.c.sent = b.sent
        /\ ~can_read(b) => q.c.state # "Active" /\ Keeps(b, q.c)
        /\ q.err = IF can_read(b) THEN "ResetWithoutClosingHandshake" ELSE "ConnectionClosed"
    BY <1>1, <1>3, <2>1, ReadNothing
  <2>3. /\ Leaves(r, d) /\ d.state = q.c.state
        /\ ~can_read(b) => d.state # "Active" /\ Keeps(ws[r], d)
    <3>1. ~can_read(b) /\ Committed(b) => Committed(q.c)
      BY <2>2 DEF Keeps, RoomToClose, can_read
    <3> QED BY <1>6, <2>2, <3>1
  <2>4. taken' = taken /\ got' = got
    <3>1. in.kind # "frame" /\ q.err # "None"
      BY <2>1, <2>2 DEF EofInput
    <3>2. taken' = [taken EXCEPT ![r] = @] /\ got' = [got EXCEPT ![r] = @]
      BY <3>1
    <3> QED BY <3>2 DEF Inv
  <2>5. CASE can_read(c)
    <3>1. ended' = [ended EXCEPT ![r] = "broken"]
      BY <1>3, <2>2, <2>5 DEF Return
    <3> QED BY <1>1, <1>9, <2>3, <2>4, <2>5, <3>1 DEF EndTurn
  <2>6. CASE ~can_read(c)
    <3>1. ended' = [ended EXCEPT ![r] = "closed"]
      BY <1>3, <2>2, <2>6 DEF Return
    <3>2. r = "Client" => ended["Server"] # "no"
      BY <1>9, PeerProperties
    <3> QED BY <1>1, <1>3, <2>3, <2>4, <2>6, <3>1, <3>2 DEF EndTurn
  <2> QED BY <2>5, <2>6
<1>10. CASE ~(taken[r] < Arrived(e)) /\ ~(taken[r] = Arrived(e) /\ ended[Peer(r)] # "no")
  <2>1. in = ErrorInput("WouldBlock")
    BY <1>1, <1>10 DEF Input
  <2>2. q.c = b /\ q.err = "WouldBlock"
    BY <1>1, <1>3, <2>1, ReadNothing
  <2>3. Leaves(r, d) /\ d.state = b.state /\ Keeps(ws[r], d)
    BY <1>3, <1>6, <1>7, <2>2
  <2>4. taken' = taken /\ got' = got /\ ended' = ended
    <3>1. in.kind # "frame"
      BY <2>1 DEF ErrorInput
    <3>2. taken' = [taken EXCEPT ![r] = @] /\ got' = [got EXCEPT ![r] = @]
      BY <2>2, <3>1
    <3>3. ended' = [ended EXCEPT ![r] = @]
      BY <2>2 DEF Return
    <3> QED BY <3>2, <3>3 DEF Inv
  <2>5. QuietTurn(r, d)
    BY <1>1, <1>3, <2>3, <2>4 DEF QuietTurn, can_read
  <2> QED BY <2>5
<1> QED BY <1>8, <1>9, <1>10

LEMMA ReadTurn ==
  ASSUME Inv, NEW r \in Role, Read(r)
  PROVE  \E d : \/ QuietTurn(r, d) \/ EndTurn(r, d, "closed") \/ EndTurn(r, d, "broken")
                \/ \E f : TakeTurn(r, d, f)
<1>1. ended[r] = "no" /\ Open(ws[r]) /\ ws[r].state # "Terminated" /\ ws[r] \in Context
  BY DEF Read, ReadRound, Inv, EndInv
<1>2. PICK p \in ReadPrepare(ws[r]) :
        IF p.err # "None"
          THEN Return(r, p) /\ UNCHANGED <<taken, got>>
          ELSE \E in \in {Input(r)} : \E q \in read_message_frame(p.c, in) :
                 /\ Return(r, q)
                 /\ taken' = [taken EXCEPT ![r] = IF in.kind = "frame" THEN @ + 1 ELSE @]
                 /\ got' = [got EXCEPT ![r] = IF q.err = "None" THEN Append(@, q.msg) ELSE @]
  BY DEF Read, ReadRound
<1>3. p \in Spoke(ws[r], 1) /\ p \in Spoke(ws[r], 2)
  BY <1>1, PrepareSpoke, SpokeLess
<1>4. CASE p.err # "None"
  <2>1. Return(r, p) /\ UNCHANGED <<taken, got>>
    BY <1>2, <1>4
  <2> QED BY <1>1, <1>3, <2>1, SpokeTurn
<1>5. CASE p.err = "None"
  <2>1. PICK in \in {Input(r)} : \E q \in read_message_frame(p.c, in) :
          /\ Return(r, q)
          /\ taken' = [taken EXCEPT ![r] = IF in.kind = "frame" THEN @ + 1 ELSE @]
          /\ got' = [got EXCEPT ![r] = IF q.err = "None" THEN Append(@, q.msg) ELSE @]
    BY <1>2, <1>5
  <2>2. PICK q \in read_message_frame(p.c, in) :
          /\ Return(r, q)
          /\ taken' = [taken EXCEPT ![r] = IF in.kind = "frame" THEN @ + 1 ELSE @]
          /\ got' = [got EXCEPT ![r] = IF q.err = "None" THEN Append(@, q.msg) ELSE @]
    BY <2>1
  <2>3. in = Input(r)
    BY <2>1
  <2> QED BY <1>1, <1>3, <1>5, <2>2, <2>3, InputTurn
<1> QED BY <1>4, <1>5

\* Every step is a turn of an end, or changes nothing that MessageChannel sees.
Turn(r) ==
  \/ \E d : \/ QuietTurn(r, d) \/ EndTurn(r, d, "closed") \/ EndTurn(r, d, "broken")
            \/ \E f : TakeTurn(r, d, f)
  \/ Crash(r)

LEMMA NextTurns ==
  ASSUME Inv, Next
  PROVE  (\E r \in Role : ended[r] = "no" /\ Turn(r)) \/ UNCHANGED <<ws, taken, got, ended>>
<1>1. ASSUME NEW r \in Role, NEW S, NEW before, S \subseteq Spoke(ws[r], 2), ended[r] = "no",
             Writes(r, S, before)
      PROVE  Turn(r)
  <2>1. PICK q \in S : Return(r, q)
    BY <1>1 DEF Writes
  <2>2. q \in Spoke(ws[r], 2) /\ UNCHANGED <<taken, got>>
    BY <1>1, <2>1 DEF Writes
  <2> QED BY <1>1, <2>1, <2>2, SpokeTurn DEF Turn
<1>2. ASSUME NEW r \in Role, ended[r] = "no"
      PROVE  Open(ws[r]) /\ ws[r].state # "Terminated" /\ ws[r] \in Context
  BY <1>2 DEF Inv, EndInv
<1>3. ASSUME NEW r \in Role, Read(r) PROVE ended[r] = "no" /\ Turn(r)
  BY <1>3, ReadTurn DEF Read, ReadRound, Turn
<1>4. ASSUME NEW r \in Role, Write(r) PROVE ended[r] = "no" /\ Turn(r)
  <2>1. PICK m \in Messages : Writes(r, write(ws[r], m), owes[r])
    BY <1>4 DEF Write
  <2>2. ended[r] = "no"
    BY <1>4 DEF Write
  <2>3. write(ws[r], m) \subseteq Spoke(ws[r], 2)
    BY <1>2, <2>2, WriteSpoke
  <2> QED BY <1>1, <2>1, <2>2, <2>3
<1>5. ASSUME NEW r \in Role, Close(r) PROVE ended[r] = "no" /\ Turn(r)
  <2>1. PICK f \in CloseFrames : Writes(r, close(ws[r], f), owes[r])
    BY <1>5 DEF Close
  <2>2. ended[r] = "no"
    BY <1>5 DEF Close
  <2>3. close(ws[r], f) \subseteq Spoke(ws[r], 2)
    BY <1>2, <2>2, CloseSpoke
  <2> QED BY <1>1, <2>1, <2>2, <2>3
<1>6. ASSUME NEW r \in Role, Flush(r) PROVE ended[r] = "no" /\ Turn(r)
  <2>1. ended[r] = "no" /\ Writes(r, flush(ws[r]), FALSE)
    BY <1>6 DEF Flush
  <2>2. flush(ws[r]) \subseteq Spoke(ws[r], 2)
    BY <1>2, <2>1, FlushSpoke, SpokeLess
  <2> QED BY <1>1, <2>1, <2>2
<1>7. ASSUME NEW r \in Role, Crash(r) PROVE ended[r] = "no" /\ Turn(r)
  BY <1>7 DEF Crash, Turn
<1>8. ASSUME Over PROVE UNCHANGED <<ws, taken, got, ended>>
  BY <1>8 DEF Over, vars
<1> QED BY <1>3, <1>4, <1>5, <1>6, <1>7, <1>8 DEF Next

LEMMA LeavesInv ==
  ASSUME Inv, NEW r \in Role, NEW d, Leaves(r, d)
  PROVE  /\ ws' \in [Role -> Context] /\ ws'[r] = d /\ ws'[Peer(r)] = ws[Peer(r)]
         /\ \A s \in Role : /\ Open(ws'[s]) /\ ws'[s].role = s
                            /\ Arrived(ws[s]) <= Arrived(ws'[s])
<1>1. d \in Context /\ Open(d) /\ d.role = r /\ Good(d)
  BY DEF Leaves, Open, Good
<1>2. /\ ws' \in [Role -> Context] /\ ws'[r] = d /\ ws'[Peer(r)] = ws[Peer(r)]
  BY <1>1, PeerProperties DEF Leaves, Inv
<1>3. ASSUME NEW s \in Role
      PROVE  Open(ws'[s]) /\ ws'[s].role = s /\ Arrived(ws[s]) <= Arrived(ws'[s])
  <2>1. Open(ws[s]) /\ Good(ws[s]) /\ ws[s].role = s
    BY DEF Inv, EndInv, Open
  <2>2. CASE s = r
    <3>1. Arrived(ws[s]) <= Arrived(d)
      BY <1>1, <2>1, <2>2, ArrivedGrows DEF Leaves
    <3> QED BY <1>1, <1>2, <2>2, <3>1
  <2>3. CASE s = Peer(r)
    <3>1. Arrived(ws[s]) \in Nat
      BY <2>1, ArrivedType
    <3> QED BY <1>2, <2>1, <2>3, <3>1
  <2> QED BY <2>2, <2>3, PeerProperties
<1> QED BY <1>2, <1>3

LEMMA TurnInv ==
  ASSUME Inv, NEW r \in Role, ended[r] = "no", Turn(r) PROVE Inv'
<1>1. /\ ws \in [Role -> Context] /\ taken \in [Role -> Nat]
      /\ got \in [Role -> Seq(Frame)] /\ ended \in [Role -> Departure]
      /\ \A s \in Role : /\ taken[s] <= Arrived(ws[Peer(s)]) /\ Peer(s) \in Role
                         /\ Arrived(ws[s]) \in Nat /\ taken[s] \in Nat /\ got[s] \in Seq(Frame)
  BY PeerProperties, ArrivedType DEF Inv, EndInv, Open
<1>2. \A s \in Role : ended[s] = "no" => /\ ws[s].state # "Terminated"
                                         /\ HasClose(got[s]) <=> ~can_read(ws[s])
  BY DEF Inv, EndInv
\* What Leaves and the three functions have to satisfy.
<1>3. ASSUME NEW d, Leaves(r, d), taken' \in [Role -> Nat], got' \in [Role -> Seq(Frame)],
             ended' \in [Role -> Departure],
             taken'[Peer(r)] = taken[Peer(r)], taken'[r] <= Arrived(ws[Peer(r)]),
             got'[Peer(r)] = got[Peer(r)], ended'[Peer(r)] = ended[Peer(r)],
             ended'[r] = "no" => d.state # "Terminated" /\ (HasClose(got'[r]) <=> ~can_read(d))
      PROVE  Inv'
  <2>1. /\ ws' \in [Role -> Context] /\ ws'[r] = d /\ ws'[Peer(r)] = ws[Peer(r)]
        /\ \A s \in Role : /\ Open(ws'[s]) /\ ws'[s].role = s
                           /\ Arrived(ws[s]) <= Arrived(ws'[s])
    BY <1>3, LeavesInv
  <2>2. ASSUME NEW s \in Role PROVE EndInv(s)'
    <3>1. Peer(s) \in Role /\ Arrived(ws'[Peer(s)]) \in Nat /\ taken'[s] \in Nat
          /\ Arrived(ws[Peer(s)]) <= Arrived(ws'[Peer(s)]) /\ Arrived(ws[Peer(s)]) \in Nat
      BY <1>1, <1>3, <2>1, ArrivedType, PeerProperties DEF Open
    <3>2. taken'[s] <= Arrived(ws[Peer(s)])
      BY <1>1, <1>3, PeerProperties
    <3>3. taken'[s] <= Arrived(ws'[Peer(s)])
      BY <3>1, <3>2
    <3>4. ended'[s] = "no" => /\ ws'[s].state # "Terminated"
                              /\ HasClose(got'[s]) <=> ~can_read(ws'[s])
      <4>1. CASE s = r
        BY <1>3, <2>1, <4>1
      <4>2. CASE s = Peer(r)
        BY <1>2, <1>3, <2>1, <4>2
      <4> QED BY <4>1, <4>2, PeerProperties
    <3> QED BY <2>1, <3>3, <3>4 DEF EndInv
  <2> QED BY <1>3, <2>1, <2>2 DEF Inv
<1>4. ASSUME NEW d, QuietTurn(r, d) PROVE Inv'
  <2>1. Leaves(r, d) /\ taken' = taken /\ got' = got /\ ended' = ended
        /\ d.state # "Terminated" /\ (can_read(d) <=> can_read(ws[r]))
    BY <1>4 DEF QuietTurn
  <2> QED BY <1>1, <1>2, <1>3, <2>1
<1>5. ASSUME NEW d, NEW how \in {"closed", "broken"}, EndTurn(r, d, how) PROVE Inv'
  <2>1. Leaves(r, d) /\ taken' = taken /\ got' = got /\ ended' = [ended EXCEPT ![r] = how]
    BY <1>5 DEF EndTurn
  <2>2. /\ ended' \in [Role -> Departure] /\ ended'[Peer(r)] = ended[Peer(r)]
        /\ ended'[r] # "no"
    BY <1>1, <1>5, <2>1, PeerProperties DEF Departure
  <2> QED BY <1>1, <1>3, <2>1, <2>2
<1>6. ASSUME NEW d, NEW f, TakeTurn(r, d, f) PROVE Inv'
  <2>1. /\ Leaves(r, d) /\ ended' = ended /\ d.state # "Terminated"
        /\ taken[r] < Arrived(ws[Peer(r)]) /\ f = Plain(ws[Peer(r)].sent[taken[r] + 1])
        /\ taken' = [taken EXCEPT ![r] = @ + 1]
        /\ IF can_read(ws[r])
             THEN got' = [got EXCEPT ![r] = Append(@, f)] /\ (can_read(d) <=> f.op # "Close")
             ELSE got' = got /\ ~can_read(d)
    BY <1>6 DEF TakeTurn
  <2>2. f \in Frame
    <3>1. PICK e, n : e = ws[Peer(r)] /\ n = taken[r] + 1
      OBVIOUS
    <3>2. Good(e) /\ e.sent \in Seq(Frame) /\ Len(e.sent) \in Nat
      BY <1>1, <3>1, ContextFields DEF Inv, EndInv, Open
    <3>3. n \in 1..Len(e.sent)
      <4>1. PICK a : a = Arrived(e)
        OBVIOUS
      <4>2. a \in Nat /\ a <= Len(e.sent)
        BY <3>2, <4>1, ArrivedType
      <4>3. taken[r] < a /\ taken[r] \in Nat
        BY <1>1, <2>1, <3>1, <4>1
      <4> QED BY <3>1, <3>2, <4>2, <4>3
    <3>4. e.sent[n] \in Frame
      BY <3>2, <3>3, ElementOfSeq
    <3>5. f = Plain(e.sent[n])
      BY <2>1, <3>1
    <3> QED BY <3>4, <3>5, PlainType
  <2>3. /\ taken' \in [Role -> Nat] /\ taken'[Peer(r)] = taken[Peer(r)]
        /\ taken'[r] <= Arrived(ws[Peer(r)])
    BY <1>1, <2>1, PeerProperties
  <2>4. CASE can_read(ws[r])
    <3>1. PICK g : g = Append(got[r], f)
      OBVIOUS
    <3>2. g \in Seq(Frame) /\ (HasClose(g) <=> HasClose(got[r]) \/ f.op = "Close")
      BY <1>1, <2>2, <3>1, OneMore, AppendProperties
    <3>3. got' = [got EXCEPT ![r] = g] /\ (can_read(d) <=> f.op # "Close")
      BY <2>1, <2>4, <3>1
    <3>4. /\ got' \in [Role -> Seq(Frame)] /\ got'[Peer(r)] = got[Peer(r)] /\ got'[r] = g
      BY <1>1, <3>2, <3>3, PeerProperties
    <3>5. HasClose(got'[r]) <=> ~can_read(d)
      BY <1>2, <2>4, <3>2, <3>3, <3>4
    <3> QED BY <1>1, <1>3, <2>1, <2>3, <3>4, <3>5
  <2>5. CASE ~can_read(ws[r])
    <3>1. got' = got /\ ~can_read(d) /\ HasClose(got[r])
      BY <1>2, <2>1, <2>5
    <3> QED BY <1>1, <1>3, <2>1, <2>3, <3>1
  <2> QED BY <2>4, <2>5
<1>7. ASSUME Crash(r) PROVE Inv'
  <2>1. ws' = ws /\ taken' = taken /\ got' = got /\ ended' = [ended EXCEPT ![r] = "crashed"]
    BY <1>7 DEF Crash
  <2>2. /\ ended' \in [Role -> Departure] /\ ended'[r] # "no"
        /\ \A s \in Role : s # r => ended'[s] = ended[s]
    BY <1>1, <2>1 DEF Departure
  <2>3. ASSUME NEW s \in Role PROVE EndInv(s)'
    <3>1. ended'[s] = "no" => ended[s] = "no"
      BY <2>2
    <3> QED BY <2>1, <3>1 DEF Inv, EndInv
  <2> QED BY <2>1, <2>2, <2>3 DEF Inv
<1> QED BY <1>4, <1>5, <1>6, <1>7 DEF Turn

-----------------------------------------------------------------------------
(* The refinement *)

\* The frames s are new in v, behind u: only pongs behind a close frame.
Adds(u, v, s) ==
  /\ s \in Seq(Frame) /\ Len(s) = Len(v) - Len(u)
  /\ \A i \in 1..Len(s) : \E k \in 1..Len(v) : s[i] = Plain(v[k])
  /\ \A i \in 1..Len(s) :
       HasClose(u) \/ (\E j \in 1..(i - 1) : s[j].op = "Close") => s[i].op = "Pong"
  /\ HasClose(v) <=> HasClose(u) \/ \E i \in 1..Len(s) : s[i].op = "Close"

LEMMA NewFrames ==
  ASSUME NEW u \in Seq(Frame), NEW v \in Seq(Frame), Begins(u, v), OnlyPongs(v),
         NEW s, s = Part(v, Len(u), Len(v))
  PROVE  Adds(u, v, s)
<1>1. PICK m, n : m = Len(u) /\ n = Len(v)
  OBVIOUS
<1>2. m \in Nat /\ n \in Nat /\ m <= n /\ \A i \in 1..m : v[i] = u[i]
  BY <1>1, LenProperties DEF Begins
<1>3. s = Part(v, m, n)
  BY <1>1
<1>4. /\ s \in Seq(Frame) /\ Len(s) = n - m
      /\ \A i \in 1..(n - m) : s[i] = Plain(v[m + i]) /\ m + i \in 1..n /\ v[m + i] \in Frame
  <2>1. n <= Len(v) /\ Len(v) = n
    BY <1>1, <1>2
  <2>2. /\ Part(v, m, n) \in Seq(Frame) /\ Len(Part(v, m, n)) = n - m
        /\ \A i \in 1..(n - m) : /\ Part(v, m, n)[i] = Plain(v[m + i])
                                /\ m + i \in 1..Len(v) /\ v[m + i] \in Frame
    BY <1>2, <2>1, PartType
  <2> QED BY <1>3, <2>1, <2>2, Zenon
<1>5. \A i \in 1..(n - m) : s[i].op = v[m + i].op /\ m + i \in 1..n
  BY <1>4, PlainType
<1>6. \A i, j \in 1..n : i < j /\ v[i].op = "Close" => v[j].op = "Pong"
  BY <1>1 DEF OnlyPongs
<1>7. HasClose(u) <=> \E i \in 1..m : u[i].op = "Close"
  BY <1>1 DEF HasClose
<1>8. HasClose(v) <=> \E i \in 1..n : v[i].op = "Close"
  BY <1>1 DEF HasClose
<1>9. ASSUME NEW i \in 1..(n - m), HasClose(u) \/ \E j \in 1..(i - 1) : s[j].op = "Close"
      PROVE  s[i].op = "Pong"
  <2>1. CASE HasClose(u)
    <3>1. PICK j \in 1..m : u[j].op = "Close"
      BY <1>7, <2>1
    <3>2. j \in 1..n /\ v[j].op = "Close" /\ m + i \in 1..n /\ j < m + i
      BY <1>2, <3>1
    <3> QED BY <1>5, <1>6, <3>2
  <2>2. CASE \E j \in 1..(i - 1) : s[j].op = "Close"
    <3>1. PICK j \in 1..(i - 1) : s[j].op = "Close"
      BY <2>2
    <3>2. j \in 1..(n - m) /\ m + j \in 1..n /\ m + i \in 1..n /\ m + j < m + i
      BY <1>2
    <3>3. v[m + j].op = "Close"
      BY <1>5, <3>1, <3>2
    <3> QED BY <1>5, <1>6, <3>2, <3>3
  <2> QED BY <1>9, <2>1, <2>2
<1>10. HasClose(v) <=> HasClose(u) \/ \E i \in 1..(n - m) : s[i].op = "Close"
  <2>1. ASSUME HasClose(v) PROVE HasClose(u) \/ \E i \in 1..(n - m) : s[i].op = "Close"
    <3>1. PICK k \in 1..n : v[k].op = "Close"
      BY <1>8, <2>1
    <3>2. CASE k <= m
      <4>1. k \in 1..m
        BY <1>2, <3>2
      <4> QED BY <1>2, <1>7, <3>1, <4>1
    <3>3. CASE k > m
      <4>1. PICK i : i = k - m
        OBVIOUS
      <4>2. i \in 1..(n - m) /\ m + i = k
        BY <1>2, <3>3, <4>1
      <4> QED BY <1>5, <3>1, <4>2
    <3> QED BY <1>2, <3>2, <3>3
  <2>2. ASSUME HasClose(u) PROVE HasClose(v)
    <3>1. PICK j \in 1..m : u[j].op = "Close"
      BY <1>7, <2>2
    <3>2. j \in 1..n /\ v[j].op = "Close"
      BY <1>2, <3>1
    <3> QED BY <1>8, <3>2
  <2>3. ASSUME \E i \in 1..(n - m) : s[i].op = "Close" PROVE HasClose(v)
    BY <1>5, <1>8, <2>3
  <2> QED BY <2>1, <2>2, <2>3
<1>11. /\ \A i \in 1..Len(s) : \E k \in 1..Len(v) : s[i] = Plain(v[k])
       /\ \A i \in 1..Len(s) :
            HasClose(u) \/ (\E j \in 1..(i - 1) : s[j].op = "Close") => s[i].op = "Pong"
       /\ HasClose(v) <=> HasClose(u) \/ \E i \in 1..Len(s) : s[i].op = "Close"
  BY <1>1, <1>4, <1>9, <1>10
<1>12. Len(s) = Len(v) - Len(u)
  BY <1>1, <1>4, Zenon
<1> QED BY <1>4, <1>11, <1>12, Zenon DEF Adds

\* The payloads of the channel.
LEMMA SendablePayload ==
  Sendable \subseteq {Plain(m.frame) : m \in Messages} \cup CloseFrames
                       \cup {CloseReply(f) : f \in CloseFrames}
                       \cup {MakeFrame("Pong", m.frame.len) : m \in Messages}
<1> SUFFICES ASSUME NEW f \in Sendable
             PROVE  \/ \E m \in Messages : f = Plain(m.frame)
                    \/ f \in CloseFrames
                    \/ \E m \in Messages : f = MakeFrame("Pong", m.frame.len)
  BY Zenon
<1>1. Plain(f) = f
  BY PlainSendable
<1>2. \/ \E m \in Messages : f = m.frame
      \/ f \in CloseFrames
      \/ \E m \in Messages : f = MakeFrame("Pong", m.frame.len)
  BY DEF Sendable
<1> QED BY <1>1, <1>2, Zenon

\* A function of the ends that a step changes at one of them.
LEMMA FunctionTurn ==
  ASSUME NEW f, NEW g, DOMAIN f = Role, DOMAIN g = Role, f = [x \in Role |-> f[x]],
         g = [x \in Role |-> g[x]],
         NEW r \in Role, NEW y, g[r] = y, g[Peer(r)] = f[Peer(r)]
  PROVE  g = [f EXCEPT ![r] = y]
BY PeerProperties

\* And one that it changes at both.
LEMMA TwoQueues ==
  ASSUME NEW f, NEW g, DOMAIN f = Role, DOMAIN g = Role, f = [x \in Role |-> f[x]],
         g = [x \in Role |-> g[x]],
         NEW r \in Role, NEW p, p = Peer(r), NEW y, g[r] = y, NEW z, g[p] = z
  PROVE  g = [f EXCEPT ![r] = y, ![p] = z]
BY PeerProperties

\* The new frames of a step are what its turn of the channel sends.
LEMMA LeavesSends ==
  ASSUME Inv, NEW r \in Role, NEW d, Leaves(r, d),
         NEW s, s = Part(d.sent, Len(ws[r].sent), Len(d.sent))
  PROVE  s \in Channel!Burst /\ Channel!Sends(r, s)
<1>1. PICK u, v : u = ws[r].sent /\ v = d.sent
  OBVIOUS
<1>2. /\ u \in Seq(Frame) /\ v \in Seq(Frame) /\ Begins(u, v) /\ OnlyPongs(v)
      /\ Len(u) \in Nat /\ Len(v) \in Nat /\ Len(v) <= Len(u) + 2 /\ Len(u) <= Len(v)
  <2>1. ws[r] \in Context /\ d \in Context
    BY DEF Inv, Leaves, Open, Good
  <2>2. OnlyPongs(v)
    BY <1>1 DEF Leaves, Open, Sound, ClosesOnce
  <2> QED BY <1>1, <2>1, <2>2, ContextFields DEF Leaves, Begins
<1>3. /\ s \in Seq(Frame) /\ Len(s) = Len(v) - Len(u)
      /\ \A i \in 1..Len(s) : \E k \in 1..Len(v) : s[i] = Plain(v[k])
      /\ \A i \in 1..Len(s) :
           HasClose(u) \/ (\E j \in 1..(i - 1) : s[j].op = "Close") => s[i].op = "Pong"
      /\ HasClose(v) <=> HasClose(u) \/ \E i \in 1..Len(s) : s[i].op = "Close"
  <2>1. s = Part(v, Len(u), Len(v))
    BY <1>1
  <2>2. Adds(u, v, s)
    BY <1>2, <2>1, NewFrames
  <2> QED BY <2>2, Zenon DEF Adds
<1>4. PICK n : n = Len(s)
  OBVIOUS
<1>5. n \in 0..2 /\ DOMAIN s = 1..n
  <2>1. n \in Nat /\ DOMAIN s = 1..n
    BY <1>3, <1>4, LenProperties
  <2>2. PICK x, y : x = Len(u) /\ y = Len(v)
    OBVIOUS
  <2>3. x \in Nat /\ y \in Nat /\ y <= x + 2 /\ n = y - x
    BY <1>2, <1>3, <1>4, <2>2, Zenon
  <2> QED BY <2>1, <2>3
<1>6. ASSUME NEW i \in 1..n PROVE s[i] \in Sendable
  <2>1. PICK k \in 1..Len(v) : s[i] = Plain(v[k])
    BY <1>3, <1>4
  <2>2. Fine(d.role, v[k])
    BY <1>1, <2>1 DEF Leaves, Open, Talks
  <2> QED BY <2>1, <2>2 DEF Fine, Waiting
<1> DEFINE P == {Plain(m.frame) : m \in Messages} \cup CloseFrames
                  \cup {CloseReply(f) : f \in CloseFrames}
                  \cup {MakeFrame("Pong", m.frame.len) : m \in Messages}
<1>7. \A i \in 1..n : s[i] \in P
  BY <1>6, SendablePayload
<1>8. s \in Channel!Burst
  <2> HIDE DEF P
  <2>1. s = [i \in 1..n |-> s[i]]
    BY <1>3, <1>5
  <2>2. s \in [1..n -> P]
    BY <1>7, <2>1
  <2>3. Channel!Burst = UNION {[1..k -> P] : k \in 0..2}
    BY DEF Channel!Burst, P
  <2> QED BY <1>5, <2>2, <2>3
<1>9. Channel!MaySend(r, s)
  BY <1>1, <1>3 DEF Channel!MaySend, Channel!IsClose, HasClose
<1>10. PICK f, g : /\ f = [x \in Role |-> \E i \in 1..Len(ws[x].sent) : ws[x].sent[i].op = "Close"]
                   /\ g = [x \in Role |-> \E i \in 1..Len(ws'[x].sent) : ws'[x].sent[i].op = "Close"]
  OBVIOUS
<1>11. PICK b : b = \E i \in 1..Len(s) : s[i].op = "Close"
  OBVIOUS
<1>12. ws'[r] = d /\ ws'[Peer(r)] = ws[Peer(r)]
  BY LeavesInv
<1>13. g[r] = (f[r] \/ b)
  <2>1. f[r] = HasClose(u) /\ g[r] = HasClose(v)
    BY <1>1, <1>10, <1>12, Zenon DEF HasClose
  <2>2. HasClose(v) = (HasClose(u) \/ b)
    BY <1>3, <1>11 DEF HasClose
  <2> QED BY <2>1, <2>2, Zenon
<1>14. g[Peer(r)] = f[Peer(r)]
  BY <1>10, <1>12, PeerProperties, Zenon
<1>15. g = [f EXCEPT ![r] = f[r] \/ b]
  <2>1. PICK y : y = (f[r] \/ b)
    OBVIOUS
  <2>2. DOMAIN f = Role /\ f = [x \in Role |-> f[x]] /\ DOMAIN g = Role /\ g = [x \in Role |-> g[x]]
    BY <1>10
  <2>3. g[r] = y
    BY <1>13, <2>1
  <2>4. g = [f EXCEPT ![r] = y]
    BY <1>14, <2>2, <2>3, FunctionTurn
  <2> QED BY <2>1, <2>4, Zenon
<1>16. Channel!Sends(r, s)
  <2>1. [x \in Role |-> \E i \in 1..Len(ws[x].sent) : ws[x].sent[i].op = "Close"]'
          = [[x \in Role |-> \E i \in 1..Len(ws[x].sent) : ws[x].sent[i].op = "Close"]
               EXCEPT ![r] = @ \/ \E i \in 1..Len(s) : s[i].op = "Close"]
    <3>1. [f EXCEPT ![r] = f[r] \/ b] = [f EXCEPT ![r] = @ \/ \E i \in 1..Len(s) : s[i].op = "Close"]
      BY <1>11
    <3>2. g = [f EXCEPT ![r] = @ \/ \E i \in 1..Len(s) : s[i].op = "Close"]
      BY <1>15, <3>1, Zenon
    <3> QED BY <1>10, <3>2, Zenon
  <2> QED BY <1>9, <2>1, Zenon DEF Channel!Sends, Channel!Has, Channel!IsClose
<1> QED BY <1>8, <1>16

\* The queue of an end, as a part of what it has sent.
LEMMA QueueIs ==
  ASSUME NEW r
  PROVE  /\ ended[r] = "no" => Queue(r) = Part(ws[r].sent, taken[Peer(r)], Len(ws[r].sent))
         /\ ended[r] # "no" => Queue(r) = Part(ws[r].sent, taken[Peer(r)], Arrived(ws[r]))
BY DEF Queue, Part

LEMMA QueueNext ==
  ASSUME NEW r
  PROVE  /\ ended'[r] = "no" => Queue(r)' = Part(ws'[r].sent, taken'[Peer(r)], Len(ws'[r].sent))
         /\ ended'[r] # "no" => Queue(r)' = Part(ws'[r].sent, taken'[Peer(r)], Arrived(ws'[r]))
BY DEF Queue, Part, Arrived

\* The queue of the end whose turn it is: it grows by the new frames s and, if
\* the end leaves, keeps those that have arrived.
LEMMA QueueTurn ==
  ASSUME Inv, NEW r \in Role, ended[r] = "no", NEW d, Leaves(r, d),
         NEW s, s = Part(d.sent, Len(ws[r].sent), Len(d.sent)), taken'[Peer(r)] = taken[Peer(r)]
  PROVE  /\ ended'[r] = "no" => Queue(r)' = Queue(r) \o s
         /\ ended'[r] # "no" => \E n \in 0..Len(Queue(r) \o s) :
                                 Queue(r)' = SubSeq(Queue(r) \o s, 1, n)
<1>1. PICK u, v, k, a, l : /\ u = ws[r].sent /\ v = d.sent /\ k = taken[Peer(r)]
                           /\ a = Arrived(d) /\ l = Len(v)
  OBVIOUS
<1>2. /\ ws'[r] = d /\ Good(d) /\ Good(ws[r]) /\ ws[r] \in Context /\ d \in Context
      /\ Arrived(ws[r]) <= Arrived(d) /\ Begins(u, v)
  BY <1>1, LeavesInv DEF Leaves, Open, Good, Inv, EndInv
<1>3. u \in Seq(Frame) /\ v \in Seq(Frame) /\ l \in Nat /\ l <= Len(v) /\ Len(u) \in Nat
  BY <1>1, <1>2, ContextFields
<1>4. /\ k \in Nat /\ a \in Nat /\ k <= a /\ a <= l /\ k <= Len(u)
  <2>1. Peer(r) \in Role /\ Peer(Peer(r)) = r
    BY PeerProperties
  <2>2. k \in Nat /\ k <= Arrived(ws[r])
    BY <1>1, <2>1 DEF Inv, EndInv
  <2>3. /\ Arrived(ws[r]) \in Nat /\ Arrived(ws[r]) <= Len(u)
        /\ a \in Nat /\ a <= Len(v)
    BY <1>1, <1>2, ArrivedType
  <2> QED BY <1>1, <1>2, <1>3, <2>2, <2>3
<1>5. PICK q : q = Part(v, k, l)
  OBVIOUS
<1>6. q = Queue(r) \o s
  <2>1. Part(v, k, Len(v)) = Part(u, k, Len(u)) \o Part(v, Len(u), Len(v))
    BY <1>2, <1>3, <1>4, PartGrows
  <2>2. Queue(r) = Part(u, k, Len(u)) /\ s = Part(v, Len(u), Len(v))
    BY <1>1, QueueIs, Zenon
  <2> QED BY <1>1, <1>5, <2>1, <2>2, Zenon
<1>7. ended'[r] = "no" => Queue(r)' = q
  BY <1>1, <1>2, <1>5, QueueNext, Zenon
<1>8. ended'[r] # "no" => Queue(r)' = Part(v, k, a)
  BY <1>1, <1>2, QueueNext, Zenon
<1>9. Part(v, k, a) = SubSeq(q, 1, a - k) /\ a - k \in 0..Len(q)
  BY <1>3, <1>4, <1>5, PartCut
<1> QED BY <1>6, <1>7, <1>8, <1>9, Zenon

\* The queue of the other end: unchanged, or its first frame is taken.
LEMMA QueuePeer ==
  ASSUME Inv, NEW r \in Role, NEW p, p = Peer(r), ws'[p] = ws[p], ended'[p] = ended[p]
  PROVE  /\ taken'[r] = taken[r] => Queue(p)' = Queue(p)
         /\ taken[r] < Arrived(ws[p]) /\ taken'[r] = taken[r] + 1
              => /\ Queue(p) # <<>> /\ Head(Queue(p)) = Plain(ws[p].sent[taken[r] + 1])
                 /\ Queue(p)' = Tail(Queue(p))
         /\ taken[r] = Arrived(ws[p]) /\ ended[p] # "no" => Queue(p) = <<>>
<1>1. PICK u, k, a : u = ws[p].sent /\ k = taken[r] /\ a = Arrived(ws[p])
  OBVIOUS
<1>2. p \in Role /\ Peer(p) = r
  BY PeerProperties
<1>3. /\ u \in Seq(Frame) /\ Len(u) \in Nat /\ k \in Nat /\ a \in Nat /\ k <= a /\ a <= Len(u)
  <2>1. Good(ws[p]) /\ ws[p] \in Context /\ k \in Nat /\ k <= a
    BY <1>1, <1>2 DEF Inv, EndInv, Open, Good
  <2> QED BY <1>1, <2>1, ArrivedType, ContextFields
<1>4. PICK l : l = IF ended[p] = "no" THEN Len(u) ELSE a
  OBVIOUS
<1>5. l \in Nat /\ a <= l /\ l <= Len(u)
  BY <1>3, <1>4
<1>6. Queue(p) = Part(u, k, l)
  BY <1>1, <1>2, <1>4, QueueIs, Zenon
<1>7. Queue(p)' = Part(u, taken'[r], l)
  BY <1>1, <1>2, <1>4, QueueNext, Zenon
<1>8. ASSUME k < a, taken'[r] = k + 1
      PROVE  /\ Queue(p) # <<>> /\ Head(Queue(p)) = Plain(u[k + 1])
             /\ Queue(p)' = Tail(Queue(p))
  <2>1. k < l
    BY <1>3, <1>5, <1>8
  <2>2. /\ Part(u, k, l) # <<>> /\ Head(Part(u, k, l)) = Plain(u[k + 1])
        /\ Part(u, k + 1, l) = Tail(Part(u, k, l))
    BY <1>3, <1>5, <2>1, PartTakes
  <2> QED BY <1>6, <1>7, <1>8, <2>2, Zenon
<1>9. ASSUME k = a, ended[p] # "no" PROVE Queue(p) = <<>>
  <2>1. l = k
    BY <1>4, <1>9
  <2>2. Queue(p) \in Seq(Frame) /\ Len(Queue(p)) = l - k
    BY <1>3, <1>5, <1>6, <2>1, PartType
  <2>3. PICK q : q = Queue(p)
    OBVIOUS
  <2>4. q \in Seq(Frame) /\ Len(q) = 0
    BY <1>3, <2>1, <2>2, <2>3
  <2>5. q = <<>>
    BY <2>4, EmptySeq
  <2> QED BY <2>3, <2>5, Zenon
<1> QED BY <1>1, <1>6, <1>7, <1>8, <1>9, Zenon

-----------------------------------------------------------------------------
(* Every step is a turn of the channel *)

\* An end has heard the other's close message when it reads on no longer.
LEMMA HeardIs ==
  ASSUME Inv, NEW r \in Role, ended[r] = "no"
  PROVE  Channel!Heard(r) <=> ~can_read(ws[r])
<1>1. Channel!Heard(r) <=> HasClose(got[r])
  BY DEF Channel!Heard, Channel!Has, Channel!IsClose, HasClose
<1> QED BY <1>1 DEF Inv, EndInv

LEMMA QuietRefines ==
  ASSUME Inv, NEW r \in Role, ended[r] = "no", NEW d, QuietTurn(r, d)
  PROVE  Channel!Turn(r)
<1>1. PICK s, p : s = Part(d.sent, Len(ws[r].sent), Len(d.sent)) /\ p = Peer(r)
  OBVIOUS
<1>2. Leaves(r, d) /\ taken' = taken /\ got' = got /\ ended' = ended
  BY DEF QuietTurn
<1>3. s \in Channel!Burst /\ Channel!Sends(r, s)
  BY <1>1, <1>2, LeavesSends
<1>4. Queue(r)' = Queue(r) \o s
  BY <1>1, <1>2, QueueTurn
<1>5. Queue(p)' = Queue(p)
  <2>1. ws'[p] = ws[p] /\ ended'[p] = ended[p] /\ taken'[r] = taken[r]
    BY <1>1, <1>2, LeavesInv
  <2> QED BY <1>1, <2>1, QueuePeer
<1>6. PICK f, g, y : /\ f = [x \in Role |-> Queue(x)] /\ g = [x \in Role |-> Queue(x)']
                     /\ y = Queue(r) \o s
  OBVIOUS
<1>7. f[r] = Queue(r) /\ g = [f EXCEPT ![r] = y]
  <2>1. /\ DOMAIN f = Role /\ f = [x \in Role |-> f[x]]
        /\ DOMAIN g = Role /\ g = [x \in Role |-> g[x]]
    BY <1>6, Zenon
  <2>2. f[r] = Queue(r) /\ g[r] = y /\ g[Peer(r)] = f[Peer(r)]
    BY <1>1, <1>4, <1>5, <1>6, PeerProperties, Zenon
  <2> QED BY <2>1, <2>2, FunctionTurn
<1>8. Channel!Quiet(r, s)
  <2>1. g = [f EXCEPT ![r] = f[r] \o s]
    BY <1>6, <1>7, Zenon
  <2> QED BY <1>2, <1>6, <2>1, Zenon DEF Channel!Quiet
<1> QED BY <1>3, <1>8, Zenon DEF Channel!Turn

\* An end that leaves: s is what it has sent, q what stays of its queue.
LEMMA LeaveRefines ==
  ASSUME NEW r \in Role, NEW s, NEW how, got' = got, ended' = [ended EXCEPT ![r] = how],
         \E n \in 0..Len(Queue(r) \o s) : Queue(r)' = SubSeq(Queue(r) \o s, 1, n),
         Queue(Peer(r))' = Queue(Peer(r))
  PROVE  Channel!Leave(r, s, how)
<1>1. PICK n \in 0..Len(Queue(r) \o s) : Queue(r)' = SubSeq(Queue(r) \o s, 1, n)
  OBVIOUS
<1>2. PICK f, g, y : /\ f = [x \in Role |-> Queue(x)] /\ g = [x \in Role |-> Queue(x)']
                     /\ y = SubSeq(Queue(r) \o s, 1, n)
  OBVIOUS
<1>3. f[r] = Queue(r) /\ g = [f EXCEPT ![r] = y]
  <2>1. /\ DOMAIN f = Role /\ f = [x \in Role |-> f[x]]
        /\ DOMAIN g = Role /\ g = [x \in Role |-> g[x]]
    BY <1>2, Zenon
  <2>2. f[r] = Queue(r) /\ g[r] = y /\ g[Peer(r)] = f[Peer(r)]
    BY <1>1, <1>2, PeerProperties, Zenon
  <2> QED BY <2>1, <2>2, FunctionTurn
<1>4. n \in 0..Len(f[r] \o s) /\ g = [f EXCEPT ![r] = SubSeq(f[r] \o s, 1, n)]
  BY <1>1, <1>2, <1>3, Zenon
<1> QED BY <1>2, <1>4, Zenon DEF Channel!Leave

LEMMA EndRefines ==
  ASSUME Inv, NEW r \in Role, ended[r] = "no", NEW d, NEW how \in {"closed", "broken"},
         EndTurn(r, d, how)
  PROVE  Channel!Turn(r)
<1>1. PICK s, p : s = Part(d.sent, Len(ws[r].sent), Len(d.sent)) /\ p = Peer(r)
  OBVIOUS
<1>2. /\ Leaves(r, d) /\ taken' = taken /\ got' = got
      /\ ended' = [ended EXCEPT ![r] = how]
      /\ \/ how = "closed" /\ ~can_read(ws[r]) /\ (r = "Client" => ended["Server"] # "no")
         \/ /\ how = "broken" /\ can_read(ws[r]) /\ ended[p] # "no"
            /\ taken[r] = Arrived(ws[p])
  BY <1>1, Zenon DEF EndTurn
<1>3. s \in Channel!Burst /\ Channel!Sends(r, s)
  BY <1>1, <1>2, LeavesSends
<1>4. ended \in [Role -> Departure] /\ p \in Role /\ p # r
  BY <1>1, PeerProperties DEF Inv
<1>5. ended'[r] # "no" /\ ended'[p] = ended[p]
  BY <1>2, <1>4 DEF Departure
<1>6. \E n \in 0..Len(Queue(r) \o s) : Queue(r)' = SubSeq(Queue(r) \o s, 1, n)
  <2>1. taken'[Peer(r)] = taken[Peer(r)]
    BY <1>2
  <2> QED BY <1>1, <1>2, <1>5, <2>1, QueueTurn, Zenon
<1>7. Queue(p)' = Queue(p) /\ (how = "broken" => Queue(p) = <<>>)
  <2>1. ws'[p] = ws[p] /\ taken'[r] = taken[r]
    BY <1>1, <1>2, LeavesInv
  <2> QED BY <1>1, <1>2, <1>5, <2>1, QueuePeer, Zenon
<1>8. Channel!Leave(r, s, how)
  BY <1>1, <1>2, <1>6, <1>7, LeaveRefines, Zenon
<1>9. Channel!Heard(r) <=> ~can_read(ws[r])
  BY HeardIs
<1>10. CASE how = "closed"
  <2>1. ~can_read(ws[r]) /\ (r = "Client" => ended["Server"] # "no")
    BY <1>2, <1>10
  <2>2. Channel!Finish(r, s)
    BY <1>8, <1>9, <1>10, <2>1, Zenon DEF Channel!Finish
  <2> QED BY <1>3, <2>2, Zenon DEF Channel!Turn
<1>11. CASE how = "broken"
  <2>1. can_read(ws[r]) /\ ended[p] # "no"
    BY <1>2, <1>11
  <2>2. Channel!Other(r) = p
    BY <1>1 DEF Channel!Other, Peer
  <2>3. [x \in Role |-> Queue(x)][p] = <<>>
    BY <1>4, <1>7, <1>11, Zenon
  <2>4. Channel!Break(r, s)
    BY <1>8, <1>9, <1>11, <2>1, <2>2, <2>3, Zenon DEF Channel!Break
  <2> QED BY <1>3, <2>4, Zenon DEF Channel!Turn
<1> QED BY <1>10, <1>11

LEMMA TakeRefines ==
  ASSUME Inv, NEW r \in Role, ended[r] = "no", NEW d, NEW m, TakeTurn(r, d, m)
  PROVE  Channel!Turn(r)
<1>1. PICK s, p : s = Part(d.sent, Len(ws[r].sent), Len(d.sent)) /\ p = Peer(r)
  OBVIOUS
<1>2. /\ Leaves(r, d) /\ ended' = ended
      /\ taken[r] < Arrived(ws[p]) /\ m = Plain(ws[p].sent[taken[r] + 1])
      /\ taken' = [taken EXCEPT ![r] = taken[r] + 1]
      /\ can_read(ws[r]) => got' = [got EXCEPT ![r] = Append(got[r], m)]
      /\ ~can_read(ws[r]) => got' = got
  BY <1>1, Zenon DEF TakeTurn
<1>3. s \in Channel!Burst /\ Channel!Sends(r, s)
  BY <1>1, <1>2, LeavesSends
<1>4. p \in Role /\ p # r /\ taken \in [Role -> Nat]
  BY <1>1, PeerProperties DEF Inv
<1>5. taken'[r] = taken[r] + 1 /\ taken'[p] = taken[p]
  BY <1>2, <1>4
<1>6. Queue(r)' = Queue(r) \o s
  BY <1>1, <1>2, <1>5, QueueTurn
<1>7. Queue(p) # <<>> /\ Head(Queue(p)) = m /\ Queue(p)' = Tail(Queue(p))
  <2>1. ws'[p] = ws[p] /\ ended'[p] = ended[p]
    BY <1>1, <1>2, LeavesInv
  <2> QED BY <1>1, <1>2, <1>5, <2>1, QueuePeer, Zenon
<1>8. PICK f, g, y, z : /\ f = [x \in Role |-> Queue(x)] /\ g = [x \in Role |-> Queue(x)']
                        /\ y = Queue(r) \o s /\ z = Tail(Queue(p))
  OBVIOUS
<1>9. f[r] = Queue(r) /\ f[p] = Queue(p) /\ g = [f EXCEPT ![r] = y, ![p] = z]
  <2>1. /\ DOMAIN f = Role /\ f = [x \in Role |-> f[x]]
        /\ DOMAIN g = Role /\ g = [x \in Role |-> g[x]]
    BY <1>8, Zenon
  <2>2. f[r] = Queue(r) /\ f[p] = Queue(p) /\ g[r] = y /\ g[p] = z
    BY <1>4, <1>6, <1>7, <1>8, Zenon
  <2> QED BY <1>1, <1>4, <2>1, <2>2, TwoQueues
<1>10. Channel!Other(r) = p
  BY <1>1 DEF Channel!Other, Peer
<1>11. Channel!Heard(r) <=> ~can_read(ws[r])
  BY HeardIs
<1>12. got' = IF Channel!Heard(r) THEN got ELSE [got EXCEPT ![r] = Append(got[r], Head(f[p]))]
  BY <1>2, <1>7, <1>9, <1>11, Zenon
<1>13. g = [f EXCEPT ![r] = f[r] \o s, ![p] = Tail(f[p])] /\ f[p] # <<>>
  BY <1>7, <1>8, <1>9, Zenon
<1>14. Channel!Receive(r, s)
  BY <1>2, <1>4, <1>8, <1>10, <1>12, <1>13, Zenon DEF Channel!Receive
<1> QED BY <1>3, <1>14, Zenon DEF Channel!Turn

LEMMA CrashRefines ==
  ASSUME Inv, NEW r \in Role, ended[r] = "no", Crash(r)
  PROVE  Channel!Turn(r)
<1>1. PICK c, u, k, a, p : /\ c = ws[r] /\ u = c.sent /\ k = taken[Peer(r)] /\ a = Arrived(c)
                           /\ p = Peer(r)
  OBVIOUS
<1>2. /\ ws' = ws /\ taken' = taken /\ got' = got /\ ended' = [ended EXCEPT ![r] = "crashed"]
  BY DEF Crash
<1>3. p \in Role /\ p # r /\ Peer(p) = r /\ ended \in [Role -> Departure]
  BY <1>1, PeerProperties DEF Inv
<1>4. ended'[r] # "no" /\ ended'[p] = ended[p]
  BY <1>2, <1>3 DEF Departure
<1>5. /\ u \in Seq(Frame) /\ Len(u) \in Nat /\ k \in Nat /\ a \in Nat /\ k <= a /\ a <= Len(u)
  <2>1. Good(c) /\ c \in Context /\ k \in Nat /\ k <= a
    BY <1>1, <1>3 DEF Inv, EndInv, Open, Good
  <2> QED BY <1>1, <2>1, ArrivedType, ContextFields
<1>6. PICK q : q = Queue(r)
  OBVIOUS
<1>7. q = Part(u, k, Len(u)) /\ Queue(r)' = Part(u, k, a)
  BY <1>1, <1>2, <1>4, <1>6, QueueIs, QueueNext, Zenon
<1>8. Queue(r)' = SubSeq(q, 1, a - k) /\ a - k \in 0..Len(q) /\ q \in Seq(Frame)
  <2>1. PICK l : l = Len(u)
    OBVIOUS
  <2>2. l \in Nat /\ l <= Len(u) /\ a <= l /\ k <= l
    BY <1>5, <2>1
  <2>3. Part(u, k, l) \in Seq(Frame)
    BY <1>5, <2>2, PartType
  <2>4. Part(u, k, a) = SubSeq(Part(u, k, l), 1, a - k) /\ a - k \in 0..Len(Part(u, k, l))
    BY <1>5, <2>2, PartCut
  <2> QED BY <1>7, <2>1, <2>3, <2>4, Zenon
<1>9. q \o <<>> = q
  BY <1>8
<1>10. \E n \in 0..Len(Queue(r) \o <<>>) : Queue(r)' = SubSeq(Queue(r) \o <<>>, 1, n)
  BY <1>6, <1>8, <1>9, Zenon
<1>11. Queue(p)' = Queue(p)
  BY <1>1, <1>2, <1>4, QueuePeer
<1>12. Channel!Leave(r, <<>>, "crashed")
  BY <1>1, <1>2, <1>10, <1>11, LeaveRefines, Zenon
<1>13. Channel!Crash(r)
  BY <1>2, <1>12, Zenon DEF Channel!Crash
<1> QED BY <1>13, Zenon DEF Channel!Turn
-----------------------------------------------------------------------------
(* Why an end is told "reset without closing handshake" *)

\* What an end was handed is what it has taken of the other's frames, as far as
\* close frames go.
Recorded(r) ==
  HasClose(got[r]) <=> \E i \in 1..taken[r] : ws[Peer(r)].sent[i].op = "Close"

\* An end that was not cut off keeps its close frame.
Departed(r) ==
  /\ ended[r] # "broken" => Committed(ws[r])
  /\ ended[r] = "closed" => ws[r].state # "Active" /\ (r = "Client" => ended["Server"] # "no")

\* BrokenHasCause at one end.
Caused(r) ==
  ended[r] = "broken" =>
    \/ ended[Peer(r)] = "crashed"
    \/ /\ r = "Client" /\ ended["Server"] = "closed"
       /\ ws[Peer(r)].out_buffer # <<>> \/ ws[Peer(r)].additional_send.op = "Close"

CauseInv == \A r \in Role : Recorded(r) /\ Departed(r) /\ Caused(r)

\* Everything has arrived when the write buffer is empty.
LEMMA AllArrived ==
  ASSUME NEW c, Good(c), c.out_buffer = <<>> PROVE Arrived(c) = Len(c.sent)
<1>1. PICK w, u, n : w = c.wire /\ u = c.sent /\ n = Len(u)
  OBVIOUS
<1>2. w \in Seq(Byte) /\ u \in Seq(Frame) /\ n \in Nat
  BY <1>1, ContextFields DEF Good
<1>3. c.wire \o c.out_buffer = w
  BY <1>1, <1>2
<1>4. Framed(w, u)
  BY <1>1, <1>3 DEF Good
<1>5. CASE u = <<>>
  <2>1. n = 0
    BY <1>1, <1>5
  <2>2. Arrived(c) \in Nat /\ Arrived(c) <= n
    BY <1>1, ArrivedType
  <2> QED BY <1>1, <2>1, <2>2
<1>6. CASE u # <<>>
  <2>1. PICK b, m : b = w[Len(w)] /\ m = FrameLen(u[n])
    OBVIOUS
  <2>2. w # <<>> /\ b = <<n, m>>
    BY <1>1, <1>4, <1>6, <2>1, Zenon DEF Framed
  <2>3. b[1] = n /\ b[2] = m
    BY <2>2
  <2>4. Arrived(c) = IF b[2] = FrameLen(u[b[1]]) THEN b[1] ELSE b[1] - 1
    BY <1>1, <2>1, <2>2, Zenon DEF Arrived
  <2> QED BY <1>1, <2>1, <2>3, <2>4
<1> QED BY <1>5, <1>6

LEMMA DepartedTurn ==
  ASSUME Inv, CauseInv, HasRoom, NEW r \in Role, ended[r] = "no", Turn(r), NEW s \in Role
  PROVE  Departed(s)'
<1>1. Committed(ws[r]) /\ RoomToClose(ws[r])
  BY DEF CauseInv, Departed, HasRoom
<1>2. ended \in [Role -> Departure] /\ "Server" \in Role
  BY DEF Inv, Role
<1>3. ASSUME NEW d, QuietTurn(r, d) \/ \E f : TakeTurn(r, d, f) PROVE Departed(s)'
  <2>1. Leaves(r, d) /\ ended' = ended /\ Keeps(ws[r], d)
    BY <1>3 DEF QuietTurn, TakeTurn
  <2>2. ws'[r] = d /\ ws'[Peer(r)] = ws[Peer(r)] /\ Committed(d)
    BY <1>1, <2>1, LeavesInv DEF Keeps
  <2>3. CASE s = r
    BY <2>1, <2>2, <2>3 DEF Departed, Committed
  <2>4. CASE s = Peer(r)
    BY <2>1, <2>2, <2>4 DEF CauseInv, Departed, Committed
  <2> QED BY <2>3, <2>4, PeerProperties
<1>4. ASSUME NEW d, NEW how \in {"closed", "broken"}, EndTurn(r, d, how) PROVE Departed(s)'
  <2>1. /\ Leaves(r, d) /\ ended' = [ended EXCEPT ![r] = how]
        /\ how = "closed" => /\ d.state # "Active" /\ Keeps(ws[r], d)
                             /\ r = "Client" => ended["Server"] # "no"
    BY <1>4 DEF EndTurn
  <2>2. ws'[r] = d /\ ws'[Peer(r)] = ws[Peer(r)]
    BY <2>1, LeavesInv
  <2>3. /\ ended'[r] = how /\ ended'[Peer(r)] = ended[Peer(r)]
        /\ ended["Server"] # "no" => ended'["Server"] = ended["Server"]
    BY <1>2, <2>1, PeerProperties
  <2>4. CASE s = r
    <3>1. how = "closed" => Committed(d)
      BY <1>1, <2>1 DEF Keeps
    <3> QED BY <2>1, <2>2, <2>3, <2>4, <3>1 DEF Departed, Committed
  <2>5. CASE s = Peer(r)
    <3>1. Departed(Peer(r))
      BY PeerProperties DEF CauseInv
    <3> QED BY <2>2, <2>3, <2>5, <3>1 DEF Departed, Committed
  <2> QED BY <2>4, <2>5, PeerProperties
<1>5. ASSUME Crash(r) PROVE Departed(s)'
  <2>1. ws' = ws /\ ended' = [ended EXCEPT ![r] = "crashed"]
    BY <1>5 DEF Crash
  <2>2. /\ ended'[r] = "crashed" /\ ended'[Peer(r)] = ended[Peer(r)]
        /\ ended["Server"] # "no" => ended'["Server"] = ended["Server"]
    BY <1>2, <2>1, PeerProperties
  <2>3. CASE s = r
    BY <1>1, <2>1, <2>2, <2>3 DEF Departed, Committed
  <2>4. CASE s = Peer(r)
    <3>1. Departed(Peer(r))
      BY PeerProperties DEF CauseInv
    <3> QED BY <2>1, <2>2, <2>4, <3>1 DEF Departed, Committed
  <2> QED BY <2>3, <2>4, PeerProperties
<1> QED BY <1>3, <1>4, <1>5 DEF Turn

LEMMA RecordedTurn ==
  ASSUME Inv, CauseInv, NEW r \in Role, ended[r] = "no", Turn(r), NEW s \in Role
  PROVE  Recorded(s)'
<1>1. ASSUME NEW x \in Role
      PROVE  /\ Peer(x) \in Role /\ taken[x] \in Nat /\ taken[x] <= Len(ws[Peer(x)].sent)
             /\ got[x] \in Seq(Frame) /\ ws[x].sent \in Seq(Frame) /\ Len(ws[x].sent) \in Nat
  <2>1. PICK c, a : c = ws[Peer(x)] /\ a = Arrived(c)
    OBVIOUS
  <2>2. Peer(x) \in Role /\ Good(c) /\ c \in Context /\ ws[x] \in Context /\ taken[x] \in Nat
        /\ taken[x] <= a /\ got[x] \in Seq(Frame)
    BY <2>1, PeerProperties DEF Inv, EndInv, Open, Good
  <2>3. a \in Nat /\ a <= Len(c.sent) /\ Len(c.sent) \in Nat
    BY <2>1, <2>2, ArrivedType, ContextFields
  <2>4. taken[x] <= Len(c.sent)
    BY <2>2, <2>3
  <2> QED BY <2>1, <2>2, <2>4, ContextFields
\* More frames of the other end change nothing.
<1>2. ASSUME NEW v, Begins(ws[Peer(s)].sent, v), ws'[Peer(s)].sent = v,
             taken'[s] = taken[s], got'[s] = got[s]
      PROVE  Recorded(s)'
  <2>1. PICK u, k : u = ws[Peer(s)].sent /\ k = taken[s]
    OBVIOUS
  <2>2. k \in Nat /\ Len(u) \in Nat /\ k <= Len(u)
    BY <1>1, <2>1
  <2>3. \A i \in 1..k : i \in 1..Len(u) /\ v[i] = u[i]
    BY <1>2, <2>1, <2>2 DEF Begins
  <2>4. HasClose(got[s]) <=> \E i \in 1..k : u[i].op = "Close"
    BY <2>1 DEF CauseInv, Recorded
  <2>5. HasClose(got[s]) <=> \E i \in 1..k : v[i].op = "Close"
    BY <2>3, <2>4
  <2> QED BY <1>2, <2>1, <2>5 DEF Recorded, HasClose
<1>3. ASSUME NEW u, Begins(ws[r].sent, u), ws'[r].sent = u, ws'[Peer(r)] = ws[Peer(r)],
             taken' = taken, got' = got
      PROVE  Recorded(s)'
  <2>1. CASE s = r
    <3>1. Begins(ws[Peer(s)].sent, ws[Peer(s)].sent)
      BY <1>1 DEF Begins
    <3> QED BY <1>2, <1>3, <2>1, <3>1
  <2>2. CASE s = Peer(r)
    BY <1>2, <1>3, <2>2, PeerProperties
  <2> QED BY <2>1, <2>2, PeerProperties
<1>4. ASSUME NEW d, QuietTurn(r, d) \/ EndTurn(r, d, "closed") \/ EndTurn(r, d, "broken")
      PROVE  Recorded(s)'
  <2>1. Leaves(r, d) /\ taken' = taken /\ got' = got
    BY <1>4 DEF QuietTurn, EndTurn
  <2>2. ws'[r] = d /\ ws'[Peer(r)] = ws[Peer(r)] /\ Begins(ws[r].sent, d.sent)
    BY <2>1, LeavesInv DEF Leaves
  <2> QED BY <1>3, <2>1, <2>2
<1>5. ASSUME NEW d, NEW f, TakeTurn(r, d, f) PROVE Recorded(s)'
  <2>1. /\ Leaves(r, d) /\ taken[r] < Arrived(ws[Peer(r)])
        /\ f = Plain(ws[Peer(r)].sent[taken[r] + 1])
        /\ taken' = [taken EXCEPT ![r] = @ + 1]
        /\ can_read(ws[r]) => got' = [got EXCEPT ![r] = Append(@, f)]
        /\ ~can_read(ws[r]) => got' = got
    BY <1>5 DEF TakeTurn
  <2>2. ws'[r] = d /\ ws'[Peer(r)] = ws[Peer(r)] /\ Begins(ws[r].sent, d.sent)
    BY <2>1, LeavesInv DEF Leaves
  <2>3. /\ taken'[r] = taken[r] + 1 /\ taken'[Peer(r)] = taken[Peer(r)]
        /\ got'[Peer(r)] = got[Peer(r)]
    BY <2>1, PeerProperties DEF Inv
  <2>4. CASE s = Peer(r)
    BY <1>2, <2>2, <2>3, <2>4, PeerProperties
  <2>5. CASE s = r
    <3>1. PICK u, k, g : u = ws[Peer(r)].sent /\ k = taken[r] /\ g = u[k + 1]
      OBVIOUS
    <3>2. k \in Nat /\ k + 1 \in 1..Len(u) /\ u \in Seq(Frame)
      <4>1. PICK a : a = Arrived(ws[Peer(r)])
        OBVIOUS
      <4>2. a \in Nat /\ a <= Len(u) /\ Len(u) \in Nat /\ k \in Nat /\ k < a /\ u \in Seq(Frame)
        BY <1>1, <2>1, <3>1, <4>1, ArrivedType DEF Inv, EndInv, Open
      <4> QED BY <4>2
    <3>3. g \in Frame /\ f = Plain(g) /\ f \in Frame /\ f.op = g.op
      BY <2>1, <3>1, <3>2, ElementOfSeq, PlainType
    <3>4. HasClose(got[r]) <=> \E i \in 1..k : u[i].op = "Close"
      BY <3>1 DEF CauseInv, Recorded
    <3>5. (\E i \in 1..(k + 1) : u[i].op = "Close") <=> HasClose(got[r]) \/ f.op = "Close"
      <4>1. \A i : i \in 1..(k + 1) <=> i \in 1..k \/ i = k + 1
        BY <3>2
      <4> QED BY <3>1, <3>3, <3>4, <4>1
    <3>6. HasClose(got'[r]) <=> HasClose(got[r]) \/ f.op = "Close"
      <4>1. CASE can_read(ws[r])
        <5>1. got'[r] = Append(got[r], f)
          BY <2>1, <4>1 DEF Inv
        <5> QED BY <1>1, <3>3, <5>1, OneMore
      <4>2. CASE ~can_read(ws[r])
        <5>1. HasClose(got[r])
          BY <4>2 DEF Inv, EndInv
        <5> QED BY <2>1, <4>2, <5>1
      <4> QED BY <4>1, <4>2
    <3>7. HasClose(got'[r]) <=> \E i \in 1..taken'[r] : ws'[Peer(r)].sent[i].op = "Close"
      BY <2>2, <2>3, <3>1, <3>5, <3>6
    <3> QED BY <2>5, <3>7 DEF Recorded, HasClose
  <2> QED BY <2>4, <2>5, PeerProperties
<1>6. ASSUME Crash(r) PROVE Recorded(s)'
  <2>1. ws' = ws /\ taken' = taken /\ got' = got
    BY <1>6 DEF Crash
  <2> QED BY <2>1 DEF CauseInv, Recorded, HasClose
<1> QED BY <1>4, <1>5, <1>6 DEF Turn

LEMMA CausedTurn ==
  ASSUME Inv, CauseInv, NEW r \in Role, ended[r] = "no", Turn(r), NEW s \in Role
  PROVE  Caused(s)'
<1>1. PICK p : p = Peer(r)
  OBVIOUS
<1>2. /\ p \in Role /\ Peer(p) = r /\ p # r /\ "Server" \in Role /\ ended \in [Role -> Departure]
      /\ r = "Client" <=> p = "Server"
  BY <1>1, PeerProperties DEF Inv, Role, Peer
<1>3. ended[p] # "broken"
  <2>1. Caused(p)
    BY <1>2 DEF CauseInv
  <2>2. ended[p] = "broken" => \/ ended[r] = "crashed"
                               \/ p = "Client" /\ ended["Server"] = "closed"
    BY <1>2, <2>1, Zenon DEF Caused
  <2> QED BY <1>2, <2>2 DEF Role
<1>4. ASSUME ended'[p] = ended[p], ended'[r] # "broken" PROVE Caused(s)'
  <2>1. ended'[s] # "broken"
    BY <1>1, <1>3, <1>4, PeerProperties
  <2> QED BY <2>1 DEF Caused
<1>5. ASSUME NEW d, QuietTurn(r, d) \/ \E f : TakeTurn(r, d, f) PROVE Caused(s)'
  <2>1. ended' = ended
    BY <1>5 DEF QuietTurn, TakeTurn
  <2> QED BY <1>4, <2>1
<1>6. ASSUME NEW d, EndTurn(r, d, "closed") PROVE Caused(s)'
  <2>1. ended' = [ended EXCEPT ![r] = "closed"]
    BY <1>6 DEF EndTurn
  <2> QED BY <1>2, <1>4, <2>1
<1>7. ASSUME Crash(r) PROVE Caused(s)'
  <2>1. ended' = [ended EXCEPT ![r] = "crashed"]
    BY <1>7 DEF Crash
  <2> QED BY <1>2, <1>4, <2>1
<1>8. ASSUME NEW d, EndTurn(r, d, "broken") PROVE Caused(s)'
  <2>1. /\ Leaves(r, d) /\ ended' = [ended EXCEPT ![r] = "broken"]
        /\ can_read(ws[r]) /\ ended[p] # "no" /\ taken[r] = Arrived(ws[p])
    BY <1>1, <1>8 DEF EndTurn
  <2>2. ended'[p] = ended[p] /\ ended'["Server"] = IF p = "Server" THEN ended[p] ELSE ended'["Server"]
    BY <1>2, <2>1
  <2>3. ws'[p] = ws[p]
    BY <1>1, <2>1, LeavesInv
  <2>4. CASE s = p
    <3>1. ended'[s] # "broken"
      BY <1>3, <2>2, <2>4
    <3> QED BY <3>1 DEF Caused
  <2>5. CASE s = r /\ ended[p] = "crashed"
    BY <1>1, <2>2, <2>5 DEF Caused
  <2>6. CASE s = r /\ ended[p] = "closed"
    <3>1. p = "Server" /\ r = "Client"
      <4>1. p = "Client" => ended["Server"] # "no"
        BY <1>2, <2>6 DEF CauseInv, Departed
      <4> QED BY <1>2, <4>1 DEF Role
    <3>2. PICK c, u, a : c = ws[p] /\ u = c.sent /\ a = Arrived(c)
      OBVIOUS
    <3>3. HasClose(u) \/ c.additional_send.op = "Close"
      BY <1>2, <2>6, <3>2 DEF CauseInv, Departed, Committed
    <3>4. ~HasClose(got[r])
      BY <2>1 DEF Inv, EndInv
    <3>5. ~\E i \in 1..a : u[i].op = "Close"
      BY <1>1, <2>1, <3>2, <3>4 DEF CauseInv, Recorded
    <3>6. HasClose(u) => c.out_buffer # <<>>
      <4>1. Good(c)
        BY <1>2, <3>2 DEF Inv, EndInv, Open
      <4>2. c.out_buffer = <<>> => a = Len(u)
        BY <3>2, <4>1, AllArrived
      <4> QED BY <3>5, <4>2 DEF HasClose
    <3>7. ws'[p] = c /\ ended'["Server"] = "closed"
      BY <2>2, <2>3, <2>6, <3>1, <3>2
    <3>8. Peer(s) = p
      BY <1>1, <2>6
    <3> QED BY <2>6, <3>1, <3>3, <3>6, <3>7, <3>8 DEF Caused
  <2>7. ended[p] \in {"crashed", "closed"}
    BY <1>2, <1>3, <2>1 DEF Departure
  <2> QED BY <1>1, <2>4, <2>5, <2>6, <2>7, PeerProperties
<1> QED BY <1>5, <1>6, <1>7, <1>8 DEF Turn

-----------------------------------------------------------------------------
(* The theorems *)

LEMMA InitInv == Init => Inv /\ Channel!Init
<1> SUFFICES ASSUME Init PROVE Inv /\ Channel!Init
  OBVIOUS
<1>1. ASSUME NEW r \in Role
      PROVE  /\ Open(ws[r]) /\ ws[r] \in Context /\ ws[r].role = r /\ Arrived(ws[r]) = 0
             /\ ws[r].state = "Active" /\ ws[r].sent = <<>>
  <2>1. PICK c : c = NewContext(r, InitConfig)
    OBVIOUS
  <2>2. ws[r] = c
    BY <2>1 DEF Init
  <2>3. Good(c) /\ c \in Context
    <3>1. Good(c)
      BY <2>1, ConnectionAssumption, NewContextGood
    <3> QED BY <3>1 DEF Good
  <2>4. /\ c.state = "Active" /\ c.additional_send = NoFrame /\ c.sent = <<>> /\ c.wire = <<>>
        /\ c.incomplete = NoMessage /\ c.role = r
        /\ c.max_message_size = InitConfig.max_message_size
    BY <2>1 DEF NewContext
  <2>5. Sound(c)
    BY <2>4, NoFrameFields, PlainAssumption
       DEF Sound, Queued, ClosesOnce, ReplyOwed, OnlyPongs, HasClose
  <2>6. Talks(c)
    BY <2>4 DEF Talks
  <2> QED BY <2>2, <2>3, <2>4, <2>5, <2>6 DEF Open, Arrived
<1>2. /\ taken = [r \in Role |-> 0] /\ ended = [r \in Role |-> "no"] /\ got = [r \in Role |-> <<>>]
      /\ ws = [r \in Role |-> NewContext(r, InitConfig)]
  BY DEF Init
<1>3. Inv
  <2>1. ASSUME NEW r \in Role PROVE EndInv(r)
    <3>1. ~HasClose(got[r]) /\ can_read(ws[r]) /\ ws[r].state # "Terminated"
      BY <1>1, <1>2 DEF HasClose, can_read
    <3>2. taken[r] <= Arrived(ws[Peer(r)])
      BY <1>1, <1>2, PeerProperties
    <3> QED BY <1>1, <3>1, <3>2 DEF EndInv
  <2>2. ws \in [Role -> Context]
    BY <1>1, <1>2
  <2>3. taken \in [Role -> Nat] /\ got \in [Role -> Seq(Frame)] /\ ended \in [Role -> Departure]
    BY <1>2 DEF Departure
  <2> QED BY <2>1, <2>2, <2>3 DEF Inv
<1>4. Channel!Init
  <2>1. ASSUME NEW r \in Role PROVE Queue(r) = <<>>
    BY <1>1, <1>2, PeerProperties DEF Queue
  <2>2. [r \in Role |-> Queue(r)] = [r \in Role |-> <<>>]
    BY <2>1
  <2>3. [r \in Role |-> \E i \in 1..Len(ws[r].sent) : ws[r].sent[i].op = "Close"]
          = [r \in Role |-> FALSE]
    <3>1. ASSUME NEW r \in Role
          PROVE  (\E i \in 1..Len(ws[r].sent) : ws[r].sent[i].op = "Close") = FALSE
      BY <1>1
    <3> QED BY <3>1
  <2>4. Channel!Ends = Role
    BY DEF Channel!Ends, Role
  <2> QED BY <1>2, <2>2, <2>3, <2>4, Zenon DEF Channel!Init
<1> QED BY <1>3, <1>4

LEMMA StepInv ==
  ASSUME Inv, [Next]_vars PROVE Inv' /\ [Channel!Next]_(Channel!vars)
<1>1. ASSUME UNCHANGED <<ws, taken, got, ended>> PROVE Inv' /\ UNCHANGED Channel!vars
  <2>1. Inv'
    BY <1>1 DEF Inv, EndInv
  <2>2. UNCHANGED Channel!vars
    BY <1>1 DEF Channel!vars, Queue, Arrived
  <2> QED BY <2>1, <2>2
<1>2. ASSUME NEW r \in Role, ended[r] = "no", Turn(r) PROVE Inv' /\ Channel!Next
  <2>1. Channel!Turn(r)
    BY <1>2, QuietRefines, EndRefines, TakeRefines, CrashRefines DEF Turn
  <2>2. r \in Channel!Ends
    BY DEF Channel!Ends, Role
  <2> QED BY <1>2, <2>1, <2>2, TurnInv DEF Channel!Next
<1>3. CASE Next
  BY <1>1, <1>2, <1>3, NextTurns
<1>4. CASE UNCHANGED vars
  BY <1>1, <1>4 DEF vars
<1> QED BY <1>3, <1>4

\* Two contexts (client.rs, server.rs, WebSocketContext of protocol/mod.rs) and the
\* stream between them implement MessageChannel, for every set of messages both
\* accept, every limit of the write buffer and every point at which the stream
\* blocks: messages arrive once, in order and unchanged, nothing but pongs follows a
\* close frame, and an end that is told "closed" or "reset without closing
\* handshake" is told the truth.
THEOREM ConnectionImplementsChannel == Spec => ImplementsChannel
<1>1. Init => Inv /\ Channel!Init
  BY InitInv
<1>2. Inv /\ [Next]_vars => Inv' /\ [Channel!Next]_(Channel!vars)
  BY StepInv
<1> QED BY <1>1, <1>2, PTL DEF Spec, ImplementsChannel, Channel!Spec

\* An end that is told "reset without closing handshake" (check_connection_reset and
\* the end of the stream in read_message_frame) lost a peer that crashed, or it is a
\* client whose server ended with its close frame still in its buffers: as long as
\* `close` finds room for its frame.
THEOREM BrokenIsExplained == Spec /\ []HasRoom => []BrokenHasCause
<1>1. Init => Inv /\ CauseInv
  <2> SUFFICES ASSUME Init PROVE CauseInv
    BY InitInv
  <2>1. ASSUME NEW r \in Role PROVE Recorded(r) /\ Departed(r) /\ Caused(r)
    <3>1. /\ taken[r] = 0 /\ got[r] = <<>> /\ ended[r] = "no" /\ ws[r].state = "Active"
      BY DEF Init, NewContext
    <3> QED BY <3>1 DEF Recorded, Departed, Caused, Committed, HasClose
  <2> QED BY <2>1 DEF CauseInv
<1>2. Inv /\ CauseInv /\ HasRoom /\ [Next]_vars => Inv' /\ CauseInv'
  <2> SUFFICES ASSUME Inv, CauseInv, HasRoom, [Next]_vars PROVE CauseInv'
    BY StepInv
  <2>1. ASSUME UNCHANGED <<ws, taken, got, ended>> PROVE CauseInv'
    BY <2>1 DEF CauseInv, Recorded, Departed, Caused, Committed, HasClose
  <2>2. ASSUME NEW r \in Role, ended[r] = "no", Turn(r) PROVE CauseInv'
    <3>1. ASSUME NEW s \in Role PROVE (Recorded(s) /\ Departed(s) /\ Caused(s))'
      BY <2>2, RecordedTurn, DepartedTurn, CausedTurn
    <3> QED BY <3>1 DEF CauseInv
  <2>3. CASE Next
    BY <2>1, <2>2, <2>3, NextTurns
  <2>4. CASE UNCHANGED vars
    BY <2>1, <2>4 DEF vars
  <2> QED BY <2>3, <2>4
<1>3. CauseInv => BrokenHasCause
  BY DEF CauseInv, Caused, BrokenHasCause
<1> QED BY <1>1, <1>2, <1>3, PTL DEF Spec

=============================================================================
