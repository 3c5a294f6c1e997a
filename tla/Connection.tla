----------------------------- MODULE Connection -----------------------------
(***************************************************************************)
(* A client and a server of this library, connected by a stream that may   *)
(* block at any byte but neither loses nor reorders bytes.  Both           *)
(* applications call their contexts (WebSocketContext) as they like; each  *)
(* may crash.  An application that is told that the connection is over     *)
(* drops it, as the documentation of Error::ConnectionClosed asks.         *)
(***************************************************************************)
EXTENDS WebSocketContext, FiniteSets

CONSTANTS
  InitConfig,   \* the configuration of both contexts
  Messages,     \* the messages the applications may write: [kind, frame]
  CloseFrames,  \* the close frames they may pass to `close`
  MaxSent,      \* bound: frames an application puts into the write buffer
  MayCrash      \* the ends that may crash

ASSUME ConnectionAssumption ==
         /\ ValidConfig(InitConfig)
         /\ {InitConfig.max_write_buffer_size, InitConfig.write_buffer_size,
             InitConfig.max_message_size, MaxSent} \subseteq Nat
         /\ InitConfig.accept_unmasked_frames \in BOOLEAN
         /\ MayCrash \subseteq Role

\* The contexts have no deflate codec, and the stream does not reset.
ASSUME PlainAssumption == ~Deflate /\ StreamErrors \subseteq {"WouldBlock"}

\* What is written is what the other end accepts: messages (no raw frames) within
\* the limits both share.  A text is a String, hence UTF-8; a close code is one
\* that may appear on the wire, since any other is answered by 1002.
ASSUME CloseFrameAssumption ==
         \A f \in CloseFrames :
           /\ f = CloseFrame(f.code, f.len) /\ f.code \in CloseCode \ {"disallowed"}
           /\ f.len \in 0..ControlMax
           /\ IF f.code = "none" THEN f.len = 0 ELSE f.len > 1
ASSUME MessageAssumption ==
         \A m \in Messages :
           \/ m.kind = "Close" /\ m.frame \in CloseFrames
           \/ /\ m.kind \in {"Text", "Binary", "Ping", "Pong"}
              /\ m.frame = MakeFrame(m.kind, m.frame.len)
              /\ m.frame.len \in 0..(IF m.kind \in {"Ping", "Pong"} THEN ControlMax
                                     ELSE InitConfig.max_message_size)

VARIABLES
  ws,     \* [Role -> Context]
  taken,  \* [Role -> Nat]: how many of the other's frames an end has taken
  owes,   \* [Role -> BOOLEAN]: a call was blocked and no `flush` has passed since
  ended,  \* [Role -> {"no", "closed", "broken", "crashed"}]: how it left
  got     \* history, [Role -> Seq(Frame)]: the messages `read` returned

vars == <<ws, taken, owes, ended, got>>

Peer(r) == IF r = "Client" THEN "Server" ELSE "Client"

Init ==
  /\ ws = [r \in Role |-> NewContext(r, InitConfig)]
  /\ taken = [r \in Role |-> 0]
  /\ owes = [r \in Role |-> FALSE]
  /\ ended = [r \in Role |-> "no"]
  /\ got = [r \in Role |-> <<>>]

-----------------------------------------------------------------------------
(* The stream *)

\* It delivers what it accepts, so that a flush of it changes nothing.
Delivered(c) == [c EXCEPT !.flushed = Len(c.wire)]

\* The frames whose last byte the stream has accepted.
Arrived(c) ==
  IF c.wire = <<>> THEN 0
  ELSE LET b == c.wire[Len(c.wire)]
       IN  IF b[2] = FrameLen(c.sent[b[1]]) THEN b[1] ELSE b[1] - 1

\* What read_frame finds at an end: the next frame of the other; the end of the
\* stream, behind everything the other has sent; or a stream that would block.
Input(r) ==
  LET c == ws[Peer(r)]
  IN  CASE taken[r] < Arrived(c) -> FrameInput(c.sent[taken[r] + 1])
        [] taken[r] = Arrived(c) /\ ended[Peer(r)] # "no" -> EofInput
        [] OTHER -> ErrorInput("WouldBlock")

-----------------------------------------------------------------------------
(* The calls *)

\* A call of r returned q; the application drops a connection that is over.
Return(r, q) ==
  /\ ws' = [ws EXCEPT ![r] = Delivered(q.c)]
  /\ ended' = [ended EXCEPT ![r] =
                 CASE q.err = "ConnectionClosed" -> "closed"
                   [] q.err = "ResetWithoutClosingHandshake" -> "broken"
                   [] OTHER -> @]

\* `write`, `close` and `flush`: after WouldBlock the application owes a `flush`,
\* until one is not blocked.
Writes(r, S, before) ==
  /\ UNCHANGED <<taken, got>>
  /\ \E q \in S :
       Return(r, q) /\ owes' = [owes EXCEPT ![r] = before \/ q.err = "WouldBlock"]

Write(r) ==
  /\ ended[r] = "no" /\ Len(ws[r].sent) < MaxSent
  /\ \E m \in Messages : Writes(r, write(ws[r], m), owes[r])

Close(r) ==
  /\ ended[r] = "no" /\ Len(ws[r].sent) < MaxSent
  /\ \E f \in CloseFrames : Writes(r, close(ws[r], f), owes[r])

Flush(r) == ended[r] = "no" /\ Writes(r, flush(ws[r]), FALSE)

\* One round of the loop of `read`, whose head had one of the results S.
ReadRound(r, S) ==
  /\ ended[r] = "no"
  /\ UNCHANGED owes
  /\ \E p \in S :
       IF p.err # "None"
         THEN Return(r, p) /\ UNCHANGED <<taken, got>>
         ELSE \E in \in {Input(r)} : \E q \in read_message_frame(p.c, in) :
                /\ Return(r, q)
                /\ taken' = [taken EXCEPT ![r] = IF in.kind = "frame" THEN @ + 1 ELSE @]
                /\ got' = [got EXCEPT ![r] = IF q.err = "None" THEN Append(@, q.msg) ELSE @]

Read(r) == ReadRound(r, ReadPrepare(ws[r]))

\* The process at an end is killed.
Crash(r) ==
  /\ r \in MayCrash /\ ended[r] = "no"
  /\ ended' = [ended EXCEPT ![r] = "crashed"]
  /\ UNCHANGED <<ws, taken, owes, got>>

\* Both ends have dropped the connection.
Over ==
  /\ \A r \in Role : ended[r] # "no"
  /\ UNCHANGED vars

Next ==
  \/ \E r \in Role : Read(r) \/ Write(r) \/ Close(r) \/ Flush(r) \/ Crash(r)
  \/ Over

-----------------------------------------------------------------------------
(* Fairness *)

\* A round of `read`, and a `flush`, at a time when the stream takes all it is
\* given: what they try to send does not wait for a later call.
Sent(c, p) ==
  p.err = "None" /\ (c.additional_send # NoFrame \/ c.unflushed_additional)
    => p.c.out_buffer = <<>> /\ ~p.c.unflushed_additional
CalmRead(r) ==
  ReadRound(r, {p \in ReadPrepare(ws[r]) : Sent(ws[r], p)})
CalmFlush(r) ==
  /\ ended[r] = "no" /\ owes[r]
  /\ Writes(r, {q \in flush(ws[r]) : q.err # "WouldBlock"}, FALSE)

\* The applications keep reading, and flush what was blocked, at times when the
\* stream takes what it is given.  Nobody has to write, close or crash.
Fairness == \A r \in Role : WF_vars(CalmRead(r)) /\ WF_vars(CalmFlush(r))

Spec == Init /\ [][Next]_vars /\ Fairness

-----------------------------------------------------------------------------
(* Properties *)

\* The frame without what the wire adds.
Plain(f) == [f EXCEPT !.masked = FALSE]

\* The frames of an end that the other has not taken; of an end that has gone,
\* those that reached the stream.
Queue(r) ==
  LET last == IF ended[r] = "no" THEN Len(ws[r].sent) ELSE Arrived(ws[r])
  IN  [i \in 1..(last - taken[Peer(r)]) |-> Plain(ws[r].sent[taken[Peer(r)] + i])]

Channel ==
  INSTANCE MessageChannel WITH
    Payload <- {Plain(m.frame) : m \in Messages} \cup CloseFrames
                 \cup {CloseReply(f) : f \in CloseFrames}
                 \cup {MakeFrame("Pong", m.frame.len) : m \in Messages},
    MaxBurst <- 2,
    queue <- [r \in Role |-> Queue(r)],
    closing <- [r \in Role |->
                  \E i \in 1..Len(ws[r].sent) : ws[r].sent[i].op = "Close"],
    got <- got,
    gone <- ended

\* Two contexts and the stream between them implement MessageChannel: buffering,
\* partial writes, automatic replies and both ways to close add up to messages
\* that arrive once, in order and unchanged, and to ends that know why they end.
ImplementsChannel == Channel!Spec

\* Once an end has begun to close, or was lost, both come to an end (the loop of
\* `read` flushes a blocked reply again, the server drops the connection, the
\* client sees the end of the stream).
BothEnd ==
  (\E r \in Role : ended[r] # "no" \/ ws[r].state # "Active")
    ~> (\A r \in Role : ended[r] # "no")

\* A queued pong or close reply reaches the stream although writes block, as long
\* as the connection lasts: `read` alone is enough to send it (additional_send,
\* unflushed_additional).
ReplySent ==
  \A r \in Role :
    ws[r].additional_send # NoFrame
      ~> \/ ended[r] # "no"
         \/ ws[r].additional_send = NoFrame /\ ws[r].out_buffer = <<>>

\* A close frame fits into the write buffer of an end that may still send one.  Only
\* then does `close` keep its frame (BrokenHasCause fails otherwise).
RoomToClose(c) ==
  c.state = "Active" =>
    \A f \in CloseFrames : can_buffer(c, FrameLen([f EXCEPT !.masked = TRUE]))
HasRoom == \A r \in Role : RoomToClose(ws[r])

\* An end that is told "reset without closing handshake" lost a peer that
\* crashed or, the one way a normal close goes wrong, a server that ended while
\* its own close frame was still in its buffers.
BrokenHasCause ==
  \A r \in Role :
    LET c == ws[Peer(r)]
    IN  ended[r] = "broken" =>
          \/ ended[Peer(r)] = "crashed"
          \/ /\ r = "Client" /\ ended["Server"] = "closed"
             /\ c.out_buffer # <<>> \/ c.additional_send.op = "Close"

=============================================================================
