------------------------------ MODULE Endpoint ------------------------------
(***************************************************************************)
(* One endpoint, its application and everything it can meet: the           *)
(* application calls the methods of WebSocketContext in any order, the     *)
(* stream accepts, blocks, fails or ends at any byte, and the peer sends   *)
(* any frames of InFrames in an order that is legal for its own messages   *)
(* (single frames may still be ones this endpoint has to reject).          *)
(*                                                                         *)
(* A call is one step: `&mut self` gives the caller the context alone.     *)
(* Only the loop of `read` takes a step per iteration.                     *)
(***************************************************************************)
EXTENDS WebSocketContext

CONSTANTS
  Roles,       \* the roles this endpoint may have
  Configs,     \* the configurations set_config may install
  InitConfig,  \* the configuration of the new context
  Messages,    \* the messages the application may write: [kind, frame]
  CloseFrames, \* the close frames it may pass to `close`
  InFrames,    \* the frames the peer may send
  MaxSent,     \* bound: frames put into the write buffer by the application
  MaxFrames    \* bound: frames received

ConfigType ==
  [max_write_buffer_size : Nat, write_buffer_size : Nat, max_message_size : Nat,
   accept_unmasked_frames : BOOLEAN]

ASSUME RoleAssumption == Roles \subseteq Role
ASSUME ConfigAssumption ==
         Configs \subseteq ConfigType /\ InitConfig \in ConfigType
           /\ ValidConfig(InitConfig)
\* A message has its own opcode and is not compressed yet.  A raw close frame is
\* left out: `write` sends it and leaves the state alone.
ASSUME MessageAssumption ==
         \A m \in Messages :
           /\ m.kind \in {"Text", "Binary", "Ping", "Pong", "Close", "Frame"}
           /\ m.frame \in Frame /\ m.frame.op # "None"
           /\ m.kind # "Frame" => /\ m.frame.op = m.kind /\ ~m.frame.rsv1
                                 /\ m.frame.plain = m.frame.len
           /\ m.kind = "Frame" => m.frame.op # "Close"
ASSUME CloseFrameAssumption ==
         \A f \in CloseFrames : f \in Frame /\ f.op = "Close" /\ ~f.rsv1
ASSUME InFrameAssumption ==
         \A f \in InFrames :
           f \in Frame /\ f.op # "None" /\ (f.code # "none" => f.len > 1)
ASSUME BoundAssumption == MaxSent \in Nat /\ MaxFrames \in Nat

VARIABLES
  ws,    \* the context
  ret,   \* what the last call returned: [call, err, msg]
  peer   \* history: what the peer has sent so far

vars == <<ws, ret, peer>>

\* open: the message the peer is in the middle of; op and len: its type and
\* length so far; last: its last whole message; z: frames whose payload its
\* compressor remembers; closed: it sent a close frame that was accepted;
\* clean: none of its frames was rejected; ended: the stream ended; frames: how
\* many were taken.
PeerType ==
  [open : {"none", "plain", "comp"}, op : {"Text", "Binary", "None"}, len : Nat,
   last : Frame, z : Nat, closed : BOOLEAN, clean : BOOLEAN, ended : BOOLEAN,
   frames : Nat]

Calls == {"new", "read", "write", "flush", "close", "set_config"}

Init ==
  /\ ws \in {NewContext(role, InitConfig) : role \in Roles}
  /\ ret = [call |-> "new", err |-> "None", msg |-> NoFrame]
  /\ peer = [open |-> "none", op |-> "None", len |-> 0, last |-> NoFrame, z |-> 0,
             closed |-> FALSE, clean |-> TRUE, ended |-> FALSE, frames |-> 0]

-----------------------------------------------------------------------------
(* The peer's side of the frames it sends *)

Legal(f) == IsData(f) => ((f.op = "Continue") <=> (peer.open # "none"))

\* The payload of f went through the peer's compressor.
ByCompressor(f) ==
  Deflate /\ IsData(f) /\ IF f.op = "Continue" THEN peer.open = "comp" ELSE f.rsv1

\* The peer's history once this endpoint has taken f and answered with result r.
AfterFrame(f, r) ==
  LET z == ByCompressor(f)
      op == IF f.op = "Continue" THEN peer.op ELSE f.op
      len == (IF f.op = "Continue" THEN peer.len ELSE 0)
               + (IF z THEN f.plain ELSE f.len)
      counted == [peer EXCEPT !.frames = @ + 1,
                              !.clean = @ /\ r.err \in {"None", "Loop"},
                              !.closed = @ \/ (f.op = "Close" /\ r.err = "None"),
                              !.z = IF z THEN Remembered(ws.role, f, @) ELSE @]
  IN  CASE ~IsData(f) -> counted
        [] IsData(f) /\ f.fin ->
             [counted EXCEPT !.open = "none", !.op = "None", !.len = 0,
                             !.last = Message(op, len)]
        [] OTHER ->
             [counted EXCEPT !.open = IF z THEN "comp" ELSE "plain",
                             !.op = op, !.len = len]

-----------------------------------------------------------------------------
(* The calls *)

Return(call, r) ==
  /\ ws' = r.c
  /\ ret' = [call |-> call, err |-> r.err, msg |-> r.msg]

Idle == ret.err # "Loop"

\* `read` finds the connection terminated.
ReadTerminated ==
  /\ Idle /\ ws.state = "Terminated"
  /\ Return("read", Err(ws, "AlreadyClosed"))
  /\ UNCHANGED peer

Reading == ~Idle \/ ws.state # "Terminated"

\* `read` ends before it reaches the input.
ReadReturns ==
  /\ Reading
  /\ \E r \in ReadPrepare(ws) : r.err # "None" /\ Return("read", r)
  /\ UNCHANGED peer

\* `read` gets to the input and finds the stream blocked or failed.
ReadFails ==
  /\ Reading
  /\ \E r \in ReadPrepare(ws) :
       /\ r.err = "None"
       /\ \E e \in InputError :
            \E q \in read_message_frame(r.c, ErrorInput(e)) : Return("read", q)
  /\ UNCHANGED peer

\* `read` finds the end of the stream.
ReadEof ==
  /\ Reading
  /\ \E r \in ReadPrepare(ws) :
       /\ r.err = "None"
       /\ \E q \in read_message_frame(r.c, EofInput) : Return("read", q)
  /\ peer' = [peer EXCEPT !.ended = TRUE]

\* `read` takes a frame: it returns a message or an error, or goes on.
ReadFrame ==
  /\ Reading /\ peer.frames < MaxFrames
  /\ \E r \in ReadPrepare(ws) :
       /\ r.err = "None"
       /\ \E f \in InFrames :
            /\ Legal(f)
            /\ \E q \in read_message_frame(r.c, FrameInput(f)) :
                 Return("read", q) /\ peer' = AfterFrame(f, q)

Write ==
  /\ Idle /\ Len(ws.sent) < MaxSent
  /\ \E m \in Messages : \E r \in write(ws, m) : Return("write", r)
  /\ UNCHANGED peer

Flush ==
  /\ Idle
  /\ \E r \in flush(ws) : Return("flush", r)
  /\ UNCHANGED peer

Close ==
  /\ Idle /\ Len(ws.sent) < MaxSent
  /\ \E f \in CloseFrames : \E r \in close(ws, f) : Return("close", r)
  /\ UNCHANGED peer

SetConfig ==
  /\ Idle
  /\ \E cfg \in Configs, deflate_agreed \in BOOLEAN :
       Return("set_config", set_config(ws, cfg, deflate_agreed))
  /\ UNCHANGED peer

Next ==
  \/ ReadTerminated \/ ReadReturns \/ ReadFails \/ ReadEof
  \/ ReadFrame \/ Write \/ Flush \/ Close \/ SetConfig

Spec == Init /\ [][Next]_vars

-----------------------------------------------------------------------------
(* Properties *)

\* Every field of the context, of the result and of the peer's history keeps
\* its type (struct WebSocketContext, struct FrameCodec).
TypeOK ==
  /\ ws \in Context
  /\ ret \in [call : Calls, err : Error, msg : Frame]
  /\ peer \in PeerType

\* What the stream accepted, followed by what waits in out_buffer, is exactly
\* the frames that were buffered, in order: whatever the stream does in the
\* middle of write_out_buffer, no byte is lost, repeated or torn from its frame.
FramedWire == Framed(ws.wire \o ws.out_buffer, ws.sent)

\* No call grows out_buffer beyond max_write_buffer_size, also after set_config
\* has lowered it (FrameCodec::can_buffer); the codec's two limits stay in order
\* even if set_config panics.
BufferBound ==
  [][/\ \/ Len(ws'.out_buffer) <= Len(ws.out_buffer)
        \/ Len(ws'.out_buffer) <= ws'.max_out_buffer_len
     /\ ws'.max_out_buffer_len > ws'.out_buffer_write_len]_vars

\* The reply to the peer's close frame is not lost while it is owed: it waits in
\* additional_send, or it is the last frame ever buffered (_write puts a reply
\* that does not fit back, and nothing is written behind it).  Its code is one
\* that may appear on the wire.
CloseReplyKept ==
  LET Reply(f) == f.op = "Close" /\ f.code # "disallowed"
  IN  ws.state = "ClosedByPeer" =>
        \/ Reply(ws.additional_send)
        \/ ws.sent # <<>> /\ Reply(ws.sent[Len(ws.sent)])

\* Behind a close frame the endpoint sends at most pongs: no data, no ping, no
\* second close ("Do not write after sending a close frame").
OnlyPongAfterClose ==
  \A i, j \in 1..Len(ws.sent) :
    i < j /\ ws.sent[i].op = "Close" => ws.sent[j].op = "Pong"

\* A queued automatic reply leaves additional_send only into the write buffer, or
\* for a newer pong or the close reply.
ReplyNotDropped ==
  [][ws.additional_send.op # "None" /\ ws'.additional_send.op = "None"
       => \E i \in (Len(ws.sent) + 1)..Len(ws'.sent) :
            ws'.sent[i].op = ws.additional_send.op]_vars

\* The connection state only moves forward, and Terminated is final.
StateOrder == [][MayFollow(ws.state, ws'.state)]_vars

\* A call says ConnectionClosed only if the peer has sent a close frame, or if an
\* earlier `read` met the end of the stream and said so: the end of the stream
\* itself, a reset of a live connection and a failed codec never pass for a
\* close.  The second case is real: `flush` and `close` of a server say
\* ConnectionClosed behind an end of the stream that no close frame announced.
ClosedOnlyAfterPeerClose ==
  [][ret'.err = "ConnectionClosed" => peer.closed \/ peer.ended]_vars

\* Once the compression state is unusable nothing reaches the stream any more,
\* and every call says AlreadyClosed (Error::AlreadyClosed: "every later
\* operation returns this").
UnusableIsSilent ==
  [][ws.compression_unusable /\ ret'.call # "set_config"
       => /\ ws'.wire = ws.wire /\ ws'.out_buffer = ws.out_buffer
          /\ ret'.err = "AlreadyClosed"]_vars

\* The window the encoder compresses against holds exactly the messages the
\* peer's decoder was given since that window was cleared: no message that was
\* compressed and then not sent, or sent plain, is left in it.
EncoderInStep == Deflate => ws.enc = ws.acc

\* A data message refused with WriteBufferFull comes back uncompressed and has
\* not touched the compression history (Error::WriteBufferFull).
FullIsRetryable ==
  [][ret'.err = "WriteBufferFull" /\ Deflate
       => /\ ~ret'.msg.rsv1 /\ ret'.msg.op # "None"
          /\ ws'.enc = ws.enc /\ ws'.sent = ws.sent]_vars

\* While frames are still read, every compressed frame taken from the input went
\* through the inflater: a frame that is rejected without being inflated ends
\* the connection if the peer's compressor produced it.
DecoderInStep == Deflate /\ can_read(ws) => ws.dec = peer.z

\* No message is longer than max_message_size, whether it came in one frame or
\* in fragments, compressed or not, under a limit lowered in the middle of it.
DeliveredWithinLimit ==
  ret.call = "read" /\ ret.err = "None" /\ ret.msg.op \in {"Text", "Binary"}
    => ret.msg.len <= ws.max_message_size

\* As long as no frame was rejected, a message that `read` returns is the whole
\* message the peer has just completed, with its type and its length, whatever
\* control frames came between its fragments.
WholeMessages ==
  ret.call = "read" /\ ret.err = "None" /\ ret.msg.op \in {"Text", "Binary"}
    /\ peer.clean
    => ret.msg = peer.last /\ peer.open = "none" /\ ws.incomplete = NoMessage

-----------------------------------------------------------------------------
(* What the documentation promises and the code does not keep *)

\* `close`: "This function guarantees that the close frame will be queued."
CloseIsQueued ==
  [][ret'.call = "close" /\ ws.state = "Active"
       => \E i \in (Len(ws.sent) + 1)..Len(ws'.sent) : ws'.sent[i].op = "Close"]_vars

\* Error::ConnectionClosed: "returned as soon as the close handshake is finished
\* (we have both sent and received a close frame) on the server end".  The
\* server ends the connection itself: the stream has neither ended nor failed.
ServerClosedMeansReplySent ==
  [][ws.role = "Server" /\ ws.state # "Terminated" /\ ws'.state = "Terminated"
       /\ ret'.err = "ConnectionClosed" /\ ~peer'.ended
       => ws'.out_buffer = <<>> /\ ws'.additional_send.op # "Close"]_vars

=============================================================================
