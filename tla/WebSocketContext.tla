-------------------------- MODULE WebSocketContext --------------------------
(***************************************************************************)
(* One WebSocket endpoint: src/src/protocol/mod.rs (WebSocketContext),     *)
(* the write half of src/src/protocol/frame/mod.rs (FrameCodec) and the    *)
(* message assembly of src/src/protocol/message.rs.                        *)
(*                                                                         *)
(* The context is a record `c` that holds the fields of WebSocketContext,  *)
(* of its FrameCodec and of the stream underneath.  An operator named      *)
(* after a method maps a context to the SET of results the call can have:  *)
(* what the stream, the compressor and the peer decide is a choice between *)
(* the elements of that set.  A result is a record                         *)
(*     [c, err, should_flush, msg]                                         *)
(* with the context after the call, "None" or the error returned, and the  *)
(* value returned.                                                         *)
(***************************************************************************)
EXTENDS Integers, Sequences

CONSTANTS
  HeaderLen,          \* bytes of a frame header without its mask
  MaskLen,            \* bytes of the mask of a client's frame
  ControlMax,         \* longest payload of a control frame (125)
  ProtocolReplyLen,   \* payload length of the reply "Protocol violation"
  Deflate,            \* TRUE iff permessage-deflate was agreed
  NoContextTakeover,  \* [role -> BOOLEAN], as agreed in the handshake
  CompressedSizes,    \* sizes a non-empty message can compress to
  StreamErrors        \* the ways the stream can fail to write or flush

IoError == {"WouldBlock", "ConnectionReset", "OtherIo"}

ASSUME HeaderLenAssumption == HeaderLen \in Nat \ {0}
ASSUME MaskLenAssumption == MaskLen \in Nat
ASSUME ControlMaxAssumption == ControlMax \in Nat
ASSUME ProtocolReplyLenAssumption == ProtocolReplyLen \in Nat \ {0, 1}
ASSUME DeflateAssumption == Deflate \in BOOLEAN
ASSUME TakeoverAssumption ==
         NoContextTakeover \in [{"Client", "Server"} -> BOOLEAN]
ASSUME CompressedSizesAssumption ==
         CompressedSizes \subseteq Nat \ {0} /\ CompressedSizes # {}
ASSUME StreamErrorsAssumption ==
         StreamErrors \subseteq IoError

Role == {"Client", "Server"}
WebSocketState ==
  {"Active", "ClosedByUs", "ClosedByPeer", "CloseAcknowledged", "Terminated"}

-----------------------------------------------------------------------------
(* Frames *)

DataOp == {"Text", "Binary", "Continue"}
ControlOp == {"Ping", "Pong", "Close"}

\* How a payload reads as UTF-8: whole characters; cut inside its last
\* character; beginning with the missing bytes of such a character; both;
\* an invalid sequence.
Utf8Class == {"ok", "cut", "rest", "mid", "bad"}

\* What the first two bytes of a close payload say.
CloseCode == {"none", "allowed", "disallowed", "protocol"}

\* `len` is the payload length on the wire, `plain` what a compressed payload
\* inflates to, `inflates` whether it inflates at all; `rsv23` is RSV2 or RSV3.
Frame ==
  [op : DataOp \cup ControlOp \cup {"None"}, fin : BOOLEAN, rsv1 : BOOLEAN,
   rsv23 : BOOLEAN, masked : BOOLEAN, len : Nat, plain : Nat,
   inflates : BOOLEAN, utf8 : Utf8Class, code : CloseCode]

\* FrameHeader::default with an opcode, and a payload of n bytes.
MakeFrame(op, n) ==
  [op |-> op, fin |-> TRUE, rsv1 |-> FALSE, rsv23 |-> FALSE, masked |-> FALSE,
   len |-> n, plain |-> n, inflates |-> TRUE, utf8 |-> "ok", code |-> "none"]

NoFrame == MakeFrame("None", 0)

Compressed(f, n) == [f EXCEPT !.rsv1 = TRUE, !.len = n]

CloseFrame(code, n) == [MakeFrame("Close", n) EXCEPT !.code = code]

\* Frame::len: header, mask if one is set, payload.
FrameLen(f) == HeaderLen + (IF f.masked THEN MaskLen ELSE 0) + f.len

\* The bytes of the n-th frame put into the write buffer.
FrameBytes(n, f) == [i \in 1..FrameLen(f) |-> <<n, i>>]

IsData(f) == f.op \in DataOp

-----------------------------------------------------------------------------
(* The context *)

\* An IncompleteMessage: its type, its length, whether the text collected so
\* far ends inside a character.
Incomplete == [op : {"Text", "Binary", "None"}, len : Nat, cut : BOOLEAN]
NoMessage == [op |-> "None", len |-> 0, cut |-> FALSE]
NewIncomplete(op) == [op |-> op, len |-> 0, cut |-> FALSE]

Byte == Nat \X Nat

Context ==
  [role : Role, state : WebSocketState,
   \* FrameCodec
   out_buffer : Seq(Byte), max_out_buffer_len : Nat, out_buffer_write_len : Nat,
   \* WebSocketContext
   incomplete : Incomplete, additional_send : Frame,
   unflushed_additional : BOOLEAN, max_message_size : Nat,
   accept_unmasked_frames : BOOLEAN,
   compressed_incomplete : BOOLEAN, compression_unusable : BOOLEAN,
   \* deflate::Context: the messages the encoder's window remembers, the
   \* frames the decoder's window remembers
   enc : Nat, dec : Nat,
   \* the stream: the bytes it accepted, how many of them it has flushed
   wire : Seq(Byte), flushed : Nat,
   \* history: the frames put into out_buffer, and the compressed messages
   \* among them since the encoder's window was last cleared
   sent : Seq(Frame), acc : Nat]

ValidConfig(cfg) == cfg.max_write_buffer_size > cfg.write_buffer_size

\* WebSocketContext::_new.
NewContext(role, cfg) ==
  [role |-> role, state |-> "Active",
   out_buffer |-> <<>>, max_out_buffer_len |-> cfg.max_write_buffer_size,
   out_buffer_write_len |-> cfg.write_buffer_size,
   incomplete |-> NoMessage, additional_send |-> NoFrame,
   unflushed_additional |-> FALSE, max_message_size |-> cfg.max_message_size,
   accept_unmasked_frames |-> cfg.accept_unmasked_frames,
   compressed_incomplete |-> FALSE, compression_unusable |-> FALSE,
   enc |-> 0, dec |-> 0, wire |-> <<>>, flushed |-> 0, sent |-> <<>>, acc |-> 0]

\* Mutant: a connection we are closing still counts as active.
is_active_while_closing(c) == c.state \in {"Active", "ClosedByUs"}

is_active(c) == c.state = "Active"

can_read(c) == c.state \in {"Active", "ClosedByUs"}

-----------------------------------------------------------------------------
(* Results *)

\* Error, flattened, with "None" for Ok, "Loop" for another round of `read` and
\* "Panic" for a panic.
Error ==
  IoError \cup
  {"None", "Loop", "Panic", "ConnectionClosed", "AlreadyClosed",
   "WriteBufferFull", "MessageTooLong", "Utf8",
   "Compression", "SendAfterClosing", "ReceivedAfterClosing",
   "NonZeroReservedBits", "UnmaskedFrameFromClient", "MaskedFrameFromServer",
   "FragmentedControlFrame", "ControlFrameTooBig", "InvalidCloseSequence",
   "UnexpectedContinueFrame", "ExpectedFragment", "InvalidOpcode",
   "ResetWithoutClosingHandshake"}

Res(c, e, flush_now, m) == [c |-> c, err |-> e, should_flush |-> flush_now, msg |-> m]

Ok(c) == Res(c, "None", FALSE, NoFrame)
Err(c, e) == Res(c, e, FALSE, NoFrame)
Value(c, m) == Res(c, "None", FALSE, m)
ShouldFlush(c, flush_now) == Res(c, "None", flush_now, NoFrame)
WriteBufferFull(c, f) == Res(c, "WriteBufferFull", FALSE, f)

\* The `?` operator: an error is returned as it is, otherwise go on with F.
Then(S, F(_)) ==
  {r \in S : r.err # "None"}
    \cup UNION {F(r) : r \in {s \in S : s.err = "None"}}

\* Mutant: any reset passes for a normal close.
check_connection_reset_always(r, c) ==
  IF r.err = "ConnectionReset" THEN Err(r.c, "ConnectionClosed") ELSE r

\* A reset of a connection that is already closing is its normal end.
check_connection_reset(r, c) ==
  IF r.err = "ConnectionReset" /\ ~can_read(c)
    THEN Err(r.c, "ConnectionClosed") ELSE r

-----------------------------------------------------------------------------
(* FrameCodec: the write half *)

\* Mutant: the bytes already waiting are not counted.
can_buffer_alone(c, n) == n <= c.max_out_buffer_len

can_buffer(c, n) == n + Len(c.out_buffer) <= c.max_out_buffer_len

\* Mutant: a failed write throws the rest of the buffer away.
Drain_all(c, n) ==
  [c EXCEPT !.wire = @ \o SubSeq(c.out_buffer, 1, n), !.out_buffer = <<>>]

\* The stream takes the first n bytes of the buffer.
Drain(c, n) ==
  [c EXCEPT !.wire = @ \o SubSeq(c.out_buffer, 1, n),
            !.out_buffer = SubSeq(@, n + 1, Len(@))]

\* Every write accepts some bytes, until one fails or the buffer is empty.
write_out_buffer(c) ==
  {Ok(Drain(c, Len(c.out_buffer)))}
    \cup {Err(Drain(c, n), e) : n \in 0..(Len(c.out_buffer) - 1), e \in StreamErrors}

\* history: a compressed message reaches the peer's decoder, which forgets it
\* at once if the handshake says so.
Accepted(c, f) ==
  IF Deflate /\ f.rsv1 /\ f.plain > 0 /\ ~NoContextTakeover[c.role]
    THEN c.acc + 1 ELSE c.acc

AppendFrame(c, f) ==
  [c EXCEPT !.out_buffer = @ \o FrameBytes(Len(c.sent) + 1, f),
            !.sent = Append(@, f), !.acc = Accepted(c, f)]

FrameCodec_buffer_frame(c, f) ==
  IF ~can_buffer(c, FrameLen(f))
    THEN {WriteBufferFull(c, f)}
    ELSE LET a == AppendFrame(c, f)
         IN  IF Len(a.out_buffer) > a.out_buffer_write_len
               THEN write_out_buffer(a) ELSE {Ok(a)}

-----------------------------------------------------------------------------
(* WebSocketContext: writing *)

\* A client masks every frame before it is buffered.
buffer_frame(c, f) ==
  LET masked == [f EXCEPT !.masked = @ \/ c.role = "Client"]
  IN  {check_connection_reset(r, c) : r \in FrameCodec_buffer_frame(c, masked)}

set_additional(c, f) ==
  IF c.additional_send.op \in {"None", "Pong"}
    THEN [c EXCEPT !.additional_send = f] ELSE c

\* Mutant: a reply that does not fit is forgotten.
BufferAdditional_drop(c) ==
  IF c.additional_send = NoFrame
    THEN {ShouldFlush(c, c.unflushed_additional)}
    ELSE {IF r.err = "WriteBufferFull" THEN Ok(r.c) ELSE r :
          r \in buffer_frame([c EXCEPT !.additional_send = NoFrame],
                             c.additional_send)}

\* The automatic reply waiting in additional_send; one that does not fit is
\* put back for a later call.
BufferAdditional(c) ==
  IF c.additional_send = NoFrame
    THEN {ShouldFlush(c, c.unflushed_additional)}
    ELSE {CASE r.err = "None" -> ShouldFlush(r.c, TRUE)
            [] r.err = "WriteBufferFull" -> Ok(set_additional(r.c, r.msg))
            [] OTHER -> r :
          r \in buffer_frame([c EXCEPT !.additional_send = NoFrame],
                             c.additional_send)}

\* The server is the one to close a connection that is done.
CloseIfDone(r) ==
  IF r.c.role = "Server" /\ ~can_read(r.c)
    THEN Then(write_out_buffer(r.c),
              LAMBDA w : {Err([w.c EXCEPT !.state = "Terminated"],
                              "ConnectionClosed")})
    ELSE {r}

\* `_write`, with data = NoFrame for None.
_write(c, data) ==
  Then(IF data = NoFrame THEN {Ok(c)} ELSE buffer_frame(c, data),
       LAMBDA d : Then(BufferAdditional(d.c), CloseIfDone))

\* stream.flush, then the last assignment of `flush`.
StreamFlush(c) ==
  {Ok([c EXCEPT !.flushed = Len(c.wire), !.unflushed_additional = FALSE])}
    \cup {Err(c, e) : e \in StreamErrors}

\* Mutant: the latch of a failed codec is not looked at.
flush_after_failure(c) ==
  Then(_write(c, NoFrame),
       LAMBDA r : Then(write_out_buffer(r.c), LAMBDA w : StreamFlush(w.c)))

flush(c) ==
  IF c.compression_unusable
    THEN {Err(c, "AlreadyClosed")}
    ELSE Then(_write(c, NoFrame),
              LAMBDA r : Then(write_out_buffer(r.c),
                              LAMBDA w : StreamFlush(w.c)))

\* Mutant: a close in any state starts the handshake again.
close_always(c, f) ==
  Then(_write([c EXCEPT !.state = "ClosedByUs"], f), LAMBDA r : flush(r.c))

close(c, f) ==
  IF is_active(c)
    THEN Then(_write([c EXCEPT !.state = "ClosedByUs"], f),
              LAMBDA r : flush(r.c))
    ELSE flush(c)

\* deflate::Context::reset_encoder.
reset_encoder(c) == [c EXCEPT !.enc = 0, !.acc = 0]

\* deflate::Context::compress.  An empty message is the one byte 0 and leaves
\* the window alone; any other enters it, unless it is cleared per message.
compress(c, f) ==
  IF f.len = 0
    THEN {Value(c, Compressed(f, 1))}
    ELSE {Value(IF NoContextTakeover[c.role] THEN reset_encoder(c)
                  ELSE [c EXCEPT !.enc = @ + 1], Compressed(f, n)) :
          n \in CompressedSizes}
         \cup {Err([c EXCEPT !.enc = @ + 1], "Compression")}

\* Mutant: the mask that is still to come is not counted.
wire_size_unmasked(c, f) == FrameLen(f)

\* Wire bytes once buffer_frame has masked the frame.
wire_size(c, f) == FrameLen(f) + (IF c.role = "Client" THEN MaskLen ELSE 0)

\* Mutant: the plain fallback leaves the message in the encoder's window.
prepare_data_no_reset(c, plain) ==
  IF ~Deflate THEN {Value(c, plain)}
  ELSE IF ~can_buffer(c, wire_size(c, plain)) THEN {WriteBufferFull(c, plain)}
  ELSE {CASE r.err # "None" -> Err(reset_encoder(r.c), r.err)
          [] r.err = "None" /\ can_buffer(r.c, wire_size(r.c, r.msg)) -> r
          [] OTHER -> Value(r.c, plain) :
        r \in compress(c, plain)}

prepare_data(c, plain) ==
  IF ~Deflate THEN {Value(c, plain)}
  ELSE IF ~can_buffer(c, wire_size(c, plain)) THEN {WriteBufferFull(c, plain)}
  ELSE {CASE r.err # "None" -> Err(reset_encoder(r.c), r.err)
          [] r.err = "None" /\ can_buffer(r.c, wire_size(r.c, r.msg)) -> r
          [] OTHER -> Value(reset_encoder(r.c), plain) :
        r \in compress(c, plain)}

\* _write followed by the flush that an automatic reply asks for.
WriteAndFlush(c, f) ==
  Then(_write(c, f),
       LAMBDA r : IF r.should_flush THEN flush(r.c) ELSE {Ok(r.c)})

\* A message is [kind, frame]: the Message variant and the frame it becomes.
write(c, m) ==
  CASE c.state = "Terminated" -> {Err(c, "AlreadyClosed")}
    [] c.state # "Terminated" /\ ~is_active(c) -> {Err(c, "SendAfterClosing")}
    [] is_active(c) /\ m.kind \in {"Text", "Binary"} ->
         Then(prepare_data(c, m.frame), LAMBDA p : WriteAndFlush(p.c, p.msg))
    [] is_active(c) /\ m.kind = "Ping" -> WriteAndFlush(c, m.frame)
    [] is_active(c) /\ m.kind = "Pong" ->
         Then(_write(set_additional(c, m.frame), NoFrame),
              LAMBDA r : {Ok(r.c)})
    [] is_active(c) /\ m.kind = "Close" -> close(c, m.frame)
    [] is_active(c) /\ m.kind = "Frame" ->
         IF m.frame.rsv1 /\ Deflate
           THEN {Err(c, "NonZeroReservedBits")}
           ELSE WriteAndFlush(c, m.frame)

-----------------------------------------------------------------------------
(* WebSocketContext: reading *)

\* What read_frame hands over: a frame, the end of the stream, or an error
\* raised before anything was taken from the input buffer.
InputError == IoError \cup {"MessageTooLong", "InvalidOpcode"}
FrameInput(f) == [kind |-> "frame", err |-> "None", frame |-> f]
EofInput == [kind |-> "eof", err |-> "None", frame |-> NoFrame]
ErrorInput(e) == [kind |-> "error", err |-> e, frame |-> NoFrame]

fail_compression(c) ==
  [c EXCEPT !.compression_unusable = TRUE, !.state = "Terminated"]

\* Mutant: only RSV1 counts as a claim, a continuation never does.
fail_compression_on_rsv1(c, f) ==
  IF f.rsv1 /\ Deflate THEN fail_compression(c) ELSE c

fail_compression_on_discarded_frame(c, f) ==
  LET claims_compression ==
        \/ f.rsv1
        \/ f.op = "Continue" /\ (c.compressed_incomplete \/ c.incomplete = NoMessage)
  IN  IF claims_compression /\ Deflate THEN fail_compression(c) ELSE c

\* deflate::Context::reset_decoder: the other end compresses every message alone.
reset_decoder(role) ==
  NoContextTakeover[IF role = "Client" THEN "Server" ELSE "Client"]

\* How many frames the decoder's window remembers once it has inflated f.
Remembered(role, f, n) == IF f.fin /\ reset_decoder(role) THEN 0 ELSE n + 1

\* deflate::Context::decompress under the budget of max_message_size; a
\* failure ends the connection.
decompress(c, f) ==
  CASE ~f.inflates -> Err(fail_compression(c), "Compression")
    [] f.inflates /\ c.incomplete.len + f.plain > c.max_message_size ->
         Err(fail_compression(c), "MessageTooLong")
    [] OTHER -> Value([c EXCEPT !.dec = Remembered(c.role, f, @)],
                      [f EXCEPT !.rsv1 = FALSE, !.len = f.plain])

\* Mutant: a continuation is inflated only if it carries RSV1 itself.
InflateData_by_rsv1(c, f) ==
  LET owns == (f.op = "Continue") = (c.incomplete # NoMessage)
  IN  CASE ~Deflate -> {Value(c, f)}
        [] Deflate /\ ~owns -> {Value(fail_compression_on_discarded_frame(c, f), f)}
        [] Deflate /\ owns -> {IF f.rsv1 THEN decompress(c, f) ELSE Value(c, f)}

\* Only a frame that owns the message stream reaches the inflater and moves
\* the saved mode.
InflateData(c, f) ==
  LET owns == (f.op = "Continue") = (c.incomplete # NoMessage)
      compressed == IF f.op = "Continue" THEN c.compressed_incomplete ELSE f.rsv1
      Saved(d) ==
        CASE f.op # "Continue" /\ ~f.fin -> [d EXCEPT !.compressed_incomplete = compressed]
          [] f.op = "Continue" /\ f.fin -> [d EXCEPT !.compressed_incomplete = FALSE]
          [] OTHER -> d
  IN  CASE ~Deflate -> {Value(c, f)}
        [] Deflate /\ ~owns -> {Value(fail_compression_on_discarded_frame(c, f), f)}
        [] Deflate /\ owns ->
             Then({IF compressed THEN decompress(c, f) ELSE Value(c, f)},
                  LAMBDA r : {Value(Saved(r.c), r.msg)})

\* StringCollector::extend of a collector whose text ends inside a character
\* iff `cut`: is the payload acceptable there?
Utf8Continues(cut, f) ==
  \/ f.len = 0
  \/ cut /\ f.utf8 \in {"rest", "mid"}
  \/ ~cut /\ f.utf8 \in {"ok", "cut"}

\* Mutant: the limit is applied to the fragment, not to the message.
extend_each(m, f, max_size) ==
  IF f.len > max_size
    THEN {[m |-> m, err |-> "MessageTooLong"]}
    ELSE {[m |-> [m EXCEPT !.len = @ + f.len], err |-> "None"]}

\* Mutant: a payload that is not UTF-8 is taken back from the length.
extend_underflow(m, f, max_size) ==
  IF m.len > max_size \/ f.len > max_size - m.len
    THEN {[m |-> m, err |-> "MessageTooLong"]}
  ELSE IF m.op = "Text" /\ ~Utf8Continues(m.cut, f)
    THEN {[m |-> [m EXCEPT !.len = @ - f.len], err |-> "Utf8"]}
  ELSE {[m |-> [m EXCEPT !.len = @ + f.len], err |-> "None"]}

\* IncompleteMessage::extend: the messages it can leave, with the error.  A
\* text keeps the valid prefix of a payload that is not UTF-8, and loses the
\* bytes of a character that turns out to be wrong.
extend(m, f, max_size) ==
  IF m.len > max_size \/ f.len > max_size - m.len
    THEN {[m |-> m, err |-> "MessageTooLong"]}
  ELSE IF m.op = "Text" /\ ~Utf8Continues(m.cut, f)
    THEN {[m |-> [m EXCEPT !.len = n, !.cut = FALSE], err |-> "Utf8"] :
          n \in (IF m.cut THEN 0 ELSE m.len)..(m.len + f.len)}
  ELSE {[m |-> [m EXCEPT !.len = @ + f.len,
                         !.cut = IF f.len = 0 THEN @
                                 ELSE m.op = "Text" /\ f.utf8 \in {"cut", "mid"}],
         err |-> "None"]}

\* A message handed to the application.
Message(op, n) == MakeFrame(op, n)

\* Ok(None) of read_message_frame: the loop of `read` goes round again.
Loop(c) == Err(c, "Loop")

ReceiveData(c, f) ==
  CASE f.op = "Continue" /\ c.incomplete = NoMessage ->
         {Err(c, "UnexpectedContinueFrame")}
    [] f.op = "Continue" /\ c.incomplete # NoMessage ->
         {LET d == [c EXCEPT !.incomplete = x.m]
              done == [c EXCEPT !.incomplete = NoMessage]
          IN  CASE x.err # "None" -> Err(d, x.err)
                [] x.err = "None" /\ ~f.fin -> Loop(d)
                [] x.err = "None" /\ f.fin /\ x.m.cut -> Err(done, "Utf8")
                [] OTHER -> Value(done, Message(x.m.op, x.m.len)) :
          x \in extend(c.incomplete, f, c.max_message_size)}
    [] f.op # "Continue" /\ c.incomplete # NoMessage ->
         {Err(c, "ExpectedFragment")}
    [] f.op # "Continue" /\ c.incomplete = NoMessage /\ f.fin ->
         {CASE f.len > c.max_message_size -> Err(c, "MessageTooLong")
            [] f.len <= c.max_message_size /\ f.op = "Text" /\ f.len > 0 /\ f.utf8 # "ok" ->
                 Err(c, "Utf8")
            [] OTHER -> Value(c, Message(f.op, f.len))}
    [] f.op # "Continue" /\ c.incomplete = NoMessage /\ ~f.fin ->
         {IF x.err # "None" THEN Err(c, x.err)
            ELSE Loop([c EXCEPT !.incomplete = x.m]) :
          x \in extend(NewIncomplete(f.op), f, c.max_message_size)}

\* Mutant: the peer's code is echoed whatever it is.
CloseReply_echo(f) == CloseFrame(f.code, f.len)

\* A close code that must not appear on the wire is answered with 1002.
CloseReply(f) ==
  IF f.len > 0 /\ f.code = "disallowed"
    THEN CloseFrame("protocol", ProtocolReplyLen)
    ELSE CloseFrame(f.code, f.len)

\* The arms for the other states: read_message_frame has refused a frame in
\* ClosedByPeer and CloseAcknowledged, and unreachable!() is the last.
do_close(c, f) ==
  CASE c.state = "Active" ->
         Value(set_additional([c EXCEPT !.state = "ClosedByPeer"], CloseReply(f)),
               CloseReply(f))
    [] c.state = "ClosedByUs" ->
         Value([c EXCEPT !.state = "CloseAcknowledged"], CloseFrame(f.code, f.len))
    [] c.state \in {"ClosedByPeer", "CloseAcknowledged"} -> Loop(c)
    [] OTHER -> Err(c, "Panic")

ReceiveControl(c, f) ==
  CASE ~f.fin -> Err(c, "FragmentedControlFrame")
    [] f.fin /\ f.len > ControlMax -> Err(c, "ControlFrameTooBig")
    [] f.fin /\ f.len <= ControlMax /\ f.op = "Close" ->
         IF f.len = 1 THEN Err(c, "InvalidCloseSequence")
         ELSE IF f.len > 1 /\ f.utf8 # "ok" THEN Err(c, "Utf8")
         ELSE do_close(c, f)
    [] f.fin /\ f.len <= ControlMax /\ f.op = "Ping" ->
         Value(IF is_active(c) THEN set_additional(c, MakeFrame("Pong", f.len)) ELSE c,
               Message("Ping", f.len))
    [] OTHER -> Value(c, Message("Pong", f.len))

reserved_bits_set(f) ==
  f.rsv23 \/ (f.rsv1 /\ (~Deflate \/ f.op \notin {"Text", "Binary"}))

ReceiveFrame(c, f) ==
  CASE c.role = "Server" /\ ~f.masked /\ ~c.accept_unmasked_frames ->
         {Err(IF Deflate THEN fail_compression(c) ELSE c, "UnmaskedFrameFromClient")}
    [] OTHER ->
       IF ~can_read(c) THEN {Err(c, "ReceivedAfterClosing")}
       ELSE IF reserved_bits_set(f)
         THEN {Err(fail_compression_on_discarded_frame(c, f), "NonZeroReservedBits")}
       ELSE IF c.role = "Client" /\ f.masked
         THEN {Err(fail_compression_on_discarded_frame(c, f), "MaskedFrameFromServer")}
       ELSE IF IsData(f) THEN Then(InflateData(c, f), LAMBDA r : ReceiveData(r.c, r.msg))
       ELSE {ReceiveControl(c, f)}

\* Mutant: the end of the stream is always normal once we have closed.
read_message_frame_eager(c, in) ==
  CASE in.kind = "error" -> {check_connection_reset(Err(c, in.err), c)}
    [] in.kind = "eof" ->
         {Err([c EXCEPT !.state = "Terminated"],
              IF is_active(c) THEN "ResetWithoutClosingHandshake"
                ELSE "ConnectionClosed")}
    [] OTHER -> ReceiveFrame(c, in.frame)

\* Mutant: the end of the stream is normal only if we closed first.
read_message_frame_strict(c, in) ==
  CASE in.kind = "error" -> {check_connection_reset(Err(c, in.err), c)}
    [] in.kind = "eof" ->
         {Err([c EXCEPT !.state = "Terminated"],
              IF c.state = "CloseAcknowledged" THEN "ConnectionClosed"
                ELSE "ResetWithoutClosingHandshake")}
    [] OTHER -> ReceiveFrame(c, in.frame)

read_message_frame(c, in) ==
  CASE in.kind = "error" -> {check_connection_reset(Err(c, in.err), c)}
    [] in.kind = "eof" ->
         {Err([c EXCEPT !.state = "Terminated"],
              IF c.state \in {"ClosedByPeer", "CloseAcknowledged"}
                THEN "ConnectionClosed" ELSE "ResetWithoutClosingHandshake")}
    [] OTHER -> ReceiveFrame(c, in.frame)

\* Mutant: a blocked reply is forgotten once it is in the write buffer.
ReadPrepare_forgets(c) ==
  IF c.additional_send # NoFrame \/ c.unflushed_additional
    THEN {IF r.err = "WouldBlock" THEN Ok(r.c) ELSE r : r \in flush(c)}
  ELSE IF c.role = "Server" /\ ~can_read(c)
    THEN {Err([c EXCEPT !.state = "Terminated"], "ConnectionClosed")}
  ELSE {Ok(c)}

\* The head of the loop of `read`: replies first, then the server's end of a
\* closed connection.  A blocked reply is left for later.
ReadPrepare(c) ==
  IF c.additional_send # NoFrame \/ c.unflushed_additional
    THEN {IF r.err = "WouldBlock"
            THEN Ok([r.c EXCEPT !.unflushed_additional = TRUE]) ELSE r :
          r \in flush(c)}
  ELSE IF c.role = "Server" /\ ~can_read(c)
    THEN {Err([c EXCEPT !.state = "Terminated"], "ConnectionClosed")}
  ELSE {Ok(c)}

-----------------------------------------------------------------------------
(* WebSocketContext: configuration *)

\* The deflate settings must be the agreed ones.  Then the new configuration is
\* stored, then checked, then given to the codec.
set_config(c, cfg, deflate_agreed) ==
  LET stored == [c EXCEPT !.max_message_size = cfg.max_message_size,
                          !.accept_unmasked_frames = cfg.accept_unmasked_frames]
  IN  CASE ~deflate_agreed -> Err(c, "Panic")
        [] deflate_agreed /\ ~ValidConfig(cfg) -> Err(stored, "Panic")
        [] OTHER ->
             Ok([stored EXCEPT !.max_out_buffer_len = cfg.max_write_buffer_size,
                               !.out_buffer_write_len = cfg.write_buffer_size])

-----------------------------------------------------------------------------
(* What the properties are stated with *)

\* The states that may come after a state: none, once Terminated.
MayFollow(s, t) ==
  \/ t \in {s, "Terminated"}
  \/ s = "Active"
  \/ s = "ClosedByUs" /\ t = "CloseAcknowledged"

\* The byte that follows byte b of the frames in `sent`.
NextByte(sent, b) ==
  IF b[2] < FrameLen(sent[b[1]]) THEN <<b[1], b[2] + 1>> ELSE <<b[1] + 1, 1>>

\* q is the frames of `sent`, whole and in order.
Framed(q, sent) ==
  /\ \A k \in 1..Len(q) :
       q[k][1] \in 1..Len(sent) /\ q[k][2] \in 1..FrameLen(sent[q[k][1]])
  /\ \A k \in 1..(Len(q) - 1) : q[k + 1] = NextByte(sent, q[k])
  /\ sent # <<>> => /\ q # <<>> /\ q[1] = <<1, 1>>
                    /\ q[Len(q)] = <<Len(sent), FrameLen(sent[Len(sent)])>>

=============================================================================
