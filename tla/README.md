# Verification of tungstenite's protocol core

TLA+ models of the WebSocket library in `src/`, the TLC runs that check them on
small instances, and TLAPS proofs of the main results for every value of the
parameters.

## The system

tungstenite is a synchronous WebSocket library: every operation is a call on a
value the caller owns (`&mut self`), over any `Read + Write` stream. Nothing runs
in the background; what makes the code hard is that a stream may accept part of a
buffer, block, reset or end at every byte, that any call may have to send replies
the application never asked for, and that the application may go on after any
error.

| Component | State | Operations | Talks to |
|---|---|---|---|
| `WebSocketContext` (`protocol/mod.rs`) | connection state, incomplete message, queued reply (`additional_send`), `unflushed_additional`, configuration, codec latch | `read`, `write`, `flush`, `close`, `set_config` | `FrameCodec`, deflate `Context`, the stream |
| `FrameCodec` (`protocol/frame/mod.rs`) | input buffer, kept header, output buffer and its limits | `read_frame`, `buffer_frame`, `write_out_buffer` | the stream |
| Frames (`protocol/frame/frame.rs`, `coding.rs`, `mask.rs`) | none | lengths, header bytes, masking, close payloads | |
| Message assembly (`protocol/message.rs`, `utf8.rs`) | collected bytes, a cut character | `extend`, `complete` | |
| Deflate codec (`protocol/deflate/codec.rs`) | the windows of both directions | `compress`, `decompress`, `reset_encoder` | flate2 |
| Deflate negotiation (`protocol/deflate/negotiate.rs`) | none | offer, answer, acceptance | handshakes |
| Handshake (`handshake/*.rs`, `server.rs`, `buffer.rs`) | stage, buffers, attack counters | `single_round`, `stage_finished` | the stream, HTTP parser |
| Connecting (`client.rs`, `tls.rs`) | current URL, redirect count, addresses, the stream | `connect_with_config`, `client_tls_with_config`, `into_client_request` | resolver, TCP, TLS libraries, the handshake |
| Streams (`stream.rs`) | none of their own | forwarding | TLS libraries |

What makes each of them correct, and where it can go wrong, is the `hazards` list
of `PROJECT.json`. The ones that shaped the models:

* a frame may be torn at any byte and continued by a later call of another method;
* an automatic reply competes with messages for a bounded buffer, inside calls that
  are about something else;
* the close handshake is a five-state machine moved by our calls, the peer's frames,
  the end of the stream and resets, differently for client and server;
* both compression windows must stay in step with the peer through refused,
  oversized and rejected frames, or the connection must end;
* a frame or a handshake head is read in pieces by calls that are interrupted anywhere,
  and what follows it in the same packet belongs to somebody else;
* a client and a server configured independently must end up with codecs that
  understand each other;
* the two ends of a connection close at once, ping while the other closes or die: both
  must come to an end and be told the truth about it;
* a redirect changes host, port and scheme under a loop that keeps the request's headers;
* bytes are formatted, masked and decoded by code with boundaries at 126 and 65536, at
  every alignment and in the middle of characters.

## Modules

| Module | What it is |
|---|---|
| `WebSocketContext` | The methods as operators on a context record: `write(c, m)` is the set of results the call can have, each with the context it leaves, the error and the value. What the stream or the compressor decides is a choice among the results. The write half of `FrameCodec`, message assembly and the deflate codec's bookkeeping are part of it. |
| `Endpoint` | The state machine: one endpoint whose application calls the methods in any order over any stream, with a peer that sends any of a set of frames. One action per call; the loop of `read` is one action per iteration. All properties are here. |
| `MCEndpoint` | Messages, frames and limits for TLC. |
| `Negotiate` | permessage-deflate: the offer, the server's answer and the client's acceptance as operators on header fields, and what the codecs built from them can produce and read. |
| `Handshake` | The state machine of the opening handshake: a client and a server, each of this library or foreign, over two byte streams. One action per round of `MidHandshake::handshake`. Extends `Negotiate`. |
| `MCHandshake` | Requests, responses, callbacks and deflate configurations for TLC. |
| `FrameReader` | The state machine of the read half of `FrameCodec`: one action per iteration of the loop of `read_frame`, by how the iteration ends. |
| `FrameChannel` | The abstract specification: what `read_frame` promises its caller, the frames of the peer as a queue. `FrameReader` implements it (`ImplementsFrames`). |
| `MCFrameReader` | Frames and limits for TLC. |
| `Connection` | Two contexts, a client's and a server's, over a stream that blocks anywhere: the frames of one are the input of the other. Either may crash. Extends `WebSocketContext`. |
| `MessageChannel` | The abstract specification: what two applications may expect of a connection, as two queues of messages. `Connection` implements it (`ImplementsChannel`). |
| `MCConnection` | Messages and limits for TLC. |
| `Connect` | The state machine of `connect_with_config` (redirects, addresses, TLS) and of `client_tls_with_config`. |
| `MCConnect` | URLs and addresses for TLC. |
| `FrameFormat` | Header bytes, length formats, opcodes, close codes and masking as operators on sequences of bytes. |
| `TextCollector` | `StringCollector` and the incremental UTF-8 decoder as operators; `std::str::from_utf8` by the table of well-formed characters. |
| `MessageWire` | A message cut into frames, masked, sent in portions, parsed, unmasked and collected, with real bytes. Extends the two before. |
| `MCMessageWire` | Bytes, masks, lengths and codes for TLC. |
| `ContextProofs` | Lemmas about every operator of `WebSocketContext`: what a call does to the bytes, the state and the order of what is sent. Used by the next and by `ConnectionProofs`. |
| `EndpointProofs` | The theorems about `Endpoint`. |
| `FrameReaderProofs` | The theorems about `FrameReader`, and that it implements `FrameChannel`. |
| `HandshakeProofs` | Lemmas about the operators of `Negotiate` and the theorems about `Handshake`. |
| `ConnectProofs` | The theorems about `Connect`. |
| `FrameFormatProofs` | Theorems about the operators of `FrameFormat`. |
| `MessageWireProofs` | What the UTF-8 decoder and the collector compute, and the theorems about `MessageWire`. |
| `ConnectionProofs` | `Connection` implements `MessageChannel`, and why an end is cut off. |

`Endpoint` takes whole frames as the input of `read`; `FrameReader` shows that this is
what `read_frame` makes of a byte stream. `Handshake` ends where both start: its `buf` is
the tail given to `from_partially_read`, which is an initial state of `FrameReader`. `Connect`
ends where the client's `Handshake` starts. `MessageWire` is the byte-level side of what
`WebSocketContext` treats as records: it justifies that a frame comes out as it went in, and that
a fragment's `utf8` class is all the context needs to know of its text.

Operators that begin with the name of another and end in what they change
(`Drain_all`, `close_always`, ...) are plausible bugs; they are used nowhere and
stand next to the definition they would replace.

### How state corresponds to the code

A context record has the fields of `WebSocketContext` and of its `FrameCodec` under
their own names. `additional_send = NoFrame` and `incomplete = NoMessage` are `None`.
Added are

* `wire`, `flushed`: the bytes the stream accepted and how many of them it flushed;
* `enc`, `dec`: how many messages the encoder's window remembers, and how many frames the
  decoder's; a side without context takeover forgets them behind each message
  (`reset_encoder`, `reset_decoder`);
* history: `sent`, the frames put into `out_buffer`, and `acc`, the compressed
  messages among them since the encoder's window was cleared, which is what the
  peer's decoder remembers.

A byte is a pair (number of the frame, position in it), so that a lost, repeated or
misplaced byte is visible. A frame is a record of what the code distinguishes: opcode,
flags, length, the length it inflates to, how its payload reads as UTF-8, and the
class of its close code. Real lengths (2 to 14 header bytes, 4 mask bytes, control
payloads up to 125) are parameters, scaled down in the runs; the proofs hold for all
of them. The header length does not grow with the payload.

`ret` is what the last call returned; `ret.err = "Loop"` means that `read` has not
returned yet. `peer` is what the remote endpoint has sent: it keeps its fragments in
order, as its own library would, but single frames may be ones to reject.

A panic is the error `"Panic"`. `set_config` panics if the callback changed the agreed deflate
settings, and then stores nothing; an invalid configuration is stored before the panic, and the model
lets the application go on with it, as one that catches the panic can. It may change the
limits of messages and of the write buffer and `accept_unmasked_frames`; the limit of single frames,
`max_frame_size`, belongs to `FrameReader`, and `MessageTooLong` is an input of `read` here.

`send` is `write` followed by `flush` and needs no action of its own. The deprecated
names forward to these calls.

### The handshake

`hs[r]` is the `HandshakeMachine` of role `r` together with its role object: `stage` and
`out` (how much is left to write) for `HandshakeState`, `buf` for the `ReadBuffer` and later
the tail, `packets` and `bytes` for `AttackCheck`, `deflate` for the settings in
`WebSocketConfig`, `rejected` for `error_response`. Byte n of a stream is the number n, so
that loss and reordering are visible; `head[r]` says what the first `head[r].len` of the
bytes mean. The HTTP text is abstracted to the set of checks it would fail (`faults`); the
order of the checks is the code's. A callback returns any response, as `Ok` or as `Err`: the one it
was given (a 101 with the right `Sec-WebSocket-Accept`), with headers added, changed or removed,
or another one with a status and a body of its own. The server writes what it gets; only a 2xx in an
`Err` is refused, so that an `Err` may carry a 101 that the client accepts. A round that would block changes nothing, so a caller
that is interrupted and calls again is a stuttering step followed by the round.

A foreign peer sends any of a set of heads, byte by byte, with or without bytes behind it,
and closes when it likes.

A header field of extensions is a sequence of values, each a sequence of extensions with
their parameters; tokens come from a fixed set (`Extensions`,
`ParameterNames`, so that `Fields` is the type of a header field) and a value that cannot be split is
`UnsplittableValue`. An `Option` is a set of at most one element. `Decodes(c, d)` says that
`d`'s decoder reads whatever `c`'s encoder can produce: its window is as large, and it
forgets between messages only if the encoder does.

### The frame reader

A byte is again a pair of frame number and position. `spare` is the capacity of `in_buffer`
behind its bytes, as `BytesMut` guarantees it: `reserve` gives at least what was asked for
(the model takes exactly that, the least room the code may count on). `codec.header` is the
number of the frame whose header is stored, 0 for `None`. `taken` and `delivered` are history.
`RetriesTooLong` tells whether the caller reads on after `MessageTooLong`. The limit and
`accept_unmasked` are arguments of each call (`args`): `SetArguments` changes them between two calls, as
`set_config` or a caller of `FrameSocket::read` does. The call that parses the header compares the length
with its limit, the call that completes the payload looks at the mask. A header
stored under a limit that is lowered before the payload is complete is not compared again, so its frame is
returned beyond the limit then in force.

`FrameChannel` has no bytes, buffers, headers or loop. Its frames are a queue: the next one is taken
whole, and returned unless it lacks its mask; or it is refused by its header and stays
in front; or the connection is over and no whole one is left. Its `rules` may change between
calls, and `admitted` remembers that a call found the next frame to be within them: a frame is returned
if one of the calls that had it in front of them allowed its size. The refinement maps `next` to `Current`, the frame the reader
stands in front of or whose header it holds, and `whole` to `Arriving`, the frames whose last byte
reaches the reader before the stream ends. Iterations of the loop that only read bytes or store a header
are steps in which a call waits.

### The connection

`ws[r]` is the context of end `r`, with the operators of `WebSocketContext` unchanged. The
stream keeps every byte it accepted in order (`wire`); `Arrived` counts the frames of which the
last byte was accepted, `taken` those the other end has read. A context that is told
`ConnectionClosed` or `ResetWithoutClosingHandshake` is dropped, as the documentation of
`Error::ConnectionClosed` asks; then, or after a crash, the other end reads the end of the stream
behind what had arrived. The stream does not reset here: resets at any byte are the subject of
`Endpoint`. In the run the write buffer is ample, because a full one loses the close frame
(`close_is_queued`) and with it the end of the handshake; the refinement is proved for all limits.

`MessageChannel` has no buffers, bytes, states or replies. A turn of an end sends at most two
messages (its own and an automatic one), receives one, or leaves. Its rules are the promise:
once, in order, unchanged; behind a close message only pongs; nothing received behind one; `closed`
only after the other's close message and, for a client, after the server has gone; `broken` only
if the other has gone and everything it sent has been received, without a close message among it.
The refinement maps a queue to the frames in `sent` that the other end has not taken (of an end
that has gone, those that arrived), `closing` to a close frame in `sent`, and `got` and `gone`
to the history variables.

### Connecting

The variables are the locals of `connect_with_config` and `try_client_handshake`; `pc` is the
place in them. A URL is scheme, host and port. The resolver answers with any of a set of lists or
fails, each address accepts or refuses, each system call may fail, and a server answers the
handshake with success, failure, an error status or a redirection with or without a usable
`Location`. `Builds` are the sets of TLS features; `client_tls_with_config` and `Connector`
exist only in builds with one. A stream is remembered with the host and port it was opened for and the
name TLS was started with.

Two things the model shows that the code leaves to the caller: after a redirect the `Host`
header and the key are still those of the first request (`create_request` copies the headers),
and a `wss` URL with a bracketed IPv6 literal cannot be used with rustls (`InvalidDnsName`), because the
brackets are removed for the resolver only.

### Bytes

`FrameFormat` writes bit fields with division and remainder and lengths by their digits to the base
256, so that both TLC and the provers can compute with them. `Xor` is a parameter of which
only `Xor(Xor(a, b), b) = a` is assumed. `align_to_mut` promises nothing about where it cuts, so
`Splits` has every cut; both byte orders are tried at both ends. `usize` is wide enough for
`MaxLength`; TLC's integers end at 2^31 - 1, the theorems hold up to 2^64 - 1.

In `MessageWire` the sender sends one message, fragment by fragment, or a single header for
its own sake, whose payload never follows. The checks of frame order, limits and masks required
by the role are in `WebSocketContext`.

## Runs

| Run | What it explores | Distinct states |
|---|---|---|
| `close` | a server or a client; texts, pongs, close calls, two reconfigurations (one invalid); pings and two kinds of close frame; a stream that blocks, resets or fails | 443 326 |
| `deflate` | a compressing client, messages of 0 and 1 bytes that compress to 1 or 3 bytes, a raw frame with RSV1, pings | 309 576 |
| `read` | a compressing server; text and binary fragments, plain and compressed, cut characters, frames with wrong bits or without mask, a client that resets its window, a limit lowered and unmasked frames admitted in between | 96 362 |
| `connection` | a client and a server that ping, close and crash; refinement of `MessageChannel`; fairness | 67 767 |
| `handshake` | both roles, or one and a foreign peer; refused requests, twelve callbacks that reject (also with a 101 or a 2xx), change the status or remove a header, heads that are malformed or too long, streams that fail, two bytes behind each head; fairness | 33 902 |
| `negotiate` | all pairs of 37 deflate configurations (flags, windows 9, 12, 15, none) with and without a callback, and each against the extension fields of foreign peers, single and combined, valid and not | 615 474 |
| `connect` | four builds, every connector, limits 0 to 2, six URLs for requests and redirects, hosts with up to three addresses; fairness | 81 105 |
| `frame_reader` | three frames of five kinds (empty, longer, unmasked, undefined opcode, beyond the lower limit), limits that are lowered and raised between calls, any packet sizes, errors, a stream that ends inside a frame; refinement of `FrameChannel`; fairness | 221 508 |
| `codec` | headers of all opcodes and flags with twelve lengths at the edges of the formats, texts of up to five bytes in fragments, binary payloads of 3 and 9 bytes, close frames with eleven codes, with and without a mask | 348 226 |

What the main properties say:

* `FramedWire`, `BufferBound`, `CloseReplyKept`, `ReplyNotDropped`, `OnlyPongAfterClose`: what is
  written is whole frames within the limit, and replies are neither lost nor out of place;
* `StateOrder`, `ClosedOnlyAfterPeerClose`: the close handshake at one end. The second has two
  causes for `ConnectionClosed`, the peer's close frame or an end of the stream that `read` has reported; the
  second cause does occur without a close frame (below);
* `EncoderInStep`, `DecoderInStep`, `FullIsRetryable`, `UnusableIsSilent`: the compression windows;
* `DeliveredWithinLimit`, `WholeMessages`: what `read` returns;
* `ImplementsChannel`, `BrokenHasCause`, `BothEnd`, `ReplySent`: two ends together;
* `NothingLost`, `NoJunk`, `SwitchTogether`, `HeadBounded`, `RejectedIsNotServed`, `Terminates`: the
  opening handshake. `SwitchTogether` excepts a server whose callback rejected the client with a 101, and `HeadBounded` covers all three limits of `AttackCheck`: bytes, packets and the
  average packet; `CodecsAgree`, `HonestPeersSucceed`, `AnswerMatchesCodec`,
  `SelectionMatchesCodec`: what it negotiates;
* `StreamFitsUri`, `RedirectsBounded`, `AddressesInOrder`, `Finishes`: connecting;
* `InputIntact`, `WholeFrames`, `RoomToRead`, `ImplementsFrames`, `EveryFrameTaken`: reading frames. The channel takes
  no frame that every call in front of it was to refuse, so `WithinLimit`, a weaker statement about what is
  returned, is checked only where it fails (`frame_limit`);
* `FrameSurvives`, `PayloadIntact`, `JudgedAsAWhole`: bytes. A text in fragments is returned,
  or refused, exactly when and as early as the whole of it would be.

Bounds of the `Endpoint` runs: `MaxSent` limits the frames the application adds (replies
come on top), `MaxFrames` the frames received. Two or three of each are enough to have a message,
a reply and a close frame in the buffer at once, in any order; four received frames
hold a fragmented message with a control frame or a rejected one inside and another
message after it. Buffers of 3 to 6 bytes with frames of 1 to 4 bytes make every frame
meet a buffer that is empty, partly full and full. Deadlock checking is on: the
application always has a call left.

Bounds of the handshake runs: heads of 2 to 7 bytes in packets of up to 3, against limits of
6 bytes and 3 packets with at least 2 bytes each on average from the third, so that heads pass, are too
long, come in too many or in too small packets; `MaxRest` (2) bytes behind a head suffice for
a tail that is cut; `MaxFlight` bounds what a foreign peer has in flight. Heads have one byte
in `negotiate`, where only their contents matter. Three windows, of which two are cut and
one is the default, give every order of two endpoints' limits.

Bounds of the reader runs: `MaxFrames` (3) frames, the first of which may have been read with
the handshake; frames of up to 7 bytes with an input buffer of 2 and headers of up to 3, so that headers and payloads are cut
everywhere and the room is made more than once. Two pairs of arguments (a limit of 4 bytes, and
one of 5 with unmasked frames admitted) are enough to lower and to raise the limit at every place of a frame.

Bounds of `connection`: `MaxSent` (2) frames of each application, pings or a close frame, with
the replies on top: enough for both to close at once, for a ping behind or in front of the other's
close frame and for a pong that is queued while the close reply is. One message kind suffices,
since the channel's order does not depend on the kind; ping is the one that is answered.

Bounds of `connect`: two redirects are enough to go from plain to TLS and back, or to another host
and back; lists of up to three addresses, one of them twice; the literal is for the TLS name.

Bounds of `codec`: with five bytes of three alphabets (leads of two, three and four bytes, proper
and improper continuations, a letter) every character is cut everywhere, also by empty fragments,
with one more fragment before or behind it, and the decoder's buffer of four bytes fills and overflows.
Payloads of nine bytes have a prefix, two words and a suffix. The machine stops behind
the message, so deadlock is not checked in this run.

The properties, with the code they are about, are commented in the modules. Three more runs show
where the code does not do what its documentation says; see `findings` in `PROJECT.json`:

* `close_is_queued`: `close` on a full buffer never queues the close frame;
* `server_reply`: a server can report `ConnectionClosed` while its close reply is still
  buffered, after a `flush` that blocked;
* `frame_limit`: a frame refused as too long is returned by the next `read_frame`
  (and a longer one makes `read_in` run out of room, against its assertion).

Other disagreements can be read off the model, and two properties say so by what they except:

* A server whose peer goes away without a close frame is told `ResetWithoutClosingHandshake` by `read`, and then
  `ConnectionClosed`, which "informs you of the close" as a normal one (`error.rs:16`), by the next
  `flush` or `close`: `Terminated` is a state that cannot read, so `_write` takes its branch for a server that
  is done closing (`protocol/mod.rs:816`). A reset behind that end becomes `ConnectionClosed` as well, for both
  roles (`protocol/mod.rs:1207`). Without `peer.ended` TLC finds `ClosedOnlyAfterPeerClose` violated.
* A callback that returns an error is documented to reject the connection (`handshake/server.rs:176`), and "Custom
  responses must be unsuccessful" (`error.rs:214`), but only a 2xx is refused (`handshake/server.rs:319`). If the
  error carries the 101 the callback was given, the client gets a WebSocket, and the server an
  error. Without its second case TLC finds `SwitchTogether` violated.

Two are smaller. After a `ConnectionClosed`
that came from a reset (`protocol/mod.rs:1208`) the state is not `Terminated`, so later calls do
not return `AlreadyClosed` as `protocol/mod.rs:455` says. And `write` never compares a message
with `max_message_size` (`protocol/mod.rs:747`), although `protocol/mod.rs:460` and `error.rs:52`
announce `Error::Capacity` for it.

## Proofs

`EndpointProofs` proves, for all roles, limits, messages, frames and sets of stream
errors allowed by the named assumptions of `WebSocketContext` and `Endpoint`:

* types and buffers: `TypeCorrect` (`TypeOK`), `WireIsFramed` (`FramedWire`), `WriteBufferBounded`
  (`BufferBound`);
* the close handshake: `StateMovesForward` (`StateOrder`), `NothingAfterClose`
  (`OnlyPongAfterClose`), `CloseReplyIsKept` (`CloseReplyKept`), `RepliesAreSent`
  (`ReplyNotDropped`), `ClosedMeansPeerClosed` (`ClosedOnlyAfterPeerClose`);
* compression: `EncoderStaysInStep` (`EncoderInStep`), `DecoderStaysInStep` (`DecoderInStep`),
  `FullBufferIsRetryable` (`FullIsRetryable`), `UnusableStaysSilent` (`UnusableIsSilent`);
* messages: `MessagesWithinLimit` (`DeliveredWithinLimit`), `MessagesAreWhole` (`WholeMessages`).

The argument has two layers. `Good(c)` (type, limits in order, `wire \o out_buffer` is the frames of
`sent`, a latched codec only in a terminated connection) is inductive by itself.
`FramedWire` alone is inductive only together with the types and with the fact that a
frame has at least one byte; `BufferBound` needs the order of the limits. `Follows(c, d)`
says what a call may do to a context: it keeps role and limits, grows the buffer at most
to its limit, moves the state forward and never unlatches the codec. It is reflexive and
transitive, so the lemma of each operator (`op(c) \subseteq Steps(c)`) follows from those
of the operators it calls, and a step of `Endpoint` is one of these lemmas. The two facts
about bytes are `MovePrefix` (draining moves bytes and changes none) and `FramedAppend`
(a new frame extends a framed run).

The second layer, `CallInv`, is what the calls mean:

* `Queued`: `additional_send` holds a pong, a close frame or nothing, never compressed. Without it a
  reply could be a data frame behind a close frame.
* `ClosesOnce`: `sent` and `additional_send` hold at most one close frame between them, and none
  while the state is `Active`. `OnlyPongAfterClose` is not inductive without the second half: a
  `close` in state `Active` would add another.
* `ReplyOwed`: in `ClosedByPeer` the reply is queued, or it is the last frame and nothing is
  queued. The last part excludes a pong that would follow it and hide it.
* `enc = acc`: the encoder's window is what the peer's decoder remembers.
* `InStep`: the decoder has inflated what the peer compressed, and `compressed_incomplete` tells the
  kind of the message the peer is in the middle of, on which the next frame's treatment depends.
* the message under assembly has the type and length of the peer's fragments, as long as none
  was rejected; behind the end of the readable states the peer has closed.

`Kept`, `Still` and `Refused` are the relations between a call's context and its result that the action
properties come from. The lemmas of the write side (`Quiet`, `Loud`: a call buffers at most the reply,
or one frame and the reply) are in `ContextProofs`, those of the read side (`Assembled`, `Inflated`,
`Refusal`, `Heard`) follow the order of `read_message_frame`.

The assumptions on the parameters say what the types of the code say: a message other than a raw frame
has its own opcode and is not compressed before it is written, and a received frame with a
close code is long enough to hold one. One is a restriction: the application does not pass a close
frame as a raw `Message::Frame`. `write` would send it and stay `Active`, behind the back of the state
machine, and a later `close` would send a second one.

`FrameReaderProofs` proves, for all frames, buffer sizes and limits, which may change from call to call:

* `TypeCorrect`: `Spec => []TypeOK`;
* `BytesKept`: `Spec => []InputIntact`;
* `FramesAreWhole`: `Spec => []WholeFrames`;
* `CarefulReader`: if the caller gives up behind `MessageTooLong`,
  `Spec => [](RoomToRead /\ NoFrameIsTheEnd)`;
* `ReaderImplementsChannel`: if the caller gives up behind `MessageTooLong`, `Spec => ImplementsFrames`.

The invariant of the first two, `Inv`, adds that every byte in the buffer and in the stream
belongs to a frame that was sent: otherwise the reader would look up a header that does not
exist. `Ordered` is what whole frames need besides: in the stream, the bytes of a frame stand one behind
the other and the next frame behind them (`Laid`, stated for any two places, so that no induction is
needed); and the reader stands in front of a frame, or, with a stored header, in front of that frame's
payload, behind everything it has delivered (`At`). `Careful` adds what makes the room last: with a stored header, the
bytes in the buffer and the room behind them add up to at least the payload. A read moves
bytes from the room into the buffer, so the sum stays; it is made large enough only once,
when the header is parsed. A header refused as too long is the exception (run `frame_limit`),
which is why the theorem needs its assumption.

The refinement needs a fourth part, `Queued`. The bytes of the stream rise from frame to frame and from
position to position (`Rising`), so that the number of its last byte counts the frames; and the last
byte taken ends a frame or, with a stored header, is the last of that header (`Stands`), so that
`Current` moves by one exactly when a payload is taken. Each iteration is then a step of the channel by
how it ends (one lemma for each: `ReadRefusedChannel`, `ReadFrameChannel`, `ReadMoreChannel`,
`ReadNoneChannel`, `ReadFailsChannel`). The delicate one is "no
frame": `EndIsEnd` shows that a reader which has the whole stream in its buffer and still lacks part of
a frame stands behind all that arrived whole. The assumption is needed here, too: with a caller
that reads on, the frame that was refused as too long is returned by the next call (run `frame_limit`), and the
channel has no such step. It has one for a header that was stored under a larger limit (`admitted`).

`HandshakeProofs` proves, for all heads, lengths, limits, callbacks and deflate configurations:

* bytes and stages: `TailIsKept` (`NothingLost`), `HeadsAreBounded` (`HeadBounded`), `NoJunkFromClient`
  (`NoJunk`), `SwitchedTogether` (`SwitchTogether`), `RejectedGetNoSocket` (`RejectedIsNotServed`),
  `TypeCorrect`;
* negotiation: `AnswersAreKept` (`AnswerMatchesCodec`), `SelectionsAreKept` (`SelectionMatchesCodec`),
  `PeersAgree` (`CodecsAgree`), `PeersSucceed` (`HonestPeersSucceed`).

The first group rests on `Inv`. `MachineOK` is about one machine: the buffer and what is in flight to it
are a run of the peer's bytes, from the first or from the one behind the head (`Holds`), the
counter of `AttackCheck` is the length of the buffer while a head is read, the packets so far are
big enough (`BigEnough`), and a client begins to read
with an empty buffer. `FlowOK` is about the two: a client sends no more than its request until it is
done, the response of a server that did not reject is what it has sent and what is left in `out`,
and a client is done with a server that rejected it only if the response says 101. `NothingLost` is not inductive without the second: the bytes behind the
request would be the WebSocket's or junk depending on who sent them.

The second group rests on `Negotiated`: each codec is a function of the configurations and of the two
heads, and heads do not change once made. What remains is about operators: an offer or answer is
parsed as what was written (`Listed`, `ParamsListed`: the parameter lists are put together from pieces
with different names, so no induction over lists is needed); an answer of `accept_deflate_offers`
is a bargain between the configuration and one offer (`Struck`, `Deal`); such an answer fits the offer, is
accepted by the client that made it (`DealAccepted`) and gives codecs that read each other.

`CodecsAgree` and `HonestPeersSucceed` are about a server that did not reject the client: one that did has no
WebSocket, whatever its response selects. `PeersSucceed` has two more hypotheses, both about what applications add on their own: no request of an
application names permessage-deflate itself (a client without a deflate configuration would refuse the
answer), and no callback adds an extension without a name (the client cannot parse it). The run
`negotiate` satisfies both.

Assumptions of `Handshake`: heads are not empty, the fields of a request are fields, a callback's
choices are Booleans and its `body` a length, a 2xx is a status the client refuses (`Http`), and the windows of a configuration are those
`max_window_bits` admits.

`ConnectProofs` proves, for all hosts, ports, URLs, lists of addresses, limits and builds:

* `StreamFitsCurrentUri`: `Spec => []StreamFitsUri`;
* `RedirectLoopBounded`: `Spec => []RedirectsBounded`;
* `AddressesTriedInOrder`: `Spec => []AddressesInOrder`.

The inductive invariant `IInv` (in `Connect`) adds to the three: there is no stream before an
address accepts and a bare one until it is wrapped; past the head of an attempt the URL has a scheme the
build can serve; all addresses before `next` were refused; a result exists only at the end. The second is what
makes a plain stream safe to use without a look at the URL in a build without TLS.

`FrameFormatProofs` proves about the operators, for every header, every length up to `MaxLength` and
every mask:

* `HeaderAtAnyCut`: `parse` of any prefix of `format(h, n)` followed by anything is `None` until the
  header is complete, and then `h`, `n` and its size, or `InvalidOpcode`;
* `FastMaskIsMask`: `apply_mask_fast32` equals `apply_mask_fallback` for every alignment and
  byte order;
* `MaskIsUndone`: masking at one end is undone at the other.

The first goes by length format: the digits of a length determine it, and the second byte tells
the format. The second is arithmetic modulo 4 on the positions in prefix, words and suffix.

`MessageWireProofs` proves, for every text, binary payload, close frame, mask and byte order, and
wherever the message, its characters and its bytes in flight are cut:

* `FramesSurvive`: `Spec => []FrameSurvives`. Its invariant says that the wire holds the formatted
  header followed by nothing or by a masked payload of the announced length.
* `CollectorIsWhole`, about the operators: if the collector holds what it should of a text, then behind
  `extend` with any further bytes it holds what it should of the longer text, or reports `Utf8` and
  the longer text can no longer become valid; it does not panic.
* `PayloadIsIntact`: `Spec => []PayloadIntact`, what is collected and returned are the bytes that were sent.
* `TextsAreJudged`: `Spec => JudgedAsAWhole`, a fragment is refused exactly when the whole text up to it
  would be, and a message is returned exactly when the whole of it is valid.

`valid_up_to` walks over the characters with a recursive function over the positions. What the proofs
need to know of it is a fact about its values at two positions, one a character behind the other
(`Walk`); what holds along the walk follows from the greatest place where it would fail, taken with `WFMin` from
`WellFoundedInduction`, whose hypotheses are about a set and not about an operator. The main lemma
says that `valid_up_to` of a text is `valid_up_to` of a valid beginning plus that of the rest. `Collects` is what the collector
should hold: the valid beginning, decoded, and behind it nothing or the beginning of a single
character (`Cut`). `extend` has many cases, because it completes the buffered character first, may find
it broken, still incomplete, or complete with the input used up, and decodes the rest then; each ends in
`Judged`.

The invariant `MessageInv` adds to the one for `FrameSurvives`: what the reader holds is
what `Collects` says of the bytes sent so far (`Gathers`); the frame on its way may follow what the
reader has (`Follows`), otherwise a fragment would be treated as the start of a message; and what was returned is
what was sent (`Returned`), because the history outlives the message under assembly.

`ConnectionProofs` proves `ConnectionImplementsChannel`: `Spec => ImplementsChannel`, for all messages
and close frames both ends accept, all limits of the write buffer, all points at which the stream
blocks and all crashes. Every step is one turn of one end of the channel, or invisible. The inductive
invariant (`Inv`) has, for each end (`EndInv`):

* its context is `Open`: `Good` and `Sound` as above, and `Talks`, everything it has sent or queued is
  acceptable to the other end (masked as its role demands, a control frame that is short enough, a
  close code that may appear on the wire). Without it a frame could be answered by an error that the
  channel does not know;
* it has taken no more frames than have arrived (`Arrived`, the frames whose last byte the stream has).
  The bytes are the frames of `sent` in order (`Framed`, `Ascending`), so that a longer wire never
  has fewer whole frames, and a crash cuts the queue behind a prefix;
* while it has not left, it is not `Terminated`, and it can read on exactly until it was handed a close
  frame. This ties the state machine to the history `got`, by which the channel decides whether an end
  may be told "closed" or "reset".

A call first adds to one context (`Spoke`: at most two frames, wire and frames only extended, an end
told that it is over only if it heard a close frame and is the server), then reads at most one frame
(`ReadFrame`). The four kinds of turn (`QuietTurn`, `EndTurn`, `TakeTurn`, `Crash`) are then
turns of the channel by lemmas about parts of a sequence (`PartGrows`, `PartTakes`, `PartCut`).

`ConnectionProofs` also proves `BrokenIsExplained`: `Spec /\ []HasRoom => []BrokenHasCause`. `HasRoom` says
that a close frame fits into the write buffer of each end that is still `Active`, as it always does with
the default `max_write_buffer_size` (`usize::MAX`). It holds in the run `connection`, and it is
needed: a `close` that finds its buffer full loses its frame (run `close_is_queued`), and with a
limit of 2 bytes and three messages TLC finds a client that is told "reset" by a server that ended
normally with empty buffers. The invariant adds to `Inv`, for each end: the close frames it was
handed are those among the frames it has taken (`Recorded`); unless it was cut off, its close frame
is sent or queued once it is not `Active` (`Committed`, `Departed`), and a client ends only after the
server. At the moment an end is cut off it has taken all that arrived and no close frame was among it, so
the other's close frame is still queued or has not left the write buffer (`AllArrived`).

The assumptions of `Connection` are those under which two ends of this library are each other's
well-behaved peer: no compression (its windows are the subject of `Endpoint`), a stream that blocks but
does not reset, messages within the limit both share, no raw frames, and close codes that may
be sent.

Every safety property that a passing run checks and both refinements have a theorem. Only model-checked are the
five liveness properties: `Terminates`, `EveryFrameTaken`, `BothEnd`, `ReplySent` and `Finishes`. Liveness
under fairness and `ENABLED` are out of the prover's reach. The three properties that the code
violates (below the runs) have no theorem, of course.

## Fairness

A synchronous library makes progress only when it is called, so the specifications used for
safety have no fairness. Four runs assume it:

* `Handshake!FairSpec`: `handshake()` is called again after every interruption and the
  stream does not block for ever (weak fairness of each side's rounds); a foreign peer goes
  on sending or closes. The code has no timeout, so a peer that does neither keeps the
  handshake open, and the application has to end it. A stream that fails and an application
  that gives up need no fairness: they are allowed, never required.
* `FrameReader!FairSpec`: the caller calls `read_frame` again as long as bytes are there.
  Blocked reads may happen any number of times, but not for ever while bytes wait.
* `Connection!Spec`: both applications keep calling `read`, and `flush` after a call that was
  blocked (the documentation of `write`, `flush` and `close` asks for both), at times when the
  stream takes what it is given. Calls may block any number of times in between. Nobody is made
  to write, to close or to crash.
* `Connect!Spec`: every call of the resolver, TCP, TLS and the handshake returns.

## Not modelled

* flate2, httparse, the TLS libraries, the resolver: external. What they may answer is an input.
  Inside `compress` and `inflate` the loops that feed flate2 end by what that library promises
  about progress; the model takes their results: a size, a budget exceeded, a failure.
* How header fields are cut into tokens and quoted values unescaped (`negotiate.rs`), and the text of
  HTTP heads: a malformed one is an input.
* Forwarding of reads and writes in `stream.rs`, accessors, `Display`, conversions between message types and
  error wording: no state of their own.
* Resets in `Connection` and several messages in `MessageWire`: covered by `Endpoint` and by
  `FrameReader`.
* Examples, benchmarks and fuzz targets.

## What is left to do

An abstract handshake (both open with the same settings, or fail) that `Handshake` refines, and the proof
of it. Its consequences are stated and proved as single properties (`SwitchTogether`, `CodecsAgree`, `NothingLost`,
`RejectedIsNotServed`).
