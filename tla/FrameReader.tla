----------------------------- MODULE FrameReader -----------------------------
(***************************************************************************)
(* The read half of FrameCodec (src/src/protocol/frame/mod.rs): frames are *)
(* taken out of a byte stream that delivers any number of bytes at a time, *)
(* blocks, fails or ends.  FrameSocket::read and                           *)
(* WebSocketContext::read_message_frame are its callers.                   *)
(*                                                                         *)
(* An action is one iteration of the loop of read_frame; ret = "Loop"      *)
(* while the call has not returned.  A byte is a pair: the number of the   *)
(* frame it belongs to, and its position in it.                            *)
(***************************************************************************)
EXTENDS Integers, Sequences

CONSTANTS
  FrameKinds,      \* the frames the peer sends
  MaxFrames,       \* bound: how many of them
  Arguments,       \* what read_frame is called with: the limit on payloads
                   \* (config.max_frame_size) and config.accept_unmasked_frames
  InBufLen,        \* read_buffer_size
  HeaderMax,       \* FrameHeader::MAX_SIZE
  Unmask,          \* TRUE for a server
  StreamErrors,    \* how a read from the stream may fail
  RetriesTooLong   \* TRUE iff the caller reads again after MessageTooLong

\* `hlen`: bytes of the header, with length and mask; `reserved`: the opcode is
\* not defined.
Frame == [hlen : Nat \ {0}, len : Nat, masked : BOOLEAN, reserved : BOOLEAN]

ASSUME SizesAssumption ==
  /\ MaxFrames \in Nat /\ InBufLen \in Nat /\ HeaderMax \in Nat \ {0}
  /\ Unmask \in BOOLEAN /\ RetriesTooLong \in BOOLEAN
ASSUME ArgumentsAssumption == Arguments \subseteq [max_size : Nat, accept_unmasked : BOOLEAN]
ASSUME ErrorsAssumption == StreamErrors \subseteq {"WouldBlock", "OtherIo"}
ASSUME KindsAssumption ==
  FrameKinds \subseteq Frame /\ \A f \in FrameKinds : f.hlen <= HeaderMax

VARIABLES
  frames,     \* what the peer has begun to send
  stream,     \* all its bytes
  wire,       \* those the reader has not read from the stream
  ended,      \* the peer has closed: nothing comes behind `wire`
  args,       \* the arguments of this call, between two calls of the next one
  codec,      \* FrameCodec: in_buffer, its spare capacity, header
  taken,      \* history: the bytes taken out of in_buffer
  delivered,  \* history: the frames returned
  ret         \* what read_frame returned

vars == <<frames, stream, wire, ended, args, codec, taken, delivered, ret>>

Byte == Nat \X Nat
Codec == [in_buffer : Seq(Byte), spare : Nat, header : Nat]

FrameBytes(f, k) == [i \in 1..(f.hlen + f.len) |-> <<k, i>>]
Payload(f, k) == [i \in 1..f.len |-> <<k, f.hlen + i>>]

-----------------------------------------------------------------------------
(* FrameCodec *)

\* BytesMut::reserve: room for n more bytes.
reserve(c, n) == [c EXCEPT !.spare = IF @ < n THEN n ELSE @]

\* BytesMut::advance and split_to: the first n bytes leave the buffer, and the
\* room behind the others stays.
advance(c, n) == [c EXCEPT !.in_buffer = SubSeq(@, n + 1, Len(@))]

\* The frame whose header is in front of the buffer, 0 if it is not all there.
parse(c) ==
  IF c.in_buffer = <<>> THEN 0
  ELSE LET k == c.in_buffer[1][1]
       IN  IF Len(c.in_buffer) < frames[k].hlen THEN 0 ELSE k

\* Mutant: the part of a header is consumed.
Rewind_not(c) == advance(c, Len(c.in_buffer))

\* FrameHeader::parse sets the cursor back if the header is not all there.
Rewind(c) == c

\* The limit of the call that parses the header; one that finds it stored does not look.
TooLong(f, a) == f.len > a.max_size

NotMasked(f, a) == Unmask /\ ~f.masked /\ ~a.accept_unmasked

\* Mutant: no room is made for the payload.
RoomFor_none(f) == 0

\* The room made when a header is stored.
RoomFor(f) == f.len

\* Mutant: the header is consumed.
Undefined_consumed(c, f) == [c |-> advance(c, f.hlen), err |-> "InvalidOpcode", used |-> f.hlen]

\* A frame whose opcode is not defined stays where it is.
Undefined(c, f) == [c |-> c, err |-> "InvalidOpcode", used |-> 0]

\* The first half of an iteration, with the bytes it takes out of the buffer.
\* An undefined opcode is found before the buffer is advanced, a length beyond
\* the limit after the header is stored.
ParseHeader(c) ==
  LET k == parse(c)
      f == frames[k]
      stored == [advance(c, f.hlen) EXCEPT !.header = k]
  IN  IF c.header # 0 THEN [c |-> c, err |-> "None", used |-> 0]
      ELSE IF k = 0 THEN [c |-> reserve(Rewind(c), HeaderMax), err |-> "None", used |-> 0]
      ELSE IF f.reserved THEN Undefined(c, f)
      ELSE IF TooLong(f, args) THEN [c |-> stored, err |-> "MessageTooLong", used |-> f.hlen]
      ELSE [c |-> reserve(stored, RoomFor(f)), err |-> "None", used |-> f.hlen]

\* Mutant: the last byte of the payload is not enough.
HasPayload_strict(c) == c.header # 0 /\ frames[c.header].len < Len(c.in_buffer)

\* The payload of the stored header is in the buffer.
HasPayload(c) == c.header # 0 /\ frames[c.header].len <= Len(c.in_buffer)

\* What read_in can read at once; a read into no room returns 0.
in_buf_max_read == IF InBufLen > HeaderMax THEN InBufLen ELSE HeaderMax
ReadSizes(c) ==
  {n \in 1..in_buf_max_read : n <= c.spare /\ n <= Len(wire)}

-----------------------------------------------------------------------------
(* The reader *)

\* The caller goes on after any error but, if it is careful, not behind a
\* frame that is too long.
CallsAgain == ret # "MessageTooLong" \/ RetriesTooLong

\* What the iteration takes out of the buffer first.
Iterate(p) ==
  /\ CallsAgain
  /\ taken' = taken \o SubSeq(codec.in_buffer, 1, p.used)
  /\ codec' = p.c

\* The header is refused.
ReadRefused ==
  LET p == ParseHeader(codec)
  IN  /\ p.err # "None"
      /\ Iterate(p)
      /\ ret' = p.err
      /\ UNCHANGED <<frames, stream, wire, ended, args, delivered>>

\* A frame is complete: the header is taken, masks are checked.
ReadFrame ==
  LET p == ParseHeader(codec)
      f == frames[p.c.header]
      payload == SubSeq(p.c.in_buffer, 1, f.len)
  IN  /\ p.err = "None" /\ HasPayload(p.c) /\ CallsAgain
      /\ codec' = [advance(p.c, f.len) EXCEPT !.header = 0]
      /\ taken' = taken \o SubSeq(codec.in_buffer, 1, p.used) \o payload
      /\ IF NotMasked(f, args)
           THEN ret' = "UnmaskedFrameFromClient" /\ UNCHANGED delivered
           ELSE /\ ret' = "Frame"
                /\ delivered' = Append(delivered, [frame |-> p.c.header, payload |-> payload])
      /\ UNCHANGED <<frames, stream, wire, ended, args>>

\* Mutant: the bytes of a read replace those that were waiting.
read_in_overwrite(c, bytes) == [c EXCEPT !.in_buffer = bytes, !.spare = @ - Len(bytes)]

read_in(c, bytes) == [c EXCEPT !.in_buffer = @ \o bytes, !.spare = @ - Len(bytes)]

\* read_in brings some bytes, and the loop goes on.
ReadMore ==
  LET p == ParseHeader(codec)
  IN  /\ p.err = "None" /\ ~HasPayload(p.c) /\ CallsAgain
      /\ \E n \in ReadSizes(p.c) :
           /\ codec' = read_in(p.c, SubSeq(wire, 1, n))
           /\ wire' = SubSeq(wire, n + 1, Len(wire))
      /\ taken' = taken \o SubSeq(codec.in_buffer, 1, p.used)
      /\ ret' = "Loop"
      /\ UNCHANGED <<frames, stream, ended, args, delivered>>

\* read_in returns 0: the stream has ended, or there is no room to read into.
ReadNone ==
  LET p == ParseHeader(codec)
  IN  /\ p.err = "None" /\ ~HasPayload(p.c)
      /\ (wire = <<>> /\ ended) \/ p.c.spare = 0
      /\ Iterate(p)
      /\ ret' = "NoFrame"
      /\ UNCHANGED <<frames, stream, wire, ended, args, delivered>>

\* read_in fails; what was parsed stays.
ReadFails ==
  LET p == ParseHeader(codec)
  IN  /\ p.err = "None" /\ ~HasPayload(p.c)
      /\ Iterate(p)
      /\ ret' \in StreamErrors
      /\ UNCHANGED <<frames, stream, wire, ended, args, delivered>>

\* set_config, or another argument of FrameSocket::read: the next call has other
\* limits, though the header of its frame may be parsed already.
SetArguments ==
  /\ ret # "Loop"
  /\ args' \in Arguments
  /\ UNCHANGED <<frames, stream, wire, ended, codec, taken, delivered, ret>>

-----------------------------------------------------------------------------
(* The peer *)

PeerSends ==
  /\ ~ended /\ Len(frames) < MaxFrames
  /\ \E f \in FrameKinds :
       LET bytes == FrameBytes(f, Len(frames) + 1)
       IN  /\ frames' = Append(frames, f)
           /\ stream' = stream \o bytes
           /\ wire' = wire \o bytes
  /\ UNCHANGED <<ended, args, codec, taken, delivered, ret>>

\* The connection ends; some of the last bytes may never arrive.
PeerCloses ==
  /\ ~ended
  /\ ended' = TRUE
  /\ \E lost \in 0..Len(wire) :
       /\ wire' = SubSeq(wire, 1, Len(wire) - lost)
       /\ stream' = SubSeq(stream, 1, Len(stream) - lost)
  /\ UNCHANGED <<frames, args, codec, taken, delivered, ret>>

\* FrameCodec::new, or from_partially_read with the first bytes of a frame.
Init ==
  \E f \in FrameKinds : \E part \in 0..(f.hlen + f.len) :
    LET bytes == FrameBytes(f, 1)
    IN  /\ frames = <<f>>
        /\ stream = bytes
        /\ wire = SubSeq(bytes, part + 1, Len(bytes))
        /\ codec = [in_buffer |-> SubSeq(bytes, 1, part),
                    spare |-> IF part < InBufLen THEN InBufLen - part ELSE 0,
                    header |-> 0]
        /\ args \in Arguments
        /\ ended = FALSE /\ taken = <<>> /\ delivered = <<>> /\ ret = "None"

\* A careful caller stops behind a frame that is too long.
Stopped == ~CallsAgain /\ UNCHANGED vars

Read == ReadRefused \/ ReadFrame \/ ReadMore \/ ReadNone \/ ReadFails
Next == Read \/ SetArguments \/ PeerSends \/ PeerCloses \/ Stopped

Spec == Init /\ [][Next]_vars

\* The caller calls again whenever a frame or bytes are there to be had.
FairSpec == Spec /\ WF_vars(ReadRefused \/ ReadFrame \/ ReadMore)

-----------------------------------------------------------------------------
(* Properties *)

\* The type of the state.
TypeOK ==
  /\ frames \in Seq(Frame) /\ Len(frames) <= MaxFrames + 1
  /\ stream \in Seq(Byte) /\ wire \in Seq(Byte) /\ taken \in Seq(Byte)
  /\ ended \in BOOLEAN /\ args \in Arguments
  /\ codec \in Codec /\ codec.header \in 0..Len(frames)
  /\ delivered \in Seq([frame : 1..Len(frames), payload : Seq(Byte)])
  /\ ret \in {"None", "Loop", "Frame", "NoFrame", "InvalidOpcode", "MessageTooLong",
              "UnmaskedFrameFromClient"} \cup StreamErrors

\* No byte of the peer is lost, repeated or moved on its way through in_buffer,
\* whatever the sizes of the reads and wherever the calls are interrupted.
InputIntact == taken \o codec.in_buffer \o wire = stream

\* The frames returned are frames the peer sent, in its order, each with its
\* own payload and nothing else, though header and payload may have been read
\* by different calls.
WholeFrames ==
  /\ \A i \in DOMAIN delivered :
       delivered[i].payload = Payload(frames[delivered[i].frame], delivered[i].frame)
  /\ \A i, j \in DOMAIN delivered : i < j => delivered[i].frame < delivered[j].frame

\* read_in has room for the rest of the frame whenever it is called, as its
\* debug_assert demands: otherwise it would report the end of the stream.  The
\* room is made once, when the header is parsed.
RoomToRead ==
  ret # "MessageTooLong" /\ codec.header # 0 =>
    codec.spare > 0 \/ HasPayload(codec)

\* read_frame returns no frame only at the end of the stream.
NoFrameIsTheEnd == ret = "NoFrame" => wire = <<>> /\ ended

\* A payload beyond every limit read_frame was given is never returned
\* (max_frame_size), also if the caller reads on after MessageTooLong.
WithinLimit ==
  \A i \in DOMAIN delivered :
    \E a \in Arguments : Len(delivered[i].payload) <= a.max_size

\* The frame the reader stands in front of, or whose header it has taken.
Current ==
  IF codec.header # 0 THEN codec.header
  ELSE IF taken = <<>> THEN 1
  ELSE taken[Len(taken)][1] + 1

\* How many frames the stream brings whole: the last may be cut off.
Arriving ==
  IF stream = <<>> THEN 0
  ELSE LET last == stream[Len(stream)]
           f == frames[last[1]]
       IN  IF last[2] = f.hlen + f.len THEN last[1] ELSE last[1] - 1

Channel ==
  INSTANCE FrameChannel WITH
    Frames <- FrameKinds,
    Reserved <- {f \in FrameKinds : f.reserved},
    Rules <- Arguments,
    Oversized <- TooLong,
    Unwanted <- NotMasked,
    Contents <- Payload,
    Errors <- StreamErrors,
    sent <- frames,
    whole <- Arriving,
    over <- ended,
    rules <- args,
    next <- Current,
    admitted <- codec.header # 0 /\ ret # "MessageTooLong",
    got <- delivered,
    answer <- ret

\* For a caller that stops behind a frame that is too long, the bytes, the buffer and
\* the loop of read_frame add up to a queue of frames: each is taken once, in order
\* and whole, none is skipped, "no frame" means that no whole one is left, and none
\* is returned that was beyond the limits of all calls that had it in front of them.
ImplementsFrames == Channel!Spec

\* Every frame that was sent is taken, unless one in front of it was refused for
\* good or the connection ended: no header or payload waits for ever.
EveryFrameTaken ==
  \A k \in 1..(MaxFrames + 1) :
    Len(frames) >= k ~>
      \/ ended \/ ret \in {"MessageTooLong", "InvalidOpcode"}
      \/ Len(frames) >= k /\ \E i \in DOMAIN taken :
           taken[i] = <<k, frames[k].hlen + frames[k].len>>

=============================================================================
