---------------------------- MODULE MessageWire ----------------------------
(***************************************************************************)
(* A message on its way from one endpoint to the other, byte by byte: the  *)
(* sender cuts it into frames and masks them (Frame::format_into_buf), the *)
(* bytes arrive in any portions, the reader parses the header, removes the *)
(* mask (FrameCodec::read_frame) and collects the payloads                 *)
(* (IncompleteMessage, Frame::into_close).  The machine's byte order and   *)
(* the way a buffer is aligned are chosen anew for every frame and at both *)
(* ends.  What the order of frames, limits and states of the connection do *)
(* is the subject of WebSocketContext, and how the buffer of the reader    *)
(* grows that of FrameReader.                                              *)
(***************************************************************************)
EXTENDS FrameFormat, TextCollector

CONSTANTS
  Alphabets,     \* sets of bytes, each text is made of one of them
  MaxText,       \* bound: bytes of a text
  Binaries,      \* payloads of binary frames
  CloseCodes,    \* numbers of close codes
  Reasons,       \* what follows the code in a close frame
  SomeMasks,     \* masks the sender may draw, NoMask for a server
  BareLengths    \* payload lengths of headers sent for their own sake

\* Texts, payloads and reasons are bytes, and no payload is longer than a length
\* can say.
ASSUME WireAssumption ==
  /\ MaxText \in Nat /\ MaxText + 2 <= MaxLength
  /\ \A bytes \in Alphabets : bytes \subseteq Byte
  /\ \A s \in Binaries \cup Reasons : s \in Seq(Byte) /\ Len(s) + 2 <= MaxLength
  /\ \A code \in CloseCodes : code \in Nat /\ Shift1(code) \in Byte
  /\ SomeMasks \subseteq Masks
  /\ BareLengths \subseteq 1..MaxLength

VARIABLES
  frame,     \* the frame on the wire: header, length, payload; or NoFrame
  wire,      \* its bytes
  arrived,   \* how many of them have arrived
  told,      \* the payloads of the message, as they were sent (history)
  incomplete,\* the reader's IncompleteMessage, or NoMessage
  outcome    \* what the reader returned

vars == <<frame, wire, arrived, told, incomplete, outcome>>

-----------------------------------------------------------------------------
(* IncompleteMessage, without its limit *)

NoMessage == [kind |-> "None", c |-> NewCollector]
NewMessage(kind) == [kind |-> kind, c |-> NewCollector]

\* IncompleteMessage::extend.
Extended(m, payload) ==
  IF m.kind = "Binary" THEN Collected(m.c.data \o payload, <<>>, "None")
  ELSE collector_extend(m.c, payload)

Pending == [is |-> "Pending", bytes |-> <<>>, code |-> CloseCode_from(0)]
Failure(err) == [Pending EXCEPT !.is = err]
Message(kind, bytes) == [Pending EXCEPT !.is = kind, !.bytes = bytes]

\* IncompleteMessage::complete.
complete(m) ==
  IF m.kind = "Text" /\ into_string(m.c) # "None" THEN Failure(into_string(m.c))
  ELSE Message(m.kind, m.c.data)

-----------------------------------------------------------------------------
(* Close frames *)

\* Frame::close, and Frame::into_close, which checks the reason.
close_payload(code, reason) == be_bytes_u16(CloseCode_into(code)) \o reason

into_close(payload) ==
  LET reason == Rest(payload, 2)
  IN  CASE Len(payload) = 0 -> Message("Close", <<>>)
        [] Len(payload) = 1 -> Failure("InvalidCloseSequence")
        [] Len(payload) > 1 /\ ~is_utf8(reason) -> Failure("Utf8")
        [] OTHER -> [is |-> "Close", bytes |-> reason,
                     code |-> CloseCode_from(from_be_u16(payload, 1))]

-----------------------------------------------------------------------------
(* The reader *)

\* A whole message in one frame, or a fragment of one.
ReceiveData(h, payload) ==
  LET first == h.opcode.name # "Continue"
      ext == Extended(IF first THEN NewMessage(h.opcode.name) ELSE incomplete, payload)
      grown == [kind |-> IF first THEN h.opcode.name ELSE incomplete.kind, c |-> ext.c]
      whole == Message(h.opcode.name, payload)
  IN  IF first /\ h.is_final
        THEN /\ outcome' = IF h.opcode.name = "Text" /\ ~is_utf8(payload) THEN Failure("Utf8")
                           ELSE whole
             /\ UNCHANGED incomplete
      ELSE IF ext.err # "None"
        THEN /\ outcome' = Failure(ext.err)
             /\ incomplete' = IF first THEN incomplete ELSE grown
      ELSE IF h.is_final
        THEN outcome' = complete(grown) /\ incomplete' = NoMessage
      ELSE incomplete' = grown /\ UNCHANGED outcome

ReceiveFrame(h, payload) ==
  IF h.opcode.name = "Close"
    THEN outcome' = into_close(payload) /\ UNCHANGED incomplete
    ELSE ReceiveData(h, payload)

-----------------------------------------------------------------------------
(* Actions *)

NoFrame == [header |-> <<>>, length |-> 0, payload |-> <<>>]

Init ==
  /\ frame = NoFrame /\ wire = <<>> /\ arrived = 0
  /\ told = <<>> /\ incomplete = NoMessage /\ outcome = Pending

\* Frame::message and Frame::close make such headers; the mask is set later.
Plain(op, fin, mask) ==
  [is_final |-> fin, rsv1 |-> FALSE, rsv2 |-> FALSE, rsv3 |-> FALSE,
   opcode |-> Op(op), mask |-> mask]

\* The frame before was read.
CanSend == frame = NoFrame /\ outcome = Pending

\* A payload masked or unmasked on any machine and in a buffer aligned in any way.
Maskings(mask, payload) ==
  {mask_payload(mask, payload, endian, split) :
     endian \in {"little", "big"}, split \in Splits(Len(payload))}

\* Frame::format_into_buf of a frame.
Send(h, payload) ==
  /\ frame' = [header |-> h, length |-> Len(payload), payload |-> payload]
  /\ \E masked \in Maskings(h.mask, payload) : wire' = format(h, Len(payload)) \o masked
  /\ UNCHANGED <<arrived, told, incomplete, outcome>>

\* What may follow in the text.
Chunks ==
  UNION {[1..k -> bytes] : k \in 0..(MaxText - Len(told)),
                           bytes \in {b \in Alphabets : told \in Seq(b)}}

\* A fragment, the first or a later one, or a whole message.
SendText ==
  /\ CanSend /\ incomplete.kind \in {"None", "Text"}
  /\ \E fin \in BOOLEAN, mask \in SomeMasks, chunk \in Chunks :
       Send(Plain(IF incomplete.kind = "None" THEN "Text" ELSE "Continue", fin, mask),
            chunk)

SendBinary ==
  /\ CanSend /\ incomplete.kind \in {"None", "Binary"} /\ Len(told) <= MaxText
  /\ \E fin \in BOOLEAN, mask \in SomeMasks, chunk \in Binaries :
       Send(Plain(IF incomplete.kind = "None" THEN "Binary" ELSE "Continue", fin, mask),
            chunk)

\* Another library may send a payload of one byte, or a reason that is no text.
SendClose ==
  /\ CanSend /\ incomplete = NoMessage
  /\ \E mask \in SomeMasks, n \in CloseCodes, reason \in Reasons :
       \E payload \in {<<>>, <<n \div 256>>, close_payload(CloseCode_from(n), reason)} :
         Send(Plain("Close", TRUE, mask), payload)

\* A header of any kind, its payload still to come.
SendHeader ==
  /\ CanSend /\ incomplete = NoMessage
  /\ \E fin, r1, r2, r3 \in BOOLEAN, op \in OpCodes, mask \in SomeMasks, n \in BareLengths :
       LET h == [is_final |-> fin, rsv1 |-> r1, rsv2 |-> r2, rsv3 |-> r3,
                 opcode |-> op, mask |-> mask]
       IN  frame' = [header |-> h, length |-> n, payload |-> <<>>] /\ wire' = format(h, n)
  /\ UNCHANGED <<arrived, told, incomplete, outcome>>

\* A portion of the bytes arrives.
Arrive ==
  /\ arrived' \in (arrived + 1)..Len(wire)
  /\ UNCHANGED <<frame, wire, told, incomplete, outcome>>

Input == Front(wire, arrived)

\* The payload as read_frame gives it back, when it has arrived.
Unmasked(p) == Maskings(p.header.mask, SubSeq(Input, p.at + 1, p.at + p.length))

\* read_frame up to the frame: the header is there and so is the payload.
Take ==
  LET p == parse(Input)
  IN  /\ outcome = Pending /\ p.is = "Some" /\ p.length <= arrived - p.at
      /\ \E payload \in Unmasked(p) : ReceiveFrame(p.header, payload)
      /\ told' = told \o frame.payload
      /\ frame' = NoFrame /\ wire' = Rest(wire, p.at + p.length)
      /\ arrived' = arrived - (p.at + p.length)

\* read_frame on a reserved opcode.
Refuse ==
  /\ outcome = Pending /\ parse(Input).is = "InvalidOpcode"
  /\ outcome' = Failure("InvalidOpcode")
  /\ UNCHANGED <<frame, wire, arrived, told, incomplete>>

Next == SendText \/ SendBinary \/ SendClose \/ SendHeader \/ Arrive \/ Take \/ Refuse

Spec == Init /\ [][Next]_vars

-----------------------------------------------------------------------------
(* Properties *)

\* However many of its bytes have arrived, a frame is either incomplete and the
\* reader waits, or it is read with the header, the length, the payload's place
\* and the payload the sender meant, or its opcode is reserved; the header fits into
\* the room read_frame makes for one, and Frame::len told its size.  The mask, the
\* byte orders and the alignment of the buffers at both ends make no difference
\* (FrameHeader::parse, format and len, apply_mask_fast32).
FrameSurvives ==
  frame # NoFrame /\ arrived > 0 =>
    LET h == frame.header
        size == header_len(h, frame.length)
        p == parse(Input)
    IN  /\ size <= MAX_SIZE
        /\ p = IF arrived < size THEN Incomplete
               ELSE IF Reserved(h.opcode) THEN BadOpcode
               ELSE Parsed(h, frame.length, size)
        /\ p.is = "Some" /\ p.length <= arrived - p.at => Unmasked(p) = {frame.payload}

\* What the reader has collected, and in the end returns, are the bytes that were
\* sent, wherever the message and its characters were cut (StringCollector::extend,
\* IncompleteMessage::complete, Frame::close and into_close).
PayloadIntact ==
  /\ incomplete # NoMessage /\ outcome = Pending =>
       incomplete.c.data \o incomplete.c.incomplete = told
  /\ outcome.is \in {"Text", "Binary"} => outcome.bytes = told
  /\ outcome.is = "Close" =>
       told \in {<<>>, close_payload(outcome.code, outcome.bytes)}

\* What std::str::from_utf8 says of all the bytes sent so far: a text that must be
\* complete, and one that more bytes may follow.
Verdict(text, final) ==
  IF is_utf8(text) THEN IF final THEN "Text" ELSE "Pending"
  ELSE IF ~final /\ error_len(text) = 0 THEN "Pending" ELSE "Utf8"

IsText == frame.header.opcode.name = "Text" \/ incomplete.kind = "Text"

\* A text in fragments is judged like the whole of it: returned if and only if it is
\* UTF-8, refused as soon as no further bytes could make it so and not before, and
\* the decoder never panics; a close frame is refused only for its reason
\* (Incomplete::try_complete, decode, into_string, into_close).
JudgedAsAWhole ==
  [][frame # NoFrame /\ frame' = NoFrame =>
       IF IsText THEN outcome'.is = Verdict(told', frame.header.is_final)
       ELSE outcome'.is = "Utf8" => ~is_utf8(Rest(told', 2))]_vars

=============================================================================
