----------------------------- MODULE MCEndpoint -----------------------------
(* Small instances of Endpoint: the messages, the frames and the limits.   *)
EXTENDS Endpoint

Cfg(max, len, msg) ==
  [max_write_buffer_size |-> max, write_buffer_size |-> len, max_message_size |-> msg,
   accept_unmasked_frames |-> FALSE]

Takeover == [r \in Role |-> FALSE]

Msg(op, n) == [kind |-> op, frame |-> MakeFrame(op, n)]
Raw(f) == [kind |-> "Frame", frame |-> f]

\* A frame as a client masks it.
Masked(f) == [f EXCEPT !.masked = TRUE]

(* Writing and closing: control frames, partial writes, a tight buffer. *)
CloseConfig == Cfg(4, 1, 8)
CloseConfigs == {Cfg(3, 0, 8), Cfg(2, 3, 8)}
CloseMessages == {Msg("Text", 1), Msg("Pong", 1), [kind |-> "Close", frame |-> CloseFrame("none", 0)]}
CloseCloseFrames == {CloseFrame("allowed", 2)}
CloseInFrames ==
  {MakeFrame("Ping", 0), CloseFrame("none", 0), Masked(MakeFrame("Ping", 0)),
   Masked(CloseFrame("disallowed", 2))}

(* Compressing: messages that grow or shrink, a buffer that fills up, a raw
   frame and a ping between them; one frame the peer must not send. *)
DeflateConfig == Cfg(6, 3, 8)
\* The server compresses every message alone, the client does not.
ServerResets == [r \in Role |-> r = "Server"]
DeflateMessages ==
  {Msg("Text", 0), Msg("Binary", 1), Msg("Ping", 0),
   Raw(Compressed(MakeFrame("Text", 1), 1))}
DeflateInFrames ==
  {MakeFrame("Ping", 0), Masked(MakeFrame("Ping", 0)),
   [MakeFrame("Ping", 0) EXCEPT !.rsv1 = TRUE]}

(* Receiving: fragments of text and binary messages, plain and compressed,
   with control frames between them; frames to reject on every path. *)
Part(op, fin, n) == [MakeFrame(op, n) EXCEPT !.fin = fin]
Deflated(f, n) == [f EXCEPT !.rsv1 = TRUE, !.plain = n]

ReadConfig == Cfg(4, 1, 4)
ReadConfigs == {[Cfg(4, 1, 1) EXCEPT !.accept_unmasked_frames = TRUE]}

\* The client compresses every message alone, the server does not.
ClientResets == [r \in Role |-> r = "Client"]

ReadInFrames ==
  {Masked(f) : f \in
     {Part("Text", FALSE, 1), Part("Binary", TRUE, 2),
      Deflated(Part("Binary", FALSE, 1), 2), Deflated(Part("Text", TRUE, 1), 1),
      [Deflated(Part("Text", TRUE, 1), 1) EXCEPT !.inflates = FALSE],
      [Part("Text", FALSE, 1) EXCEPT !.utf8 = "cut"],
      [Part("Continue", FALSE, 1) EXCEPT !.utf8 = "rest", !.plain = 2],
      [Part("Continue", TRUE, 1) EXCEPT !.plain = 2],
      [Part("Continue", FALSE, 1) EXCEPT !.rsv23 = TRUE],
      [Part("Binary", TRUE, 1) EXCEPT !.rsv23 = TRUE],
      MakeFrame("Ping", 0), MakeFrame("Ping", 3), CloseFrame("none", 0)}}
  \cup {[Part("Continue", TRUE, 1) EXCEPT !.plain = 2], Part("Text", FALSE, 1),
        Deflated(Part("Binary", FALSE, 1), 2), Deflated(Part("Text", TRUE, 1), 1)}

=============================================================================
