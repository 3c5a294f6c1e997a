------------------------------ MODULE Handshake ------------------------------
(***************************************************************************)
(* The opening handshake: src/src/handshake/{mod,machine,client,server}.rs *)
(* over the ReadBuffer of src/src/buffer.rs.                               *)
(*                                                                         *)
(* A client and a server exchange a request and a response over two byte   *)
(* streams.  Each of them is either a HandshakeMachine of this library or  *)
(* foreign, that is, a peer that sends any of a set of heads byte by byte. *)
(* One action is one round of the loop of MidHandshake::handshake.  A      *)
(* round that would block changes nothing: handshake() returns Interrupted *)
(* with the machine as it was, and a later call goes on with it.           *)
(***************************************************************************)
EXTENDS Negotiate, FiniteSets

CONSTANTS
  Requests,          \* what applications pass to ClientHandshake::start
  ClientConfigs,     \* config.deflate of the client, an Option
  ServerConfigs,     \* config.deflate of the server, an Option
  Callbacks,         \* what the server's callback can do
  ForeignRequests,   \* heads a foreign client sends
  ForeignResponses,  \* heads a foreign server sends
  RequestLen,        \* bytes of a request of this library
  ResponseLen,       \* bytes of the head of a response of this library
  ChunkSize,         \* bytes read at once
  MaxBytes, MaxPackets, MinPacketSize, MinPacketCheckThreshold,
  MaxRest,           \* bound: bytes an endpoint sends behind its head
  MaxFlight,         \* bound: bytes of a foreign peer in flight
  StreamFails        \* TRUE iff a read, write or flush may fail

ASSUME LengthsAssumption ==
  /\ {RequestLen, ResponseLen, ChunkSize} \subseteq Nat \ {0}
  /\ {MaxBytes, MaxPackets, MinPacketSize, MinPacketCheckThreshold,
      MaxRest, MaxFlight} \subseteq Nat
  /\ StreamFails \in BOOLEAN

VARIABLES
  hs,     \* [role -> the HandshakeMachine and its HandshakeRole]
  wire,   \* [role -> the bytes it sent that the other has not read]
  sent,   \* [role -> how many bytes it sent: byte n of a stream is n]
  head,   \* [role -> what the first head.len bytes it sends say]
  closed, \* [role -> it has dropped its stream]
  config  \* [role -> config.deflate the application asked for]

vars == <<hs, wire, sent, head, closed, config>>

Role == {"Client", "Server"}
Peer(r) == IF r = "Client" THEN "Server" ELSE "Client"

-----------------------------------------------------------------------------
(* Heads *)

\* derive_accept_key: SHA-1 and base64, different for different keys.
derive_accept_key(key) == <<"accept", key>>

\* A request and a response.  `faults` are the checks they would fail.
Request(len, faults, key, protocols, extensions) ==
  [len |-> len, kind |-> "request", faults |-> faults, key |-> key,
   protocols |-> protocols, extensions |-> extensions]
Response(len, faults, accept, protocols, extensions) ==
  [len |-> len, kind |-> "response", faults |-> faults, accept |-> accept,
   protocols |-> protocols, extensions |-> extensions]
NoHead == [len |-> 0, kind |-> "none"]

\* What applications and foreign peers send is a head, and not empty.
ASSUME HeadsAssumption ==
  /\ \A q \in Requests \cup ForeignRequests :
       /\ q.len \in Nat \ {0} /\ q.extensions \in Fields
       /\ q = Request(q.len, q.faults, q.key, q.protocols, q.extensions)
  /\ \A p \in ForeignResponses :
       p.len \in Nat \ {0} /\ p = Response(p.len, p.faults, p.accept, p.protocols, p.extensions)

\* A callback returns the response it was given or another one, as Ok or as Err
\* (`rejects`).  `faults` are the checks this response fails at a client; `successful`:
\* its status is a 2xx; `keeps_accept`: it has the Sec-WebSocket-Accept it was given.
ASSUME CallbacksAssumption ==
  \A cb \in Callbacks :
    /\ {cb.rejects, cb.successful, cb.keeps_accept, cb.ascii} \subseteq BOOLEAN
    /\ cb.body \in Nat
    /\ cb.successful => "Http" \in cb.faults

\* DeflateConfig: the windows are what max_window_bits admits.
ASSUME ConfigsAssumption ==
  \A d \in ClientConfigs \cup ServerConfigs :
    d = {} \/ \E s \in Settings : Configured(s) /\ d = {s}

\* The first of an ordered list of checks that fails.
FirstFault(checks, faults) ==
  LET failing == {i \in DOMAIN checks : checks[i] \in faults}
  IN  IF failing = {} THEN "None"
      ELSE checks[CHOOSE i \in failing : \A j \in failing : i <= j]

\* ClientHandshake::start and generate_request, in the order of the code.
StartChecks ==
  <<"WrongHttpMethod", "WrongHttpVersion", "UnsupportedUrlScheme", "SubProtocolEncoding",
    "ExtensionsAlreadyPresent", "NoPathOrQuery", "MissingHeader", "HeaderEncoding",
    "DuplicateHeader">>

\* httparse, then from_httparse of Request and Response.
ParseChecks == <<"Malformed", "WrongHttpMethod", "WrongHttpVersion", "HttpFormat">>

\* create_parts.
RequestChecks ==
  <<"WrongHttpMethod", "WrongHttpVersion", "MissingConnectionUpgradeHeader",
    "MissingUpgradeWebSocketHeader", "MissingSecWebSocketVersionHeader",
    "MissingSecWebSocketKey", "InvalidSecWebSocketKey">>

\* VerifyData::verify_response; Http is a status other than 101.
ResponseChecks ==
  <<"Http", "MissingUpgradeWebSocketHeader", "MissingConnectionUpgradeHeader",
    "SecWebSocketAcceptKeyMismatch", "NoSubProtocol",
    "ServerSentSubProtocolNoneRequested", "SubProtocolEncoding", "InvalidSubProtocol">>

\* The checks of a response that compare it with the request.
Mismatches(request, response) ==
  {c \in {"SecWebSocketAcceptKeyMismatch", "NoSubProtocol",
          "ServerSentSubProtocolNoneRequested", "InvalidSubProtocol"} :
   CASE c = "SecWebSocketAcceptKeyMismatch" ->
          response.accept # derive_accept_key(request.key)
     [] c = "NoSubProtocol" -> response.protocols = {} /\ request.protocols # {}
     [] c = "ServerSentSubProtocolNoneRequested" ->
          response.protocols # {} /\ request.protocols = {}
     [] OTHER -> ~(response.protocols \subseteq request.protocols)}

verify_response(request, response) ==
  FirstFault(ResponseChecks, response.faults \cup Mismatches(request, response))

-----------------------------------------------------------------------------
(* The machine *)

\* `out`: bytes of the Cursor still to write.  `buf`: the ReadBuffer, after
\* reading the tail.  `rejected`: error_response is set.
Machine(stage, out, deflate) ==
  [stage |-> stage, out |-> out, buf |-> <<>>, packets |-> 0, bytes |-> 0,
   deflate |-> deflate, rejected |-> FALSE, err |-> "None"]

start_write(m, out) == [m EXCEPT !.stage = "Writing", !.out = out]
start_read(m) ==
  [m EXCEPT !.stage = "Reading", !.buf = <<>>, !.packets = 0, !.bytes = 0]
Failed(m, e) == [m EXCEPT !.stage = "Failed", !.err = e]

\* Mutant: packets may be small on average.
check_incoming_packet_size_slow(m) == m.bytes > MaxBytes \/ m.packets > MaxPackets

\* AttackCheck: TRUE iff the packet just counted is refused.
check_incoming_packet_size(m) ==
  \/ m.bytes > MaxBytes
  \/ m.packets > MaxPackets
  \/ m.packets > MinPacketCheckThreshold /\ m.packets * MinPacketSize > m.bytes

\* ReadBuffer::read_from, and the counters of AttackCheck.
read_from(m, packet) ==
  [m EXCEPT !.buf = @ \o packet, !.packets = @ + 1, !.bytes = @ + Len(packet)]

\* Mutant: what came with the head is thrown away.
into_tail_empty(m, size) == [m EXCEPT !.buf = <<>>]

\* Mutant: the head is left in front of the tail.
into_tail_whole(m, size) == m

\* buf.advance(size), then ReadBuffer::into_vec.
into_tail(m, size) == [m EXCEPT !.buf = SubSeq(@, size + 1, Len(@))]

\* Mutant: the last byte of the head is not waited for.
Complete_short(m, h) == h.kind # "none" /\ Len(m.buf) >= h.len - 1

\* TryParse::try_parse on the peer's head: is it all there?
Complete(m, h) == h.kind # "none" /\ Len(m.buf) >= h.len

Ended(r) == hs[r].stage \in {"Done", "Failed", "Foreign"}

-----------------------------------------------------------------------------
(* The roles *)

\* The server's answer to a request: the error, or the settings and the head.
Refusal(e) == [err |-> e, deflate |-> {}, head |-> NoHead]

\* A callback cannot select permessage-deflate, nor anything next to it.
ServerExtensions(deflate, accepted, cb) ==
  IF IF deflate # {} THEN cb.extensions # <<>> ELSE headers_select_deflate(cb.extensions) # "No"
    THEN Refusal("InvalidHeader")
  ELSE [err |-> "None", deflate |-> {a.agreed : a \in accepted},
        extensions |-> IF accepted = {} THEN cb.extensions
                       ELSE Field((CHOOSE a \in accepted : TRUE).answer)]

\* The callback's response, with the extensions `x`.
CallbackResponse(request, cb, x) ==
  Response(ResponseLen, cb.faults,
           IF cb.keeps_accept THEN derive_accept_key(request.key) ELSE <<>>,
           cb.protocols, x)

\* The callback let the request pass; its status and headers are written as they are.
Switch(x, request, cb) ==
  IF x.err # "None" THEN x
  ELSE IF ~cb.ascii THEN Refusal("Utf8")
  ELSE [err |-> "None", deflate |-> x.deflate,
        head |-> CallbackResponse(request, cb, x.extensions)]

\* The callback rejected the request.  Only a 2xx is refused: a 101 is written.
Reject(deflate, request, cb) ==
  IF cb.successful THEN Refusal("CustomResponseSuccessful")
  ELSE IF ~cb.ascii THEN Refusal("Utf8")
  ELSE [err |-> "None", deflate |-> deflate,
        head |-> CallbackResponse(request, cb, cb.extensions)]

ServerAnswer(deflate, request, cb) ==
  IF cb.rejects THEN Reject(deflate, request, cb)
  ELSE Switch(ServerExtensions(deflate, accept_deflate_offers(deflate, request.extensions), cb),
              request, cb)

\* The first thing that is wrong; the callback is not asked before the request
\* is known to be in order.
ServerFault(m, request, answer) ==
  IF FirstFault(ParseChecks, request.faults) # "None"
    THEN FirstFault(ParseChecks, request.faults)
  ELSE IF m.buf # <<>> THEN "JunkAfterRequest"
  ELSE IF FirstFault(RequestChecks, request.faults) # "None"
    THEN FirstFault(RequestChecks, request.faults)
  ELSE answer.err

Answered(m, cb, fault, answer) ==
  IF fault # "None" THEN [m |-> Failed(m, fault), head |-> NoHead]
  ELSE [m |-> [start_write(m, answer.head.len + (IF cb.rejects THEN cb.body ELSE 0))
                 EXCEPT !.deflate = answer.deflate, !.rejected = cb.rejects],
        head |-> answer.head]

\* The DoneReading arm of ServerHandshake::stage_finished.
ServerDoneReading(m, request, cb, answer) ==
  Answered(m, cb, ServerFault(m, request, answer), answer)

\* The DoneReading arm of ClientHandshake::stage_finished, with the outcome `x`
\* of the extensions.
ClientFault(request, response, x) ==
  IF FirstFault(ParseChecks, response.faults) # "None"
    THEN FirstFault(ParseChecks, response.faults)
  ELSE IF verify_response(request, response) # "None" THEN verify_response(request, response)
  ELSE x.err

ClientSettles(m, fault, x) ==
  IF fault # "None" THEN Failed(m, fault) ELSE [m EXCEPT !.stage = "Done", !.deflate = x.deflate]

ClientDoneReading(m, request, response, x) ==
  ClientSettles(m, ClientFault(request, response, x), x)

\* Mutant: a rejected connection is handed to the application.
DoneWriting_rejected(r, m) ==
  IF r = "Client" THEN start_read(m) ELSE [m EXCEPT !.stage = "Done"]

\* The DoneWriting arms.
DoneWriting(r, m) ==
  CASE r = "Client" -> start_read(m)
    [] r = "Server" /\ m.rejected -> Failed(m, "Http")
    [] OTHER -> [m EXCEPT !.stage = "Done"]

-----------------------------------------------------------------------------
(* Actions *)

\* The machine of r becomes m; a machine that fails drops its stream.
Becomes(r, m) ==
  /\ hs' = [hs EXCEPT ![r] = m]
  /\ closed' = [closed EXCEPT ![r] = @ \/ m.stage = "Failed"]

Heads(r) ==
  CASE r = "Client" -> ForeignRequests [] r = "Server" -> ForeignResponses
    [] OTHER -> {NoHead}

\* Both roles of this library, or one of them and a foreign peer.
Init ==
  \E foreign \in {"nobody", "Client", "Server"} : \E h \in Heads(foreign) :
    /\ config \in [Role -> ClientConfigs \cup ServerConfigs]
    /\ config["Client"] \in (IF foreign = "Client" THEN {{}} ELSE ClientConfigs)
    /\ config["Server"] \in (IF foreign = "Server" THEN {{}} ELSE ServerConfigs)
    /\ hs = [r \in Role |->
               Machine(IF r = foreign THEN "Foreign"
                       ELSE IF r = "Client" THEN "Start" ELSE "Reading", 0, config[r])]
    /\ head = [r \in Role |-> IF r = foreign THEN h ELSE NoHead]
    /\ wire = [r \in Role |-> <<>>]
    /\ sent = [r \in Role |-> 0]
    /\ closed = [r \in Role |-> FALSE]

\* ClientHandshake::start.
Start ==
  /\ hs["Client"].stage = "Start"
  /\ \E q \in Requests :
       LET deflate == hs["Client"].deflate
           clash == IF deflate # {} /\ q.extensions # <<>>
                      THEN {"ExtensionsAlreadyPresent"} ELSE {}
           e == FirstFault(StartChecks, q.faults \cup clash)
           offers == IF deflate = {} THEN q.extensions
                     ELSE Field(offer(CHOOSE s \in deflate : TRUE))
       IN  /\ Becomes("Client", IF e = "None" THEN start_write(hs["Client"], q.len)
                                ELSE Failed(hs["Client"], e))
           /\ head' = [head EXCEPT !["Client"] = [q EXCEPT !.extensions = offers]]
  /\ UNCHANGED <<wire, sent, config>>

\* r reads the first n bytes in flight.
Receive(r, n) == read_from(hs[r], SubSeq(wire[Peer(r)], 1, n))
Consume(r, n) == wire' = [wire EXCEPT ![Peer(r)] = SubSeq(@, n + 1, Len(@))]
PacketSizes(r) == {n \in 1..ChunkSize : n <= Len(wire[Peer(r)])}

\* A round of Reading that does not finish the stage.
ReadRound(r) ==
  /\ hs[r].stage = "Reading"
  /\ \E n \in PacketSizes(r) :
       LET m == Receive(r, n)
           h == head[Peer(r)]
       IN  /\ \/ /\ check_incoming_packet_size(m)
                 /\ Becomes(r, Failed(m, "AttackAttempt"))
              \/ /\ ~check_incoming_packet_size(m) /\ ~Complete(m, h)
                 /\ Becomes(r, m)
              \/ /\ ~check_incoming_packet_size(m) /\ ~Complete(m, h)
                 /\ "Malformed" \in h.faults
                 /\ Becomes(r, Failed(m, "Malformed"))
           /\ Consume(r, n)
  /\ UNCHANGED <<sent, head, config>>

\* A round of Reading that finishes the request.
ServerReads ==
  /\ hs["Server"].stage = "Reading"
  /\ \E n \in PacketSizes("Server"), cb \in Callbacks :
       LET m == Receive("Server", n)
           h == head["Client"]
       IN  /\ ~check_incoming_packet_size(m) /\ Complete(m, h)
           /\ \E done \in {ServerDoneReading(into_tail(m, h.len), h, cb,
                                            ServerAnswer(m.deflate, h, cb))} :
                /\ Becomes("Server", done.m)
                /\ head' = [head EXCEPT !["Server"] = done.head]
           /\ Consume("Server", n)
  /\ UNCHANGED <<sent, config>>

\* A round of Reading that finishes the response.
ClientReads ==
  /\ hs["Client"].stage = "Reading"
  /\ \E n \in PacketSizes("Client") :
       LET m == Receive("Client", n)
           h == head["Server"]
       IN  /\ ~check_incoming_packet_size(m) /\ Complete(m, h)
           /\ Becomes("Client",
                      ClientDoneReading(into_tail(m, h.len), head["Client"], h,
                                        verify_deflate_response(m.deflate, h.extensions)))
           /\ Consume("Client", n)
  /\ UNCHANGED <<sent, head, config>>

\* Mutant: the end of the stream passes for a read that would block.
ReadEof_ignored(r) ==
  hs[r].stage = "Reading" /\ wire[Peer(r)] = <<>> /\ closed[Peer(r)] /\ UNCHANGED vars

\* The peer has closed its stream and everything is read.
ReadEof(r) ==
  /\ hs[r].stage = "Reading" /\ wire[Peer(r)] = <<>> /\ closed[Peer(r)]
  /\ Becomes(r, Failed(hs[r], "HandshakeIncomplete"))
  /\ UNCHANGED <<wire, sent, head, config>>

\* Bytes n of them, next in r's stream.
Send(r, n) ==
  /\ wire' = [wire EXCEPT ![r] = @ \o [i \in 1..n |-> sent[r] + i]]
  /\ sent' = [sent EXCEPT ![r] = @ + n]

Written(m, n) ==
  [m EXCEPT !.out = @ - n, !.stage = IF m.out = n THEN "Flushing" ELSE @]

\* A round of Writing; a stream that accepts no byte makes it panic.
WriteRound(r) ==
  /\ hs[r].stage = "Writing"
  /\ \E n \in 1..hs[r].out : Becomes(r, Written(hs[r], n)) /\ Send(r, n)
  /\ UNCHANGED <<head, config>>

\* A round of Flushing.
FlushRound(r) ==
  /\ hs[r].stage = "Flushing"
  /\ Becomes(r, DoneWriting(r, hs[r]))
  /\ UNCHANGED <<wire, sent, head, config>>

\* The stream fails, accepts no byte (which is a panic), or the application
\* drops the handshake while it is interrupted.
Breaks(r) ==
  /\ StreamFails
  /\ hs[r].stage \in {"Reading", "Writing", "Flushing"}
  /\ \E e \in {"Io", "Dropped"} \cup (IF hs[r].stage = "Writing" THEN {"Panic"} ELSE {}) :
       Becomes(r, Failed(hs[r], e))
  /\ UNCHANGED <<wire, sent, head, config>>

\* The application uses its new WebSocket.
AppSends(r) ==
  /\ hs[r].stage = "Done" /\ sent[r] < head[r].len + MaxRest
  /\ Send(r, 1)
  /\ UNCHANGED <<hs, head, closed, config>>

\* A foreign peer sends the next byte of its head or something behind it, and
\* closes when it likes.
ForeignSends(r) ==
  /\ hs[r].stage = "Foreign" /\ ~closed[r]
  /\ sent[r] < head[r].len + MaxRest /\ Len(wire[r]) < MaxFlight
  /\ Send(r, 1)
  /\ UNCHANGED <<hs, head, closed, config>>

ForeignCloses(r) ==
  /\ hs[r].stage = "Foreign" /\ ~closed[r]
  /\ closed' = [closed EXCEPT ![r] = TRUE]
  /\ UNCHANGED <<hs, wire, sent, head, config>>

\* Nothing is left to do.
Finished == (\A r \in Role : Ended(r)) /\ UNCHANGED vars

\* The rounds of one machine.
Round(r) ==
  \/ r = "Client" /\ (Start \/ ClientReads)
  \/ r = "Server" /\ ServerReads
  \/ ReadRound(r) \/ ReadEof(r) \/ WriteRound(r) \/ FlushRound(r)

Next ==
  \/ \E r \in Role : Round(r) \/ Breaks(r) \/ AppSends(r)
  \/ \E r \in Role : ForeignSends(r) \/ ForeignCloses(r)
  \/ Finished

Spec == Init /\ [][Next]_vars

\* handshake() is called until it ends, over streams that do not block for ever;
\* a foreign peer sends on or closes.
Fairness ==
  \A r \in Role : WF_vars(Round(r)) /\ WF_vars(ForeignSends(r) \/ ForeignCloses(r))

FairSpec == Spec /\ Fairness

-----------------------------------------------------------------------------
(* Properties *)

Byte == Nat \ {0}
Stage == {"Start", "Writing", "Flushing", "Reading", "Done", "Failed", "Foreign"}
Failure ==
  {"None", "AttackAttempt", "HandshakeIncomplete", "JunkAfterRequest", "InvalidHeader",
   "Utf8", "CustomResponseSuccessful", "Io", "Dropped", "Panic"}
    \cup {StartChecks[i] : i \in DOMAIN StartChecks}
    \cup {ParseChecks[i] : i \in DOMAIN ParseChecks}
    \cup {RequestChecks[i] : i \in DOMAIN RequestChecks}
    \cup {ResponseChecks[i] : i \in DOMAIN ResponseChecks}

\* The type of the state (HandshakeState, AttackCheck and the roles' fields).
TypeOK ==
  /\ hs \in [Role -> [stage : Stage, out : Nat, buf : Seq(Byte), packets : Nat,
                      bytes : Nat, deflate : SUBSET Settings, rejected : BOOLEAN,
                      err : Failure]]
  /\ wire \in [Role -> Seq(Byte)]
  /\ sent \in [Role -> Nat]
  /\ closed \in [Role -> BOOLEAN]
  /\ DOMAIN head = Role /\ \A r \in Role : head[r].len \in Nat

\* r has taken the peer's head out of its buffer.
HasParsed(r) ==
  \/ hs[r].stage = "Done" \/ hs[r].err = "Http"
  \/ r = "Server" /\ hs[r].stage \in {"Writing", "Flushing"}

\* No byte is lost, repeated or reordered between the handshake and the
\* WebSocket, however the stream cuts request, response and first frames into
\* packets: what r has not consumed is exactly what the peer sent, behind its
\* head once that is parsed.  The tail of ClientHandshake is part of it, as the
\* start of the frames or as the body of Error::Http.
NothingLost ==
  \A r \in Role : (hs[r].stage # "Failed" \/ hs[r].err = "Http") =>
    LET skip == IF HasParsed(r) THEN head[Peer(r)].len ELSE 0
    IN  hs[r].buf \o wire[Peer(r)] = [i \in 1..(sent[Peer(r)] - skip) |-> skip + i]

\* A client of this library gets a WebSocket only from a server that has written its
\* whole response to let it pass, except from one whose callback rejected it with a
\* response that says 101, which is written as it is.
SwitchTogether ==
  hs["Client"].stage = "Done" /\ hs["Server"].stage # "Foreign" =>
    \/ /\ ~hs["Server"].rejected /\ hs["Server"].out = 0
       /\ hs["Server"].stage \in {"Flushing", "Done", "Failed"}
    \/ hs["Server"].rejected /\ "Http" \notin head["Server"].faults

\* The client never sends before the response, so stage_finished never meets
\* JunkAfterRequest from a client of this library.
NoJunk ==
  hs["Client"].stage # "Foreign" => hs["Server"].err # "JunkAfterRequest"

\* A peer cannot make the machine collect more than AttackCheck allows, in any
\* number of packets, nor go on for long with small ones: a head beyond MaxBytes is
\* never parsed.
HeadBounded ==
  \A r \in Role :
    /\ hs[r].stage = "Reading" =>
         /\ Len(hs[r].buf) <= MaxBytes /\ hs[r].packets <= MaxPackets
         /\ hs[r].packets > MinPacketCheckThreshold =>
              hs[r].packets * MinPacketSize <= Len(hs[r].buf)
    /\ HasParsed(r) => head[Peer(r)].len <= MaxBytes

\* A server that rejected a request never hands out a WebSocket for it: the
\* error is reported once the rejection is flushed (error_response).
RejectedIsNotServed == hs["Server"].rejected => hs["Server"].stage # "Done"

\* Two endpoints of this library agree whether to compress, and each inflates
\* whatever the other's encoder can produce; a server that rejected the client has
\* no codec at all.
CodecsAgree ==
  hs["Client"].stage = "Done" /\ hs["Server"].stage # "Foreign" /\ ~hs["Server"].rejected =>
    /\ (hs["Client"].deflate = {}) <=> (hs["Server"].deflate = {})
    /\ \A s \in hs["Client"].deflate, t \in hs["Server"].deflate :
         LET c == Codec("Client", s)
             d == Codec("Server", t)
         IN  Buildable(c) /\ Buildable(d) /\ Decodes(c, d) /\ Decodes(d, c)

\* An answer keeps to an offer of the request: what the client demanded is
\* granted and no window is put on a client that did not offer one.
Fits(o, a) ==
  /\ o.server_no_context_takeover => a.server_no_context_takeover
  /\ o.server_max_window_bits # Absent =>
       a.server_max_window_bits # Absent
         /\ a.server_max_window_bits <= o.server_max_window_bits
  /\ a.client_max_window_bits # Absent => o.client_max_window_bits # Absent

\* What the server installs (accept_deflate_offers) is what its 101 says, to
\* any client: nothing selected and no codec, or one selection that fits an
\* offer, with a codec that works with every codec it allows the client.
AnswerMatchesCodec ==
  LET m == hs["Server"]
      field == head["Server"].extensions
      request == head["Client"].extensions
  IN  m.stage \in {"Writing", "Flushing", "Done"} /\ ~m.rejected =>
        IF m.deflate = {} THEN headers_select_deflate(field) = "No"
        ELSE LET a == Params(At(field, <<1, 1>>).params)
             IN  /\ \E p \in Places(request) :
                      /\ parse(At(request, p)) = "Deflate"
                      /\ Fits(Params(At(request, p).params), a)
                 /\ \A s \in m.deflate :
                      /\ Buildable(Codec("Server", s))
                      /\ Decodes(WidestCodec("Client", a), Codec("Server", s))
                      /\ Decodes(Codec("Server", s), WidestCodec("Client", a))

\* What the client installs (accept_response) is what the server's 101 selects,
\* whoever the server is: no codec if nothing is selected, otherwise one within
\* the configured limits that works with every codec the selection leaves to the server.
SelectionMatchesCodec ==
  LET m == hs["Client"]
      field == head["Server"].extensions
      chosen == {p \in Places(field) : parse(At(field, p)) = "Deflate"}
  IN  m.stage = "Done" =>
        IF m.deflate = {} THEN headers_select_deflate(field) = "No"
        ELSE /\ config["Client"] # {}
             /\ \E p \in chosen : \A s \in m.deflate :
                  LET w == WidestCodec("Server", Params(At(field, p).params))
                  IN  /\ chosen = {p}
                      /\ \A c \in config["Client"] :
                           /\ c.server_no_context_takeover => s.server_no_context_takeover
                           /\ s.server_max_window_bits <= c.server_max_window_bits
                           /\ s.client_max_window_bits <= c.client_max_window_bits
                      /\ Buildable(Codec("Client", s))
                      /\ Decodes(Codec("Client", s), w) /\ Decodes(w, Codec("Client", s))

\* A client accepts whatever a server of this library answers to its offer, for
\* all configurations of the two, unless the server's callback rejected it or added
\* a header.
HonestPeersSucceed ==
  LET field == head["Server"].extensions
  IN  /\ hs["Client"].err = "InvalidHeader"
      /\ hs["Server"].stage # "Foreign" /\ ~hs["Server"].rejected
      => \E p \in Places(field) : parse(At(field, p)) = "Other"

\* The handshake ends for both: no stage waits for ever for a peer that goes on,
\* and AttackCheck ends the reading of a head that never does.
Terminates == <>(\A r \in Role : Ended(r))

=============================================================================
