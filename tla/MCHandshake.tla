----------------------------- MODULE MCHandshake -----------------------------
(***************************************************************************)
(* Requests, responses, callbacks and configurations of Handshake for TLC. *)
(***************************************************************************)
EXTENDS Handshake

Set(server_no, client_no, server_bits, client_bits) ==
  [server_no_context_takeover |-> server_no, client_no_context_takeover |-> client_no,
   server_max_window_bits |-> server_bits, client_max_window_bits |-> client_bits]

TwoConfigs == {{}, {Set(FALSE, TRUE, 15, 12)}}

\* Every combination of the flags and of three windows.
SomeBits == {9, 12, 15}
AllConfigs ==
  {{}} \cup {{Set(a, b, s, c)} : a \in BOOLEAN, b \in BOOLEAN, s \in SomeBits, c \in SomeBits}

GoodRequest == Request(RequestLen, {}, "key", {}, <<>>)

AppRequests ==
  {GoodRequest, [GoodRequest EXCEPT !.protocols = {"chat", "mqtt"}],
   [GoodRequest EXCEPT !.extensions = Field(OtherExtension)],
   [GoodRequest EXCEPT !.faults = {"MissingHeader"}],
   [GoodRequest EXCEPT !.faults = {"MissingConnectionUpgradeHeader"}]}
HonestRequests == {GoodRequest, [GoodRequest EXCEPT !.extensions = Field(OtherExtension)]}

Callback(protocols, extensions) ==
  [rejects |-> FALSE, successful |-> FALSE, ascii |-> TRUE, body |-> 0,
   faults |-> {}, keeps_accept |-> TRUE, protocols |-> protocols, extensions |-> extensions]
NoCallback == Callback({}, <<>>)
\* An error response of its own, and the 101 it was given as an error.
Rejecting ==
  [NoCallback EXCEPT !.rejects = TRUE, !.body = 2, !.faults = {"Http"}, !.keeps_accept = FALSE]
Rejecting101 == [NoCallback EXCEPT !.rejects = TRUE, !.extensions = Field(Deflate(<<>>))]

AppCallbacks ==
  {NoCallback, Callback({"chat"}, <<>>), Callback({"foo"}, <<>>),
   Callback({}, Field(OtherExtension)), Callback({}, Field(Deflate(<<>>))),
   Rejecting, [Rejecting EXCEPT !.successful = TRUE], Rejecting101,
   [Rejecting101 EXCEPT !.extensions = <<>>],
   [NoCallback EXCEPT !.faults = {"Http"}], [NoCallback EXCEPT !.keeps_accept = FALSE],
   [NoCallback EXCEPT !.ascii = FALSE]}

\* A head that is too long, one that is not HTTP, one that lacks a header.
OddRequests ==
  {GoodRequest, [GoodRequest EXCEPT !.len = 7],
   [GoodRequest EXCEPT !.faults = {"Malformed"}],
   [GoodRequest EXCEPT !.faults = {"MissingSecWebSocketKey", "WrongHttpVersion"}]}
GoodResponse == Response(ResponseLen, {}, derive_accept_key("key"), {}, <<>>)
OddResponses ==
  {GoodResponse, [GoodResponse EXCEPT !.len = 7],
   [GoodResponse EXCEPT !.accept = derive_accept_key("other")],
   [GoodResponse EXCEPT !.faults = {"Http", "MissingUpgradeWebSocketHeader"}]}

\* Extensions a foreign peer names.
Windows(name, bits) == IF bits = Absent THEN <<>> ELSE <<Parameter(name, bits)>>
SomeDeflates ==
  {Deflate(Flag(a, "server_no_context_takeover") \o Flag(b, "client_no_context_takeover")
           \o Windows("server_max_window_bits", s) \o Windows("client_max_window_bits", c)) :
   a \in BOOLEAN, b \in BOOLEAN, s \in {Absent, 8, 12}, c \in {Absent, NoValue, 8, 14}}
OddDeflates ==
  {Deflate(<<Parameter("server_max_window_bits", 15),
             Parameter("server_max_window_bits", 10)>>),
   Deflate(<<Parameter("client_no_context_takeover", 1)>>),
   Deflate(<<Parameter("server_max_window_bits", NoValue)>>),
   Deflate(<<Parameter("unknown", NoValue)>>)}
FullOffer == Deflate(<<>>)

SomeFields ==
  {<<>>, <<UnsplittableValue>>, Field(OtherExtension), Field(NamelessExtension),
   <<HeaderValue(<<EmptyExtension, OtherExtension>>)>>,
   <<HeaderValue(<<FullOffer>>), UnsplittableValue>>,
   <<UnsplittableValue, HeaderValue(<<FullOffer>>)>>}
    \cup {Field(d) : d \in SomeDeflates \cup OddDeflates}
    \cup {<<HeaderValue(<<FullOffer, d>>)>> : d \in SomeDeflates}
    \cup {<<HeaderValue(<<d>>), HeaderValue(<<EmptyExtension, FullOffer>>)>> : d \in SomeDeflates}

OfferingRequests == {[GoodRequest EXCEPT !.extensions = f] : f \in SomeFields}
SelectingResponses == {[GoodResponse EXCEPT !.extensions = f] : f \in SomeFields}

=============================================================================
