------------------------------ MODULE Connect ------------------------------
(***************************************************************************)
(* How a client gets the stream it shakes hands on: connect_with_config of *)
(* src/src/client.rs with its redirects, and client_tls_with_config of     *)
(* src/src/tls.rs on a stream of the caller.  The handshake itself is the  *)
(* module Handshake; here it ends in one of its results.                   *)
(*                                                                         *)
(* Names, addresses and ports are whatever the caller, the resolver and    *)
(* the servers say; the code decides which of them are used.               *)
(***************************************************************************)
EXTENDS Naturals, Sequences

CONSTANTS
  Hosts,      \* the host names and literals that occur in URLs
  Ports,      \* the ports that are given in URLs
  Uris,       \* the URLs of requests and Location headers
  AddrLists,  \* what the resolver may answer: sequences of addresses
  Limits,     \* the values of max_redirects
  Builds,     \* the sets of TLS features the crate may be built with
  Literals    \* the hosts that are bracketed IPv6 literals

\* A scheme or a port that is not given is "none".  A URL without an authority
\* has no host; behind "user@" the host may be empty.
Host == Hosts \cup {"none", ""}
Uri == [scheme : {"ws", "wss", "other", "none"}, host : Host, port : Ports \cup {"none"}]

ASSUME ConnectAssumption ==
         /\ Uris \subseteq Uri /\ AddrLists \subseteq Seq(Nat) /\ Limits \subseteq 0..255
         /\ Builds \subseteq SUBSET {"native-tls", "rustls"}

\* What a call is given: a text, a Uri, a builder with headers, a finished request
\* or one of httparse; `fault` is the error in its text, method or headers.
Source ==
  [kind : {"text", "uri", "builder", "request", "httparse"}, uri : Uris,
   fault : {"None", "HttpFormat", "Protocol"}]
Connector == {"None", "Plain", "NativeTls", "Rustls"}
Call == [entry : {"connect", "client_tls"}, source : Source, limit : Limits,
         build : Builds, connector : Connector]

\* Error, flattened, with "Ok" for a connected WebSocket, "Redirect" for an
\* Http error with that status and "None" for a call that has not returned.
Url == {"NoHostName", "EmptyHostName", "UnsupportedUrlScheme", "TlsFeatureNotEnabled",
        "UnableToConnect"}
Result ==
  Url \cup {"None", "Ok", "Io", "Utf8", "HttpFormat", "Protocol", "Tls", "InvalidDnsName", "Panic",
            "Failure", "Http", "Redirect", "Interrupted", "Unreachable"}

VARIABLES
  call,     \* the call and its arguments
  pc,       \* where it is
  uri,      \* the current URL
  attempt,  \* the loop variable: redirects followed
  addrs,    \* the addresses of the current host
  next,     \* the index of the address to try next
  refused,  \* history: the addresses that did not accept
  stream,   \* the stream, or NoStream
  result    \* what the call returned, or "None"

vars == <<call, pc, uri, attempt, addrs, next, refused, stream, result>>

Stream ==
  [addr : Nat, host : Host, port : Ports \cup {"none", "80", "443"},
   tls : {"none", "tcp", "Plain", "NativeTls", "Rustls"}, domain : Host]
NoStream == [addr |-> 0, host |-> "none", port |-> "none", tls |-> "none", domain |-> "none"]

\* A connector can be named only if the crate was built with it.
Offered(build) ==
  {"None", "Plain"} \cup (IF "native-tls" \in build THEN {"NativeTls"} ELSE {})
                    \cup (IF "rustls" \in build THEN {"Rustls"} ELSE {})

\* connect_with_config has no connector, client_tls_with_config no limit, and it
\* exists only in a build with TLS.
Callable(c) ==
  /\ c.connector \in (IF c.entry = "connect" THEN {"None"} ELSE Offered(c.build))
  /\ c.entry = "client_tls" => c.build # {}
  /\ c.source.kind \in {"uri", "request"} => c.source.fault = "None"
  /\ c.source.kind \in {"text", "builder"} => c.source.fault # "Protocol"

\* The stream a caller of client_tls_with_config brings along.
OwnStream == [NoStream EXCEPT !.tls = "tcp"]

Init ==
  /\ call \in {c \in Call : Callable(c)}
  /\ pc = "begin" /\ uri = call.source.uri /\ attempt = 0
  /\ addrs = <<>> /\ next = 1 /\ refused = {}
  /\ stream = IF call.entry = "connect" THEN NoStream ELSE OwnStream
  /\ result = "None"

-----------------------------------------------------------------------------
(* Requests and URLs *)

\* IntoClientRequest: the error, or "None".
Uri_into_client_request(u) ==
  IF u.host = "none" THEN "NoHostName" ELSE IF u.host = "" THEN "EmptyHostName" ELSE "None"

\* The URL comes before the headers.
builder_into_client_request(s) ==
  IF Uri_into_client_request(s.uri) # "None" THEN Uri_into_client_request(s.uri) ELSE s.fault

\* A finished request is passed as it is, without a look at its URL.
into_client_request(s) ==
  CASE s.kind = "request" -> "None"
    [] s.kind = "httparse" \/ (s.kind = "text" /\ s.fault # "None") -> s.fault
    [] s.kind = "builder" -> builder_into_client_request(s)
    [] OTHER -> Uri_into_client_request(s.uri)

uri_mode(u) ==
  CASE u.scheme = "ws" -> "Plain" [] u.scheme = "wss" -> "Tls" [] OTHER -> "Unsupported"

Port(u) ==
  IF u.port # "none" THEN u.port ELSE IF uri_mode(u) = "Plain" THEN "80" ELSE "443"

\* What try_client_handshake refuses before it looks a host up; the first case is
\* the unreachable!() behind the loop.
Unusable(u) ==
  CASE attempt > call.limit -> "Unreachable"
    [] attempt <= call.limit /\ uri_mode(u) = "Unsupported" -> "UnsupportedUrlScheme"
    [] OTHER -> IF uri_mode(u) = "Tls" /\ call.build = {} THEN "TlsFeatureNotEnabled"
                ELSE IF u.host = "none" THEN "NoHostName" ELSE "None"

-----------------------------------------------------------------------------
(* TLS *)

Wrapped(tls, domain) ==
  [err |-> "None", stream |-> [stream EXCEPT !.tls = tls, !.domain = domain]]
WrapFails(e) == [err |-> e, stream |-> stream]

\* The connector that is used, the build's default if none was passed.
Chosen(c) ==
  IF c.connector # "None" THEN c.connector
  ELSE IF "native-tls" \in c.build THEN "NativeTls" ELSE "Rustls"

\* native_tls::wrap_stream.  The TLS handshake is done at once: a stream of the
\* caller that blocks makes it panic.
WrapNative(u) ==
  {Wrapped("NativeTls", u.host), WrapFails("Tls")}
    \cup (IF call.entry = "client_tls" THEN {WrapFails("Panic")} ELSE {})

\* rustls::wrap_stream.  Without a configuration of the caller the roots may be
\* missing; a bracketed literal is not a server name.
WrapRustls(u) ==
  (IF call.connector = "None" THEN {WrapFails("Io")} ELSE {})
    \cup (IF u.host \in Literals
            THEN {WrapFails("InvalidDnsName")}
            ELSE {Wrapped("Rustls", u.host), WrapFails("Tls")})

\* Mutant: only the URL of the request decides about TLS.
wrap_stream_original(u) ==
  IF uri_mode(call.source.uri) = "Plain" THEN {Wrapped("Plain", "none")}
  ELSE CASE Chosen(call) = "Plain" -> {WrapFails("TlsFeatureNotEnabled")}
         [] Chosen(call) = "NativeTls" -> WrapNative(u)
         [] OTHER -> WrapRustls(u)

wrap_stream(u) ==
  IF uri_mode(u) = "Plain" THEN {Wrapped("Plain", "none")}
  ELSE CASE Chosen(call) = "Plain" -> {WrapFails("TlsFeatureNotEnabled")}
         [] Chosen(call) = "NativeTls" -> WrapNative(u)
         [] OTHER -> WrapRustls(u)

\* client_tls_with_config up to the handshake.
client_tls_with_config(u) ==
  IF u.host = "none" THEN {WrapFails("NoHostName")}
  ELSE IF uri_mode(u) = "Unsupported" THEN {WrapFails("UnsupportedUrlScheme")}
  ELSE wrap_stream(u)

-----------------------------------------------------------------------------
(* The calls *)

Return(r) ==
  /\ result' = r /\ pc' = "done"
  /\ UNCHANGED <<call, uri, attempt, addrs, next, refused>>

Goto(label) == pc' = label /\ UNCHANGED <<call, result>>

Begin ==
  /\ pc = "begin"
  /\ IF into_client_request(call.source) # "None"
       THEN Return(into_client_request(call.source)) /\ UNCHANGED stream
       ELSE /\ Goto(IF call.entry = "connect" THEN "attempt" ELSE "wrap")
            /\ UNCHANGED <<uri, attempt, addrs, next, refused, stream>>

\* The head of try_client_handshake, down to the addresses of the host.
Attempt ==
  /\ pc = "attempt"
  /\ UNCHANGED stream
  /\ IF Unusable(uri) # "None"
       THEN Return(Unusable(uri))
       ELSE \/ Return("Io")
            \/ /\ addrs' \in AddrLists /\ next' = 1 /\ refused' = {}
               /\ Goto("connect")
               /\ UNCHANGED <<uri, attempt>>

\* connect_to_some: the next address does not accept ...
Refuse ==
  /\ pc = "connect" /\ next <= Len(addrs)
  /\ refused' = refused \cup {addrs[next]} /\ next' = next + 1
  /\ Goto("connect")
  /\ UNCHANGED <<uri, attempt, addrs, stream>>

\* ... or does, ...
Accept ==
  /\ pc = "connect" /\ next <= Len(addrs)
  /\ stream' = [addr |-> addrs[next], host |-> uri.host, port |-> Port(uri),
                tls |-> "tcp", domain |-> "none"]
  /\ Goto("nodelay")
  /\ UNCHANGED <<uri, attempt, addrs, next, refused>>

\* Mutant: the last address is not tried.
Exhausted_early == next >= Len(addrs)

\* ... or there is none left.
Exhausted == next > Len(addrs)

GiveUp ==
  /\ pc = "connect" /\ Exhausted
  /\ Return("UnableToConnect") /\ UNCHANGED stream

SetNoDelay ==
  /\ pc = "nodelay"
  /\ UNCHANGED stream
  /\ \/ Return("Io")
     \/ Goto("wrap") /\ UNCHANGED <<uri, attempt, addrs, next, refused>>

\* Without a TLS feature connect_with_config takes the stream as it is.
Wrap ==
  /\ pc = "wrap"
  /\ \E w \in IF call.entry = "connect" /\ call.build = {}
                THEN {Wrapped("Plain", "none")} ELSE client_tls_with_config(uri) :
       /\ stream' = w.stream
       /\ IF w.err # "None"
            THEN Return(w.err)
            ELSE /\ Goto("handshake")
                 /\ UNCHANGED <<uri, attempt, addrs, next, refused>>

\* The handshake succeeds, fails, is answered with another status than 101, or
\* is interrupted on a stream of the caller that blocks.
HandshakeEnds ==
  /\ pc = "handshake"
  /\ \E r \in {"Ok", "Failure", "Http"}
                \cup (IF call.entry = "client_tls" THEN {"Interrupted"} ELSE {}) :
       Return(r)
  /\ UNCHANGED stream

\* Mutant: one redirect too many.
MayFollow_again == call.entry = "connect" /\ attempt <= call.limit

MayFollow == call.entry = "connect" /\ attempt < call.limit

\* Mutant: redirects are not counted.
Redirected_uncounted ==
  /\ pc = "handshake"
  /\ IF MayFollow
       THEN /\ uri' \in Uris /\ stream' = NoStream /\ Goto("attempt")
            /\ UNCHANGED <<attempt, addrs, next, refused>>
       ELSE Return("Redirect") /\ UNCHANGED stream

\* The other status is a redirection: a Location that is missing ends the call
\* with the response, one that is not text or not a URL with an error.
Redirected ==
  /\ pc = "handshake"
  /\ IF MayFollow
       THEN \/ /\ \E r \in {"Redirect", "Utf8", "HttpFormat"} : Return(r)
               /\ UNCHANGED stream
            \/ /\ uri' \in Uris /\ attempt' = attempt + 1 /\ stream' = NoStream
               /\ Goto("attempt")
               /\ UNCHANGED <<addrs, next, refused>>
       ELSE Return("Redirect") /\ UNCHANGED stream

Done == pc = "done" /\ UNCHANGED vars

Next ==
  \/ Begin \/ Attempt \/ Refuse \/ Accept \/ GiveUp \/ SetNoDelay \/ Wrap
  \/ HandshakeEnds \/ Redirected \/ Done

\* Every call of the system library returns.
Spec == Init /\ [][Next]_vars /\ WF_vars(Next)

-----------------------------------------------------------------------------
(* Properties *)

TypeOK ==
  /\ call \in Call
  /\ pc \in {"begin", "attempt", "connect", "nodelay", "wrap", "handshake", "done"}
  /\ uri \in Uris /\ attempt \in Nat /\ next \in Nat \ {0}
  /\ addrs \in Seq(Nat) /\ refused \subseteq Nat /\ stream \in Stream /\ result \in Result

\* Whatever was redirected where, the handshake is made on a stream to the host
\* and port of the current URL, under TLS for that host if and only if its scheme
\* is wss (try_client_handshake, wrap_stream).
StreamFitsUri ==
  /\ call.entry = "connect" /\ stream # NoStream =>
       stream.host = uri.host /\ stream.port = Port(uri)
  /\ pc = "handshake" \/ result = "Ok" =>
       /\ uri.scheme \in {"ws", "wss"}
       /\ stream.tls # "Plain" <=> uri.scheme = "wss"
       /\ stream.tls # "Plain" => stream.domain = uri.host

\* However the servers redirect, at most max_redirects redirects are followed, and
\* the loop never runs into the unreachable!() behind it.
RedirectsBounded ==
  /\ attempt <= call.limit
  /\ result # "Unreachable"

\* connect_to_some uses the first address that accepts, and reports that it is
\* unable to connect only when each address of the current host was refused.
AddressesInOrder ==
  /\ call.entry = "connect" /\ pc \in {"nodelay", "wrap", "handshake"} =>
       /\ next <= Len(addrs) /\ stream.addr = addrs[next]
       /\ \A i \in 1..(next - 1) : addrs[i] \in refused
  /\ result = "UnableToConnect" => \A i \in 1..Len(addrs) : addrs[i] \in refused

\* The call comes to an end, however often it is refused and redirected.
Finishes == <>(pc = "done")

-----------------------------------------------------------------------------
(* The inductive invariant *)

Dialling == {"attempt", "connect", "nodelay"}

\* Only connect_with_config dials; it has no stream before an address accepts.
StreamWhenOpen ==
  /\ pc \in Dialling => call.entry = "connect"
  /\ pc \in {"begin", "attempt", "connect"} /\ call.entry = "connect" => stream = NoStream
  /\ pc \in {"nodelay", "wrap"} \/ (pc = "begin" /\ call.entry = "client_tls") =>
       stream.tls = "tcp"

\* Past the head of an attempt the URL is usable.
UsableUri ==
  pc \in {"connect", "nodelay", "wrap"} /\ call.entry = "connect" =>
    uri_mode(uri) \in (IF call.build = {} THEN {"Plain"} ELSE {"Plain", "Tls"})

\* The addresses before the next one were refused.
TriedInOrder ==
  call.entry = "connect" /\ pc \in {"connect", "nodelay", "wrap", "handshake"} =>
    /\ next <= Len(addrs) + 1
    /\ \A i \in 1..(next - 1) : addrs[i] \in refused

ResultWhenDone == result # "None" => pc = "done"

IInv ==
  /\ TypeOK /\ StreamFitsUri /\ RedirectsBounded /\ AddressesInOrder
  /\ StreamWhenOpen /\ UsableUri /\ TriedInOrder /\ ResultWhenDone

=============================================================================
