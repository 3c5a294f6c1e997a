--------------------------- MODULE ConnectProofs ---------------------------
(* Proofs about Connect, for all URLs, answers of the resolver, limits and *)
(* sets of TLS features.                                                   *)
EXTENDS Connect, TLAPS

LEMMA LimitsAreNats == Limits \subseteq Nat
  <1>1. Limits \subseteq 0..255
    BY ConnectAssumption
  <1> QED BY <1>1

\* The errors a request or a URL can be refused with.
LEMMA Refusals ==
  ASSUME TypeOK
  PROVE  /\ into_client_request(call.source) \in Result \ {"Ok", "UnableToConnect", "Unreachable"}
         /\ attempt <= call.limit =>
              Unusable(uri) \in Result \ {"Ok", "UnableToConnect", "Unreachable"}
         /\ Port(uri) \in Ports \cup {"80", "443"}
  <1>1. uri \in Uri
    BY ConnectAssumption DEF TypeOK
  <1>2. attempt \in Nat /\ call.limit \in Nat
    BY LimitsAreNats DEF TypeOK, Call
  <1>3. into_client_request(call.source)
          \in {"None", "HttpFormat", "Protocol", "NoHostName", "EmptyHostName"}
    <2>1. call.source.fault \in {"None", "HttpFormat", "Protocol"}
      BY DEF TypeOK, Call, Source
    <2> QED BY <2>1 DEF into_client_request, builder_into_client_request,
              Uri_into_client_request
  <1>4. ASSUME attempt <= call.limit
        PROVE  Unusable(uri) \in {"None", "UnsupportedUrlScheme", "TlsFeatureNotEnabled", "NoHostName"}
    BY <1>2, <1>4 DEF Unusable
  <1>5. Port(uri) \in Ports \cup {"80", "443"}
    BY <1>1 DEF Port, Uri
  <1> QED BY <1>3, <1>4, <1>5 DEF Result, Url

\* The first state satisfies the invariant.
LEMMA InitIInv == Init => IInv
  <1> SUFFICES ASSUME Init PROVE IInv
    OBVIOUS
  <1>1. call \in Call /\ pc = "begin" /\ uri = call.source.uri /\ attempt = 0
        /\ addrs = <<>> /\ next = 1 /\ refused = {} /\ result = "None"
    BY DEF Init
  <1>2. call.source \in Source /\ call.limit \in Nat
    BY <1>1, LimitsAreNats DEF Call
  <1>3. /\ stream \in Stream
        /\ IF call.entry = "connect" THEN stream = NoStream ELSE stream.tls = "tcp"
    BY DEF Init, Stream, NoStream, OwnStream, Host
  <1>4. TypeOK
    BY <1>1, <1>2, <1>3 DEF TypeOK, Source, Result
  <1> QED BY <1>1, <1>2, <1>3, <1>4 DEF IInv, StreamFitsUri, RedirectsBounded, AddressesInOrder,
             StreamWhenOpen, UsableUri, TriedInOrder, ResultWhenDone, Dialling

\* Returning keeps the invariant if the result is true to the state it leaves.
LEMMA ReturnIInv ==
  ASSUME IInv, NEW r \in Result, Return(r), r # "None", r # "Unreachable",
         stream' \in Stream,
         call.entry = "connect" /\ stream' # NoStream =>
           stream'.host = uri.host /\ stream'.port = Port(uri),
         r = "Ok" => pc = "handshake" /\ stream' = stream,
         r = "UnableToConnect" => \A i \in 1..Len(addrs) : addrs[i] \in refused
  PROVE  IInv'
  <1>1. /\ result' = r /\ pc' = "done" /\ call' = call /\ uri' = uri /\ attempt' = attempt
        /\ addrs' = addrs /\ next' = next /\ refused' = refused
    BY DEF Return
  <1>2. TypeOK'
    BY <1>1 DEF IInv, TypeOK
  <1>3. StreamFitsUri'
    BY <1>1 DEF IInv, StreamFitsUri, Port, uri_mode
  <1>4. AddressesInOrder' /\ RedirectsBounded'
    BY <1>1 DEF IInv, AddressesInOrder, RedirectsBounded
  <1>5. StreamWhenOpen' /\ UsableUri' /\ TriedInOrder' /\ ResultWhenDone'
    BY <1>1 DEF StreamWhenOpen, UsableUri, TriedInOrder, ResultWhenDone, Dialling
  <1> QED BY <1>2, <1>3, <1>4, <1>5 DEF IInv

\* What the wrappers make of a stream.
LEMMA WrapResults ==
  ASSUME IInv, pc = "wrap",
         NEW w \in IF call.entry = "connect" /\ call.build = {}
                     THEN {Wrapped("Plain", "none")} ELSE client_tls_with_config(uri)
  PROVE  /\ w.err \in Result \ {"Ok", "UnableToConnect", "Unreachable"}
         /\ w.stream \in Stream
         /\ w.stream.addr = stream.addr /\ w.stream.host = stream.host /\ w.stream.port = stream.port
         /\ w.err = "None" =>
              /\ uri.scheme \in {"ws", "wss"}
              /\ w.stream.tls # "Plain" <=> uri.scheme = "wss"
              /\ w.stream.tls # "Plain" => w.stream.domain = uri.host
  <1> DEFINE Fine(x) ==
               /\ x.err \in Result \ {"Ok", "UnableToConnect", "Unreachable"}
               /\ x.stream \in Stream
               /\ x.stream.addr = stream.addr /\ x.stream.host = stream.host
               /\ x.stream.port = stream.port
               /\ x.err = "None" =>
                    /\ uri.scheme \in {"ws", "wss"}
                    /\ x.stream.tls # "Plain" <=> uri.scheme = "wss"
                    /\ x.stream.tls # "Plain" => x.stream.domain = uri.host
  <1>1. stream \in Stream /\ uri \in Uri
    BY ConnectAssumption DEF IInv, TypeOK
  <1>2. \A e \in Result \ {"None", "Ok", "UnableToConnect", "Unreachable"} : Fine(WrapFails(e))
    BY <1>1 DEF WrapFails
  <1>3. uri.scheme = "ws" => Fine(Wrapped("Plain", "none"))
    BY <1>1 DEF Wrapped, Stream, Host, Result
  <1>4. \A t \in {"NativeTls", "Rustls"} : uri.scheme = "wss" => Fine(Wrapped(t, uri.host))
    BY <1>1 DEF Wrapped, Stream, Uri, Result
  <1>5. uri_mode(uri) = "Plain" => uri.scheme = "ws"
    BY DEF uri_mode
  <1>6. uri_mode(uri) \notin {"Plain", "Unsupported"} => uri.scheme = "wss"
    BY DEF uri_mode
  <1>7. CASE call.entry = "connect" /\ call.build = {}
    <2>1. uri.scheme = "ws"
      BY <1>5, <1>7 DEF IInv, UsableUri
    <2> QED BY <1>3, <1>7, <2>1
  <1>8. CASE ~(call.entry = "connect" /\ call.build = {})
    <2>1. w \in client_tls_with_config(uri)
      BY <1>8
    <2>2. CASE uri.host = "none"
      BY <1>2, <2>1, <2>2 DEF client_tls_with_config, Result, Url
    <2>3. CASE uri.host # "none" /\ uri_mode(uri) = "Unsupported"
      BY <1>2, <2>1, <2>3 DEF client_tls_with_config, Result, Url
    <2>4. CASE uri.host # "none" /\ uri_mode(uri) # "Unsupported"
      <3>1. w \in wrap_stream(uri)
        BY <2>1, <2>4 DEF client_tls_with_config
      <3>2. CASE uri_mode(uri) = "Plain"
        BY <1>3, <1>5, <3>1, <3>2 DEF wrap_stream
      <3>3. CASE uri_mode(uri) # "Plain"
        <4>1. uri.scheme = "wss"
          BY <1>6, <2>4, <3>3
        <4>2. Chosen(call) \in {"Plain", "NativeTls", "Rustls"}
          <5>1. call.connector \in Connector
            BY DEF IInv, TypeOK, Call
          <5> QED BY <5>1 DEF Chosen, Connector
        <4>3. \A x \in WrapNative(uri) : Fine(x)
          BY <1>2, <1>4, <4>1 DEF WrapNative, Result, Url
        <4>4. \A x \in WrapRustls(uri) : Fine(x)
          BY <1>2, <1>4, <4>1 DEF WrapRustls, Result, Url
        <4>5. \A x \in {WrapFails("TlsFeatureNotEnabled")} : Fine(x)
          BY <1>2 DEF Result, Url
        <4>6. w \in {WrapFails("TlsFeatureNotEnabled")} \cup WrapNative(uri) \cup WrapRustls(uri)
          BY <3>1, <3>3, <4>2 DEF wrap_stream
        <4> QED BY <4>3, <4>4, <4>5, <4>6
      <3> QED BY <3>2, <3>3
    <2> QED BY <2>2, <2>3, <2>4
  <1> QED BY <1>7, <1>8

\* Each action keeps the invariant.
LEMMA BeginIInv == IInv /\ Begin => IInv'
  <1> SUFFICES ASSUME IInv, Begin PROVE IInv'
    OBVIOUS
  <1>1. CASE into_client_request(call.source) # "None"
    <2>1. Return(into_client_request(call.source)) /\ stream' = stream /\ pc = "begin"
      BY <1>1 DEF Begin
    <2>2. into_client_request(call.source) \in Result \ {"Ok", "UnableToConnect", "Unreachable"}
      BY Refusals DEF IInv
    <2>3. stream \in Stream
      BY DEF IInv, TypeOK
    <2>4. call.entry = "connect" /\ stream # NoStream =>
            stream.host = uri.host /\ stream.port = Port(uri)
      BY DEF IInv, StreamFitsUri
    <2> HIDE DEF IInv, Return
    <2> QED BY <1>1, <2>1, <2>2, <2>3, <2>4, ReturnIInv
  <1>2. CASE into_client_request(call.source) = "None"
    <2>1. /\ pc = "begin" /\ pc' = IF call.entry = "connect" THEN "attempt" ELSE "wrap"
          /\ UNCHANGED <<call, result, uri, attempt, addrs, next, refused, stream>>
      BY <1>2 DEF Begin, Goto
    <2>2. call.entry \in {"connect", "client_tls"}
      BY DEF IInv, TypeOK, Call
    <2>3. TypeOK' /\ RedirectsBounded' /\ AddressesInOrder' /\ TriedInOrder' /\ ResultWhenDone'
      BY <2>1, <2>2 DEF IInv, TypeOK, RedirectsBounded, AddressesInOrder, TriedInOrder, ResultWhenDone
    <2>4. StreamWhenOpen' /\ UsableUri'
      BY <2>1, <2>2 DEF IInv, StreamWhenOpen, UsableUri, Dialling
    <2>5. StreamFitsUri'
      BY <2>1, <2>2 DEF IInv, StreamFitsUri, StreamWhenOpen, ResultWhenDone
    <2> QED BY <2>3, <2>4, <2>5 DEF IInv
  <1> QED BY <1>1, <1>2

LEMMA AttemptIInv == IInv /\ Attempt => IInv'
  <1> SUFFICES ASSUME IInv, Attempt PROVE IInv'
    OBVIOUS
  <1>0. /\ pc = "attempt" /\ stream' = stream /\ call.entry = "connect" /\ stream = NoStream
        /\ stream \in Stream /\ attempt <= call.limit
    BY DEF IInv, TypeOK, Attempt, StreamWhenOpen, Dialling, RedirectsBounded
  <1>1. ASSUME NEW r \in Result \ {"None", "Ok", "UnableToConnect", "Unreachable"}, Return(r)
        PROVE  IInv'
    <2> HIDE DEF IInv, Return
    <2> QED BY <1>0, <1>1, ReturnIInv
  <1>2. CASE Unusable(uri) # "None"
    <2>1. Return(Unusable(uri))
      BY <1>2 DEF Attempt
    <2>2. Unusable(uri) \in Result \ {"Ok", "UnableToConnect", "Unreachable"}
      BY <1>0, Refusals DEF IInv
    <2> QED BY <1>1, <1>2, <2>1, <2>2
  <1>3. CASE Return("Io")
    BY <1>1, <1>3 DEF Result
  <1>4. CASE /\ Unusable(uri) = "None"
             /\ addrs' \in AddrLists /\ next' = 1 /\ refused' = {}
             /\ Goto("connect") /\ UNCHANGED <<uri, attempt>>
    <2>1. /\ pc' = "connect" /\ call' = call /\ result' = result /\ uri' = uri
          /\ attempt' = attempt /\ next' = 1 /\ refused' = {} /\ stream' = NoStream
      BY <1>0, <1>4 DEF Goto
    <2>2. addrs' \in Seq(Nat)
      BY <1>4, ConnectAssumption
    <2>3. TypeOK' /\ RedirectsBounded'
      BY <1>0, <2>1, <2>2 DEF IInv, TypeOK, RedirectsBounded
    <2>4. AddressesInOrder' /\ TriedInOrder' /\ ResultWhenDone'
      BY <1>0, <2>1, <2>2 DEF IInv, AddressesInOrder, TriedInOrder, ResultWhenDone
    <2>5. StreamWhenOpen' /\ StreamFitsUri'
      BY <1>0, <2>1 DEF IInv, StreamWhenOpen, StreamFitsUri, Dialling, ResultWhenDone
    <2>6. uri_mode(uri) \in {"Plain", "Tls"} /\ (call.build = {} => uri_mode(uri) = "Plain")
      <3>1. attempt \in Nat /\ call.limit \in Nat
        BY LimitsAreNats DEF IInv, TypeOK, Call
      <3>2. uri_mode(uri) # "Unsupported" /\ ~(uri_mode(uri) = "Tls" /\ call.build = {})
        BY <1>0, <1>4, <3>1 DEF Unusable
      <3>3. uri_mode(uri) \in {"Plain", "Tls", "Unsupported"}
        BY DEF uri_mode
      <3> QED BY <3>2, <3>3
    <2>7. UsableUri'
      BY <2>1, <2>6 DEF UsableUri, uri_mode
    <2> QED BY <2>3, <2>4, <2>5, <2>7 DEF IInv
  <1> QED BY <1>2, <1>3, <1>4 DEF Attempt

LEMMA RefuseIInv == IInv /\ Refuse => IInv'
  <1> SUFFICES ASSUME IInv, Refuse PROVE IInv'
    OBVIOUS
  <1>1. /\ pc = "connect" /\ pc' = "connect" /\ next <= Len(addrs) /\ next' = next + 1
        /\ refused' = refused \cup {addrs[next]}
        /\ UNCHANGED <<call, result, uri, attempt, addrs, stream>>
    BY DEF Refuse, Goto
  <1>2. addrs \in Seq(Nat) /\ next \in Nat \ {0} /\ refused \subseteq Nat /\ Len(addrs) \in Nat
        /\ addrs[next] \in Nat
    BY <1>1 DEF IInv, TypeOK
  <1>3. TypeOK' /\ RedirectsBounded' /\ ResultWhenDone'
    <2>1. next' \in Nat \ {0}
      BY <1>1, <1>2
    <2>2. refused' \subseteq Nat
      <3>1. refused' = refused \cup {addrs[next]}
        BY <1>1
      <3> QED BY <1>2, <3>1, Zenon
    <2> QED BY <1>1, <2>1, <2>2 DEF IInv, TypeOK, RedirectsBounded, ResultWhenDone
  <1>4. StreamWhenOpen' /\ UsableUri' /\ StreamFitsUri'
    BY <1>1 DEF IInv, StreamWhenOpen, UsableUri, StreamFitsUri, Dialling, ResultWhenDone
  <1>5. call.entry = "connect" /\ \A i \in 1..(next - 1) : addrs[i] \in refused
    BY <1>1 DEF IInv, StreamWhenOpen, TriedInOrder, Dialling
  <1>6. TriedInOrder'
    BY <1>1, <1>2, <1>5 DEF TriedInOrder
  <1>7. AddressesInOrder'
    BY <1>1 DEF IInv, AddressesInOrder, ResultWhenDone
  <1> QED BY <1>3, <1>4, <1>6, <1>7 DEF IInv

LEMMA AcceptIInv == IInv /\ Accept => IInv'
  <1> SUFFICES ASSUME IInv, Accept PROVE IInv'
    OBVIOUS
  <1>1. /\ pc = "connect" /\ pc' = "nodelay" /\ next <= Len(addrs)
        /\ stream' = [addr |-> addrs[next], host |-> uri.host, port |-> Port(uri),
                      tls |-> "tcp", domain |-> "none"]
        /\ UNCHANGED <<call, result, uri, attempt, addrs, next, refused>>
    BY DEF Accept, Goto
  <1>2. addrs[next] \in Nat /\ next \in Nat \ {0} /\ Len(addrs) \in Nat
    BY <1>1 DEF IInv, TypeOK
  <1>3. uri \in Uri /\ Port(uri) \in Ports \cup {"80", "443"}
    BY Refusals, ConnectAssumption DEF IInv, TypeOK
  <1>4. stream' \in Stream
    BY <1>1, <1>2, <1>3 DEF Stream, Uri, Host
  <1>5. TypeOK' /\ RedirectsBounded' /\ ResultWhenDone'
    BY <1>1, <1>4 DEF IInv, TypeOK, RedirectsBounded, ResultWhenDone
  <1>6. StreamWhenOpen' /\ UsableUri'
    BY <1>1 DEF IInv, StreamWhenOpen, UsableUri, Dialling
  <1>7. result # "Ok" /\ result # "UnableToConnect" /\ call.entry = "connect"
    BY <1>1 DEF IInv, ResultWhenDone, StreamWhenOpen, Dialling
  <1>8. StreamFitsUri'
    BY <1>1, <1>7 DEF StreamFitsUri, Port, uri_mode
  <1>9. TriedInOrder' /\ AddressesInOrder'
    BY <1>1, <1>2, <1>7 DEF IInv, TriedInOrder, AddressesInOrder
  <1> QED BY <1>5, <1>6, <1>8, <1>9 DEF IInv

LEMMA GiveUpIInv == IInv /\ GiveUp => IInv'
  <1> SUFFICES ASSUME IInv, GiveUp PROVE IInv'
    OBVIOUS
  <1>1. pc = "connect" /\ next > Len(addrs) /\ Return("UnableToConnect") /\ stream' = stream
    BY DEF GiveUp, Exhausted
  <1>2. stream \in Stream /\ stream = NoStream
    BY <1>1 DEF IInv, TypeOK, StreamWhenOpen, Dialling
  <1>3. \A i \in 1..Len(addrs) : addrs[i] \in refused
    <2>1. addrs \in Seq(Nat) /\ next \in Nat
      BY DEF IInv, TypeOK
    <2>2. \A i \in 1..(next - 1) : addrs[i] \in refused
      BY <1>1 DEF IInv, TriedInOrder, StreamWhenOpen, Dialling
    <2> QED BY <1>1, <2>1, <2>2
  <1>4. "UnableToConnect" \in Result
    BY DEF Result, Url
  <1> HIDE DEF IInv, Return
  <1> QED BY <1>1, <1>2, <1>3, <1>4, ReturnIInv

LEMMA SetNoDelayIInv == IInv /\ SetNoDelay => IInv'
  <1> SUFFICES ASSUME IInv, SetNoDelay PROVE IInv'
    OBVIOUS
  <1>0. pc = "nodelay" /\ stream' = stream /\ stream \in Stream /\ call.entry = "connect"
    BY DEF IInv, TypeOK, SetNoDelay, StreamWhenOpen, Dialling
  <1>1. CASE Return("Io")
    <2>1. call.entry = "connect" /\ stream # NoStream =>
            stream.host = uri.host /\ stream.port = Port(uri)
      BY DEF IInv, StreamFitsUri
    <2>2. "Io" \in Result
      BY DEF Result
    <2> HIDE DEF IInv, Return
    <2> QED BY <1>0, <1>1, <2>1, <2>2, ReturnIInv
  <1>2. CASE Goto("wrap") /\ UNCHANGED <<uri, attempt, addrs, next, refused>>
    <2>1. /\ pc' = "wrap" /\ pc = "nodelay"
          /\ UNCHANGED <<call, result, uri, attempt, addrs, next, refused, stream>>
      BY <1>0, <1>2 DEF Goto
    <2>2. TypeOK' /\ RedirectsBounded' /\ ResultWhenDone'
      BY <2>1 DEF IInv, TypeOK, RedirectsBounded, ResultWhenDone
    <2>3. StreamWhenOpen' /\ UsableUri' /\ StreamFitsUri'
      BY <2>1 DEF IInv, StreamWhenOpen, UsableUri, StreamFitsUri, Dialling, ResultWhenDone
    <2>4. TriedInOrder' /\ AddressesInOrder'
      BY <2>1 DEF IInv, TriedInOrder, AddressesInOrder
    <2> QED BY <2>2, <2>3, <2>4 DEF IInv
  <1> QED BY <1>1, <1>2 DEF SetNoDelay

LEMMA WrapIInv == IInv /\ Wrap => IInv'
  <1> SUFFICES ASSUME IInv, Wrap PROVE IInv'
    OBVIOUS
  <1>0. pc = "wrap"
    BY DEF Wrap
  <1>1. PICK w \in IF call.entry = "connect" /\ call.build = {}
                     THEN {Wrapped("Plain", "none")} ELSE client_tls_with_config(uri) :
          /\ stream' = w.stream
          /\ IF w.err # "None"
               THEN Return(w.err)
               ELSE Goto("handshake") /\ UNCHANGED <<uri, attempt, addrs, next, refused>>
    BY DEF Wrap
  <1>2. /\ w.err \in Result \ {"Ok", "UnableToConnect", "Unreachable"}
        /\ w.stream \in Stream
        /\ w.stream.addr = stream.addr /\ w.stream.host = stream.host /\ w.stream.port = stream.port
        /\ w.err = "None" =>
             /\ uri.scheme \in {"ws", "wss"}
             /\ w.stream.tls # "Plain" <=> uri.scheme = "wss"
             /\ w.stream.tls # "Plain" => w.stream.domain = uri.host
    BY <1>0, WrapResults
  <1>3. call.entry = "connect" => stream'.host = uri.host /\ stream'.port = Port(uri)
    <2>1. stream # NoStream
      BY <1>0 DEF IInv, StreamWhenOpen, NoStream
    <2> QED BY <1>1, <1>2, <2>1 DEF IInv, StreamFitsUri
  <1>4. CASE w.err # "None"
    <2>1. Return(w.err) /\ stream' \in Stream
      BY <1>1, <1>2, <1>4
    <2> HIDE DEF IInv, Return
    <2> QED BY <1>2, <1>3, <1>4, <2>1, ReturnIInv
  <1>5. CASE w.err = "None"
    <2>1. /\ pc' = "handshake" /\ stream' = w.stream
          /\ UNCHANGED <<call, result, uri, attempt, addrs, next, refused>>
      BY <1>1, <1>5 DEF Goto
    <2>2. TypeOK' /\ RedirectsBounded' /\ ResultWhenDone'
      BY <1>0, <1>2, <2>1 DEF IInv, TypeOK, RedirectsBounded, ResultWhenDone
    <2>3. StreamWhenOpen' /\ UsableUri'
      BY <2>1 DEF StreamWhenOpen, UsableUri, Dialling
    <2>4. StreamFitsUri'
      <3>1. (call.entry = "connect" /\ stream # NoStream =>
               stream.host = uri.host /\ stream.port = Port(uri))'
        BY <1>3, <2>1 DEF Port, uri_mode
      <3>2. /\ uri.scheme' \in {"ws", "wss"}
            /\ stream.tls' # "Plain" <=> uri.scheme' = "wss"
            /\ stream.tls' # "Plain" => stream.domain' = uri.host'
        BY <1>2, <1>5, <2>1
      <3> QED BY <3>1, <3>2 DEF StreamFitsUri
    <2>5. TriedInOrder' /\ AddressesInOrder'
      BY <1>0, <1>2, <2>1 DEF IInv, TriedInOrder, AddressesInOrder, ResultWhenDone
    <2> QED BY <2>2, <2>3, <2>4, <2>5 DEF IInv
  <1> QED BY <1>4, <1>5

LEMMA HandshakeEndsIInv == IInv /\ HandshakeEnds => IInv'
  <1> SUFFICES ASSUME IInv, HandshakeEnds PROVE IInv'
    OBVIOUS
  <1>1. PICK r \in {"Ok", "Failure", "Http", "Interrupted"} : Return(r)
    BY DEF HandshakeEnds
  <1>2. pc = "handshake" /\ stream' = stream /\ stream \in Stream
    BY DEF HandshakeEnds, IInv, TypeOK
  <1>3. call.entry = "connect" /\ stream # NoStream =>
          stream.host = uri.host /\ stream.port = Port(uri)
    BY DEF IInv, StreamFitsUri
  <1>4. r \in Result
    BY DEF Result
  <1> HIDE DEF IInv, Return
  <1> QED BY <1>1, <1>2, <1>3, <1>4, ReturnIInv

LEMMA RedirectedIInv == IInv /\ Redirected => IInv'
  <1> SUFFICES ASSUME IInv, Redirected PROVE IInv'
    OBVIOUS
  <1>1. ASSUME NEW r \in {"Redirect", "Utf8", "HttpFormat"}, Return(r), stream' = stream
        PROVE  IInv'
    <2>1. stream' \in Stream /\ r \in Result
      BY <1>1 DEF IInv, TypeOK, Result
    <2>2. call.entry = "connect" /\ stream # NoStream =>
            stream.host = uri.host /\ stream.port = Port(uri)
      BY DEF IInv, StreamFitsUri
    <2> HIDE DEF IInv, Return
    <2> QED BY <1>1, <2>1, <2>2, ReturnIInv
  <1>2. CASE /\ MayFollow /\ pc = "handshake"
             /\ uri' \in Uris /\ attempt' = attempt + 1 /\ stream' = NoStream
             /\ Goto("attempt") /\ UNCHANGED <<addrs, next, refused>>
    <2>1. /\ pc' = "attempt" /\ uri' \in Uris /\ attempt' = attempt + 1 /\ stream' = NoStream
          /\ UNCHANGED <<call, result, addrs, next, refused>>
          /\ call.entry = "connect" /\ attempt < call.limit
      BY <1>2 DEF Goto, MayFollow
    <2>2. attempt \in Nat /\ call.limit \in Nat /\ result = "None"
      BY <1>2, LimitsAreNats DEF IInv, TypeOK, Call, ResultWhenDone
    <2>3. NoStream \in Stream
      BY DEF NoStream, Stream, Host
    <2>4. TypeOK' /\ RedirectsBounded' /\ ResultWhenDone'
      BY <2>1, <2>2, <2>3 DEF IInv, TypeOK, RedirectsBounded, ResultWhenDone
    <2>5. StreamWhenOpen' /\ UsableUri' /\ StreamFitsUri'
      BY <2>1, <2>2 DEF StreamWhenOpen, UsableUri, StreamFitsUri, Dialling
    <2>6. TriedInOrder' /\ AddressesInOrder'
      BY <2>1, <2>2 DEF TriedInOrder, AddressesInOrder
    <2> QED BY <2>4, <2>5, <2>6 DEF IInv
  <1> QED BY <1>1, <1>2 DEF Redirected

LEMMA StutterIInv == IInv /\ UNCHANGED vars => IInv'
  <1> SUFFICES ASSUME IInv, UNCHANGED vars PROVE IInv'
    OBVIOUS
  <1>1. UNCHANGED <<call, pc, uri, attempt, addrs, next, refused, stream, result>>
    BY DEF vars
  <1>2. TypeOK' /\ RedirectsBounded' /\ ResultWhenDone' /\ TriedInOrder'
    BY <1>1 DEF IInv, TypeOK, RedirectsBounded, ResultWhenDone, TriedInOrder
  <1>3. StreamWhenOpen' /\ UsableUri' /\ StreamFitsUri' /\ AddressesInOrder'
    BY <1>1 DEF IInv, StreamWhenOpen, UsableUri, StreamFitsUri, AddressesInOrder, Dialling
  <1> QED BY <1>2, <1>3 DEF IInv

\* IInv is inductive.
LEMMA NextIInv == IInv /\ [Next]_vars => IInv'
  BY BeginIInv, AttemptIInv, RefuseIInv, AcceptIInv, GiveUpIInv, SetNoDelayIInv, WrapIInv,
     HandshakeEndsIInv, RedirectedIInv, StutterIInv DEF Next, Done

LEMMA AlwaysIInv == Spec => []IInv
  BY InitIInv, NextIInv, PTL DEF Spec

\* The handshake of connect_with_config and client_tls_with_config is made on a
\* stream to the current URL, under TLS exactly for wss, whatever the redirects.
THEOREM StreamFitsCurrentUri == Spec => []StreamFitsUri
  <1>1. IInv => StreamFitsUri
    BY DEF IInv
  <1> QED BY <1>1, AlwaysIInv, PTL

\* The redirect loop of connect_with_config respects its limit and never reaches
\* the unreachable!() behind it.
THEOREM RedirectLoopBounded == Spec => []RedirectsBounded
  <1>1. IInv => RedirectsBounded
    BY DEF IInv
  <1> QED BY <1>1, AlwaysIInv, PTL

\* connect_to_some tries the addresses in order and gives up only behind the last.
THEOREM AddressesTriedInOrder == Spec => []AddressesInOrder
  <1>1. IInv => AddressesInOrder
    BY DEF IInv
  <1> QED BY <1>1, AlwaysIInv, PTL

=============================================================================
