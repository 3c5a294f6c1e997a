------------------------------ MODULE Negotiate ------------------------------
(***************************************************************************)
(* The negotiation of permessage-deflate: src/src/protocol/deflate/        *)
(* negotiate.rs, the Settings of deflate/mod.rs, and what Context::new of  *)
(* deflate/codec.rs builds from them.                                      *)
(*                                                                         *)
(* A Sec-WebSocket-Extensions field is a sequence of header values, a      *)
(* value a sequence of extensions, an extension a name and a sequence of   *)
(* parameters: the tokens, without case, blanks and quotes.  An Option is  *)
(* a set with at most one element.                                         *)
(***************************************************************************)
EXTENDS Integers, Sequences

\* A window size that is not given, and a parameter without a value.
Absent == -1
NoValue == -2

Bits == 8..15

Settings ==
  [server_no_context_takeover : BOOLEAN, client_no_context_takeover : BOOLEAN,
   server_max_window_bits : Bits, client_max_window_bits : Bits]

\* What Settings::max_window_bits admits for an application's configuration.
Configured(s) ==
  s.server_max_window_bits \in 9..15 /\ s.client_max_window_bits \in 9..15

-----------------------------------------------------------------------------
(* Header fields *)

Parameter(name, value) == [name |-> name, value |-> value]
Deflate(params) == [name |-> "permessage-deflate", params |-> params]
OtherExtension == [name |-> "other", params |-> <<>>]

\* A list element of blanks only, and one that has parameters but no name.
EmptyExtension == [name |-> "empty", params |-> <<>>]
NamelessExtension == [name |-> "nameless", params |-> <<>>]

\* A header value; `splits` is FALSE if a quoted string does not end.
HeaderValue(extensions) == [splits |-> TRUE, extensions |-> extensions]
UnsplittableValue == [splits |-> FALSE, extensions |-> <<>>]
Field(extension) == <<HeaderValue(<<extension>>)>>

\* The fields there are; "other" and "unknown" are the names this library does
\* not know.
ParameterNames ==
  {"server_no_context_takeover", "client_no_context_takeover",
   "server_max_window_bits", "client_max_window_bits", "unknown"}
Extensions ==
  [name : {"permessage-deflate", "other", "empty", "nameless"},
   params : Seq([name : ParameterNames, value : Int])]
Fields == Seq([splits : BOOLEAN, extensions : Seq(Extensions)])

\* The places of the extensions of a field, and their order.
Places(field) ==
  UNION {{<<i, j>> : j \in DOMAIN field[i].extensions} :
         i \in {k \in DOMAIN field : field[k].splits}}
At(field, p) == field[p[1]].extensions[p[2]]
Before(p, q) == p[1] < q[1] \/ (p[1] = q[1] /\ p[2] < q[2])

-----------------------------------------------------------------------------
(* Parsing *)

ValidParameter(p) ==
  \/ p.name \in {"server_no_context_takeover", "client_no_context_takeover"}
       /\ p.value = NoValue
  \/ p.name = "server_max_window_bits" /\ p.value \in Bits
  \/ p.name = "client_max_window_bits" /\ p.value \in Bits \cup {NoValue}

ValidParameters(params) ==
  /\ \A i \in DOMAIN params : ValidParameter(params[i])
  /\ \A i, j \in DOMAIN params : params[i].name = params[j].name => i = j

Named(params, name) == {params[i].value : i \in {k \in DOMAIN params : params[k].name = name}}

WindowIn(params, name) ==
  IF Named(params, name) = {} THEN Absent ELSE CHOOSE v \in Named(params, name) : TRUE

Params(params) ==
  [server_no_context_takeover |-> Named(params, "server_no_context_takeover") # {},
   client_no_context_takeover |-> Named(params, "client_no_context_takeover") # {},
   server_max_window_bits |-> WindowIn(params, "server_max_window_bits"),
   client_max_window_bits |-> WindowIn(params, "client_max_window_bits")]

\* `parse`: the kind of the extension, "Err" for a refused one.
parse(e) ==
  CASE e.name = "empty" -> "Empty"
    [] e.name = "nameless" -> "Err"
    [] e.name = "permessage-deflate" ->
         IF ValidParameters(e.params) THEN "Deflate" ELSE "Err"
    [] OTHER -> "Other"

-----------------------------------------------------------------------------
(* The client's offer *)

Flag(set, name) == IF set THEN <<Parameter(name, NoValue)>> ELSE <<>>

\* Mutant: a window the server must keep to is not mentioned.
offer_no_server_window(s) ==
  Deflate(Flag(s.server_no_context_takeover, "server_no_context_takeover")
       \o Flag(s.client_no_context_takeover, "client_no_context_takeover")
       \o <<Parameter("client_max_window_bits", NoValue)>>)

\* The bare client_max_window_bits invites the server to choose.
offer(s) ==
  Deflate(Flag(s.server_no_context_takeover, "server_no_context_takeover")
       \o Flag(s.client_no_context_takeover, "client_no_context_takeover")
       \o (IF s.server_max_window_bits < 15
             THEN <<Parameter("server_max_window_bits", s.server_max_window_bits)>>
             ELSE <<>>)
       \o <<Parameter("client_max_window_bits", NoValue)>>)

-----------------------------------------------------------------------------
(* The server's answer *)

MinOf(a, b) == IF a <= b THEN a ELSE b

\* The window of the server's encoder, Absent if the answer does not name one.
ServerWindow(s, o) ==
  IF o.server_max_window_bits # Absent
    THEN MinOf(o.server_max_window_bits, s.server_max_window_bits)
  ELSE IF s.server_max_window_bits < 15 THEN s.server_max_window_bits ELSE Absent

\* Mutant: a client that offered no window is held to the configured one.
ClientWindow_capped(s, o) ==
  IF o.client_max_window_bits \in {Absent, NoValue} THEN s.client_max_window_bits
  ELSE MinOf(o.client_max_window_bits, s.client_max_window_bits)

\* The window of the client's encoder.
ClientWindow(s, o) ==
  CASE o.client_max_window_bits = Absent -> 15
    [] o.client_max_window_bits = NoValue -> s.client_max_window_bits
    [] OTHER -> MinOf(o.client_max_window_bits, s.client_max_window_bits)

Window(bits, named, name) == IF named THEN <<Parameter(name, bits)>> ELSE <<>>

Answer(agreed, server_window) ==
  Deflate(Flag(agreed.server_no_context_takeover, "server_no_context_takeover")
       \o Flag(agreed.client_no_context_takeover, "client_no_context_takeover")
       \o Window(server_window, server_window # Absent, "server_max_window_bits")
       \o Window(agreed.client_max_window_bits, agreed.client_max_window_bits < 15,
                 "client_max_window_bits"))

\* What both sides use if `w` is the server's window.
Settled(s, o, w) ==
  [server_no_context_takeover |->
     s.server_no_context_takeover \/ o.server_no_context_takeover,
   client_no_context_takeover |->
     s.client_no_context_takeover \/ o.client_no_context_takeover,
   server_max_window_bits |-> IF w = Absent THEN s.server_max_window_bits ELSE w,
   client_max_window_bits |-> ClientWindow(s, o)]

\* accept_offer: the settings to install, with the answer to send, or {}.  An
\* encoder cannot be built with a window of 8.
accept_offer(s, o) ==
  {[agreed |-> a, answer |-> Answer(a, ServerWindow(s, o))] :
   a \in IF o.server_max_window_bits = 8 THEN {} ELSE {Settled(s, o, ServerWindow(s, o))}}

\* The offers of a field that can be accepted, with their places.
Acceptable(s, field) ==
  UNION {{[at |-> p, agreed |-> a.agreed, answer |-> a.answer] :
          a \in accept_offer(s, Params(At(field, p).params))} :
         p \in {q \in Places(field) : parse(At(field, q)) = "Deflate"}}

\* Those that bind the client to the reduced window the server asks for.
Binding(s, offers) ==
  {a \in offers : s.client_max_window_bits = 15 \/ a.agreed.client_max_window_bits < 15}

Earliest(offers) == {a \in offers : \A b \in offers : b = a \/ Before(a.at, b.at)}
Preferred(s, offers) ==
  IF Binding(s, offers) # {} THEN Earliest(Binding(s, offers)) ELSE Earliest(offers)

\* accept_offers: the first offer that binds the client to a reduced window,
\* otherwise the first acceptable one.
accept_offers(s, field) == Preferred(s, Acceptable(s, field))

\* WebSocketConfig::accept_deflate_offers on the Option `deflate`.
accept_deflate_offers(deflate, field) == UNION {accept_offers(s, field) : s \in deflate}

-----------------------------------------------------------------------------
(* The client's reading of the answer *)

Outcome(err, deflate) == [err |-> err, deflate |-> deflate]

\* A selected extension is the one that was offered, once.
SelectionRefused(field) ==
  \/ \E i \in DOMAIN field : ~field[i].splits
  \/ \E p \in Places(field) : parse(At(field, p)) \in {"Err", "Other"}
  \/ \E p, q \in Places(field) :
       p # q /\ parse(At(field, p)) = "Deflate" /\ parse(At(field, q)) = "Deflate"

\* Mutant: a window wider than the one asked for is let through.
ParamsRefused_wide(s, a) ==
  \/ s.server_no_context_takeover /\ ~a.server_no_context_takeover
  \/ a.server_max_window_bits = Absent /\ s.server_max_window_bits < 15
  \/ a.client_max_window_bits \in {8, NoValue}

\* The answer must keep what was offered; an encoder cannot have a window of 8.
ParamsRefused(s, a) ==
  \/ s.server_no_context_takeover /\ ~a.server_no_context_takeover
  \/ a.server_max_window_bits > s.server_max_window_bits
  \/ a.server_max_window_bits = Absent /\ s.server_max_window_bits < 15
  \/ a.client_max_window_bits \in {8, NoValue}

\* Mutant: the client's own limit replaces the one the server set.
Agreed_own_window(s, a) ==
  [server_no_context_takeover |-> a.server_no_context_takeover,
   client_no_context_takeover |->
     s.client_no_context_takeover \/ a.client_no_context_takeover,
   server_max_window_bits |->
     IF a.server_max_window_bits = Absent
       THEN s.server_max_window_bits ELSE a.server_max_window_bits,
   client_max_window_bits |-> s.client_max_window_bits]

Agreed(s, a) ==
  [server_no_context_takeover |-> a.server_no_context_takeover,
   client_no_context_takeover |->
     s.client_no_context_takeover \/ a.client_no_context_takeover,
   server_max_window_bits |->
     IF a.server_max_window_bits = Absent
       THEN s.server_max_window_bits ELSE a.server_max_window_bits,
   client_max_window_bits |->
     IF a.client_max_window_bits = Absent THEN s.client_max_window_bits
     ELSE MinOf(a.client_max_window_bits, s.client_max_window_bits)]

\* The parameters of the selected extensions; there is one, or none.
Selected(field) ==
  {Params(At(field, p).params) : p \in {q \in Places(field) : parse(At(field, q)) = "Deflate"}}

accept_response(s, field) ==
  IF SelectionRefused(field) \/ \E a \in Selected(field) : ParamsRefused(s, a)
    THEN Outcome("InvalidHeader", {})
  ELSE Outcome("None", {Agreed(s, a) : a \in Selected(field)})

\* headers_select_deflate: only names are read, value by value; "Err" at a value
\* that does not split.
headers_select_deflate(field) ==
  LET Selects(i) == \E j \in DOMAIN field[i].extensions :
                      field[i].extensions[j].name = "permessage-deflate"
      telling == {i \in DOMAIN field : ~field[i].splits \/ Selects(i)}
      first == CHOOSE i \in telling : \A k \in telling : i <= k
  IN  IF telling = {} THEN "No" ELSE IF field[first].splits THEN "Yes" ELSE "Err"

\* VerifyData::verify_deflate_response.
verify_deflate_response(offered, field) ==
  IF offered # {} THEN accept_response(CHOOSE s \in offered : TRUE, field)
  ELSE Outcome(IF headers_select_deflate(field) = "No" THEN "None" ELSE "InvalidHeader", {})

-----------------------------------------------------------------------------
(* The codec an endpoint builds *)

\* deflate::Context::new: an inflater cannot be built with 8 bits, and may be
\* wider than the peer's encoder.
Codec(role, s) ==
  LET own == IF role = "Client" THEN s.client_max_window_bits ELSE s.server_max_window_bits
      peer == IF role = "Client" THEN s.server_max_window_bits ELSE s.client_max_window_bits
  IN  [enc_window |-> own, dec_window |-> IF peer < 9 THEN 9 ELSE peer,
       reset_encoder |-> IF role = "Client" THEN s.client_no_context_takeover
                         ELSE s.server_no_context_takeover,
       reset_decoder |-> IF role = "Client" THEN s.server_no_context_takeover
                         ELSE s.client_no_context_takeover]

\* flate2 builds the encoder.
Buildable(codec) == codec.enc_window \in 9..15

\* Every back reference of `from` is one `to` still holds.
Decodes(from, to) ==
  from.enc_window <= to.dec_window /\ (to.reset_decoder => from.reset_encoder)

\* The widest codec RFC 7692 leaves to a peer of that role after the answer `a`.
WidestCodec(role, a) ==
  LET Bound(bits) == IF bits = Absent THEN 15 ELSE bits
  IN  Codec(role, [a EXCEPT !.server_max_window_bits = Bound(@),
                            !.client_max_window_bits = Bound(@)])

=============================================================================
