--------------------------- MODULE HandshakeProofs ---------------------------
(***************************************************************************)
(* The theorems about Handshake and the negotiation in it, for all heads,  *)
(* configurations, callbacks, limits and sizes of packets.                 *)
(***************************************************************************)
EXTENDS Handshake, SequenceTheorems, TLAPS

-----------------------------------------------------------------------------
(* The parameters of an extension *)

\* What parse_params returns.
ParamsSet ==
  [server_no_context_takeover : BOOLEAN, client_no_context_takeover : BOOLEAN,
   server_max_window_bits : Bits \cup {Absent},
   client_max_window_bits : Bits \cup {Absent, NoValue}]

LEMMA ParamsType ==
  ASSUME NEW params, ValidParameters(params)
  PROVE  Params(params) \in ParamsSet
<1>1. \A v \in Named(params, "server_max_window_bits") : v \in Bits
  BY DEF Named, ValidParameters, ValidParameter
<1>2. \A v \in Named(params, "client_max_window_bits") : v \in Bits \cup {NoValue}
  BY DEF Named, ValidParameters, ValidParameter
<1>3. WindowIn(params, "server_max_window_bits") \in Bits \cup {Absent}
  <2> DEFINE V == Named(params, "server_max_window_bits")
  <2> HIDE DEF V
  <2>1. V # {} => (CHOOSE v \in V : TRUE) \in V
    BY Zenon
  <2> QED BY <1>1, <2>1 DEF V, WindowIn
<1>4. WindowIn(params, "client_max_window_bits") \in Bits \cup {Absent, NoValue}
  <2> DEFINE V == Named(params, "client_max_window_bits")
  <2> HIDE DEF V
  <2>1. V # {} => (CHOOSE v \in V : TRUE) \in V
    BY Zenon
  <2> QED BY <1>2, <2>1 DEF V, WindowIn
<1> QED BY <1>3, <1>4 DEF Params, ParamsSet

LEMMA MinType == \A a, b \in Int : MinOf(a, b) \in {a, b} /\ MinOf(a, b) <= a /\ MinOf(a, b) <= b
BY DEF MinOf

\* The window of the server's encoder can be built, and is within both limits.
LEMMA ServerWindowType ==
  ASSUME NEW s \in Settings, Configured(s), NEW o \in ParamsSet, o.server_max_window_bits # 8
  PROVE  /\ ServerWindow(s, o) \in (9..15) \cup {Absent}
         /\ ServerWindow(s, o) # Absent => ServerWindow(s, o) <= s.server_max_window_bits
         /\ ServerWindow(s, o) = Absent =>
              o.server_max_window_bits = Absent /\ s.server_max_window_bits = 15
         /\ o.server_max_window_bits # Absent =>
              ServerWindow(s, o) # Absent /\ ServerWindow(s, o) <= o.server_max_window_bits
<1>1. /\ s.server_max_window_bits \in 9..15
      /\ o.server_max_window_bits \in (9..15) \cup {Absent}
  BY DEF Configured, ParamsSet, Bits, Absent
<1> QED BY <1>1 DEF ServerWindow, MinOf, Absent

LEMMA ClientWindowType ==
  ASSUME NEW s \in Settings, Configured(s), NEW o \in ParamsSet
  PROVE  /\ ClientWindow(s, o) \in Bits
         /\ o.client_max_window_bits = Absent => ClientWindow(s, o) = 15
         /\ o.client_max_window_bits # Absent => ClientWindow(s, o) <= s.client_max_window_bits
         /\ o.client_max_window_bits \notin {Absent, NoValue} =>
              ClientWindow(s, o) <= o.client_max_window_bits
         /\ o.client_max_window_bits = NoValue => ClientWindow(s, o) = s.client_max_window_bits
<1>1. /\ s.client_max_window_bits \in 9..15
      /\ o.client_max_window_bits \in Bits \cup {Absent, NoValue}
  BY DEF Configured, ParamsSet
<1> QED BY <1>1 DEF ClientWindow, MinOf, Absent, NoValue, Bits

LEMMA SettledType ==
  ASSUME NEW s \in Settings, Configured(s), NEW o \in ParamsSet, o.server_max_window_bits # 8
  PROVE  Settled(s, o, ServerWindow(s, o)) \in Settings
<1>1. /\ ServerWindow(s, o) \in (9..15) \cup {Absent} /\ ClientWindow(s, o) \in Bits
  BY ServerWindowType, ClientWindowType
<1>2. (IF ServerWindow(s, o) = Absent THEN s.server_max_window_bits ELSE ServerWindow(s, o)) \in Bits
  BY <1>1 DEF Settings, Bits
<1>3. /\ (s.server_no_context_takeover \/ o.server_no_context_takeover) \in BOOLEAN
      /\ (s.client_no_context_takeover \/ o.client_no_context_takeover) \in BOOLEAN
  BY Zenon
<1> QED BY <1>1, <1>2, <1>3, Zenon DEF Settled, Settings

\* The server, configured with s, accepts offer o.
Bargain(s, o, a) ==
  /\ s \in Settings /\ Configured(s) /\ o \in ParamsSet /\ o.server_max_window_bits # 8
  /\ a.agreed = Settled(s, o, ServerWindow(s, o)) /\ a.agreed \in Settings
  /\ a.answer = Answer(a.agreed, ServerWindow(s, o))

\* config.deflate, an Option.
Option(d) == d = {} \/ \E s \in Settings : Configured(s) /\ d = {s}

\* The offers of a request and what the server makes of them.
LEMMA Accepted ==
  ASSUME NEW d, Option(d), NEW field, NEW a \in accept_deflate_offers(d, field)
  PROVE  \E s \in d, p \in Places(field) :
           /\ parse(At(field, p)) = "Deflate" /\ a.at = p
           /\ Bargain(s, Params(At(field, p).params), a)
<1>1. PICK s \in d : a \in accept_offers(s, field)
  BY DEF accept_deflate_offers
<1>2. s \in Settings /\ Configured(s)
  BY <1>1 DEF Option
<1>3. a \in Acceptable(s, field)
  BY <1>1 DEF accept_offers, Preferred, Earliest, Binding
<1>4. PICK p \in Places(field) :
        /\ parse(At(field, p)) = "Deflate"
        /\ \E b \in accept_offer(s, Params(At(field, p).params)) :
             a = [at |-> p, agreed |-> b.agreed, answer |-> b.answer]
  BY <1>3 DEF Acceptable
<1> DEFINE o == Params(At(field, p).params)
<1>5. o \in ParamsSet
  <2>1. ValidParameters(At(field, p).params)
    BY <1>4 DEF parse
  <2> QED BY <2>1, ParamsType
<1> HIDE DEF o
<1>6. PICK b \in accept_offer(s, o) : a = [at |-> p, agreed |-> b.agreed, answer |-> b.answer]
  BY <1>4 DEF o
<1>7. /\ o.server_max_window_bits # 8
      /\ b = [agreed |-> Settled(s, o, ServerWindow(s, o)),
              answer |-> Answer(Settled(s, o, ServerWindow(s, o)), ServerWindow(s, o))]
  BY <1>6 DEF accept_offer
<1>8. a.at = p /\ a.agreed = b.agreed /\ a.answer = b.answer
  BY <1>6
<1>9. /\ a.agreed = Settled(s, o, ServerWindow(s, o))
      /\ a.answer = Answer(a.agreed, ServerWindow(s, o))
  BY <1>7, <1>8
<1>10. a.agreed \in Settings
  BY <1>2, <1>5, <1>7, <1>9, SettledType
<1>11. Bargain(s, o, a)
  BY <1>2, <1>5, <1>7, <1>9, <1>10 DEF Bargain
<1> QED BY <1>1, <1>4, <1>8, <1>11 DEF o

LEMMA AgreedType ==
  ASSUME NEW s \in Settings, Configured(s), NEW a \in ParamsSet, ~ParamsRefused(s, a)
  PROVE  /\ Agreed(s, a) \in Settings
         /\ Agreed(s, a).client_max_window_bits \in 9..15
         /\ Agreed(s, a).client_max_window_bits <= s.client_max_window_bits
         /\ Agreed(s, a).server_max_window_bits <= s.server_max_window_bits
<1>1. /\ s.client_max_window_bits \in 9..15 /\ s.server_max_window_bits \in 9..15
      /\ a.client_max_window_bits \in (9..15) \cup {Absent}
      /\ a.server_max_window_bits \in Bits \cup {Absent}
      /\ a.server_max_window_bits <= s.server_max_window_bits
  BY DEF Configured, ParamsSet, ParamsRefused, Bits, Absent, NoValue
<1> DEFINE w == IF a.server_max_window_bits = Absent
                  THEN s.server_max_window_bits ELSE a.server_max_window_bits
           v == IF a.client_max_window_bits = Absent THEN s.client_max_window_bits
                  ELSE MinOf(a.client_max_window_bits, s.client_max_window_bits)
<1>2. /\ w \in Bits /\ v \in 9..15 /\ v \in Bits
      /\ v <= s.client_max_window_bits /\ w <= s.server_max_window_bits
  BY <1>1 DEF MinOf, Bits, Absent
<1>3. /\ Agreed(s, a).client_max_window_bits = v /\ Agreed(s, a).server_max_window_bits = w
  BY DEF Agreed
<1>4. /\ a.server_no_context_takeover \in BOOLEAN
      /\ (s.client_no_context_takeover \/ a.client_no_context_takeover) \in BOOLEAN
  BY Zenon DEF ParamsSet
<1> HIDE DEF w, v
<1>5. Agreed(s, a) \in Settings
  BY <1>2, <1>4, Zenon DEF Agreed, Settings, w, v
<1> QED BY <1>2, <1>3, <1>5

\* A client configured with s keeps to the selection of `field`.
Keeps(s, d, field, deflate) ==
  /\ s \in Settings /\ Configured(s) /\ d = {s} /\ ~SelectionRefused(field)
  /\ \A a \in Selected(field) : a \in ParamsSet /\ ~ParamsRefused(s, a)
  /\ deflate = {Agreed(s, a) : a \in Selected(field)}

\* The extensions of a response and what the client makes of them.
LEMMA Verified ==
  ASSUME NEW d, Option(d), NEW field, NEW x, x = verify_deflate_response(d, field)
  PROVE  /\ x.err \in {"None", "InvalidHeader"} /\ x.deflate \subseteq Settings
         /\ x.err = "None" /\ d = {} => x.deflate = {} /\ headers_select_deflate(field) = "No"
         /\ x.err = "None" /\ d # {} => \E s : Keeps(s, d, field, x.deflate)
<1>1. CASE d = {}
  <2>1. x = Outcome(IF headers_select_deflate(field) = "No" THEN "None" ELSE "InvalidHeader", {})
    BY <1>1 DEF verify_deflate_response
  <2> QED BY <1>1, <2>1 DEF Outcome
<1>2. CASE d # {}
  <2>1. PICK s \in Settings : Configured(s) /\ d = {s}
    BY <1>2 DEF Option
  <2>2. x = accept_response(s, field)
    BY <2>1 DEF verify_deflate_response
  <2>3. \A a \in Selected(field) : a \in ParamsSet
    BY ParamsType DEF Selected, parse
  <2>4. CASE SelectionRefused(field) \/ \E a \in Selected(field) : ParamsRefused(s, a)
    <3>1. x = Outcome("InvalidHeader", {})
      BY <2>2, <2>4 DEF accept_response
    <3> QED BY <3>1 DEF Outcome
  <2>5. CASE ~(SelectionRefused(field) \/ \E a \in Selected(field) : ParamsRefused(s, a))
    <3>1. x = Outcome("None", {Agreed(s, a) : a \in Selected(field)})
      BY <2>2, <2>5 DEF accept_response
    <3>2. x.err = "None" /\ x.deflate = {Agreed(s, a) : a \in Selected(field)}
      BY <3>1 DEF Outcome
    <3>3. \A a \in Selected(field) : Agreed(s, a) \in Settings
      BY <2>1, <2>3, <2>5, AgreedType
    <3>4. Keeps(s, d, field, x.deflate)
      BY <2>1, <2>3, <2>5, <3>2, Zenon DEF Keeps
    <3> QED BY <1>2, <3>2, <3>3, <3>4
  <2> QED BY <2>4, <2>5
<1> QED BY <1>1, <1>2

-----------------------------------------------------------------------------
(* Lists of parameters *)

\* A parameter this library names.
Names == {"server_no_context_takeover", "client_no_context_takeover",
          "server_max_window_bits", "client_max_window_bits"}
Parm == [name : Names, value : Int]

\* List u is list s, then list t, whose parameter i is at g[i] of u.
Spliced(s, t, u, g) ==
  /\ DOMAIN u = DOMAIN s \cup {g[i] : i \in DOMAIN t}
  /\ \A i \in DOMAIN s : u[i] = s[i]
  /\ \A i \in DOMAIN t : u[g[i]] = t[i]

LEMMA SplicedNames ==
  ASSUME NEW s, NEW t, NEW u, NEW g, Spliced(s, t, u, g), NEW name
  PROVE  Named(u, name) = Named(s, name) \cup Named(t, name)
BY DEF Spliced, Named

LEMMA SplicedValid ==
  ASSUME NEW s, NEW t, NEW u, NEW g, Spliced(s, t, u, g), ValidParameters(s), ValidParameters(t),
         \A i \in DOMAIN s, j \in DOMAIN t : s[i].name # t[j].name
  PROVE  ValidParameters(u)
<1>1. \A i \in DOMAIN u : ValidParameter(u[i])
  BY DEF Spliced, ValidParameters
<1>2. ASSUME NEW a \in DOMAIN u, NEW b \in DOMAIN u, u[a].name = u[b].name PROVE a = b
  <2>1. CASE a \in DOMAIN s /\ b \in DOMAIN s
    BY <1>2, <2>1 DEF Spliced, ValidParameters
  <2>2. CASE a \in DOMAIN s /\ \E h \in DOMAIN t : b = g[h]
    BY <1>2, <2>2 DEF Spliced
  <2>3. CASE b \in DOMAIN s /\ \E h \in DOMAIN t : a = g[h]
    BY <1>2, <2>3 DEF Spliced
  <2>4. CASE (\E h \in DOMAIN t : a = g[h]) /\ (\E h \in DOMAIN t : b = g[h])
    BY <1>2, <2>4 DEF Spliced, ValidParameters
  <2> QED BY <2>1, <2>2, <2>3, <2>4 DEF Spliced
<1> QED BY <1>1, <1>2 DEF ValidParameters

LEMMA SpliceAt ==
  ASSUME NEW j \in Nat, NEW k \in Nat, NEW s, NEW t, NEW u, NEW g,
         DOMAIN s = 1..j, DOMAIN t = 1..k, DOMAIN u = 1..(j + k), g = [i \in 1..k |-> i + j],
         \A i \in 1..(j + k) : u[i] = IF i <= j THEN s[i] ELSE t[i - j]
  PROVE  Spliced(s, t, u, g)
<1>1. \A i \in 1..j : i \in 1..(j + k) /\ u[i] = s[i]
  OBVIOUS
<1>2. ASSUME NEW i \in 1..k PROVE g[i] \in 1..(j + k) /\ u[g[i]] = t[i]
  <2>1. i + j \in 1..(j + k) /\ ~(i + j <= j) /\ (i + j) - j = i /\ g[i] = i + j
    OBVIOUS
  <2> QED BY <2>1
<1>3. ASSUME NEW i \in 1..(j + k), i \notin 1..j PROVE \E h \in 1..k : i = g[h]
  <2>1. i - j \in 1..k /\ (i - j) + j = i
    BY <1>3
  <2> QED BY <2>1
<1>4. DOMAIN u = DOMAIN s \cup {g[i] : i \in DOMAIN t}
  <2>1. ASSUME NEW i \in DOMAIN u PROVE i \in DOMAIN s \cup {g[h] : h \in DOMAIN t}
    BY <1>3, <2>1, Zenon
  <2>2. ASSUME NEW i \in DOMAIN s \cup {g[h] : h \in DOMAIN t} PROVE i \in DOMAIN u
    BY <1>1, <1>2, <2>2, Zenon
  <2> QED BY <2>1, <2>2, Zenon
<1> QED BY <1>1, <1>2, <1>4, Zenon DEF Spliced

LEMMA Splice ==
  ASSUME NEW s \in Seq(Parm), NEW t \in Seq(Parm)
  PROVE  s \o t \in Seq(Parm) /\ \E g : Spliced(s, t, s \o t, g)
<1>1. PICK j, k : j = Len(s) /\ k = Len(t)
  OBVIOUS
<1>2. PICK u : u = s \o t
  OBVIOUS
<1>3. /\ u \in Seq(Parm) /\ Len(u) = j + k /\ j \in Nat /\ k \in Nat
      /\ \A i \in 1..(j + k) : u[i] = IF i <= j THEN s[i] ELSE t[i - j]
      /\ DOMAIN u = 1..(j + k) /\ DOMAIN s = 1..j /\ DOMAIN t = 1..k
  BY <1>1, <1>2
<1>4. PICK g : g = [i \in 1..k |-> i + j]
  OBVIOUS
<1>5. Spliced(s, t, u, g)
  BY <1>3, <1>4, SpliceAt
<1> QED BY <1>2, <1>3, <1>5

\* All parameters of p have that name, and V are their values.
Piece(p, name, V) ==
  /\ p \in Seq(Parm) /\ ValidParameters(p)
  /\ \A i \in DOMAIN p : p[i].name = name
  /\ Named(p, name) = V

LEMMA EmptyPiece == ASSUME NEW name PROVE Piece(<<>>, name, {})
<1>1. <<>> \in Seq(Parm) /\ Len(<<>>) = 0 /\ DOMAIN <<>> = {}
  OBVIOUS
<1>2. Named(<<>>, name) = {}
  BY <1>1 DEF Named
<1> QED BY <1>1, <1>2 DEF Piece, ValidParameters

LEMMA OnePiece ==
  ASSUME NEW name \in Names, NEW v \in Int, ValidParameter(Parameter(name, v))
  PROVE  Piece(<<Parameter(name, v)>>, name, {v})
<1>1. PICK e : e = Parameter(name, v)
  OBVIOUS
<1>2. e \in Parm /\ e.name = name /\ e.value = v /\ ValidParameter(e)
  BY <1>1 DEF Parameter, Parm
<1>3. PICK p : p = <<e>>
  OBVIOUS
<1>4. p \in Seq(Parm) /\ Len(p) = 1 /\ DOMAIN p = {1} /\ p[1] = e /\ 1..Len(p) = {1}
  BY <1>2, <1>3
<1>5. Named(p, name) = {v}
  BY <1>2, <1>4, Zenon DEF Named
<1> QED BY <1>1, <1>2, <1>3, <1>4, <1>5, Zenon DEF Piece, ValidParameters

\* A list of parameters, and the values it has for the four names.
Listed(p, A, B, C, D) ==
  /\ p \in Seq(Parm) /\ ValidParameters(p)
  /\ Named(p, "server_no_context_takeover") = A /\ Named(p, "client_no_context_takeover") = B
  /\ Named(p, "server_max_window_bits") = C /\ Named(p, "client_max_window_bits") = D

LEMMA NameFree ==
  ASSUME NEW s, NEW name, Named(s, name) = {} PROVE \A i \in DOMAIN s : s[i].name # name
BY DEF Named

LEMMA NotNamed ==
  ASSUME NEW t, NEW name, NEW V, Piece(t, name, V), NEW other, other # name
  PROVE  Named(t, other) = {}
<1>1. \A i \in DOMAIN t : t[i].name = name
  BY DEF Piece
<1> QED BY <1>1 DEF Named

\* Parameters s, and a piece with a name that s does not use.
Extends(s, u, name, V) ==
  /\ u \in Seq(Parm) /\ ValidParameters(u) /\ Named(u, name) = V
  /\ \A other : other # name => Named(u, other) = Named(s, other)

LEMMA Join ==
  ASSUME NEW s \in Seq(Parm), ValidParameters(s), NEW t, NEW name, NEW V, Piece(t, name, V),
         Named(s, name) = {}
  PROVE  Extends(s, s \o t, name, V)
<1>1. /\ t \in Seq(Parm) /\ ValidParameters(t) /\ Named(t, name) = V
      /\ \A i \in DOMAIN t : t[i].name = name
  BY DEF Piece
<1>2. PICK u : u = s \o t
  OBVIOUS
<1>3. PICK g : u \in Seq(Parm) /\ Spliced(s, t, u, g)
  BY <1>1, <1>2, Splice, Zenon
<1>4. Named(u, name) = V
  <2>1. Named(u, name) = Named(s, name) \cup Named(t, name)
    BY <1>3, SplicedNames
  <2> QED BY <1>1, <2>1
<1>5. ASSUME NEW other, other # name PROVE Named(u, other) = Named(s, other)
  <2>1. Named(u, other) = Named(s, other) \cup Named(t, other)
    BY <1>3, SplicedNames
  <2>2. Named(t, other) = {}
    BY <1>5, NotNamed
  <2> QED BY <2>1, <2>2
<1>6. ValidParameters(u)
  <2>1. \A i \in DOMAIN s : s[i].name # name
    BY NameFree
  <2>2. \A i \in DOMAIN s, j \in DOMAIN t : s[i].name # t[j].name
    BY <1>1, <2>1
  <2> QED BY <1>1, <1>3, <2>2, SplicedValid
<1>7. Extends(s, u, name, V)
  BY <1>3, <1>4, <1>5, <1>6, Zenon DEF Extends
<1> QED BY <1>2, <1>7

\* The order of the four is the one of offer and of Answer.
LEMMA FourPieces ==
  ASSUME NEW a, NEW b, NEW c, NEW d, NEW A, NEW B, NEW C, NEW D,
         Piece(a, "server_no_context_takeover", A), Piece(b, "client_no_context_takeover", B),
         Piece(c, "server_max_window_bits", C), Piece(d, "client_max_window_bits", D)
  PROVE  Listed(a \o b \o c \o d, A, B, C, D)
<1>1. Listed(a, A, {}, {}, {})
  <2>1. \A other : other # "server_no_context_takeover" => Named(a, other) = {}
    BY NotNamed
  <2> QED BY <2>1 DEF Piece, Listed
<1>2. PICK u, v, w : u = a \o b /\ v = u \o c /\ w = v \o d
  OBVIOUS
<1>3. Listed(u, A, B, {}, {})
  <2>1. /\ a \in Seq(Parm) /\ ValidParameters(a) /\ Named(a, "client_no_context_takeover") = {}
    BY <1>1 DEF Listed
  <2>2. Extends(a, a \o b, "client_no_context_takeover", B)
    BY <2>1, Join, Zenon
  <2>3. Extends(a, u, "client_no_context_takeover", B)
    BY <1>2, <2>2, Zenon
  <2> QED BY <1>1, <2>3 DEF Listed, Extends
<1>4. Listed(v, A, B, C, {})
  <2>1. /\ u \in Seq(Parm) /\ ValidParameters(u) /\ Named(u, "server_max_window_bits") = {}
    BY <1>3 DEF Listed
  <2>2. Extends(u, u \o c, "server_max_window_bits", C)
    BY <2>1, Join, Zenon
  <2>3. Extends(u, v, "server_max_window_bits", C)
    BY <1>2, <2>2, Zenon
  <2> QED BY <1>3, <2>3 DEF Listed, Extends
<1>5. Listed(w, A, B, C, D)
  <2>1. /\ v \in Seq(Parm) /\ ValidParameters(v) /\ Named(v, "client_max_window_bits") = {}
    BY <1>4 DEF Listed
  <2>2. Extends(v, v \o d, "client_max_window_bits", D)
    BY <2>1, Join, Zenon
  <2>3. Extends(v, w, "client_max_window_bits", D)
    BY <1>2, <2>2, Zenon
  <2> QED BY <1>4, <2>3 DEF Listed, Extends
<1> QED BY <1>2, <1>5, Zenon

\* The value of a window.
ValueIn(V) == IF V = {} THEN Absent ELSE CHOOSE v \in V : TRUE

LEMMA ValueIs == ValueIn({}) = Absent /\ \A v : ValueIn({v}) = v
BY DEF ValueIn

Says(o, A, B, C, D) ==
  /\ o.server_no_context_takeover = (A # {}) /\ o.client_no_context_takeover = (B # {})
  /\ o.server_max_window_bits = ValueIn(C) /\ o.client_max_window_bits = ValueIn(D)

LEMMA ParamsListed ==
  ASSUME NEW p, NEW A, NEW B, NEW C, NEW D, Listed(p, A, B, C, D), NEW o, o = Params(p)
  PROVE  ValidParameters(p) /\ Says(o, A, B, C, D)
<1>1. /\ WindowIn(p, "server_max_window_bits") = ValueIn(C)
      /\ WindowIn(p, "client_max_window_bits") = ValueIn(D)
  <2>1. \A name : WindowIn(p, name) = ValueIn(Named(p, name))
    BY DEF WindowIn, ValueIn
  <2> QED BY <2>1, Zenon DEF Listed
<1>2. /\ o.server_no_context_takeover = (Named(p, "server_no_context_takeover") # {})
      /\ o.client_no_context_takeover = (Named(p, "client_no_context_takeover") # {})
      /\ o.server_max_window_bits = WindowIn(p, "server_max_window_bits")
      /\ o.client_max_window_bits = WindowIn(p, "client_max_window_bits")
  BY Zenon DEF Params
<1> QED BY <1>1, <1>2, Zenon DEF Listed, Says

LEMMA FlagPiece ==
  ASSUME NEW set, NEW name \in {"server_no_context_takeover", "client_no_context_takeover"}
  PROVE  Piece(Flag(set, name), name, IF set THEN {NoValue} ELSE {})
<1>1. CASE set
  <2>1. ValidParameter(Parameter(name, NoValue)) /\ NoValue \in Int /\ name \in Names
    BY DEF ValidParameter, Parameter, NoValue, Names
  <2>2. Piece(<<Parameter(name, NoValue)>>, name, {NoValue})
    BY <2>1, OnePiece
  <2> QED BY <1>1, <2>2 DEF Flag
<1>2. CASE ~set
  BY <1>2, EmptyPiece DEF Flag
<1> QED BY <1>1, <1>2

LEMMA WindowPiece ==
  ASSUME NEW v \in Bits, NEW named, NEW name \in {"server_max_window_bits", "client_max_window_bits"}
  PROVE  Piece(Window(v, named, name), name, IF named THEN {v} ELSE {})
<1>1. CASE named
  <2>1. ValidParameter(Parameter(name, v)) /\ v \in Int /\ name \in Names
    BY DEF ValidParameter, Parameter, Bits, Names
  <2>2. Piece(<<Parameter(name, v)>>, name, {v})
    BY <2>1, OnePiece
  <2> QED BY <1>1, <2>2 DEF Window
<1>2. CASE ~named
  BY <1>2, EmptyPiece DEF Window
<1> QED BY <1>1, <1>2

\* What an offer of this library says.
LEMMA OfferIs ==
  ASSUME NEW s \in Settings, NEW o, o = Params(offer(s).params)
  PROVE  /\ parse(offer(s)) = "Deflate" /\ o \in ParamsSet
         /\ offer(s).params \in Seq(Parm) /\ offer(s) = Deflate(offer(s).params)
         /\ o.server_no_context_takeover = s.server_no_context_takeover
         /\ o.client_no_context_takeover = s.client_no_context_takeover
         /\ o.server_max_window_bits = (IF s.server_max_window_bits < 15
                                          THEN s.server_max_window_bits ELSE Absent)
         /\ o.client_max_window_bits = NoValue
<1>1. PICK a, b, c, d, A, B, C :
        /\ A = (IF s.server_no_context_takeover THEN {NoValue} ELSE {})
        /\ B = (IF s.client_no_context_takeover THEN {NoValue} ELSE {})
        /\ a = Flag(s.server_no_context_takeover, "server_no_context_takeover")
        /\ b = Flag(s.client_no_context_takeover, "client_no_context_takeover")
        /\ c = Window(s.server_max_window_bits, s.server_max_window_bits < 15, "server_max_window_bits")
        /\ d = <<Parameter("client_max_window_bits", NoValue)>>
        /\ C = (IF s.server_max_window_bits < 15 THEN {s.server_max_window_bits} ELSE {})
  OBVIOUS
<1>2. PICK p : p = a \o b \o c \o d
  OBVIOUS
<1>3. offer(s) = Deflate(p)
  BY <1>1, <1>2, Zenon DEF offer, Window
<1>4. /\ s.server_no_context_takeover \in BOOLEAN /\ s.client_no_context_takeover \in BOOLEAN
      /\ s.server_max_window_bits \in Bits
  BY DEF Settings
<1>5. Piece(a, "server_no_context_takeover", A)
  BY <1>1, FlagPiece, Zenon
<1>6. Piece(b, "client_no_context_takeover", B)
  BY <1>1, FlagPiece, Zenon
<1>7. Piece(c, "server_max_window_bits", C)
  BY <1>1, <1>4, WindowPiece, Zenon
<1>8. Piece(d, "client_max_window_bits", {NoValue})
  <2>1. ValidParameter(Parameter("client_max_window_bits", NoValue)) /\ NoValue \in Int
    BY DEF ValidParameter, Parameter, NoValue
  <2>2. "client_max_window_bits" \in Names
    BY DEF Names
  <2>3. Piece(<<Parameter("client_max_window_bits", NoValue)>>, "client_max_window_bits", {NoValue})
    BY <2>1, <2>2, OnePiece
  <2> QED BY <1>1, <2>3, Zenon
<1>9. Listed(p, A, B, C, {NoValue})
  BY <1>2, <1>5, <1>6, <1>7, <1>8, FourPieces, Zenon
<1>10. offer(s).params = p /\ offer(s).name = "permessage-deflate"
  BY <1>3 DEF Deflate
<1>11. ValidParameters(p) /\ Says(o, A, B, C, {NoValue})
  <2>1. o = Params(p)
    BY <1>10
  <2> QED BY <1>9, <2>1, ParamsListed, Zenon
<1>12. /\ o.server_no_context_takeover = s.server_no_context_takeover
       /\ o.client_no_context_takeover = s.client_no_context_takeover
  BY <1>1, <1>4, <1>11, Zenon DEF Says
<1>13. /\ o.server_max_window_bits = (IF s.server_max_window_bits < 15
                                        THEN s.server_max_window_bits ELSE Absent)
       /\ o.client_max_window_bits = NoValue
  BY <1>1, <1>11, ValueIs DEF Says
<1>14. parse(offer(s)) = "Deflate"
  BY <1>10, <1>11 DEF parse
<1>15. o \in ParamsSet
  BY <1>10, <1>11, ParamsType
<1>16. offer(s).params \in Seq(Parm) /\ offer(s) = Deflate(offer(s).params)
  BY <1>3, <1>9, <1>10, Zenon DEF Listed
<1> QED BY <1>12, <1>13, <1>14, <1>15, <1>16, Zenon

\* What an answer of this library says.
LEMMA AnswerSays ==
  ASSUME NEW g \in Settings, NEW w \in Bits \cup {Absent}, NEW a, a = Params(Answer(g, w).params)
  PROVE  /\ parse(Answer(g, w)) = "Deflate" /\ a \in ParamsSet
         /\ Answer(g, w).name = "permessage-deflate"
         /\ a.server_no_context_takeover = g.server_no_context_takeover
         /\ a.client_no_context_takeover = g.client_no_context_takeover
         /\ a.server_max_window_bits = w
         /\ a.client_max_window_bits = (IF g.client_max_window_bits < 15
                                          THEN g.client_max_window_bits ELSE Absent)
<1>1. PICK e, b, c, d, A, B, C, D :
        /\ A = (IF g.server_no_context_takeover THEN {NoValue} ELSE {})
        /\ B = (IF g.client_no_context_takeover THEN {NoValue} ELSE {})
        /\ e = Flag(g.server_no_context_takeover, "server_no_context_takeover")
        /\ b = Flag(g.client_no_context_takeover, "client_no_context_takeover")
        /\ c = Window(w, w # Absent, "server_max_window_bits")
        /\ d = Window(g.client_max_window_bits, g.client_max_window_bits < 15, "client_max_window_bits")
        /\ C = (IF w # Absent THEN {w} ELSE {})
        /\ D = (IF g.client_max_window_bits < 15 THEN {g.client_max_window_bits} ELSE {})
  OBVIOUS
<1>2. PICK p : p = e \o b \o c \o d
  OBVIOUS
<1>3. Answer(g, w) = Deflate(p)
  BY <1>1, <1>2, Zenon DEF Answer
<1>4. /\ g.server_no_context_takeover \in BOOLEAN /\ g.client_no_context_takeover \in BOOLEAN
      /\ g.client_max_window_bits \in Bits
  BY DEF Settings
<1>5. Piece(e, "server_no_context_takeover", A)
  BY <1>1, FlagPiece, Zenon
<1>6. Piece(b, "client_no_context_takeover", B)
  BY <1>1, FlagPiece, Zenon
<1>7. Piece(c, "server_max_window_bits", C)
  <2>1. CASE w = Absent
    <3>1. c = <<>> /\ C = {}
      BY <1>1, <2>1, Zenon DEF Window
    <3> QED BY <3>1, EmptyPiece
  <2>2. CASE w # Absent
    <3>1. w \in Bits
      BY <2>2, Zenon
    <3> QED BY <1>1, <3>1, WindowPiece, Zenon
  <2> QED BY <2>1, <2>2
<1>8. Piece(d, "client_max_window_bits", D)
  BY <1>1, <1>4, WindowPiece, Zenon
<1>9. Listed(p, A, B, C, D)
  BY <1>2, <1>5, <1>6, <1>7, <1>8, FourPieces, Zenon
<1>10. Answer(g, w).params = p /\ Answer(g, w).name = "permessage-deflate"
  BY <1>3 DEF Deflate
<1>11. ValidParameters(p) /\ Says(a, A, B, C, D)
  <2>1. a = Params(p)
    BY <1>10
  <2> QED BY <1>9, <2>1, ParamsListed, Zenon
<1>12. /\ a.server_no_context_takeover = g.server_no_context_takeover
       /\ a.client_no_context_takeover = g.client_no_context_takeover
  BY <1>1, <1>4, <1>11, Zenon DEF Says
<1>13. /\ a.server_max_window_bits = w
       /\ a.client_max_window_bits = (IF g.client_max_window_bits < 15
                                        THEN g.client_max_window_bits ELSE Absent)
  BY <1>1, <1>11, ValueIs DEF Says
<1>14. parse(Answer(g, w)) = "Deflate"
  BY <1>10, <1>11 DEF parse
<1>15. a \in ParamsSet
  BY <1>10, <1>11, ParamsType
<1> QED BY <1>10, <1>12, <1>13, <1>14, <1>15

LEMMA PlacesType ==
  ASSUME NEW field \in Fields, NEW p \in Places(field) PROVE p[1] \in Int /\ p[2] \in Int
<1>1. PICK i, j : i \in DOMAIN field /\ j \in DOMAIN field[i].extensions /\ p = <<i, j>>
  BY DEF Places
<1>2. PICK E : field \in Seq([splits : BOOLEAN, extensions : Seq(E)])
  BY DEF Fields
<1>3. i \in Int /\ field[i] \in [splits : BOOLEAN, extensions : Seq(E)]
  <2>1. PICK F : F = [splits : BOOLEAN, extensions : Seq(E)]
    OBVIOUS
  <2>2. field \in Seq(F) /\ i \in DOMAIN field
    BY <1>1, <1>2, <2>1
  <2>3. i \in Int /\ field[i] \in F
    BY <2>2
  <2> QED BY <2>1, <2>3
<1>4. PICK f : f = field[i].extensions
  OBVIOUS
<1>5. f \in Seq(E) /\ j \in DOMAIN f
  BY <1>1, <1>3, <1>4
<1>6. j \in Int
  BY <1>5
<1> QED BY <1>1, <1>3, <1>6

\* Of the acceptable offers one is the earliest.
LEMMA OneEarliest ==
  ASSUME NEW offers, \A a \in offers : a.at[1] \in Int /\ a.at[2] \in Int,
         NEW a \in Earliest(offers), NEW b \in Earliest(offers)
  PROVE  a = b
<1>1. a \in offers /\ b \in offers /\ (b = a \/ Before(a.at, b.at)) /\ (a = b \/ Before(b.at, a.at))
  BY DEF Earliest
<1>2. PICK i, j, k, l : i = a.at[1] /\ j = a.at[2] /\ k = b.at[1] /\ l = b.at[2]
  OBVIOUS
<1>3. i \in Int /\ j \in Int /\ k \in Int /\ l \in Int
  BY <1>1, <1>2
<1>4. ~(Before(a.at, b.at) /\ Before(b.at, a.at))
  <2>1. Before(a.at, b.at) <=> i < k \/ (i = k /\ j < l)
    BY <1>2, Zenon DEF Before
  <2>2. Before(b.at, a.at) <=> k < i \/ (k = i /\ l < j)
    BY <1>2, Zenon DEF Before
  <2>3. ~((i < k \/ (i = k /\ j < l)) /\ (k < i \/ (k = i /\ l < j)))
    BY <1>3
  <2> QED BY <2>1, <2>2, <2>3
<1> QED BY <1>1, <1>4

LEMMA OneAccepted ==
  ASSUME NEW d, Option(d), NEW field \in Fields,
         NEW a \in accept_deflate_offers(d, field), NEW b \in accept_deflate_offers(d, field)
  PROVE  a = b
<1>1. PICK s : d = {s}
  BY DEF Option, accept_deflate_offers
<1>2. a \in accept_offers(s, field) /\ b \in accept_offers(s, field)
  BY <1>1 DEF accept_deflate_offers
<1>3. PICK offers : /\ offers \subseteq Acceptable(s, field)
                    /\ a \in Earliest(offers) /\ b \in Earliest(offers)
  BY <1>2 DEF accept_offers, Preferred, Binding
<1>4. ASSUME NEW c \in Acceptable(s, field) PROVE c.at \in Places(field)
  <2>1. PICK p \in Places(field) : \E e \in accept_offer(s, Params(At(field, p).params)) :
          c = [at |-> p, agreed |-> e.agreed, answer |-> e.answer]
    BY <1>4 DEF Acceptable
  <2> QED BY <2>1
<1>5. \A c \in offers : c.at[1] \in Int /\ c.at[2] \in Int
  BY <1>3, <1>4, PlacesType
<1> QED BY <1>3, <1>5, OneEarliest

-----------------------------------------------------------------------------
(* The outcome of the negotiation *)

\* A server configured with d answered `request` with `field` and installs `deflate`.
HasAgreed(d, request, field, deflate) ==
  \E cb \in Callbacks :
    LET x == ServerExtensions(d, accept_deflate_offers(d, request), cb)
    IN  x.err = "None" /\ deflate = x.deflate /\ field = x.extensions

\* Nothing is selected: `field` is what the callback added.
Declined(field, deflate) ==
  /\ deflate = {} /\ headers_select_deflate(field) = "No"
  /\ \E cb \in Callbacks : field = cb.extensions

\* Offer o is accepted with configuration t.
Struck(t, o, field, deflate) ==
  /\ t \in Settings /\ Configured(t) /\ o \in ParamsSet /\ o.server_max_window_bits # 8
  /\ deflate = {Settled(t, o, ServerWindow(t, o))}
  /\ field = Field(Answer(Settled(t, o, ServerWindow(t, o)), ServerWindow(t, o)))

LEMMA NothingSelected == headers_select_deflate(<<>>) = "No"
BY DEF headers_select_deflate

LEMMA AgreedIs ==
  ASSUME NEW d, Option(d), NEW request \in Fields, NEW field, NEW deflate,
         HasAgreed(d, request, field, deflate)
  PROVE  \/ Declined(field, deflate)
         \/ \E t \in d, p \in Places(request) :
              /\ parse(At(request, p)) = "Deflate"
              /\ Struck(t, Params(At(request, p).params), field, deflate)
<1>1. PICK acc : acc = accept_deflate_offers(d, request)
  OBVIOUS
<1>2. PICK cb \in Callbacks :
        /\ ServerExtensions(d, acc, cb).err = "None" /\ deflate = ServerExtensions(d, acc, cb).deflate
        /\ field = ServerExtensions(d, acc, cb).extensions
  BY <1>1, Zenon DEF HasAgreed
<1>3. /\ IF d # {} THEN cb.extensions = <<>> ELSE headers_select_deflate(cb.extensions) = "No"
      /\ deflate = {a.agreed : a \in acc}
      /\ field = IF acc = {} THEN cb.extensions ELSE Field((CHOOSE a \in acc : TRUE).answer)
  <2>1. ServerExtensions(d, acc, cb) # Refusal("InvalidHeader")
    BY <1>2 DEF Refusal
  <2>2. ~(IF d # {} THEN cb.extensions # <<>> ELSE headers_select_deflate(cb.extensions) # "No")
    BY <2>1, Zenon DEF ServerExtensions
  <2>3. ServerExtensions(d, acc, cb) =
          [err |-> "None", deflate |-> {a.agreed : a \in acc},
           extensions |-> IF acc = {} THEN cb.extensions
                          ELSE Field((CHOOSE a \in acc : TRUE).answer)]
    BY <2>2, Zenon DEF ServerExtensions
  <2>4. PICK A, e : /\ A = {a.agreed : a \in acc}
                    /\ e = IF acc = {} THEN cb.extensions
                           ELSE Field((CHOOSE a \in acc : TRUE).answer)
    OBVIOUS
  <2>5. ServerExtensions(d, acc, cb) = [err |-> "None", deflate |-> A, extensions |-> e]
    BY <2>3, <2>4, Zenon
  <2>6. deflate = A /\ field = e
    BY <1>2, <2>5
  <2>7. IF d # {} THEN cb.extensions = <<>> ELSE headers_select_deflate(cb.extensions) = "No"
    BY <2>2
  <2> QED BY <2>4, <2>6, <2>7, Zenon
<1>4. CASE acc = {}
  <2>1. deflate = {} /\ field = cb.extensions
    BY <1>3, <1>4
  <2>2. headers_select_deflate(field) = "No"
    BY <1>3, <2>1, NothingSelected, Zenon
  <2> QED BY <2>1, <2>2 DEF Declined
<1>5. CASE acc # {}
  <2>1. PICK a : a = CHOOSE c \in acc : TRUE
    OBVIOUS
  <2>2. a \in acc
    BY <1>5, <2>1, Zenon
  <2>3. acc = {a}
    BY <1>1, <2>2, OneAccepted
  <2>4. deflate = {a.agreed} /\ field = Field(a.answer)
    <3>1. field = Field(a.answer)
      BY <1>3, <1>5, <2>1, Zenon
    <3>2. deflate = {a.agreed}
      BY <1>3, <2>3
    <3> QED BY <3>1, <3>2
  <2>5. PICK t \in d, p \in Places(request) :
          /\ parse(At(request, p)) = "Deflate" /\ a.at = p
          /\ Bargain(t, Params(At(request, p).params), a)
    BY <1>1, <2>2, Accepted, Zenon
  <2>6. Struck(t, Params(At(request, p).params), field, deflate)
    BY <2>4, <2>5, Zenon DEF Struck, Bargain
  <2> QED BY <2>5, <2>6, Zenon
<1> QED BY <1>4, <1>5

LEMMA FieldIs ==
  ASSUME NEW e
  PROVE  /\ At(Field(e), <<1, 1>>) = e /\ Places(Field(e)) = {<<1, 1>>}
         /\ \A i \in DOMAIN Field(e) : Field(e)[i].splits
         /\ e.name = "permessage-deflate" => headers_select_deflate(Field(e)) # "No"
<1>1. PICK v, f : v = HeaderValue(<<e>>) /\ f = <<v>>
  OBVIOUS
<1>2. v.splits = TRUE /\ v.extensions = <<e>>
  BY <1>1 DEF HeaderValue
<1>3. DOMAIN f = {1} /\ f[1] = v /\ DOMAIN <<e>> = {1} /\ <<e>>[1] = e
  BY <1>1
<1>4. f = Field(e)
  BY <1>1 DEF Field
<1>5. At(f, <<1, 1>>) = e
  BY <1>2, <1>3 DEF At
<1>6. Places(f) = {<<1, 1>>}
  <2>1. {k \in DOMAIN f : f[k].splits} = {1} /\ f[1].extensions = <<e>>
    BY <1>2, <1>3, Zenon
  <2>2. Places(f) = UNION {{<<i, j>> : j \in DOMAIN f[i].extensions} : i \in {1}}
    BY <2>1, Zenon DEF Places
  <2>3. Places(f) = {<<1, j>> : j \in DOMAIN f[1].extensions}
    BY <2>2
  <2>4. Places(f) = {<<1, j>> : j \in {1}}
    BY <1>3, <2>1, <2>3, Zenon
  <2> QED BY <2>4
<1>7. \A i \in DOMAIN f : f[i].splits
  BY <1>2, <1>3, Zenon
<1>8. ASSUME e.name = "permessage-deflate" PROVE headers_select_deflate(f) # "No"
  <2> DEFINE T == {i \in DOMAIN f : ~f[i].splits \/ \E j \in DOMAIN f[i].extensions :
                                     f[i].extensions[j].name = "permessage-deflate"}
  <2>1. 1 \in T
    BY <1>2, <1>3, <1>8, Zenon
  <2>2. headers_select_deflate(f) \in {"Yes", "Err"}
    <3>1. T # {}
      BY <2>1
    <3>2. headers_select_deflate(f) =
            IF T = {} THEN "No"
            ELSE IF f[CHOOSE i \in T : \A k \in T : i <= k].splits THEN "Yes" ELSE "Err"
      BY Zenon DEF headers_select_deflate
    <3> HIDE DEF T
    <3> QED BY <3>1, <3>2
  <2> QED BY <2>2
<1> QED BY <1>4, <1>5, <1>6, <1>7, <1>8, Zenon

LEMMA CodecIs ==
  ASSUME NEW s
  PROVE  /\ Codec("Client", s).enc_window = s.client_max_window_bits
         /\ Codec("Client", s).dec_window =
              (IF s.server_max_window_bits < 9 THEN 9 ELSE s.server_max_window_bits)
         /\ Codec("Client", s).reset_encoder = s.client_no_context_takeover
         /\ Codec("Client", s).reset_decoder = s.server_no_context_takeover
         /\ Codec("Server", s).enc_window = s.server_max_window_bits
         /\ Codec("Server", s).dec_window =
              (IF s.client_max_window_bits < 9 THEN 9 ELSE s.client_max_window_bits)
         /\ Codec("Server", s).reset_encoder = s.server_no_context_takeover
         /\ Codec("Server", s).reset_decoder = s.client_no_context_takeover
BY DEF Codec

\* A server with settings s inflates what a client with settings c deflates, and the reverse.
LEMMA ServerDecodes ==
  ASSUME NEW c, NEW s, c.client_max_window_bits \in Int, s.client_max_window_bits \in Int,
         c.client_max_window_bits <= s.client_max_window_bits,
         s.client_no_context_takeover => c.client_no_context_takeover
  PROVE  Decodes(Codec("Client", c), Codec("Server", s))
<1>1. PICK x, y : x = Codec("Client", c) /\ y = Codec("Server", s)
  OBVIOUS
<1>2. /\ x.enc_window = c.client_max_window_bits
      /\ y.dec_window = (IF s.client_max_window_bits < 9 THEN 9 ELSE s.client_max_window_bits)
      /\ x.reset_encoder = c.client_no_context_takeover
      /\ y.reset_decoder = s.client_no_context_takeover
  BY <1>1, CodecIs, Zenon
<1>3. x.enc_window <= y.dec_window
  BY <1>2
<1>4. y.reset_decoder => x.reset_encoder
  BY <1>2, Zenon
<1>5. Decodes(x, y)
  BY <1>3, <1>4, Zenon DEF Decodes
<1> QED BY <1>1, <1>5, Zenon

LEMMA ClientDecodes ==
  ASSUME NEW c, NEW s, c.server_max_window_bits \in Int, s.server_max_window_bits \in Int,
         s.server_max_window_bits <= c.server_max_window_bits,
         c.server_no_context_takeover => s.server_no_context_takeover
  PROVE  Decodes(Codec("Server", s), Codec("Client", c))
<1>1. PICK x, y : x = Codec("Server", s) /\ y = Codec("Client", c)
  OBVIOUS
<1>2. /\ x.enc_window = s.server_max_window_bits
      /\ y.dec_window = (IF c.server_max_window_bits < 9 THEN 9 ELSE c.server_max_window_bits)
      /\ x.reset_encoder = s.server_no_context_takeover
      /\ y.reset_decoder = c.server_no_context_takeover
  BY <1>1, CodecIs, Zenon
<1>3. x.enc_window <= y.dec_window
  BY <1>2
<1>4. y.reset_decoder => x.reset_encoder
  BY <1>2, Zenon
<1>5. Decodes(x, y)
  BY <1>3, <1>4, Zenon DEF Decodes
<1> QED BY <1>1, <1>5, Zenon

\* The settings of WidestCodec.
Widest(a) ==
  [a EXCEPT !.server_max_window_bits = IF @ = Absent THEN 15 ELSE @,
            !.client_max_window_bits = IF @ = Absent THEN 15 ELSE @]

LEMMA WidestIs ==
  ASSUME NEW a \in ParamsSet
  PROVE  /\ \A role : WidestCodec(role, a) = Codec(role, Widest(a))
         /\ Widest(a).server_no_context_takeover = a.server_no_context_takeover
         /\ Widest(a).client_no_context_takeover = a.client_no_context_takeover
         /\ Widest(a).server_max_window_bits =
              (IF a.server_max_window_bits = Absent THEN 15 ELSE a.server_max_window_bits)
         /\ Widest(a).client_max_window_bits =
              (IF a.client_max_window_bits = Absent THEN 15 ELSE a.client_max_window_bits)
<1>1. \A role : WidestCodec(role, a) = Codec(role, Widest(a))
  BY Zenon DEF WidestCodec, Widest
<1>2. /\ Widest(a).server_no_context_takeover = a.server_no_context_takeover
      /\ Widest(a).client_no_context_takeover = a.client_no_context_takeover
      /\ Widest(a).server_max_window_bits =
           (IF a.server_max_window_bits = Absent THEN 15 ELSE a.server_max_window_bits)
      /\ Widest(a).client_max_window_bits =
           (IF a.client_max_window_bits = Absent THEN 15 ELSE a.client_max_window_bits)
  BY DEF Widest, ParamsSet
<1> QED BY <1>1, <1>2

\* The server, configured with t, accepted offer o with the parameters a in `field`, and
\* installs g.
Deal(t, o, g, a, field, deflate) ==
  /\ g \in Settings /\ a \in ParamsSet
  /\ deflate = {g} /\ g.server_max_window_bits \in 9..15
  /\ At(field, <<1, 1>>).name = "permessage-deflate"
  /\ parse(At(field, <<1, 1>>)) = "Deflate" /\ Params(At(field, <<1, 1>>).params) = a
  /\ Places(field) = {<<1, 1>>} /\ (\A i \in DOMAIN field : field[i].splits)
  /\ headers_select_deflate(field) # "No"
  /\ g.server_no_context_takeover =
       (t.server_no_context_takeover \/ o.server_no_context_takeover)
  /\ g.server_max_window_bits =
       (IF a.server_max_window_bits = Absent THEN 15 ELSE a.server_max_window_bits)
  /\ g.client_max_window_bits =
       (IF a.client_max_window_bits = Absent THEN 15 ELSE a.client_max_window_bits)
  /\ a.client_max_window_bits # 15
  /\ a.server_no_context_takeover = g.server_no_context_takeover
  /\ a.client_no_context_takeover = g.client_no_context_takeover
  /\ a.server_max_window_bits = ServerWindow(t, o)
  /\ g.client_max_window_bits = ClientWindow(t, o)

LEMMA StruckIs ==
  ASSUME NEW t, NEW o, NEW field, NEW deflate, Struck(t, o, field, deflate)
  PROVE  \E g, a : Deal(t, o, g, a, field, deflate)
<1>1. /\ t \in Settings /\ Configured(t) /\ o \in ParamsSet /\ o.server_max_window_bits # 8
  BY DEF Struck
<1>2. PICK w, g, e, a : /\ w = ServerWindow(t, o) /\ g = Settled(t, o, w) /\ e = Answer(g, w)
                        /\ a = Params(e.params)
  OBVIOUS
<1>3. /\ w \in (9..15) \cup {Absent}
      /\ w = Absent => t.server_max_window_bits = 15
  BY <1>1, <1>2, ServerWindowType
<1>4. g \in Settings
  BY <1>1, <1>2, SettledType
<1>5. /\ g.server_no_context_takeover =
           (t.server_no_context_takeover \/ o.server_no_context_takeover)
      /\ g.server_max_window_bits = (IF w = Absent THEN t.server_max_window_bits ELSE w)
      /\ g.client_max_window_bits = ClientWindow(t, o)
  BY <1>2, Zenon DEF Settled
<1>6. g.server_max_window_bits \in 9..15 /\ g.server_max_window_bits = (IF w = Absent THEN 15 ELSE w)
  BY <1>3, <1>5
<1>7. w \in Bits \cup {Absent}
  BY <1>3 DEF Bits
<1>8. /\ parse(e) = "Deflate" /\ a \in ParamsSet /\ e.name = "permessage-deflate"
      /\ a.server_no_context_takeover = g.server_no_context_takeover
      /\ a.client_no_context_takeover = g.client_no_context_takeover
      /\ a.server_max_window_bits = w
      /\ a.client_max_window_bits = (IF g.client_max_window_bits < 15
                                       THEN g.client_max_window_bits ELSE Absent)
  BY <1>2, <1>4, <1>7, AnswerSays
<1>9. field = Field(e) /\ deflate = {g}
  BY <1>2, Zenon DEF Struck
<1>10. /\ At(field, <<1, 1>>) = e /\ Places(field) = {<<1, 1>>}
       /\ \A i \in DOMAIN field : field[i].splits
       /\ headers_select_deflate(field) # "No"
  BY <1>8, <1>9, FieldIs, Zenon
<1>11. /\ g.client_max_window_bits =
            (IF a.client_max_window_bits = Absent THEN 15 ELSE a.client_max_window_bits)
       /\ a.client_max_window_bits # 15
  <2>1. g.client_max_window_bits \in 8..15
    BY <1>4 DEF Settings, Bits
  <2> QED BY <1>8, <2>1 DEF Absent
<1>12. g.server_max_window_bits =
         (IF a.server_max_window_bits = Absent THEN 15 ELSE a.server_max_window_bits)
  BY <1>6, <1>8
<1>13. Deal(t, o, g, a, field, deflate)
  BY <1>2, <1>4, <1>5, <1>6, <1>8, <1>9, <1>10, <1>11, <1>12, Zenon DEF Deal
<1> QED BY <1>13, Zenon

\* The server's codec works with every codec its answer leaves to the client.
LEMMA DealWorks ==
  ASSUME NEW t, NEW o, NEW g, NEW a, NEW field, NEW deflate,
         Struck(t, o, field, deflate), Deal(t, o, g, a, field, deflate)
  PROVE  /\ Fits(o, a) /\ Buildable(Codec("Server", g))
         /\ Decodes(WidestCodec("Client", a), Codec("Server", g))
         /\ Decodes(Codec("Server", g), WidestCodec("Client", a))
<1>1. /\ t \in Settings /\ Configured(t) /\ o \in ParamsSet /\ o.server_max_window_bits # 8
  BY DEF Struck
<1>2. /\ g \in Settings /\ a \in ParamsSet /\ g.server_max_window_bits \in 9..15
      /\ a.client_max_window_bits # 15
      /\ a.server_no_context_takeover = g.server_no_context_takeover
      /\ a.client_no_context_takeover = g.client_no_context_takeover
      /\ g.server_no_context_takeover =
           (t.server_no_context_takeover \/ o.server_no_context_takeover)
      /\ g.server_max_window_bits =
           (IF a.server_max_window_bits = Absent THEN 15 ELSE a.server_max_window_bits)
      /\ g.client_max_window_bits =
           (IF a.client_max_window_bits = Absent THEN 15 ELSE a.client_max_window_bits)
      /\ a.server_max_window_bits = ServerWindow(t, o)
      /\ g.client_max_window_bits = ClientWindow(t, o)
  BY Zenon DEF Deal
<1>3. Fits(o, a)
  <2>1. o.server_no_context_takeover => a.server_no_context_takeover
    BY <1>2, Zenon
  <2>2. o.server_max_window_bits # Absent =>
          a.server_max_window_bits # Absent /\ a.server_max_window_bits <= o.server_max_window_bits
    BY <1>1, <1>2, ServerWindowType
  <2>3. a.client_max_window_bits # Absent => o.client_max_window_bits # Absent
    <3>1. o.client_max_window_bits = Absent => g.client_max_window_bits = 15
      BY <1>1, <1>2, ClientWindowType
    <3> QED BY <1>2, <3>1
  <2> QED BY <2>1, <2>2, <2>3, Zenon DEF Fits
<1>4. PICK b : b = Widest(a)
  OBVIOUS
<1>5. /\ WidestCodec("Client", a) = Codec("Client", b)
      /\ b.server_no_context_takeover = g.server_no_context_takeover
      /\ b.client_no_context_takeover = g.client_no_context_takeover
      /\ b.server_max_window_bits = g.server_max_window_bits
      /\ b.client_max_window_bits = g.client_max_window_bits
  BY <1>2, <1>4, WidestIs, Zenon
<1>6. /\ g.client_max_window_bits \in Int /\ g.client_max_window_bits <= g.client_max_window_bits
      /\ g.server_max_window_bits \in Int /\ g.server_max_window_bits <= g.server_max_window_bits
  BY <1>2 DEF Settings, Bits
<1>7. Buildable(Codec("Server", g))
  BY <1>2, CodecIs DEF Buildable
<1>8. Decodes(Codec("Client", b), Codec("Server", g))
  BY <1>5, <1>6, ServerDecodes, Zenon
<1>9. Decodes(Codec("Server", g), Codec("Client", b))
  BY <1>5, <1>6, ClientDecodes, Zenon
<1> QED BY <1>3, <1>5, <1>7, <1>8, <1>9, Zenon

\* AnswerMatchesCodec of a request, the field of its answer and the server's codec.
AnswerMatches(request, field, deflate) ==
  IF deflate = {} THEN headers_select_deflate(field) = "No"
  ELSE LET a == Params(At(field, <<1, 1>>).params)
       IN  /\ \E p \in Places(request) :
                /\ parse(At(request, p)) = "Deflate"
                /\ Fits(Params(At(request, p).params), a)
           /\ \A s \in deflate :
                /\ Buildable(Codec("Server", s))
                /\ Decodes(WidestCodec("Client", a), Codec("Server", s))
                /\ Decodes(Codec("Server", s), WidestCodec("Client", a))

LEMMA AgreedMatches ==
  ASSUME NEW d, Option(d), NEW request \in Fields, NEW field, NEW deflate,
         HasAgreed(d, request, field, deflate)
  PROVE  AnswerMatches(request, field, deflate)
<1>1. CASE Declined(field, deflate)
  BY <1>1 DEF Declined, AnswerMatches
<1>2. ASSUME NEW t \in d, NEW p \in Places(request), parse(At(request, p)) = "Deflate",
             Struck(t, Params(At(request, p).params), field, deflate)
      PROVE  AnswerMatches(request, field, deflate)
  <2>1. PICK o : o = Params(At(request, p).params)
    OBVIOUS
  <2>2. PICK g, a : Deal(t, o, g, a, field, deflate)
    BY <1>2, <2>1, StruckIs
  <2>3. /\ Fits(o, a) /\ Buildable(Codec("Server", g))
        /\ Decodes(WidestCodec("Client", a), Codec("Server", g))
        /\ Decodes(Codec("Server", g), WidestCodec("Client", a))
    BY <1>2, <2>1, <2>2, DealWorks, Zenon
  <2>4. deflate = {g} /\ Params(At(field, <<1, 1>>).params) = a
    BY <2>2, Zenon DEF Deal
  <2> QED BY <1>2, <2>1, <2>3, <2>4, Zenon DEF AnswerMatches
<1> QED BY <1>1, <1>2, AgreedIs

\* headers_select_deflate finds nothing.
LEMMA SelectsNothing ==
  ASSUME NEW field
  PROVE  headers_select_deflate(field) = "No" <=>
           /\ \A i \in DOMAIN field : field[i].splits
           /\ \A p \in Places(field) : At(field, p).name # "permessage-deflate"
<1> DEFINE T == {i \in DOMAIN field : ~field[i].splits \/ \E j \in DOMAIN field[i].extensions :
                                       field[i].extensions[j].name = "permessage-deflate"}
<1>1. headers_select_deflate(field) =
        IF T = {} THEN "No"
        ELSE IF field[CHOOSE i \in T : \A k \in T : i <= k].splits THEN "Yes" ELSE "Err"
  BY Zenon DEF headers_select_deflate
<1>2. \A i, j : <<i, j>> \in Places(field) <=>
        i \in DOMAIN field /\ field[i].splits /\ j \in DOMAIN field[i].extensions
  BY DEF Places
<1>3. \A p \in Places(field) : \E i, j : p = <<i, j>>
  BY DEF Places
<1>4. \A i, j : At(field, <<i, j>>) = field[i].extensions[j]
  BY DEF At
<1>5. T = {} <=> /\ \A i \in DOMAIN field : field[i].splits
                 /\ \A p \in Places(field) : At(field, p).name # "permessage-deflate"
  <2>1. ASSUME T = {} PROVE /\ \A i \in DOMAIN field : field[i].splits
                            /\ \A p \in Places(field) : At(field, p).name # "permessage-deflate"
    <3>1. \A i \in DOMAIN field : field[i].splits /\ \A j \in DOMAIN field[i].extensions :
            field[i].extensions[j].name # "permessage-deflate"
      BY <2>1, Zenon
    <3> HIDE DEF T
    <3>2. ASSUME NEW p \in Places(field) PROVE At(field, p).name # "permessage-deflate"
      <4>1. PICK i, j : p = <<i, j>>
        BY <1>3, <3>2
      <4>2. i \in DOMAIN field /\ j \in DOMAIN field[i].extensions
        BY <1>2, <3>2, <4>1, Zenon
      <4>3. At(field, p) = field[i].extensions[j]
        BY <1>4, <4>1, Zenon
      <4> QED BY <3>1, <4>2, <4>3, Zenon
    <3> QED BY <3>1, <3>2, Zenon
  <2>2. ASSUME \A i \in DOMAIN field : field[i].splits,
               \A p \in Places(field) : At(field, p).name # "permessage-deflate"
        PROVE  T = {}
    <3>1. ASSUME NEW i \in DOMAIN field, NEW j \in DOMAIN field[i].extensions
          PROVE  field[i].extensions[j].name # "permessage-deflate"
      <4>1. <<i, j>> \in Places(field) /\ At(field, <<i, j>>) = field[i].extensions[j]
        BY <1>2, <1>4, <2>2, Zenon
      <4> QED BY <2>2, <4>1, Zenon
    <3> QED BY <2>2, <3>1, Zenon
  <2> QED BY <2>1, <2>2, Zenon
<1> HIDE DEF T
<1>6. headers_select_deflate(field) = "No" <=> T = {}
  BY <1>1
<1> QED BY <1>5, <1>6, Zenon

\* Where nothing is selected there is nothing to accept.
LEMMA NoSelection ==
  ASSUME NEW field, headers_select_deflate(field) = "No"
  PROVE  /\ Selected(field) = {} /\ \A i \in DOMAIN field : field[i].splits
         /\ \A p \in Places(field) : parse(At(field, p)) # "Deflate"
<1>1. \A p \in Places(field) : At(field, p).name # "permessage-deflate"
  BY SelectsNothing
<1>2. \A p \in Places(field) : parse(At(field, p)) # "Deflate"
  BY <1>1 DEF parse
<1>3. \A i \in DOMAIN field : field[i].splits
  BY SelectsNothing
<1> QED BY <1>2, <1>3 DEF Selected

\* SelectionMatchesCodec of a configuration, the field of a response and the client's codec.
SelectionMatches(d, field, deflate) ==
  LET chosen == {p \in Places(field) : parse(At(field, p)) = "Deflate"}
  IN  IF deflate = {} THEN headers_select_deflate(field) = "No"
      ELSE /\ d # {}
           /\ \E p \in chosen : \A s \in deflate :
                LET w == WidestCodec("Server", Params(At(field, p).params))
                IN  /\ chosen = {p}
                    /\ \A c \in d :
                         /\ c.server_no_context_takeover => s.server_no_context_takeover
                         /\ s.server_max_window_bits <= c.server_max_window_bits
                         /\ s.client_max_window_bits <= c.client_max_window_bits
                    /\ Buildable(Codec("Client", s))
                    /\ Decodes(Codec("Client", s), w) /\ Decodes(w, Codec("Client", s))

\* The client, configured with s, keeps to the selection a.
LEMMA AgreedWorks ==
  ASSUME NEW s \in Settings, Configured(s), NEW a \in ParamsSet, ~ParamsRefused(s, a),
         NEW u, u = Agreed(s, a), NEW w, w = WidestCodec("Server", a)
  PROVE  /\ s.server_no_context_takeover => u.server_no_context_takeover
         /\ u.server_max_window_bits <= s.server_max_window_bits
         /\ u.client_max_window_bits <= s.client_max_window_bits
         /\ Buildable(Codec("Client", u))
         /\ Decodes(Codec("Client", u), w) /\ Decodes(w, Codec("Client", u))
<1>1. /\ u.client_max_window_bits \in 9..15
      /\ u.client_max_window_bits <= s.client_max_window_bits
      /\ u.server_max_window_bits <= s.server_max_window_bits
      /\ u \in Settings
  BY AgreedType
<1>2. /\ u.server_no_context_takeover = a.server_no_context_takeover
      /\ u.client_no_context_takeover =
           (s.client_no_context_takeover \/ a.client_no_context_takeover)
      /\ u.server_max_window_bits =
           (IF a.server_max_window_bits = Absent
              THEN s.server_max_window_bits ELSE a.server_max_window_bits)
      /\ u.client_max_window_bits =
           (IF a.client_max_window_bits = Absent THEN s.client_max_window_bits
            ELSE MinOf(a.client_max_window_bits, s.client_max_window_bits))
  BY Zenon DEF Agreed
<1>3. s.server_no_context_takeover => u.server_no_context_takeover
  BY <1>2, Zenon DEF ParamsRefused
<1>4. PICK b : b = Widest(a)
  OBVIOUS
<1>5. /\ w = Codec("Server", b)
      /\ b.server_no_context_takeover = a.server_no_context_takeover
      /\ b.client_no_context_takeover = a.client_no_context_takeover
      /\ b.server_max_window_bits =
           (IF a.server_max_window_bits = Absent THEN 15 ELSE a.server_max_window_bits)
      /\ b.client_max_window_bits =
           (IF a.client_max_window_bits = Absent THEN 15 ELSE a.client_max_window_bits)
  BY <1>4, WidestIs, Zenon
<1>6. /\ s.client_max_window_bits \in 9..15 /\ s.server_max_window_bits \in 9..15
      /\ a.client_max_window_bits \in (9..15) \cup {Absent}
      /\ a.server_max_window_bits \in Bits \cup {Absent}
      /\ a.server_max_window_bits = Absent => s.server_max_window_bits = 15
  BY DEF Configured, ParamsSet, ParamsRefused, Bits, Absent, NoValue
<1>7. /\ u.client_max_window_bits \in Int /\ b.client_max_window_bits \in Int
      /\ u.client_max_window_bits <= b.client_max_window_bits
      /\ u.server_max_window_bits \in Int /\ b.server_max_window_bits \in Int
      /\ b.server_max_window_bits <= u.server_max_window_bits
  BY <1>2, <1>5, <1>6 DEF MinOf, Bits, Absent
<1>8. Decodes(Codec("Client", u), Codec("Server", b))
  <2>1. b.client_no_context_takeover => u.client_no_context_takeover
    BY <1>2, <1>5, Zenon
  <2> QED BY <1>7, <2>1, ServerDecodes, Zenon
<1>9. Decodes(Codec("Server", b), Codec("Client", u))
  <2>1. u.server_no_context_takeover => b.server_no_context_takeover
    BY <1>2, <1>5, Zenon
  <2> QED BY <1>7, <2>1, ClientDecodes, Zenon
<1>10. Buildable(Codec("Client", u))
  BY <1>1, CodecIs DEF Buildable
<1> QED BY <1>1, <1>3, <1>5, <1>8, <1>9, <1>10, Zenon

LEMMA VerifiedMatches ==
  ASSUME NEW d, Option(d), NEW field, NEW x, x = verify_deflate_response(d, field), x.err = "None"
  PROVE  SelectionMatches(d, field, x.deflate)
<1>1. CASE d = {}
  <2>1. x.deflate = {} /\ headers_select_deflate(field) = "No"
    BY <1>1, Verified
  <2> QED BY <2>1 DEF SelectionMatches
<1>2. CASE d # {}
  <2>0. PICK s : Keeps(s, d, field, x.deflate)
    BY <1>2, Verified
  <2>1. /\ s \in Settings /\ Configured(s) /\ d = {s} /\ ~SelectionRefused(field)
        /\ \A a \in Selected(field) : a \in ParamsSet /\ ~ParamsRefused(s, a)
        /\ x.deflate = {Agreed(s, a) : a \in Selected(field)}
    BY <2>0, Zenon DEF Keeps
  <2>2. /\ \A i \in DOMAIN field : field[i].splits
        /\ \A p \in Places(field) : parse(At(field, p)) # "Err"
        /\ \A p, q \in Places(field) :
             parse(At(field, p)) = "Deflate" /\ parse(At(field, q)) = "Deflate" => p = q
    BY <2>1, Zenon DEF SelectionRefused
  <2>3. CASE \A p \in Places(field) : parse(At(field, p)) # "Deflate"
    <3>1. \A p \in Places(field) : At(field, p).name # "permessage-deflate"
      BY <2>2, <2>3 DEF parse
    <3>2. headers_select_deflate(field) = "No"
      BY <2>2, <3>1, SelectsNothing
    <3>3. Selected(field) = {}
      BY <2>3 DEF Selected
    <3>4. x.deflate = {}
      BY <2>1, <3>3
    <3> QED BY <3>2, <3>4 DEF SelectionMatches
  <2>4. ASSUME NEW p \in Places(field), parse(At(field, p)) = "Deflate"
        PROVE  SelectionMatches(d, field, x.deflate)
    <3>1. {q \in Places(field) : parse(At(field, q)) = "Deflate"} = {p}
      BY <2>2, <2>4, Zenon
    <3>2. PICK a : a = Params(At(field, p).params)
      OBVIOUS
    <3>3. Selected(field) = {a}
      BY <3>1, <3>2 DEF Selected
    <3>4. PICK u, w : u = Agreed(s, a) /\ w = WidestCodec("Server", a)
      OBVIOUS
    <3>5. x.deflate = {u}
      BY <2>1, <3>3, <3>4
    <3>6. /\ s.server_no_context_takeover => u.server_no_context_takeover
          /\ u.server_max_window_bits <= s.server_max_window_bits
          /\ u.client_max_window_bits <= s.client_max_window_bits
          /\ Buildable(Codec("Client", u))
          /\ Decodes(Codec("Client", u), w) /\ Decodes(w, Codec("Client", u))
      BY <2>1, <3>3, <3>4, AgreedWorks
    <3> QED BY <2>1, <3>1, <3>2, <3>4, <3>5, <3>6, Zenon DEF SelectionMatches
  <2> QED BY <2>3, <2>4
<1> QED BY <1>1, <1>2

\* CodecsAgree of the codecs of the client and of the server.
Agree(c, s) ==
  /\ (c = {}) <=> (s = {})
  /\ \A g \in c, h \in s :
       LET x == Codec("Client", g)
           y == Codec("Server", h)
       IN  Buildable(x) /\ Buildable(y) /\ Decodes(x, y) /\ Decodes(y, x)

\* What the answer of a struck deal selects.
LEMMA DealSelects ==
  ASSUME NEW t, NEW o, NEW g, NEW a, NEW field, NEW deflate, Deal(t, o, g, a, field, deflate)
  PROVE  Selected(field) = {a} /\ ~SelectionRefused(field)
<1>1. PICK p : p = <<1, 1>>
  OBVIOUS
<1>2. /\ parse(At(field, p)) = "Deflate" /\ Params(At(field, p).params) = a
      /\ Places(field) = {p} /\ (\A i \in DOMAIN field : field[i].splits)
  BY <1>1, Zenon DEF Deal
<1>3. {q \in Places(field) : parse(At(field, q)) = "Deflate"} = {p}
  BY <1>2, Zenon
<1>4. Selected(field) = {a}
  BY <1>2, <1>3 DEF Selected
<1>5. ~SelectionRefused(field)
  BY <1>2 DEF SelectionRefused
<1> QED BY <1>4, <1>5

LEMMA DealAgrees ==
  ASSUME NEW t, NEW o, NEW g, NEW a, NEW field, NEW deflate,
         Struck(t, o, field, deflate), Deal(t, o, g, a, field, deflate),
         NEW s \in Settings, Configured(s), ~ParamsRefused(s, a), NEW u, u = Agreed(s, a)
  PROVE  /\ Buildable(Codec("Client", u)) /\ Buildable(Codec("Server", g))
         /\ Decodes(Codec("Client", u), Codec("Server", g))
         /\ Decodes(Codec("Server", g), Codec("Client", u))
<1>1. /\ g \in Settings /\ a \in ParamsSet
      /\ a.server_no_context_takeover = g.server_no_context_takeover
      /\ a.client_no_context_takeover = g.client_no_context_takeover
      /\ g.server_max_window_bits =
           (IF a.server_max_window_bits = Absent THEN 15 ELSE a.server_max_window_bits)
      /\ g.client_max_window_bits =
           (IF a.client_max_window_bits = Absent THEN 15 ELSE a.client_max_window_bits)
  BY Zenon DEF Deal
<1>2. /\ u.server_no_context_takeover = a.server_no_context_takeover
      /\ u.client_no_context_takeover =
           (s.client_no_context_takeover \/ a.client_no_context_takeover)
      /\ u.server_max_window_bits =
           (IF a.server_max_window_bits = Absent
              THEN s.server_max_window_bits ELSE a.server_max_window_bits)
      /\ u.client_max_window_bits =
           (IF a.client_max_window_bits = Absent THEN s.client_max_window_bits
            ELSE MinOf(a.client_max_window_bits, s.client_max_window_bits))
  BY Zenon DEF Agreed
<1>3. /\ s.client_max_window_bits \in 9..15 /\ s.server_max_window_bits \in 9..15
      /\ a.client_max_window_bits \in (9..15) \cup {Absent}
      /\ a.server_max_window_bits \in Bits \cup {Absent}
      /\ a.server_max_window_bits = Absent => s.server_max_window_bits = 15
  BY <1>1 DEF Configured, ParamsSet, ParamsRefused, Bits, Absent, NoValue
<1>4. /\ u.client_max_window_bits \in Int /\ g.client_max_window_bits \in Int
      /\ u.client_max_window_bits <= g.client_max_window_bits
      /\ u.server_max_window_bits \in Int /\ g.server_max_window_bits \in Int
      /\ g.server_max_window_bits <= u.server_max_window_bits
  BY <1>1, <1>2, <1>3 DEF MinOf, Bits, Absent
<1>5. Decodes(Codec("Client", u), Codec("Server", g))
  <2>1. g.client_no_context_takeover => u.client_no_context_takeover
    BY <1>1, <1>2, Zenon
  <2> QED BY <1>4, <2>1, ServerDecodes, Zenon
<1>6. Decodes(Codec("Server", g), Codec("Client", u))
  <2>1. u.server_no_context_takeover => g.server_no_context_takeover
    BY <1>1, <1>2, Zenon
  <2> QED BY <1>4, <2>1, ClientDecodes, Zenon
<1>7. Buildable(Codec("Server", g))
  BY DealWorks
<1>8. Buildable(Codec("Client", u))
  <2>1. PICK w : w = WidestCodec("Server", a)
    OBVIOUS
  <2> QED BY <1>1, <2>1, AgreedWorks
<1> QED BY <1>5, <1>6, <1>7, <1>8

\* A client that accepts the answer agrees with the server.
LEMMA BothAgree ==
  ASSUME NEW d, Option(d), NEW request \in Fields, NEW field, NEW deflate,
         HasAgreed(d, request, field, deflate),
         NEW c, Option(c), NEW x, x = verify_deflate_response(c, field), x.err = "None"
  PROVE  Agree(x.deflate, deflate)
<1>1. CASE Declined(field, deflate)
  <2>1. deflate = {} /\ Selected(field) = {}
    BY <1>1, NoSelection DEF Declined
  <2>2. x.deflate = {}
    <3>1. CASE c = {}
      BY <3>1, Verified
    <3>2. CASE c # {}
      <4>1. PICK s : Keeps(s, c, field, x.deflate)
        BY <3>2, Verified
      <4> QED BY <2>1, <4>1 DEF Keeps
    <3> QED BY <3>1, <3>2
  <2> QED BY <2>1, <2>2 DEF Agree
<1>2. ASSUME NEW t, NEW o, Struck(t, o, field, deflate) PROVE Agree(x.deflate, deflate)
  <2>1. PICK g, a : Deal(t, o, g, a, field, deflate)
    BY <1>2, StruckIs
  <2>2. headers_select_deflate(field) # "No" /\ deflate = {g}
    BY <2>1, Zenon DEF Deal
  <2>3. c # {}
    BY <2>2, Verified
  <2>4. PICK s : Keeps(s, c, field, x.deflate)
    BY <2>3, Verified
  <2>5. Selected(field) = {a}
    BY <2>1, DealSelects
  <2>6. /\ s \in Settings /\ Configured(s) /\ ~ParamsRefused(s, a)
        /\ x.deflate = {Agreed(s, b) : b \in {a}}
    BY <2>4, <2>5, Zenon DEF Keeps
  <2>7. PICK u : u = Agreed(s, a)
    OBVIOUS
  <2>8. x.deflate = {u}
    BY <2>6, <2>7
  <2>9. /\ Buildable(Codec("Client", u)) /\ Buildable(Codec("Server", g))
        /\ Decodes(Codec("Client", u), Codec("Server", g))
        /\ Decodes(Codec("Server", g), Codec("Client", u))
    BY <1>2, <2>1, <2>6, <2>7, DealAgrees
  <2> QED BY <2>2, <2>8, <2>9, Zenon DEF Agree
<1> QED BY <1>1, <1>2, AgreedIs

\* What a client configured with c asks for: what its application put into the
\* request, which does not name permessage-deflate, or its own offer.
Asks(c, request) ==
  \/ c = {} /\ headers_select_deflate(request) = "No"
  \/ \E s \in c : request = Field(offer(s))

\* No extension of the field lacks a name.
NoNameless(field) == \A p \in Places(field) : At(field, p).name # "nameless"

\* What a server makes of the offer of a client of this library is acceptable to it.
LEMMA DealAccepted ==
  ASSUME NEW t, NEW o, NEW g, NEW a, NEW field, NEW deflate,
         Struck(t, o, field, deflate), Deal(t, o, g, a, field, deflate),
         NEW s \in Settings, Configured(s), o = Params(offer(s).params)
  PROVE  ~ParamsRefused(s, a)
<1>1. /\ t \in Settings /\ Configured(t) /\ o \in ParamsSet /\ o.server_max_window_bits # 8
  BY DEF Struck
<1>2. /\ g \in Settings /\ a \in ParamsSet
      /\ a.server_no_context_takeover = g.server_no_context_takeover
      /\ g.server_no_context_takeover =
           (t.server_no_context_takeover \/ o.server_no_context_takeover)
      /\ g.client_max_window_bits =
           (IF a.client_max_window_bits = Absent THEN 15 ELSE a.client_max_window_bits)
      /\ a.server_max_window_bits = ServerWindow(t, o)
      /\ g.client_max_window_bits = ClientWindow(t, o)
  BY Zenon DEF Deal
<1>3. /\ o.server_no_context_takeover = s.server_no_context_takeover
      /\ o.server_max_window_bits = (IF s.server_max_window_bits < 15
                                       THEN s.server_max_window_bits ELSE Absent)
      /\ o.client_max_window_bits = NoValue
  BY OfferIs
<1>4. s.server_no_context_takeover => a.server_no_context_takeover
  BY <1>2, <1>3, Zenon
<1>5. /\ s.server_max_window_bits \in 9..15 /\ t.client_max_window_bits \in 9..15
      /\ a.server_max_window_bits \in (9..15) \cup {Absent}
      /\ o.server_max_window_bits # Absent =>
           a.server_max_window_bits # Absent /\ a.server_max_window_bits <= o.server_max_window_bits
      /\ ClientWindow(t, o) = t.client_max_window_bits
  <2>1. /\ ServerWindow(t, o) \in (9..15) \cup {Absent}
        /\ o.server_max_window_bits # Absent =>
             ServerWindow(t, o) # Absent /\ ServerWindow(t, o) <= o.server_max_window_bits
    BY <1>1, ServerWindowType
  <2>2. ClientWindow(t, o) = t.client_max_window_bits
    BY <1>1, <1>3, ClientWindowType
  <2> QED BY <1>1, <1>2, <2>1, <2>2 DEF Configured
<1>6. /\ ~(a.server_max_window_bits > s.server_max_window_bits)
      /\ ~(a.server_max_window_bits = Absent /\ s.server_max_window_bits < 15)
  BY <1>3, <1>5 DEF Absent
<1>7. a.client_max_window_bits \notin {8, NoValue}
  <2>1. (IF a.client_max_window_bits = Absent THEN 15 ELSE a.client_max_window_bits) \in 9..15
    BY <1>2, <1>5
  <2> QED BY <2>1 DEF Absent, NoValue
<1> QED BY <1>4, <1>6, <1>7, Zenon DEF ParamsRefused

LEMMA DeclinedAccepted ==
  ASSUME NEW field, headers_select_deflate(field) = "No", NoNameless(field), SelectionRefused(field)
  PROVE  \E p \in Places(field) : parse(At(field, p)) = "Other"
<1>1. /\ \A p \in Places(field) : At(field, p).name # "permessage-deflate"
      /\ \A i \in DOMAIN field : field[i].splits
  BY SelectsNothing
<1>2. \A p \in Places(field) : parse(At(field, p)) \notin {"Err", "Deflate"}
  BY <1>1 DEF parse, NoNameless
<1> QED BY <1>1, <1>2 DEF SelectionRefused

\* Why the client refuses the answer of a server of this library.
LEMMA OnlyOthers ==
  ASSUME \A cb \in Callbacks : NoNameless(cb.extensions),
         NEW d, Option(d), NEW request \in Fields, NEW field, NEW deflate,
         HasAgreed(d, request, field, deflate), NEW c, Option(c), Asks(c, request),
         verify_deflate_response(c, field).err = "InvalidHeader"
  PROVE  \E p \in Places(field) : parse(At(field, p)) = "Other"
<1>1. c = {} => headers_select_deflate(field) # "No"
  BY DEF verify_deflate_response, Outcome
<1>2. ASSUME c # {}
      PROVE  \E s \in Settings : /\ Configured(s) /\ c = {s}
                                 /\ SelectionRefused(field) \/ \E a \in Selected(field) : ParamsRefused(s, a)
  <2>1. PICK s \in Settings : Configured(s) /\ c = {s}
    BY <1>2 DEF Option
  <2>2. verify_deflate_response(c, field) = accept_response(s, field)
    BY <2>1 DEF verify_deflate_response
  <2>3. SelectionRefused(field) \/ \E a \in Selected(field) : ParamsRefused(s, a)
    BY <2>2 DEF accept_response, Outcome
  <2> QED BY <2>1, <2>3
<1>3. CASE Declined(field, deflate)
  <2>1. headers_select_deflate(field) = "No" /\ NoNameless(field)
    BY <1>3 DEF Declined
  <2>2. c # {}
    BY <1>1, <2>1
  <2>3. Selected(field) = {}
    BY <2>1, NoSelection
  <2>4. SelectionRefused(field)
    BY <1>2, <2>2, <2>3
  <2> QED BY <2>1, <2>4, DeclinedAccepted
<1>4. ASSUME NEW t, NEW p \in Places(request), parse(At(request, p)) = "Deflate",
             Struck(t, Params(At(request, p).params), field, deflate)
      PROVE  FALSE
  <2>1. headers_select_deflate(request) # "No"
    BY <1>4, NoSelection
  <2>2. PICK s \in c : request = Field(offer(s))
    BY <2>1 DEF Asks
  <2>3. At(request, p) = offer(s)
    <3>1. PICK e : e = offer(s)
      OBVIOUS
    <3>2. Places(request) = {<<1, 1>>} /\ At(request, <<1, 1>>) = e
      BY <2>2, <3>1, FieldIs, Zenon
    <3> QED BY <3>1, <3>2, Zenon
  <2>4. PICK o : o = Params(offer(s).params)
    OBVIOUS
  <2>5. Struck(t, o, field, deflate)
    BY <1>4, <2>3, <2>4, Zenon
  <2>6. PICK g, a : Deal(t, o, g, a, field, deflate)
    BY <2>5, StruckIs
  <2>7. Selected(field) = {a} /\ ~SelectionRefused(field)
    BY <2>6, DealSelects
  <2>8. s \in Settings /\ Configured(s) /\ ParamsRefused(s, a)
    BY <1>2, <2>2, <2>7
  <2> QED BY <2>4, <2>5, <2>6, <2>8, DealAccepted
<1> QED BY <1>3, <1>4, AgreedIs

-----------------------------------------------------------------------------
(* Checks *)

LEMMA SmallMin ==
  ASSUME NEW F, F \subseteq 1..9, F # {} PROVE \E i \in F : \A j \in F : i <= j
<1>1. \A n \in 1..9 : (\A i \in 1..9 : i < n => i \notin F) /\ n \in F =>
        \E i \in F : \A j \in F : i <= j
  OBVIOUS
<1>2. 1 \in F \/ 2 \in F \/ 3 \in F \/ 4 \in F \/ 5 \in F \/ 6 \in F \/ 7 \in F \/ 8 \in F \/ 9 \in F
  <2>1. PICK i : i \in F
    OBVIOUS
  <2>2. i \in 1..9
    BY <2>1
  <2> QED BY <2>1, <2>2
<1> QED BY <1>1, <1>2

LEMMA FirstFaultIs ==
  ASSUME NEW checks, DOMAIN checks \subseteq 1..9, NEW faults, NEW e,
         e = FirstFault(checks, faults)
  PROVE  \/ e = "None" /\ \A i \in DOMAIN checks : checks[i] \notin faults
         \/ \E i \in DOMAIN checks :
              /\ e = checks[i] /\ checks[i] \in faults
              /\ \A j \in DOMAIN checks : checks[j] \in faults => i <= j
<1> DEFINE failing == {i \in DOMAIN checks : checks[i] \in faults}
           first == CHOOSE i \in failing : \A j \in failing : i <= j
<1>1. CASE failing = {}
  BY <1>1 DEF FirstFault
<1>2. CASE failing # {}
  <2>1. \E i \in failing : \A j \in failing : i <= j
    <3>1. failing \subseteq 1..9
      OBVIOUS
    <3> HIDE DEF failing
    <3> QED BY <1>2, <3>1, SmallMin
  <2>2. first \in failing /\ \A j \in failing : first <= j
    <3> HIDE DEF failing
    <3> QED BY <2>1, Zenon
  <2>3. e = checks[first]
    BY <1>2, Zenon DEF FirstFault
  <2> HIDE DEF first
  <2> QED BY <2>2, <2>3
<1> QED BY <1>1, <1>2

\* A fault in a list of checks is one of its names.
LEMMA StartFault ==
  ASSUME NEW faults
  PROVE  FirstFault(StartChecks, faults) \in
           {"None", "WrongHttpMethod", "WrongHttpVersion", "UnsupportedUrlScheme",
            "SubProtocolEncoding", "ExtensionsAlreadyPresent", "NoPathOrQuery",
            "MissingHeader", "HeaderEncoding", "DuplicateHeader"}
<1>1. DOMAIN StartChecks = 1..9
  BY DEF StartChecks
<1>2. \A i \in 1..9 : StartChecks[i] \in
           {"WrongHttpMethod", "WrongHttpVersion", "UnsupportedUrlScheme",
            "SubProtocolEncoding", "ExtensionsAlreadyPresent", "NoPathOrQuery",
            "MissingHeader", "HeaderEncoding", "DuplicateHeader"}
  BY DEF StartChecks
<1> HIDE DEF StartChecks
<1> QED BY <1>1, <1>2, FirstFaultIs

LEMMA ParseFault ==
  ASSUME NEW faults
  PROVE  FirstFault(ParseChecks, faults) \in
           {"None", "Malformed", "WrongHttpMethod", "WrongHttpVersion", "HttpFormat"}
<1>1. DOMAIN ParseChecks = 1..4 /\ \A i \in 1..4 : ParseChecks[i] \in
           {"Malformed", "WrongHttpMethod", "WrongHttpVersion", "HttpFormat"}
  BY DEF ParseChecks
<1>2. 1..4 \subseteq 1..9
  OBVIOUS
<1> HIDE DEF ParseChecks
<1> QED BY <1>1, <1>2, FirstFaultIs

LEMMA RequestFault ==
  ASSUME NEW faults
  PROVE  FirstFault(RequestChecks, faults) \in
           {"None", "WrongHttpMethod", "WrongHttpVersion", "MissingConnectionUpgradeHeader",
            "MissingUpgradeWebSocketHeader", "MissingSecWebSocketVersionHeader",
            "MissingSecWebSocketKey", "InvalidSecWebSocketKey"}
<1>1. DOMAIN RequestChecks = 1..7 /\ \A i \in 1..7 : RequestChecks[i] \in
           {"WrongHttpMethod", "WrongHttpVersion", "MissingConnectionUpgradeHeader",
            "MissingUpgradeWebSocketHeader", "MissingSecWebSocketVersionHeader",
            "MissingSecWebSocketKey", "InvalidSecWebSocketKey"}
  BY DEF RequestChecks
<1>2. 1..7 \subseteq 1..9
  OBVIOUS
<1> HIDE DEF RequestChecks
<1> QED BY <1>1, <1>2, FirstFaultIs

LEMMA ResponseFault ==
  ASSUME NEW faults
  PROVE  /\ FirstFault(ResponseChecks, faults) \in
              {"None", "Http", "MissingUpgradeWebSocketHeader",
               "MissingConnectionUpgradeHeader", "SecWebSocketAcceptKeyMismatch",
               "NoSubProtocol", "ServerSentSubProtocolNoneRequested",
               "SubProtocolEncoding", "InvalidSubProtocol"}
         /\ "Http" \in faults => FirstFault(ResponseChecks, faults) # "None"
<1>1. /\ DOMAIN ResponseChecks = 1..8 /\ ResponseChecks[1] = "Http"
      /\ \A i \in 1..8 : ResponseChecks[i] \in
           {"Http", "MissingUpgradeWebSocketHeader",
            "MissingConnectionUpgradeHeader", "SecWebSocketAcceptKeyMismatch",
            "NoSubProtocol", "ServerSentSubProtocolNoneRequested",
            "SubProtocolEncoding", "InvalidSubProtocol"}
  BY DEF ResponseChecks
<1>2. 1..8 \subseteq 1..9 /\ 1 \in 1..8
  OBVIOUS
<1> HIDE DEF ResponseChecks
<1> QED BY <1>1, <1>2, FirstFaultIs

LEMMA FailureSet ==
  /\ {"None", "AttackAttempt", "HandshakeIncomplete", "JunkAfterRequest", "InvalidHeader",
      "Utf8", "CustomResponseSuccessful", "Io", "Dropped", "Panic",
      "WrongHttpMethod", "WrongHttpVersion", "UnsupportedUrlScheme",
      "SubProtocolEncoding", "ExtensionsAlreadyPresent", "NoPathOrQuery",
      "MissingHeader", "HeaderEncoding", "DuplicateHeader"} \subseteq Failure
  /\ {"Malformed", "HttpFormat", "MissingConnectionUpgradeHeader",
      "MissingUpgradeWebSocketHeader", "MissingSecWebSocketVersionHeader",
      "MissingSecWebSocketKey", "InvalidSecWebSocketKey", "Http",
      "SecWebSocketAcceptKeyMismatch", "NoSubProtocol",
      "ServerSentSubProtocolNoneRequested", "InvalidSubProtocol"} \subseteq Failure
<1>1. {"None", "AttackAttempt", "HandshakeIncomplete", "JunkAfterRequest", "InvalidHeader",
       "Utf8", "CustomResponseSuccessful", "Io", "Dropped", "Panic"} \subseteq Failure
  BY DEF Failure
<1>2. \A i \in 1..9 : StartChecks[i] \in Failure
  BY DEF Failure, StartChecks
<1>3. \A i \in 1..4 : ParseChecks[i] \in Failure
  BY DEF Failure, ParseChecks
<1>4. \A i \in 1..7 : RequestChecks[i] \in Failure
  BY DEF Failure, RequestChecks
<1>5. \A i \in 1..8 : ResponseChecks[i] \in Failure
  BY DEF Failure, ResponseChecks
<1>6. {"WrongHttpMethod", "WrongHttpVersion", "UnsupportedUrlScheme",
      "SubProtocolEncoding", "ExtensionsAlreadyPresent", "NoPathOrQuery",
      "MissingHeader", "HeaderEncoding", "DuplicateHeader"} \subseteq Failure
  BY <1>2 DEF StartChecks
<1>7. {"Malformed", "HttpFormat"} \subseteq Failure
  BY <1>3 DEF ParseChecks
<1>8. {"MissingConnectionUpgradeHeader", "MissingUpgradeWebSocketHeader",
       "MissingSecWebSocketVersionHeader", "MissingSecWebSocketKey",
       "InvalidSecWebSocketKey"} \subseteq Failure
  BY <1>4 DEF RequestChecks
<1>9. {"Http", "SecWebSocketAcceptKeyMismatch", "NoSubProtocol",
       "ServerSentSubProtocolNoneRequested", "InvalidSubProtocol"} \subseteq Failure
  BY <1>5 DEF ResponseChecks
<1> QED BY <1>1, <1>6, <1>7, <1>8, <1>9

-----------------------------------------------------------------------------
(* The roles *)

\* What ServerHandshake answers, if nothing is wrong.
LEMMA AnswerIs ==
  ASSUME NEW d, Option(d), NEW request, NEW cb \in Callbacks,
         NEW answer, answer = ServerAnswer(d, request, cb)
  PROVE  /\ answer.err \in {"None", "InvalidHeader", "Utf8", "CustomResponseSuccessful"}
         /\ answer.err = "None" =>
              /\ answer.deflate \subseteq Settings
              /\ answer.head.len = ResponseLen /\ answer.head.kind = "response"
              /\ ~cb.rejects =>
                   LET x == ServerExtensions(d, accept_deflate_offers(d, request.extensions), cb)
                   IN  /\ x.err = "None" /\ answer.deflate = x.deflate
                       /\ answer.head.extensions = x.extensions
<1> DEFINE acc == accept_deflate_offers(d, request.extensions)
           x == ServerExtensions(d, acc, cb)
<1>1. d \subseteq Settings
  BY DEF Option
<1>2. CASE cb.rejects
  BY <1>1, <1>2 DEF ServerAnswer, Reject, CallbackResponse, Refusal, Response
<1>3. CASE ~cb.rejects
  <2>1. \A a \in acc : a.agreed \in Settings
    BY Accepted, Zenon DEF Bargain
  <2> HIDE DEF acc
  <2>2. /\ x.err \in {"None", "InvalidHeader"}
        /\ x.deflate \subseteq Settings
    BY <2>1 DEF ServerExtensions, Refusal
  <2>3. answer = Switch(x, request, cb)
    BY <1>3 DEF ServerAnswer, acc
  <2> HIDE DEF x
  <2>4. CASE x.err # "None"
    BY <2>2, <2>3, <2>4 DEF Switch
  <2>5. CASE x.err = "None" /\ ~cb.ascii
    BY <2>3, <2>5 DEF Switch, Refusal
  <2>6. CASE x.err = "None" /\ cb.ascii
    <3>1. answer = [err |-> "None", deflate |-> x.deflate,
                    head |-> CallbackResponse(request, cb, x.extensions)]
      BY <2>3, <2>6 DEF Switch
    <3>2. /\ answer.err = "None" /\ answer.deflate = x.deflate
          /\ answer.head.len = ResponseLen /\ answer.head.kind = "response"
          /\ answer.head.extensions = x.extensions
      BY <3>1 DEF CallbackResponse, Response
    <3> QED BY <1>3, <2>2, <2>6, <3>2 DEF x, acc
  <2> QED BY <2>4, <2>5, <2>6
<1> QED BY <1>2, <1>3, CallbacksAssumption

\* Why a request is refused.
LEMMA ServerFaultIs ==
  ASSUME NEW m, NEW request, NEW answer,
         answer.err \in {"None", "InvalidHeader", "Utf8", "CustomResponseSuccessful"},
         NEW e, e = ServerFault(m, request, answer)
  PROVE  /\ e \in Failure /\ e # "Http"
         /\ e = "JunkAfterRequest" => m.buf # <<>>
         /\ e = "None" => answer.err = "None" /\ m.buf = <<>>
<1> DEFINE p == FirstFault(ParseChecks, request.faults)
           q == FirstFault(RequestChecks, request.faults)
<1>1. /\ p \in Failure /\ p \notin {"Http", "JunkAfterRequest"}
  BY ParseFault, FailureSet
<1>2. /\ q \in Failure /\ q \notin {"Http", "JunkAfterRequest"}
  BY RequestFault, FailureSet
<1>3. /\ answer.err \in Failure /\ answer.err \notin {"Http", "JunkAfterRequest"}
      /\ "JunkAfterRequest" \in Failure
  BY FailureSet
<1>4. \/ p # "None" /\ e = p
      \/ p = "None" /\ m.buf # <<>> /\ e = "JunkAfterRequest"
      \/ p = "None" /\ m.buf = <<>> /\ q # "None" /\ e = q
      \/ p = "None" /\ m.buf = <<>> /\ q = "None" /\ e = answer.err
  BY DEF ServerFault
<1> HIDE DEF p, q
<1> QED BY <1>1, <1>2, <1>3, <1>4

\* Why a response is refused.
LEMMA ClientFaultIs ==
  ASSUME NEW request, NEW response, NEW x, x.err \in {"None", "InvalidHeader"},
         NEW e, e = ClientFault(request, response, x)
  PROVE  /\ e \in Failure /\ e # "JunkAfterRequest"
         /\ e = "None" => x.err = "None" /\ "Http" \notin response.faults
         /\ e = "InvalidHeader" => x.err = "InvalidHeader" /\ "Http" \notin response.faults
<1> DEFINE p == FirstFault(ParseChecks, response.faults)
           q == verify_response(request, response)
<1>1. /\ p \in Failure /\ p \notin {"JunkAfterRequest", "InvalidHeader"}
  BY ParseFault, FailureSet
<1>2. /\ q \in Failure /\ q \notin {"JunkAfterRequest", "InvalidHeader"}
      /\ "Http" \in response.faults => q # "None"
  BY ResponseFault, FailureSet DEF verify_response
<1>3. x.err \in Failure
  BY FailureSet
<1>4. \/ p # "None" /\ e = p
      \/ p = "None" /\ q # "None" /\ e = q
      \/ p = "None" /\ q = "None" /\ e = x.err
  BY DEF ClientFault
<1> HIDE DEF p, q
<1> QED BY <1>1, <1>2, <1>3, <1>4

-----------------------------------------------------------------------------
(* Bytes *)

\* Bytes k + 1 to k + n of a stream.
Run(k, n) == [i \in 1..n |-> k + i]

\* Of the first n bytes of a stream, those behind the first k are in buffer b and
\* in flight in w.
Holds(b, w, k, n) == k <= n /\ b \o w = Run(k, n - k)

LEMMA RunType ==
  ASSUME NEW k \in Nat, NEW n \in Nat
  PROVE  /\ Run(k, n) \in Seq(Byte) /\ Len(Run(k, n)) = n
         /\ \A i \in 1..n : Run(k, n)[i] = k + i
<1>1. \A i \in 1..n : k + i \in Byte
  BY DEF Byte
<1>2. Run(k, n) \in Seq(Byte) /\ Len(Run(k, n)) = n
  BY <1>1 DEF Run
<1>3. \A i \in 1..n : Run(k, n)[i] = k + i
  BY Zenon DEF Run
<1> QED BY <1>2, <1>3

\* Two sequences, one behind the other.
LEMMA Joined ==
  ASSUME NEW s \in Seq(Byte), NEW t \in Seq(Byte)
  PROVE  /\ s \o t \in Seq(Byte) /\ Len(s \o t) = Len(s) + Len(t)
         /\ \A i \in 1..(Len(s) + Len(t)) :
              (s \o t)[i] = IF i <= Len(s) THEN s[i] ELSE t[i - Len(s)]
BY ConcatProperties

LEMMA Associative ==
  ASSUME NEW s \in Seq(Byte), NEW t \in Seq(Byte), NEW u \in Seq(Byte)
  PROVE  (s \o t) \o u = s \o (t \o u)
BY ConcatAssociative

\* A part of a sequence.
LEMMA Part ==
  ASSUME NEW s \in Seq(Byte), NEW k \in 0..Len(s)
  PROVE  /\ SubSeq(s, 1, k) \in Seq(Byte) /\ Len(SubSeq(s, 1, k)) = k
         /\ SubSeq(s, k + 1, Len(s)) \in Seq(Byte)
         /\ Len(SubSeq(s, k + 1, Len(s))) = Len(s) - k
         /\ \A i \in 1..(Len(s) - k) : SubSeq(s, k + 1, Len(s))[i] = s[k + i]
         /\ SubSeq(s, 1, k) \o SubSeq(s, k + 1, Len(s)) = s
<1>1. Len(s) \in Nat /\ \A i \in 1..Len(s) : s[i] \in Byte
  BY LenProperties, ElementOfSeq
<1>2. SubSeq(s, 1, k) \in Seq(Byte) /\ Len(SubSeq(s, 1, k)) = IF 1 <= k THEN k - 1 + 1 ELSE 0
  <2>1. 1 \in Int /\ k \in Int /\ \A i \in 1..k : s[i] \in Byte
    BY <1>1
  <2> QED BY <2>1, SubSeqProperties
<1>3. /\ SubSeq(s, k + 1, Len(s)) \in Seq(Byte)
      /\ Len(SubSeq(s, k + 1, Len(s))) = IF k + 1 <= Len(s) THEN Len(s) - (k + 1) + 1 ELSE 0
      /\ \A i \in 1..(Len(s) - (k + 1) + 1) : SubSeq(s, k + 1, Len(s))[i] = s[(k + 1) + i - 1]
  <2>1. k + 1 \in Int /\ Len(s) \in Int /\ \A i \in (k + 1)..Len(s) : s[i] \in Byte
    BY <1>1
  <2> QED BY <2>1, SubSeqProperties
<1>4. Len(SubSeq(s, 1, k)) = k /\ Len(SubSeq(s, k + 1, Len(s))) = Len(s) - k
  BY <1>1, <1>2, <1>3
<1>5. ASSUME NEW i \in 1..(Len(s) - k) PROVE SubSeq(s, k + 1, Len(s))[i] = s[k + i]
  <2>1. i \in 1..(Len(s) - (k + 1) + 1) /\ (k + 1) + i - 1 = k + i
    BY <1>1
  <2> QED BY <1>3, <2>1, Zenon
<1>6. SubSeq(s, 1, k) \o SubSeq(s, k + 1, Len(s)) = SubSeq(s, 1, Len(s))
  <2>1. 1 \in 1..(Len(s) + 1) /\ k \in (1 - 1)..Len(s) /\ Len(s) \in k..Len(s)
    BY <1>1
  <2> QED BY <2>1, ConcatAdjacentSubSeq
<1>7. SubSeq(s, 1, Len(s)) = s
  BY SubSeqFull
<1> QED BY <1>2, <1>3, <1>4, <1>5, <1>6, <1>7, Zenon

\* What is held is bounded by what was sent.
LEMMA HoldsBound ==
  ASSUME NEW b \in Seq(Byte), NEW w \in Seq(Byte), NEW k \in Nat, NEW n \in Nat, Holds(b, w, k, n)
  PROVE  k <= n /\ Len(b) + Len(w) = n - k /\ Len(b) \in Nat /\ Len(w) \in Nat /\ Len(b) <= n
<1>1. k <= n /\ b \o w = Run(k, n - k)
  BY DEF Holds
<1>2. Len(b) \in Nat /\ Len(w) \in Nat /\ Len(b \o w) = Len(b) + Len(w)
  BY Joined, LenProperties
<1>3. PICK l : l = n - k
  OBVIOUS
<1>4. l \in Nat
  BY <1>1, <1>3
<1>5. Len(Run(k, l)) = l
  BY <1>4, RunType
<1>6. Len(b) + Len(w) = l
  BY <1>1, <1>2, <1>3, <1>5, Zenon
<1> QED BY <1>1, <1>2, <1>3, <1>4, <1>6

\* The sender goes on.
LEMMA HoldsSend ==
  ASSUME NEW b \in Seq(Byte), NEW w \in Seq(Byte), NEW k \in Nat, NEW n \in Nat,
         Holds(b, w, k, n), NEW j \in Nat
  PROVE  Run(n, j) \in Seq(Byte) /\ Holds(b, w \o Run(n, j), k, n + j)
<1>1. PICK r : r = Run(n, j)
  OBVIOUS
<1>2. PICK l : l = n - k
  OBVIOUS
<1>3. r \in Seq(Byte) /\ Len(r) = j /\ \A i \in 1..j : r[i] = n + i
  BY <1>1, RunType
<1>4. k <= n /\ l \in Nat /\ (n + j) - k = l + j /\ k <= n + j /\ k + l = n /\ l + j \in Nat
  BY <1>2 DEF Holds
<1>5. PICK s : s = b \o w
  OBVIOUS
<1>6. s \in Seq(Byte) /\ s = Run(k, l)
  BY <1>2, <1>5, Joined DEF Holds
<1>7. Len(s) = l /\ \A i \in 1..l : s[i] = k + i
  BY <1>4, <1>6, RunType
<1>8. (b \o w) \o r = b \o (w \o r)
  BY <1>3, ConcatAssociative
<1>9. /\ s \o r \in Seq(Byte) /\ Len(s \o r) = Len(s) + Len(r)
      /\ \A i \in 1..(Len(s) + Len(r)) :
           (s \o r)[i] = IF i <= Len(s) THEN s[i] ELSE r[i - Len(s)]
  BY <1>3, <1>6, Joined
<1>10. PICK u : u = s \o r
  OBVIOUS
<1>11. /\ u \in Seq(Byte) /\ Len(u) = l + j
       /\ \A i \in 1..(l + j) : u[i] = IF i <= l THEN s[i] ELSE r[i - l]
  BY <1>3, <1>7, <1>9, <1>10, Zenon
<1>12. PICK v : v = Run(k, l + j)
  OBVIOUS
<1>13. v \in Seq(Byte) /\ Len(v) = l + j /\ \A i \in 1..(l + j) : v[i] = k + i
  BY <1>4, <1>12, RunType
<1>14. ASSUME NEW i \in 1..(l + j) PROVE u[i] = v[i]
  <2>1. CASE i <= l
    <3>1. i \in 1..l
      BY <1>4, <2>1
    <3> QED BY <1>7, <1>11, <1>13, <2>1, <3>1, Zenon
  <2>2. CASE ~(i <= l)
    <3>1. i - l \in 1..j /\ n + (i - l) = k + i
      BY <1>4, <2>2
    <3> QED BY <1>3, <1>11, <1>13, <2>2, <3>1, Zenon
  <2> QED BY <2>1, <2>2
<1>15. u = v
  <2>1. Len(u) = Len(v) /\ \A i \in 1..Len(u) : u[i] = v[i]
    BY <1>11, <1>13, <1>14, Zenon
  <2> QED BY <1>11, <1>13, <2>1, SeqEqual
<1>16. b \o (w \o r) = Run(k, (n + j) - k)
  BY <1>4, <1>5, <1>8, <1>10, <1>12, <1>15, Zenon
<1> QED BY <1>1, <1>3, <1>4, <1>16, Zenon DEF Holds

\* The receiver reads a packet.
LEMMA HoldsRead ==
  ASSUME NEW b \in Seq(Byte), NEW w \in Seq(Byte), NEW k, NEW n, Holds(b, w, k, n),
         NEW j \in 0..Len(w)
  PROVE  /\ b \o SubSeq(w, 1, j) \in Seq(Byte)
         /\ Len(b \o SubSeq(w, 1, j)) = Len(b) + j /\ Len(SubSeq(w, 1, j)) = j
         /\ SubSeq(w, j + 1, Len(w)) \in Seq(Byte)
         /\ Holds(b \o SubSeq(w, 1, j), SubSeq(w, j + 1, Len(w)), k, n)
<1> DEFINE x == SubSeq(w, 1, j)
           y == SubSeq(w, j + 1, Len(w))
<1>1. x \in Seq(Byte) /\ Len(x) = j /\ y \in Seq(Byte) /\ x \o y = w
  BY Part
<1> HIDE DEF x, y
<1>2. (b \o x) \o y = b \o (x \o y)
  BY <1>1, Associative
<1>3. b \o x \in Seq(Byte) /\ Len(b \o x) = Len(b) + Len(x)
  BY <1>1, Joined
<1>4. (b \o x) \o y = b \o w
  BY <1>1, <1>2, Zenon
<1>5. Holds(b \o x, y, k, n)
  BY <1>4, Zenon DEF Holds
<1> QED BY <1>1, <1>3, <1>5 DEF x, y

\* The receiver takes the head out.
LEMMA HoldsTail ==
  ASSUME NEW b \in Seq(Byte), NEW w \in Seq(Byte), NEW n \in Nat, Holds(b, w, 0, n),
         NEW h \in 0..Len(b)
  PROVE  /\ SubSeq(b, h + 1, Len(b)) \in Seq(Byte)
         /\ Len(SubSeq(b, h + 1, Len(b))) = Len(b) - h
         /\ Holds(SubSeq(b, h + 1, Len(b)), w, h, n)
<1>1. PICK y : y = SubSeq(b, h + 1, Len(b))
  OBVIOUS
<1>2. PICK l : l = Len(b)
  OBVIOUS
<1>3. PICK m : m = Len(w)
  OBVIOUS
<1>4. l \in Nat /\ m \in Nat /\ h \in 0..l /\ h \in Nat /\ l + m = n - 0 /\ h <= n
  BY <1>2, <1>3, HoldsBound
<1>5. /\ y \in Seq(Byte) /\ Len(y) = l - h /\ \A i \in 1..(l - h) : y[i] = b[h + i]
  BY <1>1, <1>2, Part
<1>6. PICK s : s = b \o w
  OBVIOUS
<1>7. /\ s \in Seq(Byte) /\ Len(s) = l + m
      /\ \A i \in 1..(l + m) : s[i] = IF i <= l THEN b[i] ELSE w[i - l]
  BY <1>2, <1>3, <1>6, Joined
<1>8. n - 0 = n /\ l + m = n
  BY <1>4
<1>9. \A i \in 1..n : s[i] = 0 + i
  <2>1. s = Run(0, n)
    BY <1>6, <1>8 DEF Holds
  <2> QED BY <2>1, RunType
<1>10. PICK u : u = y \o w
  OBVIOUS
<1>11. /\ u \in Seq(Byte) /\ Len(u) = (l - h) + m
       /\ \A i \in 1..((l - h) + m) : u[i] = IF i <= l - h THEN y[i] ELSE w[i - (l - h)]
  <2>1. Len(y \o w) = Len(y) + Len(w) /\ y \o w \in Seq(Byte)
        /\ \A i \in 1..(Len(y) + Len(w)) : (y \o w)[i] = IF i <= Len(y) THEN y[i] ELSE w[i - Len(y)]
    BY <1>5, Joined
  <2> QED BY <1>3, <1>5, <1>10, <2>1, Zenon
<1>12. PICK v : v = Run(h, n - h)
  OBVIOUS
<1>13. v \in Seq(Byte) /\ Len(v) = n - h /\ \A i \in 1..(n - h) : v[i] = h + i
  <2>1. PICK z : z = n - h
    OBVIOUS
  <2>2. z \in Nat
    BY <1>4, <2>1
  <2>3. Run(h, z) \in Seq(Byte) /\ Len(Run(h, z)) = z /\ \A i \in 1..z : Run(h, z)[i] = h + i
    BY <1>4, <2>2, RunType
  <2> QED BY <1>12, <2>1, <2>3, Zenon
<1>14. (l - h) + m = n - h
  BY <1>4
<1>15. ASSUME NEW i \in 1..(n - h) PROVE u[i] = v[i]
  <2>1. h + i \in 1..n /\ h + i \in 1..(l + m) /\ 0 + (h + i) = h + i
    BY <1>4
  <2>2. s[h + i] = h + i
    BY <1>9, <2>1, Zenon
  <2>3. CASE i <= l - h
    <3>1. i \in 1..(l - h) /\ h + i <= l
      BY <1>4, <2>3
    <3> QED BY <1>5, <1>7, <1>11, <1>13, <1>14, <2>1, <2>2, <2>3, <3>1, Zenon
  <2>4. CASE ~(i <= l - h)
    <3>1. ~(h + i <= l) /\ (h + i) - l = i - (l - h)
      BY <1>4, <2>4
    <3> QED BY <1>7, <1>11, <1>13, <1>14, <2>1, <2>2, <2>4, <3>1, Zenon
  <2> QED BY <2>3, <2>4
<1>16. u = v
  <2>1. Len(u) = Len(v) /\ \A i \in 1..Len(u) : u[i] = v[i]
    BY <1>11, <1>13, <1>14, <1>15, Zenon
  <2> QED BY <1>11, <1>13, <2>1, SeqEqual
<1>17. Holds(y, w, h, n)
  BY <1>4, <1>10, <1>12, <1>16, Zenon DEF Holds
<1> QED BY <1>1, <1>2, <1>5, <1>17, Zenon

-----------------------------------------------------------------------------
(* One machine *)

Mach ==
  [stage : Stage, out : Nat, buf : Seq(Byte), packets : Nat, bytes : Nat,
   deflate : SUBSET Settings, rejected : BOOLEAN, err : Failure]

\* HasParsed of machine m of role r.
Parsed(r, m) ==
  \/ m.stage = "Done" \/ m.err = "Http"
  \/ r = "Server" /\ m.stage \in {"Writing", "Flushing"}

Behind(r, m, h) == IF Parsed(r, m) THEN h.len ELSE 0

\* The packets are of MinPacketSize bytes on average, once they are many.
BigEnough(m) == m.packets > MinPacketCheckThreshold => m.packets * MinPacketSize <= m.bytes

\* Machine m of role r, whose peer has head h and has sent n bytes, those in w
\* still in flight; d is what the application configured.  Nothing is lost and
\* the limits hold because bytes counts the buffer while a head is read, because
\* the buffer of a client is empty when it begins to read, and because a head
\* that was parsed was there.
MachineOK(r, m, w, n, h, d) ==
  /\ m \in Mach
  /\ m.stage # "Failed" \/ m.err = "Http" => Holds(m.buf, w, Behind(r, m, h), n)
  /\ Parsed(r, m) => h.kind # "none" /\ h.len <= MaxBytes
  /\ m.stage = "Reading" =>
       Len(m.buf) = m.bytes /\ m.bytes <= MaxBytes /\ m.packets <= MaxPackets /\ BigEnough(m)
  /\ m.err # "None" => m.stage = "Failed"
  /\ r = "Client" /\ m.stage \in {"Start", "Writing", "Flushing"} => m.buf = <<>>
  /\ m.stage \in {"Start", "Writing", "Flushing", "Reading"} /\ ~Parsed(r, m) => m.deflate = d

LEMMA FailedOK ==
  ASSUME NEW r, NEW m \in Mach, NEW w, NEW n, NEW h, NEW d, NEW e \in Failure, e # "Http"
  PROVE  MachineOK(r, Failed(m, e), w, n, h, d)
<1>1. /\ Failed(m, e) \in Mach /\ Failed(m, e).stage = "Failed" /\ Failed(m, e).err = e
  BY DEF Failed, Mach, Stage
<1> QED BY <1>1 DEF MachineOK, Parsed

\* Bytes x are read of those in flight, and y is what is left of them.
Packet(w, x, y) ==
  /\ w \in Seq(Byte)
  /\ \E j \in 0..Len(w) : x = SubSeq(w, 1, j) /\ y = SubSeq(w, j + 1, Len(w))

\* Machine m has become v by reading a packet.
HasRead(r, m, v, y, n, h, d) ==
  /\ v \in Mach /\ y \in Seq(Byte)
  /\ v.stage = "Reading" /\ v.out = m.out /\ v.rejected = m.rejected
  /\ v.err = "None" /\ v.deflate = d /\ Holds(v.buf, y, 0, n)
  /\ ~check_incoming_packet_size(v) => Len(v.buf) <= MaxBytes /\ MachineOK(r, v, y, n, h, d)

LEMMA ReadOK ==
  ASSUME NEW r, NEW m, NEW w, NEW n \in Nat, NEW h, NEW d, MachineOK(r, m, w, n, h, d),
         m.stage = "Reading", NEW x, NEW y, Packet(w, x, y)
  PROVE  HasRead(r, m, read_from(m, x), y, n, h, d)
<1> DEFINE v == read_from(m, x)
<1>1. PICK j \in 0..Len(w) : x = SubSeq(w, 1, j) /\ y = SubSeq(w, j + 1, Len(w))
  BY DEF Packet
<1>2. w \in Seq(Byte)
  BY DEF Packet
<1>3. /\ m \in Mach /\ m.err = "None" /\ ~Parsed(r, m) /\ Len(m.buf) = m.bytes
      /\ m.deflate = d /\ m.buf \in Seq(Byte)
  BY DEF MachineOK, Parsed, Mach
<1>4. Holds(m.buf, w, 0, n)
  BY <1>3 DEF MachineOK, Behind
<1>5. PICK b : b = m.buf \o x
  OBVIOUS
<1>6. b \in Seq(Byte) /\ Len(b) = m.bytes + j /\ Len(x) = j /\ y \in Seq(Byte) /\ Holds(b, y, 0, n)
  <2>1. PICK a : a = m.buf
    OBVIOUS
  <2>2. a \in Seq(Byte) /\ Holds(a, w, 0, n)
    BY <1>3, <1>4, <2>1
  <2>3. /\ a \o SubSeq(w, 1, j) \in Seq(Byte)
        /\ Len(a \o SubSeq(w, 1, j)) = Len(a) + j /\ Len(SubSeq(w, 1, j)) = j
        /\ SubSeq(w, j + 1, Len(w)) \in Seq(Byte)
        /\ Holds(a \o SubSeq(w, 1, j), SubSeq(w, j + 1, Len(w)), 0, n)
    BY <1>2, <2>2, HoldsRead
  <2> QED BY <1>1, <1>3, <1>5, <2>1, <2>3, Zenon
<1>7. /\ v \in Mach /\ v.stage = m.stage /\ v.out = m.out /\ v.rejected = m.rejected
      /\ v.deflate = m.deflate /\ v.err = m.err /\ v.buf = b
      /\ v.bytes = m.bytes + j
  <2>1. v = [m EXCEPT !.buf = b, !.packets = @ + 1, !.bytes = @ + j]
    BY <1>5, <1>6, Zenon DEF read_from
  <2>2. m.packets + 1 \in Nat /\ m.bytes + j \in Nat
    BY <1>3, <1>2, LenProperties DEF Mach
  <2> QED BY <1>3, <1>6, <2>1, <2>2 DEF Mach
<1> HIDE DEF v
<1>8. Holds(v.buf, y, 0, n) /\ Len(v.buf) = v.bytes
  BY <1>6, <1>7, Zenon
<1>9. ~Parsed(r, v)
  BY <1>3, <1>7 DEF Parsed
<1>10. ~check_incoming_packet_size(v) =>
         v.bytes <= MaxBytes /\ v.packets <= MaxPackets /\ BigEnough(v)
  <2>1. v.bytes \in Nat /\ v.packets \in Nat /\ v.packets * MinPacketSize \in Nat
    BY <1>7, LengthsAssumption DEF Mach
  <2>2. ~(v.packets * MinPacketSize > v.bytes) => v.packets * MinPacketSize <= v.bytes
    BY <2>1
  <2>3. ~check_incoming_packet_size(v) => v.bytes <= MaxBytes /\ v.packets <= MaxPackets
    BY <2>1, LengthsAssumption DEF check_incoming_packet_size
  <2>4. ~check_incoming_packet_size(v) => BigEnough(v)
    BY <2>2, Zenon DEF check_incoming_packet_size, BigEnough
  <2> QED BY <2>3, <2>4
<1>11. ~check_incoming_packet_size(v) => MachineOK(r, v, y, n, h, d)
  BY <1>3, <1>7, <1>8, <1>9, <1>10, Zenon DEF MachineOK, Behind
<1>12. HasRead(r, m, v, y, n, h, d)
  BY <1>3, <1>6, <1>7, <1>8, <1>10, <1>11, Zenon DEF HasRead
<1> QED BY <1>12 DEF v

\* The peer sends.
LEMMA PeerSentOK ==
  ASSUME NEW r, NEW m, NEW w \in Seq(Byte), NEW n \in Nat, NEW h, h.len \in Nat, NEW d,
         MachineOK(r, m, w, n, h, d), NEW j \in Nat
  PROVE  MachineOK(r, m, w \o Run(n, j), n + j, h, d)
<1>1. m.buf \in Seq(Byte) /\ Behind(r, m, h) \in Nat
  BY DEF MachineOK, Mach, Behind
<1>2. m.stage # "Failed" \/ m.err = "Http" =>
        Holds(m.buf, w \o Run(n, j), Behind(r, m, h), n + j)
  BY <1>1, HoldsSend DEF MachineOK
<1> QED BY <1>2 DEF MachineOK

\* The peer's head is made.
LEMMA HeadMadeOK ==
  ASSUME NEW r, NEW m, NEW w, NEW n, NEW h, NEW d, MachineOK(r, m, w, n, h, d),
         NEW g, ~Parsed(r, m)
  PROVE  MachineOK(r, m, w, n, g, d)
BY DEF MachineOK, Behind

\* The machine writes.
LEMMA WrittenOK ==
  ASSUME NEW r, NEW m, NEW w, NEW n, NEW h, NEW d, MachineOK(r, m, w, n, h, d),
         m.stage = "Writing", NEW j \in 1..m.out, NEW v, v = Written(m, j)
  PROVE  /\ MachineOK(r, v, w, n, h, d)
         /\ v.out = m.out - j /\ v.rejected = m.rejected /\ v.deflate = m.deflate
         /\ v.err = "None" /\ v.stage = IF m.out = j THEN "Flushing" ELSE "Writing"
<1>1. m \in Mach /\ m.out \in Nat /\ m.out - j \in Nat /\ m.err = "None"
  BY DEF MachineOK, Mach
<1>2. /\ v.stage = (IF m.out = j THEN "Flushing" ELSE "Writing") /\ v.out = m.out - j
      /\ v.rejected = m.rejected /\ v.deflate = m.deflate /\ v.err = m.err /\ v.buf = m.buf
  BY <1>1 DEF Written, Mach
<1>3. v \in Mach
  BY <1>1 DEF Written, Mach, Stage
<1>4. Parsed(r, v) = Parsed(r, m)
  BY <1>2 DEF Parsed
<1>5. v.stage \in {"Flushing", "Writing"}
  BY <1>2
<1> QED BY <1>1, <1>2, <1>3, <1>4, <1>5 DEF MachineOK, Behind

\* The machine has flushed.
LEMMA FlushedOK ==
  ASSUME NEW r \in Role, NEW m, NEW w \in Seq(Byte), NEW n \in Nat, NEW h, NEW d,
         MachineOK(r, m, w, n, h, d), m.stage = "Flushing", NEW v, v = DoneWriting(r, m)
  PROVE  /\ MachineOK(r, v, w, n, h, d) /\ v.out = m.out /\ v.rejected = m.rejected
         /\ v.deflate = m.deflate
         /\ r = "Client" => v.stage = "Reading" /\ v.err = "None"
         /\ r = "Server" =>
              IF m.rejected THEN v.stage = "Failed" /\ v.err = "Http"
              ELSE v.stage = "Done" /\ v.err = "None"
<1>1. m \in Mach /\ m.err = "None" /\ m.stage # "Failed"
  BY DEF MachineOK
<1>2. CASE r = "Client"
  <2>1. v = start_read(m)
    BY <1>2 DEF DoneWriting
  <2>2. /\ v \in Mach /\ v.stage = "Reading" /\ v.buf = <<>> /\ v.packets = 0 /\ v.bytes = 0
        /\ v.out = m.out /\ v.rejected = m.rejected /\ v.deflate = m.deflate /\ v.err = m.err
    <3>1. <<>> \in Seq(Byte)
      OBVIOUS
    <3>2. PICK e : e = <<>>
      OBVIOUS
    <3>3. v = [m EXCEPT !.stage = "Reading", !.buf = e, !.packets = 0, !.bytes = 0]
      BY <2>1, <3>2 DEF start_read
    <3>4. v \in Mach
      <4>1. e \in Seq(Byte) /\ 0 \in Nat /\ "Reading" \in Stage
        BY <3>1, <3>2 DEF Stage
      <4> QED BY <1>1, <3>3, <4>1 DEF Mach
    <3>5. /\ v.stage = "Reading" /\ v.buf = e /\ v.packets = 0 /\ v.bytes = 0
          /\ v.out = m.out /\ v.rejected = m.rejected /\ v.deflate = m.deflate /\ v.err = m.err
      BY <1>1, <3>3 DEF Mach
    <3> QED BY <3>2, <3>4, <3>5
  <2>3. m.buf = <<>> /\ ~Parsed(r, m) /\ ~Parsed(r, v)
    BY <1>1, <1>2, <2>2 DEF MachineOK, Parsed
  <2>4. Holds(v.buf, w, 0, n)
    BY <1>1, <2>2, <2>3 DEF MachineOK, Behind
  <2>5. Len(v.buf) = 0 /\ 0 <= MaxBytes /\ 0 <= MaxPackets /\ BigEnough(v)
    BY <2>2, LengthsAssumption DEF BigEnough
  <2> QED BY <1>1, <1>2, <2>2, <2>3, <2>4, <2>5 DEF MachineOK, Behind
<1>3. CASE r = "Server" /\ m.rejected
  <2>1. v = Failed(m, "Http")
    BY <1>3 DEF DoneWriting
  <2>2. /\ v \in Mach /\ v.stage = "Failed" /\ v.buf = m.buf /\ v.err = "Http"
        /\ v.out = m.out /\ v.rejected = m.rejected /\ v.deflate = m.deflate
    BY <1>1, <2>1, FailureSet DEF Failed, Mach, Stage
  <2>3. Parsed(r, m) /\ Parsed(r, v)
    BY <1>3, <2>2 DEF Parsed
  <2> QED BY <1>1, <1>3, <2>2, <2>3 DEF MachineOK, Behind
<1>4. CASE r = "Server" /\ ~m.rejected
  <2>1. v = [m EXCEPT !.stage = "Done"]
    BY <1>4 DEF DoneWriting
  <2>2. /\ v \in Mach /\ v.stage = "Done" /\ v.buf = m.buf /\ v.err = m.err
        /\ v.out = m.out /\ v.rejected = m.rejected /\ v.deflate = m.deflate
    BY <1>1, <2>1 DEF Mach, Stage
  <2>3. Parsed(r, m) /\ Parsed(r, v)
    BY <1>4, <2>2 DEF Parsed
  <2> QED BY <1>1, <1>4, <2>2, <2>3 DEF MachineOK, Behind
<1> QED BY <1>2, <1>3, <1>4 DEF Role

\* The request is made.
LEMMA StartedOK ==
  ASSUME NEW m, NEW w, NEW n, NEW h, NEW d, MachineOK("Client", m, w, n, h, d),
         m.stage = "Start", NEW out \in Nat, NEW v, v = start_write(m, out)
  PROVE  /\ MachineOK("Client", v, w, n, h, d) /\ v.out = out /\ v.stage = "Writing"
         /\ v.err = "None" /\ v.rejected = m.rejected
<1>1. m \in Mach /\ m.err = "None"
  BY DEF MachineOK
<1>2. /\ v \in Mach /\ v.stage = "Writing" /\ v.out = out /\ v.rejected = m.rejected
      /\ v.deflate = m.deflate /\ v.err = m.err /\ v.buf = m.buf
  BY <1>1 DEF start_write, Mach, Stage
<1>3. ~Parsed("Client", v) /\ ~Parsed("Client", m)
  BY <1>1, <1>2 DEF Parsed
<1> QED BY <1>1, <1>2, <1>3 DEF MachineOK, Behind

\* The head is taken out of the buffer.
LEMMA TailOK ==
  ASSUME NEW m \in Mach, NEW w \in Seq(Byte), NEW n \in Nat, NEW h, h.len \in Nat,
         Holds(m.buf, w, 0, n), Complete(m, h), NEW v, v = into_tail(m, h.len)
  PROVE  /\ v \in Mach /\ Holds(v.buf, w, h.len, n) /\ Len(v.buf) = Len(m.buf) - h.len
         /\ h.len <= Len(m.buf) /\ Len(m.buf) <= n /\ Len(m.buf) \in Nat
         /\ v.stage = m.stage /\ v.out = m.out /\ v.rejected = m.rejected
         /\ v.deflate = m.deflate /\ v.err = m.err
<1>1. m.buf \in Seq(Byte)
  BY DEF Mach
<1>2. Len(m.buf) \in Nat /\ h.len \in 0..Len(m.buf) /\ Len(m.buf) <= n
  BY <1>1, HoldsBound DEF Complete
<1> DEFINE y == SubSeq(m.buf, h.len + 1, Len(m.buf))
<1>3. y \in Seq(Byte) /\ Len(y) = Len(m.buf) - h.len /\ Holds(y, w, h.len, n)
  BY <1>1, <1>2, HoldsTail
<1>4. v = [m EXCEPT !.buf = y]
  BY DEF into_tail
<1> HIDE DEF y
<1>5. /\ v.stage = m.stage /\ v.out = m.out /\ v.rejected = m.rejected
      /\ v.deflate = m.deflate /\ v.err = m.err /\ v.buf = y /\ v \in Mach
  BY <1>3, <1>4 DEF Mach
<1> QED BY <1>2, <1>3, <1>5

\* The server's answer, `done`, with the machine v it had and the fault it found.
HasAnswered(done, v, cb, fault, answer) ==
  /\ fault # "None" =>
       /\ done.m.stage = "Failed" /\ done.m.err = fault /\ done.m.out = v.out
       /\ done.m.rejected = v.rejected /\ done.m.deflate = v.deflate
       /\ done.head = NoHead
  /\ fault = "None" =>
       /\ done.m.stage = "Writing" /\ done.m.err = "None"
       /\ done.m.out = ResponseLen + (IF cb.rejects THEN cb.body ELSE 0)
       /\ done.m.rejected = cb.rejects /\ done.m.deflate = answer.deflate
       /\ done.head = answer.head

LEMMA AnsweredOK ==
  ASSUME NEW v \in Mach, v.stage = "Reading", v.err = "None", NEW w, NEW n, NEW h,
         h.kind # "none", h.len <= MaxBytes, Holds(v.buf, w, h.len, n), NEW d,
         NEW cb \in Callbacks, NEW fault \in Failure, fault # "Http", NEW answer,
         fault = "None" => answer.deflate \subseteq Settings /\ answer.head.len = ResponseLen,
         NEW done, done = Answered(v, cb, fault, answer)
  PROVE  MachineOK("Server", done.m, w, n, h, d) /\ HasAnswered(done, v, cb, fault, answer)
<1>1. CASE fault # "None"
  <2>1. done.m = Failed(v, fault) /\ done.head = NoHead
    BY <1>1 DEF Answered
  <2>2. MachineOK("Server", Failed(v, fault), w, n, h, d)
    BY FailedOK
  <2>3. /\ Failed(v, fault).stage = "Failed" /\ Failed(v, fault).err = fault
        /\ Failed(v, fault).out = v.out /\ Failed(v, fault).rejected = v.rejected
        /\ Failed(v, fault).deflate = v.deflate
    BY DEF Failed, Mach
  <2> QED BY <1>1, <2>1, <2>2, <2>3 DEF HasAnswered
<1>2. CASE fault = "None"
  <2> DEFINE k == answer.head.len + (IF cb.rejects THEN cb.body ELSE 0)
             u == [start_write(v, k) EXCEPT !.deflate = answer.deflate, !.rejected = cb.rejects]
  <2>1. done.m = u /\ done.head = answer.head
    BY <1>2 DEF Answered
  <2>2. k = ResponseLen + (IF cb.rejects THEN cb.body ELSE 0) /\ k \in Nat
    BY <1>2, LengthsAssumption, CallbacksAssumption
  <2>3. cb.rejects \in BOOLEAN
    BY CallbacksAssumption
  <2> HIDE DEF k
  <2>4. /\ u.stage = "Writing" /\ u.out = k /\ u.buf = v.buf /\ u.err = v.err
        /\ u.deflate = answer.deflate /\ u.rejected = cb.rejects
    BY DEF start_write, Mach
  <2>5. u \in Mach
    <3>1. answer.deflate \in SUBSET Settings
      BY <1>2
    <3> QED BY <2>2, <2>3, <3>1 DEF start_write, Mach, Stage
  <2> HIDE DEF u
  <2>6. Parsed("Server", u)
    BY <2>4 DEF Parsed
  <2>7. MachineOK("Server", u, w, n, h, d)
    BY <2>4, <2>5, <2>6 DEF MachineOK, Behind
  <2> QED BY <1>2, <2>1, <2>2, <2>4, <2>7 DEF HasAnswered
<1> QED BY <1>1, <1>2

\* The client has become u.
HasSettled(u, fault, x) ==
  /\ fault # "None" => u.stage = "Failed" /\ u.err = fault
  /\ fault = "None" => u.stage = "Done" /\ u.err = "None" /\ u.deflate = x.deflate

\* The client accepts the response or not.
LEMMA SettledOK ==
  ASSUME NEW v \in Mach, v.stage = "Reading", v.err = "None", NEW w, NEW n, NEW h,
         h.kind # "none", h.len <= MaxBytes, Holds(v.buf, w, h.len, n), NEW d,
         NEW fault \in Failure, NEW x, x.deflate \subseteq Settings,
         NEW u, u = ClientSettles(v, fault, x)
  PROVE  MachineOK("Client", u, w, n, h, d) /\ HasSettled(u, fault, x)
<1>1. CASE fault # "None"
  <2>1. u = Failed(v, fault)
    BY <1>1 DEF ClientSettles
  <2>2. u \in Mach /\ u.stage = "Failed" /\ u.err = fault /\ u.buf = v.buf
    BY <2>1 DEF Failed, Mach, Stage
  <2>3. fault = "Http" => Parsed("Client", u)
    BY <2>2 DEF Parsed
  <2>4. CASE fault = "Http"
    BY <1>1, <2>2, <2>3, <2>4 DEF MachineOK, Behind, HasSettled
  <2>5. CASE fault # "Http"
    BY <1>1, <2>1, <2>2, <2>5, FailedOK DEF HasSettled
  <2> QED BY <2>4, <2>5
<1>2. CASE fault = "None"
  <2>1. u = [v EXCEPT !.stage = "Done", !.deflate = x.deflate]
    BY <1>2 DEF ClientSettles
  <2>2. /\ u.stage = "Done" /\ u.err = v.err /\ u.buf = v.buf /\ u.deflate = x.deflate
    BY <2>1 DEF Mach
  <2>3. u \in Mach
    <3>1. x.deflate \in SUBSET Settings
      OBVIOUS
    <3> QED BY <2>1, <3>1 DEF Mach, Stage
  <2>4. Parsed("Client", u)
    BY <2>2 DEF Parsed
  <2> QED BY <1>2, <2>2, <2>3, <2>4 DEF MachineOK, Behind, HasSettled
<1> QED BY <1>1, <1>2

-----------------------------------------------------------------------------
(* The two machines *)

IsHead(h) == h = NoHead \/ (h.kind # "none" /\ h.len \in Nat \ {0})

\* Client c and server s have sent nc and ns bytes; q and p are their heads.  A
\* client sends no more than its request until it has the response, and a server
\* whose response is all sent has nothing left to write.
FlowOK(c, s, nc, ns, q, p) ==
  /\ IsHead(q) /\ IsHead(p)
  /\ c.stage = "Start" => q = NoHead
  /\ s.stage # "Start"
  /\ s.stage = "Reading" => p = NoHead /\ s.out = 0 /\ ns = 0 /\ s.rejected = FALSE
  /\ c.stage \notin {"Foreign", "Done"} => nc <= q.len
  /\ c.stage = "Writing" => nc + c.out <= q.len
  /\ s.stage \notin {"Foreign", "Done"} /\ s.rejected = FALSE => ns + s.out = p.len
  /\ s.stage \in {"Flushing", "Done"} => s.out = 0
  /\ s.stage = "Writing" => s.out > 0
  /\ s.rejected # FALSE =>
       s.stage \in {"Writing", "Flushing", "Failed"} /\ p.kind # "none"
  /\ c.stage # "Foreign" => s.err # "JunkAfterRequest"
  /\ c.stage = "Done" /\ s.stage # "Foreign" =>
       /\ p.kind # "none"
       /\ \/ s.rejected = FALSE /\ s.out = 0 /\ s.stage \in {"Flushing", "Done", "Failed"}
          \/ s.rejected # FALSE /\ "Http" \notin p.faults

Types ==
  /\ wire \in [Role -> Seq(Byte)] /\ sent \in [Role -> Nat] /\ closed \in [Role -> BOOLEAN]
  /\ hs \in [Role -> Mach] /\ DOMAIN head = Role
  /\ DOMAIN config = Role /\ Option(config["Client"]) /\ Option(config["Server"])

ClientOK ==
  MachineOK("Client", hs["Client"], wire["Server"], sent["Server"], head["Server"],
            config["Client"])
ServerOK ==
  MachineOK("Server", hs["Server"], wire["Client"], sent["Client"], head["Client"],
            config["Server"])

\* The inductive invariant.
Inv ==
  /\ Types /\ ClientOK /\ ServerOK
  /\ FlowOK(hs["Client"], hs["Server"], sent["Client"], sent["Server"],
            head["Client"], head["Server"])

LEMMA InvImplies ==
  ASSUME Inv
  PROVE  TypeOK /\ NothingLost /\ NoJunk /\ SwitchTogether /\ HeadBounded /\ RejectedIsNotServed
<1>1. TypeOK
  BY DEF Inv, Types, TypeOK, Mach, FlowOK, IsHead, NoHead, Role
<1>2. \A r \in Role : HasParsed(r) = Parsed(r, hs[r])
  BY DEF HasParsed, Parsed
<1>3. NothingLost
  BY <1>2 DEF Inv, ClientOK, ServerOK, MachineOK, Holds, Run, Behind, NothingLost, Role, Peer
<1>4. HeadBounded
  BY <1>2 DEF Inv, ClientOK, ServerOK, MachineOK, BigEnough, HeadBounded, Role, Peer
<1>5. hs["Server"].rejected \in BOOLEAN
  BY DEF Inv, Types, Mach, Role
<1>6. NoJunk /\ SwitchTogether /\ RejectedIsNotServed
  BY <1>5, Zenon DEF Inv, FlowOK, NoJunk, SwitchTogether, RejectedIsNotServed
<1> QED BY <1>1, <1>3, <1>4, <1>6

-----------------------------------------------------------------------------
(* The steps *)

LEMMA Roles == Role = {"Client", "Server"} /\ Peer("Client") = "Server" /\ Peer("Server") = "Client"
BY DEF Role, Peer

LEMMA BecomesType ==
  ASSUME Types, NEW r \in Role, NEW m \in Mach, Becomes(r, m)
  PROVE  /\ hs' \in [Role -> Mach] /\ hs'[r] = m /\ hs'[Peer(r)] = hs[Peer(r)]
         /\ closed' \in [Role -> BOOLEAN]
<1>1. hs' = [hs EXCEPT ![r] = m] /\ hs \in [Role -> Mach] /\ Peer(r) \in Role /\ Peer(r) # r
  BY DEF Becomes, Types, Role, Peer
<1>2. closed' = [closed EXCEPT ![r] = @ \/ m.stage = "Failed"] /\ closed \in [Role -> BOOLEAN]
  BY DEF Becomes, Types
<1>3. (closed[r] \/ m.stage = "Failed") \in BOOLEAN
  BY Zenon
<1> QED BY <1>1, <1>2, <1>3

\* A machine that is at work fails; the bytes it has read may be lost with it.
LEMMA FailsInv ==
  ASSUME Inv, NEW r \in Role, hs[r].stage \in {"Start", "Reading", "Writing", "Flushing"},
         NEW m \in Mach, m.out = hs[r].out, m.rejected = hs[r].rejected,
         NEW e \in Failure, e \notin {"Http", "JunkAfterRequest"},
         Becomes(r, Failed(m, e)), sent' = sent, head' = head, config' = config,
         wire' \in [Role -> Seq(Byte)], wire'[r] = wire[r]
  PROVE  Inv'
<1> DEFINE f == Failed(m, e)
<1>1. f \in Mach /\ f.stage = "Failed" /\ f.err = e /\ f.out = m.out /\ f.rejected = m.rejected
  BY DEF Failed, Mach, Stage
<1>2. \A w, n, h, d : MachineOK(r, f, w, n, h, d)
  BY FailedOK
<1> HIDE DEF f
<1>3. /\ hs' \in [Role -> Mach] /\ hs'[r] = f /\ hs'[Peer(r)] = hs[Peer(r)]
      /\ closed' \in [Role -> BOOLEAN]
  BY <1>1, BecomesType DEF Inv, f
<1>4. Types'
  BY <1>3 DEF Inv, Types
<1>5. CASE r = "Client"
  <2>1. /\ hs'["Client"] = f /\ hs'["Server"] = hs["Server"] /\ wire'["Client"] = wire["Client"]
    BY <1>3, <1>5, Roles
  <2>2. ClientOK' /\ ServerOK'
    BY <1>2, <1>5, <2>1 DEF Inv, ClientOK, ServerOK
  <2>3. FlowOK(f, hs["Server"], sent["Client"], sent["Server"], head["Client"], head["Server"])
    BY <1>1, <1>5 DEF Inv, FlowOK
  <2> QED BY <1>4, <2>1, <2>2, <2>3 DEF Inv
<1>6. CASE r = "Server"
  <2>1. /\ hs'["Server"] = f /\ hs'["Client"] = hs["Client"] /\ wire'["Server"] = wire["Server"]
    BY <1>3, <1>6, Roles
  <2>2. ClientOK' /\ ServerOK'
    BY <1>2, <1>6, <2>1 DEF Inv, ClientOK, ServerOK
  <2>3. FlowOK(hs["Client"], f, sent["Client"], sent["Server"], head["Client"], head["Server"])
    BY <1>1, <1>6 DEF Inv, FlowOK
  <2> QED BY <1>4, <2>1, <2>2, <2>3 DEF Inv
<1> QED BY <1>5, <1>6, Roles

LEMMA BreaksInv == ASSUME Inv, NEW r \in Role, Breaks(r) \/ ReadEof(r) PROVE Inv'
<1>1. /\ hs[r] \in Mach /\ wire \in [Role -> Seq(Byte)]
  BY DEF Inv, Types
<1>2. /\ \E e \in {"Io", "Dropped", "Panic", "HandshakeIncomplete"} : Becomes(r, Failed(hs[r], e))
      /\ hs[r].stage \in {"Reading", "Writing", "Flushing"}
      /\ wire' = wire /\ sent' = sent /\ head' = head /\ config' = config
  BY DEF Breaks, ReadEof
<1>3. PICK e \in {"Io", "Dropped", "Panic", "HandshakeIncomplete"} : Becomes(r, Failed(hs[r], e))
  BY <1>2
<1>4. e \in Failure /\ e \notin {"Http", "JunkAfterRequest"}
  BY FailureSet
<1> QED BY <1>1, <1>2, <1>3, <1>4, FailsInv

\* What an endpoint sends, as a run of bytes.
LEMMA SendIs ==
  ASSUME Types, NEW r \in Role, NEW n \in Nat, Send(r, n)
  PROVE  /\ wire' \in [Role -> Seq(Byte)] /\ sent' \in [Role -> Nat]
         /\ wire'[r] = wire[r] \o Run(sent[r], n) /\ wire'[Peer(r)] = wire[Peer(r)]
         /\ sent'[r] = sent[r] + n /\ sent'[Peer(r)] = sent[Peer(r)]
<1>1. /\ wire \in [Role -> Seq(Byte)] /\ sent \in [Role -> Nat] /\ wire[r] \in Seq(Byte)
      /\ sent[r] \in Nat /\ Peer(r) \in Role /\ Peer(r) # r
  BY DEF Types, Role, Peer
<1>2. PICK x : x = Run(sent[r], n)
  OBVIOUS
<1>3. x \in Seq(Byte)
  BY <1>1, <1>2, RunType
<1>4. wire' = [wire EXCEPT ![r] = @ \o x] /\ sent' = [sent EXCEPT ![r] = @ + n]
  BY <1>2 DEF Send, Run
<1>5. wire[r] \o x \in Seq(Byte)
  BY <1>1, <1>3, Joined
<1>6. sent[r] + n \in Nat
  BY <1>1
<1> QED BY <1>1, <1>2, <1>4, <1>5, <1>6

LEMMA HeadLen == Inv => head["Client"].len \in Nat /\ head["Server"].len \in Nat
BY DEF Inv, FlowOK, IsHead, NoHead

\* The peer of an endpoint that sends.
LEMMA PeerOfSender ==
  ASSUME Inv, NEW r \in Role, NEW n \in Nat, Send(r, n), head' = head, config' = config,
         hs'[Peer(r)] = hs[Peer(r)]
  PROVE  (r = "Client" => ServerOK') /\ (r = "Server" => ClientOK')
<1>1. Types
  BY DEF Inv
<1>2. /\ wire'[r] = wire[r] \o Run(sent[r], n) /\ sent'[r] = sent[r] + n
      /\ wire[r] \in Seq(Byte) /\ sent[r] \in Nat
  BY <1>1, SendIs DEF Types
<1>3. ASSUME r = "Client" PROVE ServerOK'
  <2>1. MachineOK("Server", hs["Server"], wire["Client"] \o Run(sent["Client"], n),
                  sent["Client"] + n, head["Client"], config["Server"])
    BY <1>2, <1>3, HeadLen, PeerSentOK DEF Inv, ServerOK
  <2>2. hs'["Server"] = hs["Server"]
    BY <1>3, Roles
  <2> QED BY <1>2, <1>3, <2>1, <2>2, Zenon DEF ServerOK
<1>4. ASSUME r = "Server" PROVE ClientOK'
  <2>1. MachineOK("Client", hs["Client"], wire["Server"] \o Run(sent["Server"], n),
                  sent["Server"] + n, head["Server"], config["Client"])
    BY <1>2, <1>4, HeadLen, PeerSentOK DEF Inv, ClientOK
  <2>2. hs'["Client"] = hs["Client"]
    BY <1>4, Roles
  <2> QED BY <1>2, <1>4, <2>1, <2>2, Zenon DEF ClientOK
<1> QED BY <1>3, <1>4

LEMMA ClientWrites ==
  ASSUME NEW c, NEW s, NEW nc \in Nat, NEW ns, NEW q, NEW p, FlowOK(c, s, nc, ns, q, p),
         c.stage = "Writing", c.out \in Nat, q.len \in Nat, NEW n \in Nat, n <= c.out,
         NEW v, v.stage \in {"Flushing", "Writing"}, v.out = c.out - n
  PROVE  FlowOK(v, s, nc + n, ns, q, p)
<1>1. nc + c.out <= q.len
  BY DEF FlowOK
<1>2. nc + n <= q.len /\ nc + n + v.out <= q.len
  BY <1>1
<1> QED BY <1>2 DEF FlowOK

LEMMA ServerWrites ==
  ASSUME NEW c, NEW s, NEW nc, NEW ns \in Nat, NEW q, NEW p, FlowOK(c, s, nc, ns, q, p),
         s.stage = "Writing", s.out \in Nat, NEW n \in Nat, n <= s.out,
         NEW v, v.stage = (IF s.out = n THEN "Flushing" ELSE "Writing"), v.out = s.out - n,
         v.rejected = s.rejected, v.err = "None"
  PROVE  FlowOK(c, v, nc, ns + n, q, p)
<1>1. /\ s.rejected = FALSE => ns + s.out = p.len
      /\ c.stage = "Done" => p.kind # "none" /\ s.rejected # FALSE /\ "Http" \notin p.faults
  BY DEF FlowOK
<1>2. (s.rejected = FALSE => (ns + n) + v.out = p.len) /\ (s.out = n => v.out = 0)
      /\ (s.out # n => v.out > 0)
  BY <1>1
<1>3. v.stage \in {"Flushing", "Writing"} /\ (v.stage = "Flushing" => v.out = 0)
      /\ (v.stage = "Writing" => v.out > 0)
  BY <1>2
<1> QED BY <1>1, <1>2, <1>3 DEF FlowOK

LEMMA WriteRoundInv == ASSUME Inv, NEW r \in Role, WriteRound(r) PROVE Inv'
<1>1. PICK n \in 1..hs[r].out : Becomes(r, Written(hs[r], n)) /\ Send(r, n)
  BY DEF WriteRound
<1>2. hs[r].stage = "Writing" /\ head' = head /\ config' = config
  BY DEF WriteRound
<1>3. Types /\ hs[r] \in Mach
  BY DEF Inv, Types
<1>3a. hs[r].out \in Nat /\ n \in Nat /\ n <= hs[r].out
  <2>1. hs[r].out \in Nat
    BY <1>3 DEF Mach
  <2> QED BY <2>1
<1>4. PICK v : v = Written(hs[r], n)
  OBVIOUS
<1>5. PICK w, k, h, d : /\ MachineOK(r, hs[r], w, k, h, d)
                        /\ r = "Client" => w = wire["Server"] /\ k = sent["Server"]
                                           /\ h = head["Server"] /\ d = config["Client"]
                        /\ r = "Server" => w = wire["Client"] /\ k = sent["Client"]
                                           /\ h = head["Client"] /\ d = config["Server"]
  BY Roles DEF Inv, ClientOK, ServerOK
<1>6. /\ MachineOK(r, v, w, k, h, d) /\ v.out = hs[r].out - n /\ v.rejected = hs[r].rejected
      /\ v.err = "None" /\ v.stage = IF hs[r].out = n THEN "Flushing" ELSE "Writing"
  BY <1>2, <1>4, <1>5, WrittenOK
<1>7. v \in Mach
  BY <1>6 DEF MachineOK
<1>8. /\ hs' \in [Role -> Mach] /\ hs'[r] = v /\ hs'[Peer(r)] = hs[Peer(r)]
      /\ closed' \in [Role -> BOOLEAN]
  BY <1>1, <1>3, <1>4, <1>7, BecomesType
<1>9. /\ wire' \in [Role -> Seq(Byte)] /\ sent' \in [Role -> Nat]
      /\ wire'[Peer(r)] = wire[Peer(r)]
      /\ sent'[r] = sent[r] + n /\ sent'[Peer(r)] = sent[Peer(r)] /\ sent[r] \in Nat
  BY <1>1, <1>3, <1>3a, SendIs DEF Types
<1>10. Types'
  BY <1>2, <1>3, <1>8, <1>9 DEF Types
<1>11. (r = "Client" => ServerOK') /\ (r = "Server" => ClientOK')
  BY <1>1, <1>2, <1>3a, <1>8, PeerOfSender
<1>12. CASE r = "Client"
  <2>1. /\ hs'["Client"] = v /\ hs'["Server"] = hs["Server"]
        /\ wire'["Server"] = wire["Server"] /\ sent'["Server"] = sent["Server"]
        /\ sent'["Client"] = sent["Client"] + n
    BY <1>8, <1>9, <1>12, Roles
  <2>2. ClientOK'
    BY <1>2, <1>5, <1>6, <1>12, <2>1 DEF ClientOK
  <2>3. FlowOK(v, hs["Server"], sent["Client"] + n, sent["Server"], head["Client"], head["Server"])
    BY <1>2, <1>3a, <1>6, <1>9, <1>12, HeadLen, ClientWrites DEF Inv
  <2> QED BY <1>2, <1>10, <1>11, <1>12, <2>1, <2>2, <2>3 DEF Inv
<1>13. CASE r = "Server"
  <2>1. /\ hs'["Server"] = v /\ hs'["Client"] = hs["Client"]
        /\ wire'["Client"] = wire["Client"] /\ sent'["Client"] = sent["Client"]
        /\ sent'["Server"] = sent["Server"] + n
    BY <1>8, <1>9, <1>13, Roles
  <2>2. ServerOK'
    BY <1>2, <1>5, <1>6, <1>13, <2>1 DEF ServerOK
  <2>3. FlowOK(hs["Client"], v, sent["Client"], sent["Server"] + n, head["Client"], head["Server"])
    BY <1>2, <1>3a, <1>6, <1>9, <1>13, HeadLen, ServerWrites DEF Inv
  <2> QED BY <1>2, <1>10, <1>11, <1>13, <2>1, <2>2, <2>3 DEF Inv
<1> QED BY <1>12, <1>13, Roles

LEMMA SendsInv == ASSUME Inv, NEW r \in Role, AppSends(r) \/ ForeignSends(r) PROVE Inv'
<1>1. /\ Send(r, 1) /\ hs[r].stage \in {"Done", "Foreign"}
      /\ hs' = hs /\ head' = head /\ closed' = closed /\ config' = config
  BY DEF AppSends, ForeignSends
<1>2. Types /\ 1 \in Nat
  BY DEF Inv
<1>3. /\ wire' \in [Role -> Seq(Byte)] /\ sent' \in [Role -> Nat]
      /\ wire'[Peer(r)] = wire[Peer(r)]
      /\ sent'[r] = sent[r] + 1 /\ sent'[Peer(r)] = sent[Peer(r)]
  BY <1>1, <1>2, SendIs
<1>4. Types'
  BY <1>1, <1>2, <1>3 DEF Types
<1>5. (r = "Client" => ServerOK') /\ (r = "Server" => ClientOK')
  BY <1>1, <1>2, PeerOfSender
<1>6. CASE r = "Client"
  <2>1. /\ wire'["Server"] = wire["Server"] /\ sent'["Server"] = sent["Server"]
    BY <1>3, <1>6, Roles
  <2>2. ClientOK'
    BY <1>1, <2>1 DEF Inv, ClientOK
  <2>3. FlowOK(hs["Client"], hs["Server"], sent'["Client"], sent["Server"], head["Client"],
               head["Server"])
    BY <1>1, <1>6 DEF Inv, FlowOK
  <2> QED BY <1>1, <1>4, <1>5, <1>6, <2>1, <2>2, <2>3 DEF Inv
<1>7. CASE r = "Server"
  <2>1. /\ wire'["Client"] = wire["Client"] /\ sent'["Client"] = sent["Client"]
    BY <1>3, <1>7, Roles
  <2>2. ServerOK'
    BY <1>1, <2>1 DEF Inv, ServerOK
  <2>3. FlowOK(hs["Client"], hs["Server"], sent["Client"], sent'["Server"], head["Client"],
               head["Server"])
    BY <1>1, <1>7 DEF Inv, FlowOK
  <2> QED BY <1>1, <1>4, <1>5, <1>7, <2>1, <2>2, <2>3 DEF Inv
<1> QED BY <1>6, <1>7, Roles

LEMMA FlushRoundInv == ASSUME Inv, NEW r \in Role, FlushRound(r) PROVE Inv'
<1>1. /\ Becomes(r, DoneWriting(r, hs[r])) /\ hs[r].stage = "Flushing"
      /\ wire' = wire /\ sent' = sent /\ head' = head /\ config' = config
  BY DEF FlushRound
<1>2. /\ Types /\ hs[r] \in Mach /\ hs[r].rejected \in BOOLEAN
      /\ wire["Client"] \in Seq(Byte) /\ wire["Server"] \in Seq(Byte)
      /\ sent["Client"] \in Nat /\ sent["Server"] \in Nat
  BY Roles DEF Inv, Types, Mach
<1>3. PICK v : v = DoneWriting(r, hs[r])
  OBVIOUS
<1>4. CASE r = "Client"
  <2>1. /\ MachineOK("Client", v, wire["Server"], sent["Server"], head["Server"], config["Client"])
        /\ v.stage = "Reading"
    BY <1>1, <1>2, <1>3, <1>4, FlushedOK DEF Inv, ClientOK
  <2>2. v \in Mach
    BY <2>1 DEF MachineOK
  <2>3. /\ hs' \in [Role -> Mach] /\ hs'["Client"] = v /\ hs'["Server"] = hs["Server"]
        /\ closed' \in [Role -> BOOLEAN]
    BY <1>1, <1>2, <1>3, <1>4, <2>2, BecomesType, Roles
  <2>4. Types' /\ ClientOK' /\ ServerOK'
    BY <1>1, <1>2, <2>1, <2>3 DEF Inv, Types, ClientOK, ServerOK
  <2>5. FlowOK(v, hs["Server"], sent["Client"], sent["Server"], head["Client"], head["Server"])
    BY <1>1, <1>4, <2>1 DEF Inv, FlowOK
  <2> QED BY <1>1, <2>3, <2>4, <2>5 DEF Inv
<1>5. CASE r = "Server"
  <2>1. /\ MachineOK("Server", v, wire["Client"], sent["Client"], head["Client"], config["Server"])
        /\ v.out = hs[r].out /\ v.rejected = hs[r].rejected
        /\ IF hs[r].rejected THEN v.stage = "Failed" /\ v.err = "Http"
             ELSE v.stage = "Done" /\ v.err = "None"
    BY <1>1, <1>2, <1>3, <1>5, FlushedOK DEF Inv, ServerOK
  <2>2. v \in Mach
    BY <2>1 DEF MachineOK
  <2>3. /\ hs' \in [Role -> Mach] /\ hs'["Server"] = v /\ hs'["Client"] = hs["Client"]
        /\ closed' \in [Role -> BOOLEAN]
    BY <1>1, <1>2, <1>3, <1>5, <2>2, BecomesType, Roles
  <2>4. Types' /\ ClientOK' /\ ServerOK'
    BY <1>1, <1>2, <2>1, <2>3 DEF Inv, Types, ClientOK, ServerOK
  <2>5. FlowOK(hs["Client"], v, sent["Client"], sent["Server"], head["Client"], head["Server"])
    BY <1>1, <1>2, <1>5, <2>1 DEF Inv, FlowOK
  <2> QED BY <1>1, <2>3, <2>4, <2>5 DEF Inv
<1> QED BY <1>4, <1>5, Roles

\* Either machine.
LEMMA EitherOK ==
  ASSUME Inv, NEW r \in Role
  PROVE  MachineOK(r, hs[r], wire[Peer(r)], sent[Peer(r)], head[Peer(r)], config[r])
BY Roles DEF Inv, ClientOK, ServerOK

LEMMA ConsumeIs ==
  ASSUME Types, NEW r \in Role, NEW n \in PacketSizes(r), Consume(r, n)
  PROVE  /\ n \in 0..Len(wire[Peer(r)]) /\ wire' \in [Role -> Seq(Byte)]
         /\ wire[Peer(r)] \in Seq(Byte) /\ sent[Peer(r)] \in Nat
         /\ wire'[Peer(r)] = SubSeq(wire[Peer(r)], n + 1, Len(wire[Peer(r)]))
         /\ wire'[r] = wire[r]
<1>1. /\ wire \in [Role -> Seq(Byte)] /\ Peer(r) \in Role /\ Peer(r) # r
      /\ wire[Peer(r)] \in Seq(Byte) /\ sent[Peer(r)] \in Nat
  BY DEF Types, Role, Peer
<1>2. PICK w : w = wire[Peer(r)]
  OBVIOUS
<1>3. w \in Seq(Byte) /\ Len(w) \in Nat
  BY <1>1, <1>2, LenProperties
<1>4. n \in 0..Len(w)
  BY <1>2, <1>3, LengthsAssumption DEF PacketSizes
<1>5. PICK y : y = SubSeq(w, n + 1, Len(w))
  OBVIOUS
<1>6. y \in Seq(Byte)
  BY <1>3, <1>4, <1>5, Part
<1>7. wire' = [wire EXCEPT ![Peer(r)] = y]
  BY <1>2, <1>5 DEF Consume
<1> QED BY <1>1, <1>2, <1>4, <1>5, <1>6, <1>7

\* Machine r reads a packet.
LEMMA ReceiveIs ==
  ASSUME Inv, NEW r \in Role, hs[r].stage = "Reading", NEW n \in PacketSizes(r), Consume(r, n)
  PROVE  /\ wire' \in [Role -> Seq(Byte)] /\ wire'[r] = wire[r]
         /\ HasRead(r, hs[r], Receive(r, n), wire'[Peer(r)], sent[Peer(r)], head[Peer(r)],
                    config[r])
<1>1. PICK w, k, h, d, c : /\ w = wire[Peer(r)] /\ k = sent[Peer(r)] /\ h = head[Peer(r)]
                           /\ d = config[r] /\ c = hs[r]
  OBVIOUS
<1>2. Types
  BY DEF Inv
<1>3. /\ n \in 0..Len(w) /\ wire' \in [Role -> Seq(Byte)] /\ wire'[r] = wire[r]
      /\ w \in Seq(Byte) /\ k \in Nat /\ wire'[Peer(r)] = SubSeq(w, n + 1, Len(w))
  BY <1>1, <1>2, ConsumeIs, Zenon
<1>4. MachineOK(r, c, w, k, h, d) /\ c.stage = "Reading"
  BY <1>1, EitherOK
<1>5. PICK x, y : x = SubSeq(w, 1, n) /\ y = wire'[Peer(r)]
  OBVIOUS
<1>6. Packet(w, x, y) /\ k \in Nat
  BY <1>3, <1>5, Zenon DEF Packet
<1>7. HasRead(r, c, read_from(c, x), y, k, h, d)
  BY <1>4, <1>6, ReadOK, Zenon
<1>8. Receive(r, n) = read_from(c, x)
  BY <1>1, <1>5, Zenon DEF Receive
<1> QED BY <1>1, <1>3, <1>5, <1>7, <1>8, Zenon

LEMMA ReadRoundInv == ASSUME Inv, NEW r \in Role, ReadRound(r) PROVE Inv'
<1>1. PICK n \in PacketSizes(r) :
        LET m == Receive(r, n)
            h == head[Peer(r)]
        IN  /\ \/ /\ check_incoming_packet_size(m)
                  /\ Becomes(r, Failed(m, "AttackAttempt"))
               \/ /\ ~check_incoming_packet_size(m) /\ ~Complete(m, h)
                  /\ Becomes(r, m)
               \/ /\ ~check_incoming_packet_size(m) /\ ~Complete(m, h)
                  /\ "Malformed" \in h.faults
                  /\ Becomes(r, Failed(m, "Malformed"))
            /\ Consume(r, n)
  BY DEF ReadRound
<1>2. hs[r].stage = "Reading" /\ sent' = sent /\ head' = head /\ config' = config
  BY DEF ReadRound
<1>3. PICK m : m = Receive(r, n)
  OBVIOUS
<1>4. Consume(r, n) /\ Types
  BY <1>1 DEF Inv
<1>5. PICK y : y = wire'[Peer(r)]
  OBVIOUS
<1>6. /\ wire' \in [Role -> Seq(Byte)] /\ wire'[r] = wire[r]
      /\ HasRead(r, hs[r], m, y, sent[Peer(r)], head[Peer(r)], config[r])
  BY <1>2, <1>3, <1>4, <1>5, ReceiveIs, Zenon
<1>7. /\ m \in Mach /\ m.stage = "Reading" /\ m.out = hs[r].out /\ m.rejected = hs[r].rejected
      /\ m.err = "None"
      /\ ~check_incoming_packet_size(m) =>
           MachineOK(r, m, y, sent[Peer(r)], head[Peer(r)], config[r])
  BY <1>6, Zenon DEF HasRead
<1>8. CASE Becomes(r, Failed(m, "AttackAttempt")) \/ Becomes(r, Failed(m, "Malformed"))
  <2>1. PICK e \in {"AttackAttempt", "Malformed"} : Becomes(r, Failed(m, e))
    BY <1>8
  <2>2. e \in Failure /\ e \notin {"Http", "JunkAfterRequest"}
    BY FailureSet
  <2> QED BY <1>2, <1>6, <1>7, <2>1, <2>2, FailsInv
<1>10. CASE ~check_incoming_packet_size(m) /\ Becomes(r, m)
  <2>1. /\ hs' \in [Role -> Mach] /\ hs'[r] = m /\ hs'[Peer(r)] = hs[Peer(r)]
        /\ closed' \in [Role -> BOOLEAN]
    BY <1>4, <1>6, <1>7, <1>10, BecomesType
  <2>2. Types'
    BY <1>2, <1>4, <1>6, <1>7, <2>1 DEF Types
  <2>3. MachineOK(r, m, wire'[Peer(r)], sent'[Peer(r)], head'[Peer(r)], config'[r])
    BY <1>2, <1>5, <1>6, <1>7, <1>10, Zenon
  <2>4. CASE r = "Client"
    <3>1. /\ hs'["Client"] = m /\ hs'["Server"] = hs["Server"] /\ wire'["Client"] = wire["Client"]
      BY <1>6, <1>7, <2>1, <2>4, Roles
    <3>2. ClientOK'
      BY <2>3, <2>4, <3>1, Roles DEF ClientOK
    <3>3. ServerOK'
      BY <1>2, <3>1 DEF Inv, ServerOK
    <3>4. FlowOK(m, hs["Server"], sent["Client"], sent["Server"], head["Client"], head["Server"])
      BY <1>2, <1>6, <1>7, <2>4 DEF Inv, FlowOK
    <3> QED BY <1>2, <2>2, <3>1, <3>2, <3>3, <3>4 DEF Inv
  <2>5. CASE r = "Server"
    <3>1. /\ hs'["Server"] = m /\ hs'["Client"] = hs["Client"] /\ wire'["Server"] = wire["Server"]
      BY <1>6, <1>7, <2>1, <2>5, Roles
    <3>2. ServerOK'
      BY <2>3, <2>5, <3>1, Roles DEF ServerOK
    <3>3. ClientOK'
      BY <1>2, <3>1 DEF Inv, ClientOK
    <3>4. FlowOK(hs["Client"], m, sent["Client"], sent["Server"], head["Client"], head["Server"])
      BY <1>2, <1>6, <1>7, <2>5 DEF Inv, FlowOK
    <3> QED BY <1>2, <2>2, <3>1, <3>2, <3>3, <3>4 DEF Inv
  <2> QED BY <2>4, <2>5, Roles
<1> QED BY <1>1, <1>3, <1>8, <1>10

LEMMA ClientStarts ==
  ASSUME NEW c, NEW s, NEW nc \in Nat, NEW ns, NEW q, NEW p, FlowOK(c, s, nc, ns, q, p),
         c.stage = "Start", NEW g, g.kind # "none", g.len \in Nat \ {0},
         NEW v, v.stage = "Failed" \/ (v.stage = "Writing" /\ v.out = g.len)
  PROVE  FlowOK(v, s, nc, ns, g, p)
<1>1. nc <= NoHead.len
  BY DEF FlowOK
<1>2. nc = 0
  BY <1>1 DEF NoHead
<1>3. nc <= g.len /\ (v.stage = "Writing" => nc + v.out <= g.len)
  BY <1>2
<1> QED BY <1>3 DEF FlowOK, IsHead

LEMMA StartInv == ASSUME Inv, Start PROVE Inv'
<1> DEFINE d == hs["Client"].deflate
           Faults(q) == q.faults \cup
             (IF d # {} /\ q.extensions # <<>> THEN {"ExtensionsAlreadyPresent"} ELSE {})
           Offers(q) == IF d = {} THEN q.extensions ELSE Field(offer(CHOOSE s \in d : TRUE))
<1>0. PICK q \in Requests :
        /\ Becomes("Client", IF FirstFault(StartChecks, Faults(q)) = "None"
                               THEN start_write(hs["Client"], q.len)
                             ELSE Failed(hs["Client"], FirstFault(StartChecks, Faults(q))))
        /\ head' = [head EXCEPT !["Client"] = [q EXCEPT !.extensions = Offers(q)]]
  BY Zenon DEF Start
<1> HIDE DEF Faults, Offers
<1>1. PICK e, x :
        /\ e = FirstFault(StartChecks, Faults(q))
        /\ Becomes("Client", IF e = "None" THEN start_write(hs["Client"], q.len)
                             ELSE Failed(hs["Client"], e))
        /\ head' = [head EXCEPT !["Client"] = [q EXCEPT !.extensions = x]]
  BY <1>0, Zenon
<1>2. /\ hs["Client"].stage = "Start" /\ wire' = wire /\ sent' = sent /\ config' = config
  BY DEF Start
<1>3. /\ Types /\ hs["Client"] \in Mach /\ DOMAIN head = Role /\ sent["Client"] \in Nat
  BY Roles DEF Inv, Types
<1>4. PICK g : g = [q EXCEPT !.extensions = x]
  OBVIOUS
<1>5. g.kind = "request" /\ g.len = q.len /\ q.len \in Nat \ {0}
  <2>1. q.len \in Nat \ {0} /\ q = Request(q.len, q.faults, q.key, q.protocols, q.extensions)
    BY HeadsAssumption
  <2> QED BY <1>4, <2>1 DEF Request
<1>6. head'["Client"] = g /\ head'["Server"] = head["Server"] /\ DOMAIN head' = Role
  BY <1>1, <1>3, <1>4, Roles
<1>7. e \in Failure /\ e # "Http"
  BY <1>1, StartFault, FailureSet
<1>8. PICK v : v = IF e = "None" THEN start_write(hs["Client"], q.len) ELSE Failed(hs["Client"], e)
  OBVIOUS
<1>9. /\ MachineOK("Client", v, wire["Server"], sent["Server"], head["Server"], config["Client"])
      /\ v.stage = "Failed" \/ (v.stage = "Writing" /\ v.out = g.len)
  <2>1. CASE e = "None"
    BY <1>2, <1>5, <1>8, <2>1, StartedOK DEF Inv, ClientOK
  <2>2. CASE e # "None"
    <3>1. v = Failed(hs["Client"], e)
      BY <1>8, <2>2
    <3>2. v.stage = "Failed"
      BY <1>3, <3>1 DEF Failed, Mach
    <3> QED BY <1>3, <1>7, <3>1, <3>2, FailedOK
  <2> QED BY <2>1, <2>2
<1>10. v \in Mach
  BY <1>9 DEF MachineOK
<1>11. /\ hs' \in [Role -> Mach] /\ hs'["Client"] = v /\ hs'["Server"] = hs["Server"]
       /\ closed' \in [Role -> BOOLEAN]
  BY <1>1, <1>3, <1>8, <1>10, BecomesType, Roles
<1>12. Types' /\ ClientOK'
  BY <1>2, <1>3, <1>6, <1>9, <1>11 DEF Types, ClientOK
<1>13. ServerOK'
  <2>1. ~Parsed("Server", hs["Server"])
    BY <1>2 DEF Inv, ServerOK, MachineOK, FlowOK, NoHead
  <2>2. MachineOK("Server", hs["Server"], wire["Client"], sent["Client"], g, config["Server"])
    BY <2>1, HeadMadeOK DEF Inv, ServerOK
  <2> QED BY <1>2, <1>6, <1>11, <2>2 DEF ServerOK
<1>14. FlowOK(v, hs["Server"], sent["Client"], sent["Server"], g, head["Server"])
  <2>1. g.kind # "none"
    BY <1>5
  <2> QED BY <1>2, <1>3, <1>5, <1>9, <2>1, ClientStarts DEF Inv
<1> QED BY <1>2, <1>6, <1>11, <1>12, <1>13, <1>14 DEF Inv

\* The server's answer: it had sent nothing, so the client cannot be done.
LEMMA ServerAnswers ==
  ASSUME NEW c, NEW s, NEW nc, NEW ns, NEW q, NEW p, FlowOK(c, s, nc, ns, q, p),
         s.stage = "Reading", NEW v, NEW g,
         \/ /\ v.stage = "Failed" /\ v.out = s.out /\ v.rejected = s.rejected /\ g = NoHead
            /\ c.stage # "Foreign" => v.err # "JunkAfterRequest"
         \/ /\ v.stage = "Writing" /\ v.err = "None" /\ v.out \in Nat \ {0}
            /\ g.kind = "response" /\ g.len \in Nat \ {0}
            /\ v.rejected = FALSE => v.out = g.len
  PROVE  FlowOK(c, v, nc, ns, q, g)
<1>1. /\ p = NoHead /\ s.out = 0 /\ ns = 0 /\ s.rejected = FALSE /\ c.stage # "Done"
  BY DEF FlowOK, NoHead
<1>2. CASE v.stage = "Failed"
  <2>1. /\ g = NoHead /\ v.out = 0 /\ v.rejected = FALSE /\ g.len = 0
        /\ c.stage # "Foreign" => v.err # "JunkAfterRequest"
    BY <1>1, <1>2 DEF NoHead
  <2> QED BY <1>1, <1>2, <2>1 DEF FlowOK, IsHead
<1>3. CASE v.stage = "Writing"
  <2>1. g.kind = "response" /\ g.len \in Nat \ {0} /\ v.out \in Nat \ {0} /\ v.err = "None"
    BY <1>3
  <2>2. (v.rejected = FALSE => ns + v.out = g.len) /\ v.out > 0
    BY <1>1, <1>3
  <2> QED BY <1>1, <1>3, <2>1, <2>2, Zenon DEF FlowOK, IsHead
<1> QED BY <1>2, <1>3

\* What a client of this library has sent when the server has its request is the
\* request, so nothing is behind it in the server's buffer.
LEMMA NothingBehind ==
  ASSUME NEW c, NEW s, NEW nc \in Nat, NEW ns, NEW q, NEW p, FlowOK(c, s, nc, ns, q, p),
         s.stage = "Reading", c.stage # "Foreign", q.len \in Nat,
         NEW l \in Nat, NEW t \in Seq(Byte), Len(t) = l - q.len, l <= nc
  PROVE  t = <<>>
<1>1. c.stage # "Done" /\ nc <= q.len
  BY DEF FlowOK, NoHead
<1>2. Len(t) <= 0 /\ Len(t) \in Nat
  BY <1>1, LenProperties
<1>3. Len(t) = 0
  BY <1>2
<1> QED BY <1>3, EmptySeq

\* What a round that finishes the request does.
Served(cb, v, fault, answer, done) ==
  /\ cb \in Callbacks /\ answer = ServerAnswer(config["Server"], head["Client"], cb)
  /\ HasAnswered(done, v, cb, fault, answer) /\ (fault = "None" => answer.err = "None")
  /\ hs'["Server"] = done.m /\ hs'["Client"] = hs["Client"] /\ config' = config
  /\ head'["Server"] = done.head /\ head'["Client"] = head["Client"]
  /\ head["Client"].kind # "none"

LEMMA ServerReadsInv ==
  ASSUME Inv, ServerReads
  PROVE  Inv' /\ \E cb, v, fault, answer, done : Served(cb, v, fault, answer, done)
<1>1. PICK n \in PacketSizes("Server"), cb \in Callbacks :
        /\ ~check_incoming_packet_size(Receive("Server", n))
        /\ Complete(Receive("Server", n), head["Client"])
        /\ \E done \in {ServerDoneReading(into_tail(Receive("Server", n), head["Client"].len),
                          head["Client"], cb,
                          ServerAnswer(Receive("Server", n).deflate, head["Client"], cb))} :
             /\ Becomes("Server", done.m)
             /\ head' = [head EXCEPT !["Server"] = done.head]
        /\ Consume("Server", n)
  BY DEF ServerReads
<1>2. /\ hs["Server"].stage = "Reading" /\ sent' = sent /\ config' = config /\ Types
      /\ "Server" \in Role /\ "Client" \in Role
  BY Roles DEF ServerReads, Inv
<1>3. PICK m, h, k, y, d : /\ m = Receive("Server", n) /\ h = head["Client"]
                           /\ k = sent["Client"] /\ y = wire'["Client"] /\ d = config["Server"]
  OBVIOUS
<1>4. /\ wire' \in [Role -> Seq(Byte)] /\ wire'["Server"] = wire["Server"]
      /\ HasRead("Server", hs["Server"], m, y, k, h, d)
  BY <1>1, <1>2, <1>3, ReceiveIs, Roles
<1>5. /\ m \in Mach /\ m.stage = "Reading" /\ m.out = hs["Server"].out
      /\ m.rejected = hs["Server"].rejected /\ m.err = "None" /\ m.deflate = d
      /\ Holds(m.buf, y, 0, k) /\ Len(m.buf) <= MaxBytes /\ y \in Seq(Byte)
      /\ Complete(m, h)
  BY <1>1, <1>3, <1>4, Zenon DEF HasRead
<1>6. PICK v : v = into_tail(m, h.len)
  OBVIOUS
<1>7. /\ k \in Nat /\ h.len \in Nat /\ h.kind # "none" /\ Option(d) /\ MaxBytes \in Nat
  BY <1>2, <1>3, <1>5, HeadLen, LengthsAssumption DEF Types, Complete
<1>8. /\ v \in Mach /\ Holds(v.buf, y, h.len, k) /\ Len(v.buf) = Len(m.buf) - h.len
      /\ h.len <= Len(m.buf) /\ Len(m.buf) <= k /\ Len(m.buf) \in Nat
      /\ v.stage = "Reading" /\ v.out = m.out /\ v.rejected = m.rejected
      /\ v.deflate = m.deflate /\ v.err = "None"
  BY <1>5, <1>6, <1>7, TailOK
<1>9. h.len <= MaxBytes
  BY <1>5, <1>7, <1>8
<1>10. PICK answer : answer = ServerAnswer(d, h, cb)
  OBVIOUS
<1>11. PICK fault : fault = ServerFault(v, h, answer)
  OBVIOUS
<1>12. PICK done : done = Answered(v, cb, fault, answer)
  OBVIOUS
<1>13. Becomes("Server", done.m) /\ head' = [head EXCEPT !["Server"] = done.head]
  BY <1>1, <1>3, <1>5, <1>6, <1>10, <1>11, <1>12 DEF ServerDoneReading
<1>14. /\ answer.err \in {"None", "InvalidHeader", "Utf8", "CustomResponseSuccessful"}
       /\ answer.err = "None" =>
            /\ answer.deflate \subseteq Settings
            /\ answer.head.len = ResponseLen /\ answer.head.kind = "response"
  BY <1>7, <1>10, AnswerIs
<1>15. /\ fault \in Failure /\ fault # "Http"
       /\ fault = "JunkAfterRequest" => v.buf # <<>>
       /\ fault = "None" => answer.err = "None" /\ v.buf = <<>>
  BY <1>11, <1>14, ServerFaultIs
<1>16. MachineOK("Server", done.m, y, k, h, d) /\ HasAnswered(done, v, cb, fault, answer)
  <2>1. fault = "None" => answer.deflate \subseteq Settings /\ answer.head.len = ResponseLen
    BY <1>14, <1>15
  <2>2. v \in Mach /\ v.stage = "Reading" /\ v.err = "None" /\ Holds(v.buf, y, h.len, k)
    BY <1>8
  <2>3. fault \in Failure /\ fault # "Http" /\ h.kind # "none"
    BY <1>7, <1>15
  <2> QED BY <1>9, <1>12, <2>1, <2>2, <2>3, AnsweredOK
<1>17. done.m \in Mach
  BY <1>16 DEF MachineOK
<1>18. /\ hs' \in [Role -> Mach] /\ hs'["Server"] = done.m /\ hs'["Client"] = hs["Client"]
       /\ closed' \in [Role -> BOOLEAN]
  BY <1>2, <1>13, <1>17, BecomesType, Roles
<1>19. /\ head'["Server"] = done.head /\ head'["Client"] = h /\ DOMAIN head' = Role
  BY <1>2, <1>3, <1>13, Roles DEF Types
<1>20. Types' /\ ServerOK'
  BY <1>2, <1>3, <1>4, <1>16, <1>18, <1>19 DEF Types, ServerOK
<1>21. ClientOK'
  <2>1. ~Parsed("Client", hs["Client"])
    BY <1>2 DEF Inv, ClientOK, MachineOK, FlowOK, NoHead
  <2>2. MachineOK("Client", hs["Client"], wire["Server"], sent["Server"], done.head, config["Client"])
    BY <2>1, HeadMadeOK DEF Inv, ClientOK
  <2> QED BY <1>2, <1>4, <1>18, <1>19, <2>2 DEF ClientOK
<1>22. FlowOK(hs["Client"], done.m, sent["Client"], sent["Server"], head["Client"], done.head)
  <2>1. hs["Client"].stage # "Foreign" => v.buf = <<>>
    <3>1. SUFFICES ASSUME hs["Client"].stage # "Foreign" PROVE v.buf = <<>>
      OBVIOUS
    <3>2. FlowOK(hs["Client"], hs["Server"], k, sent["Server"], h, head["Server"])
      BY <1>3 DEF Inv
    <3>3. v.buf \in Seq(Byte)
      BY <1>8 DEF Mach
    <3> QED BY <1>2, <1>7, <1>8, <3>1, <3>2, <3>3, NothingBehind
  <2>2. CASE fault # "None"
    <3>1. /\ done.m.stage = "Failed" /\ done.m.out = hs["Server"].out
          /\ done.m.rejected = hs["Server"].rejected /\ done.head = NoHead
          /\ hs["Client"].stage # "Foreign" => done.m.err # "JunkAfterRequest"
      BY <1>5, <1>8, <1>15, <1>16, <2>1, <2>2 DEF HasAnswered
    <3> QED BY <1>2, <3>1, ServerAnswers DEF Inv
  <2>3. CASE fault = "None"
    <3>1. /\ cb.rejects \in BOOLEAN /\ cb.body \in Nat /\ ResponseLen \in Nat \ {0}
      BY CallbacksAssumption, LengthsAssumption
    <3>2. /\ done.m.stage = "Writing" /\ done.m.err = "None" /\ done.m.out \in Nat \ {0}
          /\ done.head.kind = "response" /\ done.head.len \in Nat \ {0}
          /\ done.m.rejected = FALSE => done.m.out = done.head.len
      BY <1>14, <1>15, <1>16, <2>3, <3>1 DEF HasAnswered
    <3> QED BY <1>2, <3>2, ServerAnswers DEF Inv
  <2> QED BY <2>2, <2>3
<1>23. Inv'
  BY <1>2, <1>3, <1>18, <1>19, <1>20, <1>21, <1>22 DEF Inv
<1>24. Served(cb, v, fault, answer, done)
  BY <1>2, <1>3, <1>7, <1>10, <1>15, <1>16, <1>18, <1>19, Zenon DEF Served
<1> QED BY <1>23, <1>24

\* The client has the whole response, so a server that did not reject it has nothing
\* left to write.
LEMMA ClientSwitches ==
  ASSUME NEW c, NEW s \in Mach, NEW nc, NEW ns \in Nat, NEW q, NEW p, FlowOK(c, s, nc, ns, q, p),
         c.stage = "Reading", p.kind # "none", p.len \in Nat, p.len <= ns,
         NEW v, v.stage = "Failed" \/ (v.stage = "Done" /\ "Http" \notin p.faults)
  PROVE  FlowOK(v, s, nc, ns, q, p)
<1>1. CASE v.stage = "Failed"
  BY <1>1 DEF FlowOK
<1>2. CASE v.stage = "Done" /\ s.stage = "Foreign"
  BY <1>2 DEF FlowOK
<1>3. CASE v.stage = "Done" /\ s.stage # "Foreign" /\ s.rejected # FALSE
  BY <1>3, Zenon DEF FlowOK
<1>4. CASE v.stage = "Done" /\ s.stage # "Foreign" /\ s.rejected = FALSE
  <2>1. s.rejected = FALSE /\ p # NoHead
    BY <1>4 DEF NoHead
  <2>2. s.stage # "Reading" /\ s.stage # "Start"
    BY <2>1 DEF FlowOK
  <2>3. s.out = 0
    <3>1. s.out \in Nat
      BY DEF Mach
    <3>2. s.stage # "Done" => ns + s.out = p.len
      BY <1>4, <2>1 DEF FlowOK
    <3>3. s.stage = "Done" => s.out = 0
      BY DEF FlowOK
    <3> QED BY <3>1, <3>2, <3>3
  <2>4. s.stage # "Writing"
    BY <2>3 DEF FlowOK
  <2>5. s.stage \in {"Flushing", "Done", "Failed"}
    BY <1>4, <2>2, <2>4 DEF Mach, Stage
  <2> QED BY <1>4, <2>1, <2>3, <2>5, Zenon DEF FlowOK
<1> QED BY <1>1, <1>2, <1>3, <1>4

\* What a round that finishes the response does.
Judged(x, fault, u) ==
  /\ x = verify_deflate_response(config["Client"], head["Server"].extensions)
  /\ fault = ClientFault(head["Client"], head["Server"], x) /\ HasSettled(u, fault, x)
  /\ hs'["Client"] = u /\ hs'["Server"] = hs["Server"] /\ head' = head /\ config' = config
  /\ head["Server"].kind # "none"

LEMMA ClientReadsInv ==
  ASSUME Inv, ClientReads
  PROVE  Inv' /\ \E x, fault, u : Judged(x, fault, u)
<1>1. PICK n \in PacketSizes("Client") :
        /\ ~check_incoming_packet_size(Receive("Client", n))
        /\ Complete(Receive("Client", n), head["Server"])
        /\ Becomes("Client",
             ClientDoneReading(into_tail(Receive("Client", n), head["Server"].len),
               head["Client"], head["Server"],
               verify_deflate_response(Receive("Client", n).deflate, head["Server"].extensions)))
        /\ Consume("Client", n)
  BY DEF ClientReads
<1>2. /\ hs["Client"].stage = "Reading" /\ sent' = sent /\ config' = config /\ head' = head /\ Types
      /\ "Server" \in Role /\ "Client" \in Role
  BY Roles DEF ClientReads, Inv
<1>3. PICK m, h, k, y, d : /\ m = Receive("Client", n) /\ h = head["Server"]
                           /\ k = sent["Server"] /\ y = wire'["Server"] /\ d = config["Client"]
  OBVIOUS
<1>4. /\ wire' \in [Role -> Seq(Byte)] /\ wire'["Client"] = wire["Client"]
      /\ HasRead("Client", hs["Client"], m, y, k, h, d)
  BY <1>1, <1>2, <1>3, ReceiveIs, Roles
<1>5. /\ m \in Mach /\ m.stage = "Reading" /\ m.err = "None" /\ m.deflate = d
      /\ Holds(m.buf, y, 0, k) /\ Len(m.buf) <= MaxBytes /\ y \in Seq(Byte)
      /\ Complete(m, h)
  BY <1>1, <1>3, <1>4, Zenon DEF HasRead
<1>6. PICK v : v = into_tail(m, h.len)
  OBVIOUS
<1>7. /\ k \in Nat /\ h.len \in Nat /\ h.kind # "none" /\ Option(d) /\ MaxBytes \in Nat
  BY <1>2, <1>3, <1>5, HeadLen, LengthsAssumption DEF Types, Complete
<1>8. /\ v \in Mach /\ Holds(v.buf, y, h.len, k)
      /\ h.len <= Len(m.buf) /\ Len(m.buf) <= k /\ Len(m.buf) \in Nat
      /\ v.stage = "Reading" /\ v.err = "None"
  BY <1>5, <1>6, <1>7, TailOK
<1>9. h.len <= MaxBytes /\ h.len <= k
  BY <1>5, <1>7, <1>8
<1>10. PICK x : x = verify_deflate_response(d, h.extensions)
  OBVIOUS
<1>11. PICK fault : fault = ClientFault(head["Client"], h, x)
  OBVIOUS
<1>12. PICK u : u = ClientSettles(v, fault, x)
  OBVIOUS
<1>13. Becomes("Client", u)
  BY <1>1, <1>3, <1>5, <1>6, <1>10, <1>11, <1>12 DEF ClientDoneReading
<1>14. x.err \in {"None", "InvalidHeader"} /\ x.deflate \subseteq Settings
  BY <1>7, <1>10, Verified
<1>15. /\ fault \in Failure
       /\ fault = "None" => x.err = "None" /\ "Http" \notin h.faults
  BY <1>11, <1>14, ClientFaultIs
<1>16. MachineOK("Client", u, y, k, h, d) /\ HasSettled(u, fault, x)
  BY <1>7, <1>8, <1>9, <1>12, <1>14, <1>15, SettledOK
<1>17. u \in Mach
  BY <1>16 DEF MachineOK
<1>18. /\ hs' \in [Role -> Mach] /\ hs'["Client"] = u /\ hs'["Server"] = hs["Server"]
       /\ closed' \in [Role -> BOOLEAN]
  BY <1>2, <1>13, <1>17, BecomesType, Roles
<1>19. Types' /\ ClientOK'
  BY <1>2, <1>3, <1>4, <1>16, <1>18 DEF Types, ClientOK
<1>20. ServerOK'
  BY <1>2, <1>4, <1>18 DEF Inv, ServerOK
<1>21. FlowOK(u, hs["Server"], sent["Client"], sent["Server"], head["Client"], head["Server"])
  <2>1. u.stage = "Failed" \/ (u.stage = "Done" /\ "Http" \notin h.faults)
    BY <1>15, <1>16 DEF HasSettled
  <2>2. FlowOK(hs["Client"], hs["Server"], sent["Client"], k, head["Client"], h) /\ hs["Server"] \in Mach
    BY <1>2, <1>3 DEF Inv, Types
  <2> QED BY <1>2, <1>3, <1>7, <1>9, <2>1, <2>2, ClientSwitches
<1>22. Inv'
  BY <1>2, <1>18, <1>19, <1>20, <1>21 DEF Inv
<1>23. Judged(x, fault, u)
  BY <1>2, <1>3, <1>7, <1>10, <1>11, <1>16, <1>18, Zenon DEF Judged
<1> QED BY <1>22, <1>23

-----------------------------------------------------------------------------
(* All steps *)

LEMMA IdleInv == ASSUME Inv, vars' = vars PROVE Inv'
BY DEF Inv, Types, ClientOK, ServerOK, vars

LEMMA ClosesInv == ASSUME Inv, NEW r \in Role, ForeignCloses(r) PROVE Inv'
<1>1. /\ hs' = hs /\ wire' = wire /\ sent' = sent /\ head' = head /\ config' = config
      /\ closed' = [closed EXCEPT ![r] = TRUE] /\ closed \in [Role -> BOOLEAN]
  BY DEF ForeignCloses, Inv, Types
<1>2. closed' \in [Role -> BOOLEAN]
  BY <1>1
<1> QED BY <1>1, <1>2 DEF Inv, Types, ClientOK, ServerOK

LEMMA NextInv == ASSUME Inv, [Next]_vars PROVE Inv'
<1>1. ASSUME NEW r \in Role, Round(r) PROVE Inv'
  BY <1>1, StartInv, ClientReadsInv, ServerReadsInv, ReadRoundInv, BreaksInv, WriteRoundInv,
     FlushRoundInv DEF Round
<1>2. ASSUME NEW r \in Role, Breaks(r) \/ AppSends(r) \/ ForeignSends(r) \/ ForeignCloses(r)
      PROVE  Inv'
  BY <1>2, BreaksInv, SendsInv, ClosesInv
<1>3. CASE Finished \/ UNCHANGED vars
  BY <1>3, IdleInv DEF Finished
<1> QED BY <1>1, <1>2, <1>3 DEF Next

LEMMA MachType ==
  ASSUME NEW stage \in Stage, NEW o \in Nat, NEW e \in Seq(Byte), NEW k \in Nat, NEW b \in Nat,
         NEW d \in SUBSET Settings, NEW f \in BOOLEAN, NEW g \in Failure
  PROVE  [stage |-> stage, out |-> o, buf |-> e, packets |-> k, bytes |-> b,
          deflate |-> d, rejected |-> f, err |-> g] \in Mach
BY DEF Mach

\* A machine that has not begun.
LEMMA FreshOK ==
  ASSUME NEW r, NEW stage \in {"Foreign", "Start", "Reading"}, NEW h, NEW d, d \subseteq Settings
  PROVE  MachineOK(r, Machine(stage, 0, d), <<>>, 0, h, d)
<1>1. PICK e : e = <<>>
  OBVIOUS
<1>2. e \in Seq(Byte) /\ Len(e) = 0
  BY <1>1
<1>3. Machine(stage, 0, d) \in Mach
  <2>1. stage \in Stage /\ d \in SUBSET Settings /\ "None" \in Failure
    BY FailureSet DEF Stage
  <2>2. PICK f : f = FALSE
    OBVIOUS
  <2>3. PICK o : o = 0
    OBVIOUS
  <2>4. Machine(stage, 0, d) = [stage |-> stage, out |-> o, buf |-> e, packets |-> o, bytes |-> o,
                                deflate |-> d, rejected |-> f, err |-> "None"]
    BY <1>1, <2>2, <2>3, Zenon DEF Machine
  <2>5. f \in BOOLEAN /\ o \in Nat
    BY <2>2, <2>3
  <2>6. [stage |-> stage, out |-> o, buf |-> e, packets |-> o, bytes |-> o,
         deflate |-> d, rejected |-> f, err |-> "None"] \in Mach
    BY <1>2, <2>1, <2>5, MachType, Zenon
  <2> QED BY <2>4, <2>6, Zenon
<1>4. PICK m : m = Machine(stage, 0, d)
  OBVIOUS
<1>5. /\ m.stage = stage /\ m.buf = e /\ m.bytes = 0 /\ m.packets = 0 /\ m.deflate = d
      /\ m.err = "None"
  BY <1>1, <1>4 DEF Machine
<1>6. ~Parsed(r, m)
  BY <1>5 DEF Parsed
<1>7. Holds(e, e, 0, 0)
  <2>1. Run(0, 0) = <<>>
    <3>1. Run(0, 0) \in Seq(Byte) /\ Len(Run(0, 0)) = 0
      BY RunType
    <3> QED BY <3>1, EmptySeq
  <2>2. 0 <= 0 /\ 0 - 0 = 0
    OBVIOUS
  <2>3. e \o e = e
    BY <1>1
  <2> QED BY <1>1, <2>1, <2>2, <2>3, Zenon DEF Holds
<1>8. 0 <= MaxBytes /\ 0 <= MaxPackets /\ BigEnough(m)
  BY <1>5, LengthsAssumption DEF BigEnough
<1>9. MachineOK(r, m, e, 0, h, d)
  BY <1>1, <1>2, <1>3, <1>4, <1>5, <1>6, <1>7, <1>8, Zenon DEF MachineOK, Behind
<1> QED BY <1>1, <1>4, <1>9

LEMMA FreshFlow ==
  ASSUME NEW c, NEW s, c.out = 0, s.out = 0, c.err = "None", s.err = "None",
         c.rejected = FALSE, s.rejected = FALSE, NEW q, NEW p,
         \/ c.stage = "Start" /\ s.stage = "Reading" /\ q = NoHead /\ p = NoHead
         \/ c.stage = "Foreign" /\ s.stage = "Reading" /\ p = NoHead
              /\ q.kind # "none" /\ q.len \in Nat \ {0}
         \/ c.stage = "Start" /\ s.stage = "Foreign" /\ q = NoHead
              /\ p.kind # "none" /\ p.len \in Nat \ {0}
  PROVE  FlowOK(c, s, 0, 0, q, p)
<1>1. NoHead.len = 0
  BY DEF NoHead
<1>2. IsHead(q) /\ IsHead(p)
  BY DEF IsHead
<1>3. c.stage = "Start" => q = NoHead /\ 0 <= q.len
  BY <1>1
<1>4. s.stage = "Reading" => p = NoHead /\ 0 + s.out = p.len
  BY <1>1
<1>5. c.stage \in {"Start", "Foreign"} /\ s.stage \in {"Reading", "Foreign"}
  OBVIOUS
<1> QED BY <1>2, <1>3, <1>4, <1>5 DEF FlowOK

LEMMA InitInv == ASSUME Init PROVE Inv
<1>1. PICK foreign \in {"nobody", "Client", "Server"} : \E h \in Heads(foreign) :
        /\ config \in [Role -> ClientConfigs \cup ServerConfigs]
        /\ config["Client"] \in (IF foreign = "Client" THEN {{}} ELSE ClientConfigs)
        /\ config["Server"] \in (IF foreign = "Server" THEN {{}} ELSE ServerConfigs)
        /\ hs = [r \in Role |->
                   Machine(IF r = foreign THEN "Foreign"
                           ELSE IF r = "Client" THEN "Start" ELSE "Reading", 0, config[r])]
        /\ head = [r \in Role |-> IF r = foreign THEN h ELSE NoHead]
        /\ wire = [r \in Role |-> <<>>]
        /\ sent = [r \in Role |-> 0]
        /\ closed = [r \in Role |-> FALSE]
  BY DEF Init
<1>2. PICK h \in Heads(foreign) : head = [r \in Role |-> IF r = foreign THEN h ELSE NoHead]
  BY <1>1
<1>3. /\ foreign = "Client" => h.kind # "none" /\ h.len \in Nat \ {0}
      /\ foreign = "Server" => h.kind # "none" /\ h.len \in Nat \ {0}
  <2>1. CASE foreign = "Client"
    <3>1. /\ h \in Requests \cup ForeignRequests
      BY <1>2, <2>1 DEF Heads
    <3>2. h.len \in Nat \ {0} /\ h = Request(h.len, h.faults, h.key, h.protocols, h.extensions)
      BY <3>1, HeadsAssumption
    <3>3. h.kind = "request"
      BY <3>2 DEF Request
    <3> QED BY <2>1, <3>2, <3>3
  <2>2. CASE foreign = "Server"
    <3>1. /\ h \in ForeignResponses
      BY <1>2, <2>2 DEF Heads
    <3>2. h.len \in Nat \ {0} /\ h = Response(h.len, h.faults, h.accept, h.protocols, h.extensions)
      BY <3>1, HeadsAssumption
    <3>3. h.kind = "response"
      BY <3>2 DEF Response
    <3> QED BY <2>2, <3>2, <3>3
  <2> QED BY <2>1, <2>2
<1>4. /\ Option(config["Client"]) /\ Option(config["Server"]) /\ DOMAIN config = Role
  <2>1. /\ config["Client"] = {} \/ config["Client"] \in ClientConfigs
        /\ config["Server"] = {} \/ config["Server"] \in ServerConfigs
        /\ DOMAIN config = Role
    BY <1>1
  <2> QED BY <2>1, ConfigsAssumption DEF Option
<1>5. PICK a, b, c, s :
        /\ a = (IF foreign = "Client" THEN "Foreign" ELSE "Start")
        /\ b = (IF foreign = "Server" THEN "Foreign" ELSE "Reading")
        /\ c = Machine(a, 0, config["Client"]) /\ s = Machine(b, 0, config["Server"])
  OBVIOUS
<1>6. DOMAIN hs = Role /\ hs["Client"] = c /\ hs["Server"] = s
  BY <1>1, <1>5, Roles
<1>7. /\ sent = [r \in Role |-> 0] /\ closed = [r \in Role |-> FALSE]
      /\ wire["Client"] = <<>> /\ wire["Server"] = <<>> /\ wire = [r \in Role |-> <<>>]
      /\ sent["Client"] = 0 /\ sent["Server"] = 0
  BY <1>1, Roles
<1>8. /\ head["Client"] = (IF foreign = "Client" THEN h ELSE NoHead)
      /\ head["Server"] = (IF foreign = "Server" THEN h ELSE NoHead)
      /\ DOMAIN head = Role
  BY <1>2, Roles
<1>9. MachineOK("Client", c, <<>>, 0, head["Server"], config["Client"])
  <2>1. config["Client"] \subseteq Settings /\ a \in {"Foreign", "Start", "Reading"}
    BY <1>4, <1>5 DEF Option
  <2> QED BY <1>5, <2>1, FreshOK, Zenon
<1>10. MachineOK("Server", s, <<>>, 0, head["Client"], config["Server"])
  <2>1. config["Server"] \subseteq Settings /\ b \in {"Foreign", "Start", "Reading"}
    BY <1>4, <1>5 DEF Option
  <2> QED BY <1>5, <2>1, FreshOK, Zenon
<1>11. Types
  <2>1. c \in Mach /\ s \in Mach
    BY <1>9, <1>10 DEF MachineOK
  <2>2. hs \in [Role -> Mach]
    <3>1. hs = [r \in Role |-> hs[r]]
      BY <1>1, Zenon
    <3> QED BY <1>6, <2>1, <3>1, Roles
  <2>3. wire \in [Role -> Seq(Byte)]
    <3>1. <<>> \in Seq(Byte)
      OBVIOUS
    <3> QED BY <1>7, <3>1, Zenon
  <2>4. sent \in [Role -> Nat] /\ closed \in [Role -> BOOLEAN]
    BY <1>7
  <2> QED BY <1>4, <1>8, <2>2, <2>3, <2>4 DEF Types
<1>12. FlowOK(c, s, 0, 0, head["Client"], head["Server"])
  <2>1. /\ c.stage = a /\ c.out = 0 /\ c.err = "None" /\ c.rejected = FALSE
        /\ s.stage = b /\ s.out = 0 /\ s.err = "None" /\ s.rejected = FALSE
    BY <1>5 DEF Machine
  <2>2. \/ a = "Start" /\ b = "Reading" /\ head["Client"] = NoHead /\ head["Server"] = NoHead
        \/ a = "Foreign" /\ b = "Reading" /\ head["Server"] = NoHead
             /\ head["Client"].kind # "none" /\ head["Client"].len \in Nat \ {0}
        \/ a = "Start" /\ b = "Foreign" /\ head["Client"] = NoHead
             /\ head["Server"].kind # "none" /\ head["Server"].len \in Nat \ {0}
    <3>1. CASE foreign = "nobody"
      BY <1>5, <1>8, <3>1
    <3>2. CASE foreign = "Client"
      BY <1>3, <1>5, <1>8, <3>2
    <3>3. CASE foreign = "Server"
      BY <1>3, <1>5, <1>8, <3>3
    <3> QED BY <3>1, <3>2, <3>3
  <2> QED BY <2>1, <2>2, FreshFlow
<1> QED BY <1>6, <1>7, <1>9, <1>10, <1>11, <1>12 DEF Inv, ClientOK, ServerOK

-----------------------------------------------------------------------------
(* The negotiation of two machines *)

\* Client c, configured with d, sends the request q.
Asked(c, q, d) ==
  q.kind # "none" =>
    /\ q.extensions \in Fields
    /\ c.stage # "Foreign" =>
         \/ d = {} /\ \E r \in Requests : q.extensions = r.extensions
         \/ \E s \in d : q.extensions = Field(offer(s))

\* Server s, configured with d, answers q with p.
Replied(s, q, p, d) ==
  /\ s.stage \in {"Writing", "Flushing", "Done"} => p.kind # "none"
  /\ s.stage # "Foreign" /\ p.kind # "none" =>
       /\ q.kind # "none"
       /\ s.rejected = FALSE => HasAgreed(d, q.extensions, p.extensions, s.deflate)

\* Client c, configured with d, has read p.
Chosen(c, p, d) ==
  /\ c.stage = "Done" =>
       /\ p.kind # "none" /\ verify_deflate_response(d, p.extensions).err = "None"
       /\ c.deflate = verify_deflate_response(d, p.extensions).deflate
  /\ c.err = "InvalidHeader" =>
       /\ p.kind # "none"
       /\ verify_deflate_response(d, p.extensions).err = "InvalidHeader"

\* The second inductive invariant: what each side installs is a function of the
\* configurations and the two heads, which do not change once they are made.
Negotiated ==
  /\ Asked(hs["Client"], head["Client"], config["Client"])
  /\ Replied(hs["Server"], head["Client"], head["Server"], config["Server"])
  /\ Chosen(hs["Client"], head["Server"], config["Client"])

LEMMA NegotiatedImplies ==
  ASSUME Inv, Negotiated
  PROVE  AnswerMatchesCodec /\ SelectionMatchesCodec /\ CodecsAgree
<1>1. PICK c, s, q, p, dc, ds :
        /\ c = hs["Client"] /\ s = hs["Server"] /\ q = head["Client"] /\ p = head["Server"]
        /\ dc = config["Client"] /\ ds = config["Server"]
  OBVIOUS
<1>2. /\ Asked(c, q, dc) /\ Replied(s, q, p, ds) /\ Chosen(c, p, dc)
      /\ Option(dc) /\ Option(ds)
  BY <1>1, Zenon DEF Negotiated, Inv, Types
<1>3. ASSUME s.stage # "Foreign", p.kind # "none", s.rejected = FALSE
      PROVE  HasAgreed(ds, q.extensions, p.extensions, s.deflate) /\ q.extensions \in Fields
  BY <1>2, <1>3, Zenon DEF Replied, Asked
<1>4. AnswerMatchesCodec
  <2>1. SUFFICES ASSUME s.stage \in {"Writing", "Flushing", "Done"}, ~s.rejected
                 PROVE  AnswerMatches(q.extensions, p.extensions, s.deflate)
    BY <1>1, Zenon DEF AnswerMatchesCodec, AnswerMatches
  <2>2. s.rejected = FALSE
    <3>1. s.rejected \in BOOLEAN
      BY <1>1, Roles DEF Inv, Types, Mach
    <3> QED BY <2>1, <3>1, Zenon
  <2>3. p.kind # "none"
    BY <1>2, <2>1 DEF Replied
  <2> QED BY <1>2, <1>3, <2>1, <2>2, <2>3, AgreedMatches
<1>5. SelectionMatchesCodec
  <2>1. SUFFICES ASSUME c.stage = "Done" PROVE SelectionMatches(dc, p.extensions, c.deflate)
    BY <1>1, Zenon DEF SelectionMatchesCodec, SelectionMatches
  <2>2. PICK x : x = verify_deflate_response(dc, p.extensions)
    OBVIOUS
  <2>3. x.err = "None" /\ c.deflate = x.deflate
    BY <1>2, <2>1, <2>2 DEF Chosen
  <2> QED BY <1>2, <2>2, <2>3, VerifiedMatches
<1>6. CodecsAgree
  <2>1. SUFFICES ASSUME c.stage = "Done", s.stage # "Foreign", ~s.rejected
                 PROVE  Agree(c.deflate, s.deflate)
    BY <1>1, Zenon DEF CodecsAgree, Agree
  <2>2. PICK x : x = verify_deflate_response(dc, p.extensions)
    OBVIOUS
  <2>3. x.err = "None" /\ c.deflate = x.deflate /\ p.kind # "none"
    BY <1>2, <2>1, <2>2 DEF Chosen
  <2>4. s.rejected = FALSE
    <3>1. s.rejected \in BOOLEAN
      BY <1>1, Roles DEF Inv, Types, Mach
    <3> QED BY <2>1, <3>1, Zenon
  <2> QED BY <1>2, <1>3, <2>1, <2>2, <2>3, <2>4, BothAgree
<1> QED BY <1>4, <1>5, <1>6

\* The offer of this library is a field.
LEMMA OfferField == ASSUME NEW s \in Settings PROVE Field(offer(s)) \in Fields
<1> DEFINE P == [name : ParameterNames, value : Int]
           E == Extensions
           V == [splits : BOOLEAN, extensions : Seq(E)]
<1>1. PICK p : p = offer(s).params
  OBVIOUS
<1>2. p \in Seq(Parm) /\ offer(s) = Deflate(p)
  BY <1>1, OfferIs, Zenon
<1>3. Parm \subseteq P
  BY DEF Parm, Names, ParameterNames
<1>4. p \in Seq(P)
  <2> HIDE DEF P
  <2> QED BY <1>2, <1>3
<1>5. PICK e : e = Deflate(p)
  OBVIOUS
<1>6. e \in E
  <2>1. PICK S : S = Seq(P)
    OBVIOUS
  <2>2. p \in S
    BY <1>4, <2>1, Zenon
  <2>3. e \in [name : {"permessage-deflate", "other", "empty", "nameless"}, params : S]
    BY <1>5, <2>2 DEF Deflate
  <2> QED BY <2>1, <2>3, Zenon DEF Extensions
<1>7. PICK l, v : l = <<e>> /\ v = HeaderValue(l)
  OBVIOUS
<1>8. l \in Seq(E)
  <2> HIDE DEF E
  <2> QED BY <1>6, <1>7
<1>9. v \in V
  <2>1. PICK S : S = Seq(E)
    OBVIOUS
  <2>2. l \in S
    BY <1>8, <2>1, Zenon
  <2>3. v \in [splits : BOOLEAN, extensions : S]
    BY <1>7, <2>2 DEF HeaderValue
  <2> QED BY <2>1, <2>3, Zenon
<1>10. <<v>> \in Seq(V)
  <2> HIDE DEF V
  <2> QED BY <1>9
<1>11. Field(offer(s)) = <<v>> /\ Fields = Seq(V)
  BY <1>2, <1>5, <1>7, Zenon DEF Field, Fields
<1> QED BY <1>10, <1>11, Zenon

\* A step of one machine that leaves the heads as they are and does not end the
\* reading of one.
LEMMA MovesNegotiated ==
  ASSUME Inv, Negotiated, NEW r \in Role, hs[r].stage # "Foreign", head' = head, config' = config,
         NEW v \in Mach, Becomes(r, v),
         r = "Client" => v.stage # "Done" /\ v.err # "InvalidHeader",
         r = "Server" =>
           /\ v.deflate = hs[r].deflate /\ v.rejected = hs[r].rejected
           /\ v.stage \in {"Writing", "Flushing", "Done"} =>
                hs[r].stage \in {"Writing", "Flushing", "Done"}
  PROVE  Negotiated'
<1>1. hs'[r] = v /\ hs'[Peer(r)] = hs[Peer(r)]
  BY BecomesType DEF Inv
<1>2. PICK c, s, q, p, dc, ds :
        /\ c = hs["Client"] /\ s = hs["Server"] /\ q = head["Client"] /\ p = head["Server"]
        /\ dc = config["Client"] /\ ds = config["Server"]
  OBVIOUS
<1>3. Asked(c, q, dc) /\ Replied(s, q, p, ds) /\ Chosen(c, p, dc)
  BY <1>2, Zenon DEF Negotiated
<1>4. CASE r = "Client"
  <2>1. Asked(v, q, dc)
    BY <1>2, <1>3, <1>4, Zenon DEF Asked
  <2>2. Chosen(v, p, dc)
    BY <1>4 DEF Chosen
  <2>3. hs'["Client"] = v /\ hs'["Server"] = s
    BY <1>1, <1>2, <1>4, Roles
  <2> QED BY <1>2, <1>3, <2>1, <2>2, <2>3, Zenon DEF Negotiated
<1>5. CASE r = "Server"
  <2>1. Replied(v, q, p, ds)
    BY <1>2, <1>3, <1>5, Zenon DEF Replied
  <2>2. hs'["Client"] = c /\ hs'["Server"] = v
    BY <1>1, <1>2, <1>5, Roles
  <2> QED BY <1>2, <1>3, <2>1, <2>2, Zenon DEF Negotiated
<1> QED BY <1>4, <1>5, Roles

LEMMA FailsNegotiated ==
  ASSUME Inv, Negotiated, NEW r \in Role, hs[r].stage # "Foreign", head' = head, config' = config,
         NEW m \in Mach, NEW e \in Failure, e # "InvalidHeader", Becomes(r, Failed(m, e)),
         m.deflate = hs[r].deflate, m.rejected = hs[r].rejected
  PROVE  Negotiated'
<1>1. PICK v : v = Failed(m, e)
  OBVIOUS
<1>2. /\ v \in Mach /\ v.stage = "Failed" /\ v.err = e /\ v.deflate = m.deflate
      /\ v.rejected = m.rejected
  BY <1>1 DEF Failed, Mach, Stage
<1> QED BY <1>1, <1>2, MovesNegotiated

LEMMA BreaksNegotiated ==
  ASSUME Inv, Negotiated, NEW r \in Role, Breaks(r) \/ ReadEof(r) PROVE Negotiated'
<1>1. /\ \E e \in {"Io", "Dropped", "Panic", "HandshakeIncomplete"} : Becomes(r, Failed(hs[r], e))
      /\ hs[r].stage \in {"Reading", "Writing", "Flushing"} /\ head' = head /\ config' = config
  BY DEF Breaks, ReadEof
<1>2. PICK e \in {"Io", "Dropped", "Panic", "HandshakeIncomplete"} : Becomes(r, Failed(hs[r], e))
  BY <1>1
<1>3. e \in Failure /\ e # "InvalidHeader" /\ hs[r] \in Mach /\ hs[r].stage # "Foreign"
  BY <1>1, FailureSet DEF Inv, Types
<1> QED BY <1>1, <1>2, <1>3, FailsNegotiated

\* A machine that has not failed has no error.
LEMMA NoError == ASSUME Inv, NEW r \in Role, hs[r].stage # "Failed" PROVE hs[r].err = "None"
BY Roles DEF Inv, ClientOK, ServerOK, MachineOK

LEMMA WriteRoundNegotiated ==
  ASSUME Inv, Negotiated, NEW r \in Role, WriteRound(r) PROVE Negotiated'
<1>1. PICK n \in 1..hs[r].out : Becomes(r, Written(hs[r], n))
  BY DEF WriteRound
<1>2. hs[r].stage = "Writing" /\ head' = head /\ config' = config /\ hs[r] \in Mach
  BY DEF WriteRound, Inv, Types
<1>3. PICK v : v = Written(hs[r], n)
  OBVIOUS
<1>4. /\ v \in Mach /\ v.stage \in {"Writing", "Flushing"} /\ v.err = hs[r].err
      /\ v.deflate = hs[r].deflate /\ v.rejected = hs[r].rejected
  <2>1. hs[r].out - n \in Nat
    BY <1>2 DEF Mach
  <2> QED BY <1>2, <1>3, <2>1 DEF Written, Mach, Stage
<1>5. hs[r].err = "None"
  BY <1>2, NoError
<1> QED BY <1>1, <1>2, <1>3, <1>4, <1>5, MovesNegotiated

LEMMA FlushRoundNegotiated ==
  ASSUME Inv, Negotiated, NEW r \in Role, FlushRound(r) PROVE Negotiated'
<1>1. /\ Becomes(r, DoneWriting(r, hs[r])) /\ hs[r].stage = "Flushing"
      /\ head' = head /\ config' = config
  BY DEF FlushRound
<1>2. PICK w, n, h, d, m, v :
        /\ w = wire[Peer(r)] /\ n = sent[Peer(r)] /\ h = head[Peer(r)] /\ d = config[r]
        /\ m = hs[r] /\ v = DoneWriting(r, m)
  OBVIOUS
<1>3. MachineOK(r, m, w, n, h, d) /\ w \in Seq(Byte) /\ n \in Nat
  BY <1>2, Roles DEF Inv, ClientOK, ServerOK, Types
<1>4. /\ MachineOK(r, v, w, n, h, d) /\ v.rejected = m.rejected /\ v.deflate = m.deflate
      /\ r = "Client" => v.stage = "Reading" /\ v.err = "None"
  BY <1>1, <1>2, <1>3, FlushedOK
<1>5. v \in Mach
  BY <1>4 DEF MachineOK
<1> QED BY <1>1, <1>2, <1>4, <1>5, MovesNegotiated

LEMMA ReadRoundNegotiated ==
  ASSUME Inv, Negotiated, NEW r \in Role, ReadRound(r) PROVE Negotiated'
<1>1. PICK n \in PacketSizes(r) :
        /\ \/ Becomes(r, Failed(Receive(r, n), "AttackAttempt"))
           \/ Becomes(r, Failed(Receive(r, n), "Malformed"))
           \/ Becomes(r, Receive(r, n))
        /\ Consume(r, n)
  BY Zenon DEF ReadRound
<1>2. hs[r].stage = "Reading" /\ head' = head /\ config' = config
  BY DEF ReadRound
<1>3. PICK m, y, k, h, d : /\ m = Receive(r, n) /\ y = wire'[Peer(r)] /\ k = sent[Peer(r)]
                           /\ h = head[Peer(r)] /\ d = config[r]
  OBVIOUS
<1>4. HasRead(r, hs[r], m, y, k, h, d)
  BY <1>1, <1>2, <1>3, ReceiveIs, Zenon
<1>5. m \in Mach /\ m.stage = "Reading" /\ m.rejected = hs[r].rejected /\ m.err = "None" /\ m.deflate = d
  BY <1>4, Zenon DEF HasRead
<1>6. hs[r].deflate = d
  <2>1. hs[r].err = "None"
    BY <1>2, NoError
  <2>2. ~Parsed(r, hs[r])
    BY <1>2, <2>1 DEF Parsed
  <2> QED BY <1>2, <1>3, <2>2, Roles DEF Inv, ClientOK, ServerOK, MachineOK
<1>7. CASE Becomes(r, m)
  BY <1>2, <1>5, <1>6, <1>7, MovesNegotiated
<1>8. ASSUME NEW e \in {"AttackAttempt", "Malformed"}, Becomes(r, Failed(m, e)) PROVE Negotiated'
  <2>1. e \in Failure /\ e # "InvalidHeader" /\ hs[r].stage # "Foreign"
    BY <1>2, FailureSet
  <2> QED BY <1>2, <1>5, <1>6, <1>8, <2>1, FailsNegotiated
<1> QED BY <1>1, <1>3, <1>7, <1>8

\* The heads of a request are those of the application or the offer.
LEMMA StartAsks ==
  ASSUME NEW d, Option(d), NEW q \in Requests, NEW x,
         x = IF d = {} THEN q.extensions ELSE Field(offer(CHOOSE s \in d : TRUE)),
         NEW g, g = [q EXCEPT !.extensions = x], NEW c
  PROVE  Asked(c, g, d)
<1>1. g.extensions = x
  <2>1. q = Request(q.len, q.faults, q.key, q.protocols, q.extensions)
    BY HeadsAssumption
  <2> QED BY <2>1 DEF Request
<1>2. CASE d = {}
  <2>1. x = q.extensions /\ q.extensions \in Fields
    BY <1>2, HeadsAssumption
  <2> QED BY <1>1, <1>2, <2>1, Zenon DEF Asked
<1>3. CASE d # {}
  <2>1. PICK s \in Settings : d = {s}
    BY <1>3 DEF Option
  <2>2. (CHOOSE t \in d : TRUE) = s
    BY <2>1
  <2>3. x = Field(offer(s)) /\ Field(offer(s)) \in Fields
    BY <1>3, <2>2, OfferField, Zenon
  <2> QED BY <1>1, <2>1, <2>3, Zenon DEF Asked
<1> QED BY <1>2, <1>3

LEMMA StartNegotiated == ASSUME Inv, Negotiated, Start PROVE Negotiated'
<1> DEFINE d == hs["Client"].deflate
           Faults(q) == q.faults \cup
             (IF d # {} /\ q.extensions # <<>> THEN {"ExtensionsAlreadyPresent"} ELSE {})
           Offers(q) == IF d = {} THEN q.extensions ELSE Field(offer(CHOOSE s \in d : TRUE))
<1>0. PICK q \in Requests :
        /\ Becomes("Client", IF FirstFault(StartChecks, Faults(q)) = "None"
                               THEN start_write(hs["Client"], q.len)
                             ELSE Failed(hs["Client"], FirstFault(StartChecks, Faults(q))))
        /\ head' = [head EXCEPT !["Client"] = [q EXCEPT !.extensions = Offers(q)]]
  BY Zenon DEF Start
<1> HIDE DEF Faults
<1>1. PICK e, x, o, c, g :
        /\ e = FirstFault(StartChecks, Faults(q)) /\ o = hs["Client"].deflate
        /\ x = (IF o = {} THEN q.extensions ELSE Field(offer(CHOOSE s \in o : TRUE)))
        /\ g = [q EXCEPT !.extensions = x]
        /\ c = IF e = "None" THEN start_write(hs["Client"], q.len) ELSE Failed(hs["Client"], e)
        /\ Becomes("Client", c) /\ head' = [head EXCEPT !["Client"] = g]
  BY <1>0, Zenon
<1> HIDE DEF Offers, d
<1>2. /\ hs["Client"].stage = "Start" /\ hs["Client"] \in Mach /\ DOMAIN head = Role /\ config' = config
      /\ Option(config["Client"]) /\ Types
  BY Roles DEF Start, Inv, Types
<1>3. hs["Client"].err = "None"
  BY <1>2, NoError, Roles
<1>4. o = config["Client"]
  BY <1>1, <1>2, <1>3 DEF Inv, ClientOK, MachineOK, Parsed
<1>5. e \in Failure /\ e # "InvalidHeader"
  BY <1>1, StartFault, FailureSet
<1>6. c \in Mach /\ c.stage # "Done" /\ c.err # "InvalidHeader"
  <2>1. CASE e = "None"
    <3>1. q.len \in Nat
      BY HeadsAssumption
    <3>2. c = start_write(hs["Client"], q.len)
      BY <1>1, <2>1, Zenon
    <3> QED BY <1>2, <1>3, <3>1, <3>2 DEF start_write, Mach, Stage
  <2>2. CASE e # "None"
    <3>1. c = Failed(hs["Client"], e)
      BY <1>1, <2>2, Zenon
    <3> QED BY <1>2, <1>5, <3>1 DEF Failed, Mach, Stage
  <2> QED BY <2>1, <2>2
<1>7. hs'["Client"] = c /\ hs'["Server"] = hs["Server"]
  BY <1>1, <1>2, <1>6, BecomesType, Roles
<1>8. head'["Client"] = g /\ head'["Server"] = head["Server"]
  <2>1. head' = [head EXCEPT !["Client"] = g]
    BY <1>1
  <2> QED BY <1>2, <2>1, Roles, Zenon
<1>9. Asked(c, g, config["Client"])
  BY <1>1, <1>2, <1>4, StartAsks, Zenon
<1>10. Chosen(c, head["Server"], config["Client"])
  BY <1>6 DEF Chosen
<1>11. Replied(hs["Server"], g, head["Server"], config["Server"])
  <2>1. head["Client"] = NoHead
    BY <1>2 DEF Inv, FlowOK
  <2>2. NoHead.kind = "none"
    BY DEF NoHead
  <2> QED BY <2>1, <2>2, Zenon DEF Negotiated, Replied
<1> QED BY <1>2, <1>7, <1>8, <1>9, <1>10, <1>11, Zenon DEF Negotiated

LEMMA ServerReadsNegotiated == ASSUME Inv, Negotiated, ServerReads PROVE Negotiated'
<1>1. PICK cb, v, fault, answer, done : Served(cb, v, fault, answer, done)
  BY ServerReadsInv, Zenon
<1>2. PICK c, q, p, d, dc : /\ c = hs["Client"] /\ q = head["Client"] /\ p = head["Server"]
                            /\ d = config["Server"] /\ dc = config["Client"]
  OBVIOUS
<1>3. /\ cb \in Callbacks /\ answer = ServerAnswer(d, q, cb)
      /\ HasAnswered(done, v, cb, fault, answer) /\ (fault = "None" => answer.err = "None")
      /\ hs'["Server"] = done.m /\ hs'["Client"] = c /\ config' = config
      /\ head'["Server"] = done.head /\ head'["Client"] = q /\ q.kind # "none"
  BY <1>1, <1>2, Zenon DEF Served
<1>4. /\ Asked(c, q, dc) /\ Chosen(c, p, dc) /\ Option(d)
  BY <1>2, Zenon DEF Negotiated, Inv, Types
<1>5. p = NoHead
  BY <1>2 DEF Inv, FlowOK, ServerReads
<1>6. Chosen(c, done.head, dc)
  <2>1. p.kind = "none"
    BY <1>5 DEF NoHead
  <2>2. c.stage # "Done" /\ c.err # "InvalidHeader"
    BY <1>4, <2>1, Zenon DEF Chosen
  <2> QED BY <2>2, Zenon DEF Chosen
<1>7. Replied(done.m, q, done.head, d)
  <2>1. CASE fault # "None"
    <3>1. done.m.stage = "Failed" /\ done.head = NoHead
      BY <1>3, <2>1, Zenon DEF HasAnswered
    <3> QED BY <3>1 DEF Replied, NoHead
  <2>2. CASE fault = "None"
    <3>1. /\ done.m.stage = "Writing" /\ done.m.rejected = cb.rejects
          /\ done.m.deflate = answer.deflate /\ done.head = answer.head
      BY <1>3, <2>2, Zenon DEF HasAnswered
    <3>2. answer.err = "None"
      BY <1>3, <2>2
    <3>3. answer.head.kind # "none"
      <4>1. answer.head.kind = "response"
        BY <1>3, <1>4, <3>2, AnswerIs
      <4> QED BY <4>1
    <3>4. ASSUME cb.rejects = FALSE
          PROVE  HasAgreed(d, q.extensions, answer.head.extensions, answer.deflate)
      <4>1. PICK x : x = ServerExtensions(d, accept_deflate_offers(d, q.extensions), cb)
        OBVIOUS
      <4>2. x.err = "None" /\ answer.deflate = x.deflate /\ answer.head.extensions = x.extensions
        BY <1>3, <1>4, <3>2, <3>4, <4>1, AnswerIs
      <4> QED BY <1>3, <4>1, <4>2, Zenon DEF HasAgreed
    <3> QED BY <1>3, <3>1, <3>3, <3>4, Zenon DEF Replied
  <2> QED BY <2>1, <2>2
<1> QED BY <1>2, <1>3, <1>4, <1>6, <1>7, Zenon DEF Negotiated

LEMMA ClientReadsNegotiated == ASSUME Inv, Negotiated, ClientReads PROVE Negotiated'
<1>1. PICK x, fault, u : Judged(x, fault, u)
  BY ClientReadsInv, Zenon
<1>2. PICK q, p, d : q = head["Client"] /\ p = head["Server"] /\ d = config["Client"]
  OBVIOUS
<1>3. /\ x = verify_deflate_response(d, p.extensions) /\ fault = ClientFault(q, p, x)
      /\ HasSettled(u, fault, x)
      /\ hs'["Client"] = u /\ hs'["Server"] = hs["Server"] /\ head' = head /\ config' = config
      /\ p.kind # "none"
  BY <1>1, <1>2, Zenon DEF Judged
<1>4. Option(d) /\ hs["Client"].stage = "Reading"
  BY <1>2 DEF Inv, Types, ClientReads
<1>5. Asked(u, q, d)
  <2>1. Asked(hs["Client"], q, d) /\ hs["Client"].stage # "Foreign"
    BY <1>2, <1>4, Zenon DEF Negotiated
  <2> QED BY <2>1, Zenon DEF Asked
<1>6. Chosen(u, p, d)
  <2>1. x.err \in {"None", "InvalidHeader"}
    BY <1>3, <1>4, Verified
  <2>2. /\ fault = "None" => x.err = "None"
        /\ fault = "InvalidHeader" => x.err = "InvalidHeader" /\ "Http" \notin p.faults
    BY <1>3, <2>1, ClientFaultIs
  <2>3. CASE fault = "None"
    <3>1. u.stage = "Done" /\ u.err = "None" /\ u.deflate = x.deflate
      BY <1>3, <2>3, Zenon DEF HasSettled
    <3> QED BY <1>3, <2>2, <2>3, <3>1 DEF Chosen
  <2>4. CASE fault # "None"
    <3>1. u.stage = "Failed" /\ u.err = fault
      BY <1>3, <2>4, Zenon DEF HasSettled
    <3> QED BY <1>3, <2>2, <3>1 DEF Chosen
  <2> QED BY <2>3, <2>4
<1> QED BY <1>2, <1>3, <1>5, <1>6, Zenon DEF Negotiated

LEMMA NextNegotiated == ASSUME Inv, Negotiated, [Next]_vars PROVE Negotiated'
<1>1. ASSUME NEW r \in Role, Round(r) PROVE Negotiated'
  BY <1>1, StartNegotiated, ClientReadsNegotiated, ServerReadsNegotiated, ReadRoundNegotiated,
     BreaksNegotiated, WriteRoundNegotiated, FlushRoundNegotiated DEF Round
<1>2. CASE hs' = hs /\ head' = head /\ config' = config
  BY <1>2, Zenon DEF Negotiated
<1>3. ASSUME NEW r \in Role, AppSends(r) \/ ForeignSends(r) \/ ForeignCloses(r) PROVE Negotiated'
  BY <1>2, <1>3 DEF AppSends, ForeignSends, ForeignCloses
<1>4. CASE Finished \/ UNCHANGED vars
  BY <1>2, <1>4 DEF Finished, vars
<1> QED BY <1>1, <1>3, <1>4, BreaksNegotiated DEF Next

LEMMA InitNegotiated == ASSUME Init PROVE Negotiated
<1>1. PICK foreign \in {"nobody", "Client", "Server"} : \E h \in Heads(foreign) :
        /\ hs = [r \in Role |->
                   Machine(IF r = foreign THEN "Foreign"
                           ELSE IF r = "Client" THEN "Start" ELSE "Reading", 0, config[r])]
        /\ head = [r \in Role |-> IF r = foreign THEN h ELSE NoHead]
  BY Zenon DEF Init
<1>2. PICK h \in Heads(foreign) : head = [r \in Role |-> IF r = foreign THEN h ELSE NoHead]
  BY <1>1
<1>3. PICK c, s, q, p, dc, ds :
        /\ c = hs["Client"] /\ s = hs["Server"] /\ q = head["Client"] /\ p = head["Server"]
        /\ dc = config["Client"] /\ ds = config["Server"]
  OBVIOUS
<1>4. /\ c = Machine(IF foreign = "Client" THEN "Foreign" ELSE "Start", 0, dc)
      /\ s = Machine(IF foreign = "Server" THEN "Foreign" ELSE "Reading", 0, ds)
      /\ q = (IF foreign = "Client" THEN h ELSE NoHead)
      /\ p = (IF foreign = "Server" THEN h ELSE NoHead)
  BY <1>1, <1>2, <1>3, Roles
<1>5. /\ c.stage = (IF foreign = "Client" THEN "Foreign" ELSE "Start") /\ c.err = "None"
      /\ s.stage = (IF foreign = "Server" THEN "Foreign" ELSE "Reading")
  BY <1>4, Zenon DEF Machine
<1>6. NoHead.kind = "none"
  BY DEF NoHead
<1>7. Asked(c, q, dc)
  <2>1. CASE foreign = "Client"
    <3>1. h \in Requests \cup ForeignRequests
      BY <1>2, <2>1 DEF Heads
    <3>2. h.extensions \in Fields
      BY <3>1, HeadsAssumption
    <3> QED BY <1>4, <1>5, <2>1, <3>2, Zenon DEF Asked
  <2>2. CASE foreign # "Client"
    BY <1>4, <1>6, <2>2, Zenon DEF Asked
  <2> QED BY <2>1, <2>2
<1>8. Replied(s, q, p, ds)
  BY <1>4, <1>5, <1>6 DEF Replied
<1>9. Chosen(c, p, dc)
  BY <1>5 DEF Chosen
<1> QED BY <1>3, <1>7, <1>8, <1>9, Zenon DEF Negotiated

-----------------------------------------------------------------------------
(* The theorems *)

LEMMA Always == Spec => []Inv
BY InitInv, NextInv, PTL DEF Spec

LEMMA AlwaysNegotiated == Spec => []Negotiated
BY Always, InitNegotiated, NextNegotiated, PTL DEF Spec

\* The state of the two machines has its type in every reachable state
\* (HandshakeState, AttackCheck, the fields of the roles).
THEOREM TypeCorrect == Spec => []TypeOK
BY Always, InvImplies, PTL

\* No byte is lost, repeated or reordered between the handshake and the WebSocket:
\* however the two streams cut heads and frames into packets, the buffer of a
\* machine and what is in flight to it are what its peer sent, behind the head
\* once that is parsed (ReadBuffer::into_vec, the tail of ClientHandshake).
THEOREM TailIsKept == Spec => []NothingLost
BY Always, InvImplies, PTL

\* A client of this library is never told JunkAfterRequest: until it has the
\* response it sends no more than its request.
THEOREM NoJunkFromClient == Spec => []NoJunk
BY Always, InvImplies, PTL

\* A client gets a WebSocket from a server of this library only if that server let it
\* pass and has written its whole response, or if the callback's Err carried a response
\* that says 101, which the server writes as it is (write_response).
THEOREM SwitchedTogether == Spec => []SwitchTogether
BY Always, InvImplies, PTL

\* AttackCheck bounds what a peer can make a machine collect: no buffer grows beyond
\* MaxBytes, no head takes more than MaxPackets or many packets that are small on
\* average, and no larger head is parsed.
THEOREM HeadsAreBounded == Spec => []HeadBounded
BY Always, InvImplies, PTL

\* A server whose callback rejected the request ends with an error, not with a
\* WebSocket (error_response).
THEOREM RejectedGetNoSocket == Spec => []RejectedIsNotServed
BY Always, InvImplies, PTL

\* What the server installs is what its 101 says, to any client: nothing selected
\* and no codec, or one selection that fits an offer of the request, with a codec
\* that works with every codec it allows the client (accept_deflate_offers).
THEOREM AnswersAreKept == Spec => []AnswerMatchesCodec
BY Always, AlwaysNegotiated, NegotiatedImplies, PTL

\* What the client installs is what the 101 selects, whoever the server is, and is
\* within what its application configured (accept_response).
THEOREM SelectionsAreKept == Spec => []SelectionMatchesCodec
BY Always, AlwaysNegotiated, NegotiatedImplies, PTL

\* A client and a server of this library that did not reject it agree whether to
\* compress, and each inflates what the other deflates, for all configurations.
THEOREM PeersAgree == Spec => []CodecsAgree
BY Always, AlwaysNegotiated, NegotiatedImplies, PTL

\* A client accepts what a server of this library that does not reject it answers, for
\* all configurations of the two, if its application does not itself offer
\* permessage-deflate and the server's callback adds no extension, or none without a
\* name.
THEOREM PeersSucceed ==
  ASSUME \A q \in Requests : headers_select_deflate(q.extensions) = "No",
         \A cb \in Callbacks : NoNameless(cb.extensions)
  PROVE  Spec => []HonestPeersSucceed
<1>1. ASSUME Inv, Negotiated PROVE HonestPeersSucceed
  <2>1. PICK c, s, q, p, dc, ds :
          /\ c = hs["Client"] /\ s = hs["Server"] /\ q = head["Client"] /\ p = head["Server"]
          /\ dc = config["Client"] /\ ds = config["Server"]
    OBVIOUS
  <2>2. /\ Asked(c, q, dc) /\ Replied(s, q, p, ds) /\ Chosen(c, p, dc)
        /\ Option(dc) /\ Option(ds)
    BY <1>1, <2>1, Zenon DEF Negotiated, Inv, Types
  <2>3. SUFFICES ASSUME c.err = "InvalidHeader", s.stage # "Foreign", ~s.rejected
                 PROVE  \E x \in Places(p.extensions) : parse(At(p.extensions, x)) = "Other"
    BY <2>1, Zenon DEF HonestPeersSucceed
  <2>4. /\ p.kind # "none"
        /\ verify_deflate_response(dc, p.extensions).err = "InvalidHeader"
    BY <2>2, <2>3, Zenon DEF Chosen
  <2>5. s.rejected = FALSE
    <3>1. s.rejected \in BOOLEAN
      BY <1>1, <2>1, Roles DEF Inv, Types, Mach
    <3> QED BY <2>3, <3>1, Zenon
  <2>6. HasAgreed(ds, q.extensions, p.extensions, s.deflate) /\ q.kind # "none"
    BY <2>2, <2>3, <2>4, <2>5, Zenon DEF Replied
  <2>7. c.stage # "Foreign"
    <3>1. c.err # "None" => c.stage = "Failed"
      BY <1>1, <2>1 DEF Inv, ClientOK, MachineOK
    <3> QED BY <2>3, <3>1
  <2>8. q.extensions \in Fields /\ Asks(dc, q.extensions)
    BY <2>2, <2>6, <2>7, Zenon DEF Asked, Asks
  <2> QED BY <2>2, <2>4, <2>6, <2>8, OnlyOthers
<1> QED BY <1>1, Always, AlwaysNegotiated, PTL

=============================================================================
