----------------------------- MODULE MCConnect -----------------------------
(* Instances of Connect: two hosts and a literal, both schemes, a port, and *)
(* Locations that are relative or have another scheme.                      *)
EXTENDS Connect

U(scheme, host, port) == [scheme |-> scheme, host |-> host, port |-> port]

SomeUris ==
  {U("ws", "a", "none"), U("wss", "a", "none"), U("wss", "b", "8443"),
   U("wss", "[::1]", "none"), U("other", "a", "none"), U("none", "none", "none")}

SomeAddrLists == {<<>>, <<1>>, <<1, 2>>, <<2, 2, 3>>}

AllBuilds == SUBSET {"native-tls", "rustls"}

=============================================================================
