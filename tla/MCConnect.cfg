SPECIFICATION Spec
CONSTANTS
  Hosts = {"a", "b", "[::1]"}
  Ports = {"8443"}
  Uris <- SomeUris
  AddrLists <- SomeAddrLists
  Limits = {0, 1, 2}
  Builds <- AllBuilds
  Literals = {"[::1]"}
INVARIANTS StreamFitsUri RedirectsBounded AddressesInOrder
PROPERTIES Finishes
