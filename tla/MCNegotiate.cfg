SPECIFICATION Spec
CONSTANTS
  Requests <- HonestRequests
  ClientConfigs <- AllConfigs
  ServerConfigs <- AllConfigs
  Callbacks <- AppCallbacks
  ForeignRequests <- OfferingRequests
  ForeignResponses <- SelectingResponses
  RequestLen = 1
  ResponseLen = 1
  ChunkSize = 1
  MaxBytes = 4
  MaxPackets = 3
  MinPacketSize = 1
  MinPacketCheckThreshold = 2
  MaxRest = 0
  MaxFlight = 1
  StreamFails = FALSE
INVARIANTS CodecsAgree HonestPeersSucceed AnswerMatchesCodec SelectionMatchesCodec
