SPECIFICATION FairSpec
CONSTANTS
  Requests <- AppRequests
  ClientConfigs <- TwoConfigs
  ServerConfigs <- TwoConfigs
  Callbacks <- AppCallbacks
  ForeignRequests <- OddRequests
  ForeignResponses <- OddResponses
  RequestLen = 3
  ResponseLen = 2
  ChunkSize = 3
  MaxBytes = 6
  MaxPackets = 3
  MinPacketSize = 2
  MinPacketCheckThreshold = 2
  MaxRest = 2
  MaxFlight = 3
  StreamFails = TRUE
INVARIANTS NothingLost SwitchTogether NoJunk HeadBounded RejectedIsNotServed
PROPERTY Terminates
