SPECIFICATION Spec
CONSTANTS
  HeaderLen = 1
  MaskLen = 1
  ControlMax = 2
  ProtocolReplyLen = 2
  Deflate = FALSE
  NoContextTakeover <- Takeover
  CompressedSizes = {1}
  StreamErrors = {"WouldBlock"}
  InitConfig <- Config
  Messages <- Pings
  CloseFrames <- NormalClose
  MaxSent = 2
  MayCrash = {"Client", "Server"}
INVARIANTS BrokenHasCause
PROPERTIES ImplementsChannel BothEnd ReplySent
