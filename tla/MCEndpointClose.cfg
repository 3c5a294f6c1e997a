SPECIFICATION Spec
CONSTANTS
  HeaderLen = 1
  MaskLen = 1
  ControlMax = 2
  ProtocolReplyLen = 2
  Deflate = FALSE
  NoContextTakeover <- Takeover
  CompressedSizes = {1}
  StreamErrors = {"WouldBlock", "ConnectionReset", "OtherIo"}
  Roles = {"Server", "Client"}
  InitConfig <- CloseConfig
  Configs <- CloseConfigs
  Messages <- CloseMessages
  CloseFrames <- CloseCloseFrames
  InFrames <- CloseInFrames
  MaxSent = 2
  MaxFrames = 2
INVARIANTS FramedWire CloseReplyKept OnlyPongAfterClose
PROPERTIES BufferBound ReplyNotDropped StateOrder ClosedOnlyAfterPeerClose
