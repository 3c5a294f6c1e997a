SPECIFICATION Spec
CONSTANTS
  HeaderLen = 1
  MaskLen = 1
  ControlMax = 2
  ProtocolReplyLen = 2
  Deflate = FALSE
  NoContextTakeover <- Takeover
  CompressedSizes = {1}
  StreamErrors = {"WouldBlock"}
  Roles = {"Server"}
  InitConfig <- CloseConfig
  Configs = {}
  Messages = {}
  CloseFrames = {}
  InFrames <- CloseInFrames
  MaxSent = 2
  MaxFrames = 2
PROPERTY ServerClosedMeansReplySent
