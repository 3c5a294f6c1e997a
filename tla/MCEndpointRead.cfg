SPECIFICATION Spec
CONSTANTS
  HeaderLen = 1
  MaskLen = 1
  ControlMax = 2
  ProtocolReplyLen = 2
  Deflate = TRUE
  NoContextTakeover <- ClientResets
  CompressedSizes = {1}
  StreamErrors = {"WouldBlock", "ConnectionReset", "OtherIo"}
  Roles = {"Server", "Client"}
  InitConfig <- ReadConfig
  Configs <- ReadConfigs
  Messages = {}
  CloseFrames = {}
  InFrames <- ReadInFrames
  MaxSent = 1
  MaxFrames = 4
INVARIANTS TypeOK DecoderInStep DeliveredWithinLimit WholeMessages
