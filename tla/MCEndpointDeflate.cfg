SPECIFICATION Spec
CONSTANTS
  HeaderLen = 1
  MaskLen = 1
  ControlMax = 2
  ProtocolReplyLen = 2
  Deflate = TRUE
  NoContextTakeover <- ServerResets
  CompressedSizes = {1, 3}
  StreamErrors = {"WouldBlock"}
  Roles = {"Server", "Client"}
  InitConfig <- DeflateConfig
  Configs = {}
  Messages <- DeflateMessages
  CloseFrames = {}
  InFrames <- DeflateInFrames
  MaxSent = 3
  MaxFrames = 1
INVARIANTS EncoderInStep
PROPERTIES FullIsRetryable UnusableIsSilent
