SPECIFICATION Spec
CONSTANTS
  FrameKinds <- LongFrames
  MaxFrames = 3
  Arguments <- OneLimit
  InBufLen = 2
  HeaderMax = 3
  Unmask = TRUE
  StreamErrors = {"WouldBlock", "OtherIo"}
  RetriesTooLong = TRUE
INVARIANT WithinLimit
