SPECIFICATION FairSpec
CONSTANTS
  FrameKinds <- AllFrames
  MaxFrames = 3
  Arguments <- ManyArguments
  InBufLen = 2
  HeaderMax = 3
  Unmask = TRUE
  StreamErrors = {"WouldBlock", "OtherIo"}
  RetriesTooLong = FALSE
INVARIANTS InputIntact WholeFrames RoomToRead
PROPERTIES ImplementsFrames EveryFrameTaken
