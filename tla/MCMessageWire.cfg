\* One message: the machine may stop when it is read or refused.
SPECIFICATION Spec
CHECK_DEADLOCK FALSE
CONSTANTS
  MaxLength = 2147483647
  Xor <- XorByte
  Alphabets <- SomeAlphabets
  MaxText = 5
  Binaries <- SomeBinaries
  CloseCodes <- Codes
  Reasons <- SomeReasons
  SomeMasks <- TwoMasks
  BareLengths <- Edges
INVARIANTS FrameSurvives PayloadIntact
PROPERTIES JudgedAsAWhole
