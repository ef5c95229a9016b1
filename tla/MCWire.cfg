SPECIFICATION FairSpec
CONSTANTS
  Byte = 16
  Bits = 8
  HeadLength = 3
  BufferSize = 18
  Inputs <- MCInputs
  MaxSent = 2
  StrayHeads <- MCStrayHeads
  CutAt = {1}
INVARIANTS
  TypeOK
  RoundTrip
  CodeIsOnesModulo
  FailureExplained
PROPERTY
  EverythingHandled
CHECK_DEADLOCK FALSE
