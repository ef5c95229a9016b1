SPECIFICATION Spec
CONSTANTS
  Byte = 4
  Bits = 2
  HeadLength = 3
  BufferSize = 6
  Inputs <- MCShortInputs
  MaxSent = 2
  StrayHeads <- MCAnyHead
  CutAt = {1, 2, 3}
INVARIANT
  CheckCodeMatches
CHECK_DEADLOCK FALSE
