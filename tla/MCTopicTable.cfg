SPECIFICATION Spec
CONSTANTS
  Index <- MCIndex
  Name <- MCName
  AllName <- MCAllName
INVARIANTS
  Consistent
  SinglePublisher
PROPERTIES
  NoTakeover
  OthersUntouched
