SPECIFICATION FairSpec
CONSTANTS
  Msg <- MCMsg
  SemInit <- BrokerSemInit
  MaxPush = 4
PROPERTIES
  WriterStops
  ImplementsOutbox
CHECK_DEADLOCK FALSE
