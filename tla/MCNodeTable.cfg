SPECIFICATION FairSpec
CONSTANTS
  c1 = c1
  c2 = c2
  c3 = c3
  c4 = c4
  Conn <- MCConn
  MaxNode = 2
  NoNode = NoNode
INVARIANTS
  IndexUnique
  MapAgrees
  TimedOutHasNoIndex
  NeverStuck
  Accounted
PROPERTIES
  Released
CHECK_DEADLOCK FALSE
