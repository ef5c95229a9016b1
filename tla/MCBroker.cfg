SPECIFICATION Spec
CONSTANTS
  c1 = c1
  c2 = c2
  c3 = c3
  Conn <- MCConn
  MaxNode = 2
  NoNode = NoNode
  Name = {"chatter"}
  AllName = "all"
  MaxData = 1
SYMMETRY Symmetry
INVARIANTS
  RowsHaveNodes
  AtMostOnce
CHECK_DEADLOCK FALSE
