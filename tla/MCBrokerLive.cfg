SPECIFICATION FairSpec
CONSTANTS
  c1 = c1
  c2 = c2
  c3 = c3
  Conn <- MCConnLive
  MaxNode = 2
  NoNode = NoNode
  Name = {"chatter"}
  AllName = "all"
  MaxData = 2
INVARIANT
  OvertakesOnlyInFlight
PROPERTY
  Forwarded
CHECK_DEADLOCK FALSE
