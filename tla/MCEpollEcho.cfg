SPECIFICATION FairSpec
CONSTANTS
  c1 = c1
  c2 = c2
  Conn = {c1, c2}
  MAXSIZE = 3
  Lines <- MCLines
  Garbage <- MCGarbage
  Behind <- MCBehind
INVARIANTS
  TypeOK
  EchoUnlessOverlap
  PrintsWhatWasTyped
  SentOnce
PROPERTIES
  EchoComes
CHECK_DEADLOCK FALSE
