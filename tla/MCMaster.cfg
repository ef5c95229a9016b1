SPECIFICATION FairSpec
CONSTANTS
  n1 = n1
  n2 = n2
  t1 = t1
  t2 = t2
  Node = {n1, n2}
  Topic = {t1, t2}
  Prog <- MCProg
  MAX_SIZE_NODE = 2
  MAX_SIZE_MQ = 2
  MaxThreads = 2
INVARIANTS
  TypeOK
  TablesAgree
  OneSender
  SentInOrder
  AudienceServed
PROPERTIES
  SavedWhereItBelongs
  NothingStranded
CHECK_DEADLOCK FALSE
