SPECIFICATION FairSpec
CONSTANTS
  Name = {"hand"}
  Own = 1
  IndexInit = {0, 2}
  SemInit = {0, 1}
  MaxTries = 1
  MaxCalls = 3
  MaxData = 2
INVARIANTS
  OwnNumberUnlessGivenUp
  CrashExplained
  ReplyAccepted
  ListsAgree
  InOrder
PROPERTIES
  ThreadsStop
  EverythingWritten
CHECK_DEADLOCK FALSE
