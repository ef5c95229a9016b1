SPECIFICATION FairSpec
CONSTANTS
  Name = {"hand"}
  Own = 1
  IndexInit = {0}
  SemInit = {0}
  MaxTries = 1
  MaxCalls = 2
  MaxData = 1
PROPERTY WaitReturns
CHECK_DEADLOCK FALSE
