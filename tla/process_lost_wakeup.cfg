SPECIFICATION FairSpec
CONSTANTS
  MaxTasks = 3
  Codes = {0}
  KillCode = 137
PROPERTY WaitpidReturns
CHECK_DEADLOCK FALSE
