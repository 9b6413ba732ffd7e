SPECIFICATION FairSpec
CONSTANTS
  MaxTasks = 4
  Codes = {0}
  KillCode = 137
INVARIANTS FamilyTree ZombieIsDone KillReaches
PROPERTIES ExitCodeFinal SleeperWoken
CHECK_DEADLOCK FALSE
