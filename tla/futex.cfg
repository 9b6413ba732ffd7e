SPECIFICATION Spec
CONSTANTS
  t1 = t1
  t2 = t2
  t3 = t3
  Threads = {t1, t2, t3}
  Addrs = {16, 24}
  Vals = {0}
  TidAddr <- MCTidAddr
  MaxWake = 1
  MaxQueues = 3
INVARIANTS Reachable  WakeMeetsWaiters
SYMMETRY Joiners
CHECK_DEADLOCK FALSE
