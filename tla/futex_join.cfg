SPECIFICATION JoinSpec
CONSTANTS
  t1 = t1
  t2 = t2
  t3 = t3
  Threads = {t1, t3}
  Addrs = {16}
  Vals = {0, 1}
  TidAddr <- MCTwoTid
  MaxWake = 1
  MaxQueues = 1
PROPERTY JoinReturns
CHECK_DEADLOCK FALSE
