SPECIFICATION MCSpec
CONSTANTS
  t1 = t1
  t2 = t2
  t3 = t3
  p1 = p1
  p2 = p2
  Procs = {p1, p2}
  Threads = {t1, t2, t3}
  ProcOf <- MCProcOf
  Keys = {7}
  IPC_PRIVATE = 0
  Addrs = {4096}
  Modes <- MCModes
  MaxId = 4
  MAX_ATTEMPTS = 3
  MaxAttach = 1
  MaxSegs = 2
  Root = p1
  WrapSegs = 5
  WrapAttempts = 1
SYMMETRY MCSymmetry
INVARIANTS CountCoversUse UsedStaysRegistered KeyToId 
PROPERTY NoAttachAfterRmid
CHECK_DEADLOCK FALSE
