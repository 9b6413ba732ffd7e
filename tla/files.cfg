SPECIFICATION FilesSpec
CONSTANTS
  a = a
  b = b
  mnt = mnt
  mnt2 = mnt2
  mntsub = mntsub
  Threads = {t1, t2}
  Nodes = {a, b}
  Named <- MCNamed
  Mounters = {t1, t2}
  NoPath = NoPath
  Points <- MCPoints
  StrPrefix <- MCStrPrefix
  None = None
  Readers = {t1, t2}
  Size <- MCSize
  MaxBuf = 3
  NoEntry = NoEntry
  p1 = p1
  p2 = p2
  d1 = d1
  d2 = d2
  d3 = d3
  Procs = {p1, p2}
  Root = p1
  Tasks = {d1, d2, d3}
  ProcOf <- MCProcOf
  NoProc = NoProc
  Limit = 2
  MaxNewFd = 2
  MaxFiles = 4
SYMMETRY MCSymmetry
INVARIANTS CountsLinks DirentsOnceAndAll  FailedPipeGone StackedOnlyByRace
CHECK_DEADLOCK FALSE
