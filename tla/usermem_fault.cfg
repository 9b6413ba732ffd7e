SPECIFICATION AccessSpec
CONSTANTS
  Threads = {t1, t2}
  CPUs = {c1, c2}
  Nil = nil
  MemPages = 2
  PAGE_SIZE_4K = 1
INVARIANT ScopedFaultHandled
CHECK_DEADLOCK FALSE
