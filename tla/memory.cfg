SPECIFICATION MemorySpec
CONSTANTS
  Procs = {p1, p2}
  First = p1
  Program = f
  Files = {f, g}
  None = none
  Contents = {"elf", "bad", "empty", f}
  NPages = 5
  ElfPages = {1}
  StackPages = {5}
  HeapBase = 3
  HeapSize = 1
  Trampoline = 4
  MaxLen = 2
  Bounds <- MCBounds
  Threads = {t1, t2}
  CPUs = {c1, c2}
  MemPages = 2
  Nil = nil
  PAGE_SIZE_4K = 2
  Caller = t1
  Cpu = c1
INVARIANTS LayoutIntact ProgramIsExe FlagFollows 
PROPERTIES   ScanAnswers
CHECK_DEADLOCK FALSE
