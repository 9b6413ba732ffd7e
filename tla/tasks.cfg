SPECIFICATION TasksSpec
CONSTANTS
  Threads = {t1, t2}
  Process = p
  Maskers = {t1}
  Sigs = {9, 10, 18}
  SIGKILL = 9
  SIGCONT = 18
  Masks = {{9, 10}}
  Sets <- MCSets
  Acts <- MCActs
  MaxSends = 2
  Members = {p1, p2, p3}
  Root = p1
  MaxGroups = 2
  Nobody = Nobody
  MaxTime = 8
INVARIANTS MaskRestored SleepsWithCause  SystemTimeExact
PROPERTIES WaitsAndKillsEnd
CHECK_DEADLOCK FALSE
