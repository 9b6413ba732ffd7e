SPECIFICATION FairSpec
CONSTANTS
  Readers = {r1, r2}
  Writers = {w1, w2}
  NoThread = NoThread
  RING_BUFFER_SIZE = 2
  MaxLen = 3
  MaxBytes = 4
  MaxRefs = 2
INVARIANTS InOrder TransferFits EofIsFinal
PROPERTIES ImplementsFifo BlockedReturns
CHECK_DEADLOCK FALSE
