SPECIFICATION CallsSpec
CONSTANTS
  BITS_PER_USIZE = 2
  FD_SETSIZE = 4
  Asked = {1, 3}
  States <- MCStates
  Polled = {0}
  MaxNfds = 2
  DEFAULT_BUFFER_SIZE = 2
  RING_BUFFER_SIZE = 2
  MaxBytes = 4
INVARIANTS PollersAnswer SpliceKeepsBytes
PROPERTY CallReturns
CHECK_DEADLOCK FALSE
