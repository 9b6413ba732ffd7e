SPECIFICATION FairSpec
CONSTANTS
  Threads = {t1, t2}
  Fds = {0, 1, 2}
  Plain = {f1}
  Epolls = {e1}
  Masks <- MCMasks
  MaxEvents = 1
  EpollFds = {0}
  WatchFds = {1, 2}
  None = none
INVARIANT ReportsRegistered
 
