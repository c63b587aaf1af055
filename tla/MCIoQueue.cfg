CONSTANTS
  t1 = t1
  t2 = t2
  t3 = t3
  Threads = {t1, t2, t3}
  MayBeCanceled = {t1}
  Capacities = {0, 1, 2}
  MaxLen = 2
  MaxElems = 3
  MaxExcess = 2
SPECIFICATION QueueFairSpec
INVARIANTS NobodyWaitsInVain Fifo NothingLost
CHECK_DEADLOCK FALSE
PROPERTIES BlockedCallReturns
