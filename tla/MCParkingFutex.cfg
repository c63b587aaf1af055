CONSTANTS
  Threads = {t1, t2, c1, c2}
  Waiters = {t1, t2}
  Addresses = {a1, a2}
  Nobody = nobody
  MaxCalls = 2
SPECIFICATION Spec
INVARIANTS WaitersLive OneUnparkPerPark NoLostWakeup
PROPERTIES ImplementsFifoLock
CHECK_DEADLOCK FALSE
SYMMETRY Symmetry
