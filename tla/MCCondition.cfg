CONSTANTS
  t1 = t1
  t2 = t2
  t3 = t3
  NoOwner = NoOwner
  Threads = {t1, t2, t3}
  Cancelable = {t1}
SPECIFICATION FairSpec
INVARIANTS StuckSignalsBounded NoLostSignal
PROPERTIES SignalIsConsumed
