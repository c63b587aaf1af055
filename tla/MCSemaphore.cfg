CONSTANTS
  t1 = t1
  t2 = t2
  t3 = t3
  NoOwner = NoOwner
  Threads = {t1, t2, t3}
  Cancelable = {t1}
  Permits = {1, 2}
SPECIFICATION SemFairSpec
INVARIANTS MutexDiscipline
PROPERTIES PermitsCirculate ImplementsSemaphore
