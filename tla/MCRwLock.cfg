CONSTANTS
  t1 = t1
  t2 = t2
  t3 = t3
  NoOwner = NoOwner
  Threads = {t1, t2, t3}
  Cancelable = {t1}
  TryWriters = {t1, t2}
  MaxPermits = 2
SPECIFICATION FairSpec
INVARIANTS UndisturbedExclusion WriterExcludesWriter WordIsExact
PROPERTIES WriterGetsIn
