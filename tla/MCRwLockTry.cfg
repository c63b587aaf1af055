CONSTANTS
  t1 = t1
  t2 = t2
  t3 = t3
  NoOwner = NoOwner
  Threads = {t1, t2, t3}
  Cancelable = {}
  TryWriters = {t1}
  MaxPermits = 2
SPECIFICATION Spec
INVARIANTS WriterExcludesReaders
