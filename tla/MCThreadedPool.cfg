CONSTANTS
  Tasks = {x1, x2, x3, x4}
  Workers = {w1, w2, w3}
  Main = main
  Limits <- AsyncLimits
  ConcurrentLimit = 3
SPECIFICATION FairSpec
INVARIANTS WorkerForEveryTask NoWorkerAfterDeinit
PROPERTIES PoolProgress
CHECK_DEADLOCK FALSE
