CONSTANTS
  t1 = t1
  t2 = t2
  t3 = t3
  Threads = {t1, t2, t3}
SPECIFICATION EventFairSpec
INVARIANTS SleeperIsKnown ReplyIsTrue
PROPERTIES WaitEnds
