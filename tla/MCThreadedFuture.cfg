CONSTANTS
  fa = fa
  fb = fb
  fc = fc
  w1 = w1
  w2 = w2
  main = main
  Tasks = {fa, fb, fc}
  Workers = {w1, w2}
  Main = main
  Parent <- Tree
  MaxOps = 1
SPECIFICATION FairSpec
INVARIANTS RequestHasOnePlace AcknowledgedIsKnown NoUseAfterFree
PROPERTIES JoinReturns
CHECK_DEADLOCK FALSE
