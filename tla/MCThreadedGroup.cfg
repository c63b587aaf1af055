CONSTANTS
  fa = fa
  fb = fb
  fc = fc
  ga = ga
  gb = gb
  main = main
  Tasks = {fa, fb, fc}
  Groups = {ga, gb}
  Workers = 2
  Main = main
  GroupOf <- Groupings
  Owner <- Owners
  MaxOps = 1
  MaxRounds = 2
SPECIFICATION FairSpec
INVARIANTS RequestReachesMembers NobodyLeftBehind NotifiesLiveAwaiter
PROPERTIES CancelReturns
CHECK_DEADLOCK FALSE
