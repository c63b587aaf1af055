CONSTANTS
  b1 = b1
  b2 = b2
  Builders = {b1, b2}
  OneShot = 4
  ZcuTasks = 3
  BufferSize = 3
  BatchSize = 2
  Unavailable = {{}, {"dispatcher"}, {"linker", "dispatcher"}}
  MayFail = TRUE
  MaxAirBytes = 2
  MaxFuncs = 2
  Analyses <- SomeAnalyses
SPECIFICATION FairSpec
INVARIANTS PrelinkFirst OneTaskAtATime NothingDropped AirIsBounded
PROPERTIES UpdateEnds
CHECK_DEADLOCK FALSE
