SPECIFICATION FairSpec
CONSTANTS
  Images = {"c1", "c2"}
  TessDated <- MCTess
  EasyDated <- MCEasy
  Illegible <- MCIllegible
  Slices <- MCSlices
  SliceSize = 1
  FlushEvery = 2
  IdleCycles = 1
  MaxRestarts = 2
  Thresholds = {100}
  Target = 1
  MaxKills = 1
  MaxFaults = 1
INVARIANTS
  FiredIsCommitted
PROPERTIES
  WatchdogReturns
  WorkIsKept
  DatesAreReread
CHECK_DEADLOCK FALSE
