SPECIFICATION FairSpec
CONSTANTS
  p1 = p1
  p2 = p2
  p3 = p3
  Input <- TwoPensioners
  Paged <- FirstPaged
  Corrupt = Corrupt
  Blank = Blank
  PowerCuts = TRUE
  MaxFaults = 2
  MaxSkips = 1
  MaxReprocess = 1
  MaxRollbacks = 1
INVARIANTS
  OneRowEach
  FaultsCostOneEach
PROPERTIES
  CompleteOrBeyondRepair
CHECK_DEADLOCK FALSE
