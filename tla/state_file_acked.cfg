SPECIFICATION Spec
CONSTANTS
  p1 = p1
  p2 = p2
  p3 = p3
  Input <- ThreePensioners
  Paged <- FirstPaged
  Corrupt = Corrupt
  Blank = Blank
  PowerCuts = FALSE
  MaxFaults = 1
  MaxSkips = 0
  MaxReprocess = 0
  MaxRollbacks = 0
INVARIANT
  AckedSurvive
CHECK_DEADLOCK FALSE
