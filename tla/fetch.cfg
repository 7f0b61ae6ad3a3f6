SPECIFICATION FairSpec
CONSTANTS
  p1 = p1
  p2 = p2
  m1 = m1
  m2 = m2
  m3 = m3
  Pensioners = {p1, p2}
  Candidates = {m1, m2, m3}
  Ladder <- TwoStrategies
  MaxPlans = 2
  Interval = 2
  MaxVerify = 1
  Cap = 2
PROPERTIES
  SearchesAreSpaced
  NothingFoundIsLost
  RunEnds
CHECK_DEADLOCK FALSE
