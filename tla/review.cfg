SPECIFICATION MCSpec
CONSTANTS
  Memorials = {m1, m2, m3}
  Profiles <- MCProfiles
  Records <- MCRecords
  Outages = {"B3-first-initial-fuzzy"}
  Log2 <- MCLog2
  MaxVerify = 2
  MaxCandidates = 3
  Folk <- MCFolk
  Own <- MCOwn
  Highest = 3
  Unit = 12
  Bins = 3
  Halvings = 4
  Target = 95
  PlanLists <- MCPlans
  Budgets = {0, 1, 2, 9}
  PickLists <- MCPicks
  Weight <- MCWeight
  Broken = Broken
  MaxSidecars = 2
  MaxPasses = 2
  MaxKills = 1
INVARIANTS
  ImpossibleIsNotAccepted
  RecordedManIsSeen
  ScoreKeepsTheOrder
  LabelsReachTheTrainer
  LearningFollowsTheLabels
SYMMETRY Symmetric
CHECK_DEADLOCK FALSE
