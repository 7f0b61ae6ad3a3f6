SPECIFICATION Spec
CONSTANTS
  Work <- MCTwoWork
  NumSources = 2
  SourceOf <- MCSourceOf
  Rank <- MCRank
  Children <- MCChildren
  Ineligible <- MCIneligible
  Procs = {p1, p2}
  NoProc = NoProc
  NoJob = NoJob
  MaxAttempts = 2
  AttemptCap = 2
  CrashAt <- MCEveryPlace
  MaxFaults = 1
SYMMETRY MCProcSymmetry
INVARIANTS
  NoRowOutOfReach
  EachDeathStrandsOne
  NoneGivenUpEarly
