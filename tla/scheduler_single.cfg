SPECIFICATION RerunSpec
CONSTANTS
  Work <- MCWork
  NumSources = 2
  SourceOf <- MCSourceOf
  Rank <- MCRank
  Children <- MCChildren
  Ineligible <- MCIneligible
  Procs = {p1}
  NoProc = NoProc
  NoJob = NoJob
  MaxAttempts = 2
  AttemptCap = 9
  CrashAt <- MCEveryPlace
  MaxFaults = 2
INVARIANTS
  AttemptLedger
  RetryBudget
PROPERTIES
  ImplementsQueue
  RunReturns
  EveryItemEnds

