SPECIFICATION FairSpec
CONSTANTS
  Batch <- MCDanCal
  HasLast <- MCDan
  Widows <- MCCal
  Spoused <- MCDan
  TexasEvidence = {}
  Origin <- MCOrigin
  NoState = NoState
  Surrounding <- MCSurrounding
  Hits <- MCHitsOfOne
  MaxHits = 1
  LowLevel = 2
  StrongLevel = 3
  SkipLevel = 4
  MaxRefinements = 2
  MaxAttempts = 2
  MaxRaises = 2
  MaxCrashes = 1
INVARIANTS
  RowsAreFinal
  RowMeansSearched
PROPERTIES
  EveryPensionerGetsARow
