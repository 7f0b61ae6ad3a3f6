SPECIFICATION MCSpec
CONSTANTS
  NoFile = NoFile
  Widows <- MCWidows
  Spoused = {"w1", "w2", "w3"}
  Ranked <- MCRanked
  NoMemorial = "none"
  Names <- MCNames
  TopN = 2
  PassFailures = 3
  PassKills = 2
  MaxAges = 1
  Applicants = {"p1", "p2"}
  Veterans = {"p2"}
  WithCard = {"p1", "p2"}
  Confirmed = {"p1"}
  Indexes = {{}, {"p1"}, {"p1", "p2"}}
  CachesOf <- MCCachesOf
  PageSources <- MCPageSources
  MaxRuns = 3
  Length = 4
  Edits <- MCEdits
  Arguments <- MCArguments
  Preset <- MCPreset
  MaxStarts = 3
  MaxStops = 3
  Pensioners = {"p1", "p2", "p3"}
  HasLast = {"p1", "p2"}
  Ladder <- MCLadder
  Makes <- MCMakes
  Results <- MCResults
  MaxLinks = 3
  MaxCandidates = 1
  ScoreFor <- MCScoreFor
  ResetEvery = 2
  MaxErrors = 2
  MaxRequests = 3
  MaxKills = 1
  MaxDeaths = 1
  MaxFailures = 1
INVARIANTS
  RowTellsTheSearch
  MatchesReachEverything
  RunIsItsRecipe
PROPERTIES
  EveryPensionerGetsARow
  CachedMatchesStand
CHECK_DEADLOCK FALSE
