SPECIFICATION MCSpec
CONSTANTS
  People <- MCPeople
  Dated = {"c3"}
  CardOf <- MCCardOf
  Early = {"c1__1", "c2__3", "c4__4"}
  Letters = {"A", "B"}
  PartSize = 3
  PartNames <- MCPartNames
  MaxBuilds = 2
  MaxBuildKills = 1
  PageCount <- MCPageCount
  WithApp = {"r2"}
  MaxLoads = 3
  Tools = {"cemeteries", "veterans", "crossref", "items", "pages", "applications"}
  LastItem = 4
  MaxSize = 5
  PageSize = 2
  MaxPages = 3
  ProbeStep = 3
  ProbeSlack = 2
  SaveEvery = 2
  MaxKills = 2
  MaxFailures = 1
  Programs = {"harvest", "viewer", "lightbox"}
INVARIANTS
  LossesAreBounded
  PassIsComplete
  ArchivesAreWhole
  NothingOldIsShown
PROPERTIES
  EveryItemIsSettled
CHECK_DEADLOCK FALSE
