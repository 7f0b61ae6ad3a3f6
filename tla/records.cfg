SPECIFICATION MCSpec
CONSTANTS
  Sides = {"front", "back"}
  Cards <- MCCards
  RedInk <- MCRed
  Widow = FALSE
  Ids <- MCIds
  Pensioners <- MCPensioners
  Files <- MCFiles
  Orders <- MCOrders
  Links <- MCLinks
  Rows <- MCRows
  Dixie <- MCDixie
  SoundAlike <- MCSoundAlike
  Limit = 2
  TopN = 2
  Strict = TRUE
INVARIANTS
  ToldIsTrusted
  PersonsAreClasses
  VerdictsAgree
PROPERTIES
  TesseractStands
CHECK_DEADLOCK FALSE
