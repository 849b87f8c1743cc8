SPECIFICATION PresenceSpec
CONSTANTS
  a = a
  b = b
  IDs <- MCIDs
  Bodies <- MCOffer
  Report <- MCReport
  Garbled <- MCGarbled
  StaleDays = 1
  InactiveDays = 1
  MissThreshold = 2
  FetchTTL = 1
  RatioNum = 1
  RatioDen = 2
  HasHandler = TRUE
  Faults = {"discover", "fetch", "database", "restart"}
  MaxDay = 1
  MaxRuns = 4
SYMMETRY Symmetry
INVARIANTS
  TypeOK
  ParsedStaysSeen
  RunRowAddsUp
PROPERTY
  FadingIsEarned
