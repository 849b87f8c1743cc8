SPECIFICATION FairSpec
CONSTANTS
  a = a
  b = b
  c = c
  IDs <- MCOne
  Bodies <- MCAnswers
  Report <- MCReport
  Garbled <- MCGarbled
  StaleDays = 1
  InactiveDays = 2
  MissThreshold = 2
  FetchTTL = 1
  RatioNum = 0
  RatioDen = 2
  HasHandler = TRUE
  Faults = {"discover", "fetch", "database", "restart"}
  MaxDay = 2
  MaxRuns = 4
INVARIANTS
  AttemptsMatchSnapshots
  RowsAreConsistent
PROPERTIES
  FollowsLifecycle
  RunsEnd
