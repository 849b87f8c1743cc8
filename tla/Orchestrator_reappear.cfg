SPECIFICATION Spec
CONSTANTS
  a = a
  b = b
  c = c
  IDs <- MCIDs
  Bodies <- MCSale
  Report <- MCReport
  Garbled <- MCGarbled
  StaleDays = 1
  InactiveDays = 1
  MissThreshold = 1
  FetchTTL = 1
  RatioNum = 1
  RatioDen = 2
  HasHandler = TRUE
  Faults = {}
  MaxDay = 1
  MaxRuns = 3
INVARIANT
  ReappearedIsActive
