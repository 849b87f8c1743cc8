SPECIFICATION AbsenceSpec
CONSTANTS
  a = a
  b = b
  IDs <- MCIDs
  Bodies <- MCOffer
  Report <- MCReport
  Garbled <- MCGarbled
  StaleDays = 1
  InactiveDays = 1
  MissThreshold = 2
  FetchTTL = 1
  RatioNum = 1
  RatioDen = 2
  HasHandler = TRUE
  Faults = {}
  MaxDay = 1
  MaxRuns = 3
INVARIANT
  AbsentListingsFade
