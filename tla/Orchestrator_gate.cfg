SPECIFICATION Spec
CONSTANTS
  a = a
  b = b
  c = c
  IDs <- MCThree
  Bodies <- MCOffer
  Report <- MCReport
  Garbled <- MCGarbled
  StaleDays = 1
  InactiveDays = 1
  MissThreshold = 1
  FetchTTL = 1
  RatioNum = 1
  RatioDen = 2
  HasHandler = TRUE
  Faults = {"discover"}
  MaxDay = 1
  MaxRuns = 3
PROPERTY
  GateUsesLastDiscovery
