SPECIFICATION FairSpec
CONSTANTS
  Pages = 3
  PriceOf <- MCPriceOf
  Report <- MCReport
  ParsedBy <- MCParsedBy
  Versions = 2
  Faults = {"load", "parse", "row", "snaps", "snapshot", "change", "attempt", "missed", "crash"}
  MaxCalm = 6
  MaxRough = 3
  StaleDays = 1
  InactiveDays = 1
  MissThreshold = 1
INVARIANTS
  TypeOK
  ChangesAreReal
  SuccessHasSnapshot
  PriceMovesRecorded
  RowShowsNewestSnapshot
PROPERTIES
  BackfillSettles
  FollowsPriceHistory
  BackfillsEnd
CHECK_DEADLOCK FALSE
