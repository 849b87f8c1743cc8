SPECIFICATION FairSpec
CHECK_DEADLOCK FALSE
CONSTANTS
  cabin = cabin
  ranch = ranch
  s1 = s1
  acres = acres
  Listings <- MCTwo
  Searches <- MCSearch
  Filters <- MCFilter
  Day = 2
  PageSize = 1
  MaxRows = 2
  DigestLimit = 1
  Faults = {"database"}
  MaxTime = 2
  MaxEdits = 1
  MaxEvents = 2
  MaxSeen = 0
INVARIANTS
  TypeOK
  HitsAreEarned
PROPERTIES
  DueAreReported
  OnlyShownAreMarked
  EvaluationsEnd
