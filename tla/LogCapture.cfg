SPECIFICATION Spec
CONSTANTS
  started = started
  failed = failed
  Blank = Blank
  Capacity = 4
  Texts <- MCTexts
  Queries <- MCQueries
  Limits = {1, 2, 5}
INVARIANT
  TypeOK
PROPERTY
  ShowsRecentLog
