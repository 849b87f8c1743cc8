SPECIFICATION Spec
CONSTANTS
  l1 = l1
  l2 = l2
  l3 = l3
  Backfills = {"backfill"}
  Listings = {l1, l2, l3}
  Pages <- MCPages
  Filters <- MCFilters
  Asked = {0, 3}
  DefaultLimit = 1
  MaxLimit = 2
  Faults = {"save"}
  MaxTime = 2
  MaxWrites = 3
SYMMETRY Symmetry
INVARIANTS
  TypeOK
  RowSaysLatest
  EvidenceIsCoherent
  BrowseShowsAll
CHECK_DEADLOCK FALSE
