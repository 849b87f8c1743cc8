SPECIFICATION Spec
CONSTANTS
  a = a
  b = b
  u = u
  v = v
  IDs = {a, b}
  Users = {u, v}
  FirstRow <- MCRow
  Edits <- MCEdits
  HalfRange = 4
  Faults = {"discover", "fetch", "save", "crash"}
  MaxForms = 2
  MaxRuns = 2
  MaxDay = 2
SYMMETRY Symmetry
INVARIANTS
  TypeOK
  FormsWin
PROPERTIES
  FadingObeysForms
  FollowsLifecycle
CHECK_DEADLOCK FALSE
