SPECIFICATION FairSpec
CONSTANTS
  a = a
  b = b
  c = c
  Nobody = Nobody
  Callers <- MCCallers
  Interval = 3
  MaxJitter = 2
INVARIANT
  TypeOK
PROPERTIES
  StaysPolite
  CallsReturn
