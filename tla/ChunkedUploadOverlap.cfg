SPECIFICATION Spec
CONSTANTS
  Sessions = {s1}
  Workers = {w1, w2}
  Total = 2
  MaxFiles = 2
  ForeignKeys = TRUE
  MaxCrashes = 0
  MaxFailures = 0
INVARIANT
  EveryFileIsExact
