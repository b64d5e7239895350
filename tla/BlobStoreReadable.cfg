SPECIFICATION Spec
CONSTANTS
  MaxKey = 2
  p1 = p1
  p2 = p2
  Keys <- MCKeys
  Packages <- MCPackages
  PackageOf <- MCPackageOf
  Workers = {w1, w2}
  Retention = 1
  CommitWithin = 1
  ReadableNames = TRUE
  WholeObjects = FALSE
  MaxCrashes = 0
INVARIANT
  LiveRowHasBlob
