SPECIFICATION FairSpec
CONSTANTS
  Sessions = {s1}
  Workers = {w1, w2}
  Total = 2
  MaxFiles = 2
  ForeignKeys = FALSE
  MaxCrashes = 1
  MaxFailures = 1
INVARIANTS TypeOK FilesAreExact OneFilePerSession ScratchFilesAreReachable
PROPERTIES AbandonedSessionsEnd ContractKept
