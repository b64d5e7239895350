SPECIFICATION Spec
CONSTANTS
  big = big
  small = small
  tiny = tiny
  huge = huge
  Files = {big, small, tiny, huge}
  Chunks <- MCChunks
  Picks <- MCPicks
  MaxAttempts = 2
  MaxUpsets = 1
  Width = 2
  MaxSize = 2
  MaxTotal = 4
INVARIANTS TypeOK RowsMatchFiles EveryAttemptHasItsRow
PROPERTIES InterruptedUploadsResume PromiseKept EveryBatchSettles
CHECK_DEADLOCK FALSE
