CONSTANTS
  RowSet <- MCRowSet
  KOffsetSet <- MCKOffsetSet
  KBlockSet <- MCKBlockSet
  ColSet = {24, 32, 48}
  PackRowSet = {1, 2}
  NULL = NULL
SPECIFICATION Spec
INVARIANT RowsWrittenOnceWithOwnBlock
INVARIANT SuccessCoversTileWithinSource
INVARIANT TypeOK
\* A kernel call returns: the final state has no successor.
CHECK_DEADLOCK FALSE
