\* PACK_ROW 2 into bf16, the instantiations the AVX2 kernel compiles but the
\* unit tests do not run. With col 16 a finished row holds both SIMD chunks.
CONSTANTS
  RowSet <- MCRowSet
  ColSet <- MCTwoChunkColSet
  KOffsetSet <- MCKOffsetSet
  KBlockSet <- MCKBlockSet
  PackRowSet = {2}
  DstTypeSet = {"bf16"}
  NULL = NULL
SPECIFICATION Spec
INVARIANT FinishedRowsMatchReference
\* A kernel call returns after its last row: the final state has no successor.
CHECK_DEADLOCK FALSE
