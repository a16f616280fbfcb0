\* PACK_ROW 1 and 4 into float: the instantiations the AVX2 kernel handles.
CONSTANTS
  RowSet <- MCRowSet
  ColSet <- MCColSet
  KOffsetSet <- MCKOffsetSet
  KBlockSet <- MCKBlockSet
  PackRowSet = {1, 4}
  DstTypeSet = {"f32"}
  NULL = NULL
SPECIFICATION Spec
PROPERTY DequantTileRefinement
INVARIANT TypeOK
\* A kernel call returns after its last row: the final state has no successor.
CHECK_DEADLOCK FALSE
