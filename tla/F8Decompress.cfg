\* Normal codes, PACK_ROW 1 and 2, every scale type, both formats.
CONSTANTS
  RowSet <- MCRowSet
  ColSet <- MCColSet
  KBlockSet <- MCKBlockSet
  PackRowSet = {1, 2}
  ScaleTypeSet = {"none", "f32", "f8"}
  F8TypeSet = {"E4M3", "E5M2"}
  CodeSet <- MCNormalCodes
  ScaleExpSet <- MCScaleExpSet
  NULL = NULL
SPECIFICATION Spec
INVARIANT FinishedRowsDecodeLikeFormat
INVARIANT TypeOK
\* A kernel call returns after its last row: the final state has no successor.
CHECK_DEADLOCK FALSE
