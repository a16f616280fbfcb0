\* Zero and subnormal codes (0x00, 0x01, 0x80) among the normal ones, no scale.
CONSTANTS
  RowSet <- MCRowSet
  ColSet <- MCColSet
  KBlockSet <- MCKBlockSet
  PackRowSet = {1}
  ScaleTypeSet = {"none"}
  F8TypeSet = {"E4M3", "E5M2"}
  CodeSet <- MCAllCodes
  ScaleExpSet <- MCScaleExpSet
  NULL = NULL
SPECIFICATION Spec
INVARIANT FinishedRowsDecodeLikeFormat
\* A kernel call returns after its last row: the final state has no successor.
CHECK_DEADLOCK FALSE
