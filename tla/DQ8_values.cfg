CONSTANTS
  RowSet <- MCRowSet
  ColSet <- MCColSet
  ScaleOffsetSet <- MCScaleOffsetSet
  DqBlkSet <- MCDqBlkSet
  NULL = NULL
SPECIFICATION Spec
PROPERTY DQ8TileRefinement
INVARIANT TypeOK
\* A kernel call returns after its last row: the final state has no successor.
CHECK_DEADLOCK FALSE
