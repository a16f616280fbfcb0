CONSTANTS
  RowSet <- MCRowSet
  ColSet <- MCColSet
  ScaleOffsetSet <- MCScaleOffsetSet
  DqBlkSet <- MCDqBlkSet
  NULL = NULL
SPECIFICATION Spec
INVARIANT WritesWithinTile
CHECK_DEADLOCK FALSE
