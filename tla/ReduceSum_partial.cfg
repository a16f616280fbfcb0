CONSTANTS
  RowSet <- MCRowSet
  ColSet <- MCPartColSet
  BlockSet <- MCPartBlkSet
  NULL = NULL
SPECIFICATION Spec
INVARIANT BlockSumsMatchReference
\* A kernel call returns after its last row: the final state has no successor.
CHECK_DEADLOCK FALSE
