CONSTANTS
  RowSet <- MCRowSet
  ColSet <- MCWholeColSet
  BlockSet <- MCWholeBlkSet
  NULL = NULL
SPECIFICATION Spec
PROPERTY BlockReduceRefinement
INVARIANT TypeOK
\* A kernel call returns after its last row: the final state has no successor.
CHECK_DEADLOCK FALSE
