CONSTANTS
  RowSet <- MCRowSet
  ColSet <- MCEvenColSet
  LdPadSet = {0, 2}
  KernelSet = {"s4_s8", "s4_s8fp", "f4_noscale", "s8_s8fp"}
  S4TypeSet = {"S4_CLIP", "S4_FULLRANGE"}
  F4TypeSet = {"F4_NF4"}
  SrcByte <- MCSrcByte
  NULL = NULL
SPECIFICATION Spec
INVARIANT ElementsFromOwnSource
INVARIANT ElementValuesMatchCode
INVARIANT ReturnsWholeOrUntouchedTile
INVARIANT TypeOK
\* A kernel call returns: the final state has no successor.
CHECK_DEADLOCK FALSE
