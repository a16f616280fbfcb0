CONSTANTS
  RowSet <- MCRowSet
  ColSet <- MCColSet
  KindSet = {"act", "wei", "both"}
  KSet <- MCKSet
  ACodeSet <- MCACodeSet
  BCodeSet <- MCBCodeSet
  ZpASet <- MCZpASet
  ZpBSet <- MCZpBSet
  ScaleSet <- MCScaleSet
SPECIFICATION Spec
INVARIANT CorrectedMatchesReference
INVARIANT TypeOK
\* The caller's two kernel calls return: the final state has no successor.
CHECK_DEADLOCK FALSE
