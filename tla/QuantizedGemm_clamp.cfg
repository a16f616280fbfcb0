\* One activation row of 12 values in blocks of 4 or 10; the weight column
\* has a nonzero zero point, so the correction reads blkreduce.
CONSTANTS
  RowSet = {1}
  ColSet = {12}
  BlockSet = {4, 10}
  SrcRowSet <- MCSrcRowSet
  NaNZpSet = {0, 255}
  NULL = NULL
  NSet = {1}
  KindSet = {"act", "both"}
  BCodeSet <- MCBCodeSet
  ZpBSet = {1}
  ScaleSet = {1}
SPECIFICATION GemmSpec
INVARIANT GemmMatchesDequantized
\* The epilogue returns after its last row: the final state has no successor.
CHECK_DEADLOCK FALSE
