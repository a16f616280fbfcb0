-------------------------- MODULE MCZeroPointBias --------------------------
(* Tiles of one and two rows, with a scalar epilogue only (3 columns) and *)
(* with a vector body and an epilogue (9); codes, zero points and scales  *)
(* of both signs and of more than one magnitude, depth 1 and 2.           *)
EXTENDS ZeroPointBias

MCRowSet    == 1 .. 2
MCColSet    == {3, 9}
MCKSet      == {1, 2}
MCACodeSet  == {0, 3}
MCBCodeSet  == {-2, 1}
MCZpASet    == {0, 2}
MCZpBSet    == {-1, 1}
MCScaleSet  == {1, 2}
=============================================================================
