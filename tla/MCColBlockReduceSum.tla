------------------------ MODULE MCColBlockReduceSum ------------------------
(* Block sizes that use only the scalar phase (4), single vectors and the *)
(* scalar phase (12), pairs alone (16) and pairs and single vectors (24); *)
(* rows that are whole multiples of the block, and rows that end inside a *)
(* block.                                                                  *)
EXTENDS ColBlockReduceSum

MCRowSet       == 1 .. 2
MCWholeColSet  == {48, 96}
MCWholeBlkSet  == {4, 12, 16, 24}
MCPartColSet   == {20, 40}
MCPartBlkSet   == {12, 24}
=============================================================================
