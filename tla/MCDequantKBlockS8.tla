------------------------ MODULE MCDequantKBlockS8 ------------------------
(* Model-checking instance of DequantKBlockS8: rows and k-blocks small    *)
(* enough that a tile starts inside a block and crosses block boundaries, *)
(* columns that exercise the SIMD body alone, the epilogue alone and both.*)
EXTENDS DequantKBlockS8

MCRowSet     == 1 .. 3
MCColSet     == {4, 8, 12, 16}
MCKOffsetSet == 0 .. 2
MCKBlockSet  == {1, 2, 3}

(* Two 8-column SIMD chunks and no epilogue: a finished row shows where   *)
(* each chunk was stored and which scale slots its lanes used.            *)
MCTwoChunkColSet == {16}
=============================================================================
