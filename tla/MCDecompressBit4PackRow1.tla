-------------------- MODULE MCDecompressBit4PackRow1 --------------------
(* Rows up to 13 with blocks of 4 and 8 rows and offsets inside a block:  *)
(* tiles with and without a head, with zero, one and two whole blocks,    *)
(* and heads and tails both shorter and longer than UnrollRow.            *)
EXTENDS DecompressBit4PackRow1

MCRowSet     == 1 .. 13
MCKOffsetSet == 0 .. 9
MCKBlockSet  == {4, 8}
=============================================================================
