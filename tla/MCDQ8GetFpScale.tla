------------------------- MODULE MCDQ8GetFpScale -------------------------
(* Offsets at and off a multiple of 8, rows shorter than the head, rows   *)
(* with and without a tail, blocks of the double-quant scale of 8 and 16. *)
EXTENDS DQ8GetFpScale

MCRowSet         == 1 .. 2
MCColSet         == {3, 8, 13, 21}
MCScaleOffsetSet == {0, 1, 5, 8, 13}
MCDqBlkSet       == {8, 16}
=============================================================================
