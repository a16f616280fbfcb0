--------------------------- MODULE MCQuantizedGemm ---------------------------
(* The quantizer's source rows of MCQuantizeColblock feeding an epilogue   *)
(* of one output column.                                                   *)
EXTENDS QuantizedGemm, MCQuantizeColblock

(* Weight columns of a positive and of a negative code.                    *)
MCBCodeSet == {1, -2}
=============================================================================
