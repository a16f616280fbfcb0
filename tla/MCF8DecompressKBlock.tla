---------------------- MODULE MCF8DecompressKBlock ----------------------
(* Tiles of one and two rows over k-blocks of one and two rows; columns   *)
(* with only the epilogue (8), only the SIMD body (16), and both (24).    *)
EXTENDS F8DecompressKBlock

MCRowSet    == 1 .. 2
MCColSet    == {8, 16, 24}
MCKBlockSet == {1, 2}
(* Codes with a nonzero exponent field in both formats, of both signs,    *)
(* with zero and nonzero mantissas, up to the largest finite E4M3 code.   *)
MCNormalCodes == {8, 9, 60, 77, 119, 126, 136, 200, 250}
(* The same plus the zero and smallest subnormal codes.                   *)
MCAllCodes == MCNormalCodes \cup {0, 1, 128}
(* Scale exponents a quantizer picks for weights of ordinary magnitude.   *)
MCScaleExpSet == {-9, 0, 4}
=============================================================================
