-------------------------- MODULE MCDecompress4Bit --------------------------
(* Tiles of 8 to 120 elements: below one 16-element step, exact multiples *)
(* of 16 and of 64, and tails of 8 and 24; and a padded source           *)
(* (ld_src > col).                                                        *)
EXTENDS Decompress4Bit

MCRowSet     == 1 .. 3
MCEvenColSet == {8, 24, 40}

(* Source bytes 29 b + 7 (mod 256): over the first 16 bytes every value   *)
(* 0..15 occurs as a low nibble, and the high nibbles include 0, 8 (the  *)
(* S4_CLIP sign bit) and 15, next to low nibbles of every size.           *)
MCSrcByte(b) == (29 * b + 7) % 256
=============================================================================
