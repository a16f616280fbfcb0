------------------------- MODULE MCQuantizeColblock -------------------------
(* Rows of 12 values cut into blocks of 4 (scalar loops only) or 10 (an    *)
(* 8-wide body, a scalar tail of 2 and a partial block of 2).  Spans of    *)
(* 255 give integer steps; spans of 510 give half steps, where the        *)
(* rounding modes of the three loops differ: -1 and 509 put the zero      *)
(* point at 0.5 and 509 at 254.5.                                          *)
EXTENDS QuantizeColblock

MCSrcRowSet ==
  { <<-1, 509, 0, 0, 0, 0, 0, 0, 509, 3, -1, 509>>,
    <<-85, 170, 3, -7, 0, 0, 0, 0, 100, 1, 0, 255>> }
=============================================================================
