------------------------- MODULE F8DecompressKBlock -------------------------
(***************************************************************************)
(* bestla::kernel::avx2::decompress_kblock_f8_fp (kernel_avx2.h): decode  *)
(* a row x col tile of 8-bit floats (E4M3 or E5M2) into float32, with no  *)
(* scale, a float scale, or an f8 scale (a power-of-two exponent that is  *)
(* added into the exponent field).                                         *)
(*                                                                         *)
(* The SIMD body builds the float32 bit pattern of 8 lanes at a time from *)
(* the code's sign, exponent and mantissa fields; the scalar epilogue     *)
(* calls ref::f8_to_fp32.  The model keeps the loop structure and, for    *)
(* each written element, which path produced it and which scale slot it   *)
(* used.  Values are exact: a float is (-1)^s * sig * 2^e, normalized, and *)
(* the SIMD bit assembly is computed field by field with integer          *)
(* arithmetic, so a property can compare the two paths for every code.    *)
(***************************************************************************)
EXTENDS Integers, Bitwise

CONSTANTS
  RowSet,        \* candidate values of row
  ColSet,        \* candidate values of col
  KBlockSet,     \* candidate kblock values (k_offset is 0 in every call)
  PackRowSet,    \* template argument _PACK_ROW
  ScaleTypeSet,  \* WITH_SCALE and _S_T: a subset of {"none", "f32", "f8"}
  F8TypeSet,     \* src_f8_type: a subset of {"E4M3", "E5M2"}
  CodeSet,       \* the f8 codes (bytes 0 .. 255) a tile may hold
  ScaleExpSet,   \* exponents of the scales: f8 scale x, or f32 scale 2^x
  NULL

ASSUME CodeSet \subseteq 0 .. 255 /\ ScaleExpSet \subseteq -128 .. 127
ASSUME PackRowSet \subseteq {1, 2, 4}

(* utils::bestla_dtype_get_f8_ebits and the mantissa width 7 - ebits.     *)
ebits(t) == IF t = "E4M3" THEN 4 ELSE 5
mbits(t) == 7 - ebits(t)
bias(t)  == 2^(ebits(t) - 1) - 1

(* Exact value (-1)^s * sig * 2^e with sig odd or zero, so that equal      *)
(* reals have equal representations.                                      *)
RECURSIVE Norm(_, _, _)
Norm(s, sig, e) ==
  IF sig = 0 THEN [s |-> 0, sig |-> 0, e |-> 0]
  ELSE IF sig % 2 = 0 THEN Norm(s, sig \div 2, e + 1)
  ELSE [s |-> s, sig |-> sig, e |-> e]

Scaled(v, x) == IF v.sig = 0 THEN v ELSE [v EXCEPT !.e = @ + x]

(* The value of a float32 bit pattern given as fields; Special for an     *)
(* all-ones exponent (inf or NaN).                                         *)
Special == [inf_or_nan |-> TRUE]

Float32Value(f) ==
  IF f.E = 255 THEN Special
  ELSE IF f.E = 0 THEN Norm(f.s, f.M, -149)
  ELSE Norm(f.s, 2^23 + f.M, f.E - 150)

(* One SIMD lane (the quant lambda): code byte b, sign-extended by        *)
(* _mm256_cvtepi8_epi32, scale exponent x.                                 *)
(*   sign_revert = (b << 24) & 0x80000000                                  *)
(*   e_revert    = ((b & 0x7f) >> mantissabit) [+ f8 scale]                *)
(*                 - ((1 << (ebits - 1)) - 128), then << 23                *)
(*   mantissa    = (b << (23 - mantissabit)) & 0x007fffff                  *)
(*   fp_v = sign | exponent | mantissa [* float scale]                     *)
(* Shifting e left by 23 keeps its low 9 bits: bit 8 lands on the sign.   *)
SimdLaneFieldsBias(b, x, t, st) ==
  LET e0 == shiftR(b & 127, mbits(t))
      e1 == IF st = "f8" THEN e0 + x ELSE e0
      e9 == (e1 - (2^(ebits(t) - 1) - 127)) % 512
  IN  [s |-> shiftR(b, 7) | shiftR(e9, 8),
       E |-> e9 % 256,
       M |-> (b % 2^mbits(t)) * 2^(23 - mbits(t))]

SimdLaneFields(b, x, t, st) ==
  LET e0 == shiftR(b & 127, mbits(t))
      e1 == IF st = "f8" THEN e0 + x ELSE e0
      e9 == (e1 - (2^(ebits(t) - 1) - 128)) % 512
  IN  [s |-> shiftR(b, 7) | shiftR(e9, 8),
       E |-> e9 % 256,
       M |-> (b % 2^mbits(t)) * 2^(23 - mbits(t))]

SimdLaneValue(b, x, t, st) ==
  LET v == Float32Value(SimdLaneFields(b, x, t, st))
  IN  IF v = Special \/ st # "f32" THEN v ELSE Scaled(v, x)

(* The scalar epilogue: ref::f8_to_fp32(code) times std::pow(2, scale.x)  *)
(* or times the float scale.  ref::f8_to_fp32 lies outside the sources;   *)
(* it decodes the (sign, exponent, mantissa) fields with the format's     *)
(* bias, a zero exponent field meaning zero or a subnormal.               *)
f8_to_fp32(b, t) ==
  LET E == shiftR(b & 127, mbits(t))
      M == b % 2^mbits(t)
  IN  IF E = 0 THEN Norm(shiftR(b, 7), M, 1 - bias(t) - mbits(t))
      ELSE Norm(shiftR(b, 7), 2^mbits(t) + M, E - bias(t) - mbits(t))

ScalarValue(b, x, t, st) ==
  IF st = "none" THEN f8_to_fp32(b, t) ELSE Scaled(f8_to_fp32(b, t), x)

(* Codes with a value: not the inf / NaN encodings of the format.         *)
Finite(b, t) ==
  LET E == shiftR(b & 127, mbits(t))
  IN  IF t = "E5M2" THEN E # 31 ELSE (b & 127) # 127

-----------------------------------------------------------------------------
Calls ==
  { c \in [row: RowSet, col: ColSet, kblock: KBlockSet, pack_row: PackRowSet,
           st: ScaleTypeSet, f8: F8TypeSet] : c.col % c.pack_row = 0 }

NPad(c) == c.col \div c.pack_row

VARIABLES call, i, j, dst

vars == <<call, i, j, dst>>

Cells(c) == (0 .. c.row - 1) \X (0 .. c.col - 1)

(* int align_col = col / 16 * 16;                                          *)
align_col_up(c) == ((c.col + 15) \div 16) * 16

align_col(c) == (c.col \div 16) * 16

(* int kpos = (k_offset + i) / kblock, with k_offset = 0.                  *)
kpos == i \div call.kblock

(* Scale slot of lane l: loaded from sptr + j / _PACK_ROW, permuted by    *)
(* packrow2_permute_idx = (0,0,1,1,2,2,3,3) when _PACK_ROW == 2.           *)
F8LaneSlot(pack_row, l) == IF pack_row = 2 THEN l \div 2 ELSE l

SlotOf(base) == IF call.st = "none" THEN NULL ELSE base

Init ==
  /\ call \in Calls
  /\ i = 0 /\ j = 0
  /\ dst = [x \in Cells(call) |-> NULL]

(* for (; j < align_col; j += 8) quant();                                  *)
SimdStep ==
  /\ i < call.row /\ j < align_col(call)
  /\ dst' = [x \in DOMAIN dst |->
               IF x[1] = i /\ j <= x[2] /\ x[2] < j + 8
                 THEN [path |-> "simd",
                       slot |-> SlotOf(kpos * NPad(call) + j \div call.pack_row
                                       + F8LaneSlot(call.pack_row, x[2] - j))]
                 ELSE dst[x]]
  /\ j' = j + 8
  /\ UNCHANGED <<call, i>>

(* for (; j < col; j++) dstptr[...] = f8_to_fp32(...) * scale            *)
ScalarStep ==
  /\ i < call.row /\ align_col(call) <= j /\ j < call.col
  /\ dst' = [dst EXCEPT ![<<i, j>>] =
               [path |-> "scalar", slot |-> SlotOf(kpos * NPad(call) + j \div call.pack_row)]]
  /\ j' = j + 1
  /\ UNCHANGED <<call, i>>

NextRow ==
  /\ i < call.row /\ j = call.col
  /\ i' = i + 1 /\ j' = 0
  /\ UNCHANGED <<call, dst>>

Next == SimdStep \/ ScalarStep \/ NextRow

Spec == Init /\ [][Next]_vars /\ WF_vars(Next)

-----------------------------------------------------------------------------
TypeOK ==
  /\ call \in Calls
  /\ i \in 0 .. call.row /\ j \in 0 .. call.col
  /\ \A x \in Cells(call) :
       dst[x] = NULL \/ dst[x] \in [path: {"simd", "scalar"}, slot: Nat \cup {NULL}]

(* Reference: element (r, c) is the format's value of its code times the  *)
(* scale of k-block r / kblock, column c / PACK_ROW (spec section 4.1).    *)
RefSlot(r, cl) ==
  IF call.st = "none" THEN NULL
  ELSE (r \div call.kblock) * NPad(call) + cl \div call.pack_row

ValueOf(path, b, x) ==
  IF path = "simd" THEN SimdLaneValue(b, x, call.f8, call.st)
  ELSE ScalarValue(b, x, call.f8, call.st)

(* Whatever finite code a finished row holds at a position, and whatever  *)
(* scale exponent its block has, the element equals the format's value    *)
(* of the code times that block's scale, whether it came from the SIMD    *)
(* bit assembly or the scalar epilogue, and it used its own scale slot.   *)
FinishedRowsDecodeLikeFormat ==
  \A r \in 0 .. i - 1, cl \in 0 .. call.col - 1 :
    /\ dst[<<r, cl>>] # NULL
    /\ dst[<<r, cl>>].slot = RefSlot(r, cl)
    /\ \A b \in {b \in CodeSet : Finite(b, call.f8)}, x \in ScaleExpSet :
         ValueOf(dst[<<r, cl>>].path, b, x) = ScalarValue(b, x, call.f8, call.st)

=============================================================================
