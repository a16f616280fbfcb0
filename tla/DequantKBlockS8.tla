-------------------------- MODULE DequantKBlockS8 --------------------------
(***************************************************************************)
(* bestla::kernel::avx2::dequant_kblock_s8_fp (kernel_avx2.h): dequantize *)
(* a row x col tile of signed 8-bit codes into a dense float (or bf16)     *)
(* tile, each code multiplied by the scale of its k-block (and, when       *)
(* zero_points is not null, reduced by its zero point first).             *)
(*                                                                         *)
(* One call of the kernel is one behaviour.  Its arguments are chosen in   *)
(* Init from small sets and never change; the state is the pair of loop   *)
(* counters (i, j) and the destination tile.  A row is processed by an    *)
(* 8-lane SIMD body over padto_le(col, 8) columns and a scalar epilogue   *)
(* over the rest.                                                          *)
(*                                                                         *)
(* Data is abstracted to provenance: a written element is the record of   *)
(* the code, scale slot and zero-point slot it was computed from, so two  *)
(* elements are equal exactly when the kernel combined the same inputs.   *)
(***************************************************************************)
EXTENDS Integers

CONSTANTS
  RowSet,      \* candidate values of the argument row
  ColSet,      \* candidate values of the argument col
  KOffsetSet,  \* candidate values of k_offset (first K row of the tile)
  KBlockSet,   \* candidate block sizes kblock
  PackRowSet,  \* template argument PACK_ROW
  DstTypeSet,  \* template argument _DST_T: a subset of {"f32", "bf16"}
  NULL         \* an element of the destination not written yet

ASSUME RowSet \subseteq Nat \ {0} /\ ColSet \subseteq Nat \ {0}
ASSUME KOffsetSet \subseteq Nat /\ KBlockSet \subseteq Nat \ {0}
ASSUME PackRowSet \subseteq {1, 2, 4}
ASSUME DstTypeSet \subseteq {"f32", "bf16"}

Vlen == 8

(* utils::padto: the smallest multiple of a not below x. *)
padto(x, a) == ((x + a - 1) \div a) * a

(* utils::padto_le: the largest multiple of a not above x. *)
padto_le(x, a) == (x \div a) * a

(* The argument tuple of one call.  NPad, the stride between the scale   *)
(* rows of two k-blocks, is the number of scale columns of the tile.      *)
Calls ==
  { c \in [row: RowSet, col: ColSet, k_offset: KOffsetSet, kblock: KBlockSet,
           pack_row: PackRowSet, with_zp: BOOLEAN, dst_t: DstTypeSet] :
      c.col % c.pack_row = 0 }

NPad(c) == c.col \div c.pack_row

VARIABLES
  call,   \* the arguments, fixed for the whole call
  i,      \* row loop counter
  j,      \* column loop counter within row i
  dst     \* the destination tile: (row, column) -> element or NULL

vars == <<call, i, j, dst>>

Cells(c) == (0 .. c.row - 1) \X (0 .. c.col - 1)

(* An element: the code at (r, col) times scale slot s, minus zero-point  *)
(* slot z (NULL when the kernel runs without zero points).               *)
Elem(r, cl, s, z) == [w |-> <<r, cl>>, s |-> s, z |-> z]

(* int kpos = (k_offset + i) / kblock; auto sptr = scales + kpos * NPad *)
kpos == (call.k_offset + i) \div call.kblock

(* Scale (and zero-point) slot of SIMD lane l: the vector is loaded from  *)
(* sptr + j / PACK_ROW and, only for PACK_ROW == 4, permuted by           *)
(* packrow4_permute_idx = (0,0,0,0,1,1,1,1).                              *)
LaneSlotNoPermute(pack_row, l) == l

LaneSlot(pack_row, l) == IF pack_row = 4 THEN l \div 4 ELSE l

SimdElem(l) ==
  LET slot == kpos * NPad(call) + j \div call.pack_row + LaneSlot(call.pack_row, l)
  IN  Elem(i, j + l, slot, IF call.with_zp THEN slot ELSE NULL)

(* Column that lane l is stored to: _mm256_storeu_ps(dstptr + i*ld_dst + j)*)
(* for float, _mm_storeu_si128(dstptr + i*ld_dst) for bf16.               *)
StoreCol(dst_t, l) == IF dst_t = "bf16" THEN l ELSE j + l

ScalarElem ==
  LET slot == kpos * NPad(call) + j \div call.pack_row
  IN  Elem(i, j, slot, IF call.with_zp THEN slot ELSE NULL)

(* dequant_kblock_s8_fp: the dispatcher picks WITH_ZP from zero_points.   *)
Init ==
  /\ call \in Calls
  /\ i = 0
  /\ j = 0
  /\ dst = [x \in Cells(call) |-> NULL]

(* One iteration of the 8-lane body: for (; j < simd_process_num; j += 8) *)
SimdStep ==
  /\ i < call.row
  /\ j < padto_le(call.col, Vlen)
  /\ LET cols == {StoreCol(call.dst_t, l) : l \in 0 .. Vlen - 1}
         laneOf(cl) == CHOOSE l \in 0 .. Vlen - 1 : StoreCol(call.dst_t, l) = cl
     IN  dst' = [x \in DOMAIN dst |->
                   IF x[1] = i /\ x[2] \in cols THEN SimdElem(laneOf(x[2])) ELSE dst[x]]
  /\ j' = j + Vlen
  /\ UNCHANGED <<call, i>>

(* One iteration of the scalar epilogue: for (; j < col; j++)             *)
ScalarStep ==
  /\ i < call.row
  /\ padto_le(call.col, Vlen) <= j /\ j < call.col
  /\ dst' = [dst EXCEPT ![<<i, j>>] = ScalarElem]
  /\ j' = j + 1
  /\ UNCHANGED <<call, i>>

(* End of row i: the outer loop moves to the next row.                     *)
NextRow ==
  /\ i < call.row
  /\ j = call.col
  /\ i' = i + 1
  /\ j' = 0
  /\ UNCHANGED <<call, dst>>

Next == SimdStep \/ ScalarStep \/ NextRow

Spec == Init /\ [][Next]_vars /\ WF_vars(Next)

-----------------------------------------------------------------------------
(* Reference semantics (spec section 3, the NoSIMD kernel the unit tests  *)
(* compare against): element (r, c) is code (r, c) with the scale and     *)
(* zero point of k-block (k_offset + r) / kblock, scale column            *)
(* c / PACK_ROW.                                                          *)
RefElem(c, r, cl) ==
  LET slot == ((c.k_offset + r) \div c.kblock) * NPad(c) + cl \div c.pack_row
  IN  Elem(r, cl, slot, IF c.with_zp THEN slot ELSE NULL)

TypeOK ==
  /\ call \in Calls
  /\ i \in 0 .. call.row
  /\ j \in 0 .. call.col
  /\ dst \in [Cells(call) -> [w: Cells(call), s: Nat, z: Nat \cup {NULL}] \cup {NULL}]

(* Every row the kernel has finished holds, in every column, the code of  *)
(* that position dequantized with the scale and zero point of its own     *)
(* k-block and column: SIMD lanes, the scalar epilogue and the store      *)
(* address agree with the reference.                                      *)
FinishedRowsMatchReference ==
  \A r \in 0 .. i - 1, cl \in 0 .. call.col - 1 :
    dst[<<r, cl>>] = RefElem(call, r, cl)

-----------------------------------------------------------------------------
(* Refinement mapping: a row counts as finished once the outer loop has   *)
(* passed it (i > r), and its content is then what dst holds there.       *)
FinishedRows ==
  [r \in 0 .. call.row - 1 |->
     IF r < i THEN [cl \in 0 .. call.col - 1 |-> dst[<<r, cl>>]] ELSE NULL]

Rows == INSTANCE TileByRows
          WITH CallSet <- Calls,
               RowsOf <- LAMBDA c : 0 .. c.row - 1,
               ColsOf <- LAMBDA c : 0 .. c.col - 1,
               Ref <- RefElem,
               out <- FinishedRows

(* dequant_kblock_s8_fp implements TileByRows: the step that leaves row i *)
(* (NextRow) finds every column of it dequantized with its own block's   *)
(* scale and zero point, the SIMD and scalar steps never write a row the  *)
(* loop has left, and under the fairness of a running loop every row is   *)
(* eventually finished.                                                   *)
DequantTileRefinement == Rows!Spec
=============================================================================
