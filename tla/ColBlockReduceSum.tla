------------------------- MODULE ColBlockReduceSum -------------------------
(***************************************************************************)
(* bestla::kernel::avx2::col_block_reduce_sum (kernel_avx2.h): for every  *)
(* row of a row x col tile and every block of blocksize columns, store    *)
(* the sum of the block's elements in reduce[i * ldr + j / blocksize].   *)
(*                                                                         *)
(* A block is summed in three phases: pairs of 8-wide vectors over        *)
(* vblock2 columns, single vectors up to vblock, and a scalar loop up to  *)
(* blocksize; vblock2 and vblock drop to 0 when they would reach past     *)
(* col.  Data is abstracted to provenance: the running sum tmp is the bag *)
(* of source positions <<row, column>> added into it, so a position added *)
(* twice, skipped, or lying past the row is visible in the stored sum.    *)
(***************************************************************************)
EXTENDS Integers, Bags, Avx2Lanes

CONSTANTS
  RowSet,    \* candidate values of row
  ColSet,    \* candidate values of col
  BlockSet,  \* candidate values of blocksize
  NULL

ASSUME RowSet \subseteq Nat \ {0} /\ ColSet \subseteq Nat \ {0}
ASSUME BlockSet \subseteq Nat \ {0}

VLen == 8

(* utils::padto: the smallest multiple of a not below x. *)
padto(x, a) == ((x + a - 1) \div a) * a

(* utils::padto_le: the largest multiple of a not above x. *)
padto_le(x, a) == (x \div a) * a

Calls == [row: RowSet, col: ColSet, blocksize: BlockSet]

(* Number of reduce entries per row: one per block the column loop visits. *)
NBlk(c) == (c.col + c.blocksize - 1) \div c.blocksize

VARIABLES
  call,    \* the arguments
  pc,      \* "blk": at the top of the column loop; "pair", "single",
           \* "scalar": in one of the three phases of a block
  i,       \* row counter
  j,       \* first column of the current block
  jj,      \* column counter within the block
  vblock2, \* end of the pair phase of the current block
  vblock,  \* end of the single-vector phase of the current block
  tmp,     \* the running sum of the current block (a bag of positions)
  reduce   \* <<row, block>> -> stored sum, NULL until written

vars == <<call, pc, i, j, jj, vblock2, vblock, tmp, reduce>>

(* Positions read by loads of n columns from column j + jj of row i.     *)
Load(n) == SetToBag({<<i, j + jj + k>> : k \in 0 .. n - 1})

(* _mm256_loadu_ps from column j + jj + off of row i: lane k holds the     *)
(* element of column j + jj + off + k.                                     *)
VecLoad(off) == [k \in 0 .. VLen - 1 |-> SetToBag({<<i, j + jj + off + k>>})]

(* AVX2_REDUCE_OP for ADD on bags of positions: lane-wise x + y.        *)
ReduceAdd(x, y) == [k \in Lanes |-> x[k] (+) y[k]]

(* The second butterfly stage with the third stage's immediate.           *)
avx2_reduce_ps_imm177(x) ==
  LET x1 == ReduceAdd(x, permute2f128_swap(x))
      x2 == ReduceAdd(x1, permute_ps(x1, 177))
      x3 == ReduceAdd(x2, permute_ps(x2, 177))
  IN  x3[0]

(* avx2_reduce_ps<ADD>: three butterfly stages (halves swapped, then the  *)
(* immediates 0b01001110 and 0b10110001), then lane 0 (_mm256_cvtss_f32).  *)
avx2_reduce_ps(x) ==
  LET x1 == ReduceAdd(x, permute2f128_swap(x))
      x2 == ReduceAdd(x1, permute_ps(x1, 78))
      x3 == ReduceAdd(x2, permute_ps(x2, 177))
  IN  x3[0]

Init ==
  /\ call \in Calls
  /\ pc = "blk" /\ i = 0 /\ j = 0 /\ jj = 0 /\ vblock2 = 0 /\ vblock = 0
  /\ tmp = EmptyBag
  /\ reduce = [x \in (0 .. call.row - 1) \X (0 .. NBlk(call) - 1) |-> NULL]

(* BlockStart with the reset tmp = 0 left out.                            *)
BlockStartNoReset ==
  /\ pc = "blk" /\ i < call.row /\ j < call.col
  /\ LET v2 == padto_le(call.blocksize, VLen * 2)
         v1 == padto_le(call.blocksize, VLen)
     IN  /\ vblock2' = IF j + v2 <= call.col THEN v2 ELSE 0
         /\ vblock' = IF j + v1 <= call.col THEN v1 ELSE 0
  /\ jj' = 0 /\ pc' = "pair"
  /\ UNCHANGED <<call, i, j, tmp, reduce>>

(* for (int j = 0; j < col; j += blocksize) { tmp = 0; jj = 0;           *)
(*   vblock2 = j + vblock2_ <= col ? vblock2_ : 0; vblock likewise.      *)
BlockStart ==
  /\ pc = "blk" /\ i < call.row /\ j < call.col
  /\ LET v2 == padto_le(call.blocksize, VLen * 2)
         v1 == padto_le(call.blocksize, VLen)
     IN  /\ vblock2' = IF j + v2 <= call.col THEN v2 ELSE 0
         /\ vblock' = IF j + v1 <= call.col THEN v1 ELSE 0
  /\ tmp' = EmptyBag
  /\ jj' = 0 /\ pc' = "pair"
  /\ UNCHANGED <<call, i, j, reduce>>

(* for (; jj < vblock2; jj += VLen * 2): two loads, two reductions,       *)
(* tmp += s0; tmp += s1.                                                   *)
Pair ==
  /\ pc = "pair" /\ jj < vblock2
  /\ tmp' = (tmp (+) avx2_reduce_ps(VecLoad(0))) (+) avx2_reduce_ps(VecLoad(VLen))
  /\ jj' = jj + 2 * VLen
  /\ UNCHANGED <<call, pc, i, j, vblock2, vblock, reduce>>

(* if (jj + VLen <= vblock) enters the single-vector loop.               *)
PairsDone ==
  /\ pc = "pair" /\ jj >= vblock2
  /\ pc' = IF jj + VLen <= vblock THEN "single" ELSE "scalar"
  /\ UNCHANGED <<call, i, j, jj, vblock2, vblock, tmp, reduce>>

(* for (; jj < vblock; jj += VLen)                                        *)
Single ==
  /\ pc = "single" /\ jj < vblock
  /\ tmp' = tmp (+) avx2_reduce_ps(VecLoad(0))
  /\ jj' = jj + VLen
  /\ UNCHANGED <<call, pc, i, j, vblock2, vblock, reduce>>

SingleDone ==
  /\ pc = "single" /\ jj >= vblock
  /\ pc' = "scalar"
  /\ UNCHANGED <<call, i, j, jj, vblock2, vblock, tmp, reduce>>

(* for (; jj < blocksize; jj++) tmp += srcptr[i * ldsrc + j + jj];        *)
Scalar ==
  /\ pc = "scalar" /\ jj < call.blocksize
  /\ tmp' = tmp (+) Load(1)
  /\ jj' = jj + 1
  /\ UNCHANGED <<call, pc, i, j, vblock2, vblock, reduce>>

(* reduce[i * ldr + j / blocksize] = tmp; then j += blocksize.            *)
BlockEnd ==
  /\ pc = "scalar" /\ jj >= call.blocksize
  /\ reduce' = [reduce EXCEPT ![<<i, j \div call.blocksize>>] = tmp]
  /\ j' = j + call.blocksize /\ pc' = "blk"
  /\ UNCHANGED <<call, i, jj, vblock2, vblock, tmp>>

RowEnd ==
  /\ pc = "blk" /\ i < call.row /\ j >= call.col
  /\ i' = i + 1 /\ j' = 0
  /\ UNCHANGED <<call, pc, jj, vblock2, vblock, tmp, reduce>>

Next ==
  \/ BlockStart \/ Pair \/ PairsDone \/ Single \/ SingleDone \/ Scalar
  \/ BlockEnd \/ RowEnd

Spec == Init /\ [][Next]_vars /\ WF_vars(Next)

-----------------------------------------------------------------------------
TypeOK ==
  /\ call \in Calls
  /\ pc \in {"blk", "pair", "single", "scalar"}
  /\ i \in 0 .. call.row /\ jj \in 0 .. call.blocksize
  /\ j \in 0 .. padto(call.col, call.blocksize)
  /\ IsABag(tmp)

(* The columns of block b of a row: those of [b * blocksize, (b + 1) *   *)
(* blocksize) that lie inside the row.                                    *)
BlockCols(b) ==
  {cl \in b * call.blocksize .. (b + 1) * call.blocksize - 1 : cl < call.col}

(* Every stored block sum is the sum of exactly the elements of its own  *)
(* row and block, each counted once: the pair, single-vector and scalar   *)
(* phases, whose bounds are cut back near the end of the row, tile the    *)
(* block without overlap, without gaps and without reading past col.      *)
BlockSumsMatchReference ==
  \A x \in DOMAIN reduce :
    reduce[x] # NULL => reduce[x] = SetToBag({<<x[1], cl>> : cl \in BlockCols(x[2])})

(* col_block_reduce_sum implements BlockReduce with call and reduce       *)
(* mapped to themselves: every step that stores a block sum stores the    *)
(* next entry in row-major order with exactly its block's elements, the   *)
(* pair / single / scalar steps change no entry, and under the fairness   *)
(* of a running loop every entry of the tile is eventually written.       *)
Abstract == INSTANCE BlockReduce

BlockReduceRefinement == Abstract!Spec
=============================================================================
