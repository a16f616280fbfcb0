--------------------------- MODULE DQ8GetFpScale ---------------------------
(***************************************************************************)
(* bestla::kernel::avx2::dq8_get_fp_scale (kernel_avx2.h): decode a       *)
(* row x col tile of double-quantized scales, dst[j] = dq8_bnb_LUT[src[j]] *)
(* * dq_scale[(scale_offset + j) / dq_blk] + dq_scale[dq_offset_idx].      *)
(*                                                                         *)
(* Each row runs a scalar head up to the next multiple of 8 of            *)
(* scale_offset (get_fp_scale_ref), an 8-wide body (get_fp_scale_avx2) and *)
(* a scalar tail (get_fp_scale_ref again).  The destination is modelled   *)
(* as a flat buffer of floats, row i starting at i * dst_stride, with      *)
(* dst_stride = col, so that writes outside the tile are visible; each     *)
(* written element records the flat source position it was decoded from  *)
(* and the dq_scale index it was multiplied by.                           *)
(***************************************************************************)
EXTENDS Integers

CONSTANTS
  RowSet,          \* candidate values of row
  ColSet,          \* candidate values of col
  ScaleOffsetSet,  \* candidate values of scale_offset
  DqBlkSet,        \* candidate values of dq_blk
  NULL

ASSUME RowSet \subseteq Nat \ {0} /\ ColSet \subseteq Nat \ {0}
ASSUME ScaleOffsetSet \subseteq Nat /\ DqBlkSet \subseteq Nat \ {0}

updiv(a, b) == (a + b - 1) \div b

Calls == [row: RowSet, col: ColSet, scale_offset: ScaleOffsetSet, dq_blk: DqBlkSet]

(* auto head_proc_num = utils::updiv(scale_offset, 8) * 8 - scale_offset;  *)
head_proc_num(c) == updiv(c.scale_offset, 8) * 8 - c.scale_offset
body_loop(c) == (c.col - head_proc_num(c)) \div 8
tail_proc_num(c) == (c.col - head_proc_num(c)) % 8

VARIABLES
  call,  \* the arguments
  pc,    \* "row": at the head of row i; "body": in the 8-wide loop
  i,     \* row counter
  ii,    \* body loop counter
  dst    \* flat destination buffer (with room past the tile) -> element

vars == <<call, pc, i, ii, dst>>

(* Room for one row of writes past the end of the tile.                    *)
BufSize(c) == (c.row + 1) * c.col

(* The lambda get_fp_scale_ref(proc_src_num, scale_offset, src, dst):     *)
(* for (int j = 0; j < col; j++) dst[j] = LUT[src[j]] * dq_scale[dq_s_idx] *)
(* + offset.  It writes col elements from its dst argument whatever       *)
(* proc_src_num says; base is the column its src and dst start at.        *)
get_fp_scale_ref(base, so) ==
  LET start == i * call.col + base
  IN  dst' = [p \in DOMAIN dst |->
                IF start <= p /\ p < start + call.col
                  THEN [src |-> p, s |-> so \div call.dq_blk]
                  ELSE dst[p]]

(* The lambda get_fp_scale_avx2: 8 elements with the scale of the block   *)
(* their first element falls in.                                           *)
get_fp_scale_avx2(base, so) ==
  LET start == i * call.col + base
  IN  dst' = [p \in DOMAIN dst |->
                IF start <= p /\ p < start + 8
                  THEN [src |-> p, s |-> so \div call.dq_blk]
                  ELSE dst[p]]

Init ==
  /\ call \in Calls
  /\ pc = "row" /\ i = 0 /\ ii = 0
  /\ dst = [p \in 0 .. BufSize(call) - 1 |-> NULL]

(* if (head_proc_num > col) get_fp_scale_ref(col, ...) and the row is done.*)
ShortRow ==
  /\ pc = "row" /\ i < call.row
  /\ head_proc_num(call) > call.col
  /\ get_fp_scale_ref(0, call.scale_offset)
  /\ i' = i + 1
  /\ UNCHANGED <<call, pc, ii>>

(* else get_fp_scale_ref(head_proc_num, ...) and the body starts.          *)
Head ==
  /\ pc = "row" /\ i < call.row
  /\ head_proc_num(call) <= call.col
  /\ get_fp_scale_ref(0, call.scale_offset)
  /\ pc' = "body" /\ ii' = 0
  /\ UNCHANGED <<call, i>>

BodyPastLoop ==
  /\ pc = "body" /\ ii <= body_loop(call)
  /\ LET base == head_proc_num(call) + ii * 8
     IN  get_fp_scale_avx2(base, call.scale_offset + base)
  /\ ii' = ii + 1
  /\ UNCHANGED <<call, pc, i>>

(* for (; ii < body_loop; ii++) get_fp_scale_avx2(scale_offset_iter + ii*8,*)
(* ...): scale_offset_iter = scale_offset + head_proc_num.                 *)
Body ==
  /\ pc = "body" /\ ii < body_loop(call)
  /\ LET base == head_proc_num(call) + ii * 8
     IN  get_fp_scale_avx2(base, call.scale_offset + base)
  /\ ii' = ii + 1
  /\ UNCHANGED <<call, pc, i>>

TailFromBodyStart ==
  /\ pc = "body" /\ ii = body_loop(call) /\ tail_proc_num(call) > 0
  /\ LET base == head_proc_num(call) + ii * 8
     IN  get_fp_scale_ref(base, call.scale_offset + head_proc_num(call))
  /\ pc' = "row" /\ i' = i + 1
  /\ UNCHANGED <<call, ii>>

(* if (tail_proc_num > 0) get_fp_scale_ref(tail_proc_num, ...) from the   *)
(* first column after the body.                                            *)
Tail ==
  /\ pc = "body" /\ ii = body_loop(call) /\ tail_proc_num(call) > 0
  /\ LET base == head_proc_num(call) + ii * 8
     IN  get_fp_scale_ref(base, call.scale_offset + base)
  /\ pc' = "row" /\ i' = i + 1
  /\ UNCHANGED <<call, ii>>

EndRow ==
  /\ pc = "body" /\ ii = body_loop(call) /\ tail_proc_num(call) = 0
  /\ pc' = "row" /\ i' = i + 1
  /\ UNCHANGED <<call, ii, dst>>

Next == ShortRow \/ Head \/ Body \/ Tail \/ EndRow

Spec == Init /\ [][Next]_vars /\ WF_vars(Next)

-----------------------------------------------------------------------------
TypeOK ==
  /\ call \in Calls
  /\ pc \in {"row", "body"}
  /\ i \in 0 .. call.row
  /\ ii \in 0 .. (IF body_loop(call) > 0 THEN body_loop(call) ELSE 0)
  /\ \A p \in DOMAIN dst : dst[p] = NULL \/ dst[p] \in [src: Nat, s: Nat]

(* Reference: element (r, c) is LUT[src(r, c)] * dq_scale[(scale_offset +  *)
(* c) / dq_blk] + offset.                                                  *)
RefAt(c, r, cl) == [src |-> r * c.col + cl, s |-> (c.scale_offset + cl) \div c.dq_blk]

(* The kernel writes nothing outside the row x col tile it was given.      *)
WritesWithinTile ==
  \A p \in DOMAIN dst : dst[p] # NULL => p < call.row * call.col

-----------------------------------------------------------------------------
(* Refinement mapping: row r is finished once the row loop has passed it, *)
(* and holds what the flat buffer holds from r * dst_stride on.           *)
FinishedRows ==
  [r \in 0 .. call.row - 1 |->
     IF r < i THEN [cl \in 0 .. call.col - 1 |-> dst[r * call.col + cl]] ELSE NULL]

Rows == INSTANCE TileByRows
          WITH CallSet <- Calls,
               RowsOf <- LAMBDA c : 0 .. c.row - 1,
               ColsOf <- LAMBDA c : 0 .. c.col - 1,
               Ref <- RefAt,
               out <- FinishedRows

(* dq8_get_fp_scale implements TileByRows: when a row ends, every column  *)
(* of it holds its own code decoded with the dq_scale of its own block,   *)
(* and no head, body or tail call of a later row writes back into a      *)
(* finished row, although get_fp_scale_ref writes col elements from      *)
(* wherever it starts; every row is eventually finished.                 *)
DQ8TileRefinement == Rows!Spec
=============================================================================
