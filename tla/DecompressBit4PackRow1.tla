----------------------- MODULE DecompressBit4PackRow1 -----------------------
(***************************************************************************)
(* bestla::kernel::avx2::decompress_kblock_f4_fp and the row scheduler it *)
(* calls, decompress_kblock_bit4_packrow1 (kernel_avx2.h).  A row x NCOL   *)
(* tile of 4-bit codes (NCOL = 24 or 48) starting at K row k_offset is    *)
(* split into                                                              *)
(*   - a head: the row0 rows left in the k-block k_offset falls in,       *)
(*   - whole k-blocks,                                                     *)
(*   - a tail shorter than a block,                                        *)
(* and each segment loads the scale registers vscales once, then          *)
(* dequantizes its rows four at a time (UnrollRow) and the rest one by    *)
(* one.  Every column of a row is treated alike, so the model works on    *)
(* rows: a written row is the record of the source row whose codes were   *)
(* unpacked into tmpbuf and the k-block whose scales were in vscales.     *)
(***************************************************************************)
EXTENDS Integers, Sequences

CONSTANTS
  RowSet,      \* candidate values of row
  KOffsetSet,  \* candidate values of k_offset
  KBlockSet,   \* candidate kblock values
  ColSet,      \* candidate col values (24 and 48 have a kernel)
  PackRowSet,  \* template argument _PACK_ROW
  NULL

ASSUME RowSet \subseteq Nat \ {0} /\ KOffsetSet \subseteq Nat
ASSUME KBlockSet \subseteq Nat \ {0} /\ ColSet \subseteq Nat \ {0}
ASSUME PackRowSet \subseteq {1, 2}

UnrollRow == 4

padto(x, a) == ((x + a - 1) \div a) * a

padto_le(x, a) == (x \div a) * a
Min2(a, b) == IF a < b THEN a ELSE b

(* The asserts of decompress_kblock_bit4_packrow1: col == ld_src ==       *)
(* ld_dst == _NCOL and kblock % UnrollRow == 0.                           *)
Calls ==
  { c \in [row: RowSet, k_offset: KOffsetSet, kblock: KBlockSet, col: ColSet,
           pack_row: PackRowSet] : c.kblock % UnrollRow = 0 }

VARIABLES
  call,     \* the arguments
  pc,       \* which loop of the kernel runs
  irow,     \* the row counter shared by all loops
  irr,      \* the row counter inside one whole k-block
  rowpad4,  \* end of the unrolled loop of the current segment
  vblk,     \* k-block whose scales are in vscales (NULL before a load)
  hi,       \* one past the highest source code read
  dst,      \* row -> sequence of the rows written there, in order
  ret       \* the returned BTLA_CODE, NULL while running

vars == <<call, pc, irow, irr, rowpad4, vblk, hi, dst, ret>>

(* int row0 = kblock - k_offset % kblock; row0 = row0 == kblock ? 0 : row0;*)
(* row0 = row0 > row ? row : row0;                                         *)
row0_noclamp(c) ==
  LET r0 == c.kblock - (c.k_offset % c.kblock)
  IN  IF r0 = c.kblock THEN 0 ELSE r0

row0(c) ==
  LET r0 == c.kblock - (c.k_offset % c.kblock)
      r1 == IF r0 = c.kblock THEN 0 ELSE r0
  IN  Min2(r1, c.row)

(* int row1_blk = utils::padto_le(row1, kblock) + row0;                    *)
row1_blk(c) == padto_le(c.row - row0(c), c.kblock) + row0(c)

(* for (int iv ...) vscales[iv] = loadu(scales + (k_offset + irow) /      *)
(* kblock * NPad + iv * 8): the block of the row the segment starts at.   *)
LoadedBlock(r) == (call.k_offset + r) \div call.kblock

(* Codes unpacked into tmpbuf for one row outside the unrolled loop: two  *)
(* pad_bit4_16 + one pad_bit4_8 for NCOL 24, three pad_bit4_16 otherwise. *)
SingleRowCodesWide(ncol) == 3 * 16

SingleRowCodes(ncol) == IF ncol = 24 THEN 16 + 8 ELSE 3 * 16

(* dequant_f4_N<N>(dst row, tmpbuf, vscales, vzps): the row's codes      *)
(* through the F4 LUT, times the scales of the block vscales was loaded   *)
(* from; a row is the pair (codes of row r, scales of block b).            *)
dequant_f4_N(r, b) == [w |-> r, blk |-> b]

Written(r) == dequant_f4_N(r, vblk)

(* Append one written row to each destination row of rows.                *)
WriteRows(rows) ==
  dst' = [r \in DOMAIN dst \cup rows |->
            IF r \in rows
              THEN (IF r \in DOMAIN dst THEN dst[r] ELSE <<>>) \o <<Written(r)>>
              ELSE dst[r]]

Max2(a, b) == IF a > b THEN a ELSE b

(* Four rows base .. base + 3: Loop16 pad_bit4_16 calls read 4 * NCOL     *)
(* consecutive codes into tmpbuf, then dequantize() writes each of the    *)
(* four rows with the scales in vscales.                                   *)
Unroll4(base) ==
  /\ WriteRows(base .. base + UnrollRow - 1)
  /\ hi' = Max2(hi, (base + UnrollRow) * call.col)

(* One row outside the unrolled loop.                                      *)
Single(r) ==
  /\ WriteRows({r})
  /\ hi' = Max2(hi, r * call.col + SingleRowCodes(call.col))

-----------------------------------------------------------------------------
(* decompress_kblock_f4_fp: _PACK_ROW 1 with col 24 or 48 runs the row    *)
(* scheduler; _PACK_ROW 2 goes to decompress_kblock_bit4_packrow2, which  *)
(* returns NotSupport, as does any other col.                              *)
Init ==
  /\ call \in Calls
  /\ irow = 0 /\ irr = 0 /\ rowpad4 = 0 /\ vblk = NULL /\ hi = 0
  /\ dst = [r \in {} |-> <<>>]
  /\ IF call.pack_row = 1 /\ call.col \in {24, 48}
       THEN pc = "start" /\ ret = NULL
       ELSE pc = "done" /\ ret = "NotSupport"

(* if (row0) { load vscales; ... }: the head segment.                      *)
HeadLoad ==
  /\ pc = "start" /\ row0(call) > 0
  /\ vblk' = LoadedBlock(irow)
  /\ rowpad4' = padto_le(row0(call), UnrollRow)
  /\ pc' = "head"
  /\ UNCHANGED <<call, irow, irr, hi, dst, ret>>

SkipHead ==
  /\ pc = "start" /\ row0(call) = 0
  /\ pc' = "blocks"
  /\ UNCHANGED <<call, irow, irr, rowpad4, vblk, hi, dst, ret>>

(* Unrolled loops of the head and the tail: for (; irow < rowpad4; ...).  *)
SegUnroll ==
  /\ pc \in {"head", "tail"} /\ irow < rowpad4
  /\ Unroll4(irow)
  /\ irow' = irow + UnrollRow
  /\ UNCHANGED <<call, pc, irr, rowpad4, vblk, ret>>

(* Row-by-row loops: for (; irow < row0; irow++) and (; irow < row; ...).  *)
SegEnd == IF pc = "head" THEN row0(call) ELSE call.row

SegSingle ==
  /\ pc \in {"head", "tail"} /\ rowpad4 <= irow /\ irow < SegEnd
  /\ Single(irow)
  /\ irow' = irow + 1
  /\ UNCHANGED <<call, pc, irr, rowpad4, vblk, ret>>

HeadEnd ==
  /\ pc = "head" /\ rowpad4 <= irow /\ irow = row0(call)
  /\ pc' = "blocks"
  /\ UNCHANGED <<call, irow, irr, rowpad4, vblk, hi, dst, ret>>

(* for (; irow < row1_blk; irow += kblock) { load vscales; ... }          *)
BlockLoad ==
  /\ pc = "blocks" /\ irow < row1_blk(call)
  /\ vblk' = LoadedBlock(irow)
  /\ irr' = 0
  /\ pc' = "block"
  /\ UNCHANGED <<call, irow, rowpad4, hi, dst, ret>>

(* for (int irr = 0; irr < kblock; irr += UnrollRow): rows irow + irr ..   *)
BlockUnroll ==
  /\ pc = "block" /\ irr < call.kblock
  /\ Unroll4(irow + irr)
  /\ irr' = irr + UnrollRow
  /\ UNCHANGED <<call, pc, irow, rowpad4, vblk, ret>>

BlockEnd ==
  /\ pc = "block" /\ irr >= call.kblock
  /\ irow' = irow + call.kblock
  /\ pc' = "blocks"
  /\ UNCHANGED <<call, irr, rowpad4, vblk, hi, dst, ret>>

(* if (irow < row) { load vscales; rowpad4 = padto_le(row - irow, 4) +    *)
(* irow; ... }: the tail segment.                                          *)
TailLoad ==
  /\ pc = "blocks" /\ row1_blk(call) <= irow /\ irow < call.row
  /\ vblk' = LoadedBlock(irow)
  /\ rowpad4' = padto_le(call.row - irow, UnrollRow) + irow
  /\ pc' = "tail"
  /\ UNCHANGED <<call, irow, irr, hi, dst, ret>>

(* return BTLA_CODE::Success, after the blocks or after the tail.          *)
Return ==
  /\ \/ pc = "blocks" /\ row1_blk(call) <= irow /\ irow >= call.row
     \/ pc = "tail" /\ rowpad4 <= irow /\ irow >= call.row
  /\ pc' = "done"
  /\ ret' = "Success"
  /\ UNCHANGED <<call, irow, irr, rowpad4, vblk, hi, dst>>

Next ==
  \/ HeadLoad \/ SkipHead \/ SegUnroll \/ SegSingle \/ HeadEnd
  \/ BlockLoad \/ BlockUnroll \/ BlockEnd \/ TailLoad \/ Return

Spec == Init /\ [][Next]_vars /\ WF_vars(Next)

-----------------------------------------------------------------------------
TypeOK ==
  /\ call \in Calls
  /\ pc \in {"start", "head", "blocks", "block", "tail", "done"}
  /\ irow \in 0 .. call.row /\ irr \in Nat /\ rowpad4 \in Nat /\ hi \in Nat
  /\ vblk \in Nat \cup {NULL}
  /\ ret \in {NULL, "Success", "NotSupport"}
  /\ \A r \in DOMAIN dst : dst[r] \in Seq([w: Nat, blk: Nat])

(* Each destination row written so far lies inside the tile, was written *)
(* once, from its own source row, with the scales of the k-block that K   *)
(* row k_offset + r belongs to, although vscales is loaded only once per  *)
(* segment and reused for every row of it.                                *)
RowsWrittenOnceWithOwnBlock ==
  \A r \in DOMAIN dst :
    /\ r < call.row
    /\ dst[r] = << [w |-> r, blk |-> (call.k_offset + r) \div call.kblock] >>

(* A Success return means the whole tile was produced; NotSupport leaves  *)
(* it untouched.  The kernel also never unpacks codes past the last row.  *)
SuccessCoversTileWithinSource ==
  /\ hi <= call.row * call.col
  /\ ret = "Success" => DOMAIN dst = 0 .. call.row - 1
  /\ ret = "NotSupport" => DOMAIN dst = {}

=============================================================================
