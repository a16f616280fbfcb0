-------------------------- MODULE QuantizeColblock --------------------------
(***************************************************************************)
(* bestla::kernel::avx2::quantize_fp_u8_colblock (kernel_avx2.h) for a     *)
(* float source: every row is cut into blocks of blocksize columns, and    *)
(* each block gets a scale (max - min) / 255 and a zero point, its codes   *)
(* clamp(round(x / scale) + zp, 0, 255), and the block sum blkreduce =     *)
(* scale * sum round(x / scale) that the zero-point correction uses.       *)
(*                                                                         *)
(* A whole block finds its min and max with an 8-wide body and a scalar   *)
(* tail, then quantizes with an 8-wide body (_mm256_cvtps_epi32, round    *)
(* half to even) and a scalar tail (roundf, half away from zero); a last  *)
(* partial block does both with scalar loops (utils::cast).                *)
(*                                                                         *)
(* Values are exact: a scale is kept as S = max - min (scale = S / 255),  *)
(* and x / scale = 255 x / S is rounded as a rational.  The source rows   *)
(* are limited to those where S is 0 or 255 * 2^e in every block, for     *)
(* which scale, rscale = 1 / scale, x * rscale and the zero point are     *)
(* exact in float32, so the exact values are the ones the build computes. *)
(***************************************************************************)
EXTENDS Integers, Sequences, FiniteSetsExt, Avx2Lanes

CONSTANTS
  RowSet,       \* candidate values of row
  ColSet,       \* candidate values of col
  BlockSet,     \* candidate values of blocksize
  SrcRowSet,    \* candidate source rows: tuples of integers, as long as col
  NaNZpSet,     \* zero points utils::cast<float, uint8_t> may give for NaN
  NULL

ASSUME RowSet \subseteq Nat \ {0} /\ ColSet \subseteq Nat \ {0}
ASSUME BlockSet \subseteq Nat \ {0} /\ NaNZpSet \subseteq 0 .. 255

VLen == 8

padto_le(x, a) == (x \div a) * a

(* _mm256_cvtps_epi32 under the default MXCSR: n / d rounded half to even.*)
RoundHalfEven(n, d) ==
  LET q == n \div d
      r == n - q * d
  IN  IF 2 * r < d THEN q ELSE IF 2 * r > d THEN q + 1
      ELSE IF q % 2 = 0 THEN q ELSE q + 1

(* roundf, and utils::cast of a float to an integer: half away from zero.*)
RoundHalfAway(n, d) ==
  IF n >= 0 THEN (2 * n + d) \div (2 * d) ELSE -((2 * (-n) + d) \div (2 * d))

(* x * rscale for an all-zero block is 0 * inf = NaN, which the x86        *)
(* conversions turn into the integer indefinite 0x80000000.  It stands    *)
(* here as -256: like 0x80000000 it clamps to code 0 whatever zp is, and  *)
(* whatever it adds to sum (the int sum may overflow) is multiplied by a  *)
(* scale of 0.                                                             *)
Indefinite == -256

Clamp8(v) == IF v > 255 THEN 255 ELSE IF v < 0 THEN 0 ELSE v

(* Rows whose every block has S = 0 or 255 * 2^e for e in 0 .. 3.         *)
BlockSpan(s, lo, hi) ==
  LET xs == {s[k + 1] : k \in lo .. hi - 1} \cup {0}
  IN  Max(xs) - Min(xs)

FloatExact(c) ==
  \A r \in 0 .. c.row - 1, b \in 0 .. (c.col - 1) \div c.blocksize :
    BlockSpan(c.src[r], b * c.blocksize,
              IF (b + 1) * c.blocksize <= c.col THEN (b + 1) * c.blocksize ELSE c.col)
      \in {0, 255, 510, 1020, 2040}

Calls == {c \in [row: RowSet, col: ColSet, blocksize: BlockSet,
                 src: UNION {[0 .. r - 1 -> SrcRowSet] : r \in RowSet},
                 reduce: BOOLEAN] :
            DOMAIN c.src = 0 .. c.row - 1 /\ FloatExact(c)}

VARIABLES
  call,       \* the arguments; reduce: blkreduce is not nullptr
  pc,         \* "blk", "mm" / "mmt" (min/max body / tail), "q" (quantize), "pq" (partial block)
  i, j, ij,   \* row, block start and in-block counters
  vmaxval,    \* lane -> running max of the block's 8-wide body
  vminval,    \* lane -> running min of the block's 8-wide body
  mx, mn,     \* running max and min of the block after the reduction
  sum,        \* int sum of the rounded, unshifted values
  codes,      \* <<row, col>> -> stored u8 code, NULL until written
  scales,     \* <<row, block>> -> S (scale = S / 255), NULL until written
  zps,        \* <<row, block>> -> zero point
  blkreduce   \* <<row, block>> -> sum (blkreduce = sum * scale)

vars == <<call, pc, i, j, ij, vmaxval, vminval, mx, mn, sum, codes, scales, zps, blkreduce>>

vblocksize == padto_le(call.blocksize, VLen)
colblk     == padto_le(call.col, call.blocksize)
Src(k)     == call.src[i][k + 1]
Blk        == j \div call.blocksize

NBlk(c) == (c.col + c.blocksize - 1) \div c.blocksize
Slots(c) == (0 .. c.row - 1) \X (0 .. NBlk(c) - 1)

Init ==
  /\ call \in Calls
  /\ pc = "blk" /\ i = 0 /\ j = 0 /\ ij = 0 /\ mx = 0 /\ mn = 0 /\ sum = 0
  /\ vmaxval = [l \in Lanes |-> 0] /\ vminval = [l \in Lanes |-> 0]
  /\ codes = [x \in (0 .. call.row - 1) \X (0 .. call.col - 1) |-> NULL]
  /\ scales = [x \in Slots(call) |-> NULL]
  /\ zps = [x \in Slots(call) |-> NULL]
  /\ blkreduce = [x \in Slots(call) |-> NULL]
-----------------------------------------------------------------------------
(* The rounded, unshifted value of x for a block with span S: x * rscale  *)
(* rounded half to even by _mm256_cvtps_epi32 (QuantEven) or half away by *)
(* roundf / utils::cast (QuantAway); the integer indefinite when the      *)
(* block is all zero and rscale is infinite.                              *)
QuantEven(x, S) == IF S = 0 THEN Indefinite ELSE RoundHalfEven(255 * x, S)

QuantAway(x, S) == IF S = 0 THEN Indefinite ELSE RoundHalfAway(255 * x, S)

(* Store the code of column k: srcint += zp, clamp to 0 .. 255.            *)
StoreCode(k, q) ==
  codes' = [codes EXCEPT ![<<i, k>>] = Clamp8(q + zps[<<i, Blk>>])]

(* float scale = (maxval - minval) / 255; zp = utils::cast<float,         *)
(* uint8_t>((0 - minval) / scale); stored at [j / blocksize + i * ld_scale].*)
(* For an all-zero block (0 - minval) / scale is 0 / 0 = NaN.              *)
StoreParams(hi, lo) ==
  /\ scales' = [scales EXCEPT ![<<i, Blk>>] = hi - lo]
  /\ \E z \in IF hi = lo THEN NaNZpSet ELSE {RoundHalfAway(-255 * lo, hi - lo)} :
       zps' = [zps EXCEPT ![<<i, Blk>>] = z]

(* avx2_cvtepi32_epu8: _mm_packus_epi32 of the two 128-bit halves        *)
(* (each lane saturated to 0 .. 65535), then _mm_packus_epi16 of that     *)
(* with itself (each read as int16 and saturated to 0 .. 255); byte k of  *)
(* the low 8 bytes _mm_storel_epi64 stores is lane k.                      *)
avx2_cvtepi32_epu8(x) ==
  LET u16(v) == IF v < 0 THEN 0 ELSE IF v > 65535 THEN 65535 ELSE v
      s16(v) == IF v >= 32768 THEN v - 65536 ELSE v
      u8(v)  == IF v < 0 THEN 0 ELSE IF v > 255 THEN 255 ELSE v
  IN  [k \in 0 .. 15 |-> u8(s16(u16(x[k % 8])))]

(* for (; j < colblk; j += blocksize) { vmaxval = vminval = 0; ij = 0;    *)
BlockStart ==
  /\ pc = "blk" /\ i < call.row /\ j < colblk
  /\ vmaxval' = [l \in Lanes |-> 0] /\ vminval' = [l \in Lanes |-> 0]
  /\ ij' = 0 /\ pc' = "mm"
  /\ UNCHANGED <<call, i, j, mx, mn, sum, codes, scales, zps, blkreduce>>

(* for (; ij < vblocksize; ij += VLen): _mm256_max_ps / _mm256_min_ps.     *)
MinMaxSimd ==
  /\ pc = "mm" /\ ij < vblocksize
  /\ LET vsrc == [l \in Lanes |-> Src(j + ij + l)]
     IN  /\ vmaxval' = Combine(vmaxval, vsrc, "MAX")
         /\ vminval' = Combine(vminval, vsrc, "MIN")
  /\ ij' = ij + VLen
  /\ UNCHANGED <<call, pc, i, j, mx, mn, sum, codes, scales, zps, blkreduce>>

(* maxval = avx2_reduce_ps<MAX>(vmaxval); minval = avx2_reduce_ps<MIN>(...)*)
MinMaxReduce ==
  /\ pc = "mm" /\ ij >= vblocksize
  /\ mx' = avx2_reduce(vmaxval, "MAX") /\ mn' = avx2_reduce(vminval, "MIN")
  /\ pc' = "mmt"
  /\ UNCHANGED <<call, i, j, ij, sum, codes, scales, zps, blkreduce, vmaxval, vminval>>

(* if (ij < blocksize) for (; ij < blocksize; ij++) std::max / std::min.  *)
MinMaxTail ==
  /\ pc = "mmt" /\ vblocksize <= ij /\ ij < call.blocksize
  /\ mx' = Max({mx, Src(j + ij)}) /\ mn' = Min({mn, Src(j + ij)})
  /\ ij' = ij + 1
  /\ UNCHANGED <<call, pc, i, j, sum, codes, scales, zps, blkreduce, vmaxval, vminval>>

(* Scale and zero point stored; int sum = 0; ij = 0.                       *)
Params ==
  /\ pc = "mmt" /\ ij >= call.blocksize
  /\ StoreParams(mx, mn)
  /\ sum' = 0 /\ ij' = 0 /\ pc' = "q"
  /\ UNCHANGED <<call, i, j, mx, mn, codes, blkreduce, vmaxval, vminval>>

(* for (; ij < vblocksize; ij += VLen): _mm256_cvtps_epi32(vsrc * vrscale),*)
(* sum += avx2_reduce_epi32 (only if blkreduce), + vdzp, min 255, max 0,  *)
(* _mm_storel_epi64.                                                       *)
QuantSimd ==
  /\ pc = "q" /\ ij < vblocksize
  /\ LET S == scales[<<i, Blk>>]
         q == [l \in Lanes |-> QuantEven(Src(j + ij + l), S)]
         vbsrc == avx2_cvtepi32_epu8([l \in Lanes |-> Clamp8(q[l] + zps[<<i, Blk>>])])
     IN  /\ codes' = [x \in DOMAIN codes |->
                        IF x[1] = i /\ x[2] \in j + ij .. j + ij + VLen - 1
                          THEN vbsrc[x[2] - j - ij]
                          ELSE codes[x]]
         /\ sum' = IF call.reduce THEN sum + avx2_reduce(q, "ADD") ELSE sum
  /\ ij' = ij + VLen
  /\ UNCHANGED <<call, pc, i, j, mx, mn, scales, zps, blkreduce, vmaxval, vminval>>

(* for (; ij < blocksize; ij++) { srcint = int(roundf(srcval * rscale));  *)
(*   sum += srcint; srcint += zp; clamp; dstptr[...] = srcint; }          *)
QuantTail ==
  /\ pc = "q" /\ vblocksize <= ij /\ ij < call.blocksize
  /\ LET q == QuantAway(Src(j + ij), scales[<<i, Blk>>])
     IN  StoreCode(j + ij, q) /\ sum' = sum + q
  /\ ij' = ij + 1
  /\ UNCHANGED <<call, pc, i, j, mx, mn, scales, zps, blkreduce, vmaxval, vminval>>

(* if (blkreduce) blkreduce[j / blocksize + i * ld_scale] = sum * scale.  *)
BlockEnd ==
  /\ pc = "q" /\ ij >= call.blocksize
  /\ blkreduce' = IF call.reduce THEN [blkreduce EXCEPT ![<<i, Blk>>] = sum] ELSE blkreduce
  /\ j' = j + call.blocksize /\ pc' = "blk"
  /\ UNCHANGED <<call, i, ij, mx, mn, sum, codes, scales, zps, vmaxval, vminval>>

(* if (j < col): min and max over ij = j .. col - 1 starting from 0, then *)
(* scale and zero point stored and int sum = 0.                            *)
PartialParams ==
  /\ pc = "blk" /\ i < call.row /\ colblk <= j /\ j < call.col
  /\ LET xs == {Src(k) : k \in j .. call.col - 1} \cup {0}
     IN  /\ mx' = Max(xs) /\ mn' = Min(xs)
         /\ StoreParams(Max(xs), Min(xs))
  /\ sum' = 0 /\ ij' = j /\ pc' = "pq"
  /\ UNCHANGED <<call, i, j, codes, blkreduce, vmaxval, vminval>>

(* for (ij = j; ij < col; ij++) { srcint = utils::cast<float, int>(src *  *)
(*   rscale); sum += srcint; srcint += zp; clamp; store }                  *)
PartialQuant ==
  /\ pc = "pq" /\ ij < call.col
  /\ LET q == QuantAway(Src(ij), scales[<<i, Blk>>])
     IN  StoreCode(ij, q) /\ sum' = sum + q
  /\ ij' = ij + 1
  /\ UNCHANGED <<call, pc, i, j, mx, mn, scales, zps, blkreduce, vmaxval, vminval>>

(* if (blkreduce) blkreduce[...] = sum * scale; the row is done.           *)
PartialEnd ==
  /\ pc = "pq" /\ ij >= call.col
  /\ blkreduce' = IF call.reduce THEN [blkreduce EXCEPT ![<<i, Blk>>] = sum] ELSE blkreduce
  /\ i' = i + 1 /\ j' = 0 /\ pc' = "blk"
  /\ UNCHANGED <<call, ij, mx, mn, sum, codes, scales, zps, vmaxval, vminval>>

(* The whole-block loop ends at colblk = col: the row is done.             *)
RowEnd ==
  /\ pc = "blk" /\ i < call.row /\ colblk <= j /\ call.col <= j
  /\ i' = i + 1 /\ j' = 0
  /\ UNCHANGED <<call, pc, ij, mx, mn, sum, codes, scales, zps, blkreduce, vmaxval, vminval>>

Next ==
  \/ BlockStart \/ MinMaxSimd \/ MinMaxReduce \/ MinMaxTail \/ Params \/ QuantSimd \/ QuantTail
  \/ BlockEnd \/ PartialParams \/ PartialQuant \/ PartialEnd \/ RowEnd

Spec == Init /\ [][Next]_vars /\ WF_vars(Next)

-----------------------------------------------------------------------------
(* The columns of block b of a row that lie inside the row (the depth of *)
(* that block's GEMM in QuantizedGemm).                                    *)
BlockCols(b) == {cl \in b * call.blocksize .. (b + 1) * call.blocksize - 1 : cl < call.col}
=============================================================================
