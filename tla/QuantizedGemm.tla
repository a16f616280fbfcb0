--------------------------- MODULE QuantizedGemm ---------------------------
(***************************************************************************)
(* The asymmetric 8-bit GEMM path of kernel_avx2.h end to end:            *)
(* quantize_fp_u8_colblock quantizes the activations block by block and   *)
(* stores each block's sum in blkreduce; the integer GEMM of one k-block  *)
(* multiplies the stored codes with the weight codes; dequant_s32_fp32    *)
(* and the zero-point removal then turn the int32 accumulator into the    *)
(* product of the dequantized operands, subtracting zpb * scaleb *        *)
(* reducea with reducea = blkreduce of the activation row and block.      *)
(*                                                                         *)
(* The quantizer is this module's own state (EXTENDS QuantizeColblock);   *)
(* the epilogue is an instance of ZeroPointBias with its counters renamed *)
(* and runs once the quantizer has returned.  Its data for row r and      *)
(* block b are the quantizer's codes, zero point, scale and blkreduce,    *)
(* and a weight column of one code value over the block's depth.  Scales *)
(* are kept as S = 255 * scale: every term of the result has exactly one *)
(* activation scale factor, so the comparison is exact in these units.    *)
(***************************************************************************)
EXTENDS QuantizeColblock, FiniteSets

CONSTANTS
  NSet,       \* candidate numbers of output columns of the epilogue
  KindSet,    \* corrections with activation zero points: "act", "both"
  BCodeSet,   \* weight code values
  ZpBSet,     \* weight zero points
  ScaleSet    \* weight scales

ASSUME KindSet \subseteq {"act", "both"}

VARIABLES zcall, stage, zi, zj, acc

zvars == <<zcall, stage, zi, zj, acc>>

Epilogue == INSTANCE ZeroPointBias
              WITH ColSet <- NSet, KSet <- {1}, ACodeSet <- {0}, ZpASet <- {0},
                   call <- zcall, i <- zi, j <- zj

(* The activations are quantized with blkreduce, and the epilogue's tile  *)
(* has as many rows as the activation matrix.                             *)
GemmInit ==
  /\ Init /\ call.reduce
  /\ Epilogue!Init /\ zcall.row = call.row

(* The quantizer runs to its return; then the epilogue kernels run.       *)
GemmNext ==
  \/ Next /\ UNCHANGED zvars
  \/ i = call.row /\ Epilogue!Next /\ UNCHANGED vars

GemmSpec == GemmInit /\ [][GemmNext]_<<vars, zvars>> /\ WF_<<vars, zvars>>(GemmNext)

-----------------------------------------------------------------------------
(* The operands of the k-block GEMM of activation row r and block b with  *)
(* a weight column of code wb, zero point zb and scale sb, and the two    *)
(* reductions the epilogue reads: reducea from blkreduce (sum * scale),   *)
(* reduceb the weight column's sb * sum (wb - zb).                         *)
GemmData(r, b, wb, zb, sb) ==
  LET n  == Cardinality(BlockCols(b))
      lo == b * call.blocksize
      zp == IF zcall.kind = "act" THEN 0 ELSE zb
  IN  [k |-> n, a |-> [x \in 1 .. n |-> codes[<<r, lo + x - 1>>]],
       b |-> [x \in 1 .. n |-> wb], zpa |-> zps[<<r, b>>], zpb |-> zp,
       sa |-> scales[<<r, b>>], sb |-> sb,
       ra |-> scales[<<r, b>>] * blkreduce[<<r, b>>], rb |-> sb * n * (wb - zp)]

(* Once quantization, dequantization and zero-point removal are done,     *)
(* every output element of every activation block equals the dot product  *)
(* of the dequantized activations (code - zp) * scale the GEMM multiplied *)
(* with the dequantized weights: blkreduce, stored by the quantizer and   *)
(* subtracted by remove_zeropoint_bias, must describe the stored codes.   *)
GemmMatchesDequantized ==
  stage = "done" =>
    \A r \in 0 .. call.row - 1, cl \in 0 .. zcall.col - 1, b \in 0 .. NBlk(call) - 1,
       wb \in BCodeSet, zb \in ZpBSet, sb \in ScaleSet :
      LET d == GemmData(r, b, wb, zb, sb)
      IN  Epilogue!Value(acc[<<r, cl>>], d) = Epilogue!RefValue(d)
=============================================================================
