--------------------------- MODULE ZeroPointBias ---------------------------
(***************************************************************************)
(* The epilogue of an asymmetric 8-bit GEMM in kernel_avx2.h: the int32   *)
(* accumulator tile acc = sum_k a[i,k] * b[k,j] of the codes is turned    *)
(* into floats by dequant_s32_fp32 (times scaleA[i] * scaleB[j]) and then *)
(* corrected for the zero points by one of                                *)
(*   remove_act_zeropoint_bias  (activation zero points zpa only),        *)
(*   remove_wei_zeropoint_bias  (weight zero points zpb only),            *)
(*   remove_zeropoint_bias      (both),                                   *)
(* using the per-row activation reduction reducea = scalea * sum_k (a -   *)
(* zpa) that quantize_fp_u8_colblock stores in blkreduce, the per-column  *)
(* weight reduction reduceb = scaleb * sum_k (b - zpb), and the depth k.  *)
(*                                                                         *)
(* Both kernels run an 8-wide body over padto_le(col, 8) columns and a    *)
(* scalar epilogue.  An element of the tile is the sequence of the        *)
(* operations applied to it, each naming the row and column of the        *)
(* scales, zero points and reductions it read; its value for given codes  *)
(* and scales is computed exactly on integers (scales are small positive  *)
(* integers), so the algebra of the correction is checked, not assumed.   *)
(***************************************************************************)
EXTENDS Integers, Sequences, SequencesExt, Functions

CONSTANTS
  RowSet,     \* candidate values of row
  ColSet,     \* candidate values of col
  KindSet,    \* which correction runs: a subset of {"act", "wei", "both"}
  KSet,       \* depths k of the reduction
  ACodeSet,   \* uint8 activation codes
  BCodeSet,   \* int8 weight codes
  ZpASet,     \* activation zero points (uint8)
  ZpBSet,     \* weight zero points (int8)
  ScaleSet    \* scales

ASSUME KindSet \subseteq {"act", "wei", "both"} /\ KSet \subseteq Nat \ {0}

VLen == 8

padto(x, a) == ((x + a - 1) \div a) * a

padto_le(x, a) == (x \div a) * a

Calls == [row: RowSet, col: ColSet, kind: KindSet]

VARIABLES
  call,   \* the arguments of both kernels
  stage,  \* "dequant", "remove": which kernel runs; "done" after both
  i,      \* row counter of the running kernel
  j,      \* column counter of the running kernel
  acc     \* <<row, column>> -> sequence of operations applied so far

vars == <<call, stage, i, j, acc>>

Cells(c) == (0 .. c.row - 1) \X (0 .. c.col - 1)

(* The codes, zero points and scales one element depends on: the row of  *)
(* A and column of B it combines, over depth k.  A correction that has no *)
(* zero point on one side runs on data whose zero point there is 0.       *)
Operands(kind) ==
  UNION { [k: {n}, a: [1 .. n -> ACodeSet], b: [1 .. n -> BCodeSet],
           zpa: IF kind = "wei" THEN {0} ELSE ZpASet,
           zpb: IF kind = "act" THEN {0} ELSE ZpBSet,
           sa: ScaleSet, sb: ScaleSet] : n \in KSet }

(* The int32 accumulator the integer GEMM leaves: sum_k a[k] * b[k].      *)
AccS32(d) == SumFunction([x \in 1 .. d.k |-> d.a[x] * d.b[x]])

(* blkreduce[...] = sum * scale in quantize_fp_u8_colblock, sum being the *)
(* codes before zpa was added; the weight side likewise.                  *)
ReduceA(d) == d.sa * SumFunction([x \in 1 .. d.k |-> d.a[x] - d.zpa])
ReduceB(d) == d.sb * SumFunction([x \in 1 .. d.k |-> d.b[x] - d.zpb])

(* The kernels read reducea and reduceb from arrays they are given: the  *)
(* data of one element carries them (ra, rb) next to the operands, here  *)
(* as the quantizers' sums of the operands' codes.                       *)
Data(kind) == { d @@ [ra |-> ReduceA(d), rb |-> ReduceB(d)] : d \in Operands(kind) }

(* Apply with the last term of "both" added back, as if the reductions   *)
(* held the sums of the codes themselves.                                 *)
ApplyAddK(v, op, d) ==
  LET zpaf == d.zpa * d.sa
      zpbf == d.zpb * d.sb
  IN  CASE op.op = "dq"   -> v * d.sa * d.sb
        [] op.op = "act"  -> v - zpaf * d.rb
        [] op.op = "wei"  -> v - zpbf * d.ra
        [] op.op = "both" -> v - zpbf * d.ra - zpaf * d.rb + zpaf * zpbf * d.k

(* The value after one operation.  "dq": scale * scaleB[icol] * src.     *)
(* The corrections, as the scalar epilogues write them:                   *)
(*   act:  acc -= zpf * reduce[j], zpf = zps[i * lds] * scales[i * lds]   *)
(*   wei:  acc -= zps[j] * scales[j] * reduce[i * lds]                    *)
(*   both: acc -= zpb * scaleb * reducea; acc -= zpaf * reduceb;          *)
(*         acc -= zpaf * zpb * scaleb * k                                 *)
Apply(v, op, d) ==
  LET zpaf == d.zpa * d.sa
      zpbf == d.zpb * d.sb
  IN  CASE op.op = "dq"   -> v * d.sa * d.sb
        [] op.op = "act"  -> v - zpaf * d.rb
        [] op.op = "wei"  -> v - zpbf * d.ra
        [] op.op = "both" -> v - zpbf * d.ra - zpaf * d.rb - zpaf * zpbf * d.k

Value(ops, d) == FoldLeft(LAMBDA v, op : Apply(v, op, d), AccS32(d), ops)

Op(name, r, cl) == [op |-> name, r |-> r, c |-> cl]

(* Append operation name to elements cl of row i.                        *)
ApplyAt(name, cols) ==
  acc' = [x \in DOMAIN acc |->
            IF x[1] = i /\ x[2] \in cols THEN Append(acc[x], Op(name, i, x[2])) ELSE acc[x]]

Init ==
  /\ call \in Calls
  /\ stage = "dequant" /\ i = 0 /\ j = 0
  /\ acc = [x \in Cells(call) |-> <<>>]

OpOf(st) == IF st = "dequant" THEN "dq" ELSE call.kind

(* for (; icol < col8; icol += 8) in dequant_s32_fp32, and               *)
(* for (; j < col8; j += VLen) in the remove kernels.                      *)
SimdStep ==
  /\ stage \in {"dequant", "remove"} /\ i < call.row
  /\ j < padto_le(call.col, VLen)
  /\ ApplyAt(OpOf(stage), j .. j + VLen - 1)
  /\ j' = j + VLen
  /\ UNCHANGED <<call, stage, i>>

(* The scalar epilogue: for (; j < col; j++).                              *)
ScalarStep ==
  /\ stage \in {"dequant", "remove"} /\ i < call.row
  /\ padto_le(call.col, VLen) <= j /\ j < call.col
  /\ ApplyAt(OpOf(stage), {j})
  /\ j' = j + 1
  /\ UNCHANGED <<call, stage, i>>

NextRow ==
  /\ stage \in {"dequant", "remove"} /\ i < call.row /\ j = call.col
  /\ i' = i + 1 /\ j' = 0
  /\ UNCHANGED <<call, stage, acc>>

(* dequant_s32_fp32 returns and the caller runs the zero-point removal.  *)
NextKernel ==
  /\ stage = "dequant" /\ i = call.row
  /\ stage' = "remove" /\ i' = 0 /\ j' = 0
  /\ UNCHANGED <<call, acc>>

Finish ==
  /\ stage = "remove" /\ i = call.row
  /\ stage' = "done"
  /\ UNCHANGED <<call, i, j, acc>>

Next == SimdStep \/ ScalarStep \/ NextRow \/ NextKernel \/ Finish

Spec == Init /\ [][Next]_vars /\ WF_vars(Next)

-----------------------------------------------------------------------------
TypeOK ==
  /\ call \in Calls
  /\ stage \in {"dequant", "remove", "done"}
  /\ i \in 0 .. call.row /\ j \in 0 .. call.col
  /\ \A x \in Cells(call) : Len(acc[x]) <= 2

(* What the asymmetric GEMM must produce: the dot product of the          *)
(* dequantized rows, sum_k (sa * (a - zpa)) * (sb * (b - zpb)).           *)
RefValue(d) == SumFunction([x \in 1 .. d.k |-> d.sa * (d.a[x] - d.zpa) * d.sb * (d.b[x] - d.zpb)])

(* Rows the correction has finished: all rows once both kernels are done.*)
Corrected == IF stage = "done" THEN 0 .. call.row - 1
             ELSE IF stage = "remove" THEN 0 .. i - 1 ELSE {}

(* Every element of a finished row was dequantized and then corrected    *)
(* once each, with the scales, zero points and reductions of its own row  *)
(* and column, and for every small choice of codes, zero points, scales   *)
(* and depth its value is the exact dot product of the dequantized        *)
(* operands: the correction terms of the kernel, including the sign of    *)
(* the zpa * zpb * k term, undo the zero points.                          *)
CorrectedMatchesReference ==
  \A r \in Corrected, cl \in 0 .. call.col - 1 :
    /\ acc[<<r, cl>>] = << Op("dq", r, cl), Op(call.kind, r, cl) >>
    /\ \A d \in Data(call.kind) : Value(acc[<<r, cl>>], d) = RefValue(d)
=============================================================================
