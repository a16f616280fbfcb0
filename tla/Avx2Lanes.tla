------------------------------ MODULE Avx2Lanes ------------------------------
(***************************************************************************)
(* The lane moves of the horizontal reductions of kernel_avx2.h           *)
(* (avx2_reduce_ps, avx2_reduce_epi32): a 256-bit vector of eight 32-bit  *)
(* lanes is a function 0 .. 7 -> lane, and each stage combines every lane *)
(* with the lane a permutation brings to it.                              *)
(***************************************************************************)
EXTENDS Integers

Lanes == 0 .. 7

(* _mm256_permute2f128_ps(x, x, 1): the two 128-bit halves swapped.        *)
permute2f128_swap(x) == [k \in Lanes |-> x[(k + 4) % 8]]

(* _mm256_permute_ps(x, imm): lane k of each half takes the lane of that  *)
(* half selected by bits 2k + 1 .. 2k of imm.                              *)
permute_ps(x, imm) == [k \in Lanes |-> x[(k \div 4) * 4 + ((imm \div (4 ^ (k % 4))) % 4)]]

(* AVX2_REDUCE_OP / AVX2_REDUCE_OP_EPI32 on one lane: _mm256_max_*,       *)
(* _mm256_min_* or _mm256_add_*.                                           *)
REDUCE_OP(a, b, type) ==
  CASE type = "MAX" -> IF a >= b THEN a ELSE b
    [] type = "MIN" -> IF a <= b THEN a ELSE b
    [] type = "ADD" -> a + b

Combine(x, y, type) == [k \in Lanes |-> REDUCE_OP(x[k], y[k], type)]

(* avx2_reduce_ps<TYPE> and avx2_reduce_epi32<TYPE>: halves swapped, then *)
(* the immediates 0b01001110 and 0b10110001; the result is lane 0.        *)
avx2_reduce(x, type) ==
  LET x1 == Combine(x, permute2f128_swap(x), type)
      x2 == Combine(x1, permute_ps(x1, 78), type)
      x3 == Combine(x2, permute_ps(x2, 177), type)
  IN  x3[0]
==============================================================================
