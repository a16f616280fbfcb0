# TLA+ models of the bestla AVX2 quantization kernels

This directory holds TLA+ specifications of the code in this repository snapshot, with the TLC configurations that check them. Almost all of that code is `src/bestla/bestla/kernel_avx2.h`. It is a header of sequential AVX2 kernels: they pack, unpack, dequantize and reduce the block-quantized matrices that the specification (`spec.md`, section 4.1) calls the numeric primitives.

`PROJECT.json` holds the machine-readable version of this document: components, runs, mutants, the definition-to-source map, findings and hazards.

## 1. The system and its parts

The specification describes a whole inference runtime: weight container, graph builder, KV cache, decode controller and sampler. Of these, the snapshot contains only the following.

| Part | Source | What it does |
|---|---|---|
| int8 k-block dequantization | `dequant_kblock_s8_fp_fwd`, `dequant_kblock_s8_fp` (197-246) | `dst[r,c] = (code - zp) * scale` of block `(k_offset + r) / kblock`, scale column `c / PACK_ROW` |
| 4-bit float decompression | `decompress_kblock_f4_fp`, `decompress_kblock_bit4_packrow1/2` (613-742) | splits a tile that starts inside a k-block into head, whole blocks and tail; unpacks four rows at a time |
| 8-bit float decompression | `decompress_kblock_f8_fp` (410-473) | builds float32 bit patterns from E4M3/E5M2 codes, with a float or an f8 (power-of-two) scale |
| double-quant scale decode | `dq8_get_fp_scale` (115-160) | decodes 8-bit scales through a LUT with a second-level scale |
| block reduction | `col_block_reduce_sum` (916-951) | sums every block of `blocksize` columns |
| GEMM epilogue | `dequant_s32_fp32` (248-276), `remove_*_zeropoint_bias` (278-361) | scales the int32 accumulator and removes the zero-point bias |
| activation quantization | `quantize_fp_u8_colblock` (793-914) | per-block u8 quantization with zero point and block sums |
| 4-bit integer unpacking | `unpack_4bits_sse` ... `decompress_kblock_s8_s8fp` (34-495), `dequant_f4_N`, `unpack_f4_N` (534-611) | unpack nibbles to s8 or floats |
| horizontal reductions and packs | `avx2_reduce_ps`, `avx2_reduce_epi32`, `avx2_cvtepi32_epu8` (744-791) | reduce the eight lanes of a vector to one value (max, min, sum) by three permute-and-combine stages; pack eight int32 lanes into bytes |
| element-wise float kernels | `alphabeta_f32_f32`, `accum_alphaN_f32_f32`, bf16 conversions, `layernorm` (162-195, 497-532, 953-1119) | |
| tests | `src/jblas/ut/kernel_wrapper.cpp` | compare AVX2 and AVX512F kernels with the NoSIMD reference on random data, k_offset 0 |
| other | `src/unnamed/part_000` (gptj.h), CMake, pre-commit, README | no runtime state |

### How the parts interact

The kernels do not call each other at run time. Higher layers chain them, and those layers are not in the snapshot.

- **Weight-only GEMM.** A weight tile is decompressed by one of the dequantize/decompress kernels into a float tile, which a float GEMM then consumes.
- **Asymmetric int8 GEMM.**
  1. `quantize_fp_u8_colblock` quantizes the activations. It produces codes, scales, zero points and the block sums `blkreduce`.
  2. An integer GEMM accumulates int32 products.
  3. `dequant_s32_fp32` scales the accumulator by `scaleA[i] * scaleB[j]`.
  4. One of the `remove_*_zeropoint_bias` kernels subtracts the zero-point terms. It uses `blkreduce` for the activations and a weight reduction such as `col_block_reduce_sum` gives.

  `ZeroPointBias` models this chain as one pipeline.

### What makes these kernels hard to test

Every kernel splits its work three ways:
- a SIMD body over a multiple of 8 (or 16) columns;
- a scalar epilogue over the rest;
- for the k-block kernels, a scale lookup per row that depends on `k_offset` and `kblock`.

The body and the epilogue compute the same thing by different code. A slip in one of them shows up only for particular `col`, `k_offset`, `kblock` and `PACK_ROW` values. The unit tests use `k_offset = 0`, float destinations and a few sizes. The models enumerate all small combinations instead.

Nothing in this code is concurrent, so the behaviours are loop interleavings, not thread interleavings.

## 2. How a kernel is modelled

**One kernel call is one behaviour.**
- `Init` chooses the arguments from small sets (the `call` record), and they never change.
- The loop counters are variables.
- Each loop body is one action: SIMD step, scalar step, row advance, segment load.
- Its guard is the loop condition, and its effect is the whole iteration.

**A kernel returns.** The final state has no successor. Each configuration therefore says `CHECK_DEADLOCK FALSE`, and a comment in the cfg gives the reason.

The only fairness is `WF_vars(Next)`. A called function is a sequential loop nest with no waits and no locks: while it has not returned, its next iteration is enabled and runs. Weak fairness on the whole next-state relation says exactly that, and nothing more. The liveness part of the `BlockReduce` refinement (every entry of `reduce` is eventually written) rests on it; removing it makes that run fail.

**Data is abstracted to provenance wherever values do not matter.** A written element is a record of what it was computed from. For example, `DequantKBlockS8` records the code position, the scale slot and the zero-point slot. Two elements are equal exactly when the kernel combined the same inputs. This makes the checks independent of concrete numbers, and an index error anywhere shows up as a wrong record.

**Values are exact where they do matter:**
- `F8DecompressKBlock` computes the float32 bit fields of the SIMD path with `Bitwise`, including the 9-bit exponent wrap into the sign bit. It compares them with the scalar decode as exact dyadic values `(-1)^s * sig * 2^e`.
- `ZeroPointBias` computes the correction on integers, with scales as small integers. This checks the algebra and the sign of every term. The reductions `reducea` and `reduceb` are inputs of the kernels, so the data of an element carries them (`ra`, `rb`) beside the operands. In the standalone run they are the sums of the operands' codes.

**Composition.** `QuantizedGemm` extends `QuantizeColblock` and instantiates `ZeroPointBias` (`Epilogue == INSTANCE ZeroPointBias WITH ...`, with its counters renamed). The epilogue runs once the quantizer has returned. For every activation row and block, it reads as operands the quantizer's stored codes, zero point and scale, with `reducea` taken from `blkreduce`. The weight operands come from small sets. Every term of the corrected result has exactly one activation-scale factor, so keeping scales as `S = 255 * scale` keeps the comparison exact.
- `QuantizeColblock` computes min, max, scale, zero point, codes and block sums as exact rationals (kept as integers scaled by the span `S = max - min`). The source rows are chosen so that every block's span is 0 or `255 * 2^e`. The float scale is then a power of two, and every float32 operation the kernel does on them is exact, so the exact values are the build's values, ties included. The SIMD body rounds half to even (`_mm256_cvtps_epi32` in the default rounding mode); the scalar tail rounds half away (`roundf`); the partial block and the zero point use `utils::cast`, which is not in `src/` and is modelled as the specification's "round to nearest, ties away from zero".

**Abstract specification and refinement.** `BlockReduce` states what `col_block_reduce_sum` promises, with no phases at all: it writes the entries of `reduce` one at a time, in row-major order, each with exactly the elements of its block, and eventually all of them. `ColBlockReduceSum` defines `Abstract == INSTANCE BlockReduce` (its `call` and `reduce` are mapped to the concrete ones of the same names) and the run `reduce_whole` checks `BlockReduceRefinement == Abstract!Spec` as a temporal property. Every concrete step must be a `WriteBlock` step or leave `reduce` unchanged, and the fairness of the abstract spec must follow from that of the code.

`TileByRows` states what a row-looping dequantize kernel promises. It finishes the rows of its tile one after the other. A finished row holds the reference element in every column and is never written again. While the kernel runs, every row is eventually finished. The module is parameterised by the argument set, the rows and columns of a call, and the reference element (`CONSTANTS CallSet, RowsOf(_), ColsOf(_), Ref(_, _, _)`). Two detailed modules instantiate it with `INSTANCE TileByRows WITH ...`, mapping `out` to `FinishedRows`: row `r` is finished once the row counter `i` has passed it, and its content is what the destination holds there.
- `DequantKBlockS8` maps `Ref` to `RefElem`. The run `s8_dequant` checks `DequantTileRefinement`.
- `DQ8GetFpScale` maps `Ref` to `RefAt` and reads rows out of its flat buffer. The run `dq8_values` checks `DQ8TileRefinement`. Here the refinement says more than a value check: `get_fp_scale_ref` writes `col` elements from wherever it starts, and the property also requires that no head, body or tail of a later row writes back into a finished row.
`F8DecompressKBlock` keeps its invariant: its elements are compared over every code and scale exponent, and mapping those value tables into `out` in every state makes the temporal check too slow for TLC.

## 3. Modules

| Module | Models | State | Actions |
|---|---|---|---|
| `DequantKBlockS8` | `dequant_kblock_s8_fp(_fwd)` | `call`, `i`, `j`, `dst` | `SimdStep` (lines 207-227), `ScalarStep` (228-232), `NextRow` |
| `DecompressBit4PackRow1` | `decompress_kblock_f4_fp` → `decompress_kblock_bit4_packrow1` / `_packrow2` | `call`, `pc`, `irow`, `irr`, `rowpad4`, `vblk` (block whose scales are in `vscales`), `hi` (codes read), `dst` (row → rows written there), `ret` | `HeadLoad`, `SkipHead`, `SegUnroll`, `SegSingle`, `HeadEnd`, `BlockLoad`, `BlockUnroll`, `BlockEnd`, `TailLoad`, `Return` |
| `F8DecompressKBlock` | `decompress_kblock_f8_fp` | `call`, `i`, `j`, `dst` (path and scale slot) | `SimdStep` (the `quant` lambda), `ScalarStep`, `NextRow` |
| `DQ8GetFpScale` | `dq8_get_fp_scale` | `call`, `pc`, `i`, `ii`, `dst` (a flat buffer one row longer than the tile) | `ShortRow`, `Head`, `Body`, `Tail`, `EndRow` |
| `Avx2Lanes` | the lane moves of `avx2_reduce_ps` / `avx2_reduce_epi32` | none (operators: `permute2f128_swap`, `permute_ps`, `avx2_reduce`) | |
| `ColBlockReduceSum` | `col_block_reduce_sum` | `call`, `pc`, `i`, `j`, `jj`, `vblock2`, `vblock`, `tmp` (bag of positions), `reduce` | `BlockStart`, `Pair` and `Single` (each vector summed by `avx2_reduce_ps` over its lanes), `PairsDone`, `SingleDone`, `Scalar`, `BlockEnd`, `RowEnd` |
| `Decompress4Bit` | `unpack_4bits_sse`, `decompress_s4_s8`, `decompress_kblock_s4_s8fp`, `decompress_kblock_f4_fp_noscale`, `decompress_kblock_s8_s8fp` | `call` (with the kernel and `ld_src - col`), `i`, `dst` (one slot past the tile; each element is the nibble or byte it came from and its value), `ret` | `NotLdSrc` (the `col != ld_src` return), `SimdStep` (lanes and their byte values computed from `shuffle_map`, the 32-bit lane shifts, the nibble masks, the unpacks, the S4_CLIP shift or S4_FULLRANGE subtraction, and the int8 sign or LUT index), `ScalarPair` (`get_s8` / `f4_unpack`), `ScalarOne`, `Return` |
| `QuantizeColblock` | `quantize_fp_u8_colblock` for a float source | `call` (with the source rows), `pc`, `i`, `j`, `ij`, `vmaxval`, `vminval` (lane vectors), `mx`, `mn`, `sum`, `codes`, `scales` (span `S`), `zps`, `blkreduce` | `BlockStart`, `MinMaxSimd`, `MinMaxReduce` (`avx2_reduce_ps` MAX/MIN, lines 819-820), `MinMaxTail`, `Params` (lines 819-836), `QuantSimd` (837-872; the sum by `avx2_reduce_epi32`, the codes by `avx2_cvtepi32_epu8`), `QuantTail` (873-882), `BlockEnd`, `PartialParams`, `PartialQuant`, `PartialEnd`, `RowEnd` |
| `QuantizedGemm` | `quantize_fp_u8_colblock` followed by the GEMM epilogue | the variables of `QuantizeColblock`, and those of `ZeroPointBias` renamed (`zcall`, `stage`, `zi`, `zj`, `acc`) | the quantizer's actions until it returns, then `Epilogue!Next` |
| `BlockReduce` | the promise of `col_block_reduce_sum` (abstract) | `call`, `reduce` | `WriteBlock` |
| `TileByRows` | the promise of `dequant_kblock_s8_fp` and `dq8_get_fp_scale` (abstract) | `call`, `out` (row → finished row or NULL) | `FinishRow` |
| `ZeroPointBias` | `dequant_s32_fp32` then `remove_act/wei/_zeropoint_bias` | `call`, `stage`, `i`, `j`, `acc` (operations applied to each element) | `SimdStep`, `ScalarStep`, `NextRow`, `NextKernel`, `Finish` |

Each `MC*.tla` module extends its specification and defines the bounds that the cfg files bind.

**Code outside `src/`, modelled from the specification:**
- `ref::f8_to_fp32` and its bias (`F8DecompressKBlock`);
- the integer GEMM accumulator and the weight reduction (`ZeroPointBias`);
- the rounding of `utils::cast<float, int>` (`QuantizeColblock`).

## 4. Runs

| Run | cfg | Expect | What it shows |
|---|---|---|---|
| `s8_dequant` | `DequantS8_f32.cfg` | pass | See below. |
| `s8_packrow2_bf16` | `DequantS8_packrow2.cfg` | violation | `PACK_ROW 2` into bf16 with 16 columns. The finished row shows both defects. SIMD lane `l` of chunk `j` uses scale slot `j/2 + l`, not `(j+l)/2`, and the zero points are wrong the same way. The bf16 store (line 223) lacks `+ j`, so the second chunk lands on columns 0-7. |
| `bit4_rows` | `Bit4PackRow1.cfg` | pass | See below. |
| `f8_decode` | `F8Decompress.cfg` | pass | See below. |
| `f8_zero_code` | `F8_zero_code.cfg` | violation | Codes with a zero exponent field (0x00, 0x80, subnormals) decode to `2^-bias * (1 + m)` in the SIMD body and to 0 or a subnormal in the epilogue. |
| `dq8_values` | `DQ8_values.cfg` | pass | See below. |
| `dq8_bounds` | `DQ8_bounds.cfg` | violation | `get_fp_scale_ref` ignores `proc_src_num` and writes `col` elements. The tail call of the last row writes past the tile. |
| `reduce_whole` | `ReduceSum_whole.cfg` | pass | See below. |
| `reduce_partial` | `ReduceSum_partial.cfg` | violation | For a partial last block, the scalar phase still runs to `blocksize` and sums elements past `col`. |
| `zero_point` | `ZeroPoint.cfg` | pass | See below. |
| `quantize_gemm` | `QuantizedGemm_clamp.cfg` | violation | The activations are quantized by `quantize_fp_u8_colblock`, then `remove_zeropoint_bias` corrects the GEMM result with `reducea = blkreduce`. `blkreduce` adds each rounded value before the zero point is added and the code clamped (lines 848, 877, 902). A value that rounds to 255 - zp + 1 is stored as 255 but counted one higher. TLC's trace: a 10-column block `-1, 509, 0 x 6, 509, 3`, scale 2, zero point 1. The tail's `roundf(254.5) + 1 = 256` is clamped, so `blkreduce / scale = 511` while `sum(code - zp) = 510`. The corrected element for a weight column with `zpb = 1`, `scaleb = 1` is one activation scale away from the dot product of the dequantized operands. |
| `flat4` | `Flat4Bit.cfg` | pass | See below. |

What each passing run shows:
- **`s8_dequant`**: for pack-row 1 and 4, with and without zero points and for any `k_offset`, the kernel implements `TileByRows`. Rows are finished in order, every finished row equals the reference and is never written again, and every row is eventually finished. The reference is the scale and zero point of block `(k_offset + r) / kblock`, slot `c / PACK_ROW`. SIMD lanes, the `PACK_ROW 4` permutation, the epilogue and the store address all agree with it.
- **`bit4_rows`**: the tile may start anywhere inside a k-block, for every row count. Every row is written exactly once, from its own codes, with the scales of its own k-block, although `vscales` is loaded once per segment. No code past the tile is unpacked. `Success` means the whole tile was written; `NotSupport` (pack-row 2, col 32) means nothing was.
- **`f8_decode`**: for every normal code, every scale exponent, both formats, three scale kinds and pack-row 1 or 2, the SIMD bit assembly yields the same exact value and the same scale slot as the scalar epilogue.
- **`dq8_values`**: the kernel implements `TileByRows`. When the row loop leaves a row, every column holds its code scaled by its own block's `dq_scale`, and no later call writes into that row. This holds even though the head and the tail write far past their part of the row: what they write past it lies in rows not yet finished, and the later calls overwrite it.
- **`reduce_whole`**: when `blocksize` divides `col`, `col_block_reduce_sum` implements `BlockReduce`. The pair, single-vector and scalar phases together sum every element of every block exactly once, the entries are stored in row-major order, and every entry is eventually stored. Each vector is summed by `avx2_reduce_ps`: the halves swapped, then `_mm256_permute_ps` with `0b01001110` and `0b10110001`. The refinement therefore also checks that the three stages leave every lane in lane 0 exactly once; with the second immediate repeated, lane 0 counts four lanes twice and four not at all.
- **`flat4`**: for the four flat kernels and an even element count, every element written comes from its own nibble (low nibble for even positions) or byte, in the SIMD part as in the tail. The lane order is computed from `shuffle_map`, the nibble masks and the byte and 64-bit unpacks. `ElementValuesMatchCode` adds that each element holds the value of its code: the byte arithmetic of the SIMD body (`_mm_srli_epi32` pulls the next byte's low nibble into each byte, and only the `& 0x0f` removes it; `_mm_slli_epi32` for S4_CLIP; `_mm_sub_epi8` modulo 256 for S4_FULLRANGE; the int8 sign extension; the zero-extended LUT index of `unpack_f4_N`) gives what `get_s8` and `f4_unpack` give the scalar tail. `get_s8`, `f4_unpack` and the `int4x2` bit-fields are outside `src/` and are defined from their meaning (S4_CLIP: the nibble as a signed 4-bit value times 16; S4_FULLRANGE: the nibble minus 8; F4: the LUT entry of the nibble, kept abstract as the pair (type, index)). `ReturnsWholeOrUntouchedTile` says a call returns either with every element of the tile written and nothing past it, or with nothing written, and that NotSupport writes nothing; returning after the SIMD body without the tail breaks it. Every kernel gets a padded source (`ld_src > col`) in this run. `decompress_s4_s8` and `decompress_kblock_s8_s8fp` answer it with NotSupport; `decompress_kblock_s4_s8fp` and `decompress_kblock_f4_fp_noscale` answer it with Success and write nothing (lines 407, 610). That leaves the tile untouched, so the property holds, but a caller that trusts Success reads an unwritten tile. No comment, assertion or test in the repository says which answer is intended, so this is recorded as a hazard rather than as a violation of a stated promise.
- **`zero_point`**: after both kernels, every element is the exact dot product `sum_k sa(a - zpa) * sb(b - zpb)`. This holds for all three corrections, including the sign of the `zpa*zpb*k` term.

Each passing run is paired with mutants in `PROJECT.json`. A mutant is a plausible slip in a mapped definition, and TLC finds it violating the run's property:
- a dropped lane permutation;
- `padto` for `padto_le`;
- a missing `row0` clamp;
- an off-by-one exponent bias;
- a tail that uses the body's first scale;
- a missing `tmp = 0` (caught by the refinement);
- the specification's `+zpa*zpb*K` with zero-point-free sums;
- `_mm_unpackhi_epi64` for `_mm_unpacklo_epi64`, a return right after the SIMD loop, and Success for every padded source.

## 5. Bounds and why they are enough

- **`DequantKBlockS8`:**
  - 1-3 rows; `col ∈ {4, 8, 12, 16}` gives an epilogue only, a body only, and both.
  - `k_offset ∈ 0..2` and `kblock ∈ 1..3` make rows cross block boundaries at every phase.
  - `col` must be divisible by `PACK_ROW`.
- **`DecompressBit4PackRow1`:**
  - 1-13 rows, `k_offset ∈ 0..9` and `kblock ∈ {4, 8}`. These cover every kind of segment: a head shorter than 4 rows, one longer than 4, one cut by `row`, zero/one/two whole blocks, and a tail with and without unrolled rows.
  - `col ∈ {24, 32, 48}` covers both kernels and a NotSupport.
- **`F8DecompressKBlock`:**
  - `col ∈ {8, 16, 24}` (epilogue only, body only, both); `kblock ∈ {1, 2}`; 1-2 rows.
  - Normal codes of both signs, at the smallest and largest exponents of both formats.
  - Scale exponents -9, 0, 4. The property quantifies over all these codes and exponents in every state.
  - `F8_zero_code` adds 0, 1 and 128.
- **`DQ8GetFpScale`:**
  - `col ∈ {3, 8, 13, 21}` and `scale_offset ∈ {0, 1, 5, 8, 13}` give a short row (head 7 > col 3), a head of 0, 3 and 7, bodies of 0-2 chunks and tails.
  - `dq_blk ∈ {8, 16}` is always a multiple of 8 in the callers' layouts. It makes a body chunk and a tail fall in different dq blocks.
- **`ColBlockReduceSum`:** block sizes 4, 12, 16 and 24 reach every phase combination; columns 48 and 96.
- **`ZeroPointBias`:**
  - `col ∈ {3, 9}`; depth 1-2.
  - Codes, zero points and scales of two values each, with both signs for the weights.
  - The value check quantifies over all of these for every corrected element.

- **`QuantizeColblock`:**
  - One row of 12 columns with `blocksize ∈ {4, 10}`. Blocksize 4 gives three whole blocks with a scalar tail only. Blocksize 10 gives one block with an 8-lane body and a 2-column tail, plus a partial block of 2.
  - Two source rows. The first has block spans 510 (scale 2) and, with blocksize 4, an all-zero middle block (scale 0). Its minimum `-1` gives zero point `cast(0.5) = 1`, and its value 509 is a tie at the top of the range. The second has spans 255 (scale 1) and, with blocksize 4, an all-zero block. Its values include a negative minimum and `255`.
  - `blkreduce` on (the epilogue needs it); both x86 outcomes for the NaN zero point (0 and 255).
  - The epilogue of `QuantizedGemm` has one output column, corrections "act" and "both", weight codes `1` and `-2` with zero point 1 and scale 1. A weight zero point other than 0 is what makes the correction read `reducea`.

- **`Decompress4Bit`:** rows 1-3 and `col ∈ {8, 24, 40}` give tiles of 8 to 120 elements: a tail only, one or more 16-element steps with and without a tail, and 64-element int8 steps (72 and 120 elements) with a tail. `ld_src - col ∈ {0, 2}`. Source byte b holds `(29 b + 7) mod 256`, so the first 16 bytes carry every low nibble 0-15 and high nibbles 0, 8 (the S4_CLIP sign) and 15; both S4 types and one F4 type (the LUT entries are abstract, so the F4 type does not matter) are checked.

## 6. What is not modelled, and why

- **Float rounding.** Provenance and exact values show the index and the algebra. They do not show rounding differences between the SIMD and scalar paths. The specification allows those within a tolerance, and section 9 allows either tie-break for quantization.
- **`quantize_fp_u8_colblock` on general floats and on a bf16 source.** The model is exact only on rows whose block spans are 0 or `255 * 2^e`; on other rows the float32 rounding of `rscale` and of the products would have to be modelled bit by bit. A bf16 source differs only in the load conversion (`ymm_cvt_bf16_fp32`, exact).
- **A passing run of `QuantizeColblock`.** The project asks one question of this kernel: whether the quantized GEMM is right. Its answer is the `quantize_gemm` violation. On the second source row alone, which holds no tie, the same property holds.
- **The element-wise float kernels, the bf16 conversions and `layernorm`.** These are straight 8-wide/scalar loops over floats. Their only control is the split into an 8-wide body and a scalar tail, which the modelled kernels already show. What could go wrong in them is float rounding: bf16 rounding of NaN, the f8 alpha exponent wrap, 0/0 in `layernorm`. The models of this project keep exact integer or provenance values, so these cases are listed as hazards with no property.
- **The values of `dequant_f4_N`.** The bit4 row scheduler passes it as `dequantize`. `DecompressBit4PackRow1` keeps its result as the pair (codes of row r, scales of block b). Its lookup is the same zero-extended LUT index that `Decompress4Bit` checks for `unpack_f4_N`.
- **Odd element counts in the 4-bit kernels.** The scalar tail writes `dstptr[i + 1]` one past the tile when `row * col` is odd (line 378). 4-bit codes are stored as whole bytes, so the packed layouts never produce such a tile; this is a hazard.
- **Reads past a row whose value is discarded** (the 16-byte f8 scale load at line 437 and f8 alpha load at line 510). These are listed as hazards.
- **`dq8_get_fp_scale` with `zeropadding`.** The code ends in `assert(0)`, so what happens depends on the build: a debug build aborts, a release build returns Success with the padding unwritten. `DQ8GetFpScale` models calls without padding; the padded case is a hazard.
- **The runtime parts of the specification** (KV cache, decode loop, sampler). Their code is not in this snapshot.

## 7. Plan

Everything in `src/` with control or data movement is modelled. The next step would be bit-level float models of the bf16 conversions (`cvt_fp32_to_bf16` and its NaN case) and of `accum_alphaN_f32_f32` with f8 alphas. These kernels are per-element float arithmetic.
