--------------------------- MODULE Decompress4Bit ---------------------------
(***************************************************************************)
(* The flat decompression kernels of kernel_avx2.h, which treat a row x   *)
(* col tile with col == ld_src as one run of row * col elements:          *)
(*   decompress_s4_s8            4-bit integers -> int8                   *)
(*   decompress_kblock_s4_s8fp   4-bit integers -> float (via int8)       *)
(*   decompress_kblock_f4_fp_noscale  4-bit floats -> float               *)
(*   decompress_kblock_s8_s8fp   int8 -> float                            *)
(* The 4-bit kernels convert 16 elements (8 source bytes) per SIMD step   *)
(* through unpack_4bits_sse and then two elements (one byte, fields x and *)
(* y) per scalar step; the int8 kernel converts 64 per SIMD step and one  *)
(* per scalar step.                                                        *)
(*                                                                         *)
(* A written element is the source nibble (byte, half) or byte it was     *)
(* converted from.  The lane order of the SIMD path is computed from the  *)
(* shuffle_map constant and the byte shuffles and unpacks the code        *)
(* performs, so it is derived, not assumed.  The destination has one      *)
(* element of room past the tile.                                          *)
(***************************************************************************)
EXTENDS Integers

CONSTANTS
  RowSet,      \* candidate values of row
  ColSet,      \* candidate values of col
  LdPadSet,    \* ld_src - col: 0, or more for a padded source
  KernelSet,   \* a subset of {"s4_s8", "s4_s8fp", "f4_noscale", "s8_s8fp"}
  S4TypeSet,   \* S4_T of the 4-bit integer kernels: "S4_CLIP", "S4_FULLRANGE"
  F4TypeSet,   \* F4_T of the 4-bit float kernel: "F4_BNB", "F4_NF4", "F4_E2M1"
  SrcByte(_),  \* SrcByte(b): the value 0 .. 255 of source byte b
  NULL

ASSUME RowSet \subseteq Nat \ {0} /\ ColSet \subseteq Nat \ {0} /\ LdPadSet \subseteq Nat
ASSUME KernelSet \subseteq {"s4_s8", "s4_s8fp", "f4_noscale", "s8_s8fp"}
ASSUME S4TypeSet \subseteq {"S4_CLIP", "S4_FULLRANGE"}
ASSUME F4TypeSet \subseteq {"F4_BNB", "F4_NF4", "F4_E2M1"}

-----------------------------------------------------------------------------
(* unpack_4bits_sse on the 8 bytes at byte offset base.  A 16-byte vector *)
(* is a function 0 .. 15 -> lane, a lane being the source nibble or byte  *)
(* it holds (src) and its 8-bit value (val); a zeroed lane has src Zero.  *)
Zero == [byte |-> -1]

ZeroLane == [src |-> Zero, val |-> 0]

(* static uint8_t shuffle_map[]                                            *)
shuffle_map == <<0, 1, 2, 3, 255, 255, 255, 255, 4, 5, 6, 7, 255, 255, 255, 255>>

(* _mm_loadl_epi64: bytes 0..7 loaded, 8..15 zeroed.                       *)
LoadL(base) ==
  [k \in 0 .. 15 |-> IF k < 8 THEN [src |-> [byte |-> base + k], val |-> SrcByte(base + k)]
                     ELSE ZeroLane]

(* _mm_shuffle_epi8: a control byte with bit 7 set gives 0, else the byte *)
(* its low four bits select.                                               *)
Shuffle(v, m) == [k \in 0 .. 15 |-> IF m[k + 1] >= 128 THEN ZeroLane ELSE v[m[k + 1] % 16]]

(* _mm_srli_epi32(v, 4): each 32-bit lane shifted right by 4, so byte k  *)
(* takes the high nibble of byte k and the low nibble of byte k + 1 of    *)
(* the same 32-bit lane.                                                   *)
Srli32By4(v) ==
  [k \in 0 .. 15 |-> [v[k] EXCEPT !.val = v[k].val \div 16
                                          + IF k % 4 = 3 THEN 0 ELSE (v[k + 1].val % 16) * 16]]

(* _mm_slli_epi32(v, 4): each 32-bit lane shifted left by 4.               *)
Slli32By4(v) ==
  [k \in 0 .. 15 |-> [v[k] EXCEPT !.val = ((v[k].val * 16) % 256)
                                          + IF k % 4 = 0 THEN 0 ELSE v[k - 1].val \div 16]]

(* & 0x0f on every byte; the lane now holds nibble h (x low, y high) of  *)
(* its source byte.                                                        *)
Nibble(lane, h) ==
  IF lane.src = Zero THEN ZeroLane
  ELSE [src |-> [b |-> lane.src.byte, h |-> h], val |-> lane.val % 16]

(* The high nibbles without the & and_helper.                              *)
HighNibblesNoMask(v) ==
  LET s == Srli32By4(v)
  IN  [k \in 0 .. 15 |-> IF s[k].src = Zero THEN ZeroLane
                         ELSE [src |-> [b |-> s[k].src.byte, h |-> "y"], val |-> s[k].val]]

(* xmm0 & 0x0f, and (xmm0 >> 4 in 32-bit lanes) & 0x0f.                    *)
LowNibbles(v)  == [k \in 0 .. 15 |-> Nibble(v[k], "x")]
HighNibbles(v) == LET s == Srli32By4(v) IN [k \in 0 .. 15 |-> Nibble(s[k], "y")]

(* _mm_unpacklo_epi8 / _mm_unpackhi_epi8: interleave the low / high 8     *)
(* bytes of a and b.                                                        *)
UnpackLo8(a, b) == [k \in 0 .. 15 |-> IF k % 2 = 0 THEN a[k \div 2] ELSE b[k \div 2]]
UnpackHi8(a, b) == [k \in 0 .. 15 |-> IF k % 2 = 0 THEN a[8 + k \div 2] ELSE b[8 + k \div 2]]

(* _mm_unpackhi_epi64 in place of _mm_unpacklo_epi64.                       *)
UnpackHi64(a, b) == [k \in 0 .. 15 |-> IF k < 8 THEN a[8 + k] ELSE b[k]]

(* _mm_unpacklo_epi64: the low 8 bytes of a, then the low 8 bytes of b.  *)
UnpackLo64(a, b) == [k \in 0 .. 15 |-> IF k < 8 THEN a[k] ELSE b[k - 8]]

(* unpack_4bits_sse<S4_T>: the 16 nibbles in lane order, shifted into the *)
(* high half of each byte unless S4_T is S4_FULLRANGE.                     *)
unpack_4bits_sse(base, s4) ==
  LET xmm0 == Shuffle(LoadL(base), shuffle_map)
      lo   == LowNibbles(xmm0)
      hi   == HighNibbles(xmm0)
      xmm2 == UnpackLo64(UnpackLo8(lo, hi), UnpackHi8(lo, hi))
  IN  IF s4 # "S4_FULLRANGE" THEN Slli32By4(xmm2) ELSE xmm2

(* convert_s4_s8_16_sse<S4_T>: S4_FULLRANGE subtracts 8 from every byte   *)
(* (_mm_sub_epi8, modulo 256).                                             *)
convert_s4_s8_16_sse(base, s4) ==
  LET v == unpack_4bits_sse(base, s4)
  IN  IF s4 = "S4_FULLRANGE" THEN [k \in 0 .. 15 |-> [v[k] EXCEPT !.val = (v[k].val - 8) % 256]]
      ELSE v

(* fp4_pad_4bit: the nibbles, unshifted, as one byte each.                 *)
fp4_pad_4bit(base) == unpack_4bits_sse(base, "S4_FULLRANGE")

(* A byte read as int8_t (_mm256_cvtepi8_epi32 sign-extends it).           *)
Signed8(x) == IF x >= 128 THEN x - 256 ELSE x

(* unpack_f4_N: _mm256_cvtepu8_epi32 zero-extends the byte into the index *)
(* of the gather from the LUT of the F4 type.                              *)
unpack_f4_N(lane, f4) == [lut |-> f4, idx |-> lane.val]

-----------------------------------------------------------------------------
(* The template's element type: S4_T, F4_T, or int8 for the int8 kernel. *)
DtypesOf(k) ==
  CASE k \in {"s4_s8", "s4_s8fp"} -> S4TypeSet
    [] k = "f4_noscale"           -> F4TypeSet
    [] OTHER                      -> {"S8"}

AllCalls ==
  UNION {[row: RowSet, col: ColSet, ld_pad: LdPadSet, kernel: {k}, dtype: DtypesOf(k)] : k \in KernelSet}

Calls == AllCalls

Bit4(c) == c.kernel # "s8_s8fp"

N(c) == c.row * c.col

padto(x, a) == ((x + a - 1) \div a) * a

padto_le(x, a) == (x \div a) * a

(* Elements per SIMD step: 16 for the 4-bit kernels (one unpack), 64 for *)
(* the int8 kernel (eight convert_s8_fp_v8).                               *)
Step(c) == IF Bit4(c) THEN 16 ELSE 64

(* ele16 = padto_le(elesize, 16), ele64 = padto_le(elesize, 64)            *)
SimdEnd(c) == padto_le(N(c), Step(c))

VARIABLES
  call,  \* the arguments
  i,     \* the flat element counter
  dst,   \* 0 .. row * col (one past the tile) -> element or NULL
  ret    \* returned BTLA_CODE, NULL while running

vars == <<call, i, dst, ret>>

Init ==
  /\ call \in Calls
  /\ i = 0
  /\ dst = [p \in 0 .. N(call) |-> NULL]
  /\ ret = NULL

(* if (col == ld_src) { ... } else: decompress_s4_s8 and                  *)
(* decompress_kblock_s8_s8fp return NotSupport; decompress_kblock_s4_s8fp *)
(* and decompress_kblock_f4_fp_noscale return Success.                     *)
NotLdSrc ==
  /\ ret = NULL /\ call.ld_pad # 0
  /\ ret' = IF call.kernel \in {"s4_s8fp", "f4_noscale"} THEN "Success" ELSE "NotSupport"
  /\ UNCHANGED <<call, i, dst>>

(* Write the elements of cells into dst, those past the buffer dropped.   *)
WriteAt(cells) ==
  dst' = [p \in DOMAIN dst |-> IF p \in DOMAIN cells THEN cells[p] ELSE dst[p]]

(* The element a SIMD lane is stored as: the F4 LUT entry its byte       *)
(* indexes (unpack_f4_N), or the lane as int8_t, stored as is or through  *)
(* convert_s8_fp_v8, whose float (or bf16) holds every int8 exactly.     *)
SimdElem(lane) ==
  [src |-> lane.src,
   val |-> IF call.kernel = "f4_noscale" THEN unpack_f4_N(lane, call.dtype) ELSE Signed8(lane.val)]

(* Nibble x (low) or y (high) of source byte b, as utils::int4x2 holds it. *)
Nib(b, h) == IF h = "x" THEN SrcByte(b) % 16 ELSE SrcByte(b) \div 16

(* ref::get_s8<S4_T>: S4_CLIP reads the nibble as a signed 4-bit value    *)
(* and scales it by 16 (x << 4); S4_FULLRANGE reads it unsigned minus 8.  *)
get_s8(s4, n) == IF s4 = "S4_CLIP" THEN (IF n >= 8 THEN n - 16 ELSE n) * 16 ELSE n - 8

(* ref::f4_unpack<F4_T>: the LUT entry of the nibble.                      *)
f4_unpack(f4, n) == [lut |-> f4, idx |-> n]

(* The element the scalar tail stores for nibble h of byte b.              *)
ScalarElem(b, h) ==
  [src |-> [b |-> b, h |-> h],
   val |-> IF call.kernel = "f4_noscale" THEN f4_unpack(call.dtype, Nib(b, h))
           ELSE get_s8(call.dtype, Nib(b, h))]

(* One SIMD step.  4-bit: convert_s4_s8_16_sse / fp4_pad_4bit on the 8   *)
(* bytes at srcptr + i / 2, then (s8fp, f4) two 8-wide conversions.       *)
(* int8: eight convert_s8_fp_v8 on bytes i .. i + 63.                     *)
SimdStep ==
  /\ ret = NULL /\ call.ld_pad = 0
  /\ i < SimdEnd(call)
  /\ IF Bit4(call)
       THEN LET v == IF call.kernel = "f4_noscale" THEN fp4_pad_4bit(i \div 2)
                     ELSE convert_s4_s8_16_sse(i \div 2, call.dtype)
            IN  WriteAt([p \in {q \in i .. i + 15 : q \in DOMAIN dst} |-> SimdElem(v[p - i])])
       ELSE WriteAt([p \in {q \in i .. i + 63 : q \in DOMAIN dst} |->
                       [src |-> [b |-> p], val |-> Signed8(SrcByte(p))]])
  /\ i' = i + Step(call)
  /\ UNCHANGED <<call, ret>>

(* 4-bit tail: for (; i < elesize; i += 2) { tmp = srcptr[i / 2];         *)
(* dstptr[i + 0] = get(tmp.x); dstptr[i + 1] = get(tmp.y); }              *)
ScalarPair ==
  /\ ret = NULL /\ call.ld_pad = 0 /\ Bit4(call)
  /\ SimdEnd(call) <= i /\ i < N(call)
  /\ WriteAt([p \in {q \in {i, i + 1} : q \in DOMAIN dst} |->
                ScalarElem(i \div 2, IF p = i THEN "x" ELSE "y")])
  /\ i' = i + 2
  /\ UNCHANGED <<call, ret>>

(* int8 tail: for (; i < elesize; i += 1) dstptr[i] = (float)srcptr[i];   *)
ScalarOne ==
  /\ ret = NULL /\ call.ld_pad = 0 /\ ~Bit4(call)
  /\ SimdEnd(call) <= i /\ i < N(call)
  /\ WriteAt([p \in {i} |-> [src |-> [b |-> i], val |-> Signed8(SrcByte(i))]])
  /\ i' = i + 1
  /\ UNCHANGED <<call, ret>>

(* The Return below leaves as soon as the SIMD loop is done.               *)
ReturnAfterBody ==
  /\ ret = NULL /\ call.ld_pad = 0 /\ i >= SimdEnd(call)
  /\ ret' = "Success"
  /\ UNCHANGED <<call, i, dst>>

(* return BTLA_CODE::Success once both loops are done.                     *)
Return ==
  /\ ret = NULL /\ call.ld_pad = 0 /\ i >= N(call)
  /\ ret' = "Success"
  /\ UNCHANGED <<call, i, dst>>

Next == NotLdSrc \/ SimdStep \/ ScalarPair \/ ScalarOne \/ Return

Spec == Init /\ [][Next]_vars /\ WF_vars(Next)

-----------------------------------------------------------------------------
TypeOK ==
  /\ call \in Calls
  /\ i \in 0 .. N(call) + 1
  /\ ret \in {NULL, "Success", "NotSupport"}

(* The source of element p: nibble x (even p) or y (odd p) of byte p / 2, *)
(* or byte p for the int8 kernel.                                          *)
RefSource(p) ==
  IF Bit4(call) THEN [b |-> p \div 2, h |-> IF p % 2 = 0 THEN "x" ELSE "y"]
  ELSE [b |-> p]

(* Every element the kernel has written inside the tile was converted     *)
(* from its own nibble or byte, in the SIMD body (through the byte        *)
(* shuffle and the nibble interleave of unpack_4bits_sse) as in the       *)
(* scalar tail.                                                            *)
ElementsFromOwnSource ==
  \A p \in 0 .. N(call) - 1 : dst[p] # NULL => dst[p].src = RefSource(p)

(* The value the tier-independent reference gives element p: get_s8 or   *)
(* f4_unpack of its nibble, or the signed byte.                            *)
RefValue(p) ==
  IF Bit4(call) THEN ScalarElem(p \div 2, IF p % 2 = 0 THEN "x" ELSE "y").val
  ELSE Signed8(SrcByte(p))

(* Every element written holds the value of its code: the bit arithmetic  *)
(* of the SIMD body (the 32-bit lane shifts with their nibble masks, the  *)
(* S4_CLIP shift, the S4_FULLRANGE byte subtraction, the int8 sign and   *)
(* the zero-extended LUT index) gives what get_s8 and f4_unpack give the  *)
(* scalar tail, so a tile does not depend on where the SIMD part ends.   *)
ElementValuesMatchCode ==
  \A p \in 0 .. N(call) - 1 : dst[p] # NULL => dst[p].val = RefValue(p)

(* A returned call leaves the tile whole or untouched: either every      *)
(* element of the tile is written and nothing past it, or nothing is     *)
(* written at all, and NotSupport always leaves it untouched.  A call    *)
(* that returns between the SIMD body and the scalar tail, or that       *)
(* writes a tail pair past row * col, breaks it.  decompress_kblock_     *)
(* s4_s8fp and f4_fp_noscale answering a padded source with Success      *)
(* (lines 407, 610) leave the tile untouched and so satisfy it.          *)
Written == {p \in DOMAIN dst : dst[p] # NULL}
ReturnsWholeOrUntouchedTile ==
  ret # NULL => \/ Written = {}
                \/ ret = "Success" /\ Written = 0 .. N(call) - 1
=============================================================================
