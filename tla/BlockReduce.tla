---------------------------- MODULE BlockReduce ----------------------------
(***************************************************************************)
(* What col_block_reduce_sum promises, as an abstract specification: the  *)
(* reduce entries of a row x col tile are written one at a time, row by   *)
(* row and block by block, each with the sum of exactly the elements of   *)
(* its block that lie inside the row, until every entry is written.  How  *)
(* a sum is accumulated (pairs, single vectors, scalars) is not visible.  *)
(***************************************************************************)
EXTENDS Integers, Bags

CONSTANTS RowSet, ColSet, BlockSet, NULL

VARIABLES call, reduce

Calls == [row: RowSet, col: ColSet, blocksize: BlockSet]

(* reduce[i * ldr + j / blocksize] for j = 0, blocksize, ... < col.        *)
Slots(c) == (0 .. c.row - 1) \X (0 .. (c.col + c.blocksize - 1) \div c.blocksize - 1)

(* The sum of block x[2] of row x[1], as the bag of positions it adds.     *)
BlockSum(c, x) ==
  SetToBag({<<x[1], cl>> : cl \in {cl \in x[2] * c.blocksize .. (x[2] + 1) * c.blocksize - 1 :
                                     cl < c.col}})

Init ==
  /\ call \in Calls
  /\ reduce = [x \in Slots(call) |-> NULL]

(* Row-major order of the entries.                                         *)
Before(y, x) == y[1] < x[1] \/ (y[1] = x[1] /\ y[2] < x[2])

(* The next entry in row-major order gets its block's sum.                 *)
WriteBlock(x) ==
  /\ reduce[x] = NULL
  /\ \A y \in DOMAIN reduce : Before(y, x) => reduce[y] # NULL
  /\ reduce' = [reduce EXCEPT ![x] = BlockSum(call, x)]
  /\ UNCHANGED call

Next == \E x \in DOMAIN reduce : WriteBlock(x)

Spec == Init /\ [][Next]_<<call, reduce>> /\ WF_<<call, reduce>>(Next)
=============================================================================
