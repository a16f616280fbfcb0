----------------------------- MODULE TileByRows -----------------------------
(***************************************************************************)
(* What a row-looping dequantize kernel promises its caller, with no SIMD *)
(* body, epilogue or head/tail split: for (int i = 0; i < row; i++) fills  *)
(* row i of the destination tile with the reference value of every        *)
(* column, one row after the other, never touches a finished row again,   *)
(* and, while it runs, eventually finishes every row.                     *)
(*                                                                         *)
(* The kernel's argument set, its rows and columns and its reference      *)
(* element are parameters; a detailed module instantiates this one WITH   *)
(* out mapped to the rows its loop counter has passed.                    *)
(***************************************************************************)
EXTENDS Naturals

CONSTANTS
  CallSet,        \* the argument tuples of one call
  RowsOf(_),      \* the row indices of a call's tile
  ColsOf(_),      \* the column indices of a call's tile
  Ref(_, _, _),   \* Ref(c, r, cl): the element (r, cl) of call c must hold
  NULL            \* a row not finished yet

VARIABLES
  call,  \* the arguments, fixed for the whole call
  out    \* row -> the finished row (column -> element), or NULL

Init ==
  /\ call \in CallSet
  /\ out = [r \in RowsOf(call) |-> NULL]

(* Row r is finished: every row before it is, and it gets the reference  *)
(* element in every column at once.                                       *)
FinishRow(r) ==
  /\ out[r] = NULL
  /\ \A q \in RowsOf(call) : q < r => out[q] # NULL
  /\ out' = [out EXCEPT ![r] = [cl \in ColsOf(call) |-> Ref(call, r, cl)]]
  /\ UNCHANGED call

Next == \E r \in DOMAIN out : FinishRow(r)

Spec == Init /\ [][Next]_<<call, out>> /\ WF_<<call, out>>(Next)
=============================================================================
