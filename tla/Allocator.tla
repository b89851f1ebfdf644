----------------------------- MODULE Allocator -----------------------------
(***************************************************************************)
(* What blk_alloc and blk_free promise (fs/filesys.c): a block that is     *)
(* given out is used by nobody else until it is freed, and there is no     *)
(* block to give out only when all of them are used.                       *)
(***************************************************************************)
CONSTANTS
  Items,     \* the blocks that may be given out
  None       \* the answer when there is none

VARIABLES
  used,      \* the blocks given out
  answer     \* the last block given out, or None

vars == <<used, answer>>

Init == used = Items /\ answer = None

Alloc ==
  \/ \E x \in Items \ used : used' = used \cup {x} /\ answer' = x
  \/ used = Items /\ answer' = None /\ UNCHANGED used

Free == \E x \in used : used' = used \ {x} /\ UNCHANGED answer

Next == Alloc \/ Free

Spec == Init /\ [][Next]_vars

=============================================================================
