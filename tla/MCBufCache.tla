----------------------------- MODULE MCBufCache -----------------------------
(***************************************************************************)
(* Model values for the buffer pool.  Which block is which does not matter *)
(* to it, so states that only permute them are identified.                 *)
(***************************************************************************)
EXTENDS BufCache, TLC

CONSTANTS b1, b2, b3, d0, d1

ThreeBlocks == {b1, b2, b3}
TwoContents == {d0, d1}
BlockSymmetry == Permutations(ThreeBlocks)
=============================================================================
