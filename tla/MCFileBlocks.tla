---------------------------- MODULE MCFileBlocks ----------------------------
(***************************************************************************)
(* FileBlocks for TLC: two files and one open file entry, and a disk of    *)
(* which one file alone can take the whole.                                *)
(***************************************************************************)
EXTENDS FileBlocks, TLC

CONSTANTS f1, f2, o1, b1, b2, b3, b4

MCFiles == {f1, f2}
MCOfts == {o1}
MCBlocks == {b1, b2, b3, b4}
MCRoom == f1 :> 4 @@ f2 :> 1
MCSymmetry == Permutations(MCBlocks)

=============================================================================
