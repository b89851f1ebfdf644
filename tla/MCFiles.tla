------------------------------- MODULE MCFiles -------------------------------
(***************************************************************************)
(* Model values for Files.                                                 *)
(***************************************************************************)
EXTENDS Files, TLC

CONSTANTS p1, p2, na, nb

TwoProcs == {p1, p2}
TwoNames == {na, nb}
NameSymmetry == Permutations(TwoNames)
\* A directory, the terminal, and a device that has the number of a data block.
SomeNods == {<<"DIR", 0>>, <<"DEV", 2>>, <<"DEV", 7>>}
=============================================================================
