--------------------------- MODULE MCWorkingTree ---------------------------
(* Instances of WorkingTree for TLC.                                       *)
EXTENDS WorkingTree, TLC

CONSTANTS f, g, c, d

Symmetry == Permutations(Contents) \cup Permutations(Paths)
=============================================================================
