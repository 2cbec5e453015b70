--------------------------- MODULE MCStubCommands ---------------------------
(* Instances of StubCommands for TLC.                                      *)
EXTENDS StubCommands, TLC

CONSTANTS f, one, two

Symmetry == Permutations(Contents)
=============================================================================
