--------------------------- MODULE MCGraphProject ---------------------------
(* Instances of GraphProject for TLC.                                      *)
EXTENDS GraphProject, TLC

mcSymmetry == Permutations(Sessions)
=============================================================================
