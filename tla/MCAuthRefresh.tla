--------------------------- MODULE MCAuthRefresh ---------------------------
(* Instances of AuthRefresh for TLC.  Requests are interchangeable, and so *)
(* are processes.                                                          *)
EXTENDS AuthRefresh

mcSymmetry == Permutations(Procs) \cup Permutations(Tasks)
=============================================================================
