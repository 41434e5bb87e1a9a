--------------------------- MODULE MCWorktreeApply ---------------------------
(* Instances of WorktreeApply for TLC.                                     *)
EXTENDS WorktreeApply
=============================================================================
