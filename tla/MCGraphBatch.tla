---------------------------- MODULE MCGraphBatch ----------------------------
(* Instances of GraphBatch for TLC.                                        *)
EXTENDS GraphBatch

mcPlannerIds == {1, 2}
=============================================================================
