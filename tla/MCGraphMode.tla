---------------------------- MODULE MCGraphMode ----------------------------
(* Instances of GraphMode for TLC.                                         *)
EXTENDS GraphMode

mcPlannerIds == {1, 2}
mcReplanIds == {4}
mcSplitIds == {4, 5}
mcUnlimited == {NoLimit}

\* Where no crash is allowed nothing reads the saved snapshot, and of the
\* baselines only the first one of each graph.
mcNoDisk ==
  <<graph, goal, pc, draft, origin, batch, burnt, taken,
    {v \in baselines : v[2] = 1}>>

\* The same for a liveness run, which takes no view: the persistence actor
\* never gets round to writing.
mcDiskIdle == saved' = saved
=============================================================================
