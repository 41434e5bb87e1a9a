------------------------- MODULE GraphTrackerProofs -------------------------
(***************************************************************************)
(* Every transition of the graph tracker keeps a graph well formed: its    *)
(* dependencies resolve, nothing depends on the terminal node, which       *)
(* depends on all the others, nodes run in dependency order and no live    *)
(* node depends on a dead one.                                             *)
(***************************************************************************)
EXTENDS GraphTracker, FiniteSetTheorems, TLAPS

\* Final is an id of its own.
LEMMA FinalFacts ==
  /\ Final \in Ids /\ Final \notin PlannerIds /\ Final \notin ReplanIds
  /\ PlannerIds \subseteq Ids /\ ReplanIds \subseteq Ids /\ NoNode \notin Ids
  BY IdsAssumption DEF Ids

\* A change that touches neither the nodes nor their dependencies keeps the
\* graph well formed.
LEMMA SameNodes ==
  ASSUME NEW g, NEW h, WellFormed(g), h \in GraphState,
         h.st = g.st, h.deps = g.deps
  PROVE  WellFormed(h)
  BY DEF WellFormed, DepsResolve, FinalIsLast, InOrder, DeadBranchClosed,
         Nodes, DepsAchieved

\* What `recompute_ready` changes.
LEMMA RecomputeReadyFacts ==
  ASSUME NEW g \in GraphState
  PROVE  LET h == RecomputeReady(g)
         IN  /\ h \in GraphState
             /\ h.id = g.id /\ h.status = g.status /\ h.deps = g.deps
             /\ h.current = g.current /\ h.spent = g.spent
             /\ h.version = g.version
             /\ \A n \in Ids :
                  h.st[n] = IF g.st[n] = "Waiting" /\ DepsAchieved(g, n)
                            THEN "Ready" ELSE g.st[n]
             /\ Nodes(h) = Nodes(g)
  BY DEF RecomputeReady, GraphState, NodeStatus, Nodes

\* `recompute_ready` keeps a graph well formed.
LEMMA RecomputeReadyWellFormed ==
  ASSUME NEW g, WellFormed(g)
  PROVE  WellFormed(RecomputeReady(g))
<1> DEFINE h == RecomputeReady(g)
<1>1. g \in GraphState
  BY DEF WellFormed
<1>2. /\ h \in GraphState /\ h.deps = g.deps /\ Nodes(h) = Nodes(g)
      /\ \A n \in Ids : h.st[n] = IF g.st[n] = "Waiting" /\ DepsAchieved(g, n)
                                  THEN "Ready" ELSE g.st[n]
  BY <1>1, RecomputeReadyFacts
<1>3. \A n \in Ids : g.deps[n] \subseteq Ids
  BY <1>1 DEF GraphState
<1> HIDE DEF h
<1>4. DepsResolve(h) /\ FinalIsLast(h)
  BY <1>2 DEF WellFormed, DepsResolve, FinalIsLast
<1>5. InOrder(h)
  BY <1>2, <1>3 DEF WellFormed, InOrder, DepsAchieved
<1>6. DeadBranchClosed(h)
  BY <1>2, <1>3 DEF WellFormed, DeadBranchClosed, Nodes, Dead, Terminal, DepsAchieved
<1> QED
  BY <1>2, <1>4, <1>5, <1>6 DEF WellFormed, h

-----------------------------------------------------------------------------
(* Failure propagation.                                                    *)

\* `block_dependents` reaches only live nodes.
LEMMA DeadBranchIsLive ==
  ASSUME NEW g, NEW f \in Ids, NEW n \in DeadBranch(g, f), n # f
  PROVE  n \in Nodes(g) /\ g.st[n] \notin Terminal
<1> DEFINE B == {f} \cup {m \in Nodes(g) : g.st[m] \notin Terminal}
<1>1. B \in SUBSET Ids /\ f \in B
  BY DEF Nodes
<1>2. Absorbs(g, B)
  BY DEF Absorbs
<1>3. n \in B
  BY <1>1, <1>2 DEF DeadBranch
<1> QED
  BY <1>3

\* `block_dependents` reaches every live node behind one it reaches.
LEMMA DeadBranchAbsorbs ==
  ASSUME NEW g, NEW f \in Ids, NEW n \in Nodes(g), g.st[n] \notin Terminal,
         NEW m \in DeadBranch(g, f), m \in g.deps[n]
  PROVE  n \in DeadBranch(g, f)
<1>1. ASSUME NEW B \in SUBSET Ids, f \in B, Absorbs(g, B)
      PROVE  n \in B
  <2>1. m \in B
    BY <1>1 DEF DeadBranch
  <2> QED
    BY <1>1, <2>1 DEF Absorbs
<1> QED
  BY <1>1 DEF DeadBranch, Nodes

\* The failed node is in its own dead branch.
LEMMA DeadBranchHoldsOrigin ==
  ASSUME NEW g, NEW f \in Ids
  PROVE  f \in DeadBranch(g, f) /\ DeadBranch(g, f) \subseteq Ids
  BY DEF DeadBranch

\* `block_dependents` spares a node whose dependencies are all achieved.
LEMMA DeadBranchSparesRunning ==
  ASSUME NEW g, NEW f \in Ids, g.st[f] # "Achieved",
         NEW n \in Ids, n # f, DepsAchieved(g, n)
  PROVE  n \notin DeadBranch(g, f)
<1> DEFINE B == {f} \cup {m \in Nodes(g) : g.st[m] \notin Terminal /\ m # n}
<1>1. B \in SUBSET Ids /\ f \in B
  BY DEF Nodes
<1>2. g.deps[n] \cap B = {}
  BY DEF DepsAchieved, Terminal
<1>3. Absorbs(g, B)
  BY <1>2 DEF Absorbs
<1>4. n \notin B
  OBVIOUS
<1> QED
  BY <1>1, <1>3, <1>4 DEF DeadBranch

\* What `mark_node_failed` changes.
LEMMA MarkNodeFailedFacts ==
  ASSUME NEW g \in GraphState, NEW f \in Ids
  PROVE  LET g1 == [g EXCEPT !.st[f] = "Failed", !.current = NoNode]
             h  == MarkNodeFailed(g, f)
         IN  /\ g1 \in GraphState /\ h \in GraphState
             /\ g1.deps = g.deps /\ h.deps = g.deps
             /\ h.id = g.id /\ h.version = g.version /\ h.status = g.status
             /\ h.current = NoNode
             /\ \A n \in Ids : g1.st[n] = IF n = f THEN "Failed" ELSE g.st[n]
             /\ \A n \in Ids : h.st[n] =
                  IF n \in DeadBranch(g1, f) \ {f} THEN "Blocked" ELSE g1.st[n]
<1> DEFINE g1 == [g EXCEPT !.st[f] = "Failed", !.current = NoNode]
           h  == MarkNodeFailed(g, f)
<1>1. /\ g1 \in GraphState /\ g1.deps = g.deps /\ g1.id = g.id
      /\ g1.version = g.version /\ g1.status = g.status /\ g1.current = NoNode
      /\ \A n \in Ids : g1.st[n] = IF n = f THEN "Failed" ELSE g.st[n]
  BY DEF GraphState, NodeStatus, Terminal
<1>2. h = BlockDependents(g1, f)
  BY DEF MarkNodeFailed
<1> HIDE DEF g1, h
<1>3. /\ h \in GraphState /\ h.deps = g1.deps /\ h.id = g1.id
      /\ h.version = g1.version /\ h.status = g1.status /\ h.current = g1.current
      /\ \A n \in Ids : h.st[n] =
           IF n \in DeadBranch(g1, f) \ {f} THEN "Blocked" ELSE g1.st[n]
  BY <1>1, <1>2 DEF BlockDependents, GraphState, NodeStatus, Terminal
<1> QED
  BY <1>1, <1>3 DEF g1, h

\* A node of the graph that runs, or the terminal node, may fail: what was in
\* play and independent of it stays in play, what was behind it is blocked.
LEMMA MarkNodeFailedWellFormed ==
  ASSUME NEW g, WellFormed(g), NEW f \in Nodes(g),
         g.st[f] = "Running" \/ f = Final
  PROVE  /\ WellFormed(MarkNodeFailed(g, f))
         /\ \A n \in Ids \ {f} :
              DepsAchieved(g, n) /\ n # Final =>
                MarkNodeFailed(g, f).st[n] = g.st[n]
         /\ \A n \in Ids \ {f} :
              g.st[n] \in Terminal \cup {"Absent"} =>
                MarkNodeFailed(g, f).st[n] = g.st[n]
         /\ \A n \in Ids : g.st[n] # "Absent" =>
              MarkNodeFailed(g, f).st[n] # "Absent"
<1> DEFINE g1 == [g EXCEPT !.st[f] = "Failed", !.current = NoNode]
           h  == MarkNodeFailed(g, f)
           D  == DeadBranch(g1, f)
<1>1. g \in GraphState /\ f \in Ids
  BY DEF WellFormed, Nodes
<1>2. /\ g1 \in GraphState /\ h \in GraphState
      /\ g1.deps = g.deps /\ h.deps = g.deps
      /\ \A n \in Ids : g1.st[n] = IF n = f THEN "Failed" ELSE g.st[n]
      /\ \A n \in Ids : h.st[n] = IF n \in D \ {f} THEN "Blocked" ELSE g1.st[n]
  BY <1>1, MarkNodeFailedFacts
<1>3. \A n \in Ids : g.deps[n] \subseteq Ids
  BY <1>1 DEF GraphState
<1>4. \A n \in D : n # f => n \in Nodes(g1) /\ g1.st[n] \notin Terminal
  BY <1>1, DeadBranchIsLive
<1>5. \A n \in Nodes(g1), m \in D :
        g1.st[n] \notin Terminal /\ m \in g1.deps[n] => n \in D
  BY <1>1, DeadBranchAbsorbs
<1>6. f \in D /\ D \subseteq Ids
  BY <1>1, DeadBranchHoldsOrigin
<1> HIDE DEF g1, h
<1>7. \A n \in Ids : n # f /\ DepsAchieved(g1, n) => n \notin D
  <2>1. g1.st[f] # "Achieved"
    BY <1>1, <1>2
  <2> QED
    BY <2>1, <1>1, DeadBranchSparesRunning
<1> HIDE DEF D
<1>8. Nodes(h) = Nodes(g) /\ Nodes(g1) = Nodes(g)
  BY <1>2, <1>4 DEF Nodes
<1>9. DepsResolve(h) /\ FinalIsLast(h)
  BY <1>2, <1>8 DEF WellFormed, DepsResolve, FinalIsLast
<1>10. \A n \in Ids : f \in g.deps[n] => ~DepsAchieved(g, n) \/ f = Final
  BY DEF DepsAchieved
<1>11. \A n \in Ids : DepsAchieved(g, n) => f \notin g.deps[n]
  BY <1>10 DEF WellFormed, FinalIsLast
<1>12. \A n \in Ids : DepsAchieved(g, n) => DepsAchieved(g1, n) /\ DepsAchieved(h, n)
  BY <1>2, <1>3, <1>4, <1>11 DEF DepsAchieved, Terminal
<1>13. InOrder(h)
  <2> SUFFICES ASSUME NEW n \in Ids \ {Final},
                      h.st[n] \in {"Ready", "Running", "Achieved"}
               PROVE  DepsAchieved(h, n)
    BY DEF InOrder
  <2>1. g.st[n] = h.st[n]
    BY <1>2
  <2> QED
    BY <2>1, <1>12 DEF WellFormed, InOrder
<1>14. DeadBranchClosed(h)
  <2> SUFFICES ASSUME NEW n \in Nodes(h), NEW m \in h.deps[n], h.st[m] \in Dead
               PROVE  h.st[n] \in Terminal
    BY DEF DeadBranchClosed
  <2>1. n \in Ids /\ m \in Ids /\ n \in Nodes(g1) /\ n \in Nodes(g) /\ m \in g.deps[n]
    BY <1>2, <1>3, <1>8 DEF Nodes
  <2>2. CASE m \in D
    BY <2>1, <2>2, <1>2, <1>5, <1>6 DEF Terminal
  <2>3. CASE m \notin D
    <3>1. g.st[m] \in Dead
      BY <2>1, <2>3, <1>2, <1>6
    <3>2. g.st[n] \in Terminal
      BY <3>1, <2>1 DEF WellFormed, DeadBranchClosed
    <3> QED
      BY <3>2, <2>1, <1>2, <1>4 DEF Terminal
  <2> QED
    BY <2>2, <2>3
<1>15. WellFormed(h)
  BY <1>2, <1>9, <1>13, <1>14 DEF WellFormed
<1>16. \A n \in Ids \ {f} : DepsAchieved(g, n) => h.st[n] = g.st[n]
  BY <1>2, <1>7, <1>12
<1>17. \A n \in Ids \ {f} : g.st[n] \in Terminal \cup {"Absent"} => h.st[n] = g.st[n]
  BY <1>2, <1>4 DEF Nodes
<1>18. \A n \in Ids : g.st[n] # "Absent" => h.st[n] # "Absent"
  BY <1>2
<1> QED
  BY <1>15, <1>16, <1>17, <1>18 DEF h

-----------------------------------------------------------------------------
(* One node's life.                                                        *)

\* Nodes that are Ready may start to run, one by one or as a batch.
LEMMA StartWellFormed ==
  ASSUME NEW g, WellFormed(g), NEW S \in SUBSET Ids,
         \A n \in S : g.st[n] = "Ready",
         NEW h \in GraphState, h.deps = g.deps,
         \A n \in Ids : h.st[n] = IF n \in S THEN "Running" ELSE g.st[n]
  PROVE  WellFormed(h) /\ Nodes(h) = Nodes(g)
<1>1. \A n \in Ids : g.deps[n] \subseteq Ids
  BY DEF WellFormed, GraphState
<1>2. Nodes(h) = Nodes(g)
  BY DEF Nodes
<1>3. \A n \in Ids : DepsAchieved(g, n) => DepsAchieved(h, n)
  BY <1>1 DEF DepsAchieved
<1>4. InOrder(h)
  BY <1>3 DEF WellFormed, InOrder
<1>5. DeadBranchClosed(h)
  BY <1>1, <1>2 DEF WellFormed, DeadBranchClosed, Nodes, Dead, Terminal
<1> QED
  BY <1>2, <1>4, <1>5 DEF WellFormed, DepsResolve, FinalIsLast

\* What `mark_node_running` changes.
LEMMA MarkNodeRunningWellFormed ==
  ASSUME NEW g, WellFormed(g), NEW n \in Ids, g.st[n] = "Ready"
  PROVE  LET h == MarkNodeRunning(g, n)
         IN  /\ WellFormed(h) /\ Nodes(h) = Nodes(g)
             /\ h.id = g.id /\ h.version = g.version /\ h.status = g.status
             /\ h.current = n
             /\ \A m \in Ids : h.st[m] = IF m = n THEN "Running" ELSE g.st[m]
<1> DEFINE h == MarkNodeRunning(g, n)
<1>1. /\ h \in GraphState /\ h.deps = g.deps
      /\ h.id = g.id /\ h.version = g.version /\ h.status = g.status
      /\ h.current = n
      /\ \A m \in Ids : h.st[m] = IF m \in {n} THEN "Running" ELSE g.st[m]
  BY DEF WellFormed, GraphState, NodeStatus, MarkNodeRunning
<1> HIDE DEF h
<1> DEFINE S == {n}
<1>2. S \in SUBSET Ids /\ \A m \in S : g.st[m] = "Ready"
  OBVIOUS
<1>3. \A m \in Ids : h.st[m] = IF m \in S THEN "Running" ELSE g.st[m]
  BY <1>1
<1> HIDE DEF S
<1>4. WellFormed(h) /\ Nodes(h) = Nodes(g)
  BY <1>1, <1>2, <1>3, StartWellFormed
<1> QED
  BY <1>1, <1>4 DEF h

\* What `mark_node_achieved` changes before it recomputes readiness.
LEMMA AchieveWellFormed ==
  ASSUME NEW g, WellFormed(g), NEW f \in Nodes(g),
         g.st[f] = "Running" \/ f = Final,
         NEW h \in GraphState, h.deps = g.deps,
         \A n \in Ids : h.st[n] = IF n = f THEN "Achieved" ELSE g.st[n]
  PROVE  WellFormed(h) /\ Nodes(h) = Nodes(g)
<1>1. \A n \in Ids : g.deps[n] \subseteq Ids
  BY DEF WellFormed, GraphState
<1>2. Nodes(h) = Nodes(g)
  BY DEF Nodes
<1>3. \A n \in Ids : DepsAchieved(g, n) => DepsAchieved(h, n)
  BY <1>1 DEF DepsAchieved
<1>4. InOrder(h)
  BY <1>3 DEF WellFormed, InOrder
<1>5. DeadBranchClosed(h)
  BY <1>1, <1>2 DEF WellFormed, DeadBranchClosed, Nodes, Dead, Terminal
<1> QED
  BY <1>2, <1>4, <1>5 DEF WellFormed, DepsResolve, FinalIsLast

\* A running node, or the terminal one, may be achieved: that may make
\* waiting nodes ready, and changes no other node.
LEMMA MarkNodeAchievedWellFormed ==
  ASSUME NEW g, WellFormed(g), NEW f \in Nodes(g), NEW tokens \in Int,
         g.st[f] = "Running" \/ f = Final
  PROVE  LET h == MarkNodeAchieved(g, f, tokens)
         IN  /\ WellFormed(h) /\ Nodes(h) = Nodes(g)
             /\ h.id = g.id /\ h.version = g.version /\ h.status = g.status
             /\ h.current = NoNode
             /\ \A n \in Ids \ {f} : g.st[n] # "Waiting" => h.st[n] = g.st[n]
<1> DEFINE sum == g.spent + tokens
           g1 == [g EXCEPT !.st[f] = "Achieved", !.spent = sum,
                           !.current = NoNode]
           h  == MarkNodeAchieved(g, f, tokens)
<1>0. g \in GraphState /\ f \in Ids /\ sum \in Int
  BY DEF WellFormed, Nodes, GraphState
<1>2. h = RecomputeReady(g1)
  BY DEF MarkNodeAchieved
<1> HIDE DEF sum
<1>1. /\ g1 \in GraphState /\ g1.deps = g.deps /\ g1.id = g.id
      /\ g1.version = g.version /\ g1.status = g.status /\ g1.current = NoNode
      /\ \A n \in Ids : g1.st[n] = IF n = f THEN "Achieved" ELSE g.st[n]
  BY <1>0 DEF GraphState, NodeStatus, Terminal
<1> HIDE DEF g1, h
<1>3. WellFormed(g1) /\ Nodes(g1) = Nodes(g)
  BY <1>1, AchieveWellFormed
<1>4. WellFormed(h)
  BY <1>2, <1>3, RecomputeReadyWellFormed
<1>5. /\ h.id = g1.id /\ h.status = g1.status /\ h.version = g1.version
      /\ h.current = g1.current /\ Nodes(h) = Nodes(g1)
      /\ \A n \in Ids : h.st[n] = IF g1.st[n] = "Waiting" /\ DepsAchieved(g1, n)
                                  THEN "Ready" ELSE g1.st[n]
  BY <1>1, <1>2, RecomputeReadyFacts
<1> QED
  BY <1>1, <1>3, <1>4, <1>5 DEF h

-----------------------------------------------------------------------------
(* Graph-level transitions.                                                *)

\* Putting running nodes back to Ready keeps a graph well formed.
LEMMA DemoteWellFormed ==
  ASSUME NEW g, WellFormed(g), NEW keep, NEW h \in GraphState, h.deps = g.deps,
         h.st = DemoteInFlight(g.st, keep)
  PROVE  /\ WellFormed(h) /\ Nodes(h) = Nodes(g)
         /\ \A n \in Ids : h.st[n] = IF g.st[n] = "Running" /\ n # keep
                                     THEN "Ready" ELSE g.st[n]
<1>1. \A n \in Ids : g.deps[n] \subseteq Ids
  BY DEF WellFormed, GraphState
<1>2. \A n \in Ids : h.st[n] = IF g.st[n] = "Running" /\ n # keep
                               THEN "Ready" ELSE g.st[n]
  BY DEF DemoteInFlight, InFlight
<1>3. Nodes(h) = Nodes(g)
  BY <1>2 DEF Nodes
<1>4. \A n \in Ids : DepsAchieved(g, n) => DepsAchieved(h, n)
  BY <1>1, <1>2 DEF DepsAchieved
<1>5. InOrder(h)
  BY <1>2, <1>4 DEF WellFormed, InOrder
<1>6. DeadBranchClosed(h)
  BY <1>1, <1>2, <1>3 DEF WellFormed, DeadBranchClosed, Nodes, Dead, Terminal
<1> QED
  BY <1>2, <1>3, <1>5, <1>6 DEF WellFormed, DepsResolve, FinalIsLast

\* What `resume` and `resume_budget_limited` change: readiness only.
LEMMA ResumeWellFormed ==
  ASSUME NEW g, WellFormed(g), NEW g1 \in GraphState,
         g1.deps = g.deps, g1.st = g.st
  PROVE  LET h == RecomputeReady(g1)
         IN  /\ WellFormed(h) /\ Nodes(h) = Nodes(g)
             /\ h.id = g1.id /\ h.version = g1.version /\ h.status = g1.status
             /\ h.current = g1.current
             /\ \A n \in Ids : g.st[n] # "Waiting" => h.st[n] = g.st[n]
<1> DEFINE h == RecomputeReady(g1)
<1>1. WellFormed(g1) /\ Nodes(g1) = Nodes(g)
  BY SameNodes DEF Nodes
<1>2. WellFormed(h)
  BY <1>1, RecomputeReadyWellFormed
<1>3. /\ h.id = g1.id /\ h.status = g1.status /\ h.version = g1.version
      /\ h.current = g1.current /\ Nodes(h) = Nodes(g1)
      /\ \A n \in Ids : h.st[n] = IF g1.st[n] = "Waiting" /\ DepsAchieved(g1, n)
                                  THEN "Ready" ELSE g1.st[n]
  BY RecomputeReadyFacts
<1> QED
  BY <1>1, <1>2, <1>3

\* `demote_orphaned_in_flight`, the budget stop and the restored snapshot:
\* running nodes but the kept one go back to Ready, waiting ones may follow.
LEMMA DemoteRecomputeWellFormed ==
  ASSUME NEW g, WellFormed(g), NEW keep, NEW g1 \in GraphState,
         g1.deps = g.deps, g1.st = DemoteInFlight(g.st, keep)
  PROVE  LET h == RecomputeReady(g1)
         IN  /\ WellFormed(h) /\ Nodes(h) = Nodes(g)
             /\ h.id = g1.id /\ h.version = g1.version /\ h.status = g1.status
             /\ h.current = g1.current
             /\ \A n \in Ids : g.st[n] \in Terminal => h.st[n] = g.st[n]
             /\ \A n \in Ids : g.st[n] = "Running" /\ n = keep => h.st[n] = "Running"
<1> DEFINE h == RecomputeReady(g1)
<1>1. /\ WellFormed(g1) /\ Nodes(g1) = Nodes(g)
      /\ \A n \in Ids : g1.st[n] = IF g.st[n] = "Running" /\ n # keep
                                   THEN "Ready" ELSE g.st[n]
  BY DemoteWellFormed
<1>2. WellFormed(h)
  BY <1>1, RecomputeReadyWellFormed
<1>3. /\ h.id = g1.id /\ h.status = g1.status /\ h.version = g1.version
      /\ h.current = g1.current /\ Nodes(h) = Nodes(g1)
      /\ \A n \in Ids : h.st[n] = IF g1.st[n] = "Waiting" /\ DepsAchieved(g1, n)
                                  THEN "Ready" ELSE g1.st[n]
  BY RecomputeReadyFacts
<1> HIDE DEF h
<1> QED
  BY <1>1, <1>2, <1>3 DEF Terminal, h

\* Demoting nodes in flight gives every node a status.
LEMMA DemoteInFlightType ==
  ASSUME NEW g \in GraphState, NEW keep
  PROVE  DemoteInFlight(g.st, keep) \in [Ids -> NodeStatus]
  BY DEF DemoteInFlight, InFlight, GraphState, NodeStatus

\* `resume` followed by `demote_orphaned_in_flight`, as /graph resume does.
LEMMA ResumeDemoteWellFormed ==
  ASSUME NEW g, WellFormed(g), NEW keep \in Ids \cup {NoNode}
  PROVE  LET h == DemoteOrphanedInFlight(Resume(g), keep)
         IN  /\ WellFormed(h) /\ Nodes(h) = Nodes(g)
             /\ h.id = g.id /\ h.version = g.version /\ h.current = keep
             /\ h.status = "Active"
             /\ \A n \in Ids : g.st[n] \in Terminal => h.st[n] = g.st[n]
             /\ \A n \in Ids : g.st[n] = "Running" /\ n = keep => h.st[n] = "Running"
<1> DEFINE a  == [g EXCEPT !.status = "Active"]
           r  == RecomputeReady(a)
           b  == [r EXCEPT !.st = DemoteInFlight(r.st, keep), !.current = keep]
           h  == RecomputeReady(b)
<1>1. h = DemoteOrphanedInFlight(Resume(g), keep)
  BY DEF DemoteOrphanedInFlight, Resume
<1>2. g \in GraphState
  BY DEF WellFormed
<1>3. /\ a \in GraphState /\ a.deps = g.deps /\ a.st = g.st /\ a.id = g.id
      /\ a.version = g.version /\ a.current = g.current /\ a.status = "Active"
  BY <1>2 DEF GraphState, GraphStatus
<1> HIDE DEF a
<1>4. /\ WellFormed(r) /\ Nodes(r) = Nodes(g) /\ r.id = g.id
      /\ r.version = g.version /\ r.status = "Active"
      /\ \A n \in Ids : g.st[n] # "Waiting" => r.st[n] = g.st[n]
  BY <1>3, ResumeWellFormed
<1> HIDE DEF r
<1>5. r \in GraphState
  BY <1>4 DEF WellFormed
<1>6. DemoteInFlight(r.st, keep) \in [Ids -> NodeStatus]
  BY <1>5, DemoteInFlightType
<1>7. /\ b \in GraphState /\ b.deps = r.deps /\ b.id = r.id
      /\ b.st = DemoteInFlight(r.st, keep)
      /\ b.version = r.version /\ b.current = keep /\ b.status = r.status
  BY <1>5, <1>6 DEF GraphState
<1> HIDE DEF b
<1>8. /\ WellFormed(h) /\ Nodes(h) = Nodes(r)
      /\ h.id = b.id /\ h.version = b.version /\ h.status = b.status
      /\ h.current = b.current
      /\ \A n \in Ids : r.st[n] \in Terminal => h.st[n] = r.st[n]
      /\ \A n \in Ids : r.st[n] = "Running" /\ n = keep => h.st[n] = "Running"
  BY <1>4, <1>7, DemoteRecomputeWellFormed
<1> HIDE DEF h
<1>9. \A n \in Ids : g.st[n] \in Terminal \cup {"Running"} => r.st[n] = g.st[n]
  BY <1>4 DEF Terminal
<1>10. \A n \in Ids : g.st[n] \in Terminal => h.st[n] = g.st[n]
  BY <1>8, <1>9
<1>11. \A n \in Ids : g.st[n] = "Running" /\ n = keep => h.st[n] = "Running"
  BY <1>8, <1>9
<1> QED
  BY <1>1, <1>4, <1>7, <1>8, <1>10, <1>11

\* `budget_limit`.
LEMMA BudgetLimitWellFormed ==
  ASSUME NEW g, WellFormed(g)
  PROVE  LET h == BudgetLimit(g)
         IN  /\ WellFormed(h) /\ Nodes(h) = Nodes(g)
             /\ h.id = g.id /\ h.version = g.version
             /\ \/ h.current = NoNode
                \/ h.current = g.current /\ h.st = g.st
             /\ g.status # "None" => h.status # "None"
             /\ \A n \in Ids : g.st[n] \in Terminal => h.st[n] = g.st[n]
<1>1. CASE g.status # "Active"
  BY <1>1 DEF BudgetLimit
<1>2. CASE g.status = "Active"
  <2> DEFINE h == [g EXCEPT !.st = DemoteInFlight(g.st, NoNode),
                            !.current = NoNode, !.status = "BudgetLimited"]
  <2>1. h = BudgetLimit(g)
    BY <1>2 DEF BudgetLimit
  <2>2. g \in GraphState
    BY DEF WellFormed
  <2>3. DemoteInFlight(g.st, NoNode) \in [Ids -> NodeStatus]
    BY <2>2, DemoteInFlightType
  <2>4. /\ h \in GraphState /\ h.deps = g.deps /\ h.id = g.id
        /\ h.st = DemoteInFlight(g.st, NoNode)
        /\ h.version = g.version /\ h.current = NoNode /\ h.status # "None"
    BY <2>2, <2>3 DEF GraphState, GraphStatus
  <2> HIDE DEF h
  <2>5. WellFormed(h) /\ Nodes(h) = Nodes(g)
    <3>1. h \in GraphState /\ h.deps = g.deps /\ h.st = DemoteInFlight(g.st, NoNode)
      BY <2>4
    <3> QED
      BY <3>1, DemoteWellFormed
  <2>6. \A n \in Ids : g.st[n] \in Terminal => h.st[n] = g.st[n]
    BY <2>4 DEF DemoteInFlight, InFlight, Terminal
  <2> QED
    BY <2>1, <2>4, <2>5, <2>6
<1> QED
  BY <1>1, <1>2

\* `from_snapshot`.
LEMMA FromSnapshotWellFormed ==
  ASSUME NEW g, WellFormed(g)
  PROVE  LET h == FromSnapshot(g)
         IN  /\ WellFormed(h) /\ Nodes(h) = Nodes(g)
             /\ h.id = g.id /\ h.version = g.version
             /\ h.status # "Active" /\ h.status \in {g.status, "Paused"}
             /\ g.status = "None" => h.status = "None"
             /\ h = g \/ h.current = NoNode
<1>1. CASE g.status = "None"
  BY <1>1 DEF FromSnapshot
<1>2. CASE g.status # "None"
  <2> DEFINE a == [g EXCEPT !.status = IF g.status = "Active" THEN "Paused" ELSE g.status,
                            !.st = DemoteInFlight(g.st, NoNode), !.current = NoNode]
  <2>1. FromSnapshot(g) = RecomputeReady(a)
    BY <1>2 DEF FromSnapshot
  <2>2. g \in GraphState
    BY DEF WellFormed
  <2>3. DemoteInFlight(g.st, NoNode) \in [Ids -> NodeStatus]
    BY <2>2, DemoteInFlightType
  <2>4. /\ a.id = g.id /\ a.version = g.version /\ a.current = NoNode
        /\ a.status # "Active" /\ a.status \in {g.status, "Paused"}
    BY <2>2, <2>3 DEF GraphState, GraphStatus
  <2>4a. /\ a \in GraphState /\ a.deps = g.deps
        /\ a.st = DemoteInFlight(g.st, NoNode)
    BY <2>2, <2>3 DEF GraphState, GraphStatus
  <2> HIDE DEF a
  <2>5. /\ WellFormed(RecomputeReady(a)) /\ Nodes(RecomputeReady(a)) = Nodes(g)
        /\ RecomputeReady(a).status = a.status
        /\ RecomputeReady(a).id = a.id /\ RecomputeReady(a).version = a.version
        /\ RecomputeReady(a).current = a.current
    BY <2>4a, DemoteRecomputeWellFormed
  <2>6. /\ RecomputeReady(a).status # "Active"
        /\ RecomputeReady(a).status \in {g.status, "Paused"}
        /\ RecomputeReady(a).id = g.id /\ RecomputeReady(a).version = g.version
        /\ RecomputeReady(a).current = NoNode
    BY <2>4, <2>5
  <2> QED
    BY <1>2, <2>1, <2>5, <2>6
<1> QED
  BY <1>1, <1>2

\* The transitions that touch neither nodes nor dependencies: `pause`,
\* `complete`, `charge_node_tokens`, `queue_discoveries`,
\* `drain_discoveries`, and the replan counter.
LEMMA SameNodesWellFormed ==
  ASSUME NEW g, WellFormed(g)
  PROVE  /\ WellFormed(Pause(g)) /\ Pause(g).st = g.st
         /\ Pause(g).id = g.id /\ Pause(g).version = g.version
         /\ Pause(g).current = g.current
         /\ Pause(g).status # "Active" /\ Pause(g).status \in {g.status, "Paused"}
         /\ g.status = "None" => Pause(g).status = "None"
         /\ WellFormed(Complete(g)) /\ Complete(g).st = g.st
         /\ Complete(g).id = g.id /\ Complete(g).version = g.version
         /\ Complete(g).current = g.current /\ Complete(g).status # "None"
         /\ WellFormed(QueueDiscoveries(g)) /\ QueueDiscoveries(g).st = g.st
         /\ QueueDiscoveries(g).id = g.id
         /\ QueueDiscoveries(g).version = g.version
         /\ QueueDiscoveries(g).current = g.current
         /\ QueueDiscoveries(g).status = g.status
         /\ QueueDiscoveries(g).deps = g.deps
         /\ WellFormed(DrainDiscoveries(g)) /\ DrainDiscoveries(g).st = g.st
         /\ DrainDiscoveries(g).id = g.id
         /\ DrainDiscoveries(g).version = g.version
         /\ DrainDiscoveries(g).current = g.current
         /\ DrainDiscoveries(g).status = g.status
<1>0. g \in GraphState
  BY DEF WellFormed
<1>1. /\ Pause(g) \in GraphState /\ Pause(g).st = g.st /\ Pause(g).deps = g.deps
      /\ Pause(g).id = g.id /\ Pause(g).version = g.version
      /\ Pause(g).current = g.current
      /\ Pause(g).status # "Active" /\ Pause(g).status \in {g.status, "Paused"}
      /\ g.status = "None" => Pause(g).status = "None"
  BY <1>0 DEF Pause, GraphState, GraphStatus
<1>2. /\ Complete(g) \in GraphState /\ Complete(g).st = g.st
      /\ Complete(g).deps = g.deps /\ Complete(g).id = g.id
      /\ Complete(g).version = g.version /\ Complete(g).current = g.current
      /\ Complete(g).status # "None"
  BY <1>0 DEF Complete, GraphState, GraphStatus
<1>3. /\ QueueDiscoveries(g) \in GraphState /\ QueueDiscoveries(g).st = g.st
      /\ QueueDiscoveries(g).deps = g.deps /\ QueueDiscoveries(g).id = g.id
      /\ QueueDiscoveries(g).version = g.version
      /\ QueueDiscoveries(g).current = g.current
      /\ QueueDiscoveries(g).status = g.status
  BY <1>0 DEF QueueDiscoveries, GraphState
<1>4. /\ DrainDiscoveries(g) \in GraphState /\ DrainDiscoveries(g).st = g.st
      /\ DrainDiscoveries(g).deps = g.deps /\ DrainDiscoveries(g).id = g.id
      /\ DrainDiscoveries(g).version = g.version
      /\ DrainDiscoveries(g).current = g.current
      /\ DrainDiscoveries(g).status = g.status
  BY <1>0 DEF DrainDiscoveries, GraphState
<1>5. WellFormed(Pause(g))
  BY <1>1, SameNodes
<1>6. WellFormed(Complete(g))
  BY <1>2, SameNodes
<1>7. WellFormed(QueueDiscoveries(g))
  BY <1>3, SameNodes
<1>8. WellFormed(DrainDiscoveries(g))
  BY <1>4, SameNodes
<1> QED
  BY <1>1, <1>2, <1>3, <1>4, <1>5, <1>6, <1>7, <1>8

\* `charge_node_tokens` keeps a graph well formed.
LEMMA ChargeWellFormed ==
  ASSUME NEW g, WellFormed(g), NEW tokens \in Int
  PROVE  LET h == ChargeNodeTokens(g, tokens)
         IN  /\ WellFormed(h) /\ h.st = g.st /\ h.deps = g.deps /\ h.id = g.id
             /\ h.version = g.version /\ h.current = g.current
             /\ h.status = g.status
<1> DEFINE sum == g.spent + tokens
           h == [g EXCEPT !.spent = sum]
<1>1. ChargeNodeTokens(g, tokens) = h
  BY DEF ChargeNodeTokens
<1>2. g \in GraphState /\ sum \in Int
  BY DEF WellFormed, GraphState
<1> HIDE DEF sum
<1>3. /\ h \in GraphState /\ h.st = g.st /\ h.deps = g.deps /\ h.id = g.id
      /\ h.version = g.version /\ h.current = g.current /\ h.status = g.status
  BY <1>2 DEF GraphState
<1> HIDE DEF h
<1>4. WellFormed(h)
  BY <1>3, SameNodes
<1> QED
  BY <1>1, <1>3, <1>4

\* A replan that added nothing: discoveries drained, one run more.
LEMMA DrainAndCountWellFormed ==
  ASSUME NEW g, WellFormed(g)
  PROVE  LET h == [DrainDiscoveries(g) EXCEPT !.runs = @ + 1]
         IN  /\ WellFormed(h) /\ h.st = g.st /\ h.id = g.id
             /\ h.version = g.version /\ h.current = g.current
             /\ h.status = g.status
<1> DEFINE d == DrainDiscoveries(g)
           more == d.runs + 1
           h == [d EXCEPT !.runs = more]
<1>1. /\ WellFormed(d) /\ d.st = g.st /\ d.id = g.id /\ d.version = g.version
      /\ d.current = g.current /\ d.status = g.status
  BY SameNodesWellFormed
<1> HIDE DEF d
<1>2. d \in GraphState /\ more \in Nat
  BY <1>1 DEF WellFormed, GraphState
<1> HIDE DEF more
<1>3. /\ h \in GraphState /\ h.st = d.st /\ h.deps = d.deps /\ h.id = d.id
      /\ h.version = d.version /\ h.current = d.current /\ h.status = d.status
  BY <1>2 DEF GraphState
<1> HIDE DEF h
<1>4. WellFormed(h)
  BY <1>1, <1>3, SameNodes
<1> QED
  BY <1>1, <1>3, <1>4 DEF d, more, h

-----------------------------------------------------------------------------
(* Planning, replans and the optimizer.                                    *)

\* A tracker that holds no graph is well formed.
LEMMA NoGraphWellFormed ==
  /\ WellFormed(NoGraph) /\ Nodes(NoGraph) = {}
  /\ NoGraph.status = "None" /\ NoGraph.current = NoNode
<1>1. NoGraph \in GraphState
  BY DEF NoGraph, GraphState, GraphStatus, NodeStatus, NoLimit
<1>2. /\ \A n \in Ids : NoGraph.st[n] = "Absent" /\ NoGraph.deps[n] = {}
      /\ NoGraph.status = "None" /\ NoGraph.current = NoNode
  BY DEF NoGraph
<1>3. Nodes(NoGraph) = {}
  BY <1>2 DEF Nodes
<1> QED
  BY <1>1, <1>2, <1>3, FinalFacts
     DEF WellFormed, DepsResolve, FinalIsLast, InOrder, DeadBranchClosed

\* `create_graph`: no node yet, and version 1.
LEMMA CreateGraphWellFormed ==
  ASSUME NEW id \in Nat, NEW b \in Int
  PROVE  LET h == CreateGraph(id, b)
         IN  /\ WellFormed(h) /\ Nodes(h) = {} /\ h.id = id /\ h.version = 1
             /\ h.current = NoNode /\ h.status = "Active"
<1> DEFINE h == CreateGraph(id, b)
<1>1. /\ h \in GraphState /\ h.st = NoGraph.st /\ h.deps = NoGraph.deps
      /\ h.id = id /\ h.version = 1 /\ h.current = NoNode /\ h.status = "Active"
  <2>1. NoGraph \in GraphState /\ NoGraph.current = NoNode
    BY NoGraphWellFormed DEF WellFormed
  <2> QED
    BY <2>1 DEF CreateGraph, GraphState, GraphStatus
<1> HIDE DEF h
<1>2. WellFormed(h) /\ Nodes(h) = {}
  BY <1>1, NoGraphWellFormed, SameNodes DEF Nodes
<1> QED
  BY <1>1, <1>2 DEF h

\* `install_nodes` of a validated plan into a graph without nodes.
LEMMA InstallNodesWellFormed ==
  ASSUME NEW g \in GraphState, NEW P \in SUBSET PlannerIds,
         NEW d \in [P -> SUBSET P], ValidPlan(P, d)
  PROVE  LET h == InstallNodes(g, P, d)
         IN  /\ WellFormed(h) /\ h.id = g.id /\ h.version = g.version
             /\ h.current = g.current /\ h.status = g.status
             /\ Nodes(h) = P \cup {Final}
<1> DEFINE st1 == [n \in Ids |-> IF n \in P \cup {Final} THEN "Waiting" ELSE "Absent"]
           deps1 == [n \in Ids |-> IF n \in P THEN d[n]
                                   ELSE IF n = Final THEN P ELSE {}]
           a == [g EXCEPT !.st = st1, !.deps = deps1]
           h == InstallNodes(g, P, d)
<1>1. h = RecomputeReady(a)
  BY DEF InstallNodes
<1>2. P \subseteq Ids /\ Final \notin P /\ Final \in Ids
  BY FinalFacts
<1>3. st1 \in [Ids -> NodeStatus]
  BY DEF NodeStatus
<1>4. deps1 \in [Ids -> SUBSET Ids]
  BY <1>2
<1>5. /\ a \in GraphState /\ a.st = st1 /\ a.deps = deps1 /\ a.id = g.id
      /\ a.version = g.version /\ a.current = g.current /\ a.status = g.status
  BY <1>3, <1>4 DEF GraphState
<1>6. \A n \in Ids : /\ a.st[n] = IF n \in P \cup {Final} THEN "Waiting" ELSE "Absent"
                     /\ a.deps[n] = IF n \in P THEN d[n]
                                    ELSE IF n = Final THEN P ELSE {}
  BY <1>5
<1> HIDE DEF a, h
<1>7. Nodes(a) = P \cup {Final}
  BY <1>2, <1>6 DEF Nodes
<1>8. DepsResolve(a) /\ FinalIsLast(a)
  BY <1>2, <1>6, <1>7 DEF DepsResolve, FinalIsLast
<1>9. InOrder(a)
  BY <1>6 DEF InOrder
<1>10. DeadBranchClosed(a)
  BY <1>6, <1>7, <1>8, <1>2 DEF DeadBranchClosed, Dead, DepsResolve
<1>11. WellFormed(a)
  BY <1>5, <1>8, <1>9, <1>10 DEF WellFormed
<1>12. WellFormed(h)
  BY <1>1, <1>11, RecomputeReadyWellFormed
<1>13. /\ h.id = a.id /\ h.status = a.status /\ h.version = a.version
       /\ h.current = a.current /\ Nodes(h) = Nodes(a)
  BY <1>1, <1>5, RecomputeReadyFacts
<1> QED
  BY <1>5, <1>7, <1>12, <1>13 DEF h

\* `append_replan_nodes` of a validated appendix.
LEMMA AppendReplanNodesWellFormed ==
  ASSUME NEW g, WellFormed(g), NEW A \in SUBSET ReplanIds,
         NEW d \in [A -> SUBSET Ids], ValidAppendix(g, A, d)
  PROVE  LET h == AppendReplanNodes(g, A, d)
         IN  /\ WellFormed(h) /\ h.id = g.id /\ Nodes(h) = Nodes(g) \cup A
             /\ h.version = g.version + 1
             /\ h.current = g.current /\ h.status = g.status
             /\ \A n \in Ids : g.st[n] \in Terminal \cup {"Running"} =>
                  h.st[n] = g.st[n]
<1> DEFINE st1 == [n \in Ids |->
                     IF n \in A THEN "Waiting"
                     ELSE IF n = Final /\ g.st[n] = "Ready" THEN "Waiting"
                     ELSE g.st[n]]
           deps1 == [n \in Ids |-> IF n \in A THEN d[n]
                                   ELSE IF n = Final THEN g.deps[n] \cup A
                                   ELSE g.deps[n]]
           v == g.version + 1
           r == g.runs + 1
           a == [g EXCEPT !.st = st1, !.deps = deps1, !.version = v, !.runs = r,
                          !.pending = "none"]
           h == AppendReplanNodes(g, A, d)
<1>1. h = RecomputeReady(a)
  BY DEF AppendReplanNodes
<1>2. /\ A \subseteq Ids /\ Final \notin A /\ Final \in Ids /\ A \cap Nodes(g) = {}
      /\ g \in GraphState
  BY FinalFacts DEF ValidAppendix, WellFormed
<1>3. v \in Nat /\ r \in Nat
  BY <1>2 DEF GraphState
<1>4. st1 \in [Ids -> NodeStatus]
  BY <1>2 DEF NodeStatus, GraphState
<1>5. deps1 \in [Ids -> SUBSET Ids]
  BY <1>2 DEF GraphState
<1> HIDE DEF v, r
<1>6. /\ a \in GraphState /\ a.st = st1 /\ a.deps = deps1 /\ a.id = g.id
      /\ a.version = v /\ a.current = g.current /\ a.status = g.status
  BY <1>2, <1>3, <1>4, <1>5 DEF GraphState
<1>7. \A n \in Ids :
        /\ a.st[n] = IF n \in A THEN "Waiting"
                     ELSE IF n = Final /\ g.st[n] = "Ready" THEN "Waiting"
                     ELSE g.st[n]
        /\ a.deps[n] = IF n \in A THEN d[n]
                       ELSE IF n = Final THEN g.deps[n] \cup A ELSE g.deps[n]
  BY <1>6
<1> HIDE DEF a, h
<1>8. Nodes(a) = Nodes(g) \cup A
  BY <1>2, <1>7 DEF Nodes
<1>9. \A x \in A : d[x] \subseteq A \cup {m \in Nodes(g) \ {Final} : g.st[m] \notin Dead}
  BY DEF ValidAppendix
<1>10. \A n \in Ids \ A : g.deps[n] \subseteq Nodes(g)
  BY DEF WellFormed, DepsResolve
<1>11. DepsResolve(a)
  BY <1>2, <1>7, <1>8, <1>9, <1>10 DEF DepsResolve
<1>12. FinalIsLast(a)
  BY <1>2, <1>7, <1>8, <1>9 DEF FinalIsLast, WellFormed
<1>13. InOrder(a)
  <2> SUFFICES ASSUME NEW n \in Ids \ {Final},
                      a.st[n] \in {"Ready", "Running", "Achieved"}
               PROVE  DepsAchieved(a, n)
    BY DEF InOrder
  <2>1. n \notin A /\ a.st[n] = g.st[n] /\ a.deps[n] = g.deps[n]
    BY <1>7
  <2>2. DepsAchieved(g, n)
    BY <2>1 DEF WellFormed, InOrder
  <2>3. \A m \in g.deps[n] : m \in Ids /\ m \notin A
    BY <2>1, <1>10, <1>2 DEF Nodes
  <2> QED
    BY <2>1, <2>2, <2>3, <1>7 DEF DepsAchieved
<1>14. DeadBranchClosed(a)
  <2> SUFFICES ASSUME NEW n \in Nodes(a), NEW m \in a.deps[n], a.st[m] \in Dead
               PROVE  a.st[n] \in Terminal
    BY DEF DeadBranchClosed
  <2>1. n \in Ids /\ m \in Ids
    BY <1>11 DEF Nodes, DepsResolve
  <2>2. m \notin A /\ g.st[m] \in Dead
    BY <2>1, <1>7 DEF Dead
  <2>3. n \notin A
    BY <2>1, <2>2, <1>7, <1>9
  <2>4. m \in g.deps[n] /\ n \in Nodes(g)
    BY <2>1, <2>2, <2>3, <1>7, <1>8
  <2>5. g.st[n] \in Terminal
    BY <2>2, <2>4 DEF WellFormed, DeadBranchClosed
  <2> QED
    BY <2>1, <2>3, <2>5, <1>7 DEF Terminal
<1>15. WellFormed(a)
  BY <1>6, <1>11, <1>12, <1>13, <1>14 DEF WellFormed
<1>16. WellFormed(h)
  BY <1>1, <1>15, RecomputeReadyWellFormed
<1>17. /\ h.id = a.id /\ h.status = a.status /\ h.version = a.version
       /\ h.current = a.current /\ Nodes(h) = Nodes(a)
       /\ \A n \in Ids : h.st[n] = IF a.st[n] = "Waiting" /\ DepsAchieved(a, n)
                                   THEN "Ready" ELSE a.st[n]
  BY <1>1, <1>6, RecomputeReadyFacts
<1>18. \A n \in Ids : g.st[n] \in Terminal \cup {"Running"} => h.st[n] = g.st[n]
  BY <1>2, <1>7, <1>17 DEF Terminal, Nodes
<1> QED
  BY <1>6, <1>8, <1>16, <1>17, <1>18 DEF h, v

-----------------------------------------------------------------------------
(* The optimizer's drafts.                                                 *)

\* A draft starts as a copy of the graph.
LEMMA DraftStarts ==
  ASSUME NEW g, WellFormed(g)
  PROVE  DraftOf(g, Draft(g))
<1>1. g \in GraphState
  BY DEF WellFormed
<1>2. Draft(g) \in Drafts /\ Draft(g).st = g.st /\ Draft(g).deps = g.deps
  BY <1>1 DEF Draft, Drafts, GraphState
<1>3. \A n \in Pending(g) : \A m \in g.deps[n] : g.st[m] \notin Dead
  BY DEF WellFormed, DeadBranchClosed, Pending, Nodes, Terminal
<1>4. \A n \in Ids : Final \notin g.deps[n]
  BY DEF WellFormed, FinalIsLast
<1> QED
  BY <1>2, <1>3, <1>4 DEF DraftOf, Pending, Nodes

\* `remove_dep`.
LEMMA RemoveDepDraft ==
  ASSUME NEW g, NEW x, DraftOf(g, x), NEW n \in Ids, NEW m
  PROVE  DraftOf(g, RemoveDep(x, n, m))
<1> DEFINE D == [x.deps EXCEPT ![n] = @ \ {m}]
           y == RemoveDep(x, n, m)
<1>1. x \in Drafts
  BY DEF DraftOf
<1>2. D \in [Ids -> SUBSET Ids] /\ \A k \in Ids : D[k] \subseteq x.deps[k]
  BY <1>1 DEF Drafts
<1>3. y = [x EXCEPT !.deps = D]
  BY <1>1 DEF RemoveDep, Drafts
<1>4. y \in Drafts /\ y.st = x.st /\ y.deps = D
  BY <1>1, <1>2, <1>3 DEF Drafts
<1> HIDE DEF y, D
<1>5. Nodes(y) = Nodes(x) /\ Pending(y) = Pending(x) /\ Pending(x) \subseteq Ids
  BY <1>4 DEF Nodes, Pending
<1> QED
  BY <1>2, <1>4, <1>5 DEF DraftOf, y

\* A dependency set whose members are live stays one when it is re-pointed
\* at live nodes.
LEMMA RepointSubset ==
  ASSUME NEW D, NEW n, NEW T
  PROVE  Repoint(D, n, T) \subseteq D \cup T
  BY DEF Repoint

\* `merge`.
LEMMA MergeDraft ==
  ASSUME NEW g, NEW x, DraftOf(g, x), NEW into \in Pending(x) \ {Final},
         NEW from \in Pending(x) \ {Final}, into # from
  PROVE  DraftOf(g, MergeNodes(x, into, from))
<1> DEFINE y == MergeNodes(x, into, from)
           D(n) == IF n = into THEN x.deps[into] \cup x.deps[from] ELSE x.deps[n]
<1>1. /\ x \in Drafts /\ into \in Ids /\ from \in Ids
      /\ x.st \in [Ids -> NodeStatus] /\ x.deps \in [Ids -> SUBSET Ids]
  BY DEF DraftOf, Drafts, Pending
<1>2. \A n \in Ids : D(n) \subseteq Ids
  BY <1>1
<1>3. \A n \in Ids : y.st[n] = IF n = from THEN "Absent" ELSE x.st[n]
  BY <1>1 DEF MergeNodes
<1>4. \A n \in Ids : y.deps[n] = IF n = from THEN {}
                                 ELSE Repoint(D(n), from, {into}) \ {n}
  BY DEF MergeNodes
<1>5. \A n \in Ids : y.deps[n] \subseteq D(n) \cup {into}
  <2> HIDE DEF y, D
  <2>1. \A n \in Ids : Repoint(D(n), from, {into}) \subseteq D(n) \cup {into}
    BY RepointSubset
  <2> QED
    BY <2>1, <1>4
<1>6. y \in Drafts
  <2>1. y.st \in [Ids -> NodeStatus]
    BY <1>1 DEF MergeNodes, NodeStatus
  <2>2. y.deps \in [Ids -> SUBSET Ids]
    <3>1. \A n \in Ids : y.deps[n] \in SUBSET Ids
      BY <1>1, <1>2, <1>5
    <3>2. y.deps = [n \in Ids |-> y.deps[n]]
      BY DEF MergeNodes
    <3> QED
      BY <3>1, <3>2
  <2>3. y = [st |-> y.st, deps |-> y.deps]
    BY DEF MergeNodes
  <2> QED
    BY <2>1, <2>2, <2>3 DEF Drafts
<1> HIDE DEF y
<1>7. x.st[into] \in {"Waiting", "Ready"} /\ x.st[from] \in {"Waiting", "Ready"}
  BY DEF Pending
<1>8. y.st[Final] = x.st[Final]
  BY <1>3, FinalFacts
<1>9. Nodes(y) # {}
  BY <1>1, <1>3, <1>7 DEF Nodes
<1>10. \A n \in Nodes(y) \ Pending(y) : n \in Nodes(x) \ Pending(x) /\ y.st[n] = x.st[n]
  BY <1>3 DEF Nodes, Pending
<1>11. \A n \in Pending(y) : n \in Pending(x)
  BY <1>3 DEF Pending
<1>12. \A n \in Pending(x) : \A m \in D(n) : x.st[m] \notin Dead
  BY DEF DraftOf
<1>13. ASSUME NEW n \in Pending(y), NEW m \in y.deps[n] PROVE y.st[m] \notin Dead
  <2>1. n \in Ids /\ n \in Pending(x)
    BY <1>11 DEF Pending
  <2>2. m \in D(n) \cup {into} /\ m \in Ids
    BY <2>1, <1>1, <1>2, <1>5
  <2>3. x.st[m] \notin Dead
    BY <2>1, <2>2, <1>7, <1>12 DEF Dead
  <2> QED
    BY <2>2, <2>3, <1>3 DEF Dead
<1>14. ASSUME NEW n \in Ids \ Nodes(y) PROVE Final \notin y.deps[n]
  <2>1. n = from \/ (n \notin Nodes(x) /\ n # into)
    BY <1>3, <1>7 DEF Nodes
  <2> QED
    BY <2>1, <1>4, <1>5 DEF DraftOf
<1> QED
  BY <1>6, <1>8, <1>9, <1>10, <1>13, <1>14 DEF DraftOf, y

\* `split`.
LEMMA SplitDraft ==
  ASSUME NEW g, NEW x, DraftOf(g, x), NEW n \in Pending(x) \ {Final},
         NEW A \in Replacements(x), NEW d \in [A -> SUBSET SplitDeps(x, n, A)]
  PROVE  DraftOf(g, SplitNode(x, n, A, d))
<1> DEFINE y == SplitNode(x, n, A, d)
           D(m) == IF m \in A THEN x.deps[n] \cup d[m] ELSE x.deps[m]
<1>1. /\ x \in Drafts /\ n \in Ids
      /\ x.st \in [Ids -> NodeStatus] /\ x.deps \in [Ids -> SUBSET Ids]
  BY DEF DraftOf, Drafts, Pending
<1>2. A \subseteq ReplanIds /\ Cardinality(A) \in 2..3 /\ \A a \in A : \A m \in Nodes(x) : m < a
  BY DEF Replacements, StoredLast
<1>3. A \subseteq Ids /\ Final \notin A
  BY <1>2, FinalFacts
<1>4. A # {}
  BY <1>2, FS_EmptySet
<1>5. n \notin A
  BY <1>1, <1>2, <1>3, IdsAssumption DEF Nodes, Pending
<1>6. \A m \in Ids : y.st[m] = IF m \in A THEN "Waiting"
                               ELSE IF m = n THEN "Absent" ELSE x.st[m]
  BY DEF SplitNode
<1>7. \A m \in Ids : y.deps[m] = IF m \in A \/ m # n THEN Repoint(D(m), n, A) ELSE {}
  BY DEF SplitNode
<1>8. \A m \in Ids : y.deps[m] \subseteq D(m) \cup A
  <2> HIDE DEF y, D
  <2>1. \A m \in Ids : Repoint(D(m), n, A) \subseteq D(m) \cup A
    BY RepointSubset
  <2> QED
    BY <2>1, <1>7
<1>9. \A a \in A : d[a] \subseteq A \cup {m \in Nodes(x) : x.st[m] \notin Dead}
  BY DEF SplitDeps
<1>10. \A m \in Ids : D(m) \subseteq Ids
  BY <1>1, <1>3, <1>9 DEF Nodes
<1>11. y \in Drafts
  <2>1. y.st \in [Ids -> NodeStatus]
    BY <1>1 DEF SplitNode, NodeStatus
  <2>2. y.deps \in [Ids -> SUBSET Ids]
    <3>1. \A m \in Ids : y.deps[m] \in SUBSET Ids
      BY <1>3, <1>8, <1>10
    <3>2. y.deps = [m \in Ids |-> y.deps[m]]
      BY DEF SplitNode
    <3> QED
      BY <3>1, <3>2
  <2>3. y = [st |-> y.st, deps |-> y.deps]
    BY DEF SplitNode
  <2> QED
    BY <2>1, <2>2, <2>3 DEF Drafts
<1> HIDE DEF y
<1>12. y.st[Final] = x.st[Final]
  BY <1>3, <1>6, FinalFacts
<1>13. Nodes(y) # {}
  BY <1>3, <1>4, <1>6 DEF Nodes
<1>14. \A m \in Nodes(y) \ Pending(y) : m \in Nodes(x) \ Pending(x) /\ y.st[m] = x.st[m]
  BY <1>6 DEF Nodes, Pending
<1>15. \A m \in Pending(y) : m \in A \/ m \in Pending(x)
  BY <1>6 DEF Pending
<1>16. ASSUME NEW k \in Pending(y), NEW m \in y.deps[k] PROVE y.st[m] \notin Dead
  <2>1. k \in Ids /\ (k \in A \/ k \in Pending(x))
    BY <1>15 DEF Pending
  <2>2. m \in D(k) \cup A /\ m \in Ids
    BY <2>1, <1>3, <1>8, <1>10
  <2>3. m \in A \/ x.st[m] \notin Dead
    BY <2>1, <2>2, <1>9 DEF DraftOf
  <2> QED
    BY <2>2, <2>3, <1>6 DEF Dead
<1>17. ASSUME NEW m \in Ids \ Nodes(y) PROVE Final \notin y.deps[m]
  <2>1. m \notin A /\ (m = n \/ m \notin Nodes(x))
    BY <1>6 DEF Nodes
  <2> QED
    BY <2>1, <1>3, <1>7, <1>8 DEF DraftOf
<1> QED
  BY <1>11, <1>12, <1>13, <1>14, <1>16, <1>17 DEF DraftOf, y

\* `reorder`.
LEMMA SwapDraft ==
  ASSUME NEW g, NEW x, DraftOf(g, x), NEW a \in Pending(x) \ {Final},
         NEW b \in Pending(x) \ {Final}
  PROVE  DraftOf(g, SwapNodes(x, a, b))
<1> DEFINE y == SwapNodes(x, a, b)
           other(n) == IF n = a THEN b ELSE IF n = b THEN a ELSE n
<1>1. /\ x \in Drafts /\ a \in Ids /\ b \in Ids
      /\ x.st \in [Ids -> NodeStatus] /\ x.deps \in [Ids -> SUBSET Ids]
      /\ x.st[a] \in {"Waiting", "Ready"} /\ x.st[b] \in {"Waiting", "Ready"}
  BY DEF DraftOf, Drafts, Pending
<1>2. \A n \in Ids : other(n) \in Ids
  BY <1>1
<1>3. \A n \in Ids : y.st[n] = x.st[other(n)]
  BY DEF SwapNodes
<1>4. \A n \in Ids : y.deps[n] = {m \in Ids : other(m) \in x.deps[other(n)]}
  BY DEF SwapNodes
<1>5. y \in Drafts
  <2>1. y.st \in [Ids -> NodeStatus]
    BY <1>1 DEF SwapNodes
  <2>2. y.deps \in [Ids -> SUBSET Ids]
    BY DEF SwapNodes
  <2>3. y = [st |-> y.st, deps |-> y.deps]
    BY DEF SwapNodes
  <2> QED
    BY <2>1, <2>2, <2>3 DEF Drafts
<1> HIDE DEF y
<1>6. y.st[Final] = x.st[Final]
  BY <1>3, FinalFacts
<1>7. Nodes(y) # {}
  BY <1>1, <1>3 DEF Nodes
<1>8. \A n \in Nodes(y) \ Pending(y) : n \in Nodes(x) \ Pending(x) /\ y.st[n] = x.st[n]
  BY <1>1, <1>3 DEF Nodes, Pending
<1>9. ASSUME NEW n \in Pending(y), NEW m \in y.deps[n] PROVE y.st[m] \notin Dead
  <2>1. n \in Ids /\ other(n) \in Pending(x)
    BY <1>2, <1>3 DEF Pending
  <2>2. m \in Ids /\ other(m) \in x.deps[other(n)]
    BY <2>1, <1>4
  <2> QED
    BY <2>1, <2>2, <1>3 DEF DraftOf
<1>10. ASSUME NEW n \in Ids \ Nodes(y) PROVE Final \notin y.deps[n]
  <2>1. n # a /\ n # b /\ n \notin Nodes(x)
    BY <1>1, <1>3 DEF Nodes
  <2> QED
    BY <2>1, <1>4, FinalFacts DEF DraftOf
<1> QED
  BY <1>5, <1>6, <1>7, <1>8, <1>9, <1>10 DEF DraftOf, y

\* `install_optimized_nodes` of a draft that passed the final checks: the
\* terminal gate is rebuilt, and pending statuses are derived afresh.
LEMMA InstallOptimizedNodesWellFormed ==
  ASSUME NEW g, WellFormed(g), NEW x, DraftOf(g, x), ValidOptimization(g, x)
  PROVE  LET h == InstallOptimizedNodes(g, x)
         IN  /\ WellFormed(h) /\ h.id = g.id
             /\ Nodes(g) # {} => Nodes(h) # {}
             /\ h.version = g.version + 1
             /\ h.current = g.current /\ h.status = g.status
             /\ \A n \in Ids : g.st[n] \in Terminal \cup {"Running"} =>
                  h.st[n] = g.st[n]
<1> DEFINE st1 == [n \in Ids |-> IF n \in Pending(x) THEN "Waiting" ELSE x.st[n]]
           y == WithGate(x)
           v == g.version + 1
           r == g.runs + 1
           a == [g EXCEPT !.deps = y.deps, !.st = st1, !.version = v, !.runs = r]
           h == InstallOptimizedNodes(g, x)
<1>1. h = RecomputeReady(a)
  BY DEF InstallOptimizedNodes
<1>2. g \in GraphState /\ Final \in Ids /\ v \in Nat /\ r \in Nat
  BY FinalFacts DEF WellFormed, GraphState
<1>3. x \in Drafts /\ x.st \in [Ids -> NodeStatus] /\ x.deps \in [Ids -> SUBSET Ids]
  BY DEF DraftOf, Drafts
<1>4. st1 \in [Ids -> NodeStatus]
  BY <1>3 DEF NodeStatus
<1>5. y.deps = [x.deps EXCEPT ![Final] = Nodes(x) \ {Final}] /\ y.st = x.st
  BY <1>3 DEF WithGate, Drafts
<1>6. y.deps \in [Ids -> SUBSET Ids]
  BY <1>3, <1>5 DEF Nodes
<1>7. \A n \in Ids : y.deps[n] = IF n = Final THEN Nodes(x) \ {Final} ELSE x.deps[n]
  BY <1>3, <1>5
<1>8. Nodes(y) = Nodes(x)
  BY <1>5 DEF Nodes
<1> HIDE DEF v, r, y
<1>9. /\ a \in GraphState /\ a.st = st1 /\ a.deps = y.deps /\ a.id = g.id
      /\ a.version = v /\ a.current = g.current /\ a.status = g.status
  BY <1>2, <1>4, <1>6 DEF GraphState
<1>10. \A n \in Ids : a.st[n] = IF x.st[n] \in {"Waiting", "Ready"}
                                THEN "Waiting" ELSE x.st[n]
  BY <1>9 DEF Pending
<1>11. \A n \in Ids : a.deps[n] = IF n = Final THEN Nodes(x) \ {Final} ELSE x.deps[n]
  BY <1>7, <1>9
<1> HIDE DEF a, h, st1
<1>12. Nodes(a) = Nodes(x)
  BY <1>10 DEF Nodes
<1>13. \A n \in Nodes(x) \ Pending(x) : x.st[n] = g.st[n]
  BY DEF DraftOf
<1>14. \A n \in Nodes(g) \ (Pending(g) \cup {Final}) :
         x.st[n] = g.st[n] /\ x.deps[n] = g.deps[n]
  BY DEF ValidOptimization
<1>15. DepsResolve(a)
  BY <1>8, <1>9, <1>12 DEF ValidOptimization, DepsResolve, y
<1>16. FinalIsLast(a)
  <2>1. a.deps[Final] = Nodes(a) \ {Final}
    BY <1>2, <1>11, <1>12
  <2>2. ASSUME NEW n \in Ids, Final \in a.deps[n] PROVE FALSE
    <3>1. n # Final
      BY <2>1, <2>2
    <3>2. Final \in Nodes(x)
      BY <2>2, <1>12, <1>15 DEF DepsResolve
    <3>3. CASE n \in Nodes(x)
      <4> DEFINE C == {n, Final}
      <4>1. C \subseteq Nodes(y) /\ C # {}
        BY <3>2, <3>3, <1>8
      <4>2. n \in y.deps[Final] /\ Final \in y.deps[n]
        BY <2>2, <3>1, <3>3, <1>2, <1>7, <1>9
      <4>3. \A k \in C : y.deps[k] \cap C # {}
        BY <4>2
      <4> HIDE DEF C
      <4> QED
        BY <4>1, <4>3 DEF ValidOptimization, Acyclic, y
    <3>4. CASE n \notin Nodes(x)
      BY <3>4, <2>2, <3>1, <1>2, <1>11 DEF DraftOf
    <3> QED
      BY <3>3, <3>4
  <2> QED
    BY <2>1, <2>2 DEF FinalIsLast
<1>17. InOrder(a)
  <2> SUFFICES ASSUME NEW n \in Ids \ {Final},
                      a.st[n] \in {"Ready", "Running", "Achieved"}
               PROVE  DepsAchieved(a, n)
    BY DEF InOrder
  <2>1. x.st[n] \in {"Running", "Achieved"} /\ a.st[n] = x.st[n]
    BY <1>10
  <2>2. n \in Nodes(x) \ Pending(x)
    BY <2>1 DEF Nodes, Pending
  <2>3. g.st[n] \in {"Running", "Achieved"}
    BY <2>1, <2>2, <1>13
  <2>4. DepsAchieved(g, n) /\ a.deps[n] = g.deps[n]
    BY <2>3, <1>11, <1>14 DEF WellFormed, InOrder, Nodes, Pending
  <2>5. \A m \in g.deps[n] : m \in Ids /\ m # Final /\ g.st[m] = "Achieved"
    BY <2>4, <1>2 DEF DepsAchieved, GraphState, WellFormed, FinalIsLast
  <2>6. \A m \in g.deps[n] : a.st[m] = "Achieved"
    BY <2>5, <1>10, <1>14 DEF Nodes, Pending
  <2> QED
    BY <2>4, <2>6 DEF DepsAchieved
<1>18. DeadBranchClosed(a)
  <2> SUFFICES ASSUME NEW n \in Nodes(a), NEW m \in a.deps[n], a.st[m] \in Dead
               PROVE  a.st[n] \in Terminal
    BY DEF DeadBranchClosed
  <2>1. n \in Ids /\ m \in Ids /\ n \in Nodes(x)
    BY <1>12, <1>15 DEF Nodes, DepsResolve
  <2>2. x.st[m] \in Dead /\ m \in Nodes(x) \ Pending(x)
    BY <2>1, <1>10 DEF Dead, Nodes, Pending
  <2>3. g.st[m] \in Dead
    BY <2>2, <1>13
  <2>4. CASE n = Final
    <3>1. g.deps[Final] = Nodes(g) \ {Final} /\ m # Final
      BY <2>1, <2>4, <1>11 DEF WellFormed, FinalIsLast
    <3>2. m \in g.deps[Final]
      BY <2>1, <2>3, <3>1 DEF Nodes, Dead
    <3>3. g.st[Final] = x.st[Final]
      BY DEF DraftOf
    <3>4. g.st[Final] \in Terminal
      BY <2>1, <2>3, <2>4, <3>2, <3>3 DEF WellFormed, DeadBranchClosed, Nodes
    <3> QED
      BY <2>4, <3>3, <3>4, <1>2, <1>10 DEF Terminal
  <2>5. CASE n # Final /\ n \in Pending(x)
    BY <2>1, <2>2, <2>5, <1>11 DEF DraftOf
  <2>6. CASE n # Final /\ n \notin Pending(x)
    <3>1. x.st[n] = g.st[n] /\ a.st[n] = x.st[n]
      BY <2>1, <2>6, <1>10, <1>13 DEF Pending
    <3>2. n \in Nodes(g) \ (Pending(g) \cup {Final})
      BY <2>1, <2>6, <3>1 DEF Nodes, Pending
    <3>3. m \in g.deps[n]
      BY <2>1, <2>6, <3>2, <1>11, <1>14
    <3> QED
      BY <2>3, <3>1, <3>2, <3>3 DEF WellFormed, DeadBranchClosed
  <2> QED
    BY <2>4, <2>5, <2>6
<1>19. WellFormed(a)
  BY <1>9, <1>15, <1>16, <1>17, <1>18 DEF WellFormed
<1>20. WellFormed(h)
  BY <1>1, <1>19, RecomputeReadyWellFormed
<1>21. /\ h.id = a.id /\ h.status = a.status /\ h.version = a.version
       /\ h.current = a.current /\ Nodes(h) = Nodes(a)
       /\ \A n \in Ids : h.st[n] = IF a.st[n] = "Waiting" /\ DepsAchieved(a, n)
                                   THEN "Ready" ELSE a.st[n]
  BY <1>1, <1>9, RecomputeReadyFacts
<1>22. ASSUME NEW n \in Ids, g.st[n] \in Terminal \cup {"Running"}
       PROVE  h.st[n] = g.st[n]
  <2>1. x.st[n] = g.st[n]
    BY <1>14, <1>22 DEF DraftOf, Terminal, Nodes, Pending
  <2> QED
    BY <2>1, <1>10, <1>21, <1>22 DEF Terminal
<1>23. Nodes(g) # {} => Nodes(h) # {}
  BY <1>12, <1>21 DEF DraftOf
<1> QED
  BY <1>9, <1>20, <1>21, <1>22, <1>23 DEF h, v
=============================================================================
