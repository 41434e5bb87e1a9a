------------------------- MODULE GraphDriverProofs -------------------------
(***************************************************************************)
(* The turn that drives a graph: settled nodes stay settled, a wedge has a *)
(* failed cause, the ledger never exceeds what was burnt, the goal engine  *)
(* serves the current node, and the terminal node runs last.  All rest on  *)
(* one fact: a step either follows the graph's transitions on its nodes,   *)
(* or is one of the few that replace them.                                 *)
(***************************************************************************)
EXTENDS GraphModeProofs, FiniteSetTheorems, WellFoundedInduction

\* No node waits for nothing: `recompute_ready` has been run.
ReadyClosed(g) == \A n \in Ids : g.st[n] = "Waiting" => ~DepsAchieved(g, n)

\* The terminal node is in play, or done, only after all the others.
Gate(g) ==
  g.st[Final] \in {"Ready", "Running", "Achieved"} =>
    \A n \in Nodes(g) \ {Final} : g.st[n] = "Achieved"

TerminalKept(g, h) ==
  \A n \in Ids \ {Final} : g.st[n] \in Terminal => h.st[n] = g.st[n]

\* h is g after transitions that neither add, remove nor rewire nodes.
Follows(g, h) ==
  /\ h.id = g.id /\ h.deps = g.deps /\ Nodes(h) = Nodes(g)
  /\ h.status = "None" => g.status = "None"
  /\ TerminalKept(g, h)
  /\ ReadyClosed(g) => ReadyClosed(h)

KeepsGate(g, h) == Gate(g) => Gate(h)

-----------------------------------------------------------------------------
(* The invariants, each on top of IndInv.                                  *)

\* Graph ids are drawn in order: a new graph's id is no older graph's.
IdInv == graph.id <= taken["graph"] /\ saved.id <= taken["graph"]

\* Readiness is up to date, and no nodes wait for each other, in either copy.
Sound(g) == ReadyClosed(g) /\ Acyclic(g)
SoundInv == Sound(graph) /\ Sound(saved)

Live(o) == o.status \in {"Active", "Paused"}

\* A graph that is neither active nor paused has no node on the engine.
Retired(g) == g.status \notin {"Active", "Paused"} => g.current = NoNode

\* Where the turn drives the graph: the engine is free, or its goal is done.
EnginePc == DriverPc \cup PlannerPc \cup {"setup_goal"}
DrivenPc == EnginePc \cup {"archive"}

\* Whose goal the engine holds while a node is on it, and where the turn
\* relies on an Active graph.
OwnerInv ==
  /\ Retired(graph) /\ Retired(saved)
  /\ graph.current # NoNode /\ Live(goal) => goal.owner = graph.current
  /\ pc \in BatchPc => graph.current = NoNode
  /\ pc \in DrivenPc => graph.status = "Active"

\* What is booked and what may still be booked was burnt before.
LedgerInv ==
  /\ burnt >= 0 /\ goal.used >= 0
  /\ graph.spent <= burnt /\ saved.spent <= burnt
  /\ graph.current # NoNode => graph.spent + goal.used <= burnt
  /\ pc \in {"settle", "merge"} => graph.spent + Cost * Cardinality(batch) <= burnt

\* While a graph has the engine, its goal is the current node's.
EngineInv ==
  /\ EngineRunsCurrentNode
  /\ pc \in EnginePc => ~Live(goal)
  /\ pc = "setup_goal" => graph.current # NoNode
  /\ pc = "archive" => goal.status = "Complete"
  /\ graph.status = "Paused" => goal.status # "Active"
  /\ pc = "idle" /\ graph.status = "Active" => goal.status = "Active"

\* /graph resume --budget while the engine holds a live goal of the user's:
\* `resume_budget_limited` does not ask the engine.
ContestedTopUp == Live(goal) /\ \E extra \in TopUps : GraphTopUp(extra)

\* Where the plan may still grow.
BoundaryPc == {"replan", "freeze_replan", "optimize", "rewrite", "freeze_optimized"}

GateInv ==
  /\ Gate(graph) /\ Gate(saved)
  /\ saved.status = "None" => Nodes(saved) = {}
  /\ graph.status = "None" => Nodes(graph) = {}
  /\ Final \notin batch
  /\ graph.st[Final] = "Running" /\ graph.pending = "queued" => pc = "archive"
  /\ pc \in BoundaryPc => graph.st[Final] \notin {"Running", "Achieved"}

\* A cancel or a send-now between the terminal node's verdict and its booking.
LateCancel == (Cancel \/ SendNow) /\ pc = "archive" /\ graph.current = Final

-----------------------------------------------------------------------------
(* The tracker's transitions.                                              *)

\* One transition after the other.
LEMMA FollowsTrans ==
  ASSUME NEW g, NEW h, NEW k, Follows(g, h), Follows(h, k)
  PROVE  Follows(g, k)
<1>1. TerminalKept(g, k)
  BY DEF Follows, TerminalKept
<1> QED
  BY <1>1 DEF Follows

\* Ready nodes that start, and running nodes that are put back.
LEMMA FollowsReshuffle ==
  ASSUME NEW g \in GraphState, NEW h \in GraphState, h.id = g.id, h.deps = g.deps,
         h.status = "None" => g.status = "None",
         \A n \in Ids : \/ h.st[n] = g.st[n]
                        \/ {g.st[n], h.st[n]} \subseteq {"Ready", "Running"}
  PROVE  Follows(g, h) /\ KeepsGate(g, h)
<1>0. Final \in Ids
  BY FinalFacts
<1>1. Nodes(h) = Nodes(g)
  BY DEF Nodes
<1>2. TerminalKept(g, h)
  BY DEF TerminalKept, Terminal
<1>3. \A n \in Ids : DepsAchieved(g, n) <=> DepsAchieved(h, n)
  BY DEF DepsAchieved, GraphState
<1>4. ReadyClosed(g) => ReadyClosed(h)
  BY <1>3 DEF ReadyClosed
<1>5. KeepsGate(g, h)
  BY <1>0, <1>1 DEF KeepsGate, Gate, Nodes
<1> QED
  BY <1>1, <1>2, <1>4, <1>5 DEF Follows

\* `recompute_ready` follows, and leaves no node waiting for nothing.
LEMMA FollowsRecompute ==
  ASSUME NEW g, WellFormed(g)
  PROVE  /\ Follows(g, RecomputeReady(g)) /\ KeepsGate(g, RecomputeReady(g))
         /\ ReadyClosed(RecomputeReady(g))
<1> DEFINE h == RecomputeReady(g)
<1>0. g \in GraphState /\ Final \in Ids
  BY FinalFacts DEF WellFormed
<1>1. /\ h \in GraphState /\ h.id = g.id /\ h.status = g.status /\ h.deps = g.deps
      /\ \A n \in Ids : h.st[n] = IF g.st[n] = "Waiting" /\ DepsAchieved(g, n)
                                  THEN "Ready" ELSE g.st[n]
      /\ Nodes(h) = Nodes(g)
  BY <1>0, RecomputeReadyFacts
<1> HIDE DEF h
<1>2. \A n \in Ids : DepsAchieved(g, n) <=> DepsAchieved(h, n)
  BY <1>0, <1>1 DEF DepsAchieved, GraphState
<1>3. ReadyClosed(h)
  BY <1>1, <1>2 DEF ReadyClosed
<1>4. TerminalKept(g, h)
  BY <1>1 DEF TerminalKept, Terminal
<1>5. DepsAchieved(g, Final) => \A n \in Nodes(g) \ {Final} : g.st[n] = "Achieved"
  BY DEF DepsAchieved, WellFormed, FinalIsLast
<1>6. KeepsGate(g, h)
  BY <1>0, <1>1, <1>5 DEF KeepsGate, Gate, Nodes
<1> QED
  BY <1>1, <1>3, <1>4, <1>6 DEF Follows, h

\* A node that fails, with all that depends on it.
LEMMA FollowsFailed ==
  ASSUME NEW g, WellFormed(g), NEW f \in Nodes(g), g.st[f] = "Running" \/ f = Final
  PROVE  Follows(g, MarkNodeFailed(g, f)) /\ KeepsGate(g, MarkNodeFailed(g, f))
<1> DEFINE h == MarkNodeFailed(g, f)
           g1 == [g EXCEPT !.st[f] = "Failed", !.current = NoNode]
<1>0. g \in GraphState /\ f \in Ids /\ Final \in Ids
  BY FinalFacts DEF WellFormed, Nodes
<1>1. /\ h \in GraphState /\ h.deps = g.deps /\ h.id = g.id /\ h.status = g.status
      /\ \A n \in Ids : g1.st[n] = IF n = f THEN "Failed" ELSE g.st[n]
      /\ \A n \in Ids : h.st[n] =
           IF n \in DeadBranch(g1, f) \ {f} THEN "Blocked" ELSE g1.st[n]
  BY <1>0, MarkNodeFailedFacts
<1>2. /\ \A n \in Ids \ {f} : g.st[n] \in Terminal \cup {"Absent"} => h.st[n] = g.st[n]
      /\ \A n \in Ids : g.st[n] # "Absent" => h.st[n] # "Absent"
  BY MarkNodeFailedWellFormed
<1> HIDE DEF h, g1
<1>3. \A n \in Ids : h.st[n] \in {"Failed", "Blocked", g.st[n]}
  BY <1>1
<1>3a. h.st[f] = "Failed"
  BY <1>0, <1>1
<1>4. Nodes(h) = Nodes(g)
  BY <1>0, <1>2, <1>3a DEF Nodes
<1>5. TerminalKept(g, h)
  BY <1>2 DEF TerminalKept, Terminal
<1>6. \A n \in Ids : DepsAchieved(h, n) => DepsAchieved(g, n)
  BY <1>0, <1>1, <1>3 DEF DepsAchieved, GraphState
<1>7. ReadyClosed(g) => ReadyClosed(h)
  BY <1>3, <1>6 DEF ReadyClosed
<1>8. KeepsGate(g, h)
  BY <1>0, <1>3, <1>3a DEF KeepsGate, Gate
<1> QED
  BY <1>1, <1>4, <1>5, <1>7, <1>8 DEF Follows, h

\* A node that is achieved; the terminal one keeps the gate when it ran.
LEMMA FollowsAchieved ==
  ASSUME NEW g, WellFormed(g), NEW f \in Nodes(g), NEW tokens \in Int,
         g.st[f] = "Running" \/ f = Final
  PROVE  LET h == MarkNodeAchieved(g, f, tokens)
         IN  /\ Follows(g, h) /\ ReadyClosed(h)
             /\ g.st[f] = "Running" => KeepsGate(g, h)
<1> DEFINE sum == g.spent + tokens
           g1 == [g EXCEPT !.st[f] = "Achieved", !.spent = sum,
                           !.current = NoNode]
           h  == MarkNodeAchieved(g, f, tokens)
<1>0. g \in GraphState /\ f \in Ids /\ Final \in Ids /\ sum \in Int
  BY FinalFacts DEF WellFormed, Nodes, GraphState
<1>1. h = RecomputeReady(g1)
  BY DEF MarkNodeAchieved
<1> HIDE DEF sum
<1>2. /\ g1 \in GraphState /\ g1.deps = g.deps /\ g1.id = g.id /\ g1.status = g.status
      /\ \A n \in Ids : g1.st[n] = IF n = f THEN "Achieved" ELSE g.st[n]
  BY <1>0 DEF GraphState, NodeStatus, Terminal
<1> HIDE DEF g1, h
<1>3. WellFormed(g1) /\ Nodes(g1) = Nodes(g)
  BY <1>2, AchieveWellFormed
<1>4. /\ Follows(g1, h) /\ KeepsGate(g1, h) /\ ReadyClosed(h)
  BY <1>1, <1>3, FollowsRecompute
<1>5. TerminalKept(g, g1)
  BY <1>2 DEF TerminalKept, Terminal
<1>6. TerminalKept(g, h) /\ h.id = g.id /\ h.deps = g.deps /\ Nodes(h) = Nodes(g)
      /\ (h.status = "None" => g.status = "None")
  BY <1>2, <1>3, <1>4, <1>5 DEF TerminalKept, Follows
<1>7. g.st[f] = "Running" => KeepsGate(g, g1)
  <2> SUFFICES ASSUME g.st[f] = "Running", Gate(g),
                      g1.st[Final] \in {"Ready", "Running", "Achieved"},
                      NEW n \in Nodes(g1) \ {Final}
               PROVE  g1.st[n] = "Achieved"
    BY DEF KeepsGate, Gate
  <2>1. n \in Nodes(g) /\ n \in Ids
    BY <1>3 DEF Nodes
  <2>2. g.st[Final] \in {"Ready", "Running", "Achieved"}
    BY <1>0, <1>2
  <2> QED
    BY <1>2, <2>1, <2>2 DEF Gate
<1> QED
  BY <1>4, <1>6, <1>7 DEF Follows, KeepsGate, h

-----------------------------------------------------------------------------
(* What the graph-level transitions make of the status, the current node,  *)
(* the ledger and the pending discoveries.                                 *)

\* h is a well-formed successor of g that books `spent` and has `pending`.
Moves(g, h, spent, pending) ==
  /\ WellFormed(h) /\ Follows(g, h) /\ KeepsGate(g, h)
  /\ h.spent = spent /\ h.pending = pending

\* The terminal node neither starts nor passes from g to h.
FinalRests(g, h) ==
  \A s \in {"Running", "Achieved"} : h.st[Final] = s => g.st[Final] = s

\* The status alone changes.
LEMMA StatusMoves ==
  ASSUME NEW g, WellFormed(g), NEW s \in GraphStatus, s # "None"
  PROVE  LET h == [g EXCEPT !.status = s]
         IN  /\ Moves(g, h, g.spent, g.pending) /\ h.st = g.st
             /\ h.current = g.current /\ h.status = s
<1> DEFINE h == [g EXCEPT !.status = s]
<1>1. g \in GraphState
  BY DEF WellFormed
<1>2. /\ h \in GraphState /\ h.id = g.id /\ h.deps = g.deps /\ h.st = g.st
      /\ h.current = g.current /\ h.spent = g.spent /\ h.pending = g.pending
      /\ h.status = s
  BY <1>1 DEF GraphState
<1> HIDE DEF h
<1>3. WellFormed(h)
  BY <1>2, SameNodes
<1>4. Follows(g, h) /\ KeepsGate(g, h)
  BY <1>1, <1>2, FollowsReshuffle
<1> QED
  BY <1>2, <1>3, <1>4 DEF Moves, h

\* Nothing changes.
LEMMA StutterMoves ==
  ASSUME NEW g, WellFormed(g)
  PROVE  Moves(g, g, g.spent, g.pending) /\ FinalRests(g, g)
<1>1. g \in GraphState
  BY DEF WellFormed
<1>2. Follows(g, g) /\ KeepsGate(g, g)
  BY <1>1, FollowsReshuffle
<1> QED
  BY <1>2 DEF Moves, FinalRests

\* `pause`.
LEMMA PauseMoves ==
  ASSUME NEW g, WellFormed(g)
  PROVE  LET h == Pause(g)
         IN  /\ Moves(g, h, g.spent, g.pending) /\ h.st = g.st
             /\ h.current = g.current
             /\ h.status = IF g.status = "Active" THEN "Paused" ELSE g.status
<1>1. CASE g.status = "Active"
  BY <1>1, StatusMoves DEF Pause, GraphStatus
<1>2. CASE g.status # "Active"
  BY <1>2, StutterMoves DEF Pause
<1> QED
  BY <1>1, <1>2

\* `complete`.
LEMMA CompleteMoves ==
  ASSUME NEW g, WellFormed(g)
  PROVE  LET h == Complete(g)
         IN  /\ Moves(g, h, g.spent, g.pending) /\ h.st = g.st
             /\ h.current = g.current /\ h.status = "Complete"
  BY StatusMoves DEF Complete, GraphStatus

\* Charging tokens, to the graph or to its current node.
LEMMA ChargeMoves ==
  ASSUME NEW g, WellFormed(g), NEW t \in Int
  PROVE  LET h == ChargeNodeTokens(g, t)
         IN  /\ Moves(g, h, g.spent + t, g.pending) /\ h.st = g.st
             /\ h.current = g.current /\ h.status = g.status
<1> DEFINE sum == g.spent + t
           h == [g EXCEPT !.spent = sum]
<1>1. ChargeNodeTokens(g, t) = h
  BY DEF ChargeNodeTokens
<1>2. g \in GraphState /\ sum \in Int
  BY DEF WellFormed, GraphState
<1> HIDE DEF sum
<1>3. /\ h \in GraphState /\ h.id = g.id /\ h.deps = g.deps /\ h.st = g.st
      /\ h.current = g.current /\ h.spent = sum /\ h.pending = g.pending
      /\ h.status = g.status
  BY <1>2 DEF GraphState
<1> HIDE DEF h
<1>4. WellFormed(h)
  BY <1>3, SameNodes
<1>5. Follows(g, h) /\ KeepsGate(g, h)
  BY <1>2, <1>3, FollowsReshuffle
<1> QED
  BY <1>1, <1>3, <1>4, <1>5 DEF Moves, sum

\* Queueing, draining, and counting a replan that added nothing.
LEMMA DiscoveriesMove ==
  ASSUME NEW g, WellFormed(g)
  PROVE  \A h \in {QueueDiscoveries(g), DrainDiscoveries(g),
                    [DrainDiscoveries(g) EXCEPT !.runs = @ + 1]} :
           /\ Moves(g, h, g.spent, h.pending) /\ h.st = g.st
           /\ h.current = g.current /\ h.status = g.status
           /\ h # QueueDiscoveries(g) => h.pending = "none"
<1> DEFINE k == g.runs + 1
           a == [g EXCEPT !.pending = "queued"]
           b == [g EXCEPT !.pending = "none"]
           c == [g EXCEPT !.pending = "none", !.runs = k]
<1>1. g \in GraphState /\ k \in Nat
  BY DEF WellFormed, GraphState
<1>2. QueueDiscoveries(g) = a /\ DrainDiscoveries(g) = b
  BY DEF QueueDiscoveries, DrainDiscoveries
<1>2a. [DrainDiscoveries(g) EXCEPT !.runs = @ + 1] = c
  BY <1>1, <1>2 DEF GraphState
<1> HIDE DEF k
<1>3. ASSUME NEW h \in {a, b, c}
      PROVE  /\ h \in GraphState /\ h.id = g.id /\ h.deps = g.deps /\ h.st = g.st
             /\ h.current = g.current /\ h.spent = g.spent /\ h.status = g.status
             /\ h # a => h.pending = "none"
  BY <1>1 DEF GraphState
<1> HIDE DEF a, b, c
<1>4. ASSUME NEW h \in {a, b, c} PROVE Moves(g, h, g.spent, h.pending)
  BY <1>1, <1>3, SameNodes, FollowsReshuffle DEF Moves
<1> QED
  BY <1>2, <1>2a, <1>3, <1>4

\* `mark_node_running` of a ready node.
LEMMA RunningMoves ==
  ASSUME NEW g, WellFormed(g), NEW n \in Ids, g.st[n] = "Ready"
  PROVE  LET h == MarkNodeRunning(g, n)
         IN  /\ Moves(g, h, g.spent, g.pending) /\ h.current = n /\ h.status = g.status
             /\ \A m \in Ids : h.st[m] = IF m = n THEN "Running" ELSE g.st[m]
<1> DEFINE h == MarkNodeRunning(g, n)
<1>1. g \in GraphState
  BY DEF WellFormed
<1>2. /\ WellFormed(h) /\ h.id = g.id /\ h.status = g.status /\ h.current = n
      /\ \A m \in Ids : h.st[m] = IF m = n THEN "Running" ELSE g.st[m]
  BY MarkNodeRunningWellFormed
<1>3. h.deps = g.deps /\ h.spent = g.spent /\ h.pending = g.pending
  BY <1>1 DEF MarkNodeRunning, GraphState
<1> HIDE DEF h
<1>4. h \in GraphState
  BY <1>2 DEF WellFormed
<1>5. Follows(g, h) /\ KeepsGate(g, h)
  BY <1>1, <1>2, <1>3, <1>4, FollowsReshuffle
<1> QED
  BY <1>2, <1>3, <1>5 DEF Moves, h

\* `recompute_ready`, which leaves all but the waiting nodes alone.
LEMMA RecomputeMoves ==
  ASSUME NEW g, WellFormed(g)
  PROVE  LET h == RecomputeReady(g)
         IN  /\ Moves(g, h, g.spent, g.pending) /\ h.current = g.current
             /\ h.status = g.status /\ FinalRests(g, h)
<1> DEFINE h == RecomputeReady(g)
<1>1. g \in GraphState /\ Final \in Ids
  BY FinalFacts DEF WellFormed
<1>2. /\ h \in GraphState /\ h.status = g.status /\ h.current = g.current
      /\ h.spent = g.spent
      /\ \A n \in Ids : h.st[n] = IF g.st[n] = "Waiting" /\ DepsAchieved(g, n)
                                  THEN "Ready" ELSE g.st[n]
  BY <1>1, RecomputeReadyFacts
<1>3. h.pending = g.pending
  BY <1>1 DEF RecomputeReady, GraphState
<1>4. WellFormed(h) /\ Follows(g, h) /\ KeepsGate(g, h)
  BY RecomputeReadyWellFormed, FollowsRecompute
<1> HIDE DEF h
<1>5. FinalRests(g, h)
  BY <1>1, <1>2 DEF FinalRests
<1> QED
  BY <1>2, <1>3, <1>4, <1>5 DEF Moves, h

\* Putting running nodes back, whatever becomes of the status.
LEMMA DemoteMoves ==
  ASSUME NEW g, WellFormed(g), NEW keep, NEW h \in GraphState,
         h.id = g.id, h.deps = g.deps, h.st = DemoteInFlight(g.st, keep),
         h.spent = g.spent, h.pending = g.pending, h.status # "None"
  PROVE  /\ Moves(g, h, g.spent, g.pending)
         /\ FinalRests(g, h) /\ (h.st[Final] = "Running" => keep = Final)
<1>1. g \in GraphState /\ Final \in Ids
  BY FinalFacts DEF WellFormed
<1>2. /\ WellFormed(h)
      /\ \A n \in Ids : h.st[n] = IF g.st[n] = "Running" /\ n # keep
                                  THEN "Ready" ELSE g.st[n]
  BY DemoteWellFormed
<1>3. Follows(g, h) /\ KeepsGate(g, h)
  BY <1>1, <1>2, FollowsReshuffle
<1>4. FinalRests(g, h) /\ (h.st[Final] = "Running" => keep = Final)
  BY <1>1, <1>2 DEF FinalRests
<1> QED
  BY <1>2, <1>3, <1>4 DEF Moves

\* Two moves in a row.
LEMMA MovesTrans ==
  ASSUME NEW g, NEW h, NEW k, NEW s, NEW p, NEW t, NEW q,
         Moves(g, h, s, p), Moves(h, k, t, q)
  PROVE  Moves(g, k, t, q)
<1>1. Follows(g, k)
  BY FollowsTrans DEF Moves
<1>2. KeepsGate(g, k)
  BY DEF Moves, KeepsGate
<1> QED
  BY <1>1, <1>2 DEF Moves

\* /graph resume: `resume`, then `demote_orphaned_in_flight`.
LEMMA ResumeMoves ==
  ASSUME NEW g, WellFormed(g), NEW keep \in Ids \cup {NoNode}
  PROVE  LET h == DemoteOrphanedInFlight(Resume(g), keep)
         IN  /\ Moves(g, h, g.spent, g.pending) /\ h.current = keep
             /\ h.status = "Active" /\ FinalRests(g, h)
<1>1. PICK a : a = [g EXCEPT !.status = "Active"]
  OBVIOUS
<1>2. /\ Moves(g, a, g.spent, g.pending) /\ a.st = g.st /\ a.status = "Active"
  BY <1>1, StatusMoves DEF GraphStatus
<1>3. PICK b : b = RecomputeReady(a)
  OBVIOUS
<1>4. /\ Moves(a, b, a.spent, a.pending) /\ b.status = a.status /\ FinalRests(a, b)
  BY <1>2, <1>3, RecomputeMoves DEF Moves
<1>5. PICK c : c = [b EXCEPT !.st = DemoteInFlight(b.st, keep), !.current = keep]
  OBVIOUS
<1>6. WellFormed(b) /\ b \in GraphState /\ b.status = "Active"
  BY <1>2, <1>4 DEF Moves, WellFormed
<1>7. /\ Moves(b, c, b.spent, b.pending) /\ c.current = keep /\ c.status = "Active"
      /\ FinalRests(b, c)
  <2>1. PICK D \in [Ids -> NodeStatus] : D = DemoteInFlight(b.st, keep)
    BY <1>6, DemoteInFlightType
  <2>2. /\ c \in GraphState /\ c.id = b.id /\ c.deps = b.deps /\ c.st = D
        /\ c.spent = b.spent /\ c.pending = b.pending /\ c.status = "Active"
        /\ c.current = keep
    BY <1>5, <1>6, <2>1 DEF GraphState
  <2> QED
    BY <1>6, <2>1, <2>2, DemoteMoves
<1>8. PICK d : d = RecomputeReady(c)
  OBVIOUS
<1>9. /\ Moves(c, d, c.spent, c.pending) /\ d.current = c.current
      /\ d.status = c.status /\ FinalRests(c, d)
  BY <1>7, <1>8, RecomputeMoves DEF Moves
<1>10. d = DemoteOrphanedInFlight(Resume(g), keep)
  BY <1>1, <1>3, <1>5, <1>8 DEF DemoteOrphanedInFlight, Resume
<1>11. Moves(g, b, g.spent, g.pending)
  BY <1>2, <1>4, MovesTrans DEF Moves
<1>12. Moves(g, c, g.spent, g.pending)
  BY <1>7, <1>11, MovesTrans DEF Moves
<1>13. Moves(g, d, g.spent, g.pending)
  BY <1>9, <1>12, MovesTrans DEF Moves
<1>14. FinalRests(g, d)
  BY <1>2, <1>4, <1>7, <1>9 DEF FinalRests
<1> QED
  BY <1>7, <1>9, <1>10, <1>13, <1>14

\* `budget_limit` of an active graph.
LEMMA BudgetLimitMoves ==
  ASSUME NEW g, WellFormed(g), g.status = "Active"
  PROVE  LET h == BudgetLimit(g)
         IN  /\ Moves(g, h, g.spent, g.pending) /\ h.current = NoNode
             /\ h.status = "BudgetLimited" /\ FinalRests(g, h)
<1>1. g \in GraphState
  BY DEF WellFormed
<1>2. PICK D \in [Ids -> NodeStatus] : D = DemoteInFlight(g.st, NoNode)
  BY <1>1, DemoteInFlightType
<1>3. PICK h : h = BudgetLimit(g)
  OBVIOUS
<1>4. /\ h \in GraphState /\ h.id = g.id /\ h.deps = g.deps /\ h.st = D
      /\ h.spent = g.spent /\ h.pending = g.pending /\ h.status = "BudgetLimited"
      /\ h.current = NoNode
  BY <1>1, <1>2, <1>3 DEF BudgetLimit, GraphState, GraphStatus
<1> QED
  BY <1>2, <1>3, <1>4, DemoteMoves

\* /graph resume --budget.
LEMMA TopUpMoves ==
  ASSUME NEW g, WellFormed(g), NEW extra \in Int
  PROVE  LET h == ResumeBudgetLimited(g, extra)
         IN  /\ Moves(g, h, g.spent, g.pending) /\ h.current = g.current
             /\ h.status = "Active" /\ FinalRests(g, h)
<1> DEFINE sum == g.spent + extra
           a == [g EXCEPT !.budget = sum, !.status = "Active"]
<1>1. g \in GraphState /\ sum \in Int
  BY DEF WellFormed, GraphState
<1>2. ResumeBudgetLimited(g, extra) = RecomputeReady(a)
  BY DEF ResumeBudgetLimited
<1> HIDE DEF sum
<1>3. /\ a \in GraphState /\ a.id = g.id /\ a.deps = g.deps /\ a.st = g.st
      /\ a.current = g.current /\ a.spent = g.spent /\ a.pending = g.pending
      /\ a.status = "Active"
  BY <1>1 DEF GraphState, GraphStatus
<1> HIDE DEF a
<1>4. WellFormed(a)
  BY <1>3, SameNodes
<1>5. Follows(g, a) /\ KeepsGate(g, a)
  BY <1>1, <1>3, FollowsReshuffle
<1>6. Moves(g, a, g.spent, g.pending) /\ FinalRests(g, a)
  BY <1>3, <1>4, <1>5 DEF Moves, FinalRests
<1>7. PICK h : h = RecomputeReady(a)
  OBVIOUS
<1>8. /\ Moves(a, h, a.spent, a.pending) /\ h.current = a.current
      /\ h.status = a.status /\ FinalRests(a, h)
  BY <1>4, <1>7, RecomputeMoves
<1>9. Moves(g, h, g.spent, g.pending)
  BY <1>3, <1>6, <1>8, MovesTrans
<1>10. FinalRests(g, h)
  BY <1>6, <1>8 DEF FinalRests
<1> QED
  BY <1>2, <1>3, <1>7, <1>8, <1>9, <1>10

\* A restart: nothing runs, and nothing drives itself.
LEMMA RestartMoves ==
  ASSUME NEW g, WellFormed(g)
  PROVE  LET h == FromSnapshot(g)
         IN  /\ Moves(g, h, g.spent, g.pending) /\ FinalRests(g, h)
             /\ h.status # "Active" /\ (h = g \/ h.current = NoNode)
             /\ g.status # "None" => h.current = NoNode /\ h.st[Final] # "Running"
<1>0. g \in GraphState /\ NoNode # Final
  BY FinalFacts DEF WellFormed
<1>1. CASE g.status = "None"
  <2>1. FromSnapshot(g) = g
    BY <1>1 DEF FromSnapshot
  <2> QED
    BY <1>1, <2>1, StutterMoves
<1>2. CASE g.status # "None"
  <2>1. PICK s : s = IF g.status = "Active" THEN "Paused" ELSE g.status
    OBVIOUS
  <2>2. s \in GraphStatus /\ s # "None" /\ s # "Active"
    BY <1>0, <1>2, <2>1 DEF GraphState, GraphStatus
  <2>3. PICK a : a = [g EXCEPT !.st = DemoteInFlight(g.st, NoNode), !.current = NoNode,
                               !.status = s]
    OBVIOUS
  <2>4. FromSnapshot(g) = RecomputeReady(a)
    <3>1. [g EXCEPT !.status = IF @ = "Active" THEN "Paused" ELSE @,
                    !.st = DemoteInFlight(g.st, NoNode), !.current = NoNode] = a
      BY <1>0, <2>1, <2>3 DEF GraphState
    <3> QED
      BY <1>2, <3>1 DEF FromSnapshot
  <2>5. /\ Moves(g, a, g.spent, g.pending) /\ a.current = NoNode /\ a.status = s
        /\ FinalRests(g, a) /\ a.st[Final] # "Running"
    <3>1. PICK D \in [Ids -> NodeStatus] : D = DemoteInFlight(g.st, NoNode)
      BY <1>0, DemoteInFlightType
    <3>2. /\ a \in GraphState /\ a.id = g.id /\ a.deps = g.deps /\ a.st = D
          /\ a.spent = g.spent /\ a.pending = g.pending /\ a.status = s
          /\ a.current = NoNode
      BY <1>0, <2>2, <2>3, <3>1 DEF GraphState
    <3> QED
      BY <1>0, <2>2, <3>1, <3>2, DemoteMoves
  <2>6. PICK h : h = RecomputeReady(a)
    OBVIOUS
  <2>7. WellFormed(a) /\ a.spent = g.spent /\ a.pending = g.pending
    BY <2>5 DEF Moves
  <2>8. /\ Moves(a, h, a.spent, a.pending) /\ h.current = a.current
        /\ h.status = a.status /\ FinalRests(a, h)
    BY <2>6, <2>7, RecomputeMoves
  <2>9. Moves(g, h, g.spent, g.pending)
    BY <2>5, <2>7, <2>8, MovesTrans
  <2>10. FinalRests(g, h) /\ h.st[Final] # "Running"
    BY <2>5, <2>8 DEF FinalRests
  <2> QED
    BY <2>2, <2>4, <2>5, <2>6, <2>8, <2>9, <2>10
<1> QED
  BY <1>1, <1>2

\* A failed node: nothing is booked, and no node is on the engine.
LEMMA FailedMoves ==
  ASSUME NEW g, WellFormed(g), NEW f \in Nodes(g), g.st[f] = "Running" \/ f = Final
  PROVE  LET h == MarkNodeFailed(g, f)
         IN  /\ Moves(g, h, g.spent, g.pending) /\ h.current = NoNode
             /\ h.status = g.status /\ FinalRests(g, h)
<1> DEFINE h == MarkNodeFailed(g, f)
           g1 == [g EXCEPT !.st[f] = "Failed", !.current = NoNode]
<1>1. g \in GraphState /\ f \in Ids /\ Final \in Ids
  BY FinalFacts DEF WellFormed, Nodes
<1>2. /\ h.status = g.status /\ h.current = NoNode
      /\ \A n \in Ids : g1.st[n] = IF n = f THEN "Failed" ELSE g.st[n]
      /\ \A n \in Ids : h.st[n] =
           IF n \in DeadBranch(g1, f) \ {f} THEN "Blocked" ELSE g1.st[n]
  BY <1>1, MarkNodeFailedFacts
<1>3. h.spent = g.spent /\ h.pending = g.pending
  BY <1>1 DEF MarkNodeFailed, BlockDependents, GraphState
<1>4. WellFormed(h) /\ Follows(g, h) /\ KeepsGate(g, h)
  BY MarkNodeFailedWellFormed, FollowsFailed
<1> HIDE DEF h, g1
<1>5. FinalRests(g, h)
  BY <1>1, <1>2 DEF FinalRests
<1> QED
  BY <1>2, <1>3, <1>4, <1>5 DEF Moves, h

\* An achieved node: its tokens are booked; the gate holds when it ran.
LEMMA AchievedMoves ==
  ASSUME NEW g, WellFormed(g), NEW f \in Nodes(g), NEW t \in Int,
         g.st[f] = "Running" \/ f = Final
  PROVE  LET h == MarkNodeAchieved(g, f, t)
         IN  /\ WellFormed(h) /\ Follows(g, h)
             /\ h.spent = g.spent + t /\ h.pending = g.pending
             /\ h.current = NoNode /\ h.status = g.status
             /\ g.st[f] = "Running" => KeepsGate(g, h)
             /\ h.st[Final] = "Running" => g.st[Final] = "Running" /\ f # Final
<1> DEFINE sum == g.spent + t
           g1 == [g EXCEPT !.st[f] = "Achieved", !.spent = sum,
                           !.current = NoNode]
           h  == MarkNodeAchieved(g, f, t)
<1>0. g \in GraphState /\ f \in Ids /\ Final \in Ids /\ sum \in Int
  BY FinalFacts DEF WellFormed, Nodes, GraphState
<1>1. h = RecomputeReady(g1)
  BY DEF MarkNodeAchieved
<1> HIDE DEF sum
<1>2. /\ g1 \in GraphState /\ g1.deps = g.deps /\ g1.status = g.status
      /\ g1.current = NoNode /\ g1.spent = sum /\ g1.pending = g.pending
      /\ \A n \in Ids : g1.st[n] = IF n = f THEN "Achieved" ELSE g.st[n]
  BY <1>0 DEF GraphState, NodeStatus, Terminal
<1>3. WellFormed(h) /\ Follows(g, h) /\ (g.st[f] = "Running" => KeepsGate(g, h))
  BY MarkNodeAchievedWellFormed, FollowsAchieved
<1> HIDE DEF g1, h
<1>4. WellFormed(g1)
  BY <1>2, AchieveWellFormed
<1>5. /\ Moves(g1, h, g1.spent, g1.pending) /\ h.current = g1.current
      /\ h.status = g1.status /\ FinalRests(g1, h)
  BY <1>1, <1>4, RecomputeMoves
<1>6. h.spent = sum /\ h.pending = g.pending
  BY <1>2, <1>5 DEF Moves
<1>7. h.st[Final] = "Running" => g.st[Final] = "Running" /\ f # Final
  BY <1>0, <1>2, <1>5 DEF FinalRests
<1> QED
  BY <1>2, <1>3, <1>5, <1>6, <1>7 DEF h, sum

-----------------------------------------------------------------------------
(* Every step of the session follows the graph's transitions, or replaces  *)
(* its nodes.                                                              *)

Replaces ==
  \/ \E b \in Budgets : GraphSet(b)
  \/ GraphClear
  \/ \E P \in SUBSET PlannerIds : \E d \in [P -> SUBSET P] : InstallPlan(P, d)
  \/ \E A \in SUBSET ReplanIds : \E d \in [A -> SUBSET Ids] : ReplanAppends(A, d)
  \/ OptimizerInstalls
  \/ Crash

GraphFollows ==
  Follows(graph, graph') /\ (Final \notin batch => KeepsGate(graph, graph'))

\* A move of the graph is a step that follows.
LEMMA MovesFollow ==
  ASSUME NEW g, NEW s, NEW p, Moves(graph, g, s, p), graph' = g
  PROVE  GraphFollows
  BY DEF Moves, GraphFollows

\* The invariant's part that every step needs.
LEMMA GraphFacts ==
  ASSUME IndInv
  PROVE  /\ WellFormed(graph) /\ graph \in GraphState
         /\ WellFormed(saved) /\ saved \in GraphState
         /\ CurrentRuns(graph) /\ TurnInv
         /\ goal \in GoalState /\ burnt \in Int /\ taken \in [Event -> Nat]
         /\ batch \subseteq Ids
         /\ graph.current # NoNode =>
              graph.current \in Nodes(graph) /\ graph.st[graph.current] = "Running"
<1>1. WellFormed(graph) /\ graph \in GraphState /\ WellFormed(saved)
      /\ saved \in GraphState /\ CurrentRuns(graph) /\ TurnInv /\ EnvOK
  BY DEF IndInv, Good, WellFormed
<1>2. graph.current \in Ids \cup {NoNode}
  BY <1>1 DEF GraphState
<1> QED
  BY <1>1, <1>2 DEF EnvOK, CurrentRuns, Nodes

\* A member of the batch is a node that runs, or the terminal one.
LEMMA BatchFacts ==
  ASSUME IndInv, NEW n \in batch
  PROVE  n \in Nodes(graph) /\ (graph.st[n] = "Running" \/ n = Final)
  BY GraphFacts DEF TurnInv, Nodes

\* `auto_pause_goal_if_active` and the steps that leave the graph alone.
LEMMA RestFollows ==
  ASSUME IndInv, UNCHANGED <<graph, saved>> \/ AutoPause \/ Persist(graph)
                 \/ Persist(Pause(graph))
  PROVE  saved' \in {saved, graph'} /\ GraphFollows
<1>1. WellFormed(graph)
  BY GraphFacts
<1>2. graph' \in {graph, Pause(graph)} /\ saved' \in {saved, graph'}
  BY DEF AutoPause, Persist
<1> QED
  BY <1>1, <1>2, PauseMoves, StutterMoves, MovesFollow

\* The commands.
LEMMA CommandFollows ==
  ASSUME IndInv, Command
  PROVE  saved' \in {saved, graph'} /\ (Replaces \/ GraphFollows)
<1>0. WellFormed(graph) /\ graph \in GraphState
  BY GraphFacts
<1>1. CASE (\E b \in Budgets : GraphSet(b)) \/ GraphClear
  BY <1>1 DEF GraphSet, GraphClear, Persist, Replaces
<1>2. CASE GraphResume
  <2>1. PICK keep : keep = IF goal.status = "None" THEN NoNode ELSE graph.current
    OBVIOUS
  <2>2. keep \in Ids \cup {NoNode}
    BY <1>0, <2>1 DEF GraphState
  <2>3. Persist(DemoteOrphanedInFlight(Resume(graph), keep))
    BY <1>2, <2>1 DEF GraphResume
  <2> QED
    BY <1>0, <2>2, <2>3, ResumeMoves, MovesFollow DEF Persist
<1>3. ASSUME NEW extra \in TopUps, GraphTopUp(extra)
      PROVE  saved' \in {saved, graph'} /\ GraphFollows
  <2>1. extra \in Int
    BY <1>3, ModeAssumption
  <2> QED
    BY <1>0, <1>3, <2>1, TopUpMoves, MovesFollow DEF GraphTopUp, Persist
<1>4. CASE GraphPause
  BY <1>4, RestFollows DEF GraphPause
<1>5. CASE \/ \E b \in Budgets : GoalSet(b)
           \/ GoalResume \/ GoalPause \/ GoalClear \/ UserPrompt
  BY <1>5, RestFollows DEF GoalSet, GoalResume, GoalPause, GoalClear, UserPrompt
<1> QED
  BY <1>1, <1>2, <1>3, <1>4, <1>5 DEF Command

\* Planning and the optimizer.
LEMMA PlanningFollows ==
  ASSUME IndInv, Planning
  PROVE  saved' \in {saved, graph'} /\ (Replaces \/ GraphFollows)
<1>1. CASE \/ \E P \in SUBSET PlannerIds : \E d \in [P -> SUBSET P] : InstallPlan(P, d)
           \/ OptimizerInstalls
  BY <1>1 DEF InstallPlan, OptimizerInstalls, Persist, Replaces
<1>2. CASE PlanningFails \/ BaselineFails \/ FreezeVersion
  BY <1>2, RestFollows DEF PlanningFails, BaselineFails, FreezeVersion
<1>3. CASE PlanningSucceeds \/ BaselineWritten \/ OptimizerKeepsPlan \/ OptimizerProposes
  BY <1>3, RestFollows DEF PlanningSucceeds, BaselineWritten, OptimizerKeepsPlan,
     OptimizerProposes
<1>4. CASE \/ \E n, m \in Ids : \/ OptimizerRemovesDep(n, m)
                              \/ OptimizerReorders(n, m) \/ OptimizerMerges(n, m)
           \/ \E n \in Ids : \E A \in Replacements(draft) :
                \E d \in [A -> SUBSET SplitDeps(draft, n, A)] : OptimizerSplits(n, A, d)
  BY <1>4, RestFollows DEF OptimizerRemovesDep, OptimizerReorders, OptimizerMerges,
     OptimizerSplits, Rewrite
<1> QED
  BY <1>1, <1>2, <1>3, <1>4 DEF Planning

\* A batch starts: ready nodes run, none of them on the goal engine.
LEMMA StartBatchMoves ==
  ASSUME IndInv, StartBatch
  PROVE  /\ Moves(graph, graph', graph.spent, graph.pending) /\ saved' \in {saved, graph'}
         /\ graph'.current = NoNode /\ graph'.status = graph.status
         /\ batch' \subseteq ReadyNodes(graph)
         /\ \A n \in Ids : graph'.st[n] = IF n \in batch' THEN "Running" ELSE graph.st[n]
<1>0. WellFormed(graph) /\ graph \in GraphState
  BY GraphFacts
<1>1. PICK b : b = FirstReady(graph, Concurrency)
  OBVIOUS
<1>2. b \subseteq ReadyNodes(graph) /\ b \in SUBSET Ids /\ \A n \in b : graph.st[n] = "Ready"
  BY <1>1 DEF FirstReady, ReadyNodes
<1>3. PICK h : h = [graph EXCEPT
                      !.st = [n \in Ids |-> IF n \in b THEN "Running" ELSE graph.st[n]],
                      !.current = NoNode]
  OBVIOUS
<1>4. graph' = h /\ saved' \in {saved, h} /\ batch' = b
  BY <1>1, <1>3 DEF StartBatch, Persist
<1>5. /\ h \in GraphState /\ h.id = graph.id /\ h.deps = graph.deps
      /\ h.current = NoNode /\ h.spent = graph.spent /\ h.pending = graph.pending
      /\ h.status = graph.status
      /\ \A n \in Ids : h.st[n] = IF n \in b THEN "Running" ELSE graph.st[n]
  BY <1>0, <1>3 DEF GraphState, NodeStatus
<1>6. WellFormed(h)
  BY <1>0, <1>2, <1>5, StartWellFormed
<1>7. Follows(graph, h) /\ KeepsGate(graph, h)
  BY <1>0, <1>2, <1>5, FollowsReshuffle
<1> QED
  BY <1>2, <1>4, <1>5, <1>6, <1>7 DEF Moves

\* The dispatch loop and its replan boundary.
LEMMA DrivingFollows ==
  ASSUME IndInv, Driving
  PROVE  saved' \in {saved, graph'} /\ (Replaces \/ GraphFollows)
<1>0. WellFormed(graph) /\ graph \in GraphState
  BY GraphFacts
<1>1. CASE \E A \in SUBSET ReplanIds : \E d \in [A -> SUBSET Ids] : ReplanAppends(A, d)
  BY <1>1 DEF ReplanAppends, Replaces
<1>2. CASE DrainAtBoundary \/ ReplanAddsNothing
  BY <1>0, <1>2, DiscoveriesMove, MovesFollow DEF DrainAtBoundary, ReplanAddsNothing, Persist
<1>3. CASE ReplanFires \/ DispatchWedged \/ DispatchStuck
  BY <1>3, RestFollows DEF ReplanFires, DispatchWedged, DispatchStuck
<1>4. CASE DispatchBudgetLimited
  <2>1. graph.status = "Active" \/ BudgetLimit(graph) = graph
    BY DEF BudgetLimit
  <2> QED
    BY <1>0, <1>4, <2>1, BudgetLimitMoves, StutterMoves, MovesFollow
       DEF DispatchBudgetLimited, Persist
<1>5. CASE DispatchComplete
  BY <1>0, <1>5, CompleteMoves, MovesFollow DEF DispatchComplete, Persist
<1>6. ASSUME NEW n \in Ids, LaunchNode(n)
      PROVE  saved' \in {saved, graph'} /\ GraphFollows
  <2>1. graph.st[n] = "Ready"
    BY <1>6 DEF LaunchNode, IsNextReady, ReadyNodes
  <2> QED
    BY <1>0, <1>6, <2>1, RunningMoves, MovesFollow DEF LaunchNode, Persist
<1>7. CASE StartBatch
  BY <1>7, StartBatchMoves, MovesFollow
<1> QED
  BY <1>1, <1>2, <1>3, <1>4, <1>5, <1>6, <1>7 DEF Driving

\* A spend that is booked before the graph stops for its budget.
LEMMA TripMoves ==
  ASSUME NEW g, WellFormed(g), g.status = "Active", NEW t \in Int
  PROVE  LET h == BudgetLimit(ChargeCurrent(g, t))
         IN  /\ Moves(g, h, h.spent, g.pending) /\ FinalRests(g, h)
             /\ h.spent = IF g.current = NoNode THEN g.spent ELSE g.spent + t
             /\ h.current = NoNode /\ h.status = "BudgetLimited"
<1>1. PICK c : c = ChargeCurrent(g, t)
  OBVIOUS
<1>2. /\ Moves(g, c, c.spent, g.pending) /\ c.st = g.st /\ c.status = "Active"
      /\ c.spent = IF g.current = NoNode THEN g.spent ELSE g.spent + t
  <2>1. CASE g.current = NoNode
    BY <1>1, <2>1, StutterMoves DEF ChargeCurrent
  <2>2. CASE g.current # NoNode
    <3>1. /\ Moves(g, c, g.spent + t, g.pending) /\ c.st = g.st /\ c.status = g.status
      BY <1>1, <2>2, ChargeMoves DEF ChargeCurrent
    <3> QED
      BY <2>2, <3>1 DEF Moves
  <2> QED
    BY <2>1, <2>2
<1>3. WellFormed(c) /\ c.pending = g.pending
  BY <1>2 DEF Moves
<1>4. PICK h : h = BudgetLimit(c)
  OBVIOUS
<1>5. /\ Moves(c, h, c.spent, c.pending) /\ h.current = NoNode
      /\ h.status = "BudgetLimited" /\ FinalRests(c, h)
  BY <1>2, <1>3, <1>4, BudgetLimitMoves
<1>6. Moves(g, h, c.spent, g.pending)
  BY <1>2, <1>3, <1>5, MovesTrans
<1>7. h.spent = c.spent
  BY <1>6 DEF Moves
<1>8. FinalRests(g, h)
  BY <1>2, <1>5 DEF FinalRests
<1> QED
  BY <1>1, <1>2, <1>4, <1>5, <1>6, <1>7, <1>8

\* A round-end seam that finds no completed node goal: what becomes of the graph.
LEMMA InconsistentMoves ==
  ASSUME IndInv, RoundEndInconsistent
  PROVE  /\ Moves(graph, graph', graph'.spent, graph.pending)
         /\ FinalRests(graph, graph') /\ saved' \in {saved, graph'}
         /\ \/ /\ graph'.spent = IF graph.current = NoNode THEN graph.spent
                                 ELSE graph.spent + goal.used
              /\ graph'.current = NoNode /\ graph'.status = "BudgetLimited"
            \/ /\ graph'.spent = graph.spent /\ graph'.current = graph.current
               /\ graph'.status = "Paused" /\ goal.status # "BudgetLimited"
<1>0. WellFormed(graph) /\ goal.used \in Int /\ graph.status = "Active"
  BY GraphFacts DEF GoalState, RoundEndInconsistent
<1>1. CASE goal.status = "BudgetLimited"
  <2>1. PICK h : h = BudgetLimit(ChargeCurrent(graph, goal.used))
    OBVIOUS
  <2>2. graph' = h /\ saved' \in {saved, h}
    BY <1>1, <2>1 DEF RoundEndInconsistent, Persist
  <2>3. /\ Moves(graph, h, h.spent, graph.pending) /\ FinalRests(graph, h)
        /\ h.spent = IF graph.current = NoNode THEN graph.spent ELSE graph.spent + goal.used
        /\ h.current = NoNode /\ h.status = "BudgetLimited"
    BY <1>0, <2>1, TripMoves
  <2> QED
    BY <2>2, <2>3
<1>2. CASE goal.status # "BudgetLimited"
  <2>1. PICK h : h = Pause(graph)
    OBVIOUS
  <2>2. graph' = h /\ saved' \in {saved, h}
    BY <1>2, <2>1 DEF RoundEndInconsistent, Persist
  <2>3. /\ Moves(graph, h, graph.spent, graph.pending) /\ h.st = graph.st
        /\ h.current = graph.current /\ h.status = "Paused"
    BY <1>0, <2>1, PauseMoves
  <2>4. FinalRests(graph, h) /\ h.spent = graph.spent
    BY <2>3 DEF FinalRests, Moves
  <2> QED
    BY <1>2, <2>2, <2>3, <2>4
<1> QED
  BY <1>1, <1>2

\* The budget trips.
LEMMA BudgetTripMoves ==
  ASSUME IndInv, TripBudget
  PROVE  /\ saved' \in {saved, graph'} /\ FinalRests(graph, graph')
         /\ Moves(graph, graph', graph'.spent, graph.pending)
         /\ IF graph.status = "Active"
            THEN /\ graph'.spent = IF graph.current = NoNode THEN graph.spent
                                   ELSE graph.spent + (goal.used + Cost)
                 /\ graph'.current = NoNode /\ graph'.status = "BudgetLimited"
            ELSE UNCHANGED <<graph, saved>>
<1>0. WellFormed(graph) /\ goal.used + Cost \in Int
  BY GraphFacts, GoalTypes
<1>1. CASE graph.status = "Active"
  <2>1. PICK t \in Int : t = goal.used + Cost
    BY <1>0
  <2>2. PICK h : h = BudgetLimit(ChargeCurrent(graph, t))
    OBVIOUS
  <2>3. graph' = h /\ saved' \in {saved, h}
    BY <1>1, <2>1, <2>2 DEF TripBudget, Persist
  <2>4. /\ Moves(graph, h, h.spent, graph.pending) /\ FinalRests(graph, h)
        /\ h.spent = IF graph.current = NoNode THEN graph.spent ELSE graph.spent + t
        /\ h.current = NoNode /\ h.status = "BudgetLimited"
    BY <1>0, <1>1, <2>2, TripMoves
  <2> QED
    BY <1>1, <2>1, <2>3, <2>4
<1>2. CASE graph.status # "Active"
  <2>1. UNCHANGED <<graph, saved>>
    BY <1>2 DEF TripBudget
  <2> QED
    BY <1>0, <1>2, <2>1, StutterMoves
<1> QED
  BY <1>1, <1>2

\* A serial node's verdict is booked on the node on the engine.
LEMMA NodeAchievedMoves ==
  ASSUME IndInv, NodeAchieved
  PROVE  /\ Moves(graph, graph', graph.spent + goal.used, graph.pending)
         /\ saved' \in {saved, graph'}
         /\ graph'.current = NoNode /\ graph'.status = graph.status
         /\ graph'.st[Final] = "Running" =>
              graph.st[Final] = "Running" /\ graph.current # Final
<1>1. /\ WellFormed(graph) /\ goal.used \in Int
      /\ graph.current \in Nodes(graph) /\ graph.st[graph.current] = "Running"
  BY GraphFacts DEF GoalState, NodeAchieved, TurnInv
<1>2. PICK h : h = MarkNodeAchieved(graph, graph.current, goal.used)
  OBVIOUS
<1>3. graph' = h /\ saved' \in {saved, h}
  BY <1>2 DEF NodeAchieved, Persist
<1>4. /\ WellFormed(h) /\ Follows(graph, h) /\ KeepsGate(graph, h)
      /\ h.spent = graph.spent + goal.used /\ h.pending = graph.pending
      /\ h.current = NoNode /\ h.status = graph.status
      /\ h.st[Final] = "Running" => graph.st[Final] = "Running" /\ graph.current # Final
  BY <1>1, <1>2, AchievedMoves
<1> QED
  BY <1>3, <1>4 DEF Moves

\* A serial node.
LEMMA NodeRunFollows ==
  ASSUME IndInv, NodeRun
  PROVE  saved' \in {saved, graph'} /\ GraphFollows
<1>0. WellFormed(graph)
  BY GraphFacts
<1>1. CASE \/ SetupGoal \/ RoundContinues \/ GoalCompletes \/ TurnGivesUp
           \/ TurnGivesUpLate \/ RoundEndsTurn
  BY <1>1, RestFollows DEF SetupGoal, RoundContinues, GoalCompletes, TurnGivesUp,
     TurnGivesUpLate, RoundEndsTurn
<1>2. CASE GoalPlanned \/ GoalPlanningFails \/ GoalPausesItself \/ TurnFails
  BY <1>2, RestFollows DEF GoalPlanned, GoalPlanningFails, GoalPausesItself, TurnFails
<1>3. CASE RoundTripsBudget
  BY <1>3, BudgetTripMoves, MovesFollow DEF RoundTripsBudget
<1>4. CASE HarvestNode
  BY <1>0, <1>4, DiscoveriesMove, StutterMoves, MovesFollow DEF HarvestNode
<1>5. CASE NodeAchieved
  BY <1>5, NodeAchievedMoves, MovesFollow
<1>6. CASE RoundEndInconsistent
  BY <1>6, InconsistentMoves, MovesFollow
<1> QED
  BY <1>1, <1>2, <1>3, <1>4, <1>5, <1>6 DEF NodeRun

\* A report that is not achieved.
LEMMA SettleFailedMoves ==
  ASSUME IndInv, NEW n \in Ids, SettleFailed(n)
  PROVE  /\ Moves(graph, graph', graph.spent + Cost, graph'.pending)
         /\ saved' \in {saved, graph'} /\ graph'.current = NoNode
         /\ graph'.status = graph.status /\ FinalRests(graph, graph')
<1>0. WellFormed(graph) /\ Cost \in Int /\ n \in batch
  BY GraphFacts, ModeAssumption DEF SettleFailed, IsNextReport
<1>1. n \in Nodes(graph) /\ (graph.st[n] = "Running" \/ n = Final)
  BY <1>0, BatchFacts
<1>2. PICK q \in WithDiscoveries : Persist(MarkNodeFailed(ChargeNodeTokens(q, Cost), n))
  BY DEF SettleFailed
<1>3. /\ Moves(graph, q, graph.spent, q.pending) /\ q.st = graph.st
      /\ q.status = graph.status
  BY <1>0, DiscoveriesMove, StutterMoves DEF WithDiscoveries
<1>4. WellFormed(q) /\ q.spent = graph.spent
  BY <1>3 DEF Moves
<1>5. PICK c : c = ChargeNodeTokens(q, Cost)
  OBVIOUS
<1>6. /\ Moves(q, c, q.spent + Cost, q.pending) /\ c.st = q.st /\ c.status = q.status
  BY <1>0, <1>4, <1>5, ChargeMoves
<1>7. /\ WellFormed(c) /\ c.spent = graph.spent + Cost
      /\ n \in Nodes(c) /\ (c.st[n] = "Running" \/ n = Final)
  BY <1>1, <1>3, <1>4, <1>6 DEF Moves, Nodes
<1>8. PICK h : h = MarkNodeFailed(c, n)
  OBVIOUS
<1>9. /\ Moves(c, h, c.spent, c.pending) /\ h.current = NoNode
      /\ h.status = c.status /\ FinalRests(c, h)
  BY <1>7, <1>8, FailedMoves
<1>10. Moves(graph, c, graph.spent + Cost, q.pending)
  BY <1>3, <1>4, <1>6, MovesTrans
<1>11. Moves(graph, h, graph.spent + Cost, h.pending)
  BY <1>7, <1>9, <1>10, MovesTrans DEF Moves
<1>12. FinalRests(graph, h)
  BY <1>3, <1>6, <1>9 DEF FinalRests
<1>13. graph' = h /\ saved' \in {saved, h}
  BY <1>2, <1>5, <1>8 DEF Persist
<1> QED
  BY <1>3, <1>6, <1>9, <1>11, <1>12, <1>13

\* A merge that failed.
LEMMA SettleMergeFailedMoves ==
  ASSUME IndInv, NEW n \in Ids, SettleMergeFailed(n)
  PROVE  /\ Moves(graph, graph', graph.spent, graph.pending)
         /\ saved' \in {saved, graph'} /\ graph'.current = NoNode
         /\ graph'.status = graph.status /\ FinalRests(graph, graph')
<1>0. WellFormed(graph) /\ n \in batch
  BY GraphFacts DEF SettleMergeFailed, IsNextReport
<1>1. n \in Nodes(graph) /\ (graph.st[n] = "Running" \/ n = Final)
  BY <1>0, BatchFacts
<1>2. PICK h : h = MarkNodeFailed(graph, n)
  OBVIOUS
<1>3. graph' = h /\ saved' \in {saved, h}
  BY <1>2 DEF SettleMergeFailed, Persist
<1> QED
  BY <1>0, <1>1, <1>2, <1>3, FailedMoves

\* A merge that succeeded.
LEMMA SettleMergedMoves ==
  ASSUME IndInv, NEW n \in Ids, SettleMerged(n)
  PROVE  /\ WellFormed(graph') /\ Follows(graph, graph')
         /\ Final \notin batch => KeepsGate(graph, graph')
         /\ saved' \in {saved, graph'} /\ graph'.spent = graph.spent + Cost
         /\ graph'.pending = graph.pending /\ graph'.current = NoNode
         /\ graph'.status = graph.status
         /\ graph'.st[Final] = "Running" => graph.st[Final] = "Running"
<1>0. WellFormed(graph) /\ n \in batch /\ Cost \in Int
  BY GraphFacts, ModeAssumption DEF SettleMerged, IsNextReport
<1>1. n \in Nodes(graph) /\ (graph.st[n] = "Running" \/ n = Final)
  BY <1>0, BatchFacts
<1>2. PICK h : h = MarkNodeAchieved(graph, n, Cost)
  OBVIOUS
<1>3. graph' = h /\ saved' \in {saved, h}
  BY <1>2 DEF SettleMerged, Persist
<1>4. /\ WellFormed(h) /\ Follows(graph, h)
      /\ h.spent = graph.spent + Cost /\ h.pending = graph.pending
      /\ h.current = NoNode /\ h.status = graph.status
      /\ graph.st[n] = "Running" => KeepsGate(graph, h)
      /\ h.st[Final] = "Running" => graph.st[Final] = "Running" /\ n # Final
  BY <1>0, <1>1, <1>2, AchievedMoves
<1> QED
  BY <1>0, <1>1, <1>3, <1>4

\* A parallel batch.
LEMMA BatchRunFollows ==
  ASSUME IndInv, BatchRun
  PROVE  saved' \in {saved, graph'} /\ GraphFollows
<1>0. WellFormed(graph)
  BY GraphFacts
<1>1. CASE BatchReports \/ BatchSettled
  BY <1>1, RestFollows DEF BatchReports, BatchSettled
<1>2. CASE TakeReport
  BY <1>0, <1>2, DiscoveriesMove, StutterMoves, MovesFollow DEF TakeReport, WithDiscoveries
<1>3. CASE \E n \in Ids : SettleFailed(n) \/ SettleMergeFailed(n)
  BY <1>3, SettleFailedMoves, SettleMergeFailedMoves, MovesFollow
<1>4. CASE \E n \in Ids : SettleMerged(n)
  BY <1>4, SettleMergedMoves DEF GraphFollows
<1> QED
  BY <1>1, <1>2, <1>3, <1>4 DEF BatchRun

\* Every step of the session.
LEMMA StepFollows ==
  ASSUME IndInv, [Next]_vars
  PROVE  saved' \in {saved, graph'} /\ (Replaces \/ GraphFollows)
<1>1. CASE UNCHANGED vars
  BY <1>1, RestFollows DEF vars
<1>2. CASE Cancel \/ SendNow
  BY <1>2, RestFollows DEF Cancel, SendNow
<1>3. CASE Crash
  BY <1>3 DEF Crash, Replaces
<1> QED
  BY <1>1, <1>2, <1>3, CommandFollows, PlanningFollows, DrivingFollows, NodeRunFollows,
     BatchRunFollows DEF Next, TurnStep

-----------------------------------------------------------------------------
(* Settled nodes stay settled.                                             *)

\* The environment's moves are counted up.
LEMMA TakenGrows ==
  ASSUME IndInv, [Next]_vars
  PROVE  taken' = taken \/ \E e \in Event : Take(e)
<1>1. CASE Command
  BY <1>1 DEF Command, GraphSet, GraphResume, GraphTopUp, GraphPause, GraphClear, GoalSet,
     GoalResume, GoalPause, GoalClear, UserPrompt, Event
<1>2. CASE Planning
  BY <1>2 DEF Planning, PlanningFails, PlanningSucceeds, BaselineWritten, BaselineFails,
     InstallPlan, OptimizerKeepsPlan, OptimizerProposes, OptimizerRemovesDep,
     OptimizerReorders, OptimizerMerges, OptimizerSplits, Rewrite, OptimizerInstalls,
     FreezeVersion
<1>3. CASE Driving
  BY <1>3 DEF Driving, DrainAtBoundary, ReplanFires, ReplanAddsNothing, ReplanAppends,
     DispatchBudgetLimited, DispatchComplete, DispatchWedged, DispatchStuck, LaunchNode,
     StartBatch
<1>4. CASE NodeRun
  BY <1>4 DEF NodeRun, SetupGoal, GoalPlanned, GoalPlanningFails, RoundContinues,
     RoundTripsBudget, GoalCompletes, GoalPausesItself, TurnGivesUp, TurnGivesUpLate,
     TurnFails, RoundEndsTurn, HarvestNode, NodeAchieved, RoundEndInconsistent, Event
<1>5. CASE BatchRun
  BY <1>5 DEF BatchRun, BatchReports, TakeReport, SettleFailed, SettleMerged,
     SettleMergeFailed, BatchSettled
<1>6. CASE Cancel \/ SendNow \/ Crash \/ UNCHANGED vars
  BY <1>6 DEF Cancel, SendNow, Crash, vars, Event
<1> QED
  BY <1>1, <1>2, <1>3, <1>4, <1>5, <1>6 DEF Next, TurnStep

\* Steps that replace the nodes: what they make of id and status.
LEMMA ReplacesShape ==
  ASSUME IndInv, DraftInv, Replaces
  PROVE  \/ \E b \in Int : /\ graph' = CreateGraph(taken["graph"] + 1, b)
                           /\ taken' = [taken EXCEPT !["graph"] = @ + 1]
         \/ graph' = NoGraph /\ pc \in Idle
         \/ \E P \in SUBSET PlannerIds : \E d \in [P -> SUBSET P] :
              /\ Nodes(graph) = {} /\ ValidPlan(P, d)
              /\ graph' = InstallNodes(graph, P, d)
         \/ \E A \in SUBSET ReplanIds : \E d \in [A -> SUBSET Ids] :
              /\ pc = "replan" /\ ValidAppendix(graph, A, d)
              /\ graph' = AppendReplanNodes(graph, A, d)
         \/ /\ pc = "rewrite" /\ DraftOf(graph, draft) /\ ValidOptimization(graph, draft)
            /\ graph' = InstallOptimizedNodes(graph, draft)
         \/ /\ graph' = FromSnapshot(saved)
            /\ taken' = [taken EXCEPT !["crash"] = @ + 1]
<1>0. TurnInv
  BY GraphFacts
<1>1. ASSUME NEW b \in Budgets, GraphSet(b)
      PROVE  /\ b \in Int /\ graph' = CreateGraph(taken["graph"] + 1, b)
             /\ taken' = [taken EXCEPT !["graph"] = @ + 1]
  BY <1>1, ModeAssumption DEF GraphSet, Persist, Take, NoLimit
<1>2. CASE GraphClear
  BY <1>2 DEF GraphClear, Persist
<1>3. ASSUME NEW P \in SUBSET PlannerIds, NEW d \in [P -> SUBSET P], InstallPlan(P, d)
      PROVE  /\ Nodes(graph) = {} /\ ValidPlan(P, d)
             /\ graph' = InstallNodes(graph, P, d)
  BY <1>0, <1>3 DEF InstallPlan, Persist, TurnInv, PlannerPc
<1>4. ASSUME NEW A \in SUBSET ReplanIds, NEW d \in [A -> SUBSET Ids], ReplanAppends(A, d)
      PROVE  /\ pc = "replan" /\ ValidAppendix(graph, A, d)
             /\ graph' = AppendReplanNodes(graph, A, d)
  BY <1>4 DEF ReplanAppends
<1>5. CASE OptimizerInstalls
  BY <1>5 DEF OptimizerInstalls, DraftInv
<1>6. CASE Crash
  BY <1>6 DEF Crash, Take
<1> QED
  BY <1>1, <1>2, <1>3, <1>4, <1>5, <1>6 DEF Replaces

\* Ids are drawn in order, across restarts.
LEMMA IdNext ==
  ASSUME IndInv, DraftInv, IdInv, [Next]_vars
  PROVE  IdInv'
<1>0. /\ graph \in GraphState /\ saved \in GraphState /\ WellFormed(graph)
      /\ WellFormed(saved) /\ taken \in [Event -> Nat]
  BY GraphFacts
<1>1. graph.id \in Nat /\ saved.id \in Nat /\ taken["graph"] \in Nat
      /\ graph.id <= taken["graph"] /\ saved.id <= taken["graph"]
  BY <1>0 DEF GraphState, Event, IdInv
<1>2. taken'["graph"] \in Nat /\ taken["graph"] <= taken'["graph"]
  <2>1. ASSUME NEW e \in Event, taken' = [taken EXCEPT ![e] = @ + 1]
        PROVE  taken'["graph"] \in {taken["graph"], taken["graph"] + 1}
    BY <1>0, <2>1 DEF Event
  <2>2. taken'["graph"] \in {taken["graph"], taken["graph"] + 1}
    BY <2>1, TakenGrows DEF Take
  <2> QED
    BY <1>1, <2>2
<1>3. graph'.id \in {graph.id, saved.id, 0} \/ graph'.id = taken'["graph"]
  <2>1. CASE GraphFollows
    BY <2>1 DEF GraphFollows, Follows
  <2>2. CASE Replaces
    <3>1. ASSUME NEW b \in Int, graph' = CreateGraph(taken["graph"] + 1, b),
                 taken' = [taken EXCEPT !["graph"] = @ + 1]
          PROVE  graph'.id = taken'["graph"]
      <4>1. PICK k \in Nat : k = taken["graph"] + 1
        BY <1>1
      <4>2. CreateGraph(k, b).id = k
        BY <3>1, CreateGraphWellFormed
      <4> QED
        BY <1>0, <3>1, <4>1, <4>2 DEF Event
    <3>2. CASE graph' = NoGraph
      BY <3>2 DEF NoGraph
    <3>3. ASSUME NEW P \in SUBSET PlannerIds, NEW d \in [P -> SUBSET P], ValidPlan(P, d),
                 graph' = InstallNodes(graph, P, d)
          PROVE  graph'.id = graph.id
      BY <1>0, <3>3, InstallNodesWellFormed
    <3>4. ASSUME NEW A \in SUBSET ReplanIds, NEW d \in [A -> SUBSET Ids],
                 ValidAppendix(graph, A, d), graph' = AppendReplanNodes(graph, A, d)
          PROVE  graph'.id = graph.id
      BY <1>0, <3>4, AppendReplanNodesWellFormed
    <3>5. CASE /\ DraftOf(graph, draft) /\ ValidOptimization(graph, draft)
               /\ graph' = InstallOptimizedNodes(graph, draft)
      BY <1>0, <3>5, InstallOptimizedNodesWellFormed
    <3>6. CASE graph' = FromSnapshot(saved)
      BY <1>0, <3>6, FromSnapshotWellFormed
    <3> QED
      BY <2>2, <3>1, <3>2, <3>3, <3>4, <3>5, <3>6, ReplacesShape
  <2> QED
    BY <2>1, <2>2, StepFollows
<1>4. graph'.id <= taken'["graph"]
  BY <1>1, <1>2, <1>3
<1>5. saved' \in {saved, graph'}
  BY StepFollows
<1> QED
  BY <1>1, <1>2, <1>4, <1>5 DEF IdInv

\* The settled nodes of a graph that is neither replaced nor restored.
LEMMA TerminalNext ==
  ASSUME IndInv, DraftInv, IdInv, [Next]_vars,
         graph'.id = graph.id, graph'.status # "None", taken'["crash"] = taken["crash"]
  PROVE  TerminalKept(graph, graph')
<1>0. /\ graph \in GraphState /\ WellFormed(graph) /\ taken \in [Event -> Nat]
  BY GraphFacts
<1>1. CASE GraphFollows
  BY <1>1 DEF GraphFollows, Follows
<1>2. CASE Replaces
  <2>1. ASSUME NEW b \in Int, graph' = CreateGraph(taken["graph"] + 1, b)
        PROVE  FALSE
    <3>1. PICK k \in Nat : k = taken["graph"] + 1
      BY <1>0 DEF Event
    <3>2. CreateGraph(k, b).id = k
      BY <2>1, CreateGraphWellFormed
    <3>3. graph.id \in Nat /\ graph.id <= taken["graph"] /\ taken["graph"] \in Nat
      BY <1>0 DEF GraphState, Event, IdInv
    <3> QED
      BY <2>1, <3>1, <3>2, <3>3
  <2>2. graph' # NoGraph
    BY DEF NoGraph
  <2>3. CASE Nodes(graph) = {}
    BY <2>3 DEF TerminalKept, Nodes, Terminal
  <2>4. ASSUME NEW A \in SUBSET ReplanIds, NEW d \in [A -> SUBSET Ids],
               ValidAppendix(graph, A, d), graph' = AppendReplanNodes(graph, A, d)
        PROVE  TerminalKept(graph, graph')
    BY <1>0, <2>4, AppendReplanNodesWellFormed DEF TerminalKept
  <2>5. CASE /\ DraftOf(graph, draft) /\ ValidOptimization(graph, draft)
             /\ graph' = InstallOptimizedNodes(graph, draft)
    BY <1>0, <2>5, InstallOptimizedNodesWellFormed DEF TerminalKept
  <2>6. ASSUME taken' = [taken EXCEPT !["crash"] = @ + 1] PROVE FALSE
    <3>1. taken["crash"] \in Nat /\ taken'["crash"] = taken["crash"] + 1
      BY <1>0, <2>6 DEF Event
    <3> QED
      BY <3>1
  <2> QED
    BY <1>2, <2>1, <2>2, <2>3, <2>4, <2>5, <2>6, ReplacesShape
<1> QED
  BY <1>1, <1>2, StepFollows

\* The ids of the two copies, in every reachable state.
THEOREM IdsInOrder == Spec => []IdInv
<1>1. Init => IdInv
  BY DEF Init, IdInv, NoGraph, Event
<1>2. IndInv /\ DraftInv /\ IdInv /\ [Next]_vars => IdInv'
  BY IdNext
<1> QED
  BY <1>1, <1>2, GraphModeInductive, PTL DEF Spec

\* A node `mark_node_achieved`, `mark_node_failed` or `block_dependents` has
\* settled is never put back into play, by no resume, replan, optimizer pass,
\* budget stop or cancel.
THEOREM SettledForever == Spec => TerminalIsForever
<1> DEFINE Kept ==
      graph'.id = graph.id /\ graph'.status # "None"
      /\ taken'["crash"] = taken["crash"]
      => \A n \in Ids \ {Final} :
           graph.st[n] \in Terminal => graph'.st[n] = graph.st[n]
<1>1. IndInv /\ DraftInv /\ IdInv /\ [Next]_vars => Kept
  BY TerminalNext DEF TerminalKept
<1>2. IndInv /\ DraftInv /\ IdInv /\ [Next]_vars => [Kept]_vars
  BY <1>1
<1> HIDE DEF Kept
<1>3. Spec => [][Kept]_vars
  BY <1>2, GraphModeInductive, IdsInOrder, PTL DEF Spec
<1> QED
  BY <1>3 DEF TerminalIsForever, Kept

-----------------------------------------------------------------------------
(* A wedge has a cause.                                                    *)

\* `recompute_ready` leaves no node waiting for nothing.
LEMMA RecomputeCloses ==
  ASSUME NEW g \in GraphState
  PROVE  LET h == RecomputeReady(g)
         IN  ReadyClosed(h) /\ h.deps = g.deps /\ Nodes(h) = Nodes(g)
<1> DEFINE h == RecomputeReady(g)
<1>1. /\ h.deps = g.deps /\ Nodes(h) = Nodes(g)
      /\ \A n \in Ids : h.st[n] = IF g.st[n] = "Waiting" /\ DepsAchieved(g, n)
                                  THEN "Ready" ELSE g.st[n]
  BY RecomputeReadyFacts
<1> HIDE DEF h
<1>2. \A n \in Ids : DepsAchieved(g, n) <=> DepsAchieved(h, n)
  BY <1>1 DEF DepsAchieved, GraphState
<1> QED
  BY <1>1, <1>2 DEF ReadyClosed, h

\* What holds of nodes and dependencies alone.
LEMMA SoundSame ==
  ASSUME NEW g, NEW h, Sound(g), h.deps = g.deps, Nodes(h) = Nodes(g), ReadyClosed(h)
  PROVE  Sound(h)
  BY DEF Sound, Acyclic

\* A graph without nodes.
LEMMA EmptySound ==
  ASSUME NEW g, Nodes(g) = {}
  PROVE  Sound(g)
<1>1. ReadyClosed(g)
  BY DEF ReadyClosed, Nodes
<1>2. \A C \in SUBSET Nodes(g) : C = {}
  OBVIOUS
<1>3. Acyclic(g)
  BY <1>2 DEF Acyclic
<1> QED
  BY <1>1, <1>3 DEF Sound

\* A nonempty set of ids has a least one.
LEMMA LeastId ==
  ASSUME NEW C \in SUBSET Ids, C # {}
  PROVE  \E n \in C : \A m \in C : ~(m < n)
<1>1. C \subseteq Nat
  BY IdsAssumption
<1>2. PICK n \in C : \A m \in C : ~(<<m, n>> \in OpToRel(<, Nat))
  BY <1>1, NatLessThanWellFounded, WFMin
<1> QED
  BY <1>1, <1>2 DEF OpToRel

\* `install_nodes`: a validated plan waits only for what is stored earlier.
LEMMA InstallSound ==
  ASSUME NEW g \in GraphState, NEW P \in SUBSET PlannerIds,
         NEW d \in [P -> SUBSET P], ValidPlan(P, d)
  PROVE  Sound(InstallNodes(g, P, d))
<1> DEFINE st1 == [n \in Ids |-> IF n \in P \cup {Final} THEN "Waiting" ELSE "Absent"]
           deps1 == [n \in Ids |-> IF n \in P THEN d[n]
                                   ELSE IF n = Final THEN P ELSE {}]
           a == [g EXCEPT !.st = st1, !.deps = deps1]
           h == InstallNodes(g, P, d)
<1>1. h = RecomputeReady(a)
  BY DEF InstallNodes
<1>2. P \subseteq Ids /\ Final \notin P /\ Final \in Ids
  BY FinalFacts
<1>3. st1 \in [Ids -> NodeStatus]
  BY DEF NodeStatus
<1>4. deps1 \in [Ids -> SUBSET Ids]
  BY <1>2
<1>5. /\ a \in GraphState /\ a.deps = deps1
  BY <1>3, <1>4 DEF GraphState
<1>6. \A n \in Ids : \A m \in a.deps[n] : m < n
  BY <1>2, <1>5, IdsAssumption DEF ValidPlan
<1> HIDE DEF a
<1>7. ReadyClosed(h) /\ h.deps = a.deps
  BY <1>1, <1>5, RecomputeCloses
<1> HIDE DEF h
<1>8. ASSUME NEW C \in SUBSET Nodes(h), C # {}, \A n \in C : h.deps[n] \cap C # {}
      PROVE  FALSE
  <2>1. C \in SUBSET Ids
    BY DEF Nodes
  <2>2. PICK n \in C : \A m \in C : ~(m < n)
    BY <1>8, <2>1, LeastId
  <2> QED
    BY <1>6, <1>7, <1>8, <2>1, <2>2
<1>9. Acyclic(h)
  BY <1>8 DEF Acyclic
<1> QED
  BY <1>7, <1>9 DEF Sound, h

\* `append_replan_nodes`: a validated appendix closes no cycle.
LEMMA AppendSound ==
  ASSUME NEW g, WellFormed(g), Sound(g), NEW A \in SUBSET ReplanIds,
         NEW d \in [A -> SUBSET Ids], ValidAppendix(g, A, d)
  PROVE  Sound(AppendReplanNodes(g, A, d))
<1> DEFINE st1 == [n \in Ids |->
                     IF n \in A THEN "Waiting"
                     ELSE IF n = Final /\ g.st[n] = "Ready" THEN "Waiting"
                     ELSE g.st[n]]
           deps1 == [n \in Ids |-> IF n \in A THEN d[n]
                                   ELSE IF n = Final THEN g.deps[n] \cup A
                                   ELSE g.deps[n]]
           v == g.version + 1
           r == g.runs + 1
           a == [g EXCEPT !.st = st1, !.deps = deps1, !.version = v, !.runs = r,
                          !.pending = "none"]
           h == AppendReplanNodes(g, A, d)
<1>1. h = RecomputeReady(a)
  BY DEF AppendReplanNodes
<1>2. /\ A \subseteq Ids /\ Final \notin A /\ Final \in Ids /\ A \cap Nodes(g) = {}
      /\ g \in GraphState
  BY FinalFacts DEF ValidAppendix, WellFormed
<1>3. v \in Nat /\ r \in Nat
  BY <1>2 DEF GraphState
<1>4. st1 \in [Ids -> NodeStatus]
  BY <1>2 DEF NodeStatus, GraphState
<1>5. deps1 \in [Ids -> SUBSET Ids]
  BY <1>2 DEF GraphState
<1> HIDE DEF v, r
<1>6. a \in GraphState /\ a.deps = deps1
  BY <1>2, <1>3, <1>4, <1>5 DEF GraphState
<1>7. \A n \in Ids : a.deps[n] = IF n \in A THEN d[n]
                                 ELSE IF n = Final THEN g.deps[n] \cup A ELSE g.deps[n]
  BY <1>6
<1> HIDE DEF a
<1>8. ReadyClosed(h) /\ h.deps = a.deps
  BY <1>1, <1>6, RecomputeCloses
<1>9. Nodes(h) = Nodes(g) \cup A /\ WellFormed(h)
  BY AppendReplanNodesWellFormed
<1> HIDE DEF h
<1>10. ASSUME NEW C \in SUBSET Nodes(h), C # {}, \A n \in C : h.deps[n] \cap C # {}
       PROVE  FALSE
  <2>1. \A n \in Ids : Final \notin h.deps[n]
    BY <1>9 DEF WellFormed, FinalIsLast
  <2>2. ASSUME NEW n \in Nodes(g) \ {Final}
        PROVE  h.deps[n] = g.deps[n] /\ g.deps[n] \subseteq Nodes(g) \ {Final}
    <3>1. n \in Ids /\ n \notin A
      BY <1>2 DEF Nodes
    <3>2. h.deps[n] = g.deps[n]
      BY <1>7, <1>8, <3>1
    <3>3. g.deps[n] \subseteq Nodes(g)
      BY <3>1 DEF WellFormed, DepsResolve
    <3> QED
      BY <2>1, <3>1, <3>2, <3>3
  <2> DEFINE K == C \cap (Nodes(g) \ {Final})
             L == C \cap A
  <2>3. K = {}
    <3>1. \A n \in K : g.deps[n] \cap K # {}
      BY <1>10, <2>2
    <3>2. K \in SUBSET Nodes(g)
      OBVIOUS
    <3> HIDE DEF K
    <3> QED
      BY <3>1, <3>2 DEF Sound, Acyclic
  <2>4. \A n \in C : n \in Ids
    BY DEF Nodes
  <2>5. ASSUME NEW n \in L PROVE d[n] \cap L # {}
    <3>1. h.deps[n] = d[n]
      BY <1>7, <1>8, <2>4
    <3>2. PICK m \in d[n] : m \in C
      BY <1>10, <3>1
    <3>3. m # Final
      BY <2>1, <2>4, <3>1, <3>2
    <3> QED
      BY <1>9, <2>3, <3>2, <3>3
  <2>6. L = {}
    <3>1. L \in SUBSET A
      OBVIOUS
    <3> HIDE DEF L
    <3> QED
      BY <2>5, <3>1 DEF ValidAppendix
  <2>7. C = {Final}
    BY <1>9, <1>10, <2>3, <2>6
  <2> QED
    BY <1>2, <1>10, <2>1, <2>7
<1>11. Acyclic(h)
  BY <1>10 DEF Acyclic
<1> QED
  BY <1>8, <1>11 DEF Sound, h

\* `install_optimized_nodes` of a checked draft.
LEMMA OptimizeSound ==
  ASSUME NEW g, WellFormed(g), NEW x, DraftOf(g, x), ValidOptimization(g, x)
  PROVE  Sound(InstallOptimizedNodes(g, x))
<1> DEFINE st1 == [n \in Ids |-> IF n \in Pending(x) THEN "Waiting" ELSE x.st[n]]
           y == WithGate(x)
           v == g.version + 1
           r == g.runs + 1
           a == [g EXCEPT !.deps = y.deps, !.st = st1, !.version = v, !.runs = r]
           h == InstallOptimizedNodes(g, x)
<1>1. h = RecomputeReady(a)
  BY DEF InstallOptimizedNodes
<1>2. g \in GraphState /\ Final \in Ids /\ v \in Nat /\ r \in Nat
  BY FinalFacts DEF WellFormed, GraphState
<1>3. x \in Drafts /\ x.st \in [Ids -> NodeStatus] /\ x.deps \in [Ids -> SUBSET Ids]
  BY DEF DraftOf, Drafts
<1>4. st1 \in [Ids -> NodeStatus]
  BY <1>3 DEF NodeStatus
<1>5. y.deps = [x.deps EXCEPT ![Final] = Nodes(x) \ {Final}] /\ y.st = x.st
  BY <1>3 DEF WithGate, Drafts
<1>6. y.deps \in [Ids -> SUBSET Ids]
  BY <1>3, <1>5 DEF Nodes
<1>7. Acyclic(y)
  BY DEF ValidOptimization
<1> HIDE DEF v, r, y
<1>8. a \in GraphState /\ a.st = st1 /\ a.deps = y.deps
  BY <1>2, <1>4, <1>6 DEF GraphState
<1>9. Nodes(a) = Nodes(y)
  BY <1>3, <1>5, <1>8 DEF Nodes, Pending
<1> HIDE DEF a
<1>10. ReadyClosed(h) /\ h.deps = y.deps /\ Nodes(h) = Nodes(y)
  BY <1>1, <1>8, <1>9, RecomputeCloses
<1> HIDE DEF h
<1> QED
  BY <1>7, <1>10 DEF Sound, Acyclic, h

\* Both copies stay sound.
LEMMA SoundNext ==
  ASSUME IndInv, DraftInv, SoundInv, [Next]_vars
  PROVE  SoundInv'
<1>0. /\ graph \in GraphState /\ WellFormed(graph) /\ WellFormed(saved)
      /\ Sound(graph) /\ Sound(saved) /\ taken["graph"] \in Nat
  BY GraphFacts DEF SoundInv, Event
<1>1. CASE GraphFollows
  <2>1. ReadyClosed(graph) /\ Acyclic(graph)
    BY <1>0 DEF Sound
  <2>2. graph'.deps = graph.deps /\ Nodes(graph') = Nodes(graph) /\ ReadyClosed(graph')
    BY <1>1, <2>1 DEF GraphFollows, Follows
  <2> QED
    BY <1>0, <2>2, SoundSame, StepFollows DEF SoundInv
<1>2. CASE Replaces
  <2>1. ASSUME NEW b \in Int, graph' = CreateGraph(taken["graph"] + 1, b)
        PROVE  Sound(graph')
    <3>1. PICK k \in Nat : k = taken["graph"] + 1
      BY <1>0
    <3>2. Nodes(CreateGraph(k, b)) = {}
      BY CreateGraphWellFormed
    <3> QED
      BY <2>1, <3>1, <3>2, EmptySound
  <2>2. ASSUME graph' = NoGraph PROVE Sound(graph')
    BY <2>2, NoGraphWellFormed, EmptySound
  <2>3. ASSUME NEW P \in SUBSET PlannerIds, NEW d \in [P -> SUBSET P], ValidPlan(P, d),
               graph' = InstallNodes(graph, P, d)
        PROVE  Sound(graph')
    BY <1>0, <2>3, InstallSound
  <2>4. ASSUME NEW A \in SUBSET ReplanIds, NEW d \in [A -> SUBSET Ids],
               ValidAppendix(graph, A, d), graph' = AppendReplanNodes(graph, A, d)
        PROVE  Sound(graph')
    BY <1>0, <2>4, AppendSound
  <2>5. ASSUME DraftOf(graph, draft), ValidOptimization(graph, draft),
               graph' = InstallOptimizedNodes(graph, draft)
        PROVE  Sound(graph')
    BY <1>0, <2>5, OptimizeSound
  <2>6. ASSUME graph' = FromSnapshot(saved) PROVE Sound(graph')
    <3>1. Follows(saved, FromSnapshot(saved))
      BY <1>0, RestartMoves DEF Moves
    <3>2. ReadyClosed(saved)
      BY <1>0 DEF Sound
    <3>3. /\ graph'.deps = saved.deps /\ Nodes(graph') = Nodes(saved)
          /\ ReadyClosed(graph')
      BY <2>6, <3>1, <3>2 DEF Follows
    <3> QED
      BY <1>0, <3>3, SoundSame
  <2>7. Sound(graph')
    BY <1>2, <2>1, <2>2, <2>3, <2>4, <2>5, <2>6, ReplacesShape
  <2> QED
    BY <1>0, <2>7, StepFollows DEF SoundInv
<1> QED
  BY <1>1, <1>2, StepFollows

\* Where no node is failed, one that waits waits for another that does.
LEMMA WedgeCause ==
  ASSUME NEW g, WellFormed(g), Sound(g), IsWedged(g)
  PROVE  \E n \in Ids : g.st[n] \in Dead
<1> SUFFICES ASSUME \A n \in Ids : g.st[n] \notin Dead
             PROVE  FALSE
  OBVIOUS
<1> DEFINE C == {n \in Ids : g.st[n] = "Waiting"}
<1>1. g \in GraphState
  BY DEF WellFormed
<1>2. \A n \in Nodes(g) : g.st[n] \in {"Waiting", "Achieved"}
  BY <1>1 DEF GraphState, NodeStatus, Terminal, Dead, IsWedged, Nodes
<1>3. C \in SUBSET Nodes(g) /\ C # {}
  BY <1>2 DEF IsWedged, Nodes
<1>4. ASSUME NEW n \in C PROVE g.deps[n] \cap C # {}
  <2>1. PICK m \in g.deps[n] : g.st[m] # "Achieved"
    BY <1>4 DEF Sound, ReadyClosed, DepsAchieved
  <2>2. m \in Nodes(g)
    BY DEF WellFormed, DepsResolve
  <2> QED
    BY <1>2, <2>1, <2>2 DEF Nodes
<1> HIDE DEF C
<1> QED
  BY <1>3, <1>4 DEF Sound, Acyclic

\* No planner artifact, replan, optimizer rewrite, restart or cancel ever
\* leaves nodes that wait for each other: when `drive_graph` reports a wedge,
\* a failed or blocked node is the cause.
THEOREM WedgeIsFailure == Spec => []WedgeHasCause
<1>1. Init => SoundInv
  BY EmptySound, NoGraphWellFormed DEF Init, SoundInv
<1>2. IndInv /\ DraftInv /\ SoundInv /\ [Next]_vars => SoundInv'
  BY SoundNext
<1>3. IndInv /\ SoundInv => WedgeHasCause
  BY WedgeCause, GraphFacts DEF SoundInv, WedgeHasCause
<1> QED
  BY <1>1, <1>2, <1>3, GraphModeInductive, PTL DEF Spec

-----------------------------------------------------------------------------
(* The ledger.                                                             *)

\* From g to h nothing is booked and no node is put on the engine.
KeepsBooks(g, h) ==
  /\ h.spent = g.spent /\ h.current \in {g.current, NoNode}
  /\ Retired(g) => Retired(h)

\* The engine's goal neither burns nor changes hands.
KeepsEngine ==
  /\ goal'.used \in {0, goal.used} /\ burnt' = burnt
  /\ Live(goal') => Live(goal) /\ goal'.owner = goal.owner

\* The types of the numbers the ledger compares.
LEMMA LedgerTypes ==
  ASSUME IndInv
  PROVE  /\ graph.spent \in Int /\ saved.spent \in Int /\ goal.used \in Int
         /\ burnt \in Int /\ Cost \in Int /\ Cost >= 0
  BY GraphFacts, ModeAssumption DEF GraphState, GoalState

\* How the ledger is kept by a step outside a batch.
LEMMA BooksStep ==
  ASSUME IndInv, OwnerInv, LedgerInv, saved' \in {saved, graph'}, Retired(graph'),
         graph'.current # NoNode /\ Live(goal') => goal'.owner = graph'.current,
         burnt' \in Int, goal'.used \in Int, graph'.spent \in Int,
         burnt <= burnt', goal'.used >= 0, graph'.spent <= burnt',
         graph'.current # NoNode => graph'.spent + goal'.used <= burnt',
         pc' \notin BatchPc, pc' \in DrivenPc => graph'.status = "Active"
  PROVE  OwnerInv' /\ LedgerInv'
<1>1. OwnerInv'
  BY DEF OwnerInv
<1>2. saved'.spent <= burnt' /\ burnt' >= 0
  BY LedgerTypes DEF LedgerInv
<1>3. pc' \notin {"settle", "merge"}
  BY DEF BatchPc
<1> QED
  BY <1>1, <1>2, <1>3 DEF LedgerInv

\* A step that neither books nor burns.
LEMMA BooksRest ==
  ASSUME IndInv, OwnerInv, LedgerInv, saved' \in {saved, graph'},
         KeepsBooks(graph, graph'), KeepsEngine, pc' \notin BatchPc,
         pc' \in DrivenPc => graph'.status = "Active"
  PROVE  OwnerInv' /\ LedgerInv'
<1>1. /\ graph'.spent = graph.spent /\ graph'.current \in {graph.current, NoNode}
      /\ Retired(graph')
  BY DEF KeepsBooks, OwnerInv
<1>2. /\ goal'.used \in Int /\ goal'.used >= 0 /\ goal'.used <= goal.used /\ burnt' = burnt
  BY LedgerTypes DEF KeepsEngine, LedgerInv
<1>3. graph'.current # NoNode /\ Live(goal') => goal'.owner = graph'.current
  BY <1>1 DEF KeepsEngine, OwnerInv
<1>4. graph'.spent <= burnt' /\ (graph'.current # NoNode => graph'.spent + goal'.used <= burnt')
  BY <1>1, <1>2, LedgerTypes DEF LedgerInv
<1>5. graph'.spent \in Int /\ burnt' \in Int /\ burnt <= burnt'
  BY <1>1, <1>2, LedgerTypes
<1> QED
  BY <1>1, <1>2, <1>3, <1>4, <1>5, BooksStep

\* The transitions that book nothing.
LEMMA BooksKept ==
  ASSUME NEW g, WellFormed(g)
  PROVE  /\ KeepsBooks(g, g) /\ KeepsBooks(g, Pause(g))
         /\ KeepsBooks(g, QueueDiscoveries(g)) /\ KeepsBooks(g, DrainDiscoveries(g))
         /\ KeepsBooks(g, [DrainDiscoveries(g) EXCEPT !.runs = @ + 1])
         /\ KeepsBooks(g, BudgetLimit(g))
         /\ KeepsBooks(g, FromSnapshot(g))
<1>1. KeepsBooks(g, g)
  BY DEF KeepsBooks
<1>2. KeepsBooks(g, Pause(g))
  <2>1. Pause(g).spent = g.spent
    BY PauseMoves DEF Moves
  <2> QED
    BY <2>1, PauseMoves DEF KeepsBooks, Retired
<1>3. ASSUME NEW h \in {QueueDiscoveries(g), DrainDiscoveries(g),
                         [DrainDiscoveries(g) EXCEPT !.runs = @ + 1]}
      PROVE  KeepsBooks(g, h)
  <2>1. h.spent = g.spent
    BY <1>3, DiscoveriesMove DEF Moves
  <2>2. h.current = g.current /\ h.status = g.status
    BY <1>3, DiscoveriesMove
  <2> QED
    BY <2>1, <2>2 DEF KeepsBooks, Retired
<1>4. KeepsBooks(g, BudgetLimit(g))
  <2>1. CASE g.status # "Active"
    BY <1>1, <2>1 DEF BudgetLimit
  <2>2. CASE g.status = "Active"
    <3>1. BudgetLimit(g).spent = g.spent
      BY <2>2, BudgetLimitMoves DEF Moves
    <3> QED
      BY <2>2, <3>1, BudgetLimitMoves DEF KeepsBooks, Retired
  <2> QED
    BY <2>1, <2>2
<1>5. KeepsBooks(g, FromSnapshot(g))
  <2>1. FromSnapshot(g).spent = g.spent
    BY RestartMoves DEF Moves
  <2> QED
    BY <1>1, <2>1, RestartMoves DEF KeepsBooks, Retired
<1> QED
  BY <1>1, <1>2, <1>3, <1>4, <1>5

\* The steps that replace the nodes of a graph book nothing.
LEMMA ReplacedBooks ==
  ASSUME NEW g, WellFormed(g)
  PROVE  /\ \A P \in SUBSET PlannerIds : \A d \in [P -> SUBSET P] :
              ValidPlan(P, d) => KeepsBooks(g, InstallNodes(g, P, d))
         /\ \A A \in SUBSET ReplanIds : \A d \in [A -> SUBSET Ids] :
              ValidAppendix(g, A, d) => KeepsBooks(g, AppendReplanNodes(g, A, d))
         /\ \A x : DraftOf(g, x) /\ ValidOptimization(g, x) =>
              KeepsBooks(g, InstallOptimizedNodes(g, x))
<1>0. g \in GraphState
  BY DEF WellFormed
<1>1. ASSUME NEW P \in SUBSET PlannerIds, NEW d \in [P -> SUBSET P], ValidPlan(P, d)
      PROVE  KeepsBooks(g, InstallNodes(g, P, d))
  <2>1. PICK h : h = InstallNodes(g, P, d)
    OBVIOUS
  <2>2. h.spent = g.spent
    BY <1>0, <2>1 DEF InstallNodes, RecomputeReady, GraphState
  <2>3. h.current = g.current /\ h.status = g.status
    BY <1>0, <1>1, <2>1, InstallNodesWellFormed
  <2> QED
    BY <2>1, <2>2, <2>3 DEF KeepsBooks, Retired
<1>2. ASSUME NEW A \in SUBSET ReplanIds, NEW d \in [A -> SUBSET Ids],
             ValidAppendix(g, A, d)
      PROVE  KeepsBooks(g, AppendReplanNodes(g, A, d))
  <2>1. PICK h : h = AppendReplanNodes(g, A, d)
    OBVIOUS
  <2>2. h.spent = g.spent
    BY <1>0, <2>1 DEF AppendReplanNodes, RecomputeReady, GraphState
  <2>3. h.current = g.current /\ h.status = g.status
    BY <1>2, <2>1, AppendReplanNodesWellFormed
  <2> QED
    BY <2>1, <2>2, <2>3 DEF KeepsBooks, Retired
<1>3. ASSUME NEW x, DraftOf(g, x), ValidOptimization(g, x)
      PROVE  KeepsBooks(g, InstallOptimizedNodes(g, x))
  <2>1. PICK h : h = InstallOptimizedNodes(g, x)
    OBVIOUS
  <2>2. h.spent = g.spent
    BY <1>0, <2>1 DEF InstallOptimizedNodes, RecomputeReady, GraphState
  <2>3. h.current = g.current /\ h.status = g.status
    BY <1>3, <2>1, InstallOptimizedNodesWellFormed
  <2> QED
    BY <2>1, <2>2, <2>3 DEF KeepsBooks, Retired
<1> QED
  BY <1>1, <1>2, <1>3

\* What pausing, clearing or merely leaving the goal makes of the engine.
LEMMA EngineKept ==
  ASSUME IndInv, burnt' = burnt,
         \/ goal' \in {goal, NoGoal, PauseGoal(goal), [goal EXCEPT !.planned = "yes"]}
         \/ goal.status = "Paused" /\ goal' = [goal EXCEPT !.status = "Active"]
  PROVE  KeepsEngine
<1>1. goal \in GoalState
  BY GraphFacts
<1>2. CASE goal' = NoGoal
  BY <1>2 DEF KeepsEngine, NoGoal, Live
<1>3. CASE goal' \in {goal, PauseGoal(goal), [goal EXCEPT !.planned = "yes"]}
  BY <1>1, <1>3 DEF KeepsEngine, Live, GoalState, PauseGoal
<1>4. CASE goal.status = "Paused" /\ goal' = [goal EXCEPT !.status = "Active"]
  BY <1>1, <1>4 DEF KeepsEngine, Live, GoalState
<1> QED
  BY <1>2, <1>3, <1>4

\* The commands.
LEMMA CommandBooks ==
  ASSUME IndInv, OwnerInv, LedgerInv, Command
  PROVE  OwnerInv' /\ LedgerInv'
<1>0. WellFormed(graph) /\ graph \in GraphState /\ taken["graph"] \in Nat
      /\ goal \in GoalState /\ NoNode \notin Ids
  BY GraphFacts, FinalFacts DEF Event
<1>1. ASSUME NEW b \in Budgets, GraphSet(b)
      PROVE  OwnerInv' /\ LedgerInv'
  <2>1. b \in Int /\ taken["graph"] + 1 \in Nat
    BY <1>0, ModeAssumption DEF NoLimit
  <2>2. PICK h : h = CreateGraph(taken["graph"] + 1, b)
    OBVIOUS
  <2>3. h.current = NoNode /\ h.status = "Active"
    BY <2>1, <2>2, CreateGraphWellFormed
  <2>4. h.spent = 0
    BY <2>2 DEF CreateGraph, NoGraph
  <2>5. graph' = h /\ saved' \in {saved, h} /\ goal' = goal /\ burnt' = burnt /\ pc' = "plan"
    BY <1>1, <2>2 DEF GraphSet, Persist
  <2>6. Retired(graph') /\ pc' \notin BatchPc
    BY <2>3, <2>5 DEF Retired, BatchPc
  <2>7. burnt >= 0 /\ goal.used >= 0
    BY DEF LedgerInv
  <2> QED
    BY <2>3, <2>4, <2>5, <2>6, <2>7, LedgerTypes, BooksStep
<1>2. CASE GraphResume
  <2>1. PICK keep : keep = IF goal.status = "None" THEN NoNode ELSE graph.current
    OBVIOUS
  <2>2. keep \in Ids \cup {NoNode} /\ keep \in {graph.current, NoNode}
    BY <1>0, <2>1 DEF GraphState
  <2>3. PICK h : h = DemoteOrphanedInFlight(Resume(graph), keep)
    OBVIOUS
  <2>4. graph' = h /\ saved' \in {saved, h}
    BY <1>2, <2>1, <2>3 DEF GraphResume, Persist
  <2>5. h.current = keep /\ h.status = "Active"
    BY <1>0, <2>2, <2>3, ResumeMoves
  <2>6. h.spent = graph.spent
    BY <1>0, <2>2, <2>3, ResumeMoves DEF Moves
  <2>7. KeepsBooks(graph, graph')
    BY <2>2, <2>4, <2>5, <2>6 DEF KeepsBooks, Retired
  <2>8. KeepsEngine
    BY <1>2, EngineKept DEF GraphResume
  <2>9. pc' \notin BatchPc
    BY <1>2 DEF GraphResume, BatchPc
  <2> QED
    BY <2>4, <2>5, <2>7, <2>8, <2>9, BooksRest
<1>3. ASSUME NEW extra \in TopUps, GraphTopUp(extra)
      PROVE  OwnerInv' /\ LedgerInv'
  <2>1. extra \in Int /\ graph.current = NoNode
    BY <1>3, ModeAssumption DEF GraphTopUp, OwnerInv, Retired
  <2>2. PICK h : h = ResumeBudgetLimited(graph, extra)
    OBVIOUS
  <2>3. graph' = h /\ saved' \in {saved, h}
    BY <1>3, <2>2 DEF GraphTopUp, Persist
  <2>4. h.current = graph.current /\ h.status = "Active"
    BY <1>0, <2>1, <2>2, TopUpMoves
  <2>5. h.spent = graph.spent
    BY <1>0, <2>1, <2>2, TopUpMoves DEF Moves
  <2>6. KeepsBooks(graph, graph')
    BY <2>1, <2>3, <2>4, <2>5 DEF KeepsBooks, Retired
  <2>7. KeepsEngine /\ pc' \notin BatchPc
    BY <1>3, EngineKept DEF GraphTopUp, BatchPc
  <2> QED
    BY <2>3, <2>4, <2>6, <2>7, BooksRest
<1>4. CASE GraphPause
  <2>1. KeepsEngine /\ pc' \notin BatchPc \cup DrivenPc
    BY <1>4, EngineKept DEF GraphPause, EndTurn, BatchPc, DrivenPc, EnginePc, DriverPc, PlannerPc
  <2> QED
    BY <1>0, <1>4, <2>1, BooksKept, BooksRest DEF GraphPause, Persist
<1>5. CASE GraphClear
  <2>1. KeepsEngine /\ pc' \notin BatchPc \cup DrivenPc
    BY <1>5, EngineKept DEF GraphClear, EndTurn, BatchPc, DrivenPc, EnginePc, DriverPc, PlannerPc
  <2>2. graph' = NoGraph /\ saved' \in {saved, graph'}
    BY <1>5 DEF GraphClear, Persist
  <2>3. graph'.spent = 0 /\ graph'.current = NoNode /\ Retired(graph')
    BY <2>2 DEF NoGraph, Retired
  <2>4. burnt' = burnt /\ burnt >= 0 /\ goal'.used \in Int /\ goal'.used >= 0
    BY <2>1, LedgerTypes DEF KeepsEngine, LedgerInv
  <2> QED
    BY <2>1, <2>2, <2>3, <2>4, LedgerTypes, BooksStep
<1>6. ASSUME NEW b \in Budgets, GoalSet(b)
      PROVE  OwnerInv' /\ LedgerInv'
  <2>1. graph' = graph /\ saved' = saved /\ burnt' = burnt /\ graph.current = NoNode
        /\ Retired(graph') /\ pc' \notin BatchPc \cup DrivenPc
    BY <1>6 DEF GoalSet, OwnerInv, Retired, GraphOwnsGoalEngine, BatchPc, DrivenPc, EnginePc, DriverPc, PlannerPc
  <2>2. goal'.used = 0
    BY <1>6 DEF GoalSet, NoGoal
  <2>3. graph.spent <= burnt
    BY DEF LedgerInv
  <2> QED
    BY <2>1, <2>2, <2>3, LedgerTypes, BooksStep
<1>7. CASE GoalResume
  <2>1. KeepsEngine /\ pc' \notin BatchPc \cup DrivenPc
    BY <1>7, EngineKept DEF GoalResume, BatchPc, DrivenPc, EnginePc, DriverPc, PlannerPc
  <2> QED
    BY <1>0, <1>7, <2>1, BooksKept, BooksRest DEF GoalResume
<1>8. CASE GoalPause \/ GoalClear \/ UserPrompt
  <2>1. KeepsEngine /\ pc' \notin BatchPc \cup DrivenPc
    BY <1>8, EngineKept DEF GoalPause, GoalClear, UserPrompt, EndTurn, BatchPc, DrivenPc, EnginePc, DriverPc, PlannerPc
  <2> QED
    BY <1>0, <1>8, <2>1, BooksKept, BooksRest DEF GoalPause, GoalClear, UserPrompt
<1> QED
  BY <1>1, <1>2, <1>3, <1>4, <1>5, <1>6, <1>7, <1>8 DEF Command

\* Planning and the optimizer.
LEMMA PlanningBooks ==
  ASSUME IndInv, DraftInv, OwnerInv, LedgerInv, Planning
  PROVE  OwnerInv' /\ LedgerInv'
<1>0. WellFormed(graph)
  BY GraphFacts
<1>1. goal' = goal /\ burnt' = burnt /\ pc' \notin BatchPc
  BY DEF Planning, PlanningFails, PlanningSucceeds, BaselineWritten, BaselineFails,
     InstallPlan, OptimizerKeepsPlan, OptimizerProposes, OptimizerRemovesDep,
     OptimizerReorders, OptimizerMerges, OptimizerSplits, Rewrite, OptimizerInstalls,
     FreezeVersion, EndTurn, BatchPc
<1>2. KeepsEngine
  BY <1>1, EngineKept
<1>3. saved' \in {saved, graph'}
  BY PlanningFollows
<1>3a. pc \in DrivenPc /\ graph.status = "Active"
  <2>1. pc \in DrivenPc
    BY DEF Planning, PlanningFails, PlanningSucceeds, BaselineWritten, BaselineFails,
       InstallPlan, OptimizerKeepsPlan, OptimizerProposes, OptimizerRemovesDep,
       OptimizerReorders, OptimizerMerges, OptimizerSplits, Rewrite, OptimizerInstalls,
       FreezeVersion, DrivenPc, EnginePc, DriverPc, PlannerPc
  <2> QED
    BY <2>1 DEF OwnerInv
<1>4. /\ KeepsBooks(graph, graph')
      /\ pc' \in DrivenPc => graph'.status = "Active"
  <2>1. CASE PlanningFails \/ BaselineFails
    BY <1>0, <2>1, BooksKept DEF PlanningFails, BaselineFails, Persist, EndTurn, DrivenPc,
       EnginePc, DriverPc, PlannerPc
  <2>1a. CASE FreezeVersion
    BY <1>0, <1>3a, <2>1a, BooksKept DEF FreezeVersion, Persist
  <2>2. CASE PlanningSucceeds \/ BaselineWritten \/ OptimizerKeepsPlan \/ OptimizerProposes
    BY <1>0, <1>3a, <2>2, BooksKept DEF PlanningSucceeds, BaselineWritten, OptimizerKeepsPlan,
       OptimizerProposes
  <2>3. CASE \/ \E n, m \in Ids : \/ OptimizerRemovesDep(n, m)
                                \/ OptimizerReorders(n, m) \/ OptimizerMerges(n, m)
             \/ \E n \in Ids : \E A \in Replacements(draft) :
                  \E d \in [A -> SUBSET SplitDeps(draft, n, A)] : OptimizerSplits(n, A, d)
    BY <1>0, <1>3a, <2>3, BooksKept DEF OptimizerRemovesDep, OptimizerReorders, OptimizerMerges,
       OptimizerSplits, Rewrite
  <2>4. CASE OptimizerInstalls
    <3>1. DraftOf(graph, draft) /\ ValidOptimization(graph, draft)
          /\ graph' = InstallOptimizedNodes(graph, draft)
      BY <2>4 DEF OptimizerInstalls, DraftInv
    <3> QED
      BY <1>0, <1>3a, <3>1, ReplacedBooks, InstallOptimizedNodesWellFormed
  <2>5. ASSUME NEW P \in SUBSET PlannerIds, NEW d \in [P -> SUBSET P], InstallPlan(P, d)
        PROVE  KeepsBooks(graph, graph') /\ graph'.status = "Active"
    <3>1. ValidPlan(P, d) /\ graph' = InstallNodes(graph, P, d) /\ graph \in GraphState
      BY <2>5, GraphFacts DEF InstallPlan, Persist
    <3> QED
      BY <1>0, <1>3a, <3>1, ReplacedBooks, InstallNodesWellFormed
  <2> QED
    BY <2>1, <2>1a, <2>2, <2>3, <2>4, <2>5 DEF Planning
<1> QED
  BY <1>1, <1>2, <1>3, <1>4, BooksRest

\* The dispatch loop.
LEMMA DrivingBooks ==
  ASSUME IndInv, OwnerInv, LedgerInv, Driving
  PROVE  OwnerInv' /\ LedgerInv'
<1>0. WellFormed(graph) /\ graph \in GraphState
  BY GraphFacts
<1>1. graph.status = "Active"
  <2>1. pc \in DrivenPc
    BY DEF Driving, DrainAtBoundary, ReplanFires, ReplanAddsNothing, ReplanAppends,
       DispatchBudgetLimited, DispatchComplete, DispatchWedged, DispatchStuck, LaunchNode,
       StartBatch, NothingReady, Dispatching, DrivenPc, EnginePc, DriverPc
  <2> QED
    BY <2>1 DEF OwnerInv
<1>2. CASE DrainAtBoundary \/ ReplanAddsNothing
  <2>1. goal' = goal /\ burnt' = burnt /\ pc' \notin BatchPc
    BY <1>2 DEF DrainAtBoundary, ReplanAddsNothing, BatchPc
  <2>2. KeepsBooks(graph, graph') /\ saved' \in {saved, graph'}
    BY <1>0, <1>2, BooksKept DEF DrainAtBoundary, ReplanAddsNothing, Persist
  <2>3. graph'.status = "Active"
    BY <1>0, <1>1, <1>2, DiscoveriesMove DEF DrainAtBoundary, ReplanAddsNothing, Persist
  <2> QED
    BY <2>1, <2>2, <2>3, EngineKept, BooksRest
<1>3. CASE ReplanFires \/ DispatchWedged \/ DispatchStuck \/ DispatchBudgetLimited
  <2>1. goal' = goal /\ burnt' = burnt /\ pc' \notin BatchPc
    BY <1>3 DEF ReplanFires, DispatchWedged, DispatchStuck, DispatchBudgetLimited, EndTurn,
       BatchPc
  <2>2. KeepsBooks(graph, graph') /\ saved' \in {saved, graph'}
    BY <1>0, <1>3, BooksKept DEF ReplanFires, DispatchWedged, DispatchStuck,
       DispatchBudgetLimited, Persist
  <2>3. pc' \in DrivenPc => graph'.status = "Active"
    BY <1>1, <1>3 DEF ReplanFires, DispatchWedged, DispatchStuck, DispatchBudgetLimited,
       EndTurn, DrivenPc, EnginePc, DriverPc, PlannerPc
  <2> QED
    BY <2>1, <2>2, <2>3, EngineKept, BooksRest
<1>4. ASSUME NEW A \in SUBSET ReplanIds, NEW d \in [A -> SUBSET Ids], ReplanAppends(A, d)
      PROVE  OwnerInv' /\ LedgerInv'
  <2>1. goal' = goal /\ burnt' = burnt /\ pc' \notin BatchPc /\ saved' = saved
        /\ ValidAppendix(graph, A, d) /\ graph' = AppendReplanNodes(graph, A, d)
    BY <1>4 DEF ReplanAppends, BatchPc
  <2>2. KeepsBooks(graph, graph') /\ graph'.status = "Active"
    BY <1>0, <1>1, <2>1, ReplacedBooks, AppendReplanNodesWellFormed
  <2> QED
    BY <2>1, <2>2, EngineKept, BooksRest
<1>5. CASE DispatchComplete
  <2>1. goal' = NoGoal /\ burnt' = burnt /\ pc' \notin BatchPc \cup DrivenPc
        /\ AllAchieved(graph) /\ graph' = Complete(graph) /\ saved' \in {saved, graph'}
    BY <1>5 DEF DispatchComplete, EndTurn, BatchPc, Persist, DrivenPc, EnginePc, DriverPc,
       PlannerPc
  <2>2. graph.current = NoNode
    BY <2>1, GraphFacts DEF AllAchieved
  <2>3. Complete(graph).current = graph.current
    BY <1>0, CompleteMoves
  <2>4. Complete(graph).spent = graph.spent
    BY <1>0, CompleteMoves DEF Moves
  <2>5. KeepsBooks(graph, graph')
    BY <2>1, <2>2, <2>3, <2>4 DEF KeepsBooks, Retired
  <2> QED
    BY <2>1, <2>5, EngineKept, BooksRest
<1>6. ASSUME NEW n \in Ids, LaunchNode(n)
      PROVE  OwnerInv' /\ LedgerInv'
  <2>1. graph.st[n] = "Ready" /\ pc' \notin BatchPc /\ goal' = NoGoal /\ burnt' = burnt
        /\ graph' = MarkNodeRunning(graph, n) /\ saved' \in {saved, graph'}
    BY <1>6 DEF LaunchNode, IsNextReady, ReadyNodes, BatchPc, Persist
  <2>2. PICK h : h = MarkNodeRunning(graph, n)
    OBVIOUS
  <2>3. h.current = n /\ h.status = graph.status
    BY <1>0, <2>1, <2>2, RunningMoves
  <2>4. h.spent = graph.spent
    BY <1>0, <2>1, <2>2, RunningMoves DEF Moves
  <2>5. goal'.used = 0 /\ ~Live(goal')
    BY <2>1 DEF NoGoal, Live
  <2>6. graph.spent <= burnt
    BY DEF LedgerInv
  <2>7. Retired(graph') /\ graph'.status = "Active"
    BY <1>1, <2>1, <2>2, <2>3 DEF Retired
  <2> QED
    BY <2>1, <2>2, <2>3, <2>4, <2>5, <2>6, <2>7, LedgerTypes, BooksStep
<1>7. CASE StartBatch
  <2>1. goal' = goal /\ burnt' = burnt /\ pc' = "batch"
    BY <1>7 DEF StartBatch
  <2>2. graph'.current = NoNode /\ graph'.status = "Active" /\ saved' \in {saved, graph'}
    BY <1>1, <1>7, StartBatchMoves
  <2>3. graph'.spent = graph.spent
    BY <1>7, StartBatchMoves DEF Moves
  <2>4. OwnerInv'
    BY <2>1, <2>2 DEF OwnerInv, Retired
  <2>5. LedgerInv'
    BY <2>1, <2>2, <2>3 DEF LedgerInv
  <2> QED
    BY <2>4, <2>5
<1> QED
  BY <1>2, <1>3, <1>4, <1>5, <1>6, <1>7 DEF Driving

\* A round's tokens reach the node the round ran for.
LEMMA RoundBurns ==
  ASSUME IndInv, OwnerInv, LedgerInv, goal.status = "Active",
         NEW s \in GraphStatus,
         goal' = [goal EXCEPT !.used = @ + Cost, !.status = s],
         burnt' = IF goal.owner = NoNode THEN burnt ELSE burnt + Cost
  PROVE  /\ goal'.used = goal.used + Cost /\ goal'.owner = goal.owner
         /\ burnt' \in Int /\ burnt <= burnt'
         /\ graph.current # NoNode => burnt' = burnt + Cost
<1>1. goal \in GoalState /\ NoNode \notin Ids
  BY GraphFacts, FinalFacts
<1>2. goal'.used = goal.used + Cost /\ goal'.owner = goal.owner
  BY <1>1 DEF GoalState
<1>3. graph.current # NoNode => goal.owner # NoNode
  BY DEF OwnerInv, Live
<1> QED
  BY <1>2, <1>3, LedgerTypes

\* A serial node.
LEMMA NodeRunBooks ==
  ASSUME IndInv, OwnerInv, LedgerInv, NodeRun
  PROVE  OwnerInv' /\ LedgerInv'
<1>0. WellFormed(graph) /\ graph \in GraphState /\ goal \in GoalState
  BY GraphFacts
<1>1. CASE SetupGoal
  <2>1. graph' = graph /\ saved' = saved /\ burnt' = burnt /\ pc' \notin BatchPc \cup DrivenPc
    BY <1>1 DEF SetupGoal, BatchPc, DrivenPc, EnginePc, DriverPc, PlannerPc
  <2>2. goal'.used = 0 /\ goal'.owner = graph.current
    BY <1>1 DEF SetupGoal, NoGoal
  <2>3. graph.spent <= burnt /\ Retired(graph)
    BY DEF LedgerInv, OwnerInv
  <2> QED
    BY <2>1, <2>2, <2>3, LedgerTypes, BooksStep
<1>2. CASE \/ GoalPlanned \/ GoalPlanningFails \/ GoalPausesItself \/ TurnFails
           \/ RoundEndsTurn \/ TurnGivesUpLate
  <2>1. burnt' = burnt /\ pc' \notin BatchPc \cup DrivenPc
    BY <1>2 DEF GoalPlanned, GoalPlanningFails, GoalPausesItself, TurnFails, RoundEndsTurn,
       TurnGivesUpLate, CutTurn, EndTurn, BatchPc, DrivenPc, EnginePc, DriverPc, PlannerPc
  <2>2. goal' \in {goal, PauseGoal(goal), [goal EXCEPT !.planned = "yes"]}
    BY <1>2 DEF GoalPlanned, GoalPlanningFails, GoalPausesItself, TurnFails, RoundEndsTurn,
       TurnGivesUpLate, CutTurn, AutoPause
  <2>3. graph' \in {graph, Pause(graph)} /\ saved' \in {saved, graph'}
    BY <1>2 DEF GoalPlanned, GoalPlanningFails, GoalPausesItself, TurnFails, RoundEndsTurn,
       TurnGivesUpLate, CutTurn, AutoPause, Persist
  <2> QED
    BY <1>0, <2>1, <2>2, <2>3, EngineKept, BooksKept, BooksRest
<1>3. CASE RoundContinues \/ GoalCompletes \/ TurnGivesUp
  <2>1. /\ graph' = graph /\ saved' = saved /\ pc' \notin BatchPc \cup DrivenPc
        /\ goal.status = "Active"
    BY <1>3 DEF RoundContinues, GoalCompletes, TurnGivesUp, EndTurn, BatchPc, DrivenPc,
       EnginePc, DriverPc, PlannerPc
  <2>2. /\ \E s \in GraphStatus : goal' = [goal EXCEPT !.used = @ + Cost, !.status = s]
        /\ burnt' = IF goal.owner = NoNode THEN burnt ELSE burnt + Cost
    BY <1>0, <1>3, <2>1 DEF RoundContinues, GoalCompletes, TurnGivesUp, Burn, GoalState,
       GraphStatus
  <2>3. /\ goal'.used = goal.used + Cost /\ goal'.owner = goal.owner
        /\ burnt' \in Int /\ burnt <= burnt'
        /\ graph.current # NoNode => burnt' = burnt + Cost
    BY <2>1, <2>2, RoundBurns
  <2>4. goal'.used \in Int /\ goal'.used >= 0 /\ graph'.spent <= burnt'
    BY <2>1, <2>3, LedgerTypes DEF LedgerInv
  <2>5. graph'.current # NoNode => graph'.spent + goal'.used <= burnt'
    BY <2>1, <2>3, LedgerTypes DEF LedgerInv
  <2>6. Retired(graph') /\ (graph'.current # NoNode => goal'.owner = graph'.current)
    BY <2>1, <2>3 DEF OwnerInv, Live
  <2> QED
    BY <2>1, <2>3, <2>4, <2>5, <2>6, LedgerTypes, BooksStep
<1>4. CASE RoundTripsBudget
  <2>1. /\ TripBudget /\ goal.status = "Active" /\ pc' \notin BatchPc \cup DrivenPc
    BY <1>4 DEF RoundTripsBudget, EndTurn, BatchPc, DrivenPc, EnginePc, DriverPc, PlannerPc
  <2>2. /\ goal' = [goal EXCEPT !.used = @ + Cost, !.status = "BudgetLimited"]
        /\ burnt' = IF goal.owner = NoNode THEN burnt ELSE burnt + Cost
    BY <2>1 DEF TripBudget
  <2>3. /\ goal'.used = goal.used + Cost /\ goal'.owner = goal.owner
        /\ burnt' \in Int /\ burnt <= burnt'
        /\ graph.current # NoNode => burnt' = burnt + Cost
    BY <2>1, <2>2, RoundBurns DEF GraphStatus
  <2>4. goal'.used \in Int /\ goal'.used >= 0
    BY <2>3, LedgerTypes DEF LedgerInv
  <2>5. saved' \in {saved, graph'}
    BY <2>1, BudgetTripMoves
  <2>6. CASE graph.status = "Active"
    <3>1. /\ graph'.spent = IF graph.current = NoNode THEN graph.spent
                            ELSE graph.spent + (goal.used + Cost)
          /\ graph'.current = NoNode /\ graph'.status = "BudgetLimited"
      BY <2>1, <2>6, BudgetTripMoves
    <3>2. graph'.spent \in Int /\ graph'.spent <= burnt'
      BY <2>3, <3>1, LedgerTypes DEF LedgerInv
    <3>3. Retired(graph')
      BY <3>1 DEF Retired
    <3> QED
      BY <2>1, <2>3, <2>4, <2>5, <3>1, <3>2, <3>3, BooksStep
  <2>7. CASE graph.status # "Active"
    <3>1. graph' = graph
      BY <2>1, <2>7, BudgetTripMoves
    <3>2. graph'.spent \in Int /\ graph'.spent <= burnt'
      BY <2>3, <3>1, LedgerTypes DEF LedgerInv
    <3>3. graph'.current # NoNode => graph'.spent + goal'.used <= burnt'
      BY <2>3, <3>1, LedgerTypes DEF LedgerInv
    <3>4. Retired(graph') /\ (graph'.current # NoNode => goal'.owner = graph'.current)
      BY <2>1, <2>3, <3>1 DEF OwnerInv, Live
    <3> QED
      BY <2>1, <2>3, <2>4, <2>5, <3>2, <3>3, <3>4, BooksStep
  <2> QED
    BY <2>6, <2>7
<1>5. CASE HarvestNode
  <2>1. /\ goal' = goal /\ burnt' = burnt /\ pc' \notin BatchPc /\ saved' = saved
        /\ graph' \in {graph, QueueDiscoveries(graph)} /\ graph.status = "Active"
    BY <1>5 DEF HarvestNode, BatchPc
  <2>2. graph'.status = "Active"
    BY <1>0, <2>1, DiscoveriesMove
  <2> QED
    BY <1>0, <2>1, <2>2, EngineKept, BooksKept, BooksRest
<1>6. CASE NodeAchieved
  <2>1. /\ goal' = goal /\ burnt' = burnt /\ pc' \notin BatchPc /\ graph.status = "Active"
        /\ graph.current # NoNode
    BY <1>6, GraphFacts DEF NodeAchieved, BatchPc, OwnerInv, DrivenPc, TurnInv
  <2>2. saved' \in {saved, graph'} /\ graph'.current = NoNode /\ graph'.status = "Active"
    BY <1>6, <2>1, NodeAchievedMoves
  <2>3. graph'.spent = graph.spent + goal.used
    BY <1>6, NodeAchievedMoves DEF Moves
  <2>4. graph'.spent \in Int /\ graph'.spent <= burnt' /\ goal'.used >= 0
    BY <2>1, <2>3, LedgerTypes DEF LedgerInv
  <2>5. Retired(graph')
    BY <2>2 DEF Retired
  <2> QED
    BY <2>1, <2>2, <2>4, <2>5, LedgerTypes, BooksStep
<1>7. CASE RoundEndInconsistent
  <2>1. goal' = goal /\ burnt' = burnt /\ pc' \notin BatchPc \cup DrivenPc
    BY <1>7 DEF RoundEndInconsistent, EndTurn, BatchPc, DrivenPc, EnginePc, DriverPc,
       PlannerPc
  <2>2. CASE /\ graph'.spent = IF graph.current = NoNode THEN graph.spent
                               ELSE graph.spent + goal.used
             /\ graph'.current = NoNode /\ graph'.status = "BudgetLimited"
    <3>1. graph'.spent \in Int /\ graph'.spent <= burnt' /\ goal'.used >= 0
      BY <2>1, <2>2, LedgerTypes DEF LedgerInv
    <3>2. Retired(graph')
      BY <2>2 DEF Retired
    <3> QED
      BY <1>7, <2>1, <2>2, <3>1, <3>2, InconsistentMoves, LedgerTypes, BooksStep
  <2>3. CASE /\ graph'.spent = graph.spent /\ graph'.current = graph.current
             /\ graph'.status = "Paused"
    <3>1. KeepsBooks(graph, graph')
      BY <2>3 DEF KeepsBooks, Retired
    <3> QED
      BY <1>7, <2>1, <3>1, InconsistentMoves, EngineKept, BooksRest
  <2> QED
    BY <1>7, <2>2, <2>3, InconsistentMoves
<1> QED
  BY <1>1, <1>2, <1>3, <1>4, <1>5, <1>6, <1>7 DEF NodeRun

\* The spend of the nodes a batch has still to settle.
LEMMA BatchSpend ==
  ASSUME IndInv
  PROVE  /\ Cost * Cardinality(batch) \in Nat
         /\ \A n \in batch :
              /\ Cost * Cardinality(batch \ {n}) \in Nat
              /\ Cost * Cardinality(batch) = Cost * Cardinality(batch \ {n}) + Cost
<1>1. IsFiniteSet(batch) /\ Cost \in Nat
  BY GraphFacts, IdsAssumption, FS_Subset, ModeAssumption
<1>2. Cardinality(batch) \in Nat
  BY <1>1, FS_CardinalityType
<1>3. ASSUME NEW n \in batch
      PROVE  Cardinality(batch \ {n}) \in Nat
             /\ Cardinality(batch) = Cardinality(batch \ {n}) + 1
  <2>1. IsFiniteSet(batch \ {n}) /\ Cardinality(batch \ {n}) = Cardinality(batch) - 1
    BY <1>1, FS_RemoveElement
  <2>2. Cardinality(batch \ {n}) \in Nat
    BY <2>1, FS_CardinalityType
  <2> QED
    BY <1>2, <2>1, <2>2
<1>4. \A k \in Nat : Cost * k \in Nat /\ Cost * (k + 1) = Cost * k + Cost
  BY <1>1
<1> QED
  BY <1>2, <1>3, <1>4

\* A parallel batch.
LEMMA BatchRunBooks ==
  ASSUME IndInv, OwnerInv, LedgerInv, BatchRun
  PROVE  OwnerInv' /\ LedgerInv'
<1>0. WellFormed(graph)
  BY GraphFacts
<1>1. pc \in BatchPc /\ graph.current = NoNode /\ graph.status = "Active" /\ goal' = goal
  <2>1. pc \in BatchPc /\ pc \in DrivenPc /\ goal' = goal
    BY DEF BatchRun, BatchReports, TakeReport, SettleFailed, SettleMerged,
       SettleMergeFailed, BatchSettled, BatchPc, DrivenPc, EnginePc, DriverPc
  <2> QED
    BY <2>1 DEF OwnerInv
<1>2. ASSUME graph'.current = NoNode, graph'.status = "Active", saved' \in {saved, graph'}
      PROVE  OwnerInv'
  BY <1>1, <1>2 DEF OwnerInv, Retired
<1>3. ASSUME graph'.current = NoNode, saved' \in {saved, graph'}, burnt' \in Int,
             burnt <= burnt', graph'.spent \in Int, graph'.spent <= burnt',
             pc' \in {"settle", "merge"} =>
               graph'.spent + Cost * Cardinality(batch') <= burnt'
      PROVE  LedgerInv'
  <2>1. saved'.spent <= burnt' /\ burnt' >= 0 /\ goal'.used >= 0
    BY <1>1, <1>3, LedgerTypes DEF LedgerInv
  <2> QED
    BY <1>3, <2>1 DEF LedgerInv
<1>4. CASE BatchReports
  <2>1. graph' = graph /\ saved' = saved /\ burnt' = burnt + Cost * Cardinality(batch)
        /\ batch' = batch
    BY <1>4 DEF BatchReports
  <2>2. burnt' \in Int /\ burnt <= burnt' /\ graph.spent <= burnt'
        /\ graph.spent + Cost * Cardinality(batch) <= burnt'
    BY <2>1, BatchSpend, LedgerTypes DEF LedgerInv
  <2> QED
    BY <1>1, <1>2, <1>3, <2>1, <2>2, LedgerTypes
<1>5. CASE BatchSettled
  <2>1. graph' = graph /\ saved' = saved /\ burnt' = burnt /\ pc' = "drive"
    BY <1>5 DEF BatchSettled
  <2>2. graph.spent <= burnt
    BY DEF LedgerInv
  <2> QED
    BY <1>1, <1>2, <1>3, <2>1, <2>2, LedgerTypes
<1>6. CASE TakeReport
  <2>1. /\ graph' \in {graph, QueueDiscoveries(graph)} /\ saved' = saved /\ burnt' = burnt
        /\ batch' = batch /\ pc = "settle"
    BY <1>6 DEF TakeReport, WithDiscoveries
  <2>2. graph'.current = NoNode /\ graph'.status = "Active"
    BY <1>0, <1>1, <2>1, DiscoveriesMove
  <2>3. graph'.spent = graph.spent
    BY <1>0, <2>1, BooksKept DEF KeepsBooks
  <2>4. graph.spent <= burnt /\ graph.spent + Cost * Cardinality(batch) <= burnt
    BY <2>1 DEF LedgerInv
  <2> QED
    BY <1>2, <1>3, <2>1, <2>2, <2>3, <2>4, LedgerTypes
<1>7. ASSUME NEW n \in Ids, SettleFailed(n) \/ SettleMerged(n)
      PROVE  OwnerInv' /\ LedgerInv'
  <2>1. /\ n \in batch /\ batch' = batch \ {n} /\ burnt' = burnt
        /\ pc \in {"settle", "merge"}
    BY <1>7 DEF SettleFailed, SettleMerged, IsNextReport
  <2>2. graph'.current = NoNode /\ graph'.status = "Active" /\ saved' \in {saved, graph'}
    BY <1>1, <1>7, SettleFailedMoves, SettleMergedMoves
  <2>3. graph'.spent = graph.spent + Cost
    BY <1>7, SettleFailedMoves, SettleMergedMoves DEF Moves
  <2>4. graph.spent + Cost * Cardinality(batch) <= burnt
    BY <2>1 DEF LedgerInv
  <2>5. PICK k \in Nat : /\ k = Cost * Cardinality(batch \ {n})
                         /\ Cost * Cardinality(batch) = k + Cost
    BY <2>1, BatchSpend
  <2>6. graph'.spent \in Int /\ graph'.spent + k <= burnt /\ graph'.spent <= burnt
    BY <2>3, <2>4, <2>5, LedgerTypes
  <2> QED
    BY <1>2, <1>3, <2>1, <2>2, <2>5, <2>6, LedgerTypes
<1>8. ASSUME NEW n \in Ids, SettleMergeFailed(n)
      PROVE  OwnerInv' /\ LedgerInv'
  <2>1. n \in batch /\ batch' = batch \ {n} /\ burnt' = burnt /\ pc = "merge"
    BY <1>8 DEF SettleMergeFailed, IsNextReport
  <2>2. graph'.current = NoNode /\ graph'.status = "Active" /\ saved' \in {saved, graph'}
    BY <1>1, <1>8, SettleMergeFailedMoves
  <2>3. graph'.spent = graph.spent
    BY <1>8, SettleMergeFailedMoves DEF Moves
  <2>4. graph.spent + Cost * Cardinality(batch) <= burnt /\ graph.spent <= burnt
    BY <2>1 DEF LedgerInv
  <2>5. PICK k \in Nat : /\ k = Cost * Cardinality(batch \ {n})
                         /\ Cost * Cardinality(batch) = k + Cost
    BY <2>1, BatchSpend
  <2>6. graph'.spent + k <= burnt
    BY <2>3, <2>4, <2>5, LedgerTypes
  <2> QED
    BY <1>2, <1>3, <2>1, <2>2, <2>3, <2>4, <2>5, <2>6, LedgerTypes
<1> QED
  BY <1>4, <1>5, <1>6, <1>7, <1>8 DEF BatchRun

\* Every step of the session keeps the ledger.
LEMMA LedgerNext ==
  ASSUME IndInv, DraftInv, OwnerInv, LedgerInv, [Next]_vars
  PROVE  OwnerInv' /\ LedgerInv'
<1>0. WellFormed(graph) /\ WellFormed(saved) /\ saved \in GraphState
  BY GraphFacts
<1>1. CASE UNCHANGED vars
  BY <1>1 DEF vars, OwnerInv, LedgerInv, Retired, Live
<1>2. CASE Cancel
  <2>1. /\ goal' = PauseGoal(goal) /\ burnt' = burnt
        /\ graph' \in {graph, Pause(graph)} /\ saved' \in {saved, graph'}
    BY <1>2 DEF Cancel, AutoPause, Persist
  <2>2. pc' \notin BatchPc \cup DrivenPc
    BY <1>2 DEF Cancel, EndTurn, BatchPc, DrivenPc, EnginePc, DriverPc, PlannerPc
  <2> QED
    BY <1>0, <2>1, <2>2, EngineKept, BooksKept, BooksRest
<1>4. CASE SendNow
  <2>1. goal' = goal /\ burnt' = burnt /\ graph' = graph /\ saved' = saved
    BY <1>4 DEF SendNow
  <2>2. pc' \notin BatchPc \cup DrivenPc
    BY <1>4 DEF SendNow, CutTurn, BatchPc, DrivenPc, EnginePc, DriverPc, PlannerPc
  <2> QED
    BY <1>0, <2>1, <2>2, EngineKept, BooksKept, BooksRest
<1>3. CASE Crash
  <2>1. graph' = FromSnapshot(saved) /\ saved' \in {saved, graph'} /\ goal' = NoGoal
        /\ burnt' = burnt
    BY <1>3 DEF Crash
  <2>2. pc' \notin BatchPc \cup DrivenPc
    BY <1>3 DEF Crash, EndTurn, BatchPc, DrivenPc, EnginePc, DriverPc, PlannerPc
  <2>3. KeepsBooks(saved, graph')
    BY <1>0, <2>1, BooksKept
  <2>4. Retired(graph') /\ graph'.spent = saved.spent
    BY <2>3 DEF KeepsBooks, OwnerInv
  <2>5. goal'.used = 0 /\ ~Live(goal')
    BY <2>1 DEF NoGoal, Live
  <2>6. saved.spent <= burnt
    BY DEF LedgerInv
  <2> QED
    BY <2>1, <2>2, <2>4, <2>5, <2>6, LedgerTypes, BooksStep
<1> QED
  BY <1>1, <1>2, <1>3, <1>4, CommandBooks, PlanningBooks, DrivingBooks, NodeRunBooks,
     BatchRunBooks DEF Next, TurnStep

\* Whose goal the engine holds and what is booked, in every reachable state.
THEOREM LedgerInductive == Spec => [](OwnerInv /\ LedgerInv)
<1>1. Init => OwnerInv /\ LedgerInv
  BY DEF Init, OwnerInv, LedgerInv, Retired, NoGraph, NoGoal, BatchPc, DrivenPc, EnginePc,
     DriverPc, PlannerPc
<1>2. IndInv /\ DraftInv /\ OwnerInv /\ LedgerInv /\ [Next]_vars => (OwnerInv /\ LedgerInv)'
  BY LedgerNext
<1> QED
  BY <1>1, <1>2, GraphModeInductive, PTL DEF Spec

\* No path through retries, resumes, budget trips, batches, cancels and
\* restarts charges a spend to the graph's ledger twice.
THEOREM NeverChargedTwice == Spec => []NoDoubleCharge
<1>1. LedgerInv => NoDoubleCharge
  BY DEF LedgerInv, NoDoubleCharge
<1> QED
  BY <1>1, LedgerInductive, PTL

-----------------------------------------------------------------------------
(* The goal engine.                                                        *)

\* A step that leaves no live goal.
LEMMA EngineFree ==
  ASSUME ~Live(goal'), pc' = "setup_goal" => graph'.current # NoNode,
         pc' # "archive", ~(pc' = "idle" /\ graph'.status = "Active")
  PROVE  EngineInv'
  BY DEF EngineInv, EngineRunsCurrentNode, Live

\* `auto_pause_goal_if_active`, at the end of a turn.
LEMMA EngineAutoPause ==
  ASSUME IndInv, EngineInv, AutoPause, EndTurn
  PROVE  EngineInv'
<1>0. WellFormed(graph) /\ goal \in GoalState
  BY GraphFacts
<1>1. graph'.status # "Active" /\ graph'.current = graph.current
      /\ (graph'.status \in {"Active", "Paused"} <=> graph.status \in {"Active", "Paused"})
  BY <1>0, PauseMoves DEF AutoPause, Persist
<1>2. goal'.status # "Active" /\ goal'.owner = goal.owner /\ (Live(goal') => Live(goal))
  BY <1>0 DEF AutoPause, PauseGoal, GoalState, Live
<1>3. EngineRunsCurrentNode'
  BY <1>1, <1>2 DEF EngineInv, EngineRunsCurrentNode, GraphOwnsGoalEngine, Live
<1>4. pc' = "idle" /\ pc' \notin EnginePc
  BY DEF EndTurn, EnginePc, DriverPc, PlannerPc
<1> QED
  BY <1>1, <1>2, <1>3, <1>4 DEF EngineInv

\* The commands.
LEMMA CommandEngine ==
  ASSUME IndInv, OwnerInv, EngineInv, Command, ~ContestedTopUp
  PROVE  EngineInv'
<1>0. WellFormed(graph) /\ graph \in GraphState /\ goal \in GoalState
      /\ taken \in [Event -> Nat]
  BY GraphFacts
<1>1. ASSUME NEW b \in Budgets, GraphSet(b)
      PROVE  EngineInv'
  BY <1>1, EngineFree DEF GraphSet, Live
<1>2. CASE GraphResume
  <2>1. PICK keep : keep = IF goal.status = "None" THEN NoNode ELSE graph.current
    OBVIOUS
  <2>2. keep \in Ids \cup {NoNode}
    BY <1>0, <2>1 DEF GraphState
  <2>3. PICK h : h = DemoteOrphanedInFlight(Resume(graph), keep)
    OBVIOUS
  <2>4. graph' = h
    BY <1>2, <2>1, <2>3 DEF GraphResume, Persist
  <2>5. h.current = keep /\ h.status = "Active" /\ Nodes(h) = Nodes(graph)
    BY <1>0, <2>2, <2>3, ResumeDemoteWellFormed
  <2>6. graph.status = "Paused" /\ goal.status # "Active"
    BY <1>2 DEF GraphResume, EngineInv
  <2>7. CASE goal.status = "Paused"
    <3>1. graph.current # NoNode /\ goal.owner = graph.current /\ keep = graph.current
      BY <2>1, <2>6, <2>7 DEF EngineInv, EngineRunsCurrentNode, GraphOwnsGoalEngine
    <3>2. Nodes(h) # {}
      BY <2>5, <3>1, GraphFacts
    <3>3. goal' = [goal EXCEPT !.status = "Active"] /\ pc' \in {"round", "goal_planner"}
      BY <1>2, <2>1, <2>3, <2>7, <3>2 DEF GraphResume
    <3>4. goal'.owner = goal.owner /\ pc' \notin EnginePc
      BY <1>0, <3>3 DEF GoalState, EnginePc, DriverPc, PlannerPc
    <3> QED
      BY <2>4, <2>5, <3>1, <3>3, <3>4
         DEF EngineInv, EngineRunsCurrentNode, GraphOwnsGoalEngine
  <2>8. CASE goal.status # "Paused"
    <3>1. goal' = goal /\ pc' \in {"plan", "drive"}
      BY <1>2, <2>1, <2>3, <2>8 DEF GraphResume
    <3> QED
      BY <2>6, <2>8, <3>1, EngineFree DEF Live
  <2> QED
    BY <2>7, <2>8
<1>3. ASSUME NEW extra \in TopUps, GraphTopUp(extra)
      PROVE  EngineInv'
  <2>1. goal' = goal /\ pc' = "drive"
    BY <1>3 DEF GraphTopUp
  <2>2. ~Live(goal)
    BY <1>3 DEF ContestedTopUp
  <2> QED
    BY <2>1, <2>2, EngineFree
<1>4. CASE GraphPause
  <2>1. AutoPause
    BY <1>4 DEF GraphPause, AutoPause
  <2> QED
    BY <1>4, <2>1, EngineAutoPause DEF GraphPause, EndTurn
<1>5. CASE GraphClear
  <2>1. graph'.status = "None" /\ pc' = "idle"
    BY <1>5 DEF GraphClear, Persist, NoGraph, EndTurn
  <2>2. CASE GraphOwnsGoalEngine
    <3>1. ~Live(goal')
      BY <1>5, <2>2 DEF GraphClear, NoGoal, Live
    <3> QED
      BY <2>1, <3>1, EngineFree
  <2>3. CASE ~GraphOwnsGoalEngine
    <3>1. goal' = goal
      BY <1>5, <2>3 DEF GraphClear
    <3> QED
      BY <2>1, <3>1 DEF EngineInv, EngineRunsCurrentNode, GraphOwnsGoalEngine, EnginePc,
         DriverPc, PlannerPc
  <2> QED
    BY <2>2, <2>3
<1>6. ASSUME ~GraphOwnsGoalEngine, graph' = graph,
             pc' \in {"idle", "round", "goal_planner"}
      PROVE  EngineInv'
  BY <1>6 DEF EngineInv, EngineRunsCurrentNode, GraphOwnsGoalEngine, EnginePc, DriverPc,
     PlannerPc
<1>7. CASE \/ GoalResume \/ GoalPause \/ GoalClear
           \/ \E b \in Budgets : GoalSet(b)
  BY <1>6, <1>7 DEF GoalResume, GoalPause, GoalClear, GoalSet, EndTurn
<1>8. CASE UserPrompt
  BY <1>8 DEF UserPrompt, EngineInv, EngineRunsCurrentNode, GraphOwnsGoalEngine, Live,
     EnginePc, DriverPc, PlannerPc
<1> QED
  BY <1>1, <1>2, <1>3, <1>4, <1>5, <1>7, <1>8 DEF Command

\* Planning, the optimizer and the dispatch loop run with a free engine.
LEMMA PlanningEngine ==
  ASSUME IndInv, EngineInv, Planning
  PROVE  EngineInv'
<1>0. WellFormed(graph)
  BY GraphFacts
<1>1. goal' = goal /\ pc \in EnginePc /\ pc' \notin {"setup_goal", "archive"}
      /\ (pc' = "idle" => graph' = Pause(graph))
  BY DEF Planning, PlanningFails, PlanningSucceeds, BaselineWritten, BaselineFails,
     InstallPlan, OptimizerKeepsPlan, OptimizerProposes, OptimizerRemovesDep,
     OptimizerReorders, OptimizerMerges, OptimizerSplits, Rewrite, OptimizerInstalls,
     FreezeVersion, EndTurn, Persist, EnginePc, DriverPc, PlannerPc
<1>2. ~Live(goal')
  BY <1>1 DEF EngineInv
<1>3. pc' = "idle" => graph'.status # "Active"
  BY <1>0, <1>1, PauseMoves
<1> QED
  BY <1>1, <1>2, <1>3, EngineFree

LEMMA DrivingEngine ==
  ASSUME IndInv, OwnerInv, EngineInv, Driving
  PROVE  EngineInv'
<1>0. WellFormed(graph) /\ NoNode \notin Ids
  BY GraphFacts, FinalFacts
<1>1. goal' \in {goal, NoGoal} /\ pc \in EnginePc /\ pc' # "archive"
      /\ (pc' = "setup_goal" => \E n \in Ids : LaunchNode(n))
      /\ (pc' = "idle" => graph' \in {Pause(graph), BudgetLimit(graph), Complete(graph)})
  BY DEF Driving, DrainAtBoundary, ReplanFires, ReplanAddsNothing, ReplanAppends,
     DispatchBudgetLimited, DispatchComplete, DispatchWedged, DispatchStuck,
     StartBatch, NothingReady, Dispatching, EndTurn, Persist, EnginePc, DriverPc, LaunchNode
<1>2. ~Live(goal')
  BY <1>1 DEF EngineInv, NoGoal, Live
<1>3. ASSUME NEW n \in Ids, LaunchNode(n) PROVE graph'.current # NoNode
  <2>1. graph.st[n] = "Ready" /\ graph' = MarkNodeRunning(graph, n)
    BY <1>3 DEF LaunchNode, IsNextReady, ReadyNodes, Persist
  <2>2. MarkNodeRunning(graph, n).current = n
    BY <1>0, <2>1, RunningMoves
  <2> QED
    BY <1>0, <2>1, <2>2
<1>4. graph.status = "Active"
  BY <1>1 DEF OwnerInv, DrivenPc
<1>5. pc' = "idle" => graph'.status # "Active"
  BY <1>0, <1>1, <1>4, PauseMoves, BudgetLimitMoves, CompleteMoves
<1> QED
  BY <1>1, <1>2, <1>3, <1>5, EngineFree

\* A serial node.
LEMMA NodeRunEngine ==
  ASSUME IndInv, OwnerInv, EngineInv, NodeRun
  PROVE  EngineInv'
<1>0. WellFormed(graph) /\ goal \in GoalState
  BY GraphFacts
<1>1. CASE SetupGoal
  <2>1. /\ graph' = graph /\ pc' = "goal_planner" /\ graph.current # NoNode
        /\ graph.status = "Active"
    BY <1>1 DEF SetupGoal, EngineInv, OwnerInv, DrivenPc, EnginePc
  <2>2. goal'.owner = graph.current
    BY <1>1 DEF SetupGoal, NoGoal
  <2> QED
    BY <2>1, <2>2 DEF EngineInv, EngineRunsCurrentNode, GraphOwnsGoalEngine, EnginePc,
       DriverPc, PlannerPc
<1>2. CASE GoalPlanningFails \/ GoalPausesItself \/ TurnFails
  BY <1>2, EngineAutoPause DEF GoalPlanningFails, GoalPausesItself, TurnFails
<1>3. ASSUME graph' = graph, goal'.status = goal.status, goal'.owner = goal.owner,
             pc' = "round" \/ (pc' = "idle" /\ goal.status = "Active")
      PROVE  EngineInv'
  BY <1>3 DEF EngineInv, EngineRunsCurrentNode, GraphOwnsGoalEngine, Live, EnginePc,
     DriverPc, PlannerPc
<1>4. CASE GoalPlanned \/ RoundContinues \/ TurnGivesUp
  <2>1. graph' = graph /\ (pc' = "round" \/ (pc' = "idle" /\ goal.status = "Active"))
    BY <1>4 DEF GoalPlanned, RoundContinues, TurnGivesUp, EndTurn, Persist
  <2>2. goal'.status = goal.status /\ goal'.owner = goal.owner
    BY <1>0, <1>4 DEF GoalPlanned, RoundContinues, TurnGivesUp, Burn, GoalState
  <2> QED
    BY <1>3, <2>1, <2>2
<1>5. CASE RoundTripsBudget
  <2>1. TripBudget /\ pc' = "idle"
    BY <1>5 DEF RoundTripsBudget, EndTurn
  <2>2. goal'.status = "BudgetLimited"
    BY <1>0, <2>1 DEF TripBudget, GoalState
  <2>3. graph'.status # "Active"
    BY <2>1, BudgetTripMoves
  <2> QED
    BY <2>1, <2>2, <2>3, EngineFree DEF Live
<1>6. CASE GoalCompletes
  <2>1. goal'.status = "Complete" /\ pc' = "round"
    BY <1>0, <1>6 DEF GoalCompletes, GoalState
  <2> QED
    BY <2>1, EngineFree DEF Live
<1>7. CASE RoundEndsTurn \/ TurnGivesUpLate
  <2>1. /\ graph' = graph /\ goal' = goal
        /\ pc' = "cut" \/ (pc' = "idle" /\ graph.status # "Active")
    BY <1>7 DEF RoundEndsTurn, TurnGivesUpLate, EndTurn, CutTurn
  <2> QED
    BY <2>1 DEF EngineInv, EngineRunsCurrentNode, GraphOwnsGoalEngine, Live, EnginePc,
       DriverPc, PlannerPc
<1>8. CASE HarvestNode
  <2>1. /\ goal' = goal /\ goal.status = "Complete" /\ pc' = "archive"
    BY <1>8 DEF HarvestNode
  <2> QED
    BY <2>1 DEF EngineInv, EngineRunsCurrentNode, Live, EnginePc, DriverPc, PlannerPc
<1>9. CASE NodeAchieved
  <2>1. goal' = goal /\ goal.status = "Complete" /\ pc' = "drive"
    BY <1>9 DEF NodeAchieved, EngineInv
  <2> QED
    BY <2>1, EngineFree DEF Live
<1>10. CASE RoundEndInconsistent
  <2>1. /\ goal' = goal /\ pc' = "idle" /\ goal.status # "Active" /\ graph.status = "Active"
    BY <1>10 DEF RoundEndInconsistent, RoundOver, EndTurn
  <2>2. CASE goal.status # "Paused"
    <3>1. graph'.status # "Active"
      BY <1>10, InconsistentMoves
    <3> QED
      BY <2>1, <2>2, <3>1, EngineFree DEF Live
  <2>3. CASE goal.status = "Paused"
    <3>1. graph' = Pause(graph)
      BY <1>10, <2>3 DEF RoundEndInconsistent, Persist
    <3>2. graph'.current = graph.current /\ graph'.status = "Paused"
      BY <1>0, <2>1, <3>1, PauseMoves
    <3> QED
      BY <2>1, <2>3, <3>2 DEF EngineInv, EngineRunsCurrentNode, GraphOwnsGoalEngine, Live,
         EnginePc, DriverPc, PlannerPc
  <2> QED
    BY <2>2, <2>3
<1> QED
  BY <1>1, <1>2, <1>4, <1>5, <1>6, <1>7, <1>8, <1>9, <1>10 DEF NodeRun

\* Every step of the session.
LEMMA EngineNext ==
  ASSUME IndInv, OwnerInv, EngineInv, [Next]_vars, [~ContestedTopUp]_vars
  PROVE  EngineInv'
<1>0. WellFormed(saved)
  BY GraphFacts
<1>1. CASE UNCHANGED vars
  BY <1>1 DEF vars, EngineInv, EngineRunsCurrentNode, GraphOwnsGoalEngine, Live
<1>2. CASE Cancel
  BY <1>2, EngineAutoPause DEF Cancel
<1>5. CASE SendNow
  BY <1>5 DEF SendNow, CutTurn, EngineInv, EngineRunsCurrentNode, GraphOwnsGoalEngine,
     Live, EnginePc, DriverPc, PlannerPc
<1>3. CASE Crash
  <2>1. ~Live(goal') /\ pc' = "idle" /\ graph' = FromSnapshot(saved)
    BY <1>3 DEF Crash, NoGoal, Live, EndTurn
  <2>2. graph'.status # "Active"
    BY <1>0, <2>1, RestartMoves
  <2> QED
    BY <2>1, <2>2, EngineFree
<1>4. CASE BatchRun
  <2>1. goal' = goal /\ pc \in EnginePc /\ pc' \in {"settle", "merge", "drive"}
    BY <1>4 DEF BatchRun, BatchReports, TakeReport, SettleFailed, SettleMerged,
       SettleMergeFailed, BatchSettled, EnginePc, DriverPc
  <2>2. ~Live(goal')
    BY <2>1 DEF EngineInv
  <2> QED
    BY <2>1, <2>2, EngineFree
<1> QED
  BY <1>1, <1>2, <1>3, <1>4, <1>5, CommandEngine, PlanningEngine, DrivingEngine, NodeRunEngine
     DEF Next, TurnStep

\* The engine's invariant, as long as no top-up contests the engine.
THEOREM EngineInductive == Spec /\ [][~ContestedTopUp]_vars => []EngineInv
<1>1. Init => EngineInv
  BY DEF Init, EngineInv, EngineRunsCurrentNode, NoGraph, NoGoal, Live, EnginePc, DriverPc,
     PlannerPc
<1>2. IndInv /\ OwnerInv /\ EngineInv /\ [Next]_vars /\ [~ContestedTopUp]_vars => EngineInv'
  BY EngineNext
<1> QED
  BY <1>1, <1>2, GraphModeInductive, LedgerInductive, PTL DEF Spec

\* No turn that ends on its own, and no cancel, failure, pause, resume or
\* restart, leaves an Active graph whose engine holds no Active goal of its
\* current node, not even where an earlier turn was cut off before
\* `run_graph_round_end`: only a budget top-up beside a live goal of the
\* user's can.
THEOREM ActiveGraphDriven == Spec /\ [][~ContestedTopUp]_vars => []ActiveHasDriver
<1>1. IndInv /\ EngineInv => ActiveHasDriver
  BY GraphFacts DEF EngineInv, EngineRunsCurrentNode, GraphOwnsGoalEngine, ActiveHasDriver
<1> QED
  BY <1>1, GraphModeInductive, EngineInductive, PTL

\* Nor is any goal but the current node's live in the engine while a graph
\* owns it, so `run_graph_round_end` books no other goal's verdict or spend.
THEOREM EngineServesGraph == Spec /\ [][~ContestedTopUp]_vars => []EngineRunsCurrentNode
<1>1. EngineInv => EngineRunsCurrentNode
  BY DEF EngineInv
<1> QED
  BY <1>1, EngineInductive, PTL

-----------------------------------------------------------------------------
(* The terminal gate.                                                      *)

\* From g to h the terminal node neither starts nor passes, nothing is
\* queued, and the nodes stay.
Rests(g, h) ==
  /\ Follows(g, h) /\ KeepsGate(g, h) /\ FinalRests(g, h)
  /\ h.pending \in {g.pending, "none"}

\* A step away from the archive that lets the terminal node rest.
LEMMA GateRest ==
  ASSUME GateInv, saved' \in {saved, graph'}, Rests(graph, graph'),
         batch' \subseteq batch, pc # "archive", pc' \in BoundaryPc => pc \in BoundaryPc
  PROVE  GateInv'
<1>1. Gate(graph') /\ Nodes(graph') = Nodes(graph)
      /\ (graph'.status = "None" => graph.status = "None")
  BY DEF Rests, Follows, KeepsGate, GateInv
<1>2. \A s \in {"Running", "Achieved"} : graph'.st[Final] = s => graph.st[Final] = s
  BY DEF Rests, FinalRests
<1>3. graph'.pending = "queued" => graph.pending = "queued"
  BY DEF Rests
<1>4. graph'.status = "None" => Nodes(graph') = {}
  BY <1>1 DEF GateInv
<1>5. Gate(saved') /\ (saved'.status = "None" => Nodes(saved') = {})
  BY <1>1, <1>4 DEF GateInv
<1> QED
  BY <1>1, <1>2, <1>3, <1>4, <1>5 DEF GateInv

\* The transitions under which the terminal node rests.
LEMMA RestsKept ==
  ASSUME NEW g, WellFormed(g)
  PROVE  /\ Rests(g, g) /\ Rests(g, Pause(g)) /\ Rests(g, Complete(g))
         /\ Rests(g, DrainDiscoveries(g))
         /\ Rests(g, [DrainDiscoveries(g) EXCEPT !.runs = @ + 1])
         /\ Rests(g, BudgetLimit(g))
<1>0. ASSUME NEW h, NEW s, Moves(g, h, s, h.pending), FinalRests(g, h),
             h.pending \in {g.pending, "none"}
      PROVE  Rests(g, h)
  BY <1>0 DEF Moves, Rests
<1>1. ASSUME NEW h, Moves(g, h, g.spent, g.pending), h.st = g.st \/ FinalRests(g, h)
      PROVE  Rests(g, h)
  BY <1>1 DEF Moves, Rests, FinalRests
<1>2. Rests(g, g)
  BY <1>1, StutterMoves
<1>3. Rests(g, Pause(g)) /\ Rests(g, Complete(g))
  BY <1>1, PauseMoves, CompleteMoves
<1>4. Rests(g, BudgetLimit(g))
  <2>1. CASE g.status = "Active"
    BY <1>1, <2>1, BudgetLimitMoves
  <2>2. CASE g.status # "Active"
    BY <1>2, <2>2 DEF BudgetLimit
  <2> QED
    BY <2>1, <2>2
<1>5. ASSUME NEW h \in {DrainDiscoveries(g), [DrainDiscoveries(g) EXCEPT !.runs = @ + 1]}
      PROVE  Rests(g, h)
  <2>1. DrainDiscoveries(g).pending = "none"
        /\ [DrainDiscoveries(g) EXCEPT !.runs = @ + 1].pending = "none"
    BY DEF DrainDiscoveries, WellFormed, GraphState
  <2>2. Moves(g, h, g.spent, h.pending) /\ h.st = g.st
    BY <1>5, DiscoveriesMove
  <2>3. FinalRests(g, h)
    BY <2>2 DEF FinalRests
  <2> QED
    BY <1>0, <1>5, <2>1, <2>2, <2>3
<1> QED
  BY <1>2, <1>3, <1>4, <1>5

\* Where `recompute_ready` finds the terminal node out of play.
LEMMA RecomputeGates ==
  ASSUME NEW g \in GraphState, NEW h, h = RecomputeReady(g), WellFormed(h),
         g.st[Final] \notin {"Ready", "Running", "Achieved"}
  PROVE  Gate(h) /\ h.st[Final] \notin {"Running", "Achieved"} /\ h.pending = g.pending
<1>0. Final \in Ids
  BY FinalFacts
<1>1. /\ h.deps = g.deps /\ Nodes(h) = Nodes(g)
      /\ \A n \in Ids : h.st[n] = IF g.st[n] = "Waiting" /\ DepsAchieved(g, n)
                                  THEN "Ready" ELSE g.st[n]
  BY RecomputeReadyFacts
<1>2. h.pending = g.pending
  BY DEF RecomputeReady, GraphState
<1>3. h.st[Final] \notin {"Running", "Achieved"}
  BY <1>0, <1>1
<1>4. ASSUME h.st[Final] = "Ready", NEW n \in Nodes(h) \ {Final}
      PROVE  h.st[n] = "Achieved"
  <2>1. DepsAchieved(g, Final)
    BY <1>0, <1>1, <1>4
  <2>2. n \in g.deps[Final] /\ n \in Ids
    BY <1>1, <1>4 DEF WellFormed, FinalIsLast, Nodes
  <2> QED
    BY <1>1, <2>1, <2>2 DEF DepsAchieved
<1>5. Gate(h)
  BY <1>3, <1>4 DEF Gate
<1> QED
  BY <1>2, <1>3, <1>5

\* `install_nodes`, `append_replan_nodes` and `install_optimized_nodes` leave
\* the terminal node waiting, or ready behind all the others.
LEMMA InstallGates ==
  ASSUME NEW g \in GraphState, NEW P \in SUBSET PlannerIds,
         NEW d \in [P -> SUBSET P], ValidPlan(P, d)
  PROVE  LET h == InstallNodes(g, P, d)
         IN  Gate(h) /\ h.st[Final] \notin {"Running", "Achieved"}
<1> DEFINE st1 == [n \in Ids |-> IF n \in P \cup {Final} THEN "Waiting" ELSE "Absent"]
           deps1 == [n \in Ids |-> IF n \in P THEN d[n]
                                   ELSE IF n = Final THEN P ELSE {}]
           a == [g EXCEPT !.st = st1, !.deps = deps1]
           h == InstallNodes(g, P, d)
<1>1. h = RecomputeReady(a)
  BY DEF InstallNodes
<1>2. P \subseteq Ids /\ Final \in Ids
  BY FinalFacts
<1>3. st1 \in [Ids -> NodeStatus] /\ st1[Final] = "Waiting"
  BY <1>2 DEF NodeStatus
<1>4. deps1 \in [Ids -> SUBSET Ids]
  BY <1>2
<1>5. a \in GraphState /\ a.st = st1
  BY <1>3, <1>4 DEF GraphState
<1>6. WellFormed(h) /\ a.st[Final] = "Waiting"
  BY <1>3, <1>5, InstallNodesWellFormed
<1> HIDE DEF a, h
<1>7. Gate(h) /\ h.st[Final] \notin {"Running", "Achieved"}
  BY <1>1, <1>5, <1>6, RecomputeGates
<1> QED
  BY <1>7 DEF h

LEMMA AppendGates ==
  ASSUME NEW g, WellFormed(g), NEW A \in SUBSET ReplanIds,
         NEW d \in [A -> SUBSET Ids], ValidAppendix(g, A, d),
         g.st[Final] \notin {"Running", "Achieved"}
  PROVE  LET h == AppendReplanNodes(g, A, d)
         IN  Gate(h) /\ h.st[Final] \notin {"Running", "Achieved"}
<1> DEFINE st1 == [n \in Ids |->
                     IF n \in A THEN "Waiting"
                     ELSE IF n = Final /\ g.st[n] = "Ready" THEN "Waiting"
                     ELSE g.st[n]]
           deps1 == [n \in Ids |-> IF n \in A THEN d[n]
                                   ELSE IF n = Final THEN g.deps[n] \cup A
                                   ELSE g.deps[n]]
           v == g.version + 1
           r == g.runs + 1
           a == [g EXCEPT !.st = st1, !.deps = deps1, !.version = v, !.runs = r,
                          !.pending = "none"]
           h == AppendReplanNodes(g, A, d)
<1>1. h = RecomputeReady(a)
  BY DEF AppendReplanNodes
<1>2. A \subseteq Ids /\ Final \notin A /\ Final \in Ids /\ g \in GraphState
  BY FinalFacts DEF WellFormed
<1>3. v \in Nat /\ r \in Nat
  BY <1>2 DEF GraphState
<1>4. st1 \in [Ids -> NodeStatus]
  BY <1>2 DEF NodeStatus, GraphState
<1>5. deps1 \in [Ids -> SUBSET Ids]
  BY <1>2 DEF GraphState
<1>6. st1[Final] \notin {"Ready", "Running", "Achieved"}
  BY <1>2
<1> HIDE DEF v, r, st1, deps1
<1>7. a \in GraphState /\ a.st = st1
  BY <1>2, <1>3, <1>4, <1>5 DEF GraphState
<1>8. WellFormed(h) /\ a.st[Final] \notin {"Ready", "Running", "Achieved"}
  BY <1>6, <1>7, AppendReplanNodesWellFormed
<1> HIDE DEF a, h
<1>9. Gate(h) /\ h.st[Final] \notin {"Running", "Achieved"}
  BY <1>1, <1>7, <1>8, RecomputeGates
<1> QED
  BY <1>9 DEF h

LEMMA OptimizeGates ==
  ASSUME NEW g, WellFormed(g), NEW x, DraftOf(g, x), ValidOptimization(g, x),
         g.st[Final] \notin {"Running", "Achieved"}
  PROVE  LET h == InstallOptimizedNodes(g, x)
         IN  Gate(h) /\ h.st[Final] \notin {"Running", "Achieved"}
<1> DEFINE st1 == [n \in Ids |-> IF n \in Pending(x) THEN "Waiting" ELSE x.st[n]]
           y == WithGate(x)
           v == g.version + 1
           r == g.runs + 1
           a == [g EXCEPT !.deps = y.deps, !.st = st1, !.version = v, !.runs = r]
           h == InstallOptimizedNodes(g, x)
<1>1. h = RecomputeReady(a)
  BY DEF InstallOptimizedNodes
<1>2. g \in GraphState /\ Final \in Ids /\ v \in Nat /\ r \in Nat
  BY FinalFacts DEF WellFormed, GraphState
<1>3. x \in Drafts /\ x.st \in [Ids -> NodeStatus] /\ x.deps \in [Ids -> SUBSET Ids]
      /\ x.st[Final] = g.st[Final]
  BY DEF DraftOf, Drafts
<1>4. st1 \in [Ids -> NodeStatus] /\ st1[Final] \notin {"Ready", "Running", "Achieved"}
  BY <1>2, <1>3 DEF NodeStatus, Pending
<1>5. y.deps = [x.deps EXCEPT ![Final] = Nodes(x) \ {Final}]
  BY <1>3 DEF WithGate, Drafts
<1>6. y.deps \in [Ids -> SUBSET Ids]
  BY <1>3, <1>5 DEF Nodes
<1> HIDE DEF v, r, y, st1
<1>7. a \in GraphState /\ a.st = st1
  BY <1>2, <1>4, <1>6 DEF GraphState
<1>8. WellFormed(h) /\ a.st[Final] \notin {"Ready", "Running", "Achieved"}
  BY <1>4, <1>7, InstallOptimizedNodesWellFormed
<1> HIDE DEF a, h
<1>9. Gate(h) /\ h.st[Final] \notin {"Running", "Achieved"}
  BY <1>1, <1>7, <1>8, RecomputeGates
<1> QED
  BY <1>9 DEF h

\* A step that leaves the terminal node out of play or merely ready.
LEMMA GateOpen ==
  ASSUME GateInv, saved' \in {saved, graph'}, Gate(graph'),
         graph'.st[Final] \notin {"Running", "Achieved"},
         graph'.status = "None" => Nodes(graph') = {}, batch' \subseteq batch
  PROVE  GateInv'
<1>1. Gate(saved') /\ (saved'.status = "None" => Nodes(saved') = {})
  BY DEF GateInv
<1> QED
  BY <1>1 DEF GateInv

\* A graph without nodes.
LEMMA EmptyGate ==
  ASSUME NEW g, Nodes(g) = {}
  PROVE  Gate(g) /\ g.st[Final] \notin {"Running", "Achieved"}
<1>1. g.st[Final] = "Absent"
  BY FinalFacts DEF Nodes
<1> QED
  BY <1>1 DEF Gate

\* The terminal node runs alone.
LEMMA FinalAlone ==
  ASSUME IndInv, GateInv, graph.st[Final] = "Running"
  PROVE  /\ batch = {}
         /\ graph.current # NoNode => graph.current = Final
<1>1. \A n \in Nodes(graph) \ {Final} : graph.st[n] = "Achieved"
  BY DEF GateInv, Gate
<1>2. ASSUME NEW n \in batch PROVE FALSE
  <2>1. n \in Nodes(graph) /\ graph.st[n] = "Running" /\ n # Final
    BY <1>2, BatchFacts DEF GateInv
  <2> QED
    BY <1>1, <2>1
<1>3. graph.current # NoNode => graph.current = Final
  BY <1>1, GraphFacts
<1> QED
  BY <1>2, <1>3

\* The commands.
LEMMA CommandGate ==
  ASSUME IndInv, GateInv, Command
  PROVE  GateInv'
<1>0. WellFormed(graph) /\ graph \in GraphState /\ taken["graph"] \in Nat
  BY GraphFacts DEF Event
<1>1. pc # "archive" /\ batch' = batch /\ pc' \notin BoundaryPc
  BY DEF Command, GraphSet, GraphResume, GraphTopUp, GraphPause, GraphClear, GoalSet,
     GoalResume, GoalPause, GoalClear, UserPrompt, EndTurn, Idle, BoundaryPc
<1>2. saved' \in {saved, graph'}
  BY CommandFollows
<1>3. ASSUME NEW b \in Budgets, GraphSet(b)
      PROVE  GateInv'
  <2>1. b \in Int /\ taken["graph"] + 1 \in Nat
    BY <1>0, ModeAssumption DEF NoLimit
  <2>2. graph' = CreateGraph(taken["graph"] + 1, b)
    BY <1>3 DEF GraphSet, Persist
  <2>3. Nodes(graph') = {}
    BY <2>1, <2>2, CreateGraphWellFormed
  <2> QED
    BY <1>1, <1>2, <2>3, EmptyGate, GateOpen
<1>4. CASE GraphClear
  <2>1. Nodes(graph') = {}
    BY <1>4, NoGraphWellFormed DEF GraphClear, Persist
  <2> QED
    BY <1>1, <1>2, <2>1, EmptyGate, GateOpen
<1>5. CASE GraphResume
  <2>1. PICK keep : keep = IF goal.status = "None" THEN NoNode ELSE graph.current
    OBVIOUS
  <2>2. keep \in Ids \cup {NoNode}
    BY <1>0, <2>1 DEF GraphState
  <2>3. graph' = DemoteOrphanedInFlight(Resume(graph), keep)
    BY <1>5, <2>1 DEF GraphResume, Persist
  <2>4. Moves(graph, graph', graph.spent, graph.pending) /\ FinalRests(graph, graph')
    BY <1>0, <2>2, <2>3, ResumeMoves
  <2>5. Rests(graph, graph')
    BY <2>4 DEF Moves, Rests
  <2> QED
    BY <1>1, <1>2, <2>5, GateRest
<1>6. ASSUME NEW extra \in TopUps, GraphTopUp(extra)
      PROVE  GateInv'
  <2>1. extra \in Int /\ graph' = ResumeBudgetLimited(graph, extra)
    BY <1>6, ModeAssumption DEF GraphTopUp, Persist
  <2>2. Moves(graph, graph', graph.spent, graph.pending) /\ FinalRests(graph, graph')
    BY <1>0, <2>1, TopUpMoves
  <2>3. Rests(graph, graph')
    BY <2>2 DEF Moves, Rests
  <2> QED
    BY <1>1, <1>2, <2>3, GateRest
<1>7. CASE \/ GraphPause \/ GoalResume \/ GoalPause \/ GoalClear \/ UserPrompt
           \/ \E b \in Budgets : GoalSet(b)
  <2>1. graph' \in {graph, Pause(graph)}
    BY <1>7 DEF GraphPause, GoalResume, GoalPause, GoalClear, UserPrompt, GoalSet, Persist
  <2> QED
    BY <1>0, <1>1, <1>2, <2>1, RestsKept, GateRest
<1> QED
  BY <1>3, <1>4, <1>5, <1>6, <1>7 DEF Command

\* Planning and the optimizer.
LEMMA PlanningGate ==
  ASSUME IndInv, DraftInv, OwnerInv, GateInv, Planning
  PROVE  GateInv'
<1>0. WellFormed(graph) /\ graph \in GraphState
  BY GraphFacts
<1>1. batch' = batch /\ pc \in EnginePc /\ pc # "archive"
  BY DEF Planning, PlanningFails, PlanningSucceeds, BaselineWritten, BaselineFails,
     InstallPlan, OptimizerKeepsPlan, OptimizerProposes, OptimizerRemovesDep,
     OptimizerReorders, OptimizerMerges, OptimizerSplits, Rewrite, OptimizerInstalls,
     FreezeVersion, EnginePc, DriverPc, PlannerPc
<1>2. saved' \in {saved, graph'} /\ graph.status = "Active"
  BY <1>1, PlanningFollows DEF OwnerInv, DrivenPc
<1>3. CASE PlanningFails \/ BaselineFails \/ FreezeVersion
  <2>1. graph' \in {graph, Pause(graph)} /\ (pc' \in BoundaryPc => pc \in BoundaryPc)
    BY <1>3 DEF PlanningFails, BaselineFails, FreezeVersion, Persist, EndTurn, BoundaryPc
  <2> QED
    BY <1>0, <1>1, <1>2, <2>1, RestsKept, GateRest
<1>4. CASE PlanningSucceeds \/ BaselineWritten \/ OptimizerKeepsPlan \/ OptimizerProposes
  <2>1. graph' = graph /\ (pc' \in BoundaryPc => pc \in BoundaryPc)
    BY <1>4 DEF PlanningSucceeds, BaselineWritten, OptimizerKeepsPlan, OptimizerProposes,
       BoundaryPc
  <2> QED
    BY <1>0, <1>1, <1>2, <2>1, RestsKept, GateRest
<1>5. CASE \/ \E n, m \in Ids : \/ OptimizerRemovesDep(n, m)
                              \/ OptimizerReorders(n, m) \/ OptimizerMerges(n, m)
           \/ \E n \in Ids : \E A \in Replacements(draft) :
                \E d \in [A -> SUBSET SplitDeps(draft, n, A)] : OptimizerSplits(n, A, d)
  <2>1. graph' = graph /\ pc' = pc
    BY <1>5 DEF OptimizerRemovesDep, OptimizerReorders, OptimizerMerges, OptimizerSplits,
       Rewrite
  <2> QED
    BY <1>0, <1>1, <1>2, <2>1, RestsKept, GateRest
<1>6. CASE OptimizerInstalls
  <2>1. /\ DraftOf(graph, draft) /\ ValidOptimization(graph, draft)
        /\ graph' = InstallOptimizedNodes(graph, draft)
        /\ graph.st[Final] \notin {"Running", "Achieved"}
    BY <1>6 DEF OptimizerInstalls, DraftInv, GateInv, BoundaryPc
  <2>2. graph'.status = "Active"
    BY <1>0, <1>2, <2>1, InstallOptimizedNodesWellFormed
  <2>3. Gate(graph') /\ graph'.st[Final] \notin {"Running", "Achieved"}
    BY <1>0, <2>1, OptimizeGates
  <2> QED
    BY <1>1, <1>2, <2>2, <2>3, GateOpen
<1>7. ASSUME NEW P \in SUBSET PlannerIds, NEW d \in [P -> SUBSET P], InstallPlan(P, d)
      PROVE  GateInv'
  <2>1. ValidPlan(P, d) /\ graph' = InstallNodes(graph, P, d)
    BY <1>7 DEF InstallPlan, Persist
  <2>2. graph'.status = "Active"
    BY <1>0, <1>2, <2>1, InstallNodesWellFormed
  <2>3. Gate(graph') /\ graph'.st[Final] \notin {"Running", "Achieved"}
    BY <1>0, <2>1, InstallGates
  <2> QED
    BY <1>1, <1>2, <2>2, <2>3, GateOpen
<1> QED
  BY <1>3, <1>4, <1>5, <1>6, <1>7 DEF Planning

\* The dispatch loop: the terminal node is launched alone and last.
LEMMA DrivingGate ==
  ASSUME IndInv, OwnerInv, GateInv, Driving
  PROVE  GateInv'
<1>0. WellFormed(graph) /\ graph \in GraphState /\ Final \in Ids
  BY GraphFacts, FinalFacts
<1>1. pc \in {"drive", "replan"} /\ graph.status = "Active"
  <2>1. pc \in {"drive", "replan"}
    BY DEF Driving, DrainAtBoundary, ReplanFires, ReplanAddsNothing, ReplanAppends,
       DispatchBudgetLimited, DispatchComplete, DispatchWedged, DispatchStuck, LaunchNode,
       StartBatch, NothingReady, Dispatching
  <2> QED
    BY <2>1 DEF OwnerInv, DrivenPc, EnginePc, DriverPc
<1>2. saved' \in {saved, graph'}
  BY DrivingFollows
<1>3. CASE \/ DrainAtBoundary \/ ReplanAddsNothing \/ DispatchBudgetLimited
           \/ DispatchComplete \/ DispatchWedged \/ DispatchStuck
  <2>1. /\ graph' \in {Pause(graph), Complete(graph), BudgetLimit(graph),
                       DrainDiscoveries(graph),
                       [DrainDiscoveries(graph) EXCEPT !.runs = @ + 1]}
        /\ batch' = batch
    BY <1>3 DEF DrainAtBoundary, ReplanAddsNothing, DispatchBudgetLimited,
       DispatchComplete, DispatchWedged, DispatchStuck, Persist
  <2>2. pc' \in {"drive", "idle"}
    BY <1>3 DEF DrainAtBoundary, ReplanAddsNothing, DispatchBudgetLimited,
       DispatchComplete, DispatchWedged, DispatchStuck, EndTurn
  <2>3. Rests(graph, graph')
    BY <1>0, <2>1, RestsKept
  <2> QED
    BY <1>1, <1>2, <2>1, <2>2, <2>3, GateRest DEF BoundaryPc
<1>4. CASE ReplanFires
  <2>1. /\ graph' = graph /\ batch' = batch /\ pc = "drive"
        /\ graph.pending = "queued" /\ graph.st[Final] # "Achieved"
    BY <1>4 DEF ReplanFires, ReplanDue, ReplanSpent
  <2>2. graph.st[Final] # "Running"
    BY <2>1 DEF GateInv
  <2> QED
    BY <1>2, <2>1, <2>2, GateOpen DEF GateInv
<1>5. ASSUME NEW A \in SUBSET ReplanIds, NEW d \in [A -> SUBSET Ids], ReplanAppends(A, d)
      PROVE  GateInv'
  <2>1. /\ ValidAppendix(graph, A, d) /\ graph' = AppendReplanNodes(graph, A, d)
        /\ batch' = batch /\ graph.st[Final] \notin {"Running", "Achieved"}
    BY <1>5 DEF ReplanAppends, GateInv, BoundaryPc
  <2>2. graph'.status = "Active"
    BY <1>0, <1>1, <2>1, AppendReplanNodesWellFormed
  <2>3. Gate(graph') /\ graph'.st[Final] \notin {"Running", "Achieved"}
    BY <1>0, <2>1, AppendGates
  <2> QED
    BY <1>2, <2>1, <2>2, <2>3, GateOpen
<1>6. ASSUME NEW n \in Ids, LaunchNode(n)
      PROVE  GateInv'
  <2>1. /\ graph.st[n] = "Ready" /\ graph' = MarkNodeRunning(graph, n) /\ batch' = batch
        /\ pc' = "setup_goal" /\ graph.pending # "queued"
    BY <1>6 DEF LaunchNode, IsNextReady, ReadyNodes, Persist, Dispatching, ReplanDue
  <2>2. Moves(graph, graph', graph.spent, graph.pending) /\ graph'.status = "Active"
    BY <1>0, <1>1, <2>1, RunningMoves
  <2>3. Gate(graph') /\ graph'.pending # "queued"
    BY <2>1, <2>2 DEF Moves, KeepsGate, GateInv
  <2>4. Gate(saved') /\ (saved'.status = "None" => Nodes(saved') = {})
    BY <1>2, <2>2, <2>3 DEF GateInv
  <2> QED
    BY <2>1, <2>2, <2>3, <2>4 DEF GateInv, BoundaryPc
<1>7. CASE StartBatch
  <2>1. /\ ~RunsSerially /\ pc' = "batch"
    BY <1>7 DEF StartBatch
  <2>2. /\ Moves(graph, graph', graph.spent, graph.pending) /\ graph'.status = "Active"
        /\ batch' \subseteq ReadyNodes(graph)
        /\ \A n \in Ids : graph'.st[n] = IF n \in batch' THEN "Running" ELSE graph.st[n]
    BY <1>1, <1>7, StartBatchMoves
  <2>3. Final \notin batch'
    <3> SUFFICES ASSUME Final \in batch' PROVE FALSE
      OBVIOUS
    <3>1. graph.st[Final] = "Ready"
      BY <2>2 DEF ReadyNodes
    <3>2. \A n \in Nodes(graph) \ {Final} : graph.st[n] = "Achieved"
      BY <3>1 DEF GateInv, Gate
    <3>3. ReadyNodes(graph) = {Final}
      BY <1>0, <3>1, <3>2 DEF ReadyNodes, Nodes
    <3> QED
      BY <2>1, <3>3, FS_Singleton DEF RunsSerially
  <2>4. FinalRests(graph, graph')
    BY <1>0, <2>2, <2>3 DEF FinalRests
  <2>5. Gate(graph') /\ graph'.pending = graph.pending
    BY <2>2 DEF Moves, KeepsGate, GateInv
  <2>6. Gate(saved') /\ (saved'.status = "None" => Nodes(saved') = {})
    BY <1>2, <2>2, <2>5 DEF GateInv
  <2>7. graph'.st[Final] = "Running" /\ graph'.pending = "queued" => FALSE
    BY <1>1, <2>4, <2>5 DEF FinalRests, GateInv
  <2> QED
    BY <2>1, <2>2, <2>3, <2>5, <2>6, <2>7 DEF GateInv, BoundaryPc
<1> QED
  BY <1>3, <1>4, <1>5, <1>6, <1>7 DEF Driving

\* A serial node.
LEMMA NodeRunGate ==
  ASSUME IndInv, OwnerInv, GateInv, NodeRun
  PROVE  GateInv'
<1>0. WellFormed(graph)
  BY GraphFacts
<1>1. saved' \in {saved, graph'} /\ batch' = batch /\ pc' \notin BoundaryPc
  BY NodeRunFollows DEF NodeRun, SetupGoal, GoalPlanned, GoalPlanningFails, RoundContinues,
     RoundTripsBudget, GoalCompletes, GoalPausesItself, TurnGivesUp, TurnGivesUpLate,
     TurnFails, RoundEndsTurn, HarvestNode, NodeAchieved, RoundEndInconsistent, EndTurn,
     CutTurn, BoundaryPc
<1>2. CASE \/ SetupGoal \/ GoalPlanned \/ GoalPlanningFails \/ RoundContinues
           \/ GoalCompletes \/ GoalPausesItself \/ TurnGivesUp \/ TurnGivesUpLate
           \/ TurnFails \/ RoundEndsTurn
  <2>1. graph' \in {graph, Pause(graph)} /\ pc # "archive"
    BY <1>2 DEF SetupGoal, GoalPlanned, GoalPlanningFails, RoundContinues, GoalCompletes,
       GoalPausesItself, TurnGivesUp, TurnGivesUpLate, TurnFails, RoundEndsTurn, AutoPause,
       Persist, RoundOver
  <2> QED
    BY <1>0, <1>1, <2>1, RestsKept, GateRest
<1>3. CASE RoundTripsBudget
  <2>1. TripBudget /\ pc = "round"
    BY <1>3 DEF RoundTripsBudget
  <2>2. Moves(graph, graph', graph'.spent, graph.pending) /\ FinalRests(graph, graph')
    BY <2>1, BudgetTripMoves
  <2>3. Rests(graph, graph')
    BY <2>2 DEF Moves, Rests
  <2> QED
    BY <1>1, <2>1, <2>3, GateRest
<1>4. CASE RoundEndInconsistent
  <2>1. Moves(graph, graph', graph'.spent, graph.pending) /\ FinalRests(graph, graph')
    BY <1>4, InconsistentMoves
  <2>2. Rests(graph, graph') /\ pc = "round"
    BY <1>4, <2>1 DEF Moves, Rests, RoundEndInconsistent, RoundOver
  <2> QED
    BY <1>1, <2>2, GateRest
<1>5. CASE HarvestNode
  <2>1. graph' \in {graph, QueueDiscoveries(graph)} /\ pc' = "archive"
        /\ graph.status = "Active"
    BY <1>5 DEF HarvestNode
  <2>2. Moves(graph, graph', graph.spent, graph'.pending) /\ graph'.status = "Active"
    BY <1>0, <2>1, DiscoveriesMove, StutterMoves
  <2>3. Gate(graph')
    BY <2>2 DEF Moves, KeepsGate, GateInv
  <2>4. Gate(saved') /\ (saved'.status = "None" => Nodes(saved') = {})
    BY <1>1, <2>2, <2>3 DEF GateInv
  <2> QED
    BY <1>1, <2>1, <2>2, <2>3, <2>4 DEF GateInv
<1>6. CASE NodeAchieved
  <2>1. pc = "archive" /\ graph.current # NoNode /\ graph.status = "Active"
    BY <1>6, GraphFacts DEF NodeAchieved, TurnInv, OwnerInv, DrivenPc
  <2>2. /\ Moves(graph, graph', graph.spent + goal.used, graph.pending)
        /\ graph'.status = "Active"
        /\ graph'.st[Final] = "Running" =>
             graph.st[Final] = "Running" /\ graph.current # Final
    BY <1>6, <2>1, NodeAchievedMoves
  <2>3. graph'.st[Final] # "Running"
    BY <2>1, <2>2, FinalAlone
  <2>4. Gate(graph')
    BY <2>2 DEF Moves, KeepsGate, GateInv
  <2>5. Gate(saved') /\ (saved'.status = "None" => Nodes(saved') = {})
    BY <1>1, <2>2, <2>4 DEF GateInv
  <2> QED
    BY <1>1, <2>2, <2>3, <2>4, <2>5 DEF GateInv
<1> QED
  BY <1>2, <1>3, <1>4, <1>5, <1>6 DEF NodeRun

\* A parallel batch, which the terminal node is never part of.
LEMMA BatchRunGate ==
  ASSUME IndInv, OwnerInv, GateInv, BatchRun
  PROVE  GateInv'
<1>0. WellFormed(graph)
  BY GraphFacts
<1>1. saved' \in {saved, graph'} /\ batch' \subseteq batch /\ pc' \notin BoundaryPc
      /\ pc \in BatchPc /\ graph.status = "Active"
  <2>1. batch' \subseteq batch /\ pc' \notin BoundaryPc /\ pc \in BatchPc
    BY DEF BatchRun, BatchReports, TakeReport, SettleFailed, SettleMerged,
       SettleMergeFailed, BatchSettled, BoundaryPc, BatchPc
  <2> QED
    BY <2>1, BatchRunFollows DEF OwnerInv, DrivenPc, EnginePc, DriverPc, BatchPc
<1>2. CASE BatchReports \/ BatchSettled
  <2>1. graph' = graph /\ pc # "archive"
    BY <1>2 DEF BatchReports, BatchSettled
  <2> QED
    BY <1>0, <1>1, <2>1, RestsKept, GateRest
<1>3. ASSUME batch # {}, Gate(graph'), graph'.status = "Active",
             graph'.st[Final] = "Running" => graph.st[Final] = "Running"
      PROVE  GateInv'
  <2>1. graph'.st[Final] # "Running"
    BY <1>3, FinalAlone
  <2>2. Gate(saved') /\ (saved'.status = "None" => Nodes(saved') = {})
    BY <1>1, <1>3 DEF GateInv
  <2> QED
    BY <1>1, <1>3, <2>1, <2>2 DEF GateInv
<1>4. CASE TakeReport
  <2>1. graph' \in {graph, QueueDiscoveries(graph)} /\ batch # {}
    BY <1>4 DEF TakeReport, WithDiscoveries
  <2>2. /\ Moves(graph, graph', graph.spent, graph'.pending) /\ graph'.st = graph.st
        /\ graph'.status = "Active"
    BY <1>0, <1>1, <2>1, DiscoveriesMove, StutterMoves
  <2>3. Gate(graph')
    BY <2>2 DEF Moves, KeepsGate, GateInv
  <2> QED
    BY <1>3, <2>1, <2>2, <2>3
<1>5. ASSUME NEW n \in Ids, SettleFailed(n) PROVE GateInv'
  <2>1. batch # {}
    BY <1>5 DEF SettleFailed, IsNextReport
  <2>2. /\ Moves(graph, graph', graph.spent + Cost, graph'.pending)
        /\ graph'.status = "Active" /\ FinalRests(graph, graph')
    BY <1>1, <1>5, SettleFailedMoves
  <2>3. Gate(graph') /\ (graph'.st[Final] = "Running" => graph.st[Final] = "Running")
    BY <2>2 DEF Moves, KeepsGate, GateInv, FinalRests
  <2> QED
    BY <1>3, <2>1, <2>2, <2>3
<1>6. ASSUME NEW n \in Ids, SettleMergeFailed(n) PROVE GateInv'
  <2>1. batch # {}
    BY <1>6 DEF SettleMergeFailed, IsNextReport
  <2>2. /\ Moves(graph, graph', graph.spent, graph.pending)
        /\ graph'.status = "Active" /\ FinalRests(graph, graph')
    BY <1>1, <1>6, SettleMergeFailedMoves
  <2>3. Gate(graph') /\ (graph'.st[Final] = "Running" => graph.st[Final] = "Running")
    BY <2>2 DEF Moves, KeepsGate, GateInv, FinalRests
  <2> QED
    BY <1>3, <2>1, <2>2, <2>3
<1>7. ASSUME NEW n \in Ids, SettleMerged(n) PROVE GateInv'
  <2>1. batch # {} /\ Final \notin batch
    BY <1>7 DEF SettleMerged, IsNextReport, GateInv
  <2>2. /\ KeepsGate(graph, graph') /\ graph'.status = "Active"
        /\ graph'.st[Final] = "Running" => graph.st[Final] = "Running"
    BY <1>1, <1>7, <2>1, SettleMergedMoves
  <2>3. Gate(graph')
    BY <2>2 DEF KeepsGate, GateInv
  <2> QED
    BY <1>3, <2>1, <2>2, <2>3
<1> QED
  BY <1>2, <1>4, <1>5, <1>6, <1>7 DEF BatchRun

\* Every step but a late cancel.
LEMMA GateNext ==
  ASSUME IndInv, DraftInv, OwnerInv, GateInv, [Next]_vars, [~LateCancel]_vars
  PROVE  GateInv'
<1>0. WellFormed(saved) /\ WellFormed(graph)
  BY GraphFacts
<1>1. CASE UNCHANGED vars
  BY <1>1 DEF vars, GateInv, Gate, Nodes
<1>2. CASE (Cancel \/ SendNow) /\ ~LateCancel
  <2>1. /\ graph' \in {graph, Pause(graph)} /\ saved' \in {saved, graph'} /\ batch' = {}
        /\ pc' \in Idle
    BY <1>2 DEF Cancel, SendNow, AutoPause, Persist, EndTurn, CutTurn, Idle
  <2>2. Rests(graph, graph') /\ graph'.st = graph.st
    BY <1>0, <2>1, RestsKept, PauseMoves
  <2>3. CASE pc # "archive"
    BY <2>1, <2>2, <2>3, GateRest DEF BoundaryPc, Idle
  <2>4. CASE pc = "archive"
    <3>1. graph.current # NoNode /\ graph.current # Final
      BY <1>2, <2>4, GraphFacts DEF LateCancel, TurnInv
    <3>2. graph'.st[Final] # "Running"
      BY <2>2, <3>1, FinalAlone
    <3>3. Gate(graph') /\ (graph'.status = "None" => Nodes(graph') = {})
      BY <2>2 DEF Rests, KeepsGate, Follows, GateInv
    <3>4. Gate(saved') /\ (saved'.status = "None" => Nodes(saved') = {})
      BY <2>1, <3>3 DEF GateInv
    <3> QED
      BY <2>1, <3>2, <3>3, <3>4 DEF GateInv, BoundaryPc, Idle
  <2> QED
    BY <2>3, <2>4
<1>3. CASE Crash
  <2>1. graph' = FromSnapshot(saved) /\ saved' \in {saved, graph'} /\ batch' = {}
        /\ pc' = "idle"
    BY <1>3 DEF Crash, EndTurn
  <2>2. /\ Moves(saved, graph', saved.spent, saved.pending)
        /\ saved.status # "None" => graph'.st[Final] # "Running"
    BY <1>0, <2>1, RestartMoves
  <2>3. Gate(graph') /\ Nodes(graph') = Nodes(saved)
        /\ (graph'.status = "None" => saved.status = "None")
    BY <2>2 DEF Moves, KeepsGate, Follows, GateInv
  <2>4. graph'.st[Final] # "Running"
    <3>1. CASE saved.status = "None"
      BY <2>3, <3>1, EmptyGate DEF GateInv
    <3> QED
      BY <2>2, <3>1
  <2>5. graph'.status = "None" => Nodes(graph') = {}
    BY <2>3 DEF GateInv
  <2>6. Gate(saved') /\ (saved'.status = "None" => Nodes(saved') = {})
    BY <2>1, <2>3, <2>5 DEF GateInv
  <2> QED
    BY <2>1, <2>3, <2>4, <2>5, <2>6 DEF GateInv, BoundaryPc
<1> QED
  BY <1>1, <1>2, <1>3, CommandGate, PlanningGate, DrivingGate, NodeRunGate, BatchRunGate
     DEF Next, TurnStep

\* The gate's invariant, as long as no cancel comes late.
THEOREM GateInductive == Spec /\ [][~LateCancel]_vars => []GateInv
<1>1. Init => GateInv
  <2>1. Init => /\ graph = NoGraph /\ saved = NoGraph /\ batch = {} /\ pc = "idle"
    BY DEF Init
  <2>2. Nodes(NoGraph) = {} /\ Gate(NoGraph)
        /\ NoGraph.st[Final] \notin {"Running", "Achieved"}
    BY NoGraphWellFormed, EmptyGate
  <2> QED
    BY <2>1, <2>2 DEF GateInv
<1>2. IndInv /\ DraftInv /\ OwnerInv /\ GateInv /\ [Next]_vars /\ [~LateCancel]_vars
      => GateInv'
  BY GateNext
<1> QED
  BY <1>1, <1>2, GraphModeInductive, LedgerInductive, PTL DEF Spec

\* The terminal node that re-verifies the objective runs, and passes, only
\* when every other node is achieved, whatever is replanned, optimized,
\* failed, resumed, restarted or cancelled: only a cancel or a send-now that
\* strikes between its own verdict and `mark_node_achieved` can break that.
THEOREM TerminalRunsLast == Spec /\ [][~LateCancel]_vars => []FinalGate
<1>1. GateInv => FinalGate
  BY DEF GateInv, Gate, FinalGate
<1> QED
  BY <1>1, GateInductive, PTL
=============================================================================
