---------------------------- MODULE GraphTracker ----------------------------
(***************************************************************************)
(* The graph tracker of kigi-shell (session/graph_tracker.rs): the state   *)
(* of one `/graph` orchestration, a DAG of nodes that each run as a        *)
(* self-verifying goal, and the transitions the session applies to it.     *)
(* Every operator takes the tracker's state `g` and returns the next one,  *)
(* as the Rust methods mutate `self.state` under the tracker's mutex.      *)
(*                                                                         *)
(* Node ids are numbers whose order is the storage order of `state.nodes`: *)
(* the planner's nodes, the harness-appended terminal node Final           *)
(* ("gn-final"), then the nodes replans append.  A node that is not in the *)
(* list has status "Absent".  Only `Blocks` edges are kept: the other kind *)
(* (`DiscoveredFrom`) never gates scheduling.  The five paused statuses    *)
(* behave alike and are one status "Paused"; history, wording and          *)
(* wall-clock accounting are left out.                                     *)
(***************************************************************************)
EXTENDS Integers, FiniteSets

CONSTANTS PlannerIds,  \* ids a planner artifact may define
          Final,       \* FINAL_NODE_ID
          ReplanIds,   \* ids a replan appendix may define
          NoNode       \* `None` where a node id is optional

Ids == PlannerIds \cup {Final} \cup ReplanIds

ASSUME IdsAssumption ==
  /\ Ids \subseteq Nat /\ IsFiniteSet(Ids)
  /\ \A p \in PlannerIds : p < Final
  /\ \A r \in ReplanIds : Final < r
  /\ NoNode \notin Ids

\* `token_budget: None`: no limit on the tokens of a graph or a goal.
NoLimit == -1

Terminal == {"Achieved", "Failed", "Blocked"}
Dead == {"Failed", "Blocked"}
InFlight == {"Running"}
NodeStatus == {"Absent", "Waiting", "Ready", "Running"} \cup Terminal
GraphStatus == {"None", "Active", "Paused", "BudgetLimited", "Complete"}

\* GraphOrchestration, with status "None" for a tracker that holds no graph.
GraphState ==
  [id      : Nat,
   status  : GraphStatus,
   st      : [Ids -> NodeStatus],
   deps    : [Ids -> SUBSET Ids],
   current : Ids \cup {NoNode},
   budget  : Int,
   spent   : Int,
   pending : {"none", "queued"},
   version : Nat,
   runs    : Nat]

NoGraph ==
  [id |-> 0, status |-> "None", st |-> [n \in Ids |-> "Absent"],
   deps |-> [n \in Ids |-> {}], current |-> NoNode, budget |-> NoLimit,
   spent |-> 0, pending |-> "none", version |-> 0, runs |-> 0]

Nodes(g) == {n \in Ids : g.st[n] # "Absent"}
ReadyNodes(g) == {n \in Ids : g.st[n] = "Ready"}

\* `remaining_budget() == Some(0)`; the subtraction saturates at zero.
BudgetExhausted(g) == g.budget # NoLimit /\ g.spent >= g.budget

\* `remaining_budget()`, the budget a node's goal is armed with.
RemainingBudget(g) ==
  IF g.budget = NoLimit THEN NoLimit
  ELSE IF g.spent >= g.budget THEN 0 ELSE g.budget - g.spent

\* `next_ready_node`: n is the first Ready node in storage order.
IsNextReady(g, n) ==
  n \in ReadyNodes(g) /\ \A m \in ReadyNodes(g) : n <= m

\* The first `cap` Ready nodes in storage order.
FirstReady(g, cap) ==
  {n \in ReadyNodes(g) : Cardinality({m \in ReadyNodes(g) : m < n}) < cap}

AllAchieved(g) ==
  Nodes(g) # {} /\ \A n \in Nodes(g) : g.st[n] = "Achieved"

IsWedged(g) ==
  /\ Nodes(g) # {}
  /\ \E n \in Nodes(g) : g.st[n] # "Achieved"
  /\ \A n \in Nodes(g) : g.st[n] \notin {"Ready", "Running"}

\* Every dependency names a node of the graph.
DepsResolve(g) == \A n \in Ids : g.deps[n] \subseteq Nodes(g)

-----------------------------------------------------------------------------
(* Readiness and failure propagation.                                      *)

DepsAchieved(g, n) == \A m \in g.deps[n] : g.st[m] = "Achieved"

\* Mutant: a dependency that merely runs already unlocks its dependents.
RecomputeReadyEager(g) ==
  [g EXCEPT !.st = [n \in Ids |->
     IF /\ g.st[n] = "Waiting"
        /\ \A m \in g.deps[n] : g.st[m] \in {"Running", "Achieved"}
     THEN "Ready" ELSE g.st[n]]]

\* Promote every Waiting node whose Blocks deps are all Achieved.
RecomputeReady(g) ==
  [g EXCEPT !.st = [n \in Ids |->
     IF g.st[n] = "Waiting" /\ DepsAchieved(g, n) THEN "Ready" ELSE g.st[n]]]

\* B absorbs every live node that depends on a member of B.
Absorbs(g, B) ==
  \A n \in Nodes(g) :
    g.st[n] \notin Terminal /\ g.deps[n] \cap B # {} => n \in B

\* `block_dependents`' fixed point: the least absorbing set that holds f.
DeadBranch(g, f) ==
  {n \in Ids : \A B \in SUBSET Ids : f \in B /\ Absorbs(g, B) => n \in B}

BlockDependents(g, f) ==
  [g EXCEPT !.st = [n \in Ids |->
     IF n \in DeadBranch(g, f) \ {f} THEN "Blocked" ELSE g.st[n]]]

-----------------------------------------------------------------------------
(* Planning.                                                               *)

CreateGraph(id, tokenBudget) ==
  [NoGraph EXCEPT !.id = id, !.status = "Active", !.version = 1,
                  !.budget = tokenBudget]

\* A planner artifact `parse_and_validate` accepts, in canonical form: P is
\* its nodes in stable topological order (so every dep is stored earlier),
\* d their deps; the harness appends Final, gated on all of them.
ValidPlan(P, d) ==
  /\ P # {}
  /\ \A n \in P : \A m \in PlannerIds : m < n => m \in P
  /\ \A n \in P : \A m \in d[n] : m < n

InstallNodes(g, P, d) ==
  RecomputeReady([g EXCEPT
    !.st = [n \in Ids |-> IF n \in P \cup {Final} THEN "Waiting" ELSE "Absent"],
    !.deps = [n \in Ids |-> IF n \in P THEN d[n]
                            ELSE IF n = Final THEN P ELSE {}]])

-----------------------------------------------------------------------------
(* One node's life.                                                        *)

MarkNodeRunning(g, n) ==
  [g EXCEPT !.st[n] = "Running", !.current = n]

ChargeNodeTokens(g, tokens) == [g EXCEPT !.spent = @ + tokens]

MarkNodeAchieved(g, n, tokens) ==
  RecomputeReady([g EXCEPT !.st[n] = "Achieved", !.spent = @ + tokens,
                           !.current = NoNode])

MarkNodeFailed(g, n) ==
  BlockDependents([g EXCEPT !.st[n] = "Failed", !.current = NoNode], n)

-----------------------------------------------------------------------------
(* Graph-level transitions.                                                *)

\* Mutant: failed nodes are put back into play as well.
DemoteFailedToo(st, keep) ==
  [n \in Ids |-> IF st[n] \in {"Running", "Failed"} /\ n # keep
                 THEN "Ready" ELSE st[n]]

DemoteInFlight(st, keep) ==
  [n \in Ids |-> IF st[n] \in InFlight /\ n # keep THEN "Ready" ELSE st[n]]

Pause(g) == IF g.status = "Active" THEN [g EXCEPT !.status = "Paused"] ELSE g

Resume(g) == RecomputeReady([g EXCEPT !.status = "Active"])

\* Mutant: the kept node loses its current-node pointer.
DemoteForgetsKept(g, keep) ==
  RecomputeReady([g EXCEPT !.st = DemoteInFlight(g.st, keep),
                           !.current = NoNode])

DemoteOrphanedInFlight(g, keep) ==
  RecomputeReady([g EXCEPT !.st = DemoteInFlight(g.st, keep), !.current = keep])

Complete(g) == [g EXCEPT !.status = "Complete"]

BudgetLimit(g) ==
  IF g.status = "Active"
  THEN [g EXCEPT !.st = DemoteInFlight(g.st, NoNode), !.current = NoNode,
                 !.status = "BudgetLimited"]
  ELSE g

ResumeBudgetLimited(g, extra) ==
  RecomputeReady([g EXCEPT !.budget = g.spent + extra, !.status = "Active"])

\* A snapshot read back after a restart never drives itself.
FromSnapshot(g) ==
  IF g.status = "None" THEN g
  ELSE RecomputeReady([g EXCEPT
         !.status = IF @ = "Active" THEN "Paused" ELSE @,
         !.st = DemoteInFlight(g.st, NoNode), !.current = NoNode])

-----------------------------------------------------------------------------
(* Discoveries and replans.                                                *)

QueueDiscoveries(g) == [g EXCEPT !.pending = "queued"]

DrainDiscoveries(g) == [g EXCEPT !.pending = "none"]

\* Mutant: deps on failed or blocked nodes are accepted.
AppendixOnDeadNodes(g, A, d) ==
  /\ A # {}
  /\ A \cap Nodes(g) = {}
  /\ \A a \in A : \A m \in d[a] : m # a /\ m \in (A \cup Nodes(g)) \ {Final}

\* The nodes A are stored after all the others, in the next free places.
StoredLast(x, A) ==
  \A a \in A :
    /\ \A m \in Nodes(x) : m < a
    /\ \A r \in ReplanIds : r < a => r \in A \/ \E m \in Nodes(x) : r <= m

\* An appendix `validate_replan` accepts: fresh ids stored after everything
\* else, whose deps are live existing nodes or appendix nodes, never Final.
ValidAppendix(g, A, d) ==
  /\ A # {}
  /\ A \cap Nodes(g) = {}
  /\ StoredLast(g, A)
  /\ \A a \in A : \A m \in d[a] :
       \/ m \in A /\ m # a
       \/ m \in Nodes(g) \ {Final} /\ g.st[m] \notin Dead
  /\ \A C \in (SUBSET A) \ {{}} : ~ \A a \in C : d[a] \cap C # {}

\* Mutant: the terminal node's gate names nodes that were never stored.
AppendGateOnly(g, A, d) ==
  [g EXCEPT !.deps[Final] = @ \cup A, !.version = @ + 1, !.runs = @ + 1,
            !.pending = "none"]

\* Mutant: a terminal node that is already Ready stays Ready.
AppendKeepsFinalReady(g, A, d) ==
  RecomputeReady([g EXCEPT
    !.st = [n \in Ids |-> IF n \in A THEN "Waiting" ELSE g.st[n]],
    !.deps = [n \in Ids |-> IF n \in A THEN d[n]
                            ELSE IF n = Final THEN g.deps[n] \cup A
                            ELSE g.deps[n]],
    !.version = @ + 1, !.runs = @ + 1, !.pending = "none"])

AppendReplanNodes(g, A, d) ==
  RecomputeReady([g EXCEPT
    !.st = [n \in Ids |-> IF n \in A THEN "Waiting"
                          ELSE IF n = Final /\ g.st[n] = "Ready" THEN "Waiting"
                          ELSE g.st[n]],
    !.deps = [n \in Ids |-> IF n \in A THEN d[n]
                            ELSE IF n = Final THEN g.deps[n] \cup A
                            ELSE g.deps[n]],
    !.version = @ + 1, !.runs = @ + 1, !.pending = "none"])

-----------------------------------------------------------------------------
(* The optimizer's ops (`apply_optimization`) edit a draft of the nodes,    *)
(* which is then checked and installed as a whole.                         *)

Drafts == [st : [Ids -> NodeStatus], deps : [Ids -> SUBSET Ids]]
Draft(g) == [st |-> g.st, deps |-> g.deps]
NoDraft == Draft(NoGraph)

Pending(x) == {n \in Ids : x.st[n] \in {"Waiting", "Ready"}}

\* A pending node whose dependents may all be rewired.
Replaceable(x, n) ==
  /\ n \in Pending(x) \ {Final}
  /\ \A m \in Nodes(x) \ {Final} : n \in x.deps[m] => m \in Pending(x)

Repoint(D, n, T) == IF n \in D THEN (D \ {n}) \cup T ELSE D

RemoveDep(x, n, m) == [x EXCEPT !.deps[n] = @ \ {m}]

\* `into` takes over what `from` waits for and what waits for it.
MergeNodes(x, into, from) ==
  [st   |-> [x.st EXCEPT ![from] = "Absent"],
   deps |-> [n \in Ids |->
     IF n = from THEN {}
     ELSE LET D == IF n = into THEN x.deps[into] \cup x.deps[from] ELSE x.deps[n]
          IN  Repoint(D, from, {into}) \ {n}]]

\* A node is replaced by two or three fresh ones, which keep its deps and may
\* add others, on live nodes or on each other.  (One on the terminal node
\* would always be refused as a cycle.)
Replacements(x) ==
  {A \in SUBSET ReplanIds : Cardinality(A) \in 2..3 /\ StoredLast(x, A)}

SplitDeps(x, n, A) ==
  A \cup {m \in Nodes(x) \ {n, Final} : x.st[m] \notin Dead}

SplitNode(x, n, A, d) ==
  [st   |-> [m \in Ids |-> IF m \in A THEN "Waiting"
                           ELSE IF m = n THEN "Absent" ELSE x.st[m]],
   deps |-> [m \in Ids |->
     IF m \in A THEN Repoint(x.deps[n] \cup d[m], n, A)
     ELSE IF m = n THEN {} ELSE Repoint(x.deps[m], n, A)]]

\* Two pending nodes trade places in storage order, ids being places; a
\* longer reorder is a product of such swaps.
SwapNodes(x, a, b) ==
  LET other(n) == IF n = a THEN b ELSE IF n = b THEN a ELSE n
  IN  [st   |-> [n \in Ids |-> x.st[other(n)]],
       deps |-> [n \in Ids |-> {m \in Ids : other(m) \in x.deps[other(n)]}]]

\* The terminal gate is rebuilt over every other node.
WithGate(x) == [x EXCEPT !.deps[Final] = Nodes(x) \ {Final}]

\* Mutant: cycles go unnoticed.
CyclesIgnored(x) == TRUE

\* No nodes that each wait for another one of them.
Acyclic(x) ==
  \A C \in (SUBSET Nodes(x)) \ {{}} : ~ \A n \in C : x.deps[n] \cap C # {}

\* The checks of the whole result: nodes that were not pending are as they
\* were, and the graph resolves and has no cycle.
ValidOptimization(g, x) ==
  /\ \A n \in Nodes(g) \ (Pending(g) \cup {Final}) :
       x.st[n] = g.st[n] /\ x.deps[n] = g.deps[n]
  /\ DepsResolve(WithGate(x))
  /\ Acyclic(WithGate(x))

\* Mutant: readiness is only ever promoted.
InstallKeepsReady(g, x) ==
  RecomputeReady([g EXCEPT
    !.deps = WithGate(x).deps, !.st = x.st, !.version = @ + 1, !.runs = @ + 1])

\* Every pending status is derived afresh, in both directions.
InstallOptimizedNodes(g, x) ==
  RecomputeReady([g EXCEPT
    !.deps = WithGate(x).deps,
    !.st = [n \in Ids |-> IF n \in Pending(x) THEN "Waiting" ELSE x.st[n]],
    !.version = @ + 1, !.runs = @ + 1])

-----------------------------------------------------------------------------
(* What every transition above preserves.                                  *)

\* Nothing depends on the terminal node, which depends on all the others.
FinalIsLast(g) ==
  /\ \A n \in Ids : Final \notin g.deps[n]
  /\ g.deps[Final] = Nodes(g) \ {Final}

\* A node other than the terminal one is in play, or done, only when every
\* node it depends on is achieved.
InOrder(g) ==
  \A n \in Ids \ {Final} :
    g.st[n] \in {"Ready", "Running", "Achieved"} => DepsAchieved(g, n)

\* No live node depends on a failed or blocked one.
DeadBranchClosed(g) ==
  \A n \in Nodes(g) :
    (\E m \in g.deps[n] : g.st[m] \in Dead) => g.st[n] \in Terminal

\* A draft x of g: settled and running nodes are g's, no pending node depends
\* on a failed or blocked one, and none that is gone on the terminal one.
DraftOf(g, x) ==
  /\ x \in Drafts
  /\ x.st[Final] = g.st[Final]
  /\ Nodes(g) # {} => Nodes(x) # {}
  /\ \A n \in Ids \ Nodes(x) : Final \notin x.deps[n]
  /\ \A n \in Nodes(x) \ Pending(x) : x.st[n] = g.st[n]
  /\ \A n \in Pending(x) : \A m \in x.deps[n] : x.st[m] \notin Dead

WellFormed(g) ==
  /\ g \in GraphState
  /\ DepsResolve(g)
  /\ FinalIsLast(g)
  /\ InOrder(g)
  /\ DeadBranchClosed(g)
=============================================================================
