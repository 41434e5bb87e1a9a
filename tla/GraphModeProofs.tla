-------------------------- MODULE GraphModeProofs --------------------------
(***************************************************************************)
(* Safety of graph mode for every plan, budget, concurrency and cap, and   *)
(* any number of cancels, failures and crashes.  The graph in memory and   *)
(* the snapshot on disk are both good graphs, whatever the turn was doing  *)
(* when it was last written, and the turn's position tells what it may     *)
(* still do to the graph.                                                  *)
(***************************************************************************)
EXTENDS GraphMode, GraphTrackerProofs, FiniteSetTheorems

\* The node on the serial goal engine runs.
CurrentRuns(g) == g.current # NoNode => g.st[g.current] = "Running"

\* A graph with nodes has its first baseline frozen; one without nodes is
\* still at version 1 and has nothing to replan for.
Baselined(g, frozen) ==
  /\ Nodes(g) # {} => <<g.id, 1>> \in frozen
  /\ Nodes(g) = {} => g.pending = "none" /\ (g.status # "None" => g.version = 1)

Good(g, frozen) == WellFormed(g) /\ CurrentRuns(g) /\ Baselined(g, frozen)

PlannerPc == {"plan", "baseline", "install"}
BatchPc == {"batch", "settle", "merge"}
DriverPc == {"optimize", "rewrite", "freeze_optimized", "freeze_replan", "drive",
             "replan", "batch", "settle", "merge"}

\* From g to h a graph without nodes neither comes from nowhere nor queues
\* discoveries.
StatusKept(g, h) ==
  \/ Nodes(g) # {}
  \/ /\ h.status = g.status \/ g.status # "None"
     /\ h.pending \in {g.pending, "none"}

\* What a turn that awaits at pc relies on.
TurnInv ==
  /\ pc = "archive" => graph.current # NoNode
  /\ pc \in PlannerPc =>
       Nodes(graph) = {} /\ graph.version = 1
  /\ pc = "install" => <<graph.id, 1>> \in baselines
  /\ pc \in DriverPc \ {"drive"} => Nodes(graph) # {}
  /\ pc \notin BatchPc => batch = {}
  /\ \A n \in batch : \/ graph.st[n] = "Running"
                      \/ n = Final /\ graph.st[n] # "Absent"

\* The variables other than the graph's two copies and the draft have their
\* types.
EnvOK ==
  /\ goal \in GoalState
  /\ pc \in {"idle", "cut", "plan", "baseline", "install", "optimize", "rewrite",
             "freeze_optimized", "freeze_replan", "drive", "replan",
             "setup_goal", "goal_planner", "round", "archive", "batch", "settle",
             "merge"}
  /\ origin \in {"set", "resume"}
  /\ batch \subseteq Ids
  /\ baselines \subseteq Nat \X Nat
  /\ burnt \in Int
  /\ taken \in [Event -> Nat]

IndInv ==
  /\ EnvOK
  /\ Good(graph, baselines) /\ Good(saved, baselines)
  /\ TurnInv

\* What an optimizer pass has made of the graph so far is a draft of it.
DraftInv == draft \in Drafts /\ (pc = "rewrite" => DraftOf(graph, draft))

-----------------------------------------------------------------------------
(* Good graphs.                                                            *)

\* A good graph stays good when more baselines are frozen.
LEMMA GoodGrows ==
  ASSUME NEW g, NEW B, NEW C, Good(g, B), B \subseteq C
  PROVE  Good(g, C)
  BY DEF Good, Baselined

\* A change of anything but the nodes, the current node and the version.
LEMMA GoodSame ==
  ASSUME NEW g, NEW h, NEW B, Good(g, B), WellFormed(h), h.st = g.st,
         h.id = g.id, h.version = g.version, h.current = g.current,
         StatusKept(g, h)
  PROVE  Good(h, B)
  BY DEF Good, Baselined, CurrentRuns, Nodes, StatusKept

\* A change of the nodes' statuses that keeps the current node running.
LEMMA GoodStep ==
  ASSUME NEW g, NEW h, NEW B, Good(g, B), WellFormed(h), Nodes(h) = Nodes(g),
         h.id = g.id, h.version = g.version, CurrentRuns(h),
         StatusKept(g, h)
  PROVE  Good(h, B)
  BY DEF Good, Baselined, StatusKept

\* `persist_graph_state` keeps both copies good.
LEMMA PersistGood ==
  ASSUME NEW g, NEW B, Good(g, B), Good(saved, B), Persist(g)
  PROVE  Good(graph', B) /\ Good(saved', B)
  BY DEF Persist

\* What does not touch the discoveries.
LEMMA PendingKept ==
  ASSUME NEW g \in GraphState
  PROVE  /\ Pause(g).pending = g.pending
         /\ BudgetLimit(g).pending = g.pending
         /\ FromSnapshot(g).pending = g.pending
         /\ DrainDiscoveries(g).pending = "none"
         /\ [DrainDiscoveries(g) EXCEPT !.runs = @ + 1].pending = "none"
         /\ \A t \in Int : ChargeNodeTokens(g, t).pending = g.pending
         /\ \A t \in Int : ResumeBudgetLimited(g, t).pending = g.pending
         /\ \A n \in Ids \cup {NoNode} :
              DemoteOrphanedInFlight(Resume(g), n).pending = g.pending
<1>1. DOMAIN g = {"id", "status", "st", "deps", "current", "budget", "spent",
                  "pending", "version", "runs"}
  BY DEF GraphState
<1>2. ASSUME NEW x, DOMAIN x = DOMAIN g, x.pending = g.pending
      PROVE  RecomputeReady(x).pending = g.pending /\ DOMAIN RecomputeReady(x) = DOMAIN g
  BY <1>1, <1>2 DEF RecomputeReady
<1>3. Pause(g).pending = g.pending /\ BudgetLimit(g).pending = g.pending
  BY <1>1 DEF Pause, BudgetLimit
<1>4. FromSnapshot(g).pending = g.pending
  <2> DEFINE x == [g EXCEPT !.status = IF @ = "Active" THEN "Paused" ELSE @,
                            !.st = DemoteInFlight(g.st, NoNode), !.current = NoNode]
  <2>1. DOMAIN x = DOMAIN g /\ x.pending = g.pending
    BY <1>1
  <2>2. RecomputeReady(x).pending = g.pending
    BY <1>2, <2>1
  <2> QED
    BY <2>2 DEF FromSnapshot
<1>5. /\ DrainDiscoveries(g).pending = "none"
      /\ [DrainDiscoveries(g) EXCEPT !.runs = @ + 1].pending = "none"
      /\ \A t \in Int : ChargeNodeTokens(g, t).pending = g.pending
  BY <1>1 DEF DrainDiscoveries, ChargeNodeTokens
<1>6. \A t \in Int : ResumeBudgetLimited(g, t).pending = g.pending
  BY <1>1, <1>2 DEF ResumeBudgetLimited
<1>7. Resume(g).pending = g.pending /\ DOMAIN Resume(g) = DOMAIN g
  BY <1>1, <1>2 DEF Resume
<1>8. ASSUME NEW n \in Ids \cup {NoNode}
      PROVE  DemoteOrphanedInFlight(Resume(g), n).pending = g.pending
  BY <1>1, <1>2, <1>7 DEF DemoteOrphanedInFlight
<1> QED
  BY <1>3, <1>4, <1>5, <1>6, <1>8

\* `pause` keeps a graph good.
LEMMA PauseGood ==
  ASSUME NEW g, NEW B, Good(g, B)
  PROVE  /\ Good(Pause(g), B) /\ Pause(g).st = g.st /\ Pause(g).current = g.current
         /\ Pause(g).status # "Active"
<1>1. WellFormed(g)
  BY DEF Good
<1>2. /\ WellFormed(Pause(g)) /\ Pause(g).st = g.st /\ Pause(g).id = g.id
      /\ Pause(g).version = g.version /\ Pause(g).current = g.current
      /\ Pause(g).status # "Active" /\ Pause(g).status \in {g.status, "Paused"}
      /\ g.status = "None" => Pause(g).status = "None"
  BY <1>1, SameNodesWellFormed
<1>3. StatusKept(g, Pause(g))
  BY <1>1, <1>2, PendingKept DEF StatusKept, WellFormed
<1> QED
  BY <1>2, <1>3, GoodSame

\* A tracker that holds no graph is good.
LEMMA NoGraphGood ==
  ASSUME NEW B
  PROVE  Good(NoGraph, B)
<1>1. NoGraph.pending = "none"
  BY DEF NoGraph
<1> QED
  BY <1>1, NoGraphWellFormed DEF Good, CurrentRuns, Baselined

\* `budget_limit`, which demotes every node in flight, keeps a graph good.
LEMMA BudgetLimitGood ==
  ASSUME NEW g, NEW B, Good(g, B)
  PROVE  Good(BudgetLimit(g), B)
<1>1. WellFormed(g)
  BY DEF Good
<1>2. LET h == BudgetLimit(g)
      IN  /\ WellFormed(h) /\ Nodes(h) = Nodes(g)
          /\ h.id = g.id /\ h.version = g.version
          /\ \/ h.current = NoNode
             \/ h.current = g.current /\ h.st = g.st
  BY <1>1, BudgetLimitWellFormed
<1>3. CurrentRuns(BudgetLimit(g))
  BY <1>2 DEF Good, CurrentRuns
<1>4. BudgetLimit(g).pending = g.pending /\ (g.status = "None" => BudgetLimit(g) = g)
  BY <1>1, PendingKept DEF BudgetLimit, WellFormed
<1> QED
  BY <1>2, <1>3, <1>4, GoodStep DEF StatusKept

\* Charging tokens keeps a graph good.
LEMMA ChargeGood ==
  ASSUME NEW g, NEW B, Good(g, B), NEW tokens \in Int
  PROVE  Good(ChargeNodeTokens(g, tokens), B) /\ Good(ChargeCurrent(g, tokens), B)
<1>1. WellFormed(g)
  BY DEF Good
<1>2. Good(ChargeNodeTokens(g, tokens), B)
  BY <1>1, ChargeWellFormed, GoodSame, PendingKept DEF StatusKept, WellFormed
<1> QED
  BY <1>2 DEF ChargeCurrent

\* Queueing and draining discoveries keep a graph good.
LEMMA DiscoveriesGood ==
  ASSUME NEW g, NEW B, Good(g, B)
  PROVE  /\ Nodes(g) # {} => Good(QueueDiscoveries(g), B)
         /\ Good(DrainDiscoveries(g), B)
         /\ Good([DrainDiscoveries(g) EXCEPT !.runs = @ + 1], B)
<1>1. WellFormed(g)
  BY DEF Good
<1>2. /\ Nodes(g) # {} => Good(QueueDiscoveries(g), B)
      /\ Good(DrainDiscoveries(g), B)
  BY <1>1, SameNodesWellFormed, GoodSame, PendingKept DEF StatusKept, WellFormed
<1>3. Good([DrainDiscoveries(g) EXCEPT !.runs = @ + 1], B)
  BY <1>1, DrainAndCountWellFormed, GoodSame, PendingKept DEF StatusKept, WellFormed
<1> QED
  BY <1>2, <1>3

\* `mark_node_failed` neither adds nor removes a node.
LEMMA FailedKeepsNodes ==
  ASSUME NEW g, WellFormed(g), NEW f \in Nodes(g), g.st[f] = "Running" \/ f = Final
  PROVE  Nodes(MarkNodeFailed(g, f)) = Nodes(g)
<1>1. f \in Ids
  BY DEF Nodes
<1>2. /\ \A n \in Ids \ {f} : g.st[n] \in Terminal \cup {"Absent"} =>
           MarkNodeFailed(g, f).st[n] = g.st[n]
      /\ \A n \in Ids : g.st[n] # "Absent" => MarkNodeFailed(g, f).st[n] # "Absent"
  BY MarkNodeFailedWellFormed
<1> QED
  BY <1>1, <1>2 DEF Nodes

\* The nodes of a batch, and what happens to the others while it settles.
LEMMA SettleFailedGood ==
  ASSUME NEW g, NEW B, Good(g, B), NEW f \in Nodes(g),
         g.st[f] = "Running" \/ f = Final
  PROVE  /\ Good(MarkNodeFailed(g, f), B)
         /\ \A n \in Ids \ {f} :
              g.st[n] = "Running" /\ n # Final => MarkNodeFailed(g, f).st[n] = "Running"
         /\ \A n \in Ids : g.st[n] # "Absent" => MarkNodeFailed(g, f).st[n] # "Absent"
<1> DEFINE h == MarkNodeFailed(g, f)
<1>1. WellFormed(g) /\ g \in GraphState /\ f \in Ids
  BY DEF Good, WellFormed, Nodes
<1>2. /\ WellFormed(h)
      /\ \A n \in Ids \ {f} : DepsAchieved(g, n) /\ n # Final => h.st[n] = g.st[n]
      /\ \A n \in Ids \ {f} : g.st[n] \in Terminal \cup {"Absent"} => h.st[n] = g.st[n]
      /\ \A n \in Ids : g.st[n] # "Absent" => h.st[n] # "Absent"
  BY <1>1, MarkNodeFailedWellFormed
<1>3. h.id = g.id /\ h.version = g.version /\ h.status = g.status /\ h.current = NoNode
  BY <1>1, MarkNodeFailedFacts
<1> HIDE DEF h
<1>4. Nodes(h) = Nodes(g)
  BY <1>2 DEF Nodes
<1>5. CurrentRuns(h)
  BY <1>3 DEF CurrentRuns
<1>6. Good(h, B)
  BY <1>2, <1>3, <1>4, <1>5, GoodStep DEF StatusKept
<1>7. \A n \in Ids \ {Final} : g.st[n] = "Running" => DepsAchieved(g, n)
  BY <1>1 DEF WellFormed, InOrder
<1> QED
  BY <1>2, <1>6, <1>7 DEF h

\* The settlement of an achieved report keeps the graph good.
LEMMA SettleAchievedGood ==
  ASSUME NEW g, NEW B, Good(g, B), NEW f \in Nodes(g), NEW tokens \in Int,
         g.st[f] = "Running" \/ f = Final
  PROVE  /\ Good(MarkNodeAchieved(g, f, tokens), B)
         /\ \A n \in Ids \ {f} :
              g.st[n] = "Running" => MarkNodeAchieved(g, f, tokens).st[n] = "Running"
         /\ \A n \in Ids : g.st[n] # "Absent" =>
              MarkNodeAchieved(g, f, tokens).st[n] # "Absent"
<1> DEFINE h == MarkNodeAchieved(g, f, tokens)
<1>1. WellFormed(g)
  BY DEF Good
<1>2. /\ WellFormed(h) /\ Nodes(h) = Nodes(g)
      /\ h.id = g.id /\ h.version = g.version /\ h.status = g.status
      /\ h.current = NoNode
      /\ \A n \in Ids \ {f} : g.st[n] # "Waiting" => h.st[n] = g.st[n]
  BY <1>1, MarkNodeAchievedWellFormed
<1> HIDE DEF h
<1>3. CurrentRuns(h)
  BY <1>2 DEF CurrentRuns
<1>4. Good(h, B)
  BY <1>2, <1>3, GoodStep DEF StatusKept
<1>5. \A n \in Ids : g.st[n] # "Absent" => h.st[n] # "Absent"
  BY <1>2 DEF Nodes
<1> QED
  BY <1>2, <1>4, <1>5 DEF h

-----------------------------------------------------------------------------
(* The initial state, and one step.                                        *)

\* A session starts without a graph, in the invariant.
LEMMA InitInductive == Init => IndInv
<1> SUFFICES ASSUME Init PROVE IndInv
  OBVIOUS
<1>1. Good(NoGraph, {}) /\ Nodes(NoGraph) = {} /\ NoGraph \in GraphState
      /\ DepsResolve(NoGraph)
  BY NoGraphGood, NoGraphWellFormed DEF WellFormed
<1>2. NoGoal \in GoalState
  BY DEF NoGoal, GoalState, GraphStatus, NoLimit
<1>3. EnvOK
  BY <1>2 DEF Init, EnvOK
<1>4. TurnInv
  BY <1>1, NoGraphWellFormed DEF Init, TurnInv, BatchPc, PlannerPc, DriverPc
<1> QED
  BY <1>1, <1>3, <1>4 DEF Init, IndInv

\* The inductive invariant contains type correctness.
LEMMA TypeSplits == IndInv /\ DraftInv => TypeOK
  BY DEF TypeOK, IndInv, EnvOK, Good, WellFormed, DraftInv

\* The inductive invariant, put together again after a step.
LEMMA StepRebuilds ==
  ASSUME NEW B, B \subseteq baselines', Good(graph', B), Good(saved', B),
         EnvOK', TurnInv'
  PROVE  IndInv'
<1>1. Good(graph', baselines') /\ Good(saved', baselines')
  BY GoodGrows
<1> QED
  BY <1>1 DEF IndInv

\* An empty engine is a goal state.
LEMMA NoGoalType == NoGoal \in GoalState
  BY DEF NoGoal, GoalState, GraphStatus, NoLimit

\* Pausing a goal keeps its type.
LEMMA PauseGoalType ==
  ASSUME NEW o \in GoalState
  PROVE  PauseGoal(o) \in GoalState
  BY DEF PauseGoal, GoalState, GraphStatus

\* Counting an event of the environment keeps the counters typed.
LEMMA TakeType ==
  ASSUME NEW e \in Event, taken \in [Event -> Nat], Take(e)
  PROVE  taken' \in [Event -> Nat]
  BY DEF Take

\* `auto_pause_goal_if_active`.
LEMMA AutoPauseGood ==
  ASSUME NEW B, Good(graph, B), Good(saved, B), goal \in GoalState, AutoPause
  PROVE  /\ Good(graph', B) /\ Good(saved', B) /\ goal' \in GoalState
         /\ graph'.status # "Active"
<1>1. Good(graph', B) /\ Good(saved', B) /\ goal' \in GoalState
  BY PauseGood, PersistGood, PauseGoalType DEF AutoPause
<1>2. graph'.status # "Active"
  BY PauseGood DEF AutoPause, Persist
<1> QED
  BY <1>1, <1>2

\* A turn that ends relies on nothing any more.
LEMMA IdleTurn ==
  ASSUME pc' \in Idle, batch' = {}
  PROVE  TurnInv'
  BY DEF TurnInv, Idle, BatchPc, PlannerPc, DriverPc

\* A step that moves the turn and changes nothing a turn relies on.
LEMMA SameTurn ==
  ASSUME TurnInv, Nodes(graph') = Nodes(graph), batch' = {}, pc' # "archive",
         pc' \notin PlannerPc, pc' \in DriverPc => pc' = "drive"
  PROVE  TurnInv'
  BY DEF TurnInv, BatchPc, PlannerPc, DriverPc

\* The user's commands.
LEMMA CommandInductive == IndInv /\ Command => IndInv'
<1> SUFFICES ASSUME IndInv, Command PROVE IndInv'
  OBVIOUS
<1> USE ModeAssumption
<1>0. /\ EnvOK /\ Good(graph, baselines) /\ Good(saved, baselines) /\ TurnInv
      /\ WellFormed(graph) /\ graph \in GraphState
  BY DEF IndInv, Good, WellFormed
<1>1. ASSUME NEW b \in Budgets, GraphSet(b) PROVE IndInv'
  <2> DEFINE id == taken["graph"] + 1
             g  == CreateGraph(id, b)
  <2>1. id \in Nat /\ b \in Int
    BY <1>0 DEF EnvOK, Event, NoLimit
  <2>2. /\ WellFormed(g) /\ Nodes(g) = {} /\ g.version = 1 /\ g.current = NoNode
        /\ g.status = "Active"
    BY <2>1, CreateGraphWellFormed
  <2>3. Persist(g)
    BY <1>1 DEF GraphSet
  <2>3a. g.pending = "none"
    BY DEF CreateGraph, NoGraph
  <2> HIDE DEF g, id
  <2>4. Good(g, baselines)
    BY <2>2, <2>3a DEF Good, CurrentRuns, Baselined
  <2>5. Good(graph', baselines) /\ Good(saved', baselines)
    BY <2>3, <2>4, <1>0, PersistGood
  <2>6. taken' \in [Event -> Nat]
    BY <1>0, <1>1, TakeType DEF GraphSet, EnvOK, Event
  <2>7. EnvOK'
    BY <2>6, <1>0, <1>1 DEF GraphSet, EnvOK
  <2>8. TurnInv'
    BY <2>2, <2>3, <1>0, <1>1 DEF GraphSet, TurnInv, Persist, BatchPc, Idle, PlannerPc, DriverPc
  <2> QED
    BY <2>5, <2>7, <2>8, <1>1, StepRebuilds DEF GraphSet
<1>2. CASE GraphResume
  <2> DEFINE keep == IF goal.status = "None" THEN NoNode ELSE graph.current
             g == DemoteOrphanedInFlight(Resume(graph), keep)
  <2>1. keep \in Ids \cup {NoNode}
    BY <1>0 DEF GraphState
  <2>2. /\ WellFormed(g) /\ Nodes(g) = Nodes(graph)
        /\ g.id = graph.id /\ g.version = graph.version /\ g.current = keep
        /\ g.status = "Active"
        /\ \A n \in Ids : graph.st[n] = "Running" /\ n = keep => g.st[n] = "Running"
    BY <2>1, <1>0, ResumeDemoteWellFormed
  <2>3. Persist(g) /\ graph.status = "Paused"
    BY <1>2 DEF GraphResume
  <2>4. CurrentRuns(g)
    BY <2>1, <2>2, <1>0 DEF Good, CurrentRuns
  <2>5. /\ pc' \in {"plan", "round", "goal_planner", "drive"}
        /\ pc' = "plan" <=> Nodes(g) = {}
        /\ pc \in Idle
        /\ goal' \in {goal, [goal EXCEPT !.status = "Active"]}
        /\ origin' \in {origin, "resume"}
        /\ UNCHANGED <<batch, baselines, burnt, taken>>
    BY <1>2 DEF GraphResume
  <2>5a. g.pending = graph.pending
    BY <2>1, <1>0, PendingKept
  <2> HIDE DEF g, keep
  <2>6. Good(g, baselines)
    BY <2>2, <2>3, <2>4, <2>5a, <1>0, GoodStep DEF StatusKept
  <2>7. Good(graph', baselines) /\ Good(saved', baselines)
    BY <2>3, <2>6, <1>0, PersistGood
  <2>8. goal' \in GoalState
    BY <2>5, <1>0 DEF EnvOK, GoalState, GraphStatus
  <2>9. EnvOK'
    BY <2>5, <2>8, <1>0 DEF EnvOK
  <2>10. TurnInv'
    BY <2>2, <2>3, <2>5, <1>0 DEF TurnInv, Persist, Idle, BatchPc, PlannerPc, DriverPc,
           Good, Baselined
  <2> QED
    BY <2>5, <2>7, <2>9, <2>10, StepRebuilds
<1>3. ASSUME NEW extra \in TopUps, GraphTopUp(extra) PROVE IndInv'
  <2> DEFINE b == graph.spent + extra
             a == [graph EXCEPT !.budget = b, !.status = "Active"]
             g == RecomputeReady(a)
  <2>1. Persist(g) /\ graph.status = "BudgetLimited"
    BY <1>3 DEF GraphTopUp, ResumeBudgetLimited
  <2>2. b \in Int
    BY <1>0 DEF GraphState
  <2>2a. g.pending = graph.pending
    <3>1. extra \in Int /\ g = ResumeBudgetLimited(graph, extra)
      BY DEF ResumeBudgetLimited
    <3> HIDE DEF g
    <3> QED
      BY <3>1, <1>0, PendingKept
  <2> HIDE DEF b
  <2>3. /\ a \in GraphState /\ a.deps = graph.deps /\ a.st = graph.st
        /\ a.id = graph.id /\ a.version = graph.version /\ a.current = graph.current
        /\ a.status = "Active"
    BY <2>2, <1>0 DEF GraphState, GraphStatus
  <2> HIDE DEF a
  <2>4. /\ WellFormed(g) /\ Nodes(g) = Nodes(graph)
        /\ g.id = a.id /\ g.version = a.version /\ g.current = a.current
        /\ g.status = a.status
        /\ \A n \in Ids : graph.st[n] # "Waiting" => g.st[n] = graph.st[n]
    BY <2>3, <1>0, ResumeWellFormed
  <2> HIDE DEF g
  <2>5. CurrentRuns(g)
    BY <2>3, <2>4, <1>0 DEF Good, CurrentRuns, GraphState
  <2>6. Good(g, baselines)
    BY <2>1, <2>2a, <2>3, <2>4, <2>5, <1>0, GoodStep DEF StatusKept
  <2>7. Good(graph', baselines) /\ Good(saved', baselines)
    BY <2>1, <2>6, <1>0, PersistGood
  <2>8. taken' \in [Event -> Nat]
    BY <1>0, <1>3, TakeType DEF GraphTopUp, EnvOK, Event
  <2>9. EnvOK'
    BY <2>8, <1>0, <1>3 DEF GraphTopUp, EnvOK
  <2>10. batch = {} /\ batch' = batch /\ pc' = "drive"
    BY <1>0, <1>3 DEF GraphTopUp, TurnInv, Idle, BatchPc
  <2>11. TurnInv'
    BY <2>10 DEF TurnInv, BatchPc, PlannerPc, DriverPc
  <2> QED
    BY <2>7, <2>9, <2>11, <1>3, StepRebuilds DEF GraphTopUp
<1>4. CASE GraphPause
  <2>1. Good(graph', baselines) /\ Good(saved', baselines)
    BY <1>0, <1>4, PauseGood, PersistGood DEF GraphPause
  <2>2. EnvOK'
    BY <1>0, <1>4, PauseGoalType DEF GraphPause, EndTurn, EnvOK
  <2>3. TurnInv'
    BY <1>0, <1>4, IdleTurn, PauseGood DEF GraphPause, EndTurn, TurnInv, BatchPc, Persist, Idle
  <2> QED
    BY <2>1, <2>2, <2>3, <1>4, StepRebuilds DEF GraphPause
<1>5. CASE GraphClear
  <2>0. NoGoal \in GoalState
    BY NoGoalType
  <2>1. Good(graph', baselines) /\ Good(saved', baselines)
    BY <1>0, <1>5, NoGraphGood, PersistGood DEF GraphClear
  <2>2. EnvOK'
    BY <1>0, <1>5, <2>0 DEF GraphClear, EndTurn, EnvOK
  <2>3. TurnInv'
    BY <1>0, <1>5, IdleTurn, NoGraphWellFormed DEF GraphClear, EndTurn, TurnInv, BatchPc, Persist, Idle
  <2> QED
    BY <2>1, <2>2, <2>3, <1>5, StepRebuilds DEF GraphClear
<1>6. ASSUME NEW b \in Budgets, GoalSet(b) PROVE IndInv'
  <2>1. b \in Int
    BY DEF NoLimit
  <2>2. goal' \in GoalState
    BY <1>6, <2>1, NoGoalType DEF GoalSet, GoalState, GraphStatus
  <2>3. taken' \in [Event -> Nat]
    BY <1>0, <1>6, TakeType DEF GoalSet, EnvOK, Event
  <2>4. EnvOK'
    BY <2>2, <2>3, <1>0, <1>6 DEF GoalSet, EnvOK
  <2>5. TurnInv'
    BY <1>0, <1>6 DEF GoalSet, TurnInv, BatchPc, Idle, PlannerPc, DriverPc
  <2> QED
    BY <2>4, <2>5, <1>0, <1>6, StepRebuilds DEF GoalSet
<1>7. CASE GoalResume
  <2>1. goal' \in GoalState
    BY <1>0, <1>7 DEF GoalResume, EnvOK, GoalState, GraphStatus
  <2>2. EnvOK'
    BY <2>1, <1>0, <1>7 DEF GoalResume, EnvOK
  <2>3. TurnInv'
    BY <1>0, <1>7 DEF GoalResume, TurnInv, BatchPc, Idle, PlannerPc, DriverPc
  <2> QED
    BY <2>2, <2>3, <1>0, <1>7, StepRebuilds DEF GoalResume
<1>8. CASE GoalPause \/ GoalClear \/ UserPrompt
  <2>0. NoGoal \in GoalState
    BY NoGoalType
  <2>1. EnvOK'
    BY <2>0, <1>0, <1>8, PauseGoalType DEF GoalPause, GoalClear, UserPrompt, EndTurn, EnvOK
  <2>2. TurnInv'
    BY <1>0, <1>8 DEF GoalPause, GoalClear, UserPrompt, EndTurn, TurnInv, BatchPc, Idle, PlannerPc, DriverPc
  <2>3. UNCHANGED <<graph, saved, baselines>>
    BY <1>8 DEF GoalPause, GoalClear, UserPrompt
  <2> QED
    BY <2>1, <2>2, <2>3, <1>0, StepRebuilds
<1> QED
  BY <1>1, <1>2, <1>3, <1>4, <1>5, <1>6, <1>7, <1>8 DEF Command

\* Planning and the optimizer.
LEMMA PlanningInductive == IndInv /\ DraftInv /\ Planning => IndInv'
<1> SUFFICES ASSUME IndInv, DraftInv, Planning PROVE IndInv'
  OBVIOUS
<1>0. /\ EnvOK /\ Good(graph, baselines) /\ Good(saved, baselines) /\ TurnInv
      /\ WellFormed(graph) /\ graph \in GraphState
  BY DEF IndInv, Good, WellFormed
<1>1. CASE PlanningFails \/ BaselineFails
  <2>1. /\ Persist(Pause(graph)) /\ pc' = "idle" /\ batch' = batch
        /\ pc \in {"plan", "baseline"}
        /\ baselines' \in {baselines, baselines \cup {Version}}
        /\ UNCHANGED <<goal, origin, burnt, taken>>
    BY <1>1 DEF PlanningFails, BaselineFails, EndTurn
  <2>2. Good(graph', baselines) /\ Good(saved', baselines)
    BY <2>1, <1>0, PauseGood, PersistGood
  <2>3. Version \in Nat \X Nat
    BY <1>0 DEF Version, GraphState
  <2>4. EnvOK' /\ baselines \subseteq baselines'
    BY <2>1, <2>3, <1>0 DEF EnvOK
  <2>5. TurnInv'
    BY <2>1, <1>0, IdleTurn DEF TurnInv, BatchPc, Idle
  <2> QED
    BY <2>2, <2>4, <2>5, StepRebuilds
<1>2. CASE PlanningSucceeds \/ OptimizerKeepsPlan
  <2>1. EnvOK'
    BY <1>0, <1>2 DEF PlanningSucceeds, OptimizerKeepsPlan, EnvOK
  <2>2. TurnInv'
    BY <1>0, <1>2 DEF PlanningSucceeds, OptimizerKeepsPlan, TurnInv, BatchPc, PlannerPc, DriverPc
  <2>3. UNCHANGED <<graph, saved, baselines>>
    BY <1>2 DEF PlanningSucceeds, OptimizerKeepsPlan
  <2> QED
    BY <2>1, <2>2, <2>3, <1>0, StepRebuilds
<1>3. CASE BaselineWritten
  <2>1. graph.id \in Nat /\ graph.version \in Nat
    BY <1>0 DEF GraphState
  <2>2. baselines' = baselines \cup {Version} /\ pc = "baseline" /\ pc' = "install"
        /\ UNCHANGED <<graph, saved, goal, origin, batch, burnt, taken>>
    BY <1>3 DEF BaselineWritten
  <2>3. EnvOK'
    BY <2>1, <2>2, <1>0 DEF EnvOK, Version
  <2>4. TurnInv'
    BY <2>2, <1>0 DEF TurnInv, BatchPc, PlannerPc, DriverPc, Version
  <2> QED
    BY <2>2, <2>3, <2>4, <1>0, StepRebuilds
<1>4. ASSUME NEW P \in SUBSET PlannerIds, NEW d \in [P -> SUBSET P], InstallPlan(P, d)
      PROVE  IndInv'
  <2> DEFINE g == InstallNodes(graph, P, d)
  <2>1. /\ ValidPlan(P, d) /\ Persist(g) /\ pc = "install"
        /\ pc' \in {"optimize", "drive"}
        /\ UNCHANGED <<goal, origin, batch, baselines, burnt, taken>>
    BY <1>4 DEF InstallPlan
  <2>2. /\ WellFormed(g) /\ g.id = graph.id /\ g.version = graph.version
        /\ g.current = graph.current /\ Nodes(g) = P \cup {Final}
    BY <2>1, <1>0, InstallNodesWellFormed
  <2> HIDE DEF g
  <2>3. Nodes(graph) = {} /\ <<graph.id, 1>> \in baselines
    BY <2>1, <1>0 DEF TurnInv, PlannerPc, DriverPc
  <2>4. graph.current = NoNode
    BY <2>3, <1>0 DEF Good, CurrentRuns, Nodes, GraphState
  <2>5. Good(g, baselines)
    BY <2>2, <2>3, <2>4 DEF Good, CurrentRuns, Baselined
  <2>6. Good(graph', baselines) /\ Good(saved', baselines)
    BY <2>1, <2>5, <1>0, PersistGood
  <2>7. EnvOK'
    BY <2>1, <1>0 DEF EnvOK
  <2>8. TurnInv'
    BY <2>1, <2>2, <1>0 DEF TurnInv, BatchPc, PlannerPc, DriverPc, Persist
  <2> QED
    BY <2>1, <2>6, <2>7, <2>8, StepRebuilds
<1>5. CASE OptimizerInstalls
  <2> DEFINE g == InstallOptimizedNodes(graph, draft)
  <2>1. /\ graph' = g /\ pc = "rewrite" /\ pc' = "freeze_optimized"
        /\ ValidOptimization(graph, draft)
        /\ UNCHANGED <<goal, origin, batch, baselines, saved, burnt, taken>>
    BY <1>5 DEF OptimizerInstalls
  <2>2. DraftOf(graph, draft)
    BY <2>1 DEF DraftInv
  <2>3. /\ WellFormed(g) /\ g.id = graph.id /\ g.current = graph.current
        /\ Nodes(graph) # {} => Nodes(g) # {}
        /\ \A n \in Ids : graph.st[n] \in Terminal \cup {"Running"} =>
             g.st[n] = graph.st[n]
    BY <1>0, <2>1, <2>2, InstallOptimizedNodesWellFormed
  <2> HIDE DEF g
  <2>4. Nodes(graph) # {} /\ Nodes(g) # {}
    BY <2>1, <2>3, <1>0 DEF TurnInv, DriverPc
  <2>5. CurrentRuns(g)
    BY <2>3, <1>0 DEF Good, CurrentRuns, GraphState
  <2>6. Good(graph', baselines)
    BY <2>1, <2>3, <2>4, <2>5, <1>0 DEF Good, Baselined
  <2>7. EnvOK'
    BY <2>1, <1>0 DEF EnvOK
  <2>8. TurnInv'
    BY <2>1, <2>4, <1>0 DEF TurnInv, BatchPc, PlannerPc, DriverPc
  <2> QED
    BY <2>1, <2>6, <2>7, <2>8, <1>0, StepRebuilds
<1>6. CASE FreezeVersion
  <2>1. graph.id \in Nat /\ graph.version \in Nat
    BY <1>0 DEF GraphState
  <2>2. /\ pc \in {"freeze_optimized", "freeze_replan"} /\ Persist(graph)
        /\ baselines' \in {baselines, baselines \cup {Version}}
        /\ pc' = IF pc = "freeze_replan" THEN "optimize" ELSE "drive"
        /\ UNCHANGED <<goal, origin, batch, burnt, taken>>
    BY <1>6 DEF FreezeVersion
  <2>3. Good(graph', baselines) /\ Good(saved', baselines)
    BY <2>2, <1>0, PersistGood
  <2>4. EnvOK'
    BY <2>1, <2>2, <1>0 DEF EnvOK, Version
  <2>5. TurnInv'
    BY <2>2, <1>0 DEF TurnInv, BatchPc, PlannerPc, DriverPc, Persist
  <2>6. baselines \subseteq baselines'
    BY <2>2
  <2> QED
    BY <2>3, <2>4, <2>5, <2>6, StepRebuilds
<1>7. CASE OptimizerProposes \/ \E x : Rewrite(x)
  <2>1. /\ pc \in {"optimize", "rewrite"} /\ pc' = "rewrite"
        /\ UNCHANGED <<graph, goal, origin, batch, baselines, saved, burnt, taken>>
    BY <1>7 DEF OptimizerProposes, Rewrite
  <2>2. EnvOK'
    BY <2>1, <1>0 DEF EnvOK
  <2>3. TurnInv'
    BY <2>1, <1>0 DEF TurnInv, BatchPc, PlannerPc, DriverPc
  <2> QED
    BY <2>1, <2>2, <2>3, <1>0, StepRebuilds
<1> QED
  BY <1>1, <1>2, <1>3, <1>4, <1>5, <1>6, <1>7
     DEF Planning, OptimizerRemovesDep, OptimizerReorders, OptimizerMerges,
         OptimizerSplits

\* A draft is started, edited op by op, and dropped.
LEMMA DraftInductive == IndInv /\ DraftInv /\ [Next]_vars => DraftInv'
<1> SUFFICES ASSUME IndInv, DraftInv, [Next]_vars PROVE DraftInv'
  OBVIOUS
<1>0. NoDraft \in Drafts /\ draft \in Drafts
  BY NoGraphWellFormed DEF NoDraft, Draft, Drafts, WellFormed, GraphState, DraftInv
<1>1. CASE OptimizerProposes
  <2>1. WellFormed(graph) /\ draft' = Draft(graph) /\ graph' = graph
    BY <1>1 DEF OptimizerProposes, IndInv, Good
  <2> QED
    BY <2>1, DraftStarts DEF DraftInv, DraftOf
<1>2. ASSUME NEW x, Rewrite(x), DraftOf(graph, draft) => DraftOf(graph, x)
      PROVE  DraftInv'
  BY <1>2 DEF Rewrite, DraftInv, DraftOf
<1>3. ASSUME NEW n \in Ids, NEW m \in Ids,
             \/ OptimizerRemovesDep(n, m)
             \/ OptimizerReorders(n, m) \/ OptimizerMerges(n, m)
      PROVE  DraftInv'
  <2>1. CASE OptimizerRemovesDep(n, m)
    BY <2>1, <1>2, RemoveDepDraft DEF OptimizerRemovesDep
  <2>2. CASE OptimizerReorders(n, m)
    BY <2>2, <1>2, SwapDraft DEF OptimizerReorders
  <2>3. CASE OptimizerMerges(n, m)
    BY <2>3, <1>2, MergeDraft DEF OptimizerMerges, Replaceable
  <2> QED
    BY <1>3, <2>1, <2>2, <2>3
<1>4. ASSUME NEW n \in Ids, NEW A \in Replacements(draft),
             NEW d \in [A -> SUBSET SplitDeps(draft, n, A)], OptimizerSplits(n, A, d)
      PROVE  DraftInv'
  BY <1>4, <1>2, SplitDraft DEF OptimizerSplits, Replaceable
<1>5. ASSUME draft' \in {draft, NoDraft}, pc' # "rewrite" PROVE DraftInv'
  BY <1>0, <1>5 DEF DraftInv
<1>6. CASE Command
  <2>1. draft' = draft /\ pc' # "rewrite"
    BY <1>6 DEF Command, GraphSet, GraphResume, GraphTopUp, GraphPause, GraphClear,
         GoalSet, GoalResume, GoalPause, GoalClear, UserPrompt, EndTurn
  <2> QED
    BY <2>1, <1>5
<1>7. CASE Planning
  <2>1. CASE PlanningFails \/ PlanningSucceeds \/ BaselineWritten \/ BaselineFails
             \/ OptimizerKeepsPlan \/ OptimizerInstalls \/ FreezeVersion
    <3>1. draft' \in {draft, NoDraft} /\ pc' # "rewrite"
      BY <2>1 DEF PlanningFails, PlanningSucceeds, BaselineWritten, BaselineFails,
           OptimizerKeepsPlan, OptimizerInstalls, FreezeVersion, EndTurn
    <3> QED
      BY <3>1, <1>5
  <2>2. ASSUME NEW P, NEW d, InstallPlan(P, d) PROVE DraftInv'
    <3>1. draft' = draft /\ pc' # "rewrite"
      BY <2>2 DEF InstallPlan
    <3> QED
      BY <3>1, <1>5
  <2> QED
    BY <1>1, <1>3, <1>4, <1>7, <2>1, <2>2 DEF Planning
<1>8. CASE Driving
  <2>1. draft' = draft /\ pc' # "rewrite"
    BY <1>8 DEF Driving, DrainAtBoundary, ReplanFires, ReplanAddsNothing,
         ReplanAppends, DispatchBudgetLimited, DispatchComplete, DispatchWedged,
         DispatchStuck, LaunchNode, StartBatch, EndTurn, Dispatching, NothingReady
  <2> QED
    BY <2>1, <1>5
<1>9. CASE NodeRun
  <2>1. draft' = draft /\ pc' # "rewrite"
    BY <1>9 DEF NodeRun, SetupGoal, GoalPlanned, GoalPlanningFails, RoundContinues,
         RoundTripsBudget, GoalCompletes, GoalPausesItself, TurnGivesUp,
         TurnGivesUpLate, CutTurn, TurnFails, RoundEndsTurn, HarvestNode, NodeAchieved, RoundEndInconsistent, RoundOver,
         EndTurn
  <2> QED
    BY <2>1, <1>5
<1>10. CASE BatchRun
  <2>1. draft' = draft /\ pc' # "rewrite"
    BY <1>10 DEF BatchRun, BatchReports, TakeReport, SettleFailed, SettleMerged,
         SettleMergeFailed, BatchSettled
  <2> QED
    BY <2>1, <1>5
<1>11. CASE Cancel \/ SendNow \/ Crash
  <2>1. draft' = NoDraft /\ pc' # "rewrite"
    BY <1>11 DEF Cancel, SendNow, Crash, EndTurn, CutTurn
  <2> QED
    BY <2>1, <1>5
<1>12. CASE UNCHANGED vars
  BY <1>12 DEF vars, DraftInv
<1> QED
  BY <1>6, <1>7, <1>8, <1>9, <1>10, <1>11, <1>12 DEF Next, TurnStep

\* The dispatch loop and its replan boundary.
LEMMA DrivingInductive == IndInv /\ Driving => IndInv'
<1> SUFFICES ASSUME IndInv, Driving PROVE IndInv'
  OBVIOUS
<1>0. /\ EnvOK /\ Good(graph, baselines) /\ Good(saved, baselines) /\ TurnInv
      /\ WellFormed(graph) /\ graph \in GraphState
  BY DEF IndInv, Good, WellFormed
<1>1. CASE DrainAtBoundary \/ ReplanAddsNothing
  <2>1. /\ \/ Persist(DrainDiscoveries(graph))
           \/ Persist([DrainDiscoveries(graph) EXCEPT !.runs = @ + 1])
        /\ pc \in {"drive", "replan"} /\ pc' = "drive"
        /\ UNCHANGED <<goal, origin, batch, baselines, burnt, taken>>
    BY <1>1 DEF DrainAtBoundary, ReplanAddsNothing
  <2>2. Good(graph', baselines) /\ Good(saved', baselines)
    BY <2>1, <1>0, DiscoveriesGood, PersistGood
  <2>3. EnvOK'
    BY <2>1, <1>0 DEF EnvOK
  <2>4a. DrainDiscoveries(graph).st = graph.st
    BY <1>0, SameNodesWellFormed
  <2>4b. [DrainDiscoveries(graph) EXCEPT !.runs = @ + 1].st = graph.st
    BY <1>0, DrainAndCountWellFormed
  <2>4. graph'.st = graph.st
    BY <2>1, <2>4a, <2>4b DEF Persist
  <2>5. TurnInv'
    BY <2>1, <2>4, <1>0 DEF TurnInv, BatchPc, PlannerPc, DriverPc, Nodes
  <2> QED
    BY <2>1, <2>2, <2>3, <2>5, StepRebuilds
<1>2. CASE ReplanFires
  <2>1. EnvOK'
    BY <1>0, <1>2 DEF ReplanFires, EnvOK
  <2>2. Nodes(graph) # {}
    BY <1>0, <1>2 DEF ReplanFires, ReplanDue, Good, Baselined
  <2>3. TurnInv'
    BY <2>2, <1>0, <1>2 DEF ReplanFires, TurnInv, BatchPc, PlannerPc, DriverPc
  <2> QED
    BY <2>1, <2>3, <1>0, <1>2, StepRebuilds DEF ReplanFires
<1>3. ASSUME NEW A \in SUBSET ReplanIds, NEW d \in [A -> SUBSET Ids],
             ReplanAppends(A, d)
      PROVE  IndInv'
  <2> DEFINE g == AppendReplanNodes(graph, A, d)
  <2>1. /\ ValidAppendix(graph, A, d) /\ graph' = g /\ pc = "replan"
        /\ pc' = "freeze_replan"
        /\ UNCHANGED <<goal, origin, batch, baselines, saved, burnt, taken>>
    BY <1>3 DEF ReplanAppends
  <2>2. /\ WellFormed(g) /\ g.id = graph.id /\ Nodes(g) = Nodes(graph) \cup A
        /\ g.current = graph.current
        /\ \A n \in Ids : graph.st[n] \in Terminal \cup {"Running"} =>
             g.st[n] = graph.st[n]
    BY <2>1, <1>0, AppendReplanNodesWellFormed
  <2> HIDE DEF g
  <2>3. A # {}
    BY <2>1 DEF ValidAppendix
  <2>4. CurrentRuns(g)
    BY <2>2, <1>0 DEF Good, CurrentRuns, GraphState
  <2>5. Nodes(graph) # {}
    BY <2>1, <1>0 DEF TurnInv, DriverPc
  <2>6. Good(graph', baselines)
    BY <2>1, <2>2, <2>4, <2>5, <1>0 DEF Good, Baselined
  <2>7. EnvOK'
    BY <2>1, <1>0 DEF EnvOK
  <2>8. TurnInv'
    BY <2>1, <2>2, <2>3, <1>0 DEF TurnInv, BatchPc, PlannerPc, DriverPc
  <2> QED
    BY <2>1, <2>6, <2>7, <2>8, <1>0, StepRebuilds
<1>4. CASE DispatchBudgetLimited
  <2>1. /\ Persist(BudgetLimit(graph)) /\ pc = "drive" /\ pc' = "idle"
        /\ UNCHANGED <<goal, origin, batch, baselines, burnt, taken>>
    BY <1>4 DEF DispatchBudgetLimited, Dispatching, EndTurn
  <2>2. batch = {}
    BY <2>1, <1>0 DEF TurnInv, DriverPc, BatchPc
  <2>3. Good(graph', baselines) /\ Good(saved', baselines)
    BY <2>1, <1>0, BudgetLimitGood, PersistGood
  <2>5. EnvOK'
    BY <2>1, <1>0 DEF EnvOK
  <2>6. TurnInv'
    BY <2>1, <2>2, IdleTurn DEF Idle
  <2> QED
    BY <2>1, <2>3, <2>5, <2>6, StepRebuilds
<1>5. CASE DispatchComplete
  <2>1. /\ Persist(Complete(graph)) /\ pc = "drive" /\ pc' = "idle"
        /\ goal' = NoGoal
        /\ UNCHANGED <<origin, batch, baselines, burnt, taken>>
    BY <1>5 DEF DispatchComplete, NothingReady, Dispatching, EndTurn
  <2>2. Nodes(graph) # {} /\ batch = {}
    BY <2>1, <1>0, <1>5 DEF DispatchComplete, AllAchieved, TurnInv, BatchPc
  <2>3. /\ WellFormed(Complete(graph)) /\ Complete(graph).st = graph.st
        /\ Complete(graph).id = graph.id /\ Complete(graph).version = graph.version
        /\ Complete(graph).current = graph.current
    BY <1>0, SameNodesWellFormed
  <2>4. Good(Complete(graph), baselines)
    BY <2>2, <2>3, <1>0, GoodSame DEF StatusKept
  <2>5. Good(graph', baselines) /\ Good(saved', baselines)
    BY <2>1, <2>4, <1>0, PersistGood
  <2>7. EnvOK'
    BY <2>1, <1>0, NoGoalType DEF EnvOK
  <2>8. TurnInv'
    BY <2>1, <2>2, IdleTurn DEF Idle
  <2> QED
    BY <2>1, <2>5, <2>7, <2>8, StepRebuilds
<1>6. CASE DispatchWedged \/ DispatchStuck
  <2>1. /\ Persist(Pause(graph)) /\ pc = "drive" /\ pc' = "idle"
        /\ UNCHANGED <<goal, origin, batch, baselines, burnt, taken>>
    BY <1>6 DEF DispatchWedged, DispatchStuck, NothingReady, Dispatching, EndTurn
  <2>2. Good(graph', baselines) /\ Good(saved', baselines)
    BY <2>1, <1>0, PauseGood, PersistGood
  <2>3. EnvOK'
    BY <2>1, <1>0 DEF EnvOK
  <2>4. TurnInv'
    BY <2>1, <1>0, IdleTurn DEF TurnInv, BatchPc, Idle
  <2> QED
    BY <2>1, <2>2, <2>3, <2>4, StepRebuilds
<1>7. ASSUME NEW n \in Ids, LaunchNode(n) PROVE IndInv'
  <2> DEFINE g == MarkNodeRunning(graph, n)
  <2>1. /\ Persist(g) /\ pc = "drive" /\ pc' = "setup_goal" /\ goal' = NoGoal
        /\ graph.st[n] = "Ready"
        /\ UNCHANGED <<origin, batch, baselines, burnt, taken>>
    BY <1>7 DEF LaunchNode, Dispatching, IsNextReady, ReadyNodes
  <2>2. /\ WellFormed(g) /\ Nodes(g) = Nodes(graph)
        /\ g.id = graph.id /\ g.version = graph.version /\ g.status = graph.status
        /\ g.current = n
        /\ \A m \in Ids : g.st[m] = IF m = n THEN "Running" ELSE graph.st[m]
    BY <2>1, <1>0, MarkNodeRunningWellFormed
  <2> HIDE DEF g
  <2>3. CurrentRuns(g)
    BY <2>2 DEF CurrentRuns
  <2>4. Good(g, baselines)
    BY <2>1, <2>2, <2>3, <1>0, GoodStep DEF StatusKept, Nodes
  <2>5. Good(graph', baselines) /\ Good(saved', baselines)
    BY <2>1, <2>4, <1>0, PersistGood
  <2>6. EnvOK'
    BY <2>1, <1>0, NoGoalType DEF EnvOK
  <2>7. TurnInv'
    BY <2>1, <2>2, <1>0, SameTurn
       DEF TurnInv, BatchPc, PlannerPc, DriverPc, Persist
  <2> QED
    BY <2>1, <2>5, <2>6, <2>7, StepRebuilds
<1>8. CASE StartBatch
  <2> DEFINE b == FirstReady(graph, Concurrency)
             st1 == [n \in Ids |-> IF n \in b THEN "Running" ELSE graph.st[n]]
             g == [graph EXCEPT !.st = st1, !.current = NoNode]
  <2>1. /\ Persist(g) /\ pc = "drive" /\ pc' = "batch" /\ batch' = b
        /\ UNCHANGED <<goal, origin, baselines, burnt, taken>>
    BY <1>8 DEF StartBatch, Dispatching
  <2>2. b \in SUBSET Ids /\ \A n \in b : graph.st[n] = "Ready"
    BY DEF FirstReady, ReadyNodes
  <2> HIDE DEF b
  <2>3. st1 \in [Ids -> NodeStatus]
    BY <1>0 DEF GraphState, NodeStatus
  <2>4. /\ g \in GraphState /\ g.deps = graph.deps /\ g.id = graph.id
        /\ g.version = graph.version /\ g.status = graph.status
        /\ g.current = NoNode /\ g.st = st1
    BY <2>3, <1>0 DEF GraphState
  <2>5. \A n \in Ids : g.st[n] = IF n \in b THEN "Running" ELSE graph.st[n]
    BY <2>4
  <2> HIDE DEF g, st1
  <2>6. WellFormed(g) /\ Nodes(g) = Nodes(graph)
    BY <2>2, <2>4, <2>5, <1>0, StartWellFormed
  <2>7. CurrentRuns(g)
    BY <2>4 DEF CurrentRuns
  <2>7a. Nodes(graph) # {}
    BY <1>8 DEF StartBatch, ReadyNodes, Nodes
  <2>8. Good(g, baselines)
    BY <2>4, <2>6, <2>7, <2>7a, <1>0, GoodStep DEF StatusKept
  <2>9. Good(graph', baselines) /\ Good(saved', baselines)
    BY <2>1, <2>8, <1>0, PersistGood
  <2>10. EnvOK'
    BY <2>1, <2>2, <1>0 DEF EnvOK
  <2>11. TurnInv'
    BY <2>1, <2>2, <2>5, <2>6, <2>7a, <1>0
       DEF TurnInv, BatchPc, PlannerPc, DriverPc, Persist
  <2> QED
    BY <2>1, <2>9, <2>10, <2>11, StepRebuilds
<1> QED
  BY <1>1, <1>2, <1>3, <1>4, <1>5, <1>6, <1>7, <1>8 DEF Driving

-----------------------------------------------------------------------------
(* A serial node.                                                          *)

\* What a round does to the goal keeps its type.
LEMMA GoalTypes ==
  ASSUME NEW o \in GoalState
  PROVE  /\ [o EXCEPT !.used = @ + Cost] \in GoalState
         /\ [o EXCEPT !.used = @ + Cost, !.status = "BudgetLimited"] \in GoalState
         /\ [o EXCEPT !.used = @ + Cost, !.status = "Complete"] \in GoalState
         /\ [o EXCEPT !.planned = "yes"] \in GoalState
         /\ o.used \in Int /\ o.used + Cost \in Int
<1> DEFINE sum == o.used + Cost
<1>1. o.used \in Int /\ sum \in Int
  BY ModeAssumption DEF GoalState
<1> HIDE DEF sum
<1>2. /\ [o EXCEPT !.used = sum] \in GoalState
      /\ [o EXCEPT !.used = sum, !.status = "BudgetLimited"] \in GoalState
      /\ [o EXCEPT !.used = sum, !.status = "Complete"] \in GoalState
      /\ [o EXCEPT !.planned = "yes"] \in GoalState
  BY <1>1 DEF GoalState, GraphStatus
<1> QED
  BY <1>1, <1>2 DEF sum

\* The budget a node's goal is armed with is an integer.
LEMMA RemainingBudgetType ==
  ASSUME NEW g \in GraphState
  PROVE  RemainingBudget(g) \in Int
  BY DEF RemainingBudget, GraphState, NoLimit

\* Booking a node's spend on a graph and stopping it for its budget.
LEMMA TripGood ==
  ASSUME NEW B, Good(graph, B), NEW tokens \in Int
  PROVE  LET h == BudgetLimit(ChargeCurrent(graph, tokens))
         IN  Good(h, B) /\ Nodes(h) = Nodes(graph)
<1> DEFINE c == ChargeCurrent(graph, tokens)
<1>1. WellFormed(graph)
  BY DEF Good
<1>2. Good(c, B)
  BY ChargeGood
<1>3. c.st = graph.st
  BY <1>1, ChargeWellFormed DEF ChargeCurrent
<1> HIDE DEF c
<1>4. Nodes(c) = Nodes(graph)
  BY <1>3 DEF Nodes
<1>5. WellFormed(c)
  BY <1>2 DEF Good
<1>6. Good(BudgetLimit(c), B) /\ Nodes(BudgetLimit(c)) = Nodes(c)
  BY <1>2, <1>4, <1>5, BudgetLimitGood, BudgetLimitWellFormed
<1> QED
  BY <1>4, <1>6 DEF c

\* A serial node's steps, from `setup_goal` to the round-end seam.
LEMMA NodeRunInductive == IndInv /\ NodeRun => IndInv'
<1> SUFFICES ASSUME IndInv, NodeRun PROVE IndInv'
  OBVIOUS
<1> USE ModeAssumption
<1>0. /\ EnvOK /\ Good(graph, baselines) /\ Good(saved, baselines) /\ TurnInv
      /\ WellFormed(graph) /\ graph \in GraphState
      /\ goal \in GoalState /\ burnt \in Int
  BY DEF IndInv, Good, WellFormed, EnvOK
<1>1. CASE SetupGoal
  <2>1. RemainingBudget(graph) \in Int /\ graph.current \in Ids \cup {NoNode}
    BY <1>0, RemainingBudgetType DEF GraphState
  <2>2. goal' \in GoalState
    BY <2>1, <1>1, NoGoalType DEF SetupGoal, GoalState, GraphStatus
  <2>3. EnvOK'
    BY <2>2, <1>0, <1>1 DEF SetupGoal, EnvOK
  <2>4. TurnInv'
    BY <1>0, <1>1 DEF SetupGoal, TurnInv, BatchPc, PlannerPc, DriverPc
  <2> QED
    BY <2>3, <2>4, <1>0, <1>1, StepRebuilds DEF SetupGoal
<1>2. CASE GoalPlanned
  <2>1. goal' \in GoalState
    BY <1>0, <1>2, GoalTypes DEF GoalPlanned
  <2>2. Good(graph', baselines) /\ Good(saved', baselines)
    BY <1>0, <1>2, PersistGood DEF GoalPlanned
  <2>3. EnvOK'
    BY <2>1, <1>0, <1>2 DEF GoalPlanned, EnvOK
  <2>4. TurnInv'
    BY <1>0, <1>2 DEF GoalPlanned, Persist, TurnInv, BatchPc, PlannerPc, DriverPc
  <2> QED
    BY <2>2, <2>3, <2>4, <1>2, StepRebuilds DEF GoalPlanned
<1>3. CASE GoalPlanningFails \/ GoalPausesItself \/ TurnFails
  <2>1. /\ AutoPause /\ pc \in {"goal_planner", "round"} /\ pc' = "idle"
        /\ UNCHANGED <<origin, batch, baselines, burnt>>
    BY <1>3 DEF GoalPlanningFails, GoalPausesItself, TurnFails, EndTurn
  <2>2. taken' \in [Event -> Nat]
    BY <1>0, <1>3, TakeType
       DEF GoalPlanningFails, GoalPausesItself, TurnFails, EnvOK, Event
  <2>3. /\ Good(graph', baselines) /\ Good(saved', baselines)
        /\ goal' \in GoalState /\ graph'.status # "Active"
    BY <2>1, <1>0, AutoPauseGood
  <2>4. EnvOK'
    BY <2>1, <2>2, <2>3, <1>0 DEF EnvOK
  <2>5. TurnInv'
    BY <2>1, <1>0, IdleTurn DEF TurnInv, BatchPc, Idle
  <2> QED
    BY <2>1, <2>3, <2>4, <2>5, StepRebuilds
<1>4. CASE RoundContinues \/ GoalCompletes \/ TurnGivesUp
  <2>1. /\ pc = "round" /\ pc' \in {"round", "idle"}
        /\ goal' \in {[goal EXCEPT !.used = @ + Cost],
                      [goal EXCEPT !.used = @ + Cost, !.status = "Complete"]}
        /\ burnt' \in {burnt, burnt + Cost}
        /\ UNCHANGED <<graph, origin, batch, baselines, saved, taken>>
    BY <1>4 DEF RoundContinues, GoalCompletes, TurnGivesUp, Burn, EndTurn
  <2>2. goal' \in GoalState
    BY <2>1, <1>0, GoalTypes
  <2>3. EnvOK'
    BY <2>1, <2>2, <1>0 DEF EnvOK
  <2>4. TurnInv'
    BY <2>1, <1>0 DEF TurnInv, BatchPc, PlannerPc, DriverPc
  <2> QED
    BY <2>1, <2>3, <2>4, <1>0, StepRebuilds
<1>5. CASE RoundTripsBudget
  <2> DEFINE tokens == goal.used + Cost
  <2>1. /\ pc = "round" /\ pc' = "idle"
        /\ goal' = [goal EXCEPT !.used = @ + Cost, !.status = "BudgetLimited"]
        /\ burnt' \in {burnt, burnt + Cost}
        /\ UNCHANGED <<origin, batch, baselines, taken>>
    BY <1>5 DEF RoundTripsBudget, TripBudget, EndTurn
  <2>2. goal' \in GoalState /\ tokens \in Int
    BY <2>1, <1>0, GoalTypes
  <2>3. IF graph.status = "Active" THEN Persist(BudgetLimit(ChargeCurrent(graph, tokens)))
                                   ELSE UNCHANGED <<graph, saved>>
    BY <1>5 DEF RoundTripsBudget, TripBudget
  <2> HIDE DEF tokens
  <2>5. Good(graph', baselines) /\ Good(saved', baselines)
    <3>1. CASE graph.status = "Active"
      <4>1. Good(BudgetLimit(ChargeCurrent(graph, tokens)), baselines)
        BY <3>1, <2>2, <1>0, TripGood
      <4>2. Persist(BudgetLimit(ChargeCurrent(graph, tokens)))
        BY <3>1, <2>3
      <4> QED
        BY <4>1, <4>2, <1>0, PersistGood DEF Persist
    <3> QED
      BY <3>1, <2>3, <1>0
  <2>6. EnvOK'
    BY <2>1, <2>2, <1>0 DEF EnvOK
  <2>7. TurnInv'
    BY <2>1, <1>0, IdleTurn DEF TurnInv, BatchPc, Idle
  <2> QED
    BY <2>1, <2>5, <2>6, <2>7, StepRebuilds
<1>6. CASE RoundEndsTurn \/ TurnGivesUpLate
  <2>0. taken' \in [Event -> Nat]
    BY <1>0, <1>6, TakeType DEF RoundEndsTurn, TurnGivesUpLate, EnvOK, Event
  <2>1. /\ pc = "round" /\ pc' \in Idle
        /\ UNCHANGED <<graph, saved, goal, origin, batch, baselines, burnt>>
    BY <1>6 DEF RoundEndsTurn, TurnGivesUpLate, RoundOver, EndTurn, CutTurn, Idle
  <2>2. EnvOK'
    BY <2>0, <2>1, <1>0 DEF EnvOK, Idle
  <2>3. TurnInv'
    BY <2>1, <1>0, IdleTurn DEF TurnInv, BatchPc
  <2> QED
    BY <2>1, <2>2, <2>3, <1>0, StepRebuilds
<1>7. CASE HarvestNode
  <2>1. /\ graph' \in {graph, QueueDiscoveries(graph)} /\ pc = "round" /\ pc' = "archive"
        /\ graph.current # NoNode
        /\ UNCHANGED <<goal, origin, batch, baselines, saved, burnt, taken>>
    BY <1>7 DEF HarvestNode, RoundOver
  <2>2. /\ QueueDiscoveries(graph).st = graph.st
        /\ QueueDiscoveries(graph).current = graph.current
        /\ QueueDiscoveries(graph).status = graph.status
    BY <1>0, SameNodesWellFormed
  <2>2a. Nodes(graph) # {}
    BY <2>1, <1>0 DEF Good, CurrentRuns, GraphState, Nodes
  <2>3. Good(graph', baselines)
    BY <2>1, <2>2a, <1>0, DiscoveriesGood
  <2>4. graph'.st = graph.st /\ graph'.current = graph.current
        /\ graph'.status = graph.status
    BY <2>1, <2>2
  <2>5. EnvOK'
    BY <2>1, <1>0 DEF EnvOK
  <2>6. TurnInv'
    BY <2>1, <2>4, <1>0 DEF TurnInv, BatchPc, PlannerPc, DriverPc, Nodes
  <2> QED
    BY <2>1, <2>3, <2>5, <2>6, <1>0, StepRebuilds
<1>8. CASE NodeAchieved
  <2> DEFINE f == graph.current
             g == MarkNodeAchieved(graph, f, goal.used)
  <2>1. /\ Persist(g) /\ pc = "archive" /\ pc' = "drive"
        /\ UNCHANGED <<goal, origin, batch, baselines, burnt, taken>>
    BY <1>8 DEF NodeAchieved
  <2>2. f \in Nodes(graph) /\ graph.st[f] = "Running" /\ goal.used \in Int
    BY <2>1, <1>0, GoalTypes DEF TurnInv, Good, CurrentRuns, GraphState, Nodes
  <2> HIDE DEF f
  <2>3. Good(g, baselines)
    BY <2>2, <1>0, SettleAchievedGood
  <2>4. Nodes(g) = Nodes(graph)
    BY <2>2, <1>0, MarkNodeAchievedWellFormed
  <2> HIDE DEF g
  <2>5. Good(graph', baselines) /\ Good(saved', baselines)
    BY <2>1, <2>3, <1>0, PersistGood
  <2>6. EnvOK'
    BY <2>1, <1>0 DEF EnvOK
  <2>7. TurnInv'
    BY <2>1, <2>2, <2>4, <1>0 DEF TurnInv, BatchPc, PlannerPc, DriverPc, Persist
  <2> QED
    BY <2>1, <2>5, <2>6, <2>7, StepRebuilds
<1>9. CASE RoundEndInconsistent
  <2>1. /\ pc = "round" /\ pc' = "idle" /\ graph.status = "Active"
        /\ UNCHANGED <<goal, origin, batch, baselines, burnt, taken>>
        /\ Persist(IF goal.status = "BudgetLimited"
                   THEN BudgetLimit(ChargeCurrent(graph, goal.used))
                   ELSE Pause(graph))
    BY <1>9 DEF RoundEndInconsistent, RoundOver, EndTurn
  <2>2. goal.used \in Int
    BY <1>0, GoalTypes
  <2>3. Good(BudgetLimit(ChargeCurrent(graph, goal.used)), baselines)
    BY <2>2, <1>0, TripGood
  <2>4. Good(Pause(graph), baselines)
    BY <1>0, PauseGood
  <2>5. Good(graph', baselines) /\ Good(saved', baselines)
    BY <2>1, <2>3, <2>4, <1>0 DEF Persist
  <2>6. EnvOK'
    BY <2>1, <1>0 DEF EnvOK
  <2>7. TurnInv'
    BY <2>1, <1>0, IdleTurn DEF TurnInv, BatchPc, Idle
  <2> QED
    BY <2>1, <2>5, <2>6, <2>7, StepRebuilds
<1> QED
  BY <1>1, <1>2, <1>3, <1>4, <1>5, <1>6, <1>7, <1>8, <1>9 DEF NodeRun

-----------------------------------------------------------------------------
(* A parallel batch.                                                       *)

\* While a batch is out: its members, and a turn that goes on with it.
LEMMA BatchTurn ==
  ASSUME TurnInv, pc \in BatchPc, pc' \in BatchPc, batch' \subseteq batch,
         Nodes(graph') = Nodes(graph),
         \A n \in batch' : \/ graph'.st[n] = "Running"
                           \/ n = Final /\ graph'.st[n] # "Absent"
  PROVE  TurnInv'
  BY DEF TurnInv, BatchPc, PlannerPc, DriverPc

\* The settlement of one report, failed or achieved.
LEMMA SettleTurn ==
  ASSUME NEW g, NEW n \in batch, TurnInv, pc \in BatchPc, pc' \in BatchPc,
         batch \subseteq Ids, batch' = batch \ {n}, graph' = g,
         Nodes(g) = Nodes(graph),
         \A m \in Ids \ {n} :
           graph.st[m] = "Running" /\ m # Final => g.st[m] = "Running",
         \A m \in Ids : graph.st[m] # "Absent" => g.st[m] # "Absent"
  PROVE  TurnInv'
<1>1. \A m \in batch' : \/ graph'.st[m] = "Running"
                        \/ m = Final /\ graph'.st[m] # "Absent"
  BY DEF TurnInv
<1> QED
  BY <1>1, BatchTurn

\* The steps of a parallel batch, from its reports to the last settlement.
LEMMA BatchRunInductive == IndInv /\ BatchRun => IndInv'
<1> SUFFICES ASSUME IndInv, BatchRun PROVE IndInv'
  OBVIOUS
<1> USE ModeAssumption
<1>0. /\ EnvOK /\ Good(graph, baselines) /\ Good(saved, baselines) /\ TurnInv
      /\ WellFormed(graph) /\ graph \in GraphState /\ batch \subseteq Ids
      /\ burnt \in Int
  BY DEF IndInv, Good, WellFormed, EnvOK
<1>00. \A n \in batch : n \in Nodes(graph) /\ (graph.st[n] = "Running" \/ n = Final)
  BY <1>0 DEF TurnInv, Nodes
<1>1. CASE BatchReports
  <2>1. /\ pc = "batch" /\ pc' = "settle" /\ burnt' = burnt + Cost * Cardinality(batch)
        /\ UNCHANGED <<graph, goal, origin, batch, baselines, saved, taken>>
    BY <1>1 DEF BatchReports
  <2>2. Cardinality(batch) \in Nat
    BY <1>0, IdsAssumption, FS_Subset, FS_CardinalityType
  <2>3. EnvOK'
    BY <2>1, <2>2, <1>0 DEF EnvOK
  <2>4. TurnInv'
    BY <2>1, <1>0 DEF TurnInv, BatchPc, PlannerPc, DriverPc
  <2> QED
    BY <2>1, <2>3, <2>4, <1>0, StepRebuilds
<1>2. CASE TakeReport
  <2>1. /\ graph' \in {graph, QueueDiscoveries(graph)} /\ pc = "settle" /\ pc' = "merge"
        /\ UNCHANGED <<goal, origin, batch, baselines, saved, burnt, taken>>
    BY <1>2 DEF TakeReport, WithDiscoveries
  <2>2. QueueDiscoveries(graph).st = graph.st
    BY <1>0, SameNodesWellFormed
  <2>3. Good(graph', baselines)
    BY <2>1, <1>0, DiscoveriesGood DEF TurnInv, DriverPc
  <2>4. graph'.st = graph.st
    BY <2>1, <2>2
  <2>5. EnvOK'
    BY <2>1, <1>0 DEF EnvOK
  <2>6. TurnInv'
    BY <2>1, <2>4, <1>0 DEF TurnInv, BatchPc, PlannerPc, DriverPc, Nodes
  <2> QED
    BY <2>1, <2>3, <2>5, <2>6, <1>0, StepRebuilds
<1>3. ASSUME NEW n \in Ids, SettleFailed(n) PROVE IndInv'
  <2>1. PICK g \in WithDiscoveries : Persist(MarkNodeFailed(ChargeNodeTokens(g, Cost), n))
    BY <1>3 DEF SettleFailed
  <2>2. /\ n \in batch /\ pc = "settle" /\ pc' = pc /\ batch' = batch \ {n}
        /\ UNCHANGED <<goal, origin, baselines, burnt, taken>>
    BY <1>3 DEF SettleFailed, IsNextReport
  <2>3. Good(g, baselines) /\ g.st = graph.st
    BY <2>2, <1>0, DiscoveriesGood, SameNodesWellFormed
       DEF WithDiscoveries, TurnInv, DriverPc
  <2> DEFINE c == ChargeNodeTokens(g, Cost)
             h == MarkNodeFailed(c, n)
  <2>4. WellFormed(g) /\ Cost \in Int
    BY <2>3 DEF Good
  <2>5. Good(c, baselines) /\ c.st = graph.st
    BY <2>3, <2>4, ChargeGood, ChargeWellFormed
  <2> HIDE DEF c
  <2>6. n \in Nodes(c) /\ (c.st[n] = "Running" \/ n = Final)
    BY <2>2, <2>5, <1>00 DEF Nodes
  <2>7. /\ Good(h, baselines)
        /\ \A m \in Ids \ {n} : c.st[m] = "Running" /\ m # Final => h.st[m] = "Running"
        /\ \A m \in Ids : c.st[m] # "Absent" => h.st[m] # "Absent"
    BY <2>5, <2>6, SettleFailedGood
  <2>8. Nodes(h) = Nodes(c)
    BY <2>5, <2>6, FailedKeepsNodes DEF Good
  <2> HIDE DEF h
  <2>9. Persist(h)
    BY <2>1 DEF h, c
  <2>10. Good(graph', baselines) /\ Good(saved', baselines)
    BY <2>7, <2>9, <1>0, PersistGood
  <2>11. EnvOK'
    BY <2>2, <1>0 DEF EnvOK
  <2>12. Nodes(h) = Nodes(graph)
    BY <2>5, <2>8 DEF Nodes
  <2>13. TurnInv'
    BY <2>2, <2>5, <2>7, <2>9, <2>12, <1>0, SettleTurn DEF Persist, BatchPc
  <2> QED
    BY <2>2, <2>10, <2>11, <2>13, StepRebuilds
<1>4. ASSUME NEW n \in Ids, SettleMerged(n) PROVE IndInv'
  <2> DEFINE h == MarkNodeAchieved(graph, n, Cost)
  <2>1. /\ n \in batch /\ pc = "merge" /\ pc' = "settle" /\ batch' = batch \ {n}
        /\ Persist(h)
        /\ UNCHANGED <<goal, origin, baselines, burnt, taken>>
    BY <1>4 DEF SettleMerged, IsNextReport
  <2>2. /\ Good(h, baselines)
        /\ \A m \in Ids \ {n} : graph.st[m] = "Running" => h.st[m] = "Running"
        /\ \A m \in Ids : graph.st[m] # "Absent" => h.st[m] # "Absent"
    BY <2>1, <1>0, <1>00, SettleAchievedGood
  <2>3. Nodes(h) = Nodes(graph)
    BY <2>1, <1>0, <1>00, MarkNodeAchievedWellFormed
  <2> HIDE DEF h
  <2>4. Good(graph', baselines) /\ Good(saved', baselines)
    BY <2>1, <2>2, <1>0, PersistGood
  <2>5. EnvOK'
    BY <2>1, <1>0 DEF EnvOK
  <2>6. TurnInv'
    BY <2>1, <2>2, <2>3, <1>0, SettleTurn DEF Persist, BatchPc
  <2> QED
    BY <2>1, <2>4, <2>5, <2>6, StepRebuilds
<1>5. ASSUME NEW n \in Ids, SettleMergeFailed(n) PROVE IndInv'
  <2> DEFINE h == MarkNodeFailed(graph, n)
  <2>1. /\ n \in batch /\ pc = "merge" /\ pc' = "settle" /\ batch' = batch \ {n}
        /\ Persist(h)
        /\ UNCHANGED <<goal, origin, baselines, burnt, taken>>
    BY <1>5 DEF SettleMergeFailed, IsNextReport
  <2>2. /\ Good(h, baselines)
        /\ \A m \in Ids \ {n} : graph.st[m] = "Running" /\ m # Final => h.st[m] = "Running"
        /\ \A m \in Ids : graph.st[m] # "Absent" => h.st[m] # "Absent"
    BY <2>1, <1>0, <1>00, SettleFailedGood
  <2>3. Nodes(h) = Nodes(graph)
    BY <2>1, <1>0, <1>00, FailedKeepsNodes
  <2> HIDE DEF h
  <2>4. Good(graph', baselines) /\ Good(saved', baselines)
    BY <2>1, <2>2, <1>0, PersistGood
  <2>5. EnvOK'
    BY <2>1, <1>0 DEF EnvOK
  <2>6. TurnInv'
    BY <2>1, <2>2, <2>3, <1>0, SettleTurn DEF Persist, BatchPc
  <2> QED
    BY <2>1, <2>4, <2>5, <2>6, StepRebuilds
<1>6. CASE BatchSettled
  <2>1. EnvOK'
    BY <1>0, <1>6 DEF BatchSettled, EnvOK
  <2>2. TurnInv'
    BY <1>0, <1>6 DEF BatchSettled, TurnInv, BatchPc, PlannerPc, DriverPc
  <2> QED
    BY <2>1, <2>2, <1>0, <1>6, StepRebuilds DEF BatchSettled
<1> QED
  BY <1>1, <1>2, <1>3, <1>4, <1>5, <1>6 DEF BatchRun

-----------------------------------------------------------------------------
(* A cancel, a send-now and a crash, at any await.                         *)

\* A cancel, a send-now, and a crash followed by the restart from the
\* snapshot.
LEMMA StrikeInductive == IndInv /\ (Cancel \/ SendNow \/ Crash) => IndInv'
<1> SUFFICES ASSUME IndInv, Cancel \/ SendNow \/ Crash PROVE IndInv'
  OBVIOUS
<1>0. /\ EnvOK /\ Good(graph, baselines) /\ Good(saved, baselines) /\ TurnInv
      /\ goal \in GoalState
  BY DEF IndInv, EnvOK
<1>1. /\ pc' \in Idle /\ batch' = {} /\ UNCHANGED <<origin, baselines, burnt>>
  BY DEF Cancel, SendNow, Crash, EndTurn, CutTurn, Idle
<1>2. taken' \in [Event -> Nat]
  BY <1>0, TakeType DEF Cancel, SendNow, Crash, EnvOK, Event
<1>3. Good(graph', baselines) /\ Good(saved', baselines) /\ goal' \in GoalState
  <2>1. CASE Cancel
    BY <2>1, <1>0, AutoPauseGood DEF Cancel
  <2>2. CASE Crash
    <3> DEFINE g == FromSnapshot(saved)
    <3>0. WellFormed(saved)
      BY <1>0 DEF Good
    <3>1. /\ WellFormed(g) /\ Nodes(g) = Nodes(saved)
          /\ g.id = saved.id /\ g.version = saved.version
          /\ g.status # "Active" /\ g.status \in {saved.status, "Paused"}
          /\ saved.status = "None" => g.status = "None"
          /\ g = saved \/ g.current = NoNode
      BY <3>0, FromSnapshotWellFormed
    <3>2. graph' = g /\ saved' \in {saved, g} /\ goal' = NoGoal
      BY <2>2 DEF Crash
    <3>2a. g.pending = saved.pending
      BY <3>0, PendingKept DEF WellFormed
    <3> HIDE DEF g
    <3>3. CurrentRuns(g)
      BY <3>1, <1>0 DEF Good, CurrentRuns
    <3>4. StatusKept(saved, g)
      BY <3>1, <3>2a DEF StatusKept
    <3>5. Good(g, baselines)
      BY <3>1, <3>3, <3>4, <1>0, GoodStep
    <3> QED
      BY <3>1, <3>2, <3>5, <1>0, NoGoalType
  <2>3. CASE SendNow
    BY <2>3, <1>0 DEF SendNow
  <2> QED
    BY <2>1, <2>2, <2>3
<1>4. EnvOK'
  BY <1>0, <1>1, <1>2, <1>3 DEF EnvOK, Idle
<1>5. TurnInv'
  BY <1>1, IdleTurn
<1> QED
  BY <1>1, <1>3, <1>4, <1>5, StepRebuilds

-----------------------------------------------------------------------------
(* The theorems.                                                           *)

\* Every step preserves the invariant.
LEMMA NextInductive == IndInv /\ DraftInv /\ [Next]_vars => IndInv'
<1>1. IndInv /\ UNCHANGED vars => IndInv'
  BY DEF vars, IndInv, EnvOK, TurnInv
<1> QED
  BY <1>1, CommandInductive, PlanningInductive, DrivingInductive, NodeRunInductive,
     BatchRunInductive, StrikeInductive DEF Next, TurnStep

\* The inductive invariant holds in every reachable state of graph mode.
THEOREM GraphModeInductive == Spec => [](IndInv /\ DraftInv)
<1>1. Init => IndInv /\ DraftInv
  <2>1. NoDraft \in Drafts
    BY NoGraphWellFormed DEF NoDraft, Draft, Drafts, WellFormed, GraphState
  <2> QED
    BY <2>1, InitInductive DEF Init, DraftInv
<1>2. IndInv /\ DraftInv /\ [Next]_vars => (IndInv /\ DraftInv)'
  BY NextInductive, DraftInductive
<1> QED
  BY <1>1, <1>2, PTL DEF Spec

\* Type correctness of the session's graph, its snapshot, the goal engine and
\* the turn, and no dangling dependency in either copy of the graph.
THEOREM GraphModeTypeCorrect == Spec => []TypeOK
  BY TypeSplits, GraphModeInductive, PTL

\* Whatever the plan, the replans, the optimizer, the cancels and the crashes,
\* no node but the terminal one is scheduled before its dependencies.
THEOREM SchedulingFollowsDependencies == Spec => []DependencyOrder
<1>1. IndInv => DependencyOrder
  BY DEF IndInv, Good, WellFormed, DependencyOrder
<1> QED
  BY <1>1, GraphModeInductive, PTL

\* What a failure blocked stays blocked, across replans and restarts.
THEOREM FailurePropagates == Spec => []DeadBranchStaysDead
<1>1. IndInv => DeadBranchStaysDead
  BY DEF IndInv, Good, WellFormed, DeadBranchStaysDead
<1> QED
  BY <1>1, GraphModeInductive, PTL

\* No node ever runs in a graph whose first baseline is not frozen.
THEOREM BaselineFirst == Spec => []BaselineBeforeWork
<1>1. IndInv => BaselineBeforeWork
  BY DEF IndInv, Good, Baselined, Nodes, BaselineBeforeWork
<1> QED
  BY <1>1, GraphModeInductive, PTL
=============================================================================
