------------------------------ MODULE GraphMode ------------------------------
(***************************************************************************)
(* Graph mode of one session (session/acp_session_impl/graph.rs and its    *)
(* seams in graph_replan.rs, graph_optimize.rs, graph_workers.rs, goal.rs, *)
(* turn.rs, turn_end.rs and slash_exec.rs): the graph tracker, the goal    *)
(* engine that runs one node at a time, the turn that drives them, and the *)
(* user's commands.                                                        *)
(*                                                                         *)
(* A turn is one future; it is cut into actions at the awaits where a      *)
(* cancel or a crash can observe the state.  Slash commands queue behind a *)
(* running turn, so they are enabled only when no turn runs; a cancel, an  *)
(* infrastructure error of a model round and a crash are not.              *)
(***************************************************************************)
EXTENDS GraphTracker

CONSTANTS Budgets,          \* token budgets a /graph or /goal may carry
          TopUps,           \* amounts a /graph resume --budget may carry
          Cost,             \* tokens one model round or one worker burns
          Concurrency,      \* graph_concurrency, 1 outside a git repository
          ReplanCap,        \* graph_replan_cap
          OptimizerEnabled, \* graph_optimizer_enabled
          \* Bounds on what the environment does in one behaviour.
          MaxGraphs, MaxTopUps, MaxGoals, MaxFailures, MaxCancels, MaxCrashes

ASSUME ModeAssumption ==
  /\ Budgets \subseteq Nat \cup {NoLimit}
  /\ TopUps \subseteq Nat \ {0}
  /\ Cost \in Nat
  /\ Concurrency \in Nat \ {0}
  /\ ReplanCap \in Nat
  /\ OptimizerEnabled \in BOOLEAN
  /\ {MaxGraphs, MaxTopUps, MaxGoals, MaxFailures, MaxCancels, MaxCrashes}
       \subseteq Nat

VARIABLES
  graph,      \* graph_tracker's state
  goal,       \* goal_tracker's orchestration: the goal engine
  pc,         \* where the running turn awaits; "idle" or "cut" without one
  draft,      \* the nodes an optimizer pass is rewriting
  origin,     \* the command that began planning: "set" or "resume"
  batch,      \* nodes of a parallel batch whose report is not settled yet
  baselines,  \* <<graph id, version>> of every baseline file created
  saved,      \* the snapshot the persistence actor last wrote
  burnt,      \* tokens the session's graph nodes have really burnt
  taken       \* how often the environment has acted, for its bounds

vars == <<graph, goal, pc, draft, origin, batch, baselines, saved, burnt, taken>>

\* A goal's owner is the node it runs, NoNode for the user's own /goal.
NoGoal == [status |-> "None", owner |-> NoNode, used |-> 0,
           limit |-> NoLimit, planned |-> "no"]

GoalState ==
  [status : GraphStatus, owner : Ids \cup {NoNode}, used : Int,
   limit : Int, planned : {"no", "yes"}]

Event == {"graph", "topup", "goal", "failure", "cancel", "crash"}

Bound(e) == CASE e = "graph" -> MaxGraphs
              [] e = "topup" -> MaxTopUps
              [] e = "goal" -> MaxGoals
              [] e = "failure" -> MaxFailures
              [] e = "cancel" -> MaxCancels
              [] e = "crash" -> MaxCrashes

Take(e) == taken[e] < Bound(e) /\ taken' = [taken EXCEPT ![e] = @ + 1]

Init ==
  /\ graph = NoGraph /\ saved = NoGraph
  /\ goal = NoGoal
  /\ pc = "idle" /\ draft = NoDraft /\ origin = "set"
  /\ batch = {} /\ baselines = {} /\ burnt = 0
  /\ taken = [e \in Event |-> 0]

-----------------------------------------------------------------------------
(* Shared pieces.                                                          *)

\* `persist_graph_state` hands the snapshot to the persistence actor, which
\* may or may not have written it by the time of a crash.
Persist(g) == graph' = g /\ saved' \in {saved, g}

PauseGoal(o) == IF o.status = "Active" THEN [o EXCEPT !.status = "Paused"] ELSE o

\* Mutant: the graph pauses only when a goal paused.
AutoPauseNeedsGoal ==
  /\ goal' = PauseGoal(goal)
  /\ IF goal.status = "Active" THEN Persist(Pause(graph))
                               ELSE UNCHANGED <<graph, saved>>

\* `auto_pause_goal_if_active`: the goal pauses if Active; an Active graph
\* pauses whether or not a goal did.
AutoPause ==
  /\ goal' = PauseGoal(goal)
  /\ IF graph.status = "Active" THEN Persist(Pause(graph))
                                ELSE UNCHANGED <<graph, saved>>

GraphOwnsGoalEngine == graph.status \in {"Active", "Paused"}

EndTurn == pc' = "idle"

\* No turn runs: the last one ended, or was cut off before the graph seam.
Idle == {"idle", "cut"}
CutTurn == pc' = "cut"

\* A round's tokens, and the trip of `enforce_goal_token_budget`.
Burn == /\ goal' = [goal EXCEPT !.used = @ + Cost]
        /\ burnt' = IF goal.owner = NoNode THEN burnt ELSE burnt + Cost

OverBudget(o) == o.limit # NoLimit /\ o.used + Cost >= o.limit

ChargeCurrent(g, tokens) ==
  IF g.current = NoNode THEN g ELSE ChargeNodeTokens(g, tokens)

TripBudget ==
  /\ OverBudget(goal)
  /\ goal' = [goal EXCEPT !.used = @ + Cost, !.status = "BudgetLimited"]
  /\ burnt' = IF goal.owner = NoNode THEN burnt ELSE burnt + Cost
  /\ IF graph.status = "Active"
     THEN Persist(BudgetLimit(ChargeCurrent(graph, goal.used + Cost)))
     ELSE UNCHANGED <<graph, saved>>

-----------------------------------------------------------------------------
(* Commands, run when no turn is running.                                  *)

\* /graph <objective>: `setup_graph` up to the planner's await.
GraphSet(b) ==
  /\ pc \in Idle
  /\ goal.status \notin {"Active", "Paused"}
  /\ graph.status \in {"None", "Complete"}
  /\ Take("graph")
  /\ Persist(CreateGraph(taken["graph"] + 1, b))
  /\ pc' = "plan" /\ origin' = "set"
  /\ UNCHANGED <<goal, draft, batch, baselines, burnt>>

\* /graph resume of a paused graph.
GraphResume ==
  LET keep == IF goal.status = "None" THEN NoNode ELSE graph.current
      g    == DemoteOrphanedInFlight(Resume(graph), keep)
  IN  /\ pc \in Idle
      /\ graph.status = "Paused"
      /\ Persist(g)
      /\ IF Nodes(g) = {}
         THEN pc' = "plan" /\ origin' = "resume" /\ UNCHANGED goal
         ELSE /\ UNCHANGED origin
              /\ IF goal.status = "Paused"
                 THEN /\ goal' = [goal EXCEPT !.status = "Active"]
                      /\ pc' = IF goal.planned = "yes" THEN "round" ELSE "goal_planner"
                 ELSE pc' = "drive" /\ UNCHANGED goal
      /\ UNCHANGED <<draft, batch, baselines, burnt, taken>>

\* /graph resume --budget <extra> of a budget-limited graph.
GraphTopUp(extra) ==
  /\ pc \in Idle
  /\ graph.status = "BudgetLimited"
  /\ Take("topup")
  /\ Persist(ResumeBudgetLimited(graph, extra))
  /\ pc' = "drive"
  /\ UNCHANGED <<goal, draft, origin, batch, baselines, burnt>>

\* /graph pause.
GraphPause ==
  /\ pc \in Idle
  /\ graph.status = "Active"
  /\ Persist(Pause(graph))
  /\ goal' = PauseGoal(goal)
  /\ EndTurn
  /\ UNCHANGED <<draft, origin, batch, baselines, burnt, taken>>

\* /graph clear: the engine is cleared only when the graph owns it.
GraphClear ==
  /\ pc \in Idle
  /\ graph.status # "None"
  /\ goal' = IF GraphOwnsGoalEngine THEN NoGoal ELSE goal
  /\ Persist(NoGraph)
  /\ EndTurn
  /\ UNCHANGED <<draft, origin, batch, baselines, burnt, taken>>

\* /goal <objective>: the user's own goal, refused while a graph owns the
\* engine.  `setup_goal` up to the planner's await.
GoalSet(b) ==
  /\ pc \in Idle
  /\ ~GraphOwnsGoalEngine
  /\ Take("goal")
  /\ goal' = [NoGoal EXCEPT !.status = "Active", !.limit = b]
  /\ pc' = "goal_planner"
  /\ UNCHANGED <<graph, draft, origin, batch, baselines, saved, burnt>>

\* /goal resume.
GoalResume ==
  /\ pc \in Idle
  /\ ~GraphOwnsGoalEngine
  /\ goal.status = "Paused"
  /\ goal' = [goal EXCEPT !.status = "Active"]
  /\ pc' = IF goal.planned = "yes" THEN "round" ELSE "goal_planner"
  /\ UNCHANGED <<graph, draft, origin, batch, baselines, saved, burnt, taken>>

\* /goal pause and /goal clear.
GoalPause ==
  /\ pc \in Idle
  /\ ~GraphOwnsGoalEngine
  /\ goal.status = "Active"
  /\ goal' = PauseGoal(goal)
  /\ EndTurn
  /\ UNCHANGED <<graph, draft, origin, batch, baselines, saved, burnt, taken>>

GoalClear ==
  /\ pc \in Idle
  /\ ~GraphOwnsGoalEngine
  /\ goal.status # "None"
  /\ goal' = NoGoal
  /\ EndTurn
  /\ UNCHANGED <<graph, draft, origin, batch, baselines, saved, burnt, taken>>

\* Any prompt, the user's or a queued continuation: one more model round.
UserPrompt ==
  /\ pc \in Idle
  /\ graph.status = "Active" \/ goal.status = "Active"
  /\ pc' = "round"
  /\ UNCHANGED <<graph, goal, draft, origin, batch, baselines, saved, burnt, taken>>

-----------------------------------------------------------------------------
(* Planning: `setup_graph` after its first await, and                      *)
(* `finish_planning_on_resume`.                                            *)

PlanningFails ==
  /\ pc = "plan"
  /\ Persist(Pause(graph))
  /\ EndTurn
  /\ UNCHANGED <<goal, draft, origin, batch, baselines, burnt, taken>>

PlanningSucceeds ==
  /\ pc = "plan"
  /\ pc' = "baseline"
  /\ UNCHANGED <<graph, goal, draft, origin, batch, baselines, saved, burnt, taken>>

\* The version whose baseline file is written next.
Version == <<graph.id, graph.version>>

\* `write_graph_baseline` opens the file with create_new.
BaselineWritten ==
  /\ pc = "baseline"
  /\ Version \notin baselines
  /\ baselines' = baselines \cup {Version}
  /\ pc' = "install"
  /\ UNCHANGED <<graph, goal, draft, origin, batch, saved, burnt, taken>>

\* Mutant: a failed baseline is only an audit gap.
BaselineFailureIgnored ==
  /\ pc = "baseline"
  /\ pc' = "install"
  /\ UNCHANGED <<graph, goal, draft, origin, batch, baselines, saved, burnt, taken>>

\* The file exists already, or cannot be created, or cannot be written.
BaselineFails ==
  /\ pc = "baseline"
  /\ baselines' \in {baselines, baselines \cup {Version}}
  /\ Persist(Pause(graph))
  /\ EndTurn
  /\ UNCHANGED <<goal, draft, origin, batch, burnt, taken>>

\* `install_nodes`; only `setup_graph` runs the optimizer afterwards.
InstallPlan(P, d) ==
  /\ pc = "install"
  /\ ValidPlan(P, d)
  /\ Persist(InstallNodes(graph, P, d))
  /\ pc' = IF origin = "set" THEN "optimize" ELSE "drive"
  /\ UNCHANGED <<goal, draft, origin, batch, baselines, burnt, taken>>

-----------------------------------------------------------------------------
(* The optimizer pass at a plan boundary (`maybe_optimize_graph`).         *)

\* Disabled, capped, failed, rejected or without ops: the plan stays.
OptimizerKeepsPlan ==
  /\ pc \in {"optimize", "rewrite"}
  /\ pc' = "drive" /\ draft' = NoDraft
  /\ UNCHANGED <<graph, goal, origin, batch, baselines, saved, burnt, taken>>

\* The optimizer's artifact is in; its ops edit a draft one by one, within
\* one synchronous call.
OptimizerProposes ==
  /\ pc = "optimize"
  /\ OptimizerEnabled /\ graph.runs < ReplanCap
  /\ draft' = Draft(graph)
  /\ pc' = "rewrite"
  /\ UNCHANGED <<graph, goal, origin, batch, baselines, saved, burnt, taken>>

Rewrite(x) ==
  /\ pc = "rewrite"
  /\ draft' = x
  /\ UNCHANGED <<graph, goal, pc, origin, batch, baselines, saved, burnt, taken>>

\* The terminal gate's own deps need no op: they are rebuilt.
OptimizerRemovesDep(n, m) ==
  /\ n \in Pending(draft) \ {Final} /\ m \in draft.deps[n]
  /\ Rewrite(RemoveDep(draft, n, m))

\* The code may list the terminal node too; where it is stored is never
\* seen, since it becomes ready only when nothing else is left to run.
OptimizerReorders(a, b) ==
  /\ a < b /\ {a, b} \subseteq Pending(draft) \ {Final}
  /\ Rewrite(SwapNodes(draft, a, b))

OptimizerMerges(into, from) ==
  /\ into # from
  /\ into \in Pending(draft) \ {Final} /\ Replaceable(draft, from)
  /\ Rewrite(MergeNodes(draft, into, from))

OptimizerSplits(n, A, d) ==
  /\ Replaceable(draft, n)
  /\ Rewrite(SplitNode(draft, n, A, d))

OptimizerInstalls ==
  /\ pc = "rewrite"
  /\ ValidOptimization(graph, draft)
  /\ graph' = InstallOptimizedNodes(graph, draft)
  /\ pc' = "freeze_optimized" /\ draft' = NoDraft
  /\ UNCHANGED <<goal, origin, batch, baselines, saved, burnt, taken>>

\* A later version's baseline; a failure to write it is only an audit gap.
FreezeVersion ==
  /\ pc \in {"freeze_optimized", "freeze_replan"}
  /\ baselines' \in {baselines, baselines \cup {Version}}
  /\ Persist(graph)
  /\ pc' = IF pc = "freeze_replan" THEN "optimize" ELSE "drive"
  /\ UNCHANGED <<goal, draft, origin, batch, burnt, taken>>

-----------------------------------------------------------------------------
(* The dispatch loop (`drive_graph`) and its replan boundary               *)
(* (`maybe_replan_graph`).                                                 *)

ReplanDue == graph.pending = "queued" /\ ~BudgetExhausted(graph)

ReplanSpent == graph.st[Final] = "Achieved" \/ graph.runs >= ReplanCap

\* The terminal gate has passed, or the cap is reached: history only.
DrainAtBoundary ==
  /\ pc = "drive" /\ ReplanDue /\ ReplanSpent
  /\ Persist(DrainDiscoveries(graph))
  /\ UNCHANGED <<goal, pc, draft, origin, batch, baselines, burnt, taken>>

ReplanFires ==
  /\ pc = "drive" /\ ReplanDue /\ ~ReplanSpent
  /\ pc' = "replan"
  /\ UNCHANGED <<graph, goal, draft, origin, batch, baselines, saved, burnt, taken>>

\* Mutant: a replanner that adds nothing returns before the discoveries are
\* drained and the run is counted.
ReplanReturnsEarly ==
  /\ pc = "replan"
  /\ pc' = "drive"
  /\ UNCHANGED <<graph, goal, draft, origin, batch, baselines, saved, burnt, taken>>

\* An empty appendix, a failed replanner, or two invalid artifacts.
ReplanAddsNothing ==
  /\ pc = "replan"
  /\ Persist([DrainDiscoveries(graph) EXCEPT !.runs = @ + 1])
  /\ pc' = "drive"
  /\ UNCHANGED <<goal, draft, origin, batch, baselines, burnt, taken>>

ReplanAppends(A, d) ==
  /\ pc = "replan"
  /\ ValidAppendix(graph, A, d)
  /\ graph' = AppendReplanNodes(graph, A, d)
  /\ pc' = "freeze_replan"
  /\ UNCHANGED <<goal, draft, origin, batch, baselines, saved, burnt, taken>>

Dispatching == pc = "drive" /\ ~ReplanDue

DispatchBudgetLimited ==
  /\ Dispatching
  /\ BudgetExhausted(graph)
  /\ Persist(BudgetLimit(graph))
  /\ EndTurn
  /\ UNCHANGED <<goal, draft, origin, batch, baselines, burnt, taken>>

NothingReady == Dispatching /\ ~BudgetExhausted(graph) /\ ReadyNodes(graph) = {}

DispatchComplete ==
  /\ NothingReady
  /\ AllAchieved(graph)
  /\ Persist(Complete(graph))
  /\ goal' = NoGoal
  /\ EndTurn
  /\ UNCHANGED <<draft, origin, batch, baselines, burnt, taken>>

\* A dependency chain failed.
DispatchWedged ==
  /\ NothingReady
  /\ IsWedged(graph)
  /\ Persist(Pause(graph))
  /\ EndTurn
  /\ UNCHANGED <<goal, draft, origin, batch, baselines, burnt, taken>>

\* "Scheduler found no runnable node while work remains".
DispatchStuck ==
  /\ NothingReady
  /\ ~AllAchieved(graph) /\ ~IsWedged(graph)
  /\ Persist(Pause(graph))
  /\ EndTurn
  /\ UNCHANGED <<goal, draft, origin, batch, baselines, burnt, taken>>

RunsSerially ==
  Concurrency <= 1 \/ Cardinality(ReadyNodes(graph)) = 1

\* `launch_next_graph_node` up to `setup_goal`'s first await: a clean
\* engine, and the node Running before its goal exists.
LaunchNode(n) ==
  /\ Dispatching /\ ~BudgetExhausted(graph)
  /\ RunsSerially
  /\ IsNextReady(graph, n)
  /\ goal' = NoGoal
  /\ Persist(MarkNodeRunning(graph, n))
  /\ pc' = "setup_goal"
  /\ UNCHANGED <<draft, origin, batch, baselines, burnt, taken>>

\* `run_graph_parallel_batch` up to the fan-out.
StartBatch ==
  LET b == FirstReady(graph, Concurrency)
  IN  /\ Dispatching /\ ~BudgetExhausted(graph)
      /\ ~RunsSerially /\ ReadyNodes(graph) # {}
      /\ Persist([graph EXCEPT
           !.st = [n \in Ids |-> IF n \in b THEN "Running" ELSE graph.st[n]],
           !.current = NoNode])
      /\ batch' = b
      /\ pc' = "batch"
      /\ UNCHANGED <<goal, draft, origin, baselines, burnt, taken>>

-----------------------------------------------------------------------------
(* A serial node: `setup_goal`, model rounds, and the graph seam.          *)

SetupGoal ==
  /\ pc = "setup_goal"
  /\ goal' = [NoGoal EXCEPT !.status = "Active", !.owner = graph.current,
                            !.limit = RemainingBudget(graph)]
  /\ pc' = "goal_planner"
  /\ UNCHANGED <<graph, draft, origin, batch, baselines, saved, burnt, taken>>

GoalPlanned ==
  /\ pc = "goal_planner"
  /\ goal' = [goal EXCEPT !.planned = "yes"]
  /\ Persist(graph)
  /\ pc' = "round"
  /\ UNCHANGED <<draft, origin, batch, baselines, burnt, taken>>

\* The goal planner fails closed and pauses the goal, hence the graph.
GoalPlanningFails ==
  /\ pc = "goal_planner"
  /\ AutoPause
  /\ EndTurn
  /\ UNCHANGED <<draft, origin, batch, baselines, burnt, taken>>

\* The goal is done, paused or gone while the turn is in a round.
RoundOver == pc = "round" /\ goal.status # "Active"

\* A round that leaves the goal Active and within its budget: go on.
RoundContinues ==
  /\ pc = "round" /\ goal.status = "Active"
  /\ ~OverBudget(goal)
  /\ Burn
  /\ UNCHANGED <<graph, pc, draft, origin, batch, baselines, saved, taken>>

\* The budget trips at the end of a round, completed or not.
RoundTripsBudget ==
  /\ pc = "round" /\ goal.status = "Active"
  /\ TripBudget
  /\ EndTurn
  /\ UNCHANGED <<draft, origin, batch, baselines, taken>>

\* The verifier (or an unverified completion) completes the goal, in the
\* middle or at the end of a round.
GoalCompletes ==
  /\ pc = "round" /\ goal.status = "Active"
  /\ goal' = [goal EXCEPT !.used = @ + Cost, !.status = "Complete"]
  /\ burnt' = IF goal.owner = NoNode THEN burnt ELSE burnt + Cost
  /\ UNCHANGED <<graph, pc, draft, origin, batch, baselines, saved, taken>>

\* Blocked, no progress, verifier cap: the goal pauses, and the graph too.
GoalPausesItself ==
  /\ pc = "round" /\ goal.status = "Active"
  /\ AutoPause
  /\ EndTurn
  /\ UNCHANGED <<draft, origin, batch, baselines, burnt, taken>>

\* A turn ends without success for a reason that is no infrastructure error
\* (turn limit, stationarity, refusal, a denied permission): below the
\* back-off threshold all stays Active.
TurnGivesUp ==
  /\ pc = "round" /\ goal.status = "Active"
  /\ ~OverBudget(goal)
  /\ Burn
  /\ EndTurn
  /\ UNCHANGED <<graph, draft, origin, batch, baselines, saved, taken>>

\* The same once the goal is no longer Active: the loop breaks before
\* `run_graph_round_end`, and the turn's end looks at Active goals only.
TurnGivesUpLate ==
  /\ RoundOver
  /\ Take("failure")
  /\ CutTurn
  /\ UNCHANGED <<graph, goal, draft, origin, batch, baselines, saved, burnt>>

\* A round's infrastructure error ends the turn, whatever the goal became.
TurnFails ==
  /\ pc = "round"
  /\ Take("failure")
  /\ AutoPause
  /\ EndTurn
  /\ UNCHANGED <<draft, origin, batch, baselines, burnt>>

\* `run_graph_round_end` without an Active graph: the turn ends.
RoundEndsTurn ==
  /\ RoundOver
  /\ graph.status # "Active"
  /\ EndTurn
  /\ UNCHANGED <<graph, goal, draft, origin, batch, baselines, saved, burnt, taken>>

\* `advance_graph_after_node_complete` up to the archive's await.
HarvestNode ==
  /\ RoundOver
  /\ graph.status = "Active" /\ goal.status = "Complete"
  /\ graph.current # NoNode
  /\ graph' \in {graph, QueueDiscoveries(graph)}
  /\ pc' = "archive"
  /\ UNCHANGED <<goal, draft, origin, batch, baselines, saved, burnt, taken>>

NodeAchieved ==
  /\ pc = "archive"
  /\ Persist(MarkNodeAchieved(graph, graph.current, goal.used))
  /\ pc' = "drive"
  /\ UNCHANGED <<goal, draft, origin, batch, baselines, burnt, taken>>

\* The defensive arms of `run_graph_round_end`: an Active graph whose engine
\* holds no completed goal of a current node is paused or budget-limited.
RoundEndInconsistent ==
  /\ RoundOver
  /\ graph.status = "Active"
  /\ goal.status # "Complete" \/ graph.current = NoNode
  /\ Persist(IF goal.status = "BudgetLimited"
             THEN BudgetLimit(ChargeCurrent(graph, goal.used))
             ELSE Pause(graph))
  /\ EndTurn
  /\ UNCHANGED <<goal, draft, origin, batch, baselines, burnt, taken>>

-----------------------------------------------------------------------------
(* A parallel batch: its nodes run to their reports concurrently, then     *)
(* are settled one by one in batch order.                                  *)

BatchReports ==
  /\ pc = "batch"
  /\ burnt' = burnt + Cost * Cardinality(batch)
  /\ pc' = "settle"
  /\ UNCHANGED <<graph, goal, draft, origin, batch, baselines, saved, taken>>

\* The node whose report is settled next.
IsNextReport(n) == n \in batch /\ \A m \in batch : n <= m

\* The graph with or without the discoveries a report may carry.
WithDiscoveries == {graph, QueueDiscoveries(graph)}

\* A report that is not achieved is charged, and its dependents blocked.
SettleFailed(n) ==
  /\ pc = "settle"
  /\ IsNextReport(n)
  /\ \E g \in WithDiscoveries :
       Persist(MarkNodeFailed(ChargeNodeTokens(g, Cost), n))
  /\ batch' = batch \ {n}
  /\ UNCHANGED <<goal, pc, draft, origin, baselines, burnt, taken>>

\* An achieved report, up to the await of its merge.
TakeReport ==
  /\ pc = "settle" /\ batch # {}
  /\ graph' \in WithDiscoveries
  /\ pc' = "merge"
  /\ UNCHANGED <<goal, draft, origin, batch, baselines, saved, burnt, taken>>

\* Mutant: the spend of an achieved node is charged by the report and again
\* by `mark_node_achieved`.
SettleMergedTwice(n) ==
  /\ pc = "merge"
  /\ IsNextReport(n)
  /\ Persist(MarkNodeAchieved(ChargeNodeTokens(graph, Cost), n, Cost))
  /\ batch' = batch \ {n}
  /\ pc' = "settle"
  /\ UNCHANGED <<goal, draft, origin, baselines, burnt, taken>>

\* The worktree merged into the main tree (or there was none to merge).
SettleMerged(n) ==
  /\ pc = "merge"
  /\ IsNextReport(n)
  /\ Persist(MarkNodeAchieved(graph, n, Cost))
  /\ batch' = batch \ {n}
  /\ pc' = "settle"
  /\ UNCHANGED <<goal, draft, origin, baselines, burnt, taken>>

\* The merge failed: the node fails, uncharged.
SettleMergeFailed(n) ==
  /\ pc = "merge"
  /\ IsNextReport(n)
  /\ Persist(MarkNodeFailed(graph, n))
  /\ batch' = batch \ {n}
  /\ pc' = "settle"
  /\ UNCHANGED <<goal, draft, origin, baselines, burnt, taken>>

BatchSettled ==
  /\ pc = "settle" /\ batch = {}
  /\ pc' = "drive"
  /\ UNCHANGED <<graph, goal, draft, origin, batch, baselines, saved, burnt, taken>>

-----------------------------------------------------------------------------
(* What can strike a turn at any await.                                    *)

\* The user's cancel aborts the turn's future, then pauses.
Cancel ==
  /\ pc \notin Idle \/ graph.status = "Active" \/ goal.status = "Active"
  /\ Take("cancel")
  /\ AutoPause
  /\ EndTurn
  /\ batch' = {} /\ draft' = NoDraft
  /\ UNCHANGED <<origin, baselines, burnt>>

\* A prompt sent with "send now" (`cancel_turn_for_send_now`) aborts the
\* turn's future as a cancel does, but pauses nothing.
SendNow ==
  /\ pc \notin Idle
  /\ Take("cancel")
  /\ CutTurn
  /\ batch' = {} /\ draft' = NoDraft
  /\ UNCHANGED <<graph, goal, origin, baselines, saved, burnt>>

\* The process dies; the next one restores the graph from the snapshot on
\* disk.  The goal engine is not persisted.
Crash ==
  /\ Take("crash")
  /\ graph' = FromSnapshot(saved)
  /\ saved' \in {saved, graph'}
  /\ goal' = NoGoal
  /\ batch' = {} /\ draft' = NoDraft
  /\ EndTurn
  /\ UNCHANGED <<origin, baselines, burnt>>

-----------------------------------------------------------------------------
Command ==
  \/ \E b \in Budgets : GraphSet(b)
  \/ GraphResume
  \/ \E extra \in TopUps : GraphTopUp(extra)
  \/ GraphPause \/ GraphClear
  \/ \E b \in Budgets : GoalSet(b)
  \/ GoalResume \/ GoalPause \/ GoalClear
  \/ UserPrompt

Planning ==
  \/ PlanningFails \/ PlanningSucceeds
  \/ BaselineWritten \/ BaselineFails
  \/ \E P \in SUBSET PlannerIds : \E d \in [P -> SUBSET P] : InstallPlan(P, d)
  \/ OptimizerKeepsPlan
  \/ OptimizerProposes
  \/ \E n, m \in Ids : \/ OptimizerRemovesDep(n, m)
                       \/ OptimizerReorders(n, m) \/ OptimizerMerges(n, m)
  \/ \E n \in Ids : \E A \in Replacements(draft) :
       \E d \in [A -> SUBSET SplitDeps(draft, n, A)] : OptimizerSplits(n, A, d)
  \/ OptimizerInstalls
  \/ FreezeVersion

Driving ==
  \/ DrainAtBoundary \/ ReplanFires \/ ReplanAddsNothing
  \/ \E A \in SUBSET ReplanIds : \E d \in [A -> SUBSET Ids] : ReplanAppends(A, d)
  \/ DispatchBudgetLimited \/ DispatchComplete \/ DispatchWedged \/ DispatchStuck
  \/ \E n \in Ids : LaunchNode(n)
  \/ StartBatch

NodeRun ==
  \/ SetupGoal \/ GoalPlanned \/ GoalPlanningFails
  \/ RoundContinues \/ RoundTripsBudget \/ GoalCompletes
  \/ GoalPausesItself \/ TurnGivesUp \/ TurnGivesUpLate \/ TurnFails
  \/ RoundEndsTurn \/ HarvestNode \/ NodeAchieved \/ RoundEndInconsistent

BatchRun ==
  \/ BatchReports \/ TakeReport
  \/ \E n \in Ids : SettleFailed(n) \/ SettleMerged(n) \/ SettleMergeFailed(n)
  \/ BatchSettled

\* What the turn's own future does.
TurnStep == Planning \/ Driving \/ NodeRun \/ BatchRun

Next == Command \/ TurnStep \/ Cancel \/ SendNow \/ Crash

Spec == Init /\ [][Next]_vars

-----------------------------------------------------------------------------
(* Properties.                                                             *)

\* Every variable has its type, and every dependency of the graph and of its
\* snapshot names a node that is there (`recompute_ready` would otherwise
\* wait for it forever).
TypeOK ==
  /\ graph \in GraphState /\ saved \in GraphState
  /\ DepsResolve(graph) /\ DepsResolve(saved)
  /\ goal \in GoalState
  /\ pc \in {"idle", "cut", "plan", "baseline", "install", "optimize",
             "rewrite", "freeze_optimized", "freeze_replan", "drive", "replan",
             "setup_goal", "goal_planner", "round", "archive", "batch", "settle",
             "merge"}
  /\ draft \in Drafts
  /\ origin \in {"set", "resume"}
  /\ batch \subseteq Ids
  /\ baselines \subseteq Nat \X Nat
  /\ burnt \in Int
  /\ taken \in [Event -> Nat]

\* `recompute_ready` is the only way to Ready for a node that has never run:
\* no node but the terminal one is ready, running or achieved before every
\* node it depends on is achieved, across replans, optimizations, demotions
\* and restarts.
DependencyOrder == InOrder(graph)

\* `block_dependents` reaches every node behind a failure, and nothing that
\* happens later (a replan, an optimizer pass, a restart) brings one of them
\* back into play.
DeadBranchStaysDead == DeadBranchClosed(graph)

\* The terminal node re-verifies the whole objective: it runs, and passes,
\* only when every other node of the graph is achieved.
FinalGate ==
  graph.st[Final] \in {"Running", "Achieved"} =>
    \A n \in Nodes(graph) \ {Final} : graph.st[n] = "Achieved"

\* The v1 baseline is frozen before anything executes, on every path to an
\* executed node: first setup, retried planning, restart.
BaselineBeforeWork ==
  (\E n \in Ids : graph.st[n] \in {"Running", "Achieved", "Failed"}) =>
    <<graph.id, 1>> \in baselines

\* A turn that ends on its own leaves no graph Active without an engine: the
\* engine then holds the current node's goal, itself Active, so that any
\* prompt (or /graph pause) takes hold of it.  Only a turn that is cut off
\* before `run_graph_round_end` may strand a graph, and the next turn that
\* runs to its end advances, pauses or budget-limits it.
ActiveHasDriver ==
  pc = "idle" /\ graph.status = "Active" =>
    /\ goal.status = "Active"
    /\ graph.current # NoNode /\ goal.owner = graph.current
    /\ graph.st[graph.current] = "Running"

\* While a graph owns the goal engine, a live goal in it is the goal of the
\* current node: no other goal's verdict or spend is booked on a node.
EngineRunsCurrentNode ==
  GraphOwnsGoalEngine /\ goal.status \in {"Active", "Paused"} =>
    graph.current # NoNode /\ goal.owner = graph.current

\* The ledger never exceeds what the nodes have burnt: retries, resumes,
\* budget trips and their mirrored arms never charge a spend twice.
NoDoubleCharge == graph.spent <= burnt

\* Achieved, failed and blocked are states the scheduler never leaves; only
\* replacing the graph or losing an unsaved suffix in a crash undoes one.
\* (The terminal node is left to FinalGate: run too early, it is blocked by
\* a node it should have waited for and then settled all the same.)
TerminalIsForever ==
  [][ graph'.id = graph.id /\ graph'.status # "None"
      /\ taken'["crash"] = taken["crash"]
      => \A n \in Ids \ {Final} :
           graph.st[n] \in Terminal => graph'.st[n] = graph.st[n]
    ]_vars

\* A graph without a failed or blocked node always has something to run
\* until it is achieved: no replan and no optimizer rewrite, split, merge or
\* reorder leaves nodes that wait for each other, so the wedge `drive_graph`
\* reports is always a failed dependency chain.
WedgeHasCause == IsWedged(graph) => \E n \in Ids : graph.st[n] \in Dead

\* Model and subagent calls return, so a turn's future runs on, and an
\* optimizer's list of ops ends.
FairSpec == Spec /\ WF_vars(TurnStep) /\ WF_vars(OptimizerKeepsPlan)

\* Every turn ends: the budget bounds the rounds of a node, and the replan
\* cap bounds how often discoveries grow the graph.
TurnsSettle == (pc \notin Idle) ~> (pc \in Idle)
=============================================================================
