----------------------------- MODULE GraphBatch -----------------------------
(***************************************************************************)
(* One parallel batch of graph nodes (acp_session_impl/graph_workers.rs):  *)
(* every node of the batch goes through bounded worker/verifier rounds in  *)
(* subagents of its own, concurrently with the others, and the achieved    *)
(* nodes' worktrees are then merged into the main tree one by one.  Other  *)
(* processes may commit to the main repository meanwhile, check out other  *)
(* commits in it and remove worktrees.                                     *)
(*                                                                         *)
(* A subagent works in a worktree of its own or, when the coordinator      *)
(* cannot create one, in the shared tree; the caller only sees the path    *)
(* that comes back with the result.  What a round's message says, beyond   *)
(* its marker line, is left out, and so are tokens.                        *)
(***************************************************************************)
EXTENDS GraphTracker

CONSTANTS Concurrency,  \* graph_concurrency
          Rounds,       \* graph_node_rounds
          MaxCommits    \* bound: the commits HEAD may be at are 0..MaxCommits

ASSUME BatchAssumption ==
  Concurrency \in Nat \ {0} /\ Rounds \in Nat \ {0} /\ MaxCommits \in Nat

VARIABLES
  graph,    \* graph_tracker's state
  sent,     \* the snapshot last handed to the persistence actor
  pc,       \* where run_graph_parallel_batch awaits
  batch,    \* nodes whose report is not settled yet
  head,     \* HEAD of the main repository
  fanHead,  \* head_at_fanout
  returned, \* history: HEAD has left fanHead and come back
  disposes, \* subagent_worktree_snapshot: finished worktrees are disposed of
  node      \* run_node_to_verdict of each node, and the subagent behind it

vars == <<graph, sent, pc, batch, head, fanHead, returned, disposes, node>>

NoHead == -1

\* phase: where the node's future awaits; child: the workspace of the session
\* `resume_from` names, "none" for no session; tree: the workspace of the
\* current round's worker; path: `worktree_path`; base: the commit the
\* worktree was created from; dir: its directory, "there", "gone", "snapped"
\* when it was removed after a snapshot and "kept" when that removal failed.
NodeRun ==
  [phase   : {"off", "spawn", "working", "verifying", "reported"},
   round   : Nat,
   child   : {"none", "worktree", "shared"},
   tree    : {"none", "worktree", "shared"},
   path    : {"none", "worktree"},
   base    : Int,
   dir     : {"none", "there", "gone", "snapped", "kept"},
   verdict : {"none", "achieved", "failed"}]

FreshRun ==
  [phase |-> "off", round |-> 1, child |-> "none", tree |-> "none",
   path |-> "none", base |-> NoHead, dir |-> "none", verdict |-> "none"]

\* The dispatcher hands over the first Ready nodes of a planned graph, marks
\* them Running and clears the serial engine's node.
Init ==
  /\ \E P \in SUBSET PlannerIds : \E d \in [P -> SUBSET P] :
       LET g == InstallNodes(CreateGraph(1, NoLimit), P, d)
       IN  /\ ValidPlan(P, d)
           /\ Cardinality(ReadyNodes(g)) > 1
           /\ batch = FirstReady(g, Concurrency)
           /\ graph = [g EXCEPT !.st = [n \in Ids |->
                         IF n \in batch THEN "Running" ELSE g.st[n]]]
  /\ sent = graph
  /\ pc = "fanout"
  /\ head = 0 /\ fanHead = NoHead /\ returned = FALSE
  /\ disposes \in BOOLEAN
  /\ node = [n \in Ids |-> FreshRun]

-----------------------------------------------------------------------------
(* The main repository.                                                    *)

\* A commit, or a checkout or reset to another commit, earlier ones included.
MoveHead ==
  /\ \E c \in 0..MaxCommits : c # head /\ head' = c
  /\ returned' = (returned \/ head' = fanHead)
  /\ UNCHANGED <<graph, sent, pc, batch, fanHead, disposes, node>>

\* HEAD is captured before any worker starts; None if git fails.
FanOut ==
  /\ pc = "fanout"
  /\ fanHead' \in {head, NoHead}
  /\ pc' = "run"
  /\ node' = [n \in Ids |-> IF n \in batch THEN [node[n] EXCEPT !.phase = "spawn"]
                                           ELSE node[n]]
  /\ UNCHANGED <<graph, sent, batch, head, returned, disposes>>

\* Someone removes a worktree's directory.
DirVanishes(n) ==
  /\ node[n].dir \in {"there", "kept"}
  /\ node' = [node EXCEPT ![n].dir = IF @ = "there" THEN "gone" ELSE "snapped"]
  /\ UNCHANGED <<graph, sent, pc, batch, head, fanHead, returned, disposes>>

-----------------------------------------------------------------------------
(* One node's rounds.                                                      *)

\* What settlement needs of a report: the verdict and, for a node that is to
\* be merged, the worktree.
Failed == [FreshRun EXCEPT !.phase = "reported", !.verdict = "failed"]

Achieved(r) ==
  [FreshRun EXCEPT !.phase = "reported", !.verdict = "achieved",
                   !.path = r.path, !.base = r.base, !.dir = r.dir]

\* Mutant: a round that failed is not counted.
SameRoundAgain(r) == [r EXCEPT !.phase = "spawn", !.tree = "none"]

\* Mutant: one round too many.
OneRoundMore(r) ==
  IF r.round <= Rounds
  THEN [r EXCEPT !.phase = "spawn", !.tree = "none", !.round = @ + 1]
  ELSE Failed

NextRound(r) ==
  IF r.round < Rounds
  THEN [r EXCEPT !.phase = "spawn", !.tree = "none", !.round = @ + 1]
  ELSE Failed

HasDir(r) == r.dir \in {"there", "kept"}

\* What becomes of the worktree when its subagent ends.  With snapshots on it
\* is snapshotted and removed, and either may fail.
Disposals(r) ==
  IF disposes /\ r.tree = "worktree" /\ r.dir = "there"
  THEN {"there", "snapped", "kept"} ELSE {r.dir}

\* What the caller keeps of a result: the child's session, and the worktree
\* path if the result carries one; a removed worktree's it does not.
Adopt(r, pathReturned, dir) ==
  [r EXCEPT !.child = r.tree, !.dir = dir,
            !.path = IF pathReturned /\ r.tree = "worktree" /\ ~(disposes /\ dir = "snapped")
                     THEN "worktree" ELSE @]

Step(n, r) ==
  /\ pc = "run"
  /\ node' = [node EXCEPT ![n] = r]
  /\ UNCHANGED <<graph, sent, pc, batch, head, fanHead, returned, disposes>>

\* Without a session to resume, isolation is requested and a worktree minted
\* from the current HEAD; minting may fail and fall back to the shared tree.
SpawnFresh(n) ==
  /\ node[n].phase = "spawn" /\ node[n].child = "none"
  /\ \/ Step(n, [node[n] EXCEPT !.phase = "working", !.tree = "worktree",
                                 !.dir = "there", !.base = head])
     \/ Step(n, [node[n] EXCEPT !.phase = "working", !.tree = "shared"])

\* A resumed session keeps the workspace it had; a snapshotted worktree is
\* rehydrated.  A worktree whose directory is gone, or cannot be rehydrated,
\* is replaced by the shared tree.
Resumable(r) == r.child = "worktree" /\ r.dir # "gone"

SpawnResumed(n) ==
  /\ node[n].phase = "spawn" /\ node[n].child # "none"
  /\ \/ /\ Resumable(node[n])
        /\ Step(n, [node[n] EXCEPT !.phase = "working", !.tree = "worktree",
                                   !.dir = "there"])
     \/ /\ ~Resumable(node[n]) \/ node[n].dir # "there"
        /\ Step(n, [node[n] EXCEPT !.phase = "working", !.tree = "shared"])

\* Mutant: the empty session id of a failed spawn is adopted, so that the
\* next round starts a fresh worker without isolation.
SpawnFailureAdopted(n) ==
  /\ node[n].phase = "spawn"
  /\ Step(n, NextRound([node[n] EXCEPT !.child = "shared"]))

\* The coordinator refuses in-band: no session id, no path.
SpawnFails(n) ==
  /\ node[n].phase = "spawn"
  /\ Step(n, NextRound(node[n]))

\* The coordinator is gone: the spawn, or the await of its result, errs.
WorkerLost(n) ==
  /\ node[n].phase \in {"spawn", "working"}
  /\ Step(n, Failed)

WorkerCancelled(n) ==
  /\ node[n].phase = "working"
  /\ Step(n, Failed)

\* The worker outlived the foreground await budget: it is cancelled and its
\* round burnt.  The result names the session but not its worktree.
WorkerBackgrounded(n) ==
  /\ node[n].phase = "working"
  /\ \E d \in Disposals(node[n]) : Step(n, NextRound(Adopt(node[n], FALSE, d)))

WorkerErrs(n) ==
  /\ node[n].phase = "working"
  /\ \E d \in Disposals(node[n]) : Step(n, NextRound(Adopt(node[n], TRUE, d)))

\* The isolation guard on a successful round that asked for a worktree: there
\* is none, or it has been disposed of.
IsolationDenied(r, dir) == r.child = "none" /\ Adopt(r, TRUE, dir).path = "none"

WorkerDenied(n) ==
  /\ node[n].phase = "working"
  /\ \E d \in Disposals(node[n]) : IsolationDenied(node[n], d)
  /\ Step(n, Failed)

\* The round succeeded and the guard lets it pass.
Succeeds(n, d) ==
  /\ node[n].phase = "working"
  /\ d \in Disposals(node[n]) /\ ~IsolationDenied(node[n], d)

\* A successful round without a parseable claim.
WorkerUnclear(n) ==
  \E d \in Disposals(node[n]) :
    Succeeds(n, d) /\ Step(n, NextRound(Adopt(node[n], TRUE, d)))

WorkerBlocked(n) ==
  \E d \in Disposals(node[n]) :
    Succeeds(n, d) /\ Step(n, Failed)

\* Mutant: the verifier's cwd is not looked at.
CwdUnchecked(r) == TRUE

\* A claim of `done` goes to a verifier whose cwd is `worktree_path`; one that
\* is no directory fails its spawn.
CwdExists(r) == r.path = "worktree" => HasDir(r)

WorkerClaimsDone(n) ==
  \E d \in Disposals(node[n]) :
    LET r == Adopt(node[n], TRUE, d) IN
    Succeeds(n, d) /\ CwdExists(r) /\ Step(n, [r EXCEPT !.phase = "verifying"])

VerifierNotSpawned(n) ==
  \E d \in Disposals(node[n]) :
    LET r == Adopt(node[n], TRUE, d) IN
    Succeeds(n, d) /\ ~CwdExists(r) /\ Step(n, NextRound(r))

VerifierAccepts(n) ==
  /\ node[n].phase = "verifying"
  /\ Step(n, Achieved(node[n]))

\* Gaps, an unparseable verdict or a verifier that did not run.
VerifierRejects(n) ==
  /\ node[n].phase = "verifying"
  /\ Step(n, NextRound(node[n]))

\* Mutant: HEAD is captured when the reports are in.
JoinReadsHead ==
  /\ pc = "run"
  /\ \A n \in batch : node[n].phase = "reported"
  /\ fanHead' = head
  /\ pc' = "settle"
  /\ UNCHANGED <<graph, sent, batch, head, returned, disposes, node>>

\* `join_all`.
Join ==
  /\ pc = "run"
  /\ \A n \in batch : node[n].phase = "reported"
  /\ pc' = "settle"
  /\ UNCHANGED <<graph, sent, batch, head, fanHead, returned, disposes, node>>

-----------------------------------------------------------------------------
(* Settlement, in batch order.                                             *)

NextReport(n) == n \in batch /\ \A m \in batch : n <= m

Settle(n, g) ==
  /\ graph' = g /\ sent' = g
  /\ batch' = batch \ {n}
  /\ node' = [node EXCEPT ![n] = FreshRun]
  /\ pc' = "settle"
  /\ UNCHANGED <<head, fanHead, returned, disposes>>

WithDiscoveries == {graph, QueueDiscoveries(graph)}

SettleFailed(n) ==
  /\ pc = "settle" /\ NextReport(n)
  /\ node[n].verdict = "failed"
  /\ \E g \in WithDiscoveries : Settle(n, MarkNodeFailed(ChargeNodeTokens(g, 0), n))

TakeReport(n) ==
  /\ pc = "settle" /\ NextReport(n)
  /\ node[n].verdict = "achieved"
  /\ graph' \in WithDiscoveries
  /\ pc' = "merge"
  /\ UNCHANGED <<sent, batch, head, fanHead, returned, disposes, node>>

\* No worktree path: nothing to merge.
SettleShared(n) ==
  /\ pc = "merge" /\ NextReport(n)
  /\ node[n].path = "none"
  /\ Settle(n, MarkNodeAchieved(graph, n, 0))

\* HEAD is compared with the one captured, if one was.
HeadUnmoved(n) ==
  /\ pc = "merge" /\ NextReport(n)
  /\ node[n].path = "worktree"
  /\ fanHead \in {NoHead, head}
  /\ pc' = "apply"
  /\ UNCHANGED <<graph, sent, batch, head, fanHead, returned, disposes, node>>

\* Mutant: the node is skipped without being failed.
HeadMovedSkips(n) ==
  /\ pc = "merge" /\ NextReport(n)
  /\ node[n].path = "worktree"
  /\ fanHead # NoHead /\ \E now \in {head, NoHead} : now # fanHead
  /\ Settle(n, graph)

\* HEAD is elsewhere, or git fails to say where.
HeadMoved(n) ==
  /\ pc = "merge" /\ NextReport(n)
  /\ node[n].path = "worktree"
  /\ fanHead # NoHead /\ \E now \in {head, NoHead} : now # fanHead
  /\ Settle(n, MarkNodeFailed(graph, n))

\* `apply_worktree` diffs the worktree against HEAD as it is now.
ApplyMerges(n) ==
  /\ pc = "apply" /\ NextReport(n)
  /\ HasDir(node[n])
  /\ Settle(n, MarkNodeAchieved(graph, n, 0))

ApplyFails(n) ==
  /\ pc = "apply" /\ NextReport(n)
  /\ Settle(n, MarkNodeFailed(graph, n))

BatchSettled ==
  /\ pc = "settle" /\ batch = {}
  /\ pc' = "drive"
  /\ UNCHANGED <<graph, sent, batch, head, fanHead, returned, disposes, node>>

\* A failed chain pauses the graph; the user's /graph resume follows.
ResumeWedged ==
  /\ pc = "drive"
  /\ IsWedged(graph)
  /\ graph' = DemoteOrphanedInFlight(Resume(Pause(graph)), NoNode)
  /\ sent' = graph'
  /\ pc' = "resumed"
  /\ UNCHANGED <<batch, head, fanHead, returned, disposes, node>>

-----------------------------------------------------------------------------
WorkerStep(n) ==
  \/ SpawnFresh(n) \/ SpawnResumed(n) \/ SpawnFails(n) \/ WorkerLost(n) \/ WorkerCancelled(n)
  \/ WorkerBackgrounded(n) \/ WorkerErrs(n) \/ WorkerDenied(n)
  \/ WorkerUnclear(n) \/ WorkerBlocked(n) \/ WorkerClaimsDone(n)
  \/ VerifierNotSpawned(n)
  \/ VerifierAccepts(n) \/ VerifierRejects(n)

Settlement ==
  \/ \E n \in Ids :
       \/ SettleFailed(n) \/ TakeReport(n) \/ SettleShared(n)
       \/ HeadUnmoved(n) \/ HeadMoved(n) \/ ApplyMerges(n) \/ ApplyFails(n)
  \/ BatchSettled

Next ==
  \/ MoveHead
  \/ FanOut \/ Join
  \/ \E n \in Ids : WorkerStep(n) \/ DirVanishes(n)
  \/ Settlement
  \/ ResumeWedged

Spec == Init /\ [][Next]_vars

\* A subagent reports or is backgrounded by its await budget, and the
\* session's future runs on; nobody has to move HEAD, remove a worktree or resume.
FairSpec ==
  /\ Spec
  /\ WF_vars(FanOut) /\ WF_vars(Join) /\ WF_vars(Settlement)
  /\ \A n \in Ids : WF_vars(WorkerStep(n))

-----------------------------------------------------------------------------
(* Properties.                                                             *)

\* Every variable has its type, and no node outlives its rounds
\* (`for round in 1..=rounds_cap`).
TypeOK ==
  /\ graph \in GraphState /\ sent \in GraphState
  /\ pc \in {"fanout", "run", "settle", "merge", "apply", "drive", "resumed"}
  /\ batch \subseteq Ids
  /\ head \in 0..MaxCommits /\ fanHead \in -1..MaxCommits
  /\ returned \in BOOLEAN /\ disposes \in BOOLEAN
  /\ node \in [Ids -> NodeRun]
  /\ \A n \in Ids : node[n].round \in 1..Rounds

\* The verifier of a node judges the tree its worker wrote in, through every
\* mix of failed spawns, errors, backgrounded rounds, resumed sessions and
\* worktrees that disappear (the adopt guard of `run_node_to_verdict`, and the
\* check of the verifier's cwd in handle_request.rs).  Where finished worktrees
\* are disposed of, this is promised for the first round only: the isolation
\* guard is not applied to a resumed one.
VerifierChecksWorkersTree ==
  \A n \in Ids : node[n].phase = "verifying" /\ (disposes => node[n].round = 1) =>
    (node[n].path = "worktree" <=> node[n].tree = "worktree")

\* A worktree that passes the HEAD check was created from the commit HEAD was
\* at when the batch fanned out, whenever its worker was spawned or respawned,
\* unless git could not name that commit or HEAD has left it and come back.
MergeBaseIsFanout ==
  pc = "apply" /\ fanHead # NoHead /\ ~returned =>
    \A n \in Ids : NextReport(n) => node[n].base = fanHead

\* A batch settles: the rounds cap bounds every node, whatever its workers
\* and verifiers do.
BatchSettles == (pc = "fanout") ~> (pc = "drive")

-----------------------------------------------------------------------------
(* The batch as graph mode sees it: all reports at once, then one settled  *)
(* node after the other.                                                   *)

modePc ==
  CASE pc \in {"fanout", "run"} -> "batch"
    [] pc = "settle" -> "settle"
    [] pc \in {"merge", "apply"} -> "merge"
    [] pc \in {"drive", "resumed"} -> "drive"

Mode == INSTANCE GraphMode WITH
  pc <- modePc, saved <- sent, draft <- NoDraft, origin <- "set", baselines <- {<<1, 1>>},
  goal <- [status |-> "None", owner |-> NoNode, used |-> 0,
           limit |-> NoLimit, planned |-> "no"],
  burnt <- 0, taken <- [e \in {} |-> 0],
  Budgets <- {NoLimit}, TopUps <- {}, Cost <- 0, ReplanCap <- 0,
  OptimizerEnabled <- FALSE, MaxGraphs <- 1, MaxTopUps <- 0, MaxGoals <- 0,
  MaxFailures <- 0, MaxCancels <- 0, MaxCrashes <- 0

\* Rounds, HEAD checks and the merge's steps implement the batch of graph
\* mode: a node is settled once, in batch order, failed or achieved.
ImplementsBatchRun == [][Mode!BatchRun \/ pc = "drive"]_Mode!vars
=============================================================================
