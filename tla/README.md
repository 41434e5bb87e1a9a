# Kigi's orchestration and session core, in TLA+

Kigi is a coding agent for the terminal. Its central feature is `/graph`: one
objective is planned into a DAG of nodes, each node runs as a self-verifying
goal, independent nodes run in parallel worktrees, discoveries grow the graph,
an optimizer rewrites it, and a terminal node verifies the whole. Below it is the
session core every user depends on: the queue that turns whatever reaches a
session into turns, one at a time; the merge of a worker's worktree into the
user's files; the project file several sessions share; and the refresh of the
one OAuth credential all processes share. This directory holds the TLA+ models
of that machinery, the TLC runs that check them on small instances, and TLAPS
proofs of their safety properties for all instances.

Paths below are relative to `src/crates/codegen/kigi-shell/src/session/` unless
they start with `crates/` or `auth/` (`src/crates/codegen/kigi-shell/src/auth/`).

## 1. Inventory of the system

| Part | State it keeps | Operations | Hard behaviour |
|---|---|---|---|
| graph tracker (`graph_tracker.rs`) | nodes with status and deps, current node, graph status, budget and spend, pending discoveries, plan version | create, install, mark running / achieved / failed, charge, pause, resume, budget-limit, top-up, restore, append, install optimized | promote-only readiness, transitive blocking, demotion of orphans, restore after a crash |
| plan validation (`graph_plan.rs`) | none | `parse_and_validate`, `validate_replan`, `apply_optimization` | a long list of ops edits edges in bulk; cycles; deps on dead nodes |
| graph driver (`acp_session_impl/graph.rs`, `graph_replan.rs`, `graph_optimize.rs`) | program position of the turn | setup, planning, baseline, dispatch, launch, harvest, resume, persist | every `await` can be cut off by a cancel or a crash |
| batch and workers (`acp_session_impl/graph_workers.rs`) | one future per node: round, session to resume, worktree path; HEAD at fan-out | spawn, verify, merge | workers degrade to the shared tree, are backgrounded, lost or resumed; worktrees vanish; others move HEAD meanwhile |
| goal engine (`goal_tracker.rs`, `acp_session_impl/goal.rs`, `goal_support.rs`) | one goal: status, spend, budget, plan | plan, rounds, verdict, budget trip, auto-pause | shared between graph nodes and the user's own `/goal` |
| turn loop (`acp_session_impl/turn.rs`, `turn_end.rs`, `run_loop.rs`) | the running turn | rounds, error handling, cancel, send-now | errors strike after the goal's verdict; a turn may be cut with its graph Active |
| commands (`acp_session_impl/slash_exec.rs`) | none | `/graph ...`, `/goal ...` | ownership of the engine is inferred from the graph's status |
| persistence actor (`persistence.rs`) | the snapshot on disk | write | asynchronous: a crash may lose the last snapshots |
| goal verifier (`goal_classifier.rs`, `goal_strategist.rs`, ...) | streaks, caps, votes | verdict per round | panel of subagents, stall detection |
| project file (`graph_project.rs`) | `.kigi/graph.jsonl`, writer flock | claim, project, load, remove | several sessions of one repository, restores, git |
| worktree apply (`crates/codegen/kigi-workspace/src/worktree`) | main tree and worktrees | diff, three-way merge | partial application, the user's edits, a dirty fork base |
| prompt queue (`acp_session_impl/prompt_queue.rs`, `notification_drain.rs`, `interjection.rs`, `tasks_cancel.rs`, `turn_end.rs`, `run_loop.rs`) | pending inputs, running task, pin, interjections, notifications | queue, promote, edit, remove, reorder, send-now, cancel, complete, drain | handlers await between lock sections; stale completions; tasks outside the loop promote |
| authentication (`auth/manager.rs`, `auth/manager/lock.rs`, `auth/manager/sleep_gate.rs`, `auth/refresh/`, `auth/recovery.rs`, `auth/flow.rs`) | cached and stored credential, lock file, tombstone, sleep gate | refresh chain, adoption, recovery, login flow, logout | single-use refresh tokens, lock breaking, lost replies, dropped requests, crashes, sleep |

How they interact. A slash command runs when no turn is running and may start
one. A turn is a single future that calls the driver, which calls the planner,
the goal engine or a batch and awaits each. Driver and engine share two mutexed
trackers; the driver reads the engine's status at the end of every round and the
engine's pause calls back into the graph tracker. Every change of the graph is
sent to the persistence actor, and to the project file by the session that holds
its flock. A cancel drops the turn's future wherever it
awaits and then pauses; a send-now drops it and pauses nothing; a crash drops
everything but the disk. A dropped future takes a token refresh it awaits with it. Every turn is an
item of the session's queue; the actor's loop, the turns it spawned and two
start-up tasks share the queue's lock. The model calls of a turn need a token,
and any of them, of any process, may start a refresh.

What makes each part correct: the tracker never schedules out of order, never
leaves a live node behind a dead one and never revives a settled one; the driver
freezes the plan before it executes anything, never ends a turn by itself with
an Active graph that nobody drives, and always ends its turn; the ledger books every spend once; a batch
verifies what its worker wrote, merges from the right base and settles;
resuming, retrying and topping up do what their messages say. A merge never
destroys the user's work; a repository has one driver; no prompt is lost, run
twice or left waiting; a refresh token is spent once and the stored one is live.

The rest of the repository is listed in `PROJECT.json` and in section 8.

## 2. Modules

    GraphTracker            operators on the tracker's state
      |-- GraphMode         driver + goal engine + turn + commands (state machine)
      |     `-- MCGraphMode
      |-- GraphBatch        one parallel batch in detail; refines GraphMode's batch
      |     `-- MCGraphBatch
      `-- GraphTrackerProofs   lemmas: every operator keeps a graph well formed
            |-- GraphModeProofs   well-formedness, scheduling, baseline
            |     `-- GraphDriverProofs   settled nodes, wedges, ledger, engine, gate
            `-- GraphBatchProofs  rounds, trees, merge base, refinement
    GraphProject            the project file and its sessions
      |-- MCGraphProject    `-- GraphProjectProofs
    WorktreeApply           worktrees and their merge
      |-- MCWorktreeApply   `-- WorktreeApplyProofs
    AuthLock                auth.json.lock
      `-- AuthRefresh       the refresh chain over it
            |-- MCAuthRefresh   `-- AuthRefreshProofs
    PromptQueue             the session's input queue
      |-- MCPromptQueue     `-- PromptQueueProofs

GraphProject looks at a graph from outside (id, progress, status) where GraphMode
looks inside; WorktreeApply details the `ApplyMerges` step of GraphBatch;
PromptQueue details how the turn that GraphMode runs comes to run.

### GraphTracker

One operator per method of `GraphTracker`, from state to state, named as in Rust
(`MarkNodeFailed` is `mark_node_failed`), plus what the three validators of
`graph_plan.rs` accept and produce.

* Node ids are numbers in storage order: the planner's, then `Final`
  (`gn-final`), then those of replans and splits. The code's topological sort
  is represented by its result: a planner node depends on earlier ones only.
* A node not in the list is `Absent`. Only `Blocks` edges are kept. `Verifying`
  is a status the code never stores, so `InFlight` is `Running`.
* The five paused statuses are one. History, texts and clocks are left out.
* `DeadBranch` is `block_dependents`' fixed point, as a least closed set.
* The optimizer's ops work on a `Draft`, as the code works on a clone of the
  nodes: `RemoveDep`, `SwapNodes` (a reorder is a product of swaps),
  `MergeNodes`, `SplitNode`; then the gate is rebuilt, the whole is validated,
  and pending statuses are derived afresh. Not represented: a split that reuses
  the id of the node it removes, a dep of a replacement on the terminal node
  (always refused as a cycle), a reorder of the terminal node (it becomes ready when
  nothing else is left, so its place is never seen), ops on the terminal node's own deps (rebuilt
  anyway), the cap on the number of nodes (a refusal, i.e. `OptimizerKeepsPlan`).

### GraphMode

State: `graph` and `goal` (the two trackers), `pc` (the await the turn is at),
`draft`, `origin` (first planning or retried planning), `batch`, `baselines`
(baseline files created), `saved` (the snapshot on disk), and two
history variables, `burnt` (tokens really spent on nodes) and `taken` (bounds
on the environment).

| Actions | Code |
|---|---|
| `GraphSet` ... `UserPrompt` | `/graph` and `/goal` commands, prompts |
| `PlanningFails` ... `InstallPlan` | `setup_graph`, `finish_planning_on_resume`, `write_graph_baseline` |
| `OptimizerProposes`, `Optimizer...`, `FreezeVersion` | `maybe_optimize_graph`, `apply_optimization` |
| `DrainAtBoundary` ... `ReplanAppends` | `maybe_replan_graph` |
| `Dispatch...`, `LaunchNode`, `StartBatch` | `drive_graph`, `launch_next_graph_node` |
| `SetupGoal` ... `RoundEndInconsistent` | `setup_goal`, model rounds, `run_graph_round_end`, `advance_graph_after_node_complete` |
| `BatchReports` ... `BatchSettled` | `run_graph_parallel_batch` after the fan-out |
| `TurnFails`, `TurnGivesUp`, `TurnGivesUpLate` | rounds that do not end `Completed` |
| `Cancel`, `SendNow`, `Crash` | the cancel command; a prompt sent now; process death and `from_snapshot` |

A turn is cut into actions exactly where the code awaits between two changes of
state; whatever happens under one lock or in one synchronous stretch is one
action. `Persist(g)` sets the graph and lets the disk have the new snapshot or
still the old one. The goal engine is not written to disk, so a crash empties
it. A baseline file may exist although writing it failed, because it is opened
with `create_new` before it is written.

`pc` is `idle` after a turn that came to its end, and `cut` after one that was
stopped in a way that asks nobody about the graph: a send-now, whose
`cancel_turn_for_send_now` aborts the future and pauses neither tracker, and a
round that ends with a turn limit, a refusal or an error after the goal's verdict
(`turn.rs:727-732` breaks before the graph's seam, and `handle_turn_end` looks at
Active goals only). Commands are accepted in both.

Assumptions: the subagent channel is present and the goal harness is enabled;
the project file is left to GraphProject; the back-off streak that turns
repeated unsuccessful turns into a pause is a free choice between `TurnGivesUp`
and `GoalPausesItself`; a round, and a worker, cost the same `Cost` tokens.

### GraphBatch

One batch in detail. Per node: where its future awaits, the round, the workspace
of the session `resume_from` names, the workspace the current worker writes in,
the path the caller remembers, the commit its worktree was made from and what has
become of its directory. The environment moves HEAD to any commit at any time, an
earlier one included, and removes worktree directories; `returned` records that
HEAD has left the fan-out's commit and come back. `git_head` may fail at the
fan-out, after which the HEAD check is skipped, and at the check, where it counts
as moved. `Adopt` keeps apart the
two things a result may carry, a session and a path: a backgrounded worker
returns the first only, a refused spawn neither. The merge is two steps, the
HEAD check and the apply, because the code awaits between them. A resumed worker
keeps its workspace, unless the directory is gone: then it works in the shared
tree while `worktree_path` keeps the old path (`SpawnResumed`), and the verifier
sent to that path is not spawned (`VerifierNotSpawned`). `disposes` is the option,
off by default, that snapshots and removes the worktree of a finished subagent;
a resume rehydrates it or falls back to the shared tree.

`ImplementsBatchRun` states that every step of the detailed batch is a batch step
of GraphMode or leaves GraphMode's variables alone, with `pc`, `saved` and the
unused variables given by the `INSTANCE GraphMode WITH` at the end of the module.

### GraphProject

Per session: whether it is loaded, its tracker, its snapshot on disk. Shared: the
flock, the file, whether it parses, and the version the user has committed. No
handler awaits between taking the flock and its checkpoint, so each command is one
action; `PersistGraphState` is `persist_graph_state` with both of its sinks. A
refused command still changes state when it lets the flock go
(`GraphSetRefused`, `ResumeRefused`). `Claims` covers the best-effort claims of
a restore and of a clear, which go on without the flock. What git does
to the file (`GitCommit`, `GitCheckout`, `GitMerge`) is external.

### WorktreeApply

Trees are functions from files to contents. `Fork` copies the working tree with
its uncommitted changes (`PreserveWorkingTree`), `GetApplyContext` computes the
list of files from HEAD, the worktree's HEAD and its working tree, and then each
file is read (`ReadFile`, with the decision) and written (`WriteFile`) in two
steps, because the code awaits between them. Any read may fail: the dirty diff is
then passed over, the rest of `GetApplyContext` fails the node (`ContextFails`),
and each of the three versions of a file becomes absent, as `.ok()` makes it. A
write that fails leaves the old content or a part of the new one and shortens the
list of applied files. The user commits and resets HEAD; `captured` says whether
the fan-out knew its commit. Files in `Nested` are in a directory that HEAD does
not have: the diff does not descend into it while it is untracked. Merges follow
batch order and the HEAD check precedes each.

### AuthLock and AuthRefresh

AuthLock is `try_lock_auth_file_async` for several tasks: the instant try, the
blocking wait on whatever inode the path named when it was opened, the deadline,
the stale fallback with its unlink, and the check that stamp and inode match.
Verdict and unlink are two steps. Time is `Age` (a stamp becomes stale, whether
or not its holder is still at work) and `TimesOut`.

AuthRefresh puts the credential on top. A credential is the number of its grant;
`live` are the refresh tokens the host would accept. `Auth`, `Tick`, `Recover`,
`StartFlow` are the callers; `TakeMutex`, `FirstLock`, `Revalidate`, `SecondLock`,
`Claim`, `SendToken`, `AfterRejection` and `Apply` are the numbered steps of
`refresh_chain` and of `KimiRefresher::refresh`, cut at their awaits; the host's
answers are external but for the client's reaction to them. `mishaps` is a history variable: what
happened that no lock can prevent (a reply lost after a rotation, a rotation whose
request a cancelled turn or a crash has abandoned, a live token the host refuses,
a failed write of auth.json, a logout, a lock file unlinked while its holder was
past the last check). The properties are stated relative
to it, so that everything else, every interleaving of the protocol itself, has
to be right. A cancelled turn drops `refresh_chain` at any of its awaits
(`Dropped`), and so does a crash. Neither is a mishap as such: a request on the
wire becomes a `stray`, and only if the host rotates its token, or had done so
already, is the grant abandoned.

### PromptQueue

`queue`, `task` and `pin` are `pending_inputs`, `running_task` and
`current_prompt_id`. `job` is the handler the actor's loop is in, with what it
carries over an await: a cancel takes the task and the front under the lock and
aborts, unpins and answers later; a completion unpins, pops, flushes the stranded
interjections one by one, starts the next turn and drains notifications. Between
any two of these steps the turns (`live`) and the starters run. The select is biased, so a command is
received only when no completion waits (`Receives`). An item's text is its
version. Who owns a row is an input: a refused edit is no step.

## 3. Runs

All runs disable the deadlock check: a session whose graph is complete, cleared
or paused, whose queue is empty or whose credential is fresh may rest forever.

| Run | Instance | Shows |
|---|---|---|
| `graph_serial` | 2 planner nodes, 1 replan node, concurrency 1, replan cap 2, 2 errors, 1 crash | types and resolved deps, the terminal gate, the baseline, an Active graph has a driver, the engine runs the current node |
| `graph_parallel` | concurrency 2, cap 1, budget 3, a top-up, a user goal, 1 error, 2 cancels | dependency order, dead branches, settled nodes, no double charge |
| `graph_optimizer` | concurrency 2, cap 2, optimizer on, two fresh ids for splits and replans | every list of ops, then execution: dependency order, and a wedge always has a failed node behind it |
| `graph_turns` | budget 2, cap 1, 2 cancels or send-nows, 1 error, fairness | every turn ends; only a cut turn leaves an Active graph undriven |
| `batch_rounds` | 2 planner nodes, concurrency 2, 3 rounds, 2 commits to move HEAD between, disposal on or off, fairness | rounds bound, verifier's tree, merge base, refinement of GraphMode's batch, the batch settles |
| `project` | 2 sessions, 2 graphs, 1 failed write, 1 git operation | one driver, flock and file belong together, unfinished graphs are kept |
| `worktree` | 2 worktrees, 2 files (one in a new directory), 2 contents, 1 user edit or reset, 1 commit, 1 fault | the user's work is kept, the merge is a three-way merge, a repeated merge is a no-op |
| `auth_refresh` | 2 processes, 2 tasks, 5 inodes, 2 grants, 1 event of any kind; requests, ticks and login flows | one spender, tombstones have a cause, the stored token is live, no refresh across a sleep |
| `auth_answers` | 2 processes, 2 tasks, 3 inodes; recoveries, fairness | a process whose requests do not hang on the wire answers them all |
| `prompt_queue` | 3 inputs, 1 edit per row, 1 notification, both starters | front, pin, edits, answers, promotion, interjections, no second run |

Bounds. Two planner nodes give every shape that matters to the scheduler (two
independent nodes, a chain, one node) beside the terminal node; one replan id
makes replans append before, during and after execution; two allow one split.
Concurrency 2 with two Ready nodes gives a real batch. A single cancel, error or
crash can strike at every await, and the graph can be resumed any number of times
afterwards; `graph_serial` allows two errors so that a round that gives up can
follow one that failed, and `graph_parallel` two cancels because a double charge
would need an interrupted retry. A batch takes all of a two-node plan; its nodes
go through their rounds independently. One graph per behaviour suffices because a new graph starts
from a fresh state. The bounds on the environment (`MaxGraphs`, `MaxTopUps`,
`MaxGoals`, `MaxFailures`, `MaxCancels`, `MaxCrashes`, `MaxCommits`) are
conjuncts of the environment's own actions; the theorems of section 6 hold for
any value of them.

Two sessions are every pair that can contend for one flock, and two graphs are the
old and the new one; one failed write or one git operation can fall between any
two checkpoints. Two worktrees give a merge over the result of another; two
contents and absence give every case of a three-way comparison. Two tasks are
needed for a double spend, in one process or in two; three inodes are as many as
two tasks and a breaker can have open, five with the login flow's second lock; a second grant is the rotation whose loss
matters. Three inputs are a running turn, one behind it and one that arrives,
of all kinds and in every order of arrival.

`VIEW mcNoDisk` is used in two runs without crashes: then no action reads
`saved`, and of `baselines` only membership of the first version can change a
later step, so states that differ elsewhere have the same behaviours and agree
on the properties these runs check. `graph_turns`, a liveness run, takes no view; its
ACTION_CONSTRAINT keeps only the steps that leave `saved` alone, for the same
reason (every write to disk may also come too late, and every step that writes
changes something else as well).

`VIEW mcPresent` of `prompt_queue` leaves out history: which completions were
reported and told (a queued wake is always reported, and telling changes no
step), answered prompts, started prompts that have left the queue (an id never
returns to it), and the version of a turn that is over.

Fairness. `GraphMode!FairSpec` asks that the turn's own future runs on (a model
call returns or errs, and a subagent reports or is backgrounded when its await
budget is used up) and that a list of optimizer ops ends. It asks nothing of the user.
The spend of a round is positive in that run, which is what bounds a node's
rounds; without a budget a node may go on as long as the model does. In
`GraphBatch!FairSpec` each node's future, the join and the settlement run on;
nobody has to move HEAD, remove a worktree or resume. `AuthRefresh!FairSpec` asks
that every task keeps running, that tokio's mutex is fair, and that the deadline of
a lock wait passes even if the waiter has to reopen the path again and again
(the deadline is computed once, before the loop). It asks nothing of the breaker,
of time and of the host: the shared HTTP client has a connect timeout only and
`kimi_oauth.rs:285-292` sets none for the request, so a host that accepts a
connection and stays silent keeps its task waiting, and with it, through
`refresh_lock` (`auth/manager.rs:1298`, no timeout), every other request of the
same process. `Answered` is therefore stated per process, under the hypothesis
that none of its own requests stays on the wire for ever: such a request in
another process holds the lock file only, and waits for that have a deadline.

### Runs that end in a violation

| Run | What happens |
|---|---|
| `worktree_lost` | The user has an uncommitted change in a file; the worker, whose worktree inherited it, turns the file back to the committed content. The diff from HEAD is empty, the merge is a success without it, and the worktree is removed. |
| `prompt_wakes` | A background task completes during a turn, its wake is queued and its completion marked as reported; a user prompt preempts the wake and un-marks `AutoWakeDeliveredIds` only. `TaskCompletionReminder` skips reported completions, so the model is never told. |

The quotations are in `PROJECT.json`.

## 4. Disagreements between code and comments

Met while modelling; in each the model follows the code, and the action named
shows the behaviour.

Graph mode:

* `Resume` keeps the current node in flight when the engine holds any goal, also a
  complete one (the turn failed after the verdict); nothing is ready and nothing
  is wedged from then on. `acp_session_impl/graph.rs:1017-1022` says the demotion exists
  because "otherwise resume wedges forever".
* A terminal node kept `Running` over a cancel is not taken back when the resume's
  replan appends nodes (`AppendReplanNodes`); `graph_plan.rs:308-310` says it is
  "always the last schedulable node". `FinalGate` is therefore checked without
  cancels, in `graph_serial`; the proof shows that of all cancels only one between
  the terminal node's verdict and its booking does this (`LateCancel`).
* A user's `/goal` beside a budget-limited graph survives the top-up that makes the
  graph Active again; a cancel then leaves a paused graph over that goal, which
  `/graph clear` destroys. `acp_session_impl/slash_exec.rs:898-902` says the goal
  "must survive /graph clear". `EngineRunsCurrentNode` is checked without a user
  goal; the proof needs only that no top-up is made beside a live goal
  (`ContestedTopUp`).
* A send-now (`SendNow`) aborts the turn and leaves the graph Active, as does a round
  that stops after its goal's verdict (`TurnGivesUpLate`). The next turn that comes
  to its end advances, pauses or budget-limits the graph; until then nothing drives
  it, and if the user pauses and resumes it instead, the engine starts clean and the
  tokens of a goal that was complete are not booked. The workers of an aborted batch
  run on and report to nobody; their nodes are demoted at the resume. A goal that is
  left BudgetLimited can budget-limit a graph that was cut while it was planned; a
  top-up then pauses it (`DispatchStuck`), and the resume plans again. A send-now
  between the terminal node's verdict and its booking has the effect of the late
  cancel above.
* `BaselineFails` may leave the file behind, and `BaselineWritten` needs it absent:
  after a failed write, the retry that `acp_session_impl/graph.rs:383` advertises
  cannot succeed, since `write_graph_baseline` opens with `create_new`.
* Comments in `goal_orchestrator.rs:53-55` speak of a durable goal total that
  survives in a persisted goal state, while a restart restores no goal.

Batches and merges:

* A first round that degraded to the shared tree and erred is resumed there
  (`Adopt`); the guard looks only at successful rounds that requested isolation,
  while `graph_workers.rs:405-406` says "Running parallel writers in the shared
  tree ... is never OK".
* A node failed by the HEAD check stays `Failed` on resume, whereas the message at
  `graph_workers.rs:697-698` says "/graph resume re-runs the node".
* `SettleMergeFailed` charges nothing, whereas `graph_workers.rs:631-632` says of
  a failed node that its tokens "were still spent - charge them before failing".
* The guard is not applied to resumed rounds (`graph_workers.rs:407`) either. With
  disposal on, a worker whose worktree could not be rehydrated, or was removed after
  its round, may be verified in another tree than the one it wrote in from round 2
  on; `VerifierChecksWorkersTree` promises it for the first round then.
* The HEAD check compares commits, not histories: after a checkout away and back the
  worktree of a worker respawned in between is merged against another base than
  its own, and with no commit captured at the fan-out nothing is compared.
* A `MoveHead` may fall between `HeadUnmoved` and `ApplyMerges`: the HEAD check of
  `graph_workers.rs:690-702` narrows the window of a reverse-apply and does not
  close it.
* A worker's new files in a new directory are not in the diff (`Untracked`) unless
  it commits them; they are deleted with the worktree.
* A failed write is left out of the list of applied files and the merge is still
  a success; a file of the worktree that cannot be read is applied as a deletion.
* An uncommitted new file of the user's that cannot be read, and an uncommitted
  deletion of a file that `git show` fails on, look absent both at HEAD and in the
  main tree, and the worktree's version is written (`ReadFile`, `Blind`). A dirty
  diff that fails drops what the worker has not committed, and the merge is a
  success.
* An edit of the user's that falls between `ReadFile` and `WriteFile` is overwritten,
  and a node that fails on a conflict leaves the files it did merge in the main tree.
* Until the user commits, a later batch's edit of a file an earlier batch has
  written always conflicts: the base is HEAD.

Project file:

* A session that is reopened with an older snapshot of the same graph overwrites
  newer progress in the file, and a cleared graph comes back (`Open`), while
  `graph_project.rs:2` says that "a graph follows the REPOSITORY, not the session".
* `projected_graph_id` takes a malformed file for no graph, so a clear or a restore
  overwrites it; `load` documents that this is never done silently.

Authentication:

* A lock file is broken 60 s after its stamp even while its holder awaits the OAuth
  host (`Break` after `Age`); nothing is checked between that and the use of the
  token, so two spenders are possible. `OneSpenderUnlessBroken` is exact about it.
* The login flow waits 45 s for the lock it holds itself (`Flow`, then `FirstLock`).
* A user who cancels a turn while it refreshes the token drops the refresh
  (`Dropped`); if the host has rotated the token by then, or does so later, nobody
  stores the new one and the stored one is refused from then on.
* The host's 401 and 403 are taken to be final (`kimi_oauth.rs:303-311`), whether the
  token was spent, has expired or was revoked.
* A logout whose write fails ends before it clears the cache (`Logout`).
* After a failed write of auth.json the next refresh resolves the stored, spent
  token first.
* A logout while the lock is held leaves the entry on disk, and the next start
  loads it again (`Logout`).

Prompt queue:

* The cancel awaits between taking the task and aborting it; a starter may promote
  the next prompt there, and the unconditional unpin of the cancel leaves the new
  turn without its pin, so that an interjection becomes a turn of its own.
* Two interjections that arrive after the scope guard is dropped become fallback
  turns in reverse order.
* A rewind clears the suppression of notifications without draining them, and a
  rewound wake stays marked as delivered.
* `Reorder` puts synthetic items ahead of the user's prompts.
* A scheduled (`/loop`) prompt is synthetic and is sent by a client that awaits the
  answer; a preemption drops it unanswered, although `acp_session.rs:313-316` says
  of synthetic items that "no client RPC awaits them".

## 5. Properties and what would break them

Every property of a passing run has a mutant in `PROJECT.json`: a changed
definition, written beside the original and marked "Mutant", under which TLC
finds the property violated. They stand for likely slips: a gate that keeps its
Ready status when it grows, readiness promoted by a running dependency, a cycle
check left out, the empty session id of a refused spawn adopted, HEAD read too
late, a spend booked by both the report and the achievement; a resume that goes
on without the flock, a merge that stops at the first conflict or takes the main
tree for untouched, a lock that is not revalidated, a transient failure that
tombstones, a pause that wants an Active goal, a sweep that forgets the running slot, a completion that clears
whatever is running.

The hazards in `PROJECT.json` connect the other way: each names a line where
something hard to test can go wrong and the properties that would notice.

## 6. Proofs

Every safety property of a passing run is a theorem, for every value of the
constants (three of them under a hypothesis given below); so is the refinement. Each component has one inductive invariant (graph
mode a stack of them), whose parts are named after what they are about; TLC checked
each of them on a small instance before it was proved.

| Module | Theorem | Statement |
|---|---|---|
| GraphModeProofs | `GraphModeInductive` | `Spec => [](IndInv /\ DraftInv)` |
| | `GraphModeTypeCorrect` | `Spec => []TypeOK` |
| | `SchedulingFollowsDependencies` | `Spec => []DependencyOrder` |
| | `FailurePropagates` | `Spec => []DeadBranchStaysDead` |
| | `BaselineFirst` | `Spec => []BaselineBeforeWork` |
| GraphDriverProofs | `SettledForever` | `Spec => TerminalIsForever` |
| | `WedgeIsFailure` | `Spec => []WedgeHasCause` |
| | `LedgerInductive`, `NeverChargedTwice` | `Spec => [](OwnerInv /\ LedgerInv)`, `Spec => []NoDoubleCharge` |
| | `ActiveGraphDriven` | `Spec /\ [][~ContestedTopUp]_vars => []ActiveHasDriver` |
| | `EngineServesGraph` | `Spec /\ [][~ContestedTopUp]_vars => []EngineRunsCurrentNode` |
| | `TerminalRunsLast` | `Spec /\ [][~LateCancel]_vars => []FinalGate` |
| GraphBatchProofs | `BatchInductive`, `BatchTypeCorrect` | `Spec => []BatchInv`, `Spec => []TypeOK` |
| | `BatchVerifier`, `BatchMergeBase` | `Spec => []VerifierChecksWorkersTree`, `Spec => []MergeBaseIsFanout` |
| | `BatchImplements` | `Spec => ImplementsBatchRun` |
| GraphProjectProofs | `ProjectInductive`, `ProjectTypeCorrect` | `Spec => []ProjectInv`, `Spec => []TypeOK` |
| | `ProjectOneDriver`, `ProjectWriter` | `Spec => []OneDriver`, `Spec => []WriterIsProjected` |
| | `ProjectKeepsUnfinished` | `Spec => UnfinishedKept` |
| WorktreeApplyProofs | `ApplyInductive`, `ApplyTypeCorrect` | `Spec => []ApplyInv`, `Spec => []TypeOK` |
| | `ApplyKeepsUncommitted` | `Spec => []UncommittedWorkKept` |
| | `ApplyMergesThreeWay`, `ApplyRetryIsNoOp` | `Spec => []MergeIsThreeWay`, `Spec => []RetryIsNoOp` |
| AuthRefreshProofs | `RefreshInductive`, `RefreshTypeCorrect` | `Spec => []IInv`, `Spec => []TypeOK` |
| | `RefreshOneSpender` | `Spec => []OneSpenderUnlessBroken` |
| | `RefreshTombstoneCause`, `RefreshStoredLive` | `Spec => []TombstoneHasCause`, `Spec => []StoredTokenIsLive` |
| | `RefreshNotAcrossSleep` | `Spec => []NoRefreshAcrossSleep` |
| PromptQueueProofs | `QueueInductive`, `QueueTypeCorrect` | `Spec => []IInv`, `Spec => []TypeOK` |
| | `QueueRunningFront`, `QueuePin`, `QueueEditRuns` | `Spec => []RunningIsFront`, `[]PinIsRunning`, `[]EditRuns` |
| | `QueueKeepsPrompts` | `Spec => []PromptKept` |
| | `QueueDriven`, `QueueInterjections` | `Spec => []QueueIsDriven`, `Spec => []InterjectionsLand` |
| | `QueueRunsOnce` | `Spec => RunsOnce` |

### Assumptions

On the constants only, named where they are declared, evaluated by TLC in every
run:

* `IdsAssumption`, `ModeAssumption`: node ids are numbers in storage order, finitely
  many, `NoNode` is none of them; the parameters are numbers of the right sign.
* `BatchAssumption`, `ProjectAssumption`, `QueueAssumption`, `RefreshAssumption`,
  `LockAssumption`: bounds are numbers, and the "none" of a set is not in it.
* `ApplyAssumption`, `ConflictAssumption`: the same, and a conflict is no content.
* `InodeAssumption`: finitely many tasks and more inode numbers than open files (two
  per task with the login flow, else one). A creating open always gets a file of
  its own from the file system; without the assumption the model's
  `CHOOSE` of a free inode would mean nothing.

Three theorems about graph mode carry a hypothesis on the behaviour, that an event
does not happen which section 4 shows to break the property in the code: `ContestedTopUp`, a
`/graph resume --budget` while the engine holds a live goal, and `LateCancel`, a
cancel or a send-now while the turn waits between the terminal node's verdict and
`mark_node_achieved`. Everything else may happen, any number of times: the runs
check these properties without a top-up, and two of them without cancels; the
theorems allow all the others.

### The arguments

*Graph mode.* `GraphTrackerProofs` shows that every operator keeps `WellFormed`:
types, resolved deps, a terminal node that nothing depends on and that depends on
all others (`FinalIsLast`), `InOrder`, and `DeadBranchClosed`. `DependencyOrder`
alone is not inductive: a failed node's dependents must already be out of play
(`DeadBranchClosed`), the terminal node must be excluded because it can be
overtaken by a replan (section 4), and nothing may depend on it. A crash replaces
the graph by the snapshot, so the snapshot must be as good as the graph
(`Good(saved, ...)`). `Good` adds that the current node runs and that a graph with
nodes has its baseline. `TurnInv` says what the turn's position guarantees: no
nodes while planning, nodes while driving, a node of an unsettled batch still
runs, a batch exists only at the batch's awaits. `DraftInv` says that a list of
optimizer ops keeps the statuses of settled nodes and never makes a pending node
depend on a dead one; the final validation alone would not exclude the latter.

*The driver.* Every transition either `Follows` the graph before it (same id, nodes
and deps, settled nodes kept) or replaces it, which gives `SettledForever` once
graph ids are known to be drawn in order. `SoundInv` adds that readiness is up to date
and the deps acyclic in both copies: a least waiting node then has only achieved
deps and is ready, so a wedge without a failure is impossible.
`LedgerInv` is a balance: what is booked, plus what the goal or the batch in flight
may still book, was burnt. It needs to know whose goal the engine holds
(`OwnerInv`): a report must not be booked on another node.
`EngineInv` says when the engine is free: at every planning and driving step no
goal is live, and a paused graph has no active goal. `GateInv` says that the
terminal node is neither running nor achieved wherever the plan may still grow.

*A batch.* The verifier's tree is the worker's because the session of a past round,
once there is one, fixes the tree of the next as long as its directory is there, and
the path is that session's worktree (`RunOK`); once the directory is gone no
verifier is spawned. The merge base is the fan-out's commit because a worktree made
from another one is made while HEAD is elsewhere, and HEAD is compared after the
join: it passes only if HEAD has come back, which `returned` records. The refinement is proved action by
action: a round, a commit or a merge stutters, a settlement is the abstract one.

*The project file.* One driver rests on the flock: a session whose graph is Active
holds it, and every handler that gives it up first pauses, clears or finishes the
graph (`DriverLocks`). `CopiesInv` excludes a graph that is unfinished and has
nothing left to run.

*A merge.* The properties speak of a merge that is over; `MergeInv` says of every
file how far an undisturbed merge is with it (not reached, read but not written,
settled), against the main tree the merge began with. With faults, a file is
written only if base and main tree were read as equal; where they differ, that
takes a failed read, and that makes them equal only if both look absent.

*Token refresh.* `FlockInv` is what the kernel gives, one holder per inode. It is not
enough: a breaker unlinks the path and two tasks may hold two inodes. `SecureInv`
says that a task past `revalidate_lock_or_reacquire` has the file at the path, until
somebody breaks a lock in use, which is a mishap. `GrantInv` is the protocol of
the single-use token before any mishap: what is on the wire is what is
stored and live, and what is about to be stored is live, while a stray request
carries a token that, once rotated, is a mishap. `SleepInv`
says that the gate is up from before the acknowledgement is held until the wake.

*The queue.* Front, pin and version hold together only with ids that are in the
queue once (`IdInv`) and with "nothing but the running turn was started among the
queued" (`TurnInv`), which is also why nothing runs twice. `StrandInv` keeps a
buffered interjection out of the queue until it is flushed, so that a flush cannot
queue an id again. `AskInv` says that whatever a sweep may drop was not asked by a
client. `JobInv` is what a handler holds between two lock sections: a cancel that
has taken a turn will abort that one and not the turn a starter has promoted
meanwhile. The lemmas before it say what sweeping, inserting,
removing and reordering make of a queue; `Without` is written as the increasing
enumeration of the kept positions because the provers cannot unfold `SelectSeq`.

### Only model-checked

Liveness (`TurnsSettle`, `BatchSettles`, `Answered`), because TLAPS 1.4.5 has no rules
for fairness and `ENABLED`. The two properties of the violation runs
(`ChangesLand`, `NoSilentCompletion`) are false of the code. No module uses RECURSIVE
operators.

## 7. Plan

Done: all modules of section 2, their runs, and the safety theorems of section 6.

Next, in order:

1. GraphMode: weaken the two hypotheses further, by describing the states after a
   contested top-up or a late cancel in which the property does come back.
2. The refinement of GraphMode's batch by GraphBatch composed with WorktreeApply, so
   that `ApplyMerges` is the merge and not a choice of outcomes.
3. GoalEngine (`goal_tracker.rs`, `goal.rs`, `goal_classifier.rs`): rounds, verifier
   votes, streaks and caps, as a refinement of the goal GraphMode sees.

## 8. Not modelled

* The verifier panel, planner, replanner and optimizer prompts: a model's answer is
  a choice of the environment, and the caps and streaks around it only choose
  between outcomes GraphMode already has.
* TUI, rendering, configuration, hooks, memory, tools, packaging: I/O and
  presentation; what the models need of them is an input.
* Sampler, chat state, compaction, MCP, leader process, swarm mode, codebase graph,
  worktree cloning: independent of the state modelled here; each would be a
  project of its own.
* Within modelled parts: the keyring, API keys and the device-code login; the
  `GenericDeviceRefresher` (`auth/refresh/mod.rs:130-140`), which runs under the same
  chain with another host, and the config watcher's `hot_swap` and
  `clear_in_memory` (`agent/app.rs:889`, `902`), which only replace the cache; Overwrite
  mode of the apply; the cap on pending notifications and the shutdown of the
  queue; eventual service of the queue is stated as `QueueIsDriven`, since a turn
  may run as long as the model does.

## 9. Running

    tlc -config MCGraphParallel.cfg MCGraphMode
    tlc -config MCBatchRounds.cfg MCGraphBatch
    tlc -config MCPromptQueue.cfg MCPromptQueue
    tlc -config MCAuthRefresh.cfg MCAuthRefresh
    tlapm GraphModeProofs.tla
    tlapm PromptQueueProofs.tla

The largest proof module, GraphDriverProofs, takes tlapm several minutes from nothing;
the others take one to three.
