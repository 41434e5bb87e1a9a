---------------------------- MODULE GraphProject ----------------------------
(***************************************************************************)
(* The project graph .kigi/graph.jsonl that the sessions of one repository *)
(* share (session/graph_project.rs and its callers in                      *)
(* acp_session_impl/graph.rs, slash_exec.rs and spawn.rs).  Each session   *)
(* keeps its own tracker and its own snapshot on disk; the one that holds  *)
(* the writer flock copies its tracker to the file at every checkpoint.    *)
(*                                                                         *)
(* No handler awaits between taking the flock and its checkpoint, so each  *)
(* is one action.  A graph is its id, how many of its nodes are achieved   *)
(* and its status.                                                         *)
(***************************************************************************)
EXTENDS Integers

CONSTANTS Sessions,
          NoSession,
          Nodes,      \* nodes of a graph
          MaxGraphs,  \* bound: graphs created
          MaxFaults,  \* bound: failed writes of the file
          MaxEdits    \* bound: what the user's git does to the file

ASSUME ProjectAssumption ==
  /\ NoSession \notin Sessions
  /\ Nodes \in Nat \ {0}
  /\ MaxGraphs \in Nat /\ MaxFaults \in Nat /\ MaxEdits \in Nat

VARIABLES
  up,         \* sessions a process has loaded
  graph,      \* graph_tracker of each session; it dies with the process
  saved,      \* graph/state.json of each session
  lock,       \* the session whose process holds graph.jsonl.lock
  file,       \* what .kigi/graph.jsonl was last written with
  readable,   \* FALSE once a git merge has left it malformed
  committed,  \* the version of the file the user committed
  astray,     \* history: a failed write or git came after the last checkpoint
  made,       \* graph ids used
  faults, edits

vars == <<up, graph, saved, lock, file, readable, committed, astray, made,
          faults, edits>>

NoGraph == [id |-> 0, done |-> 0, status |-> "None"]

Paused == {"UserPaused"}

Graph ==
  {NoGraph} \cup
  [id : 1..MaxGraphs, done : 0..Nodes,
   status : {"Active", "BudgetLimited", "Complete"} \cup Paused]

Init ==
  /\ up = {}
  /\ graph = [s \in Sessions |-> NoGraph]
  /\ saved = [s \in Sessions |-> NoGraph]
  /\ lock = NoSession
  /\ file = NoGraph /\ readable = TRUE /\ committed = NoGraph
  /\ astray = FALSE
  /\ made = 0 /\ faults = 0 /\ edits = 0

-----------------------------------------------------------------------------
(* Shared pieces.                                                          *)

Fault == faults < MaxFaults /\ faults' = faults + 1

\* `try_acquire_writer` succeeds, or the session has the flock already.
CanLock(s) == lock \in {s, NoSession}

Release(s) == lock' = IF lock = s THEN NoSession ELSE lock

\* Mutant: the identity check is left out.
NeverForeign(g) == FALSE

\* `projected_graph_id` differs from the session's graph.  No file and a file
\* that does not parse are nobody's.
Foreign(g) == readable /\ file # NoGraph /\ file.id # g.id

\* Whether a session with graph g that asks for the flock becomes the writer.
\* An I/O error on the flock is handled the way a busy one is.
Claims(s, g) ==
  {CanLock(s) /\ ~Foreign(g)} \cup (IF lock = s THEN {} ELSE {FALSE})

\* `GraphTracker::from_snapshot`.
FromSnapshot(g) ==
  IF g.status = "Active" THEN [g EXCEPT !.status = "UserPaused"] ELSE g

\* `persist_graph_state`: the file is rewritten or removed by the session that
\* has the flock, and the snapshot goes to the persistence actor, which may
\* not have written it when the process dies.
PersistGraphState(s, g, writer) ==
  /\ graph' = [graph EXCEPT ![s] = g]
  /\ saved' \in {saved, [saved EXCEPT ![s] = g]}
  /\ \/ /\ writer
        /\ file' = g /\ readable' = TRUE /\ astray' = FALSE
        /\ UNCHANGED faults
     \/ /\ writer /\ Fault
        /\ astray' = TRUE
        /\ UNCHANGED <<file, readable>>
     \/ ~writer /\ UNCHANGED <<file, readable, astray, faults>>
  /\ UNCHANGED <<committed, edits>>

-----------------------------------------------------------------------------
(* A session is loaded and unloaded.                                       *)

\* spawn.rs restores the snapshot, claims the file back and checkpoints the
\* demoted graph.
Open(s) ==
  LET g == FromSnapshot(saved[s]) IN
  /\ s \notin up
  /\ up' = up \cup {s}
  /\ IF g = NoGraph
       THEN UNCHANGED <<graph, saved, lock, file, readable, committed,
                        astray, faults, edits>>
       ELSE \E claimed \in Claims(s, g) :
              /\ PersistGraphState(s, g, claimed)
              /\ lock' = IF claimed THEN s ELSE lock
  /\ UNCHANGED made

\* The process exits or dies, and the kernel drops its flock.
Exit(s) ==
  /\ s \in up
  /\ up' = up \ {s}
  /\ graph' = [graph EXCEPT ![s] = NoGraph]
  /\ Release(s)
  /\ UNCHANGED <<saved, file, readable, committed, astray, made, faults, edits>>

-----------------------------------------------------------------------------
(* The user's commands.                                                    *)

MayReplace(g) == g = NoGraph \/ g.status = "Complete"

\* /graph <objective>: an unfinished graph is never replaced, neither the
\* session's nor the one in the file.
GraphSet(s) ==
  /\ s \in up /\ MayReplace(graph[s])
  /\ CanLock(s)
  /\ readable /\ MayReplace(file)
  /\ made < MaxGraphs
  /\ made' = made + 1
  /\ lock' = s
  /\ PersistGraphState(s, [id |-> made', done |-> 0, status |-> "Active"], TRUE)
  /\ UNCHANGED up

\* The file is unreadable or holds an unfinished graph.
GraphSetRefused(s) ==
  /\ s \in up /\ MayReplace(graph[s])
  /\ lock = s
  /\ ~readable \/ ~MayReplace(file)
  /\ Release(s)
  /\ UNCHANGED <<up, graph, saved, file, readable, committed, astray, made,
                 faults, edits>>

\* /graph resume in a session without a graph: the one in the file is taken
\* over as from a snapshot and checkpointed; then a paused one is resumed,
\* unless the command had a --budget.
Revive(s) ==
  /\ s \in up /\ graph[s] = NoGraph
  /\ CanLock(s)
  /\ readable /\ file # NoGraph
  /\ lock' = s
  /\ \/ PersistGraphState(s, FromSnapshot(file), TRUE)
     \/ /\ FromSnapshot(file).status \in Paused
        /\ PersistGraphState(s, [file EXCEPT !.status = "Active"], TRUE)
  /\ UNCHANGED <<up, made>>

\* Mutant: a busy flock only costs the projection.
ResumeWithoutLock(s) ==
  /\ s \in up /\ graph[s].status \in Paused \cup {"BudgetLimited"}
  /\ ~Foreign(graph[s])
  /\ lock' = IF CanLock(s) THEN s ELSE lock
  /\ PersistGraphState(s, [graph[s] EXCEPT !.status = "Active"], CanLock(s))
  /\ UNCHANGED <<up, made>>

\* /graph resume of the session's own graph, after `claim_project_graph_for_
\* resume`; a budget-limited one needs --budget.
Resume(s) ==
  /\ s \in up /\ graph[s].status \in Paused \cup {"BudgetLimited"}
  /\ CanLock(s) /\ ~Foreign(graph[s])
  /\ lock' = s
  /\ PersistGraphState(s, [graph[s] EXCEPT !.status = "Active"], TRUE)
  /\ UNCHANGED <<up, made>>

\* The file belongs to a different graph; the flock is let go.
ResumeRefused(s) ==
  /\ s \in up /\ graph[s].status \in Paused \cup {"BudgetLimited"}
  /\ lock = s /\ Foreign(graph[s])
  /\ Release(s)
  /\ UNCHANGED <<up, graph, saved, file, readable, committed, astray, made,
                 faults, edits>>

\* Mutant: the flock outlives the graph.
GraphClearKeepsLock(s) ==
  /\ s \in up /\ graph[s] # NoGraph
  /\ \E claimed \in Claims(s, graph[s]) : PersistGraphState(s, NoGraph, claimed)
  /\ UNCHANGED <<up, lock, made>>

\* /graph clear: the file goes only if the flock can be had and the file is
\* not a different graph; the flock is dropped after the checkpoint.
GraphClear(s) ==
  /\ s \in up /\ graph[s] # NoGraph
  /\ \E claimed \in Claims(s, graph[s]) : PersistGraphState(s, NoGraph, claimed)
  /\ Release(s)
  /\ UNCHANGED <<up, made>>

-----------------------------------------------------------------------------
(* The graph runs (see GraphMode), checkpointing every transition.         *)

\* Mutant: the last node does not complete the graph.
AdvanceForever(s) ==
  /\ graph[s].status = "Active"
  /\ PersistGraphState(s, [graph[s] EXCEPT !.done = @ + 1], lock = s)
  /\ UNCHANGED <<up, lock, made>>

Advance(s) ==
  LET n == graph[s].done + 1 IN
  /\ graph[s].status = "Active"
  /\ PersistGraphState(s, [graph[s] EXCEPT
       !.done = n, !.status = IF n = Nodes THEN "Complete" ELSE "Active"], lock = s)
  /\ UNCHANGED <<up, lock, made>>

\* A pause, a cancel, a failure or the budget.
Stop(s) ==
  /\ graph[s].status = "Active"
  /\ \E st \in Paused \cup {"BudgetLimited"} :
       PersistGraphState(s, [graph[s] EXCEPT !.status = st], lock = s)
  /\ UNCHANGED <<up, lock, made>>

-----------------------------------------------------------------------------
(* The user's git: the file is committed, checked out and merged like any  *)
(* other.                                                                  *)

Edit == edits < MaxEdits /\ edits' = edits + 1

GitCommit ==
  /\ readable /\ committed' = file
  /\ UNCHANGED <<up, graph, saved, lock, file, readable, astray, made, faults, edits>>

GitCheckout ==
  /\ Edit
  /\ file' = committed /\ readable' = TRUE /\ astray' = TRUE
  /\ UNCHANGED <<up, graph, saved, lock, committed, made, faults>>

GitMerge ==
  /\ Edit
  /\ file # NoGraph
  /\ readable' = FALSE /\ astray' = TRUE
  /\ UNCHANGED <<up, graph, saved, lock, file, committed, made, faults>>

-----------------------------------------------------------------------------
Git == GitCommit \/ GitCheckout \/ GitMerge

SessionStep(s) ==
  \/ Open(s) \/ Exit(s)
  \/ GraphSet(s) \/ GraphSetRefused(s)
  \/ Revive(s) \/ Resume(s) \/ ResumeRefused(s)
  \/ GraphClear(s)
  \/ Advance(s) \/ Stop(s)

Next == Git \/ \E s \in Sessions : SessionStep(s)

Spec == Init /\ [][Next]_vars

-----------------------------------------------------------------------------
(* Properties.                                                             *)

\* Every variable has its type, and only loaded sessions have a graph or the
\* flock.
TypeOK ==
  /\ up \subseteq Sessions
  /\ graph \in [Sessions -> Graph] /\ saved \in [Sessions -> Graph]
  /\ lock \in up \cup {NoSession}
  /\ file \in Graph /\ committed \in Graph
  /\ readable \in BOOLEAN /\ astray \in BOOLEAN
  /\ made \in 0..MaxGraphs /\ faults \in 0..MaxFaults /\ edits \in 0..MaxEdits
  /\ \A s \in Sessions \ up : graph[s] = NoGraph

\* Two sessions never drive graphs of one repository at the same time,
\* through every mix of restores, take-overs, clears and exits ("the single
\* writer" of graph_project.rs).
OneDriver ==
  \A s, t \in Sessions :
    graph[s].status = "Active" /\ graph[t].status = "Active" => s = t

\* The session that holds the flock has a graph, and the file is that graph
\* unless a write failed or git came after it: the flock is never left behind
\* by a refusal or a clear, which would lock every session out of the project
\* graph, and no handler checkpoints before it is the writer.
WriterIsProjected ==
  \A s \in Sessions : lock = s =>
    /\ graph[s] # NoGraph
    /\ ~astray => file = graph[s]

\* An unfinished graph that can be read from the file is replaced or removed
\* only while a loaded session has this very graph: one that is left in the
\* file alone, for a later session to revive, is never lost to a set, a resume
\* or a clear of another graph.  (A file that git swaps under a running writer
\* is overwritten by its next checkpoint.)
UnfinishedKept ==
  [][ (/\ readable /\ ~MayReplace(file)
       /\ lock = NoSession \/ ~astray
       /\ file'.id # file.id
       /\ edits' = edits)
      => \E s \in up : graph[s].id = file.id ]_vars
=============================================================================
