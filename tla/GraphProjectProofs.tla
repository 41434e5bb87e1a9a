------------------------- MODULE GraphProjectProofs -------------------------
(***************************************************************************)
(* Safety of the shared project graph for any number of sessions, graphs,  *)
(* nodes, failed writes and git operations.                                *)
(*                                                                         *)
(* One driver is not inductive by itself: it rests on the flock.  A        *)
(* session whose graph is Active holds it, every handler that takes it     *)
(* away from a session first pauses, clears or finishes its graph, and the *)
(* holder is a loaded session whose graph is the one in the file.          *)
(***************************************************************************)
EXTENDS GraphProject, TLAPS

\* A graph that is not finished has a node left to run.
Unfinished(g) == g # NoGraph /\ g.status # "Complete" => g.done < Nodes

\* Every copy of a graph leaves its driver something to do.
CopiesInv ==
  /\ \A s \in Sessions : Unfinished(graph[s]) /\ Unfinished(saved[s])
  /\ Unfinished(file) /\ Unfinished(committed)

\* A session drives its graph only under the flock.
DriverLocks == \A s \in Sessions : graph[s].status = "Active" => lock = s

ProjectInv == TypeOK /\ CopiesInv /\ DriverLocks /\ WriterIsProjected

\* What a handler leaves behind when session s, with the flock or without,
\* checkpoints graph g.
Checkpointable(g) == g \in Graph /\ Unfinished(g)

-----------------------------------------------------------------------------
(* Graphs.                                                                 *)

LEMMA NoGraphFacts ==
  /\ Checkpointable(NoGraph)
  /\ NoGraph.id = 0 /\ NoGraph.status = "None"
  BY DEF NoGraph, Graph, Unfinished, Checkpointable

\* The fields of a graph.
LEMMA GraphFields ==
  ASSUME NEW g \in Graph, g # NoGraph
  PROVE  /\ g \in [id : 1..MaxGraphs, done : 0..Nodes,
                   status : {"Active", "BudgetLimited", "Complete"} \cup Paused]
         /\ g.id \in 1..MaxGraphs /\ g.done \in 0..Nodes
         /\ g.status \in {"Active", "BudgetLimited", "Complete", "UserPaused"}
  BY DEF Graph, Paused

\* A graph in a new status is a graph of the same id, and it is not finished
\* unless the new status says so.
LEMMA RestatusFacts ==
  ASSUME NEW g, Checkpointable(g), g # NoGraph, g.status # "Complete",
         NEW st \in {"Active", "BudgetLimited", "UserPaused"}
  PROVE  LET h == [g EXCEPT !.status = st] IN
         /\ Checkpointable(h) /\ h # NoGraph
         /\ h.id = g.id /\ h.status = st
<1>1. g \in [id : 1..MaxGraphs, done : 0..Nodes,
             status : {"Active", "BudgetLimited", "Complete"} \cup Paused]
  BY GraphFields DEF Checkpointable
<1> QED
  BY <1>1 DEF Checkpointable, Graph, Unfinished, NoGraph, Paused

\* from_snapshot keeps the graph and never leaves it Active.
LEMMA FromSnapshotFacts ==
  ASSUME NEW g, Checkpointable(g)
  PROVE  /\ Checkpointable(FromSnapshot(g))
         /\ FromSnapshot(g).id = g.id
         /\ FromSnapshot(g).status # "Active"
         /\ FromSnapshot(g) = NoGraph <=> g = NoGraph
         /\ FromSnapshot(g).status \in Paused =>
              /\ g.status \in {"Active", "UserPaused"}
              /\ g # NoGraph
<1>1. CASE g.status = "Active"
  BY <1>1, RestatusFacts, NoGraphFacts DEF FromSnapshot
<1>2. CASE g.status # "Active"
  BY <1>2, NoGraphFacts DEF FromSnapshot, Paused
<1> QED
  BY <1>1, <1>2

-----------------------------------------------------------------------------
(* What the handlers have in common: a checkpoint, and what it may do with *)
(* the flock.                                                              *)

\* A checkpoint of g by s keeps the invariant when s writes the file only if
\* no other session has the flock, has it afterwards only as the writer of
\* a graph, and goes on driving only with it.
LEMMA CheckpointKeeps ==
  ASSUME ProjectInv,
         NEW s \in Sessions, NEW g, NEW writer \in BOOLEAN, Checkpointable(g),
         PersistGraphState(s, g, writer),
         made' \in 0..MaxGraphs,
         up' \in {up, up \cup {s}}, s \in up',
         lock' \in {lock, s, NoSession},
         lock' # lock => lock \in {s, NoSession},
         writer => lock \in {s, NoSession},
         lock' = s => writer /\ g # NoGraph,
         g.status = "Active" => lock' = s
  PROVE  ProjectInv'
<1> USE ProjectAssumption
<1>0. TypeOK /\ CopiesInv /\ DriverLocks /\ WriterIsProjected
  BY DEF ProjectInv
<1>1. /\ graph' = [graph EXCEPT ![s] = g]
      /\ saved' \in {saved, [saved EXCEPT ![s] = g]}
      /\ UNCHANGED <<committed, edits>>
      /\ \/ writer /\ file' = g /\ readable' = TRUE /\ astray' = FALSE
            /\ UNCHANGED faults
         \/ writer /\ faults < MaxFaults /\ faults' = faults + 1
            /\ astray' = TRUE /\ UNCHANGED <<file, readable>>
         \/ ~writer /\ UNCHANGED <<file, readable, astray, faults>>
  BY DEF PersistGraphState, Fault
<1>2. /\ graph'[s] = g
      /\ \A t \in Sessions \ {s} : graph'[t] = graph[t]
      /\ \A t \in Sessions : saved'[t] \in {saved[t], g}
  BY <1>0, <1>1 DEF TypeOK
<1>3. TypeOK'
  <2>1. g \in Graph
    BY DEF Checkpointable
  <2>2. /\ up' \subseteq Sessions
        /\ lock' \in up' \cup {NoSession}
    BY <1>0 DEF TypeOK
  <2>3. /\ graph' \in [Sessions -> Graph] /\ saved' \in [Sessions -> Graph]
        /\ file' \in Graph /\ committed' \in Graph
    BY <1>0, <1>1, <2>1 DEF TypeOK
  <2>4. faults' \in 0..MaxFaults /\ edits' \in 0..MaxEdits
    <3>1. faults \in 0..MaxFaults /\ edits \in 0..MaxEdits
      BY <1>0 DEF TypeOK
    <3>2. /\ faults' = faults \/ (faults < MaxFaults /\ faults' = faults + 1)
          /\ edits' = edits
      BY <1>1
    <3> QED
      BY <3>1, <3>2
  <2>6. readable' \in BOOLEAN /\ astray' \in BOOLEAN
    BY <1>0, <1>1, Zenon DEF TypeOK
  <2>5. \A t \in Sessions \ up' : graph'[t] = NoGraph
    BY <1>0, <1>2 DEF TypeOK
  <2> QED
    BY <2>2, <2>3, <2>4, <2>5, <2>6 DEF TypeOK
<1>4. CopiesInv'
  <2>1. Unfinished(g)
    BY DEF Checkpointable
  <2>2. \A t \in Sessions : Unfinished(graph'[t]) /\ Unfinished(saved'[t])
    BY <1>0, <1>2, <2>1 DEF CopiesInv
  <2>3. Unfinished(file') /\ Unfinished(committed')
    BY <1>0, <1>1, <2>1 DEF CopiesInv
  <2> QED
    BY <2>2, <2>3 DEF CopiesInv, Unfinished
<1>5. DriverLocks'
  BY <1>0, <1>2 DEF DriverLocks
<1>6. WriterIsProjected'
  <2> SUFFICES ASSUME NEW t \in Sessions, lock' = t
               PROVE  graph'[t] # NoGraph /\ (~astray' => file' = graph'[t])
    BY DEF WriterIsProjected
  <2>1. CASE t = s
    BY <2>1, <1>1, <1>2
  <2>2. CASE t # s
    BY <2>2, <1>0, <1>1, <1>2 DEF WriterIsProjected
  <2> QED
    BY <2>1, <2>2
<1> QED
  BY <1>3, <1>4, <1>5, <1>6 DEF ProjectInv

-----------------------------------------------------------------------------
(* One lemma per handler.                                                  *)

\* What ProjectInv says about one session's graph, its snapshot and the file.
LEMMA InvFacts ==
  ASSUME ProjectInv, NEW s \in Sessions
  PROVE  /\ Checkpointable(graph[s]) /\ Checkpointable(saved[s])
         /\ Checkpointable(file) /\ Checkpointable(committed)
         /\ up \subseteq Sessions /\ lock \in up \cup {NoSession}
         /\ made \in 0..MaxGraphs
         /\ graph[s].status = "Active" => lock = s /\ s \in up
         /\ graph[s] # NoGraph => s \in up
         /\ s \in up => s # NoSession
  BY ProjectAssumption
     DEF ProjectInv, TypeOK, CopiesInv, DriverLocks, Checkpointable

\* spawn.rs: a restored graph is not Active, and it takes only a free flock.
LEMMA OpenKeeps ==
  ASSUME ProjectInv, NEW s \in Sessions, Open(s)
  PROVE  ProjectInv'
<1> DEFINE g == FromSnapshot(saved[s])
<1>0. /\ s \notin up /\ up' = up \cup {s} /\ made' = made
  BY DEF Open
<1>1. /\ Checkpointable(g) /\ g.status # "Active"
  BY InvFacts, FromSnapshotFacts
<1>2. CASE g = NoGraph
  <2>1. UNCHANGED <<graph, saved, lock, file, readable, committed, astray,
                    faults, edits>>
    BY <1>2 DEF Open
  <2> QED
    BY <2>1, <1>0 DEF ProjectInv, TypeOK, CopiesInv, DriverLocks, WriterIsProjected
<1>3. CASE g # NoGraph
  <2>1. PICK claimed \in Claims(s, g) :
          /\ PersistGraphState(s, g, claimed)
          /\ lock' = IF claimed THEN s ELSE lock
    BY <1>3 DEF Open
  <2>2. claimed \in BOOLEAN
    BY <2>1 DEF Claims
  <2>3. claimed => lock \in {s, NoSession}
    BY <2>1 DEF Claims, CanLock
  <2>4. lock # s
    BY <1>0, InvFacts, ProjectAssumption
  <2> HIDE DEF g
  <2> QED
    BY <1>0, <1>1, <1>3, <2>1, <2>2, <2>3, <2>4, InvFacts, CheckpointKeeps
<1> QED
  BY <1>2, <1>3

\* A process that goes away takes its graph and its flock with it.
LEMMA ExitKeeps ==
  ASSUME ProjectInv, NEW s \in Sessions, Exit(s)
  PROVE  ProjectInv'
<1> USE ProjectAssumption
<1>0. TypeOK /\ CopiesInv /\ DriverLocks /\ WriterIsProjected
  BY DEF ProjectInv
<1>1. /\ up' = up \ {s}
      /\ graph' = [graph EXCEPT ![s] = NoGraph]
      /\ lock' = IF lock = s THEN NoSession ELSE lock
      /\ UNCHANGED <<saved, file, readable, committed, astray, made, faults, edits>>
  BY DEF Exit, Release
<1>2. /\ graph'[s] = NoGraph
      /\ \A t \in Sessions \ {s} : graph'[t] = graph[t]
  BY <1>0, <1>1 DEF TypeOK
<1>3. TypeOK'
  <2>1. graph' \in [Sessions -> Graph]
    BY <1>0, <1>1, NoGraphFacts DEF TypeOK, Checkpointable
  <2> QED
    BY <1>0, <1>1, <1>2, <2>1 DEF TypeOK
<1>4. CopiesInv'
  BY <1>0, <1>1, <1>2, NoGraphFacts DEF CopiesInv, Checkpointable, Unfinished
<1>5. DriverLocks'
  BY <1>0, <1>1, <1>2, NoGraphFacts DEF DriverLocks
<1>6. WriterIsProjected'
  BY <1>0, <1>1, <1>2 DEF WriterIsProjected
<1> QED
  BY <1>3, <1>4, <1>5, <1>6 DEF ProjectInv

\* A new graph is stored by the session that has just taken the flock.
LEMMA GraphSetKeeps ==
  ASSUME ProjectInv, NEW s \in Sessions, GraphSet(s)
  PROVE  ProjectInv'
<1> USE ProjectAssumption
<1> DEFINE g == [id |-> made + 1, done |-> 0, status |-> "Active"]
<1>0. /\ s \in up /\ up' = up /\ lock \in {s, NoSession} /\ lock' = s
      /\ made < MaxGraphs /\ made' = made + 1
      /\ PersistGraphState(s, g, TRUE)
  BY DEF GraphSet, CanLock
<1>1. made \in 0..MaxGraphs /\ made' \in 0..MaxGraphs
  BY <1>0, InvFacts
<1>2. Checkpointable(g) /\ g # NoGraph /\ g.status = "Active"
  BY <1>0, <1>1 DEF Checkpointable, Graph, Unfinished, NoGraph
<1> HIDE DEF g
<1> QED
  BY <1>0, <1>1, <1>2, CheckpointKeeps

\* A refusal lets the flock go; the graph of the session is not running.
LEMMA RefusalKeeps ==
  ASSUME ProjectInv, NEW s \in Sessions, GraphSetRefused(s) \/ ResumeRefused(s)
  PROVE  ProjectInv'
<1>1. /\ lock = s /\ lock' = NoSession
      /\ graph[s].status # "Active"
      /\ UNCHANGED <<up, graph, saved, file, readable, committed, astray, made,
                     faults, edits>>
  BY NoGraphFacts DEF GraphSetRefused, ResumeRefused, MayReplace, Release, Paused
<1> QED
  BY <1>1, ProjectAssumption
     DEF ProjectInv, TypeOK, CopiesInv, DriverLocks, WriterIsProjected

\* A session without a graph takes over the one in the file.
LEMMA ReviveKeeps ==
  ASSUME ProjectInv, NEW s \in Sessions, Revive(s)
  PROVE  ProjectInv'
<1>0. /\ s \in up /\ up' = up /\ lock \in {s, NoSession} /\ lock' = s
      /\ made' = made /\ file # NoGraph
  BY DEF Revive, CanLock
<1>1. PICK g \in {FromSnapshot(file), [file EXCEPT !.status = "Active"]} :
        /\ PersistGraphState(s, g, TRUE)
        /\ g # FromSnapshot(file) => FromSnapshot(file).status \in Paused
  BY DEF Revive
<1>2. Checkpointable(file)
  BY InvFacts
<1>3. Checkpointable(g) /\ g # NoGraph
  <2>1. CASE g = FromSnapshot(file)
    BY <2>1, <1>0, <1>2, FromSnapshotFacts
  <2>2. CASE g # FromSnapshot(file)
    <3>1. file.status \in {"Active", "UserPaused"}
      BY <2>2, <1>1, <1>2, FromSnapshotFacts
    <3> QED
      BY <2>2, <3>1, <1>0, <1>1, <1>2, RestatusFacts
  <2> QED
    BY <2>1, <2>2
<1> QED
  BY <1>0, <1>1, <1>3, InvFacts, CheckpointKeeps

\* A paused or budget-limited graph runs on under the flock.
LEMMA ResumeKeeps ==
  ASSUME ProjectInv, NEW s \in Sessions, Resume(s)
  PROVE  ProjectInv'
<1> DEFINE g == [graph[s] EXCEPT !.status = "Active"]
<1>0. /\ s \in up /\ up' = up /\ lock \in {s, NoSession} /\ lock' = s
      /\ made' = made
      /\ graph[s].status \in {"UserPaused", "BudgetLimited"}
      /\ PersistGraphState(s, g, TRUE)
  BY DEF Resume, CanLock, Paused
<1>1. Checkpointable(g) /\ g # NoGraph
  BY <1>0, InvFacts, NoGraphFacts, RestatusFacts
<1> HIDE DEF g
<1> QED
  BY <1>0, <1>1, InvFacts, CheckpointKeeps

\* A clear drops the flock together with the graph.
LEMMA GraphClearKeeps ==
  ASSUME ProjectInv, NEW s \in Sessions, GraphClear(s)
  PROVE  ProjectInv'
<1>0. /\ s \in up /\ up' = up /\ made' = made
      /\ lock' = IF lock = s THEN NoSession ELSE lock
  BY DEF GraphClear, Release
<1>1. PICK claimed \in Claims(s, graph[s]) : PersistGraphState(s, NoGraph, claimed)
  BY DEF GraphClear
<1>2. claimed \in BOOLEAN /\ (claimed => lock \in {s, NoSession})
  BY <1>1 DEF Claims, CanLock
<1>3. lock' # s
  BY <1>0, InvFacts
<1> QED
  BY <1>0, <1>1, <1>2, <1>3, NoGraphFacts, InvFacts, CheckpointKeeps

\* A running graph achieves a node or stops; its session has the flock.
LEMMA RunKeeps ==
  ASSUME ProjectInv, NEW s \in Sessions, Advance(s) \/ Stop(s)
  PROVE  ProjectInv'
<1> USE ProjectAssumption
<1> DEFINE n == graph[s].done + 1
           a == [graph[s] EXCEPT
                  !.done = n, !.status = IF n = Nodes THEN "Complete" ELSE "Active"]
<1>0. /\ graph[s].status = "Active" /\ up' = up /\ lock' = lock /\ made' = made
  BY DEF Advance, Stop
<1>1. /\ lock = s /\ s \in up /\ Checkpointable(graph[s]) /\ graph[s] # NoGraph
      /\ made \in 0..MaxGraphs
  BY <1>0, InvFacts, NoGraphFacts
<1>2. PICK g \in {a, [graph[s] EXCEPT !.status = "UserPaused"],
                     [graph[s] EXCEPT !.status = "BudgetLimited"]} :
        PersistGraphState(s, g, TRUE)
  BY <1>1 DEF Advance, Stop, Paused
<1>3. Checkpointable(a) /\ a # NoGraph
  <2>1. /\ graph[s] \in [id : 1..MaxGraphs, done : 0..Nodes,
                   status : {"Active", "BudgetLimited", "Complete"} \cup Paused]
        /\ graph[s].done \in 0..Nodes
    BY <1>1, GraphFields DEF Checkpointable
  <2>2. graph[s].done < Nodes
    BY <1>0, <1>1 DEF Checkpointable, Unfinished
  <2>3. n \in 0..Nodes /\ (n # Nodes => n < Nodes)
    BY <2>1, <2>2
  <2>4. /\ a \in [id : 1..MaxGraphs, done : 0..Nodes,
                   status : {"Active", "BudgetLimited", "Complete"} \cup Paused]
        /\ a.done = n /\ (a.status = "Complete" <=> n = Nodes) /\ a.status # "None"
    BY <2>1, <2>3
  <2> HIDE DEF a
  <2> QED
    BY <2>3, <2>4, NoGraphFacts DEF Checkpointable, Unfinished, Graph
<1> HIDE DEF a
<1>4. Checkpointable(g) /\ g # NoGraph
  BY <1>0, <1>1, <1>2, <1>3, RestatusFacts
<1> QED
  BY <1>0, <1>1, <1>2, <1>4, CheckpointKeeps

\* Git changes the file under the writer, which the history variable notes.
LEMMA GitKeeps ==
  ASSUME ProjectInv, Git
  PROVE  ProjectInv'
<1> USE ProjectAssumption
<1>0. TypeOK /\ CopiesInv /\ DriverLocks /\ WriterIsProjected
  BY DEF ProjectInv
<1>1. /\ UNCHANGED <<up, graph, saved, lock, made, faults>>
      /\ file' \in {file, committed} /\ committed' \in {file, committed}
      /\ edits' = edits \/ (edits < MaxEdits /\ edits' = edits + 1)
      /\ (file' = file /\ astray' = astray) \/ astray' = TRUE
      /\ readable' \in {readable, TRUE, FALSE}
  BY DEF Git, GitCommit, GitCheckout, GitMerge, Edit
<1>2. TypeOK'
  <2>1. readable' \in BOOLEAN /\ astray' \in BOOLEAN
    BY <1>0, <1>1, Zenon DEF TypeOK
  <2>2. edits' \in 0..MaxEdits
    BY <1>0, <1>1 DEF TypeOK
  <2> QED
    BY <1>0, <1>1, <2>1, <2>2 DEF TypeOK
<1>3. CopiesInv' /\ DriverLocks'
  BY <1>0, <1>1 DEF CopiesInv, DriverLocks, Unfinished
<1>4. WriterIsProjected'
  BY <1>0, <1>1 DEF WriterIsProjected
<1> QED
  BY <1>2, <1>3, <1>4 DEF ProjectInv

-----------------------------------------------------------------------------
(* The theorems.                                                           *)

LEMMA InitProject == Init => ProjectInv
<1> SUFFICES ASSUME Init PROVE ProjectInv
  OBVIOUS
<1>1. /\ \A s \in Sessions : graph[s] = NoGraph /\ saved[s] = NoGraph
      /\ file = NoGraph /\ committed = NoGraph /\ lock = NoSession
  BY DEF Init
<1>2. TypeOK
  <2>1. readable \in BOOLEAN /\ astray \in BOOLEAN
    BY Zenon DEF Init
  <2>2. /\ up \subseteq Sessions /\ lock \in up \cup {NoSession}
        /\ graph \in [Sessions -> Graph] /\ saved \in [Sessions -> Graph]
        /\ file \in Graph /\ committed \in Graph
        /\ \A s \in Sessions \ up : graph[s] = NoGraph
    BY <1>1, NoGraphFacts DEF Init, Checkpointable
  <2>3. made \in 0..MaxGraphs /\ faults \in 0..MaxFaults /\ edits \in 0..MaxEdits
    BY ProjectAssumption DEF Init
  <2> QED
    BY <2>1, <2>2, <2>3 DEF TypeOK
<1>3. CopiesInv /\ DriverLocks /\ WriterIsProjected
  BY <1>1, NoGraphFacts, ProjectAssumption
     DEF CopiesInv, DriverLocks, WriterIsProjected, Checkpointable
<1> QED
  BY <1>2, <1>3 DEF ProjectInv

LEMMA NextProject == ProjectInv /\ [Next]_vars => ProjectInv'
<1>1. ProjectInv /\ UNCHANGED vars => ProjectInv'
  BY DEF vars, ProjectInv, TypeOK, CopiesInv, DriverLocks, WriterIsProjected
<1>2. ASSUME ProjectInv, NEW s \in Sessions, SessionStep(s) PROVE ProjectInv'
  BY <1>2, OpenKeeps, ExitKeeps, GraphSetKeeps, RefusalKeeps, ReviveKeeps,
     ResumeKeeps, GraphClearKeeps, RunKeeps DEF SessionStep
<1> QED
  BY <1>1, <1>2, GitKeeps DEF Next

\* The inductive invariant holds in every reachable state.
THEOREM ProjectInductive == Spec => []ProjectInv
  BY InitProject, NextProject, PTL DEF Spec

\* Every copy of the project graph is a graph, and only loaded sessions have
\* one or the flock.
THEOREM ProjectTypeCorrect == Spec => []TypeOK
<1>1. ProjectInv => TypeOK
  BY DEF ProjectInv
<1> QED
  BY <1>1, ProjectInductive, PTL

\* However many sessions share a repository, and however they are restored,
\* taken over, cleared and killed, at most one of them drives a graph.
THEOREM ProjectOneDriver == Spec => []OneDriver
<1>1. ProjectInv => OneDriver
  BY DEF ProjectInv, DriverLocks, OneDriver
<1> QED
  BY <1>1, ProjectInductive, PTL

\* The flock is never left with a session that has nothing to write, and its
\* holder's graph is the one in the file.
THEOREM ProjectWriter == Spec => []WriterIsProjected
<1>1. ProjectInv => WriterIsProjected
  BY DEF ProjectInv
<1> QED
  BY <1>1, ProjectInductive, PTL

\* A handler overwrites an unfinished graph in the file only with the same
\* graph or from the session that has it.
LEMMA StepKeepsUnfinished ==
  ASSUME ProjectInv, NEW s \in Sessions, SessionStep(s),
         readable, ~MayReplace(file), lock = NoSession \/ ~astray,
         file'.id # file.id
  PROVE  \E t \in up : graph[t].id = file.id
<1> USE ProjectAssumption
<1>0. file # NoGraph /\ Checkpointable(file)
  BY InvFacts DEF MayReplace
<1>1. CASE Open(s)
  <2> DEFINE g == FromSnapshot(saved[s])
  <2>1. g # NoGraph
    BY <1>1 DEF Open
  <2>2. PICK claimed \in Claims(s, g) : PersistGraphState(s, g, claimed)
    BY <1>1, <2>1 DEF Open
  <2> HIDE DEF g
  <2>3. file' = g /\ claimed
    BY <2>2 DEF PersistGraphState
  <2>4. file.id = g.id
    BY <2>2, <2>3, <1>0 DEF Claims, Foreign
  <2> QED
    BY <2>3, <2>4
<1>2. CASE GraphSet(s)
  BY <1>2 DEF GraphSet
<1>3. CASE Revive(s)
  <2>1. PICK g \in {FromSnapshot(file), [file EXCEPT !.status = "Active"]} :
          PersistGraphState(s, g, TRUE)
    BY <1>3 DEF Revive
  <2>2. g.id = file.id
    <3>1. file \in [id : 1..MaxGraphs, done : 0..Nodes,
                    status : {"Active", "BudgetLimited", "Complete"} \cup Paused]
      BY <1>0, GraphFields DEF Checkpointable
    <3> QED
      BY <3>1, <2>1, <1>0, FromSnapshotFacts
  <2>3. file' \in {g, file}
    BY <2>1 DEF PersistGraphState
  <2> QED
    BY <2>2, <2>3
<1>4. CASE Resume(s)
  <2>1. s \in up /\ graph[s].id = file.id
    BY <1>0, <1>4 DEF Resume, Foreign
  <2> QED
    BY <2>1
<1>5. CASE GraphClear(s)
  <2>1. s \in up
    BY <1>5 DEF GraphClear
  <2>2. PICK claimed \in Claims(s, graph[s]) : PersistGraphState(s, NoGraph, claimed)
    BY <1>5 DEF GraphClear
  <2>3. claimed
    BY <2>2 DEF PersistGraphState
  <2>4. graph[s].id = file.id
    BY <2>2, <2>3, <1>0 DEF Claims, Foreign
  <2> QED
    BY <2>1, <2>4
<1>6. CASE Advance(s) \/ Stop(s)
  <2>1. lock = s /\ s \in up
    BY <1>6, InvFacts DEF Advance, Stop
  <2>2. file = graph[s]
    BY <2>1 DEF ProjectInv, WriterIsProjected
  <2> QED
    BY <2>1, <2>2
<1>7. CASE Exit(s) \/ GraphSetRefused(s) \/ ResumeRefused(s)
  BY <1>7 DEF Exit, GraphSetRefused, ResumeRefused
<1> QED
  BY <1>1, <1>2, <1>3, <1>4, <1>5, <1>6, <1>7 DEF SessionStep

\* No set, resume, clear, restore or checkpoint of any session destroys an
\* unfinished graph that another session could still revive.
THEOREM ProjectKeepsUnfinished == Spec => UnfinishedKept
<1> DEFINE Kept ==
      (/\ readable /\ ~MayReplace(file)
       /\ lock = NoSession \/ ~astray
       /\ file'.id # file.id
       /\ edits' = edits)
      => \E s \in up : graph[s].id = file.id
<1>1. ProjectInv /\ [Next]_vars => [Kept]_vars
  <2> SUFFICES ASSUME ProjectInv, Next, readable, ~MayReplace(file),
                      lock = NoSession \/ ~astray, file'.id # file.id,
                      edits' = edits
               PROVE  \E s \in up : graph[s].id = file.id
    BY DEF vars
  <2>1. ASSUME Git PROVE FALSE
    <3>1. edits \in 0..MaxEdits
      BY DEF ProjectInv, TypeOK
    <3>2. file' = file \/ edits' = edits + 1
      BY <2>1 DEF Git, GitCommit, GitCheckout, GitMerge, Edit
    <3> QED
      BY <3>1, <3>2, ProjectAssumption
  <2>2. PICK s \in Sessions : SessionStep(s)
    BY <2>1 DEF Next
  <2> QED
    BY <2>2, StepKeepsUnfinished
<1> QED
  BY <1>1, ProjectInductive, PTL DEF Spec, UnfinishedKept
=============================================================================
