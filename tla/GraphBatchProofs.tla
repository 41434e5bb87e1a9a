-------------------------- MODULE GraphBatchProofs --------------------------
(***************************************************************************)
(* The parallel batch for every plan, concurrency and rounds cap, with     *)
(* HEAD moving anywhere and worktrees disappearing: what a node's rounds   *)
(* keep true of its session, its worktree and the commit it was made from, *)
(* and that the batch implements the one graph mode drives.                *)
(***************************************************************************)
EXTENDS GraphBatch, GraphTrackerProofs

\* A worktree that is named was made, from some commit.
MadeOK(r) ==
  r.child = "worktree" \/ r.tree = "worktree" \/ r.path = "worktree" =>
    r.base # NoHead /\ r.dir # "none"

\* Between rounds: a path comes from a session; without disposal (d) a path
\* whose directory is still there is that of the session to resume.
SessionOK(r, d) ==
  /\ r.child = "none" => r.path = "none"
  /\ ~d => /\ r.dir \in {"none", "there", "gone"}
           /\ r.path = "worktree" /\ r.dir = "there" => r.child = "worktree"

\* A worker in the shared tree leaves no path behind that still exists.
WorkingOK(r, d) ==
  /\ r.tree # "none"
  /\ ~d /\ r.tree = "shared" => r.path = "none" \/ r.dir = "gone"

\* Nor does its verifier look anywhere else.
VerifyingOK(r, d) ==
  /\ r.tree = r.child
  /\ ~d \/ r.round = 1 => (r.path = "worktree" <=> r.tree = "worktree")

RunOK(r, d) ==
  /\ r \in NodeRun /\ r.round \in 1..Rounds
  /\ MadeOK(r)
  /\ r.phase # "reported" => SessionOK(r, d)
  /\ r.phase \in {"spawn", "working"} /\ r.round = 1 => r.child = "none"
  /\ r.phase = "working" => WorkingOK(r, d)
  /\ r.phase = "verifying" => VerifyingOK(r, d)

TypeInv ==
  /\ graph \in GraphState /\ sent \in GraphState
  /\ pc \in {"fanout", "run", "settle", "merge", "apply", "drive", "resumed"}
  /\ batch \in SUBSET Ids
  /\ node \in [Ids -> NodeRun]
  /\ returned \in BOOLEAN /\ disposes \in BOOLEAN

\* While HEAD has not left the captured commit every worktree is made from it.
HeadInv ==
  /\ head \in 0..MaxCommits /\ fanHead \in -1..MaxCommits
  /\ fanHead # NoHead /\ head = fanHead /\ ~returned =>
       \A n \in Ids : node[n].base \in {NoHead, fanHead}

RunsInv ==
  /\ pc = "fanout" => fanHead = NoHead /\ \A n \in Ids : node[n] = FreshRun
  /\ \A n \in Ids : RunOK(node[n], disposes)

\* The strengthening: TypeOK and the two invariants follow from it.
BatchInv == TypeInv /\ HeadInv /\ RunsInv /\ MergeBaseIsFanout

-----------------------------------------------------------------------------
(* The tracker's transitions keep the type of the graph.                   *)

\* What settling, charging, queueing and resuming return is a graph.
LEMMA GraphOpsType ==
  ASSUME NEW g \in GraphState, NEW n \in Ids
  PROVE  /\ QueueDiscoveries(g) \in GraphState
         /\ ChargeNodeTokens(g, 0) \in GraphState
         /\ MarkNodeFailed(g, n) \in GraphState
         /\ MarkNodeAchieved(g, n, 0) \in GraphState
<1>1. QueueDiscoveries(g) \in GraphState
  BY DEF QueueDiscoveries, GraphState
<1>2. ChargeNodeTokens(g, 0) \in GraphState
  BY DEF ChargeNodeTokens, GraphState
<1>3. MarkNodeFailed(g, n) \in GraphState
  BY MarkNodeFailedFacts
<1>4. g.spent + 0 \in Int
  BY DEF GraphState
<1>5. MarkNodeAchieved(g, n, 0) \in GraphState
  <2> DEFINE sum == g.spent + 0
             g1 == [g EXCEPT !.st[n] = "Achieved", !.spent = sum, !.current = NoNode]
  <2>1. MarkNodeAchieved(g, n, 0) = RecomputeReady(g1)
    BY DEF MarkNodeAchieved
  <2> HIDE DEF sum
  <2>2. g1 \in GraphState
    BY <1>4 DEF sum, GraphState, NodeStatus, Terminal
  <2> QED
    BY <2>1, <2>2, RecomputeReadyFacts
<1> QED
  BY <1>1, <1>2, <1>3, <1>5

\* So is the graph a /graph resume demotes and resumes.
LEMMA ResumeType ==
  ASSUME NEW g \in GraphState
  PROVE  DemoteOrphanedInFlight(Resume(Pause(g)), NoNode) \in GraphState
<1>1. Pause(g) \in GraphState
  BY DEF Pause, GraphState, GraphStatus
<1>2. PICK p \in GraphState : p = Pause(g)
  BY <1>1
<1>3. [p EXCEPT !.status = "Active"] \in GraphState
  BY DEF GraphState, GraphStatus
<1>4. Resume(p) \in GraphState
  BY <1>3, RecomputeReadyFacts DEF Resume
<1>5. PICK q \in GraphState : q = Resume(p)
  BY <1>4
<1>6. DemoteInFlight(q.st, NoNode) \in [Ids -> NodeStatus]
  BY DemoteInFlightType
<1>7. [q EXCEPT !.st = DemoteInFlight(q.st, NoNode), !.current = NoNode] \in GraphState
  BY <1>6 DEF GraphState
<1>8. DemoteOrphanedInFlight(q, NoNode) \in GraphState
  BY <1>7, RecomputeReadyFacts DEF DemoteOrphanedInFlight
<1> QED
  BY <1>2, <1>5, <1>8

-----------------------------------------------------------------------------
(* One node's rounds.                                                      *)

\* A run that is fresh, and one that has failed.
LEMMA FreshRunOK ==
  ASSUME NEW d \in BOOLEAN
  PROVE  /\ RunOK(FreshRun, d) /\ RunOK([FreshRun EXCEPT !.phase = "spawn"], d)
         /\ RunOK(Failed, d) /\ FreshRun.base = NoHead /\ Failed.base = NoHead
<1>1. FreshRun \in NodeRun /\ 1 \in 1..Rounds
  BY BatchAssumption DEF FreshRun, NodeRun, NoHead
<1> QED
  BY <1>1 DEF RunOK, MadeOK, SessionOK, FreshRun, Failed, NodeRun

\* A report of success keeps the worktree.
LEMMA AchievedOK ==
  ASSUME NEW r, NEW d, RunOK(r, d)
  PROVE  RunOK(Achieved(r), d) /\ Achieved(r).base = r.base
<1>1. FreshRun \in NodeRun /\ 1 \in 1..Rounds
  BY BatchAssumption DEF FreshRun, NodeRun, NoHead
<1>2. r \in NodeRun /\ MadeOK(r)
  BY DEF RunOK
<1> DEFINE q == Achieved(r)
<1>3. /\ q.phase = "reported" /\ q.round = 1 /\ q.child = "none" /\ q.tree = "none"
      /\ q.path = r.path /\ q.base = r.base /\ q.dir = r.dir
  BY DEF Achieved, FreshRun
<1>4. q \in NodeRun
  <2>1. r.path \in {"none", "worktree"} /\ r.base \in Int
        /\ r.dir \in {"none", "there", "gone", "snapped", "kept"}
    BY <1>2 DEF NodeRun
  <2>2. ASSUME NEW x \in NodeRun, NEW p \in {"none", "worktree"}, NEW b \in Int,
               NEW e \in {"none", "there", "gone", "snapped", "kept"}
        PROVE  [x EXCEPT !.phase = "reported", !.verdict = "achieved",
                         !.path = p, !.base = b, !.dir = e] \in NodeRun
    BY DEF NodeRun
  <2>3. [FreshRun EXCEPT !.phase = "reported", !.verdict = "achieved", !.path = r.path,
                         !.base = r.base, !.dir = r.dir] \in NodeRun
    BY <1>1, <2>1, <2>2
  <2> QED
    BY <2>3 DEF Achieved
<1>5. MadeOK(q)
  BY <1>2, <1>3 DEF MadeOK
<1> HIDE DEF q
<1>6. RunOK(q, d)
  BY <1>1, <1>3, <1>4, <1>5 DEF RunOK
<1> QED
  BY <1>3, <1>6 DEF q

\* Between rounds r may go into the next, or fail after the last.
LEMMA NextRoundOK ==
  ASSUME NEW r, NEW d \in BOOLEAN, r \in NodeRun, r.round \in 1..Rounds,
         MadeOK(r), SessionOK(r, d)
  PROVE  RunOK(NextRound(r), d) /\ NextRound(r).base \in {NoHead, r.base}
<1>1. CASE r.round < Rounds
  <2> DEFINE k == r.round + 1
             q == [r EXCEPT !.phase = "spawn", !.tree = "none", !.round = k]
  <2>1. k \in Nat /\ k \in 1..Rounds /\ k # 1
    BY <1>1, BatchAssumption DEF NodeRun
  <2>2. NextRound(r) = q
    BY <1>1 DEF NextRound
  <2> HIDE DEF k
  <2>3. /\ q \in NodeRun /\ q.round = k /\ q.phase = "spawn" /\ q.tree = "none"
        /\ q.child = r.child /\ q.path = r.path /\ q.base = r.base /\ q.dir = r.dir
    BY <2>1 DEF NodeRun
  <2> HIDE DEF q
  <2>4. RunOK(q, d)
    BY <2>1, <2>3 DEF RunOK, MadeOK, SessionOK
  <2> QED
    BY <2>2, <2>3, <2>4
<1>2. CASE ~(r.round < Rounds)
  BY <1>2, FreshRunOK DEF NextRound
<1> QED
  BY <1>1, <1>2

\* The session a result names is the one its worker ran in; its path, if it
\* comes along, that of the worker's tree.
LEMMA AdoptOK ==
  ASSUME NEW r, RunOK(r, disposes), r.phase = "working", disposes \in BOOLEAN,
         NEW b \in BOOLEAN, NEW dir \in Disposals(r)
  PROVE  LET q == Adopt(r, b, dir) IN
         /\ q \in NodeRun /\ q.round = r.round /\ q.phase = "working"
         /\ q.child = r.tree /\ q.tree = r.tree /\ q.base = r.base /\ q.dir = dir
         /\ q.path \in {r.path, "worktree"}
         /\ q.path # r.path => r.tree = "worktree"
         /\ b /\ r.tree = "worktree" /\ ~disposes => q.path = "worktree"
         /\ MadeOK(q) /\ SessionOK(q, disposes)
         /\ ~disposes => dir = r.dir
<1> DEFINE q == Adopt(r, b, dir)
<1>1. /\ r \in NodeRun /\ MadeOK(r) /\ SessionOK(r, disposes) /\ WorkingOK(r, disposes)
  BY DEF RunOK
<1>2. /\ dir \in {"none", "there", "gone", "snapped", "kept"}
      /\ r.dir # "none" => dir # "none"
      /\ ~disposes => dir = r.dir
  BY <1>1 DEF Disposals, NodeRun
<1>3. r.tree \in {"worktree", "shared"}
  BY <1>1 DEF NodeRun, WorkingOK
<1>4. /\ q \in NodeRun /\ q.round = r.round /\ q.phase = "working"
      /\ q.child = r.tree /\ q.tree = r.tree /\ q.base = r.base /\ q.dir = dir
  BY <1>1, <1>2, <1>3 DEF Adopt, NodeRun
<1>5. /\ q.path \in {r.path, "worktree"}
      /\ q.path # r.path => r.tree = "worktree"
      /\ b /\ r.tree = "worktree" /\ ~disposes => q.path = "worktree"
  BY <1>1 DEF Adopt, NodeRun
<1> HIDE DEF q
<1>6. MadeOK(q)
  BY <1>1, <1>2, <1>4, <1>5 DEF MadeOK
<1>7. SessionOK(q, disposes)
  BY <1>1, <1>2, <1>3, <1>4, <1>5 DEF SessionOK, WorkingOK
<1> QED
  BY <1>2, <1>4, <1>5, <1>6, <1>7 DEF q

\* A claim goes to a verifier that looks at the tree the worker wrote in: had
\* the worker fallen back to the shared tree, the verifier would have no cwd.
LEMMA ClaimOK ==
  ASSUME NEW r, RunOK(r, disposes), r.phase = "working", disposes \in BOOLEAN,
         NEW dir \in Disposals(r), ~IsolationDenied(r, dir),
         CwdExists(Adopt(r, TRUE, dir))
  PROVE  LET q == [Adopt(r, TRUE, dir) EXCEPT !.phase = "verifying"] IN
         RunOK(q, disposes) /\ q.base = r.base
<1> DEFINE a == Adopt(r, TRUE, dir)
           q == [a EXCEPT !.phase = "verifying"]
<1>0. r.round = 1 => r.child = "none" /\ r.path = "none"
  BY DEF RunOK, SessionOK
<1>1. /\ a \in NodeRun /\ a.round = r.round
      /\ a.child = r.tree /\ a.tree = r.tree /\ a.base = r.base /\ a.dir = dir
      /\ a.path \in {r.path, "worktree"}
      /\ a.path # r.path => r.tree = "worktree"
      /\ r.tree = "worktree" /\ ~disposes => a.path = "worktree"
      /\ MadeOK(a) /\ SessionOK(a, disposes) /\ (~disposes => dir = r.dir)
  BY AdoptOK
<1>2. /\ a.path = "worktree" => dir \in {"there", "kept"}
      /\ r.child = "none" => a.path # "none"
  BY <1>1 DEF CwdExists, HasDir, IsolationDenied
<1>3. r.tree \in {"worktree", "shared"} /\ r.path \in {"none", "worktree"}
      /\ WorkingOK(r, disposes) /\ r.round \in 1..Rounds
  BY DEF RunOK, WorkingOK, NodeRun
<1> HIDE DEF a
<1>4. /\ q \in NodeRun /\ q.round = a.round /\ q.phase = "verifying" /\ q.child = a.child
      /\ q.tree = a.tree /\ q.path = a.path /\ q.base = a.base /\ q.dir = a.dir
  BY <1>1 DEF NodeRun
<1> HIDE DEF q
<1>5. ~disposes => (q.path = "worktree" <=> q.tree = "worktree")
  BY <1>1, <1>2, <1>3, <1>4 DEF WorkingOK
<1>6. r.round = 1 => (q.path = "worktree" <=> q.tree = "worktree")
  BY <1>0, <1>1, <1>2, <1>3, <1>4
<1>7. RunOK(q, disposes)
  BY <1>1, <1>3, <1>4, <1>5, <1>6 DEF RunOK, MadeOK, SessionOK, VerifyingOK
<1> QED
  BY <1>1, <1>4, <1>7 DEF q, a

\* A spawn: a fresh worktree is made from HEAD as it is now.
LEMMA FreshSpawnOK ==
  ASSUME NEW r, NEW d \in BOOLEAN, RunOK(r, d), r.phase = "spawn", r.child = "none",
         NEW h \in Nat
  PROVE  /\ RunOK([r EXCEPT !.phase = "working", !.tree = "worktree",
                            !.dir = "there", !.base = h], d)
         /\ RunOK([r EXCEPT !.phase = "working", !.tree = "shared"], d)
<1>1. r \in NodeRun /\ MadeOK(r) /\ SessionOK(r, d) /\ r.path = "none" /\ h # NoHead
      /\ r.round \in 1..Rounds
  BY DEF RunOK, SessionOK, NoHead
<1> DEFINE q == [r EXCEPT !.phase = "working", !.tree = "worktree",
                          !.dir = "there", !.base = h]
           t == [r EXCEPT !.phase = "working", !.tree = "shared"]
<1>h. h \in Int
  OBVIOUS
<1>q. q \in NodeRun
  BY <1>1, <1>h DEF NodeRun
<1>2. /\ q \in NodeRun /\ q.phase = "working" /\ q.tree = "worktree" /\ q.dir = "there"
      /\ q.base = h /\ q.round = r.round /\ q.child = r.child /\ q.path = r.path
  BY <1>1, <1>q DEF NodeRun
<1>3. /\ t \in NodeRun /\ t.phase = "working" /\ t.tree = "shared" /\ t.dir = r.dir
      /\ t.base = r.base /\ t.round = r.round /\ t.child = r.child /\ t.path = r.path
  BY <1>1 DEF NodeRun
<1> HIDE DEF q, t
<1>4. RunOK(q, d)
  BY <1>1, <1>2 DEF RunOK, MadeOK, SessionOK, WorkingOK
<1>5. RunOK(t, d)
  BY <1>1, <1>3 DEF RunOK, MadeOK, SessionOK, WorkingOK
<1> QED
  BY <1>4, <1>5 DEF q, t

\* A resumed session's worktree, or the shared tree in its place.
LEMMA ResumedSpawnOK ==
  ASSUME NEW r, NEW d \in BOOLEAN, RunOK(r, d), r.phase = "spawn", r.child # "none"
  PROVE  /\ Resumable(r) =>
              RunOK([r EXCEPT !.phase = "working", !.tree = "worktree",
                              !.dir = "there"], d)
         /\ ~Resumable(r) \/ r.dir # "there" =>
              RunOK([r EXCEPT !.phase = "working", !.tree = "shared"], d)
<1>1. r \in NodeRun /\ MadeOK(r) /\ SessionOK(r, d) /\ r.round \in 1..Rounds
      /\ r.round # 1
  BY DEF RunOK
<1>2. Resumable(r) =>
        RunOK([r EXCEPT !.phase = "working", !.tree = "worktree", !.dir = "there"], d)
  BY <1>1 DEF RunOK, MadeOK, SessionOK, WorkingOK, NodeRun, Resumable
<1>3. ASSUME ~Resumable(r) \/ r.dir # "there"
      PROVE  RunOK([r EXCEPT !.phase = "working", !.tree = "shared"], d)
  <2>1. ASSUME ~d PROVE r.path = "none" \/ r.dir = "gone"
    <3>1. r.path \in {"none", "worktree"}
      BY <1>1 DEF NodeRun
    <3>2. /\ r.dir \in {"none", "there", "gone"}
          /\ r.path = "worktree" /\ r.dir = "there" => r.child = "worktree"
      BY <1>1, <2>1, Zenon DEF SessionOK
    <3>3. r.path = "worktree" => r.dir # "none"
      BY <1>1 DEF MadeOK
    <3> QED
      BY <1>3, <3>1, <3>2, <3>3 DEF Resumable
  <2> QED
    BY <1>1, <2>1 DEF RunOK, MadeOK, SessionOK, WorkingOK, NodeRun
<1> QED
  BY <1>2, <1>3

\* A worker or verifier step of n turns its run into another good one, of the
\* same worktree or of one made from HEAD.
LEMMA WorkerStepShape ==
  ASSUME BatchInv, NEW n \in Ids, WorkerStep(n)
  PROVE  \E r : /\ RunOK(r, disposes) /\ Step(n, r)
                /\ r.base \in {NoHead, node[n].base, head}
<1> DEFINE s == node[n]
           Good(r) == RunOK(r, disposes) /\ r.base \in {NoHead, s.base, head}
<1>1. RunOK(s, disposes) /\ head \in Nat /\ disposes \in BOOLEAN /\ s \in NodeRun
      /\ s.round \in 1..Rounds /\ MadeOK(s)
  BY BatchAssumption DEF BatchInv, RunsInv, HeadInv, TypeInv, RunOK
<1>2. Good(Failed)
  BY <1>1, FreshRunOK
<1> HIDE DEF s
<1>3. ASSUME s.phase = "working", NEW b \in BOOLEAN, NEW d \in Disposals(s)
      PROVE  Good(NextRound(Adopt(s, b, d)))
  <2> DEFINE a == Adopt(s, b, d)
  <2>1. /\ a \in NodeRun /\ a.round \in 1..Rounds /\ a.base = s.base
        /\ MadeOK(a) /\ SessionOK(a, disposes)
    BY <1>1, <1>3, AdoptOK
  <2> HIDE DEF a
  <2>2. Good(NextRound(a))
    BY <1>1, <2>1, NextRoundOK
  <2> QED
    BY <2>2 DEF a
<1>4. s.phase # "reported" => Good(NextRound(s))
  BY <1>1, NextRoundOK DEF RunOK
<1>5. CASE SpawnFresh(n)
  <2> DEFINE q == [s EXCEPT !.phase = "working", !.tree = "worktree",
                            !.dir = "there", !.base = head]
             t == [s EXCEPT !.phase = "working", !.tree = "shared"]
  <2>1. s.phase = "spawn" /\ s.child = "none" /\ (Step(n, q) \/ Step(n, t))
    BY <1>5 DEF SpawnFresh, s
  <2>2. RunOK(q, disposes) /\ RunOK(t, disposes)
    BY <1>1, <2>1, FreshSpawnOK
  <2>3. q.base = head /\ t.base = s.base
    BY <1>1 DEF NodeRun
  <2> HIDE DEF q, t
  <2> QED
    BY <2>1, <2>2, <2>3 DEF s
<1>6. CASE SpawnResumed(n)
  <2> DEFINE q == [s EXCEPT !.phase = "working", !.tree = "worktree", !.dir = "there"]
             t == [s EXCEPT !.phase = "working", !.tree = "shared"]
  <2>1. /\ s.phase = "spawn" /\ s.child # "none"
        /\ \/ Resumable(s) /\ Step(n, q)
           \/ (~Resumable(s) \/ s.dir # "there") /\ Step(n, t)
    BY <1>6 DEF SpawnResumed, s
  <2>2. /\ Resumable(s) => RunOK(q, disposes)
        /\ ~Resumable(s) \/ s.dir # "there" => RunOK(t, disposes)
    BY <1>1, <2>1, ResumedSpawnOK
  <2>3. q.base = s.base /\ t.base = s.base
    BY <1>1 DEF NodeRun
  <2> HIDE DEF q, t
  <2> QED
    BY <2>1, <2>2, <2>3 DEF s
<1>7. CASE SpawnFails(n)
  BY <1>4, <1>7 DEF SpawnFails, s
<1>8. CASE WorkerLost(n) \/ WorkerCancelled(n) \/ WorkerDenied(n) \/ WorkerBlocked(n)
  BY <1>2, <1>8 DEF WorkerLost, WorkerCancelled, WorkerDenied, WorkerBlocked, s
<1>9. CASE WorkerBackgrounded(n) \/ WorkerErrs(n) \/ WorkerUnclear(n) \/ VerifierNotSpawned(n)
  <2>1. PICK b \in BOOLEAN, d \in Disposals(s) :
          s.phase = "working" /\ Step(n, NextRound(Adopt(s, b, d)))
    BY <1>9 DEF WorkerBackgrounded, WorkerErrs, WorkerUnclear, VerifierNotSpawned, Succeeds, s
  <2> QED
    BY <1>3, <2>1 DEF s
<1>10. CASE WorkerClaimsDone(n)
  <2>1. PICK d \in Disposals(s) :
          /\ s.phase = "working" /\ ~IsolationDenied(s, d) /\ CwdExists(Adopt(s, TRUE, d))
          /\ Step(n, [Adopt(s, TRUE, d) EXCEPT !.phase = "verifying"])
    BY <1>10 DEF WorkerClaimsDone, Succeeds, s
  <2> DEFINE q == [Adopt(s, TRUE, d) EXCEPT !.phase = "verifying"]
  <2>2. RunOK(q, disposes) /\ q.base = s.base
    BY <1>1, <2>1, ClaimOK
  <2> HIDE DEF q
  <2>3. Step(n, q)
    BY <2>1 DEF q
  <2> QED
    BY <2>2, <2>3 DEF s
<1>11. CASE VerifierAccepts(n)
  BY <1>1, <1>11, AchievedOK DEF VerifierAccepts, s
<1>12. CASE VerifierRejects(n)
  BY <1>4, <1>12 DEF VerifierRejects, s
<1> QED
  BY <1>5, <1>6, <1>7, <1>8, <1>9, <1>10, <1>11, <1>12 DEF WorkerStep

-----------------------------------------------------------------------------
(* The invariant is inductive.                                             *)

\* The batch starts in the invariant.
LEMMA BatchInit == Init => BatchInv
<1> SUFFICES ASSUME Init PROVE BatchInv
  OBVIOUS
<1>1. PICK P \in SUBSET PlannerIds : \E d \in [P -> SUBSET P] :
        LET g == InstallNodes(CreateGraph(1, NoLimit), P, d)
        IN  /\ ValidPlan(P, d)
            /\ batch = FirstReady(g, Concurrency)
            /\ graph = [g EXCEPT !.st = [n \in Ids |->
                         IF n \in batch THEN "Running" ELSE g.st[n]]]
  BY DEF Init
<1>2. PICK d \in [P -> SUBSET P] :
        LET g == InstallNodes(CreateGraph(1, NoLimit), P, d)
        IN  /\ ValidPlan(P, d)
            /\ batch = FirstReady(g, Concurrency)
            /\ graph = [g EXCEPT !.st = [n \in Ids |->
                         IF n \in batch THEN "Running" ELSE g.st[n]]]
  BY <1>1
<1>3. CreateGraph(1, NoLimit) \in GraphState
  BY CreateGraphWellFormed DEF WellFormed, NoLimit
<1>4. InstallNodes(CreateGraph(1, NoLimit), P, d) \in GraphState
  BY <1>2, <1>3, InstallNodesWellFormed DEF WellFormed
<1>5. PICK g \in GraphState : g = InstallNodes(CreateGraph(1, NoLimit), P, d)
  BY <1>4
<1>6. /\ batch = FirstReady(g, Concurrency)
      /\ graph = [g EXCEPT !.st = [n \in Ids |->
                    IF n \in batch THEN "Running" ELSE g.st[n]]]
  BY <1>2, <1>5
<1>7. batch \in SUBSET Ids
  BY <1>6 DEF FirstReady, ReadyNodes
<1>8. graph \in GraphState
  BY <1>6 DEF GraphState, NodeStatus
<1>9. \A n \in Ids : node[n] = FreshRun /\ RunOK(node[n], disposes)
  BY FreshRunOK DEF Init
<1>10. TypeInv
  BY <1>7, <1>8, <1>9 DEF Init, TypeInv, RunOK
<1>11. HeadInv
  BY BatchAssumption DEF Init, HeadInv, NoHead
<1> QED
  BY <1>9, <1>10, <1>11 DEF Init, BatchInv, RunsInv, MergeBaseIsFanout

\* HEAD moves; if it moves back, nothing more is promised.
LEMMA MoveHeadKeeps == BatchInv /\ MoveHead => BatchInv'
<1> SUFFICES ASSUME BatchInv, MoveHead PROVE BatchInv'
  OBVIOUS
<1>1. /\ UNCHANGED <<graph, sent, pc, batch, fanHead, disposes, node>>
      /\ head' \in 0..MaxCommits /\ returned' = (returned \/ head' = fanHead)
  BY DEF MoveHead
<1>2. TypeInv'
  BY <1>1 DEF BatchInv, TypeInv
<1>3. HeadInv'
  BY <1>1 DEF BatchInv, HeadInv
<1>4. RunsInv'
  BY <1>1 DEF BatchInv, RunsInv
<1>5. MergeBaseIsFanout'
  BY <1>1 DEF BatchInv, MergeBaseIsFanout, NextReport
<1> QED
  BY <1>2, <1>3, <1>4, <1>5 DEF BatchInv

\* A worktree's directory disappears; nothing else of the run changes.
LEMMA DirVanishesKeeps ==
  ASSUME BatchInv, NEW n \in Ids, DirVanishes(n)
  PROVE  BatchInv'
<1>0. UNCHANGED <<graph, sent, pc, batch, head, fanHead, returned, disposes>>
  BY DEF DirVanishes
<1>1. RunOK(node[n], disposes) /\ node[n] \in NodeRun /\ node[n].dir \in {"there", "kept"}
  BY DEF BatchInv, RunsInv, RunOK, DirVanishes
<1>2. PICK dir \in {"gone", "snapped"} :
        /\ node' = [node EXCEPT ![n] = [node[n] EXCEPT !.dir = dir]]
        /\ node[n].dir = "there" => dir = "gone"
  BY DEF DirVanishes, BatchInv, TypeInv
<1>3. RunOK([node[n] EXCEPT !.dir = dir], disposes)
  BY <1>1, <1>2 DEF RunOK, MadeOK, SessionOK, WorkingOK, VerifyingOK, NodeRun
<1>4. \A m \in Ids : RunOK(node'[m], disposes) /\ node'[m].base = node[m].base
  BY <1>1, <1>2, <1>3 DEF BatchInv, TypeInv, RunsInv, NodeRun
<1>5. pc # "fanout"
  BY <1>1 DEF BatchInv, RunsInv, FreshRun
<1>6. node' \in [Ids -> NodeRun]
  BY <1>2, <1>3 DEF BatchInv, TypeInv, RunOK
<1>7. TypeInv'
  BY <1>0, <1>6 DEF BatchInv, TypeInv
<1>8. HeadInv' /\ RunsInv'
  BY <1>0, <1>4, <1>5 DEF BatchInv, HeadInv, RunsInv
<1>9. MergeBaseIsFanout'
  BY <1>0, <1>4 DEF BatchInv, MergeBaseIsFanout, NextReport
<1> QED
  BY <1>7, <1>8, <1>9 DEF BatchInv

\* HEAD is captured while every run is still fresh.
LEMMA FanOutKeeps == BatchInv /\ FanOut => BatchInv'
<1> SUFFICES ASSUME BatchInv, FanOut PROVE BatchInv'
  OBVIOUS
<1>1. disposes \in BOOLEAN /\ disposes' = disposes /\ head' = head
  BY DEF BatchInv, TypeInv, FanOut
<1>2. \A n \in Ids : node'[n] \in {FreshRun, [FreshRun EXCEPT !.phase = "spawn"]}
  BY DEF BatchInv, RunsInv, FanOut
<1>3. \A n \in Ids : RunOK(node'[n], disposes) /\ node'[n].base = NoHead
  <2>1. [FreshRun EXCEPT !.phase = "spawn"].base = NoHead
    BY DEF FreshRun
  <2> QED
    BY <1>1, <1>2, <2>1, FreshRunOK
<1>4. RunsInv'
  BY <1>1, <1>3 DEF RunsInv, FanOut
<1>5. TypeInv'
  BY <1>3 DEF BatchInv, TypeInv, FanOut, RunOK
<1>6. HeadInv'
  <2>1. head' \in 0..MaxCommits /\ fanHead' \in -1..MaxCommits
    BY BatchAssumption DEF BatchInv, HeadInv, FanOut, NoHead
  <2> QED
    BY <2>1, <1>3 DEF HeadInv
<1> QED
  BY <1>4, <1>5, <1>6 DEF BatchInv, FanOut, MergeBaseIsFanout

\* A round's step changes one run into another good one.
LEMMA WorkerStepKeeps ==
  ASSUME BatchInv, NEW n \in Ids, WorkerStep(n)
  PROVE  BatchInv'
<1>1. PICK r : RunOK(r, disposes) /\ Step(n, r) /\ r.base \in {NoHead, node[n].base, head}
  BY WorkerStepShape
<1>2. TypeInv'
  BY <1>1 DEF BatchInv, TypeInv, Step, RunOK
<1>3. HeadInv'
  BY <1>1 DEF BatchInv, TypeInv, HeadInv, Step
<1>4. RunsInv'
  BY <1>1 DEF BatchInv, TypeInv, RunsInv, Step
<1> QED
  BY <1>1, <1>2, <1>3, <1>4 DEF BatchInv, Step, MergeBaseIsFanout

\* The end of the rounds, and of the settlement, move the turn only.
LEMMA PcStepKeeps == BatchInv /\ (Join \/ BatchSettled) => BatchInv'
<1> SUFFICES ASSUME BatchInv, Join \/ BatchSettled PROVE BatchInv'
  OBVIOUS
<1>1. UNCHANGED <<graph, sent, batch, head, fanHead, returned, disposes, node>>
      /\ pc' \in {"settle", "drive"}
  BY DEF Join, BatchSettled
<1> QED
  BY <1>1 DEF BatchInv, TypeInv, HeadInv, RunsInv, MergeBaseIsFanout

\* A node is settled: its run is over, and the next report's merge has not
\* begun.
LEMMA SettleKeeps ==
  ASSUME BatchInv, NEW n \in Ids, NEW g \in GraphState, Settle(n, g)
  PROVE  BatchInv'
<1>1. /\ graph' = g /\ sent' = g /\ batch' = batch \ {n} /\ pc' = "settle"
      /\ node' = [node EXCEPT ![n] = FreshRun]
      /\ UNCHANGED <<head, fanHead, returned, disposes>>
  BY DEF Settle
<1>2. \A m \in Ids : RunOK(node'[m], disposes) /\ node'[m].base \in {NoHead, node[m].base}
  BY <1>1, FreshRunOK DEF BatchInv, TypeInv, RunsInv
<1>3. RunOK(FreshRun, disposes)
  BY FreshRunOK DEF BatchInv, TypeInv
<1>4. TypeInv'
  BY <1>1, <1>3 DEF BatchInv, TypeInv, RunOK
<1>5. HeadInv'
  BY <1>1, <1>2 DEF BatchInv, HeadInv
<1>6. RunsInv'
  BY <1>1, <1>2 DEF RunsInv
<1> QED
  BY <1>1, <1>4, <1>5, <1>6 DEF BatchInv, MergeBaseIsFanout

\* Every step of the settlement.
LEMMA SettlementKeeps == BatchInv /\ Settlement => BatchInv'
<1> SUFFICES ASSUME BatchInv, Settlement PROVE BatchInv'
  OBVIOUS
<1>0. graph \in GraphState
  BY DEF BatchInv, TypeInv
<1>1. ASSUME NEW n \in Ids, SettleFailed(n) PROVE BatchInv'
  <2>1. PICK g \in WithDiscoveries : Settle(n, MarkNodeFailed(ChargeNodeTokens(g, 0), n))
    BY <1>1 DEF SettleFailed
  <2>2. g \in GraphState
    BY <1>0, <1>1, GraphOpsType DEF WithDiscoveries
  <2>3. ChargeNodeTokens(g, 0) \in GraphState
    BY <1>1, <2>2, GraphOpsType
  <2>4. MarkNodeFailed(ChargeNodeTokens(g, 0), n) \in GraphState
    BY <1>1, <2>3, GraphOpsType
  <2> QED
    BY <1>1, <2>1, <2>4, SettleKeeps DEF SettleFailed
<1>2. ASSUME NEW n \in Ids, TakeReport(n) PROVE BatchInv'
  <2>1. graph' \in GraphState
    BY <1>0, <1>2, GraphOpsType DEF TakeReport, WithDiscoveries
  <2> QED
    BY <1>2, <2>1 DEF TakeReport, BatchInv, TypeInv, HeadInv, RunsInv, MergeBaseIsFanout
<1>3. ASSUME NEW n \in Ids, SettleShared(n) PROVE BatchInv'
  BY <1>0, <1>3, GraphOpsType, SettleKeeps DEF SettleShared
<1>4. ASSUME NEW n \in Ids, HeadUnmoved(n) PROVE BatchInv'
  <2>1. TypeInv' /\ HeadInv' /\ RunsInv'
    BY <1>4 DEF HeadUnmoved, BatchInv, TypeInv, HeadInv, RunsInv
  <2>2. node[n].base # NoHead
    BY <1>4 DEF HeadUnmoved, BatchInv, RunsInv, RunOK, MadeOK
  <2>3. fanHead # NoHead /\ ~returned => node[n].base = fanHead
    BY <1>4, <2>2 DEF HeadUnmoved, BatchInv, HeadInv
  <2>4. \A m \in Ids : NextReport(m) => m = n
    BY <1>4, IdsAssumption DEF HeadUnmoved, NextReport
  <2>5. MergeBaseIsFanout'
    BY <1>4, <2>3, <2>4 DEF HeadUnmoved, MergeBaseIsFanout, NextReport
  <2> QED
    BY <2>1, <2>5 DEF BatchInv
<1>5. ASSUME NEW n \in Ids, HeadMoved(n) PROVE BatchInv'
  BY <1>0, <1>5, GraphOpsType, SettleKeeps DEF HeadMoved
<1>6. ASSUME NEW n \in Ids, ApplyMerges(n) PROVE BatchInv'
  BY <1>0, <1>6, GraphOpsType, SettleKeeps DEF ApplyMerges
<1>7. ASSUME NEW n \in Ids, ApplyFails(n) PROVE BatchInv'
  BY <1>0, <1>7, GraphOpsType, SettleKeeps DEF ApplyFails
<1> QED
  BY <1>1, <1>2, <1>3, <1>4, <1>5, <1>6, <1>7, PcStepKeeps DEF Settlement

\* The resume of a graph a failed chain has wedged.
LEMMA ResumeKeeps == BatchInv /\ ResumeWedged => BatchInv'
<1> SUFFICES ASSUME BatchInv, ResumeWedged PROVE BatchInv'
  OBVIOUS
<1>1. graph' \in GraphState /\ sent' \in GraphState
  BY ResumeType DEF BatchInv, TypeInv, ResumeWedged
<1> QED
  BY <1>1 DEF ResumeWedged, BatchInv, TypeInv, HeadInv, RunsInv, MergeBaseIsFanout

\* Every step of the batch.
LEMMA BatchNext == BatchInv /\ [Next]_vars => BatchInv'
<1> SUFFICES ASSUME BatchInv, [Next]_vars PROVE BatchInv'
  OBVIOUS
<1>1. CASE UNCHANGED vars
  BY <1>1 DEF vars, BatchInv, TypeInv, HeadInv, RunsInv, MergeBaseIsFanout, NextReport
<1>2. CASE Next
  BY <1>2, MoveHeadKeeps, DirVanishesKeeps, FanOutKeeps, WorkerStepKeeps, PcStepKeeps,
     SettlementKeeps, ResumeKeeps DEF Next
<1> QED
  BY <1>1, <1>2

\* The invariant of `run_graph_parallel_batch`: sessions, paths and worktree
\* bases agree through every mix of failed spawns, backgrounded rounds,
\* retries, moves of HEAD and worktrees that disappear.
THEOREM BatchInductive == Spec => []BatchInv
  BY BatchInit, BatchNext, PTL DEF Spec

\* Type correctness, with the rounds cap of `for round in 1..=rounds_cap`.
THEOREM BatchTypeCorrect == Spec => []TypeOK
<1>1. BatchInv => TypeOK
  BY DEF BatchInv, TypeInv, HeadInv, RunsInv, RunOK, TypeOK
<1> QED
  BY <1>1, BatchInductive, PTL

\* `run_node_to_verdict` hands the verifier the worktree the worker wrote in,
\* and no other; with disposal on, in the first round.
THEOREM BatchVerifier == Spec => []VerifierChecksWorkersTree
<1>1. BatchInv => VerifierChecksWorkersTree
  BY DEF BatchInv, TypeInv, RunsInv, RunOK, VerifyingOK, VerifierChecksWorkersTree
<1> QED
  BY <1>1, BatchInductive, PTL

\* A worktree `apply_worktree` is called for was made from the commit of the
\* fan-out, if that commit is known and HEAD has not left it and come back.
THEOREM BatchMergeBase == Spec => []MergeBaseIsFanout
<1>1. BatchInv => MergeBaseIsFanout
  BY DEF BatchInv
<1> QED
  BY <1>1, BatchInductive, PTL

-----------------------------------------------------------------------------
(* The batch implements the one of graph mode.                             *)

\* Graph mode's tracker is the batch's: the same transitions, of the same ids.
LEMMA ModeTracker ==
  /\ Mode!Ids = Ids
  /\ \A S : Mode!Cardinality(S) = Cardinality(S)
  /\ \A g : Mode!QueueDiscoveries(g) = QueueDiscoveries(g)
  /\ \A g, t : Mode!ChargeNodeTokens(g, t) = ChargeNodeTokens(g, t)
  /\ \A g, n : Mode!MarkNodeFailed(g, n) = MarkNodeFailed(g, n)
  /\ \A g, n, t : Mode!MarkNodeAchieved(g, n, t) = MarkNodeAchieved(g, n, t)
<1>1. \A S : Mode!Cardinality(S) = Cardinality(S)
  BY Zenon DEF Mode!Cardinality, Cardinality
<1>2. Mode!Ids = Ids
  BY Zenon DEF Mode!Ids, Ids
<1>3. \A g : Mode!QueueDiscoveries(g) = QueueDiscoveries(g)
  BY Zenon DEF Mode!QueueDiscoveries, QueueDiscoveries
<1>4. \A g, t : Mode!ChargeNodeTokens(g, t) = ChargeNodeTokens(g, t)
  BY Zenon DEF Mode!ChargeNodeTokens, ChargeNodeTokens
<1>5. ASSUME NEW g, NEW B PROVE Mode!Absorbs(g, B) = Absorbs(g, B)
  BY <1>2, Zenon DEF Mode!Absorbs, Absorbs, Mode!Nodes, Nodes, Mode!Terminal, Terminal
<1>6. ASSUME NEW g, NEW f PROVE Mode!DeadBranch(g, f) = DeadBranch(g, f)
  BY <1>2, <1>5 DEF Mode!DeadBranch, DeadBranch
<1>7. ASSUME NEW g, NEW f PROVE Mode!BlockDependents(g, f) = BlockDependents(g, f)
  BY <1>2, <1>6, Zenon DEF Mode!BlockDependents, BlockDependents
<1>8. \A g, n : Mode!MarkNodeFailed(g, n) = MarkNodeFailed(g, n)
  BY <1>7, Zenon DEF Mode!MarkNodeFailed, MarkNodeFailed
<1>9. ASSUME NEW g PROVE Mode!RecomputeReady(g) = RecomputeReady(g)
  BY <1>2, Zenon DEF Mode!RecomputeReady, RecomputeReady, Mode!DepsAchieved, DepsAchieved
<1>10. \A g, n, t : Mode!MarkNodeAchieved(g, n, t) = MarkNodeAchieved(g, n, t)
  BY <1>9, Zenon DEF Mode!MarkNodeAchieved, MarkNodeAchieved
<1> QED
  BY <1>1, <1>2, <1>3, <1>4, <1>8, <1>10

\* What graph mode sees of a batch step is graph, batch, sent and the turn's
\* position; the rest of its state the batch leaves alone.
LEMMA ModeStutters ==
  ASSUME UNCHANGED <<graph, batch, sent>>, modePc' = modePc
  PROVE  UNCHANGED Mode!vars
  BY DEF Mode!vars

\* Rounds, moves of HEAD, lost worktrees and the HEAD check are invisible to graph mode.
LEMMA HiddenSteps ==
  ASSUME BatchInv,
         \/ MoveHead \/ FanOut
         \/ \E n \in Ids : WorkerStep(n) \/ DirVanishes(n) \/ HeadUnmoved(n)
         \/ UNCHANGED vars
  PROVE  UNCHANGED Mode!vars
<1>1. CASE MoveHead \/ UNCHANGED vars
  BY <1>1, ModeStutters DEF MoveHead, vars, modePc
<1>2. CASE FanOut
  BY <1>2, ModeStutters DEF FanOut, modePc
<1>3. ASSUME NEW n \in Ids, WorkerStep(n) PROVE UNCHANGED Mode!vars
  <2>1. PICK r : Step(n, r)
    BY <1>3, WorkerStepShape
  <2> QED
    BY <2>1, ModeStutters DEF Step, modePc
<1>4. ASSUME NEW n \in Ids, HeadUnmoved(n) \/ DirVanishes(n) PROVE UNCHANGED Mode!vars
  BY <1>4, ModeStutters DEF HeadUnmoved, DirVanishes, modePc
<1> QED
  BY <1>1, <1>2, <1>3, <1>4

\* `join_all` returns every report at once.
LEMMA JoinRefines == BatchInv /\ Join => Mode!BatchReports
<1> SUFFICES ASSUME BatchInv, Join PROVE Mode!BatchReports
  OBVIOUS
<1>1. IsFiniteSet(batch)
  BY IdsAssumption, FS_Subset DEF BatchInv, TypeInv
<1>2. Cardinality(batch) \in Nat
  BY <1>1, FS_CardinalityType
<1>3. 0 = 0 + 0 * Mode!Cardinality(batch)
  BY <1>2, ModeTracker
<1> QED
  BY <1>3 DEF Join, modePc, Mode!BatchReports

\* A settled node is settled in graph mode too, in the same order.
LEMMA SettleRefines ==
  ASSUME NEW n \in Ids,
         \/ SettleFailed(n) \/ TakeReport(n) \/ SettleShared(n)
         \/ HeadMoved(n) \/ ApplyMerges(n) \/ ApplyFails(n)
  PROVE  Mode!BatchRun
<1>1. NextReport(n) => Mode!IsNextReport(n) /\ batch # {}
  BY DEF NextReport, Mode!IsNextReport
<1>2. CASE SettleFailed(n)
  <2>1. Mode!SettleFailed(n)
    BY <1>1, <1>2, ModeTracker DEF SettleFailed, Settle, WithDiscoveries, modePc,
       Mode!SettleFailed, Mode!Persist, Mode!WithDiscoveries
  <2> QED
    BY <2>1, ModeTracker DEF Mode!BatchRun
<1>3. CASE TakeReport(n)
  <2>1. Mode!TakeReport
    BY <1>1, <1>3, ModeTracker DEF TakeReport, WithDiscoveries, modePc, Mode!TakeReport,
       Mode!WithDiscoveries
  <2> QED
    BY <2>1, ModeTracker DEF Mode!BatchRun
<1>4. CASE SettleShared(n) \/ ApplyMerges(n)
  <2>1. Mode!SettleMerged(n)
    BY <1>1, <1>4, ModeTracker DEF SettleShared, ApplyMerges, Settle, modePc, Mode!SettleMerged,
       Mode!Persist
  <2> QED
    BY <2>1, ModeTracker DEF Mode!BatchRun
<1>5. CASE HeadMoved(n) \/ ApplyFails(n)
  <2>1. Mode!SettleMergeFailed(n)
    BY <1>1, <1>5, ModeTracker DEF HeadMoved, ApplyFails, Settle, modePc, Mode!SettleMergeFailed,
       Mode!Persist
  <2> QED
    BY <2>1, ModeTracker DEF Mode!BatchRun
<1> QED
  BY <1>2, <1>3, <1>4, <1>5

\* Every step is a step of graph mode's batch or invisible to it, until the
\* turn drives on.
LEMMA StepRefines ==
  BatchInv /\ [Next]_vars => [Mode!BatchRun \/ pc = "drive"]_Mode!vars
<1> SUFFICES ASSUME BatchInv, [Next]_vars
             PROVE  Mode!BatchRun \/ pc = "drive" \/ UNCHANGED Mode!vars
  OBVIOUS
<1>1. CASE \/ MoveHead \/ FanOut
           \/ \E n \in Ids : WorkerStep(n) \/ DirVanishes(n) \/ HeadUnmoved(n)
           \/ UNCHANGED vars
  BY <1>1, HiddenSteps
<1>2. CASE Join
  BY <1>2, JoinRefines DEF Mode!BatchRun
<1>3. CASE BatchSettled
  <2>1. Mode!BatchSettled
    BY <1>3 DEF BatchSettled, modePc, Mode!BatchSettled
  <2> QED
    BY <2>1 DEF Mode!BatchRun
<1>4. CASE \E n \in Ids :
             \/ SettleFailed(n) \/ TakeReport(n) \/ SettleShared(n)
             \/ HeadMoved(n) \/ ApplyMerges(n) \/ ApplyFails(n)
  BY <1>4, SettleRefines
<1>5. CASE ResumeWedged
  BY <1>5 DEF ResumeWedged
<1> QED
  BY <1>1, <1>2, <1>3, <1>4, <1>5 DEF Next, Settlement

\* `run_graph_parallel_batch` with its rounds, HEAD checks and merges is the
\* batch graph mode settles: each node once, in batch order.
THEOREM BatchImplements == Spec => ImplementsBatchRun
  BY StepRefines, BatchInductive, PTL DEF Spec, ImplementsBatchRun
=============================================================================
