--------------------------- MODULE WorktreeApply ---------------------------
(***************************************************************************)
(* Worktrees of a batch's workers and their merge into the main tree       *)
(* (apply_worktree of kigi-workspace/src/worktree/mod.rs in Merge mode,    *)
(* called by merge_node_worktree of graph_workers.rs; the worktrees come   *)
(* from handle_request.rs).                                                *)
(*                                                                         *)
(* A tree maps files to contents.  A worker's worktree starts as a copy of *)
(* the main working tree with its uncommitted changes.  The merges of a    *)
(* batch run one after the other, and each goes file by file: it reads     *)
(* what the worktree, HEAD and the main tree have and then, across an      *)
(* await, writes.  The user edits, commits and resets in the main tree     *)
(* meanwhile, and any read or write may fail: `.ok()` makes a file that    *)
(* cannot be read look like one that is not there.                         *)
(***************************************************************************)
EXTENDS Integers

CONSTANTS Files,
          Nested,      \* those in a directory that HEAD does not have
          Contents,
          Absent,      \* no such file
          Trees,       \* worktrees, numbered in batch order
          MaxEdits,    \* bound: the user's edits and resets
          MaxCommits,  \* bound: the user's commits
          MaxWork,     \* bound: edits of one worker
          MaxFaults    \* bound: failed reads and writes

ASSUME ApplyAssumption ==
  /\ Nested \subseteq Files
  /\ "none" \notin Files
  /\ Absent \notin Contents /\ Contents # {}
  /\ Trees \subseteq Nat
  /\ MaxEdits \in Nat /\ MaxCommits \in Nat /\ MaxWork \in Nat /\ MaxFaults \in Nat

Tree == [Files -> Contents \cup {Absent}]

NoTree == -1

VARIABLES
  log,      \* the tree of each commit of the main repository
  made,     \* how many commits there are after the first
  commit,   \* the one HEAD is at
  captured, \* whether head_at_fanout is known; the batch fanned out at commit 0
  main,     \* the main working tree
  fork,     \* history: the main tree when a worktree was created
  whead,    \* HEAD of each worktree
  wt,       \* working tree of each worktree
  state,    \* how far each worktree is
  cur,      \* the worktree whose merge runs
  pc,       \* where it is
  base,     \* base_commit
  todo,     \* changed_files still to come
  item,     \* the file being applied, and what is written to it
  clash,    \* conflicts
  start,    \* history: the main tree when the merge began
  touched,  \* history: files the user has edited during it
  unread,   \* history: what it failed to read
  left      \* what is left of the bounds

repoVars == <<log, made, commit, captured>>
mergeVars == <<cur, pc, base, todo, item, clash, start, unread>>
vars == <<repoVars, main, fork, whead, wt, state, touched, left, mergeVars>>

head == log[commit]

\* No file at all: a removed worktree, and the trees of a merge that is over.
Gone == [f \in Files |-> Absent]

NoItem == [file |-> "none", theirs |-> Absent]

\* One existing file version in the repository, nothing below a new directory.
FirstTree ==
  LET c == CHOOSE c \in Contents : TRUE IN
  [f \in Files |-> IF f \in Nested THEN Absent ELSE c]

Init ==
  /\ log = [c \in 0..MaxCommits |-> FirstTree] /\ made = 0 /\ commit = 0
  /\ captured \in BOOLEAN
  /\ main = FirstTree
  /\ fork = [t \in Trees |-> FirstTree]
  /\ whead = fork /\ wt = fork
  /\ state = [t \in Trees |-> "none"]
  /\ cur = NoTree /\ pc = "run"
  /\ base = Gone /\ todo = {} /\ item = NoItem /\ clash = {}
  /\ start = Gone /\ touched = {} /\ unread = {}
  /\ left = [edits |-> MaxEdits, commits |-> MaxCommits, faults |-> MaxFaults,
             work |-> [t \in Trees |-> MaxWork]]

-----------------------------------------------------------------------------
(* The user, in the main tree.                                             *)

UserEdits ==
  /\ left.edits > 0 /\ left' = [left EXCEPT !.edits = @ - 1]
  /\ \E f \in Files, c \in Contents \cup {Absent} :
       /\ c # main[f]
       /\ main' = [main EXCEPT ![f] = c]
       /\ touched' = IF pc = "apply" THEN touched \cup {f} ELSE {}
  /\ UNCHANGED <<repoVars, fork, whead, wt, state, mergeVars>>

UserCommits ==
  /\ left.commits > 0 /\ left' = [left EXCEPT !.commits = @ - 1]
  /\ head # main
  /\ made' = made + 1 /\ commit' = made + 1
  /\ log' = [log EXCEPT ![made + 1] = main]
  /\ UNCHANGED <<captured, main, fork, whead, wt, state, touched, mergeVars>>

\* HEAD moves to another commit and the working tree stays; a checkout that
\* changes files as well is a reset and edits.
UserResets ==
  /\ left.edits > 0 /\ left' = [left EXCEPT !.edits = @ - 1]
  /\ \E c \in 0..made : c # commit /\ commit' = c
  /\ UNCHANGED <<log, made, captured, main, fork, whead, wt, state, touched, mergeVars>>

-----------------------------------------------------------------------------
(* A worker.                                                               *)

\* The worktree is created with PreserveWorkingTree.
Fork(t) ==
  /\ pc = "run" /\ state[t] = "none"
  /\ state' = [state EXCEPT ![t] = "working"]
  /\ fork' = [fork EXCEPT ![t] = main]
  /\ wt' = [wt EXCEPT ![t] = main]
  /\ whead' = [whead EXCEPT ![t] = head]
  /\ UNCHANGED <<repoVars, main, touched, left, mergeVars>>

WorkerEdits(t) ==
  /\ state[t] = "working"
  /\ left.work[t] > 0 /\ left' = [left EXCEPT !.work[t] = @ - 1]
  /\ \E f \in Files, c \in Contents \cup {Absent} :
       c # wt[t][f] /\ wt' = [wt EXCEPT ![t][f] = c]
  /\ UNCHANGED <<repoVars, main, fork, whead, state, touched, mergeVars>>

WorkerCommits(t) ==
  /\ state[t] = "working" /\ whead[t] # wt[t]
  /\ whead' = [whead EXCEPT ![t] = wt[t]]
  /\ UNCHANGED <<repoVars, main, fork, wt, state, touched, left, mergeVars>>

\* The node's verifier accepts; the merges wait for the whole batch.
WorkerDone(t) ==
  /\ state[t] = "working"
  /\ state' = [state EXCEPT ![t] = "achieved"]
  /\ UNCHANGED <<repoVars, main, fork, whead, wt, touched, left, mergeVars>>

Join ==
  /\ pc = "run" /\ \A t \in Trees : state[t] = "achieved"
  /\ pc' = "check"
  /\ UNCHANGED <<repoVars, main, fork, whead, wt, state, touched, left,
                 cur, base, todo, item, clash, start, unread>>

-----------------------------------------------------------------------------
(* `merge_node_worktree`.                                                  *)

NextTree(t) == state[t] = "achieved" /\ \A u \in Trees : state[u] = "achieved" => t <= u

\* A step whose reading or writing fails.
Fault == left.faults > 0 /\ left' = [left EXCEPT !.faults = @ - 1]

\* HEAD is compared with the one captured at fan-out, if it was captured; a
\* rev-parse that fails now counts as moved.
HeadMoved(t) ==
  /\ pc = "check" /\ NextTree(t)
  /\ captured
  /\ \/ commit # 0 /\ left' = left
     \/ Fault
  /\ state' = [state EXCEPT ![t] = "failed"]
  /\ UNCHANGED <<repoVars, main, fork, whead, wt, touched, mergeVars>>

\* Mutant: the merges do not keep batch order.
HeadUnmovedAnyOrder(t) ==
  /\ pc = "check" /\ state[t] = "achieved"
  /\ captured => commit = 0
  /\ pc' = "context" /\ cur' = t
  /\ UNCHANGED <<repoVars, main, fork, whead, wt, state, touched, left,
                 base, todo, item, clash, start, unread>>

HeadUnmoved(t) ==
  /\ pc = "check" /\ NextTree(t)
  /\ captured => commit = 0
  /\ pc' = "context" /\ cur' = t
  /\ UNCHANGED <<repoVars, main, fork, whead, wt, state, touched, left,
                 base, todo, item, clash, start, unread>>

\* `get_apply_context`: what HEAD and the worktree's commit differ in, then
\* what the worktree has uncommitted.  The diff does not descend into an
\* untracked directory; the entry for the directory itself applies to nothing.
Untracked(t) ==
  {f \in Nested : wt[t][f] # Absent /\ \A g \in Nested : whead[t][g] = Absent}

ChangedCommitted(t) == {f \in Files : head[f] # whead[t][f]}

Changed(t) ==
  ChangedCommitted(t) \cup
  {f \in Files \ Untracked(t) : wt[t][f] # whead[t][f]}

\* A failed diff of the uncommitted changes is passed over.
GetApplyContext ==
  /\ pc = "context"
  /\ base' = head /\ start' = main /\ touched' = {} /\ unread' = {}
  /\ \/ todo' = Changed(cur) /\ left' = left
     \/ todo' = ChangedCommitted(cur) /\ Fault
  /\ clash' = {} /\ item' = NoItem
  /\ pc' = "apply"
  /\ UNCHANGED <<repoVars, main, fork, whead, wt, state, cur>>

\* Any other failure to open or compare the repositories fails the node.
ContextFails ==
  /\ pc = "context" /\ Fault
  /\ state' = [state EXCEPT ![cur] = "failed"]
  /\ pc' = "check" /\ cur' = NoTree
  /\ UNCHANGED <<repoVars, main, fork, whead, wt, touched, base, todo, item, clash,
                 start, unread>>

\* Mutant: whatever the main tree has is taken for untouched.
ReadFileBlind(f) ==
  /\ pc = "apply" /\ item = NoItem /\ f \in todo
  /\ todo' = todo \ {f}
  /\ item' = [file |-> f, theirs |-> wt[cur][f]]
  /\ UNCHANGED <<repoVars, main, fork, whead, wt, state, touched, left, cur,
                 pc, base, clash, start, unread>>

\* Mutant: the first conflict ends the merge.
ReadFileStops(f) ==
  LET clashes == main[f] \notin {base[f], wt[cur][f]} /\ base[f] # wt[cur][f] IN
  /\ pc = "apply" /\ item = NoItem /\ f \in todo
  /\ todo' = IF clashes THEN {} ELSE todo \ {f}
  /\ item' = IF main[f] = base[f] THEN [file |-> f, theirs |-> wt[cur][f]] ELSE NoItem
  /\ clash' = IF clashes THEN clash \cup {f} ELSE clash
  /\ UNCHANGED <<repoVars, main, fork, whead, wt, state, touched, left, cur,
                 pc, base, start, unread>>

\* The three versions are read; a failed read, or a failed `git show`, is None.
\* Main untouched: the worktree's version is written.  The same on both sides,
\* or only the main side changed: nothing is.  Otherwise a conflict.
ReadFile(f) ==
  /\ pc = "apply" /\ item = NoItem /\ f \in todo
  /\ todo' = todo \ {f}
  /\ \E theirs \in {wt[cur][f], Absent}, was \in {base[f], Absent},
        ours \in {main[f], Absent} :
       /\ IF theirs = wt[cur][f] /\ was = base[f] /\ ours = main[f]
            THEN left' = left ELSE Fault
       /\ unread' = unread \cup {<<f, v>> : v \in
              {v \in {"base", "ours"} : IF v = "base" THEN was # base[f] ELSE ours # main[f]}}
       /\ item' = IF was = ours THEN [file |-> f, theirs |-> theirs] ELSE NoItem
       /\ clash' = IF was # ours /\ ours # theirs /\ was # theirs
                     THEN clash \cup {f} ELSE clash
  /\ UNCHANGED <<repoVars, main, fork, whead, wt, state, touched, cur, pc, base, start>>

\* `apply_file_content`.  A failed write leaves the file as it was or with
\* part of the new content, a failed removal leaves it; either way the merge
\* goes on.
WriteFile ==
  /\ item # NoItem
  /\ item' = NoItem
  /\ \/ main' = [main EXCEPT ![item.file] = item.theirs] /\ left' = left
     \/ Fault /\ main' = main
     \/ /\ Fault /\ item.theirs # Absent
        /\ \E c \in Contents : main' = [main EXCEPT ![item.file] = c]
  /\ UNCHANGED <<repoVars, fork, whead, wt, state, touched, cur, pc, base, todo,
                 clash, start, unread>>

Applied == pc = "apply" /\ todo = {} /\ item = NoItem

\* Success removes the worktree; with conflicts the node fails and keeps it.
Settle ==
  /\ Applied
  /\ \/ /\ clash = {}
        /\ state' = [state EXCEPT ![cur] = "merged"]
        /\ wt' = [wt EXCEPT ![cur] = Gone] /\ whead' = [whead EXCEPT ![cur] = Gone]
     \/ /\ clash # {}
        /\ state' = [state EXCEPT ![cur] = "failed"]
        /\ UNCHANGED <<wt, whead>>
  /\ pc' = "check" /\ cur' = NoTree
  /\ base' = Gone /\ start' = Gone /\ clash' = {} /\ touched' = {} /\ unread' = {}
  /\ UNCHANGED <<repoVars, main, fork, left, todo, item>>

-----------------------------------------------------------------------------
Next ==
  \/ UserEdits \/ UserCommits \/ UserResets
  \/ \E t \in Trees :
       \/ Fork(t) \/ WorkerEdits(t) \/ WorkerCommits(t) \/ WorkerDone(t)
       \/ HeadMoved(t) \/ HeadUnmoved(t)
  \/ Join \/ GetApplyContext \/ ContextFails
  \/ \E f \in Files : ReadFile(f)
  \/ WriteFile \/ Settle

Spec == Init /\ [][Next]_vars

-----------------------------------------------------------------------------
(* Properties.                                                             *)

\* Every variable has its type, and a merge runs only for a worktree whose
\* node was achieved and that no later merge has overtaken.
TypeOK ==
  /\ log \in [0..MaxCommits -> Tree] /\ made \in 0..MaxCommits /\ commit \in 0..made
  /\ captured \in BOOLEAN
  /\ main \in Tree /\ base \in Tree /\ start \in Tree
  /\ {fork, whead, wt} \subseteq [Trees -> Tree]
  /\ state \in [Trees -> {"none", "working", "achieved", "merged", "failed"}]
  /\ pc \in {"run", "check", "context", "apply"}
  /\ IF pc \in {"context", "apply"} THEN cur \in Trees /\ NextTree(cur) ELSE cur = NoTree
  /\ todo \subseteq Files /\ clash \subseteq Files \ todo /\ touched \subseteq Files
  /\ unread \subseteq (Files \ todo) \X {"base", "ours"}
  /\ item = NoItem \/ (item.file \in Files \ (todo \cup clash) /\ pc = "apply")

\* The file looks absent on both sides: it is, or the read of it failed.
Blind(f) ==
  /\ base[f] = Absent \/ <<f, "base">> \in unread
  /\ start[f] = Absent \/ <<f, "ours">> \in unread

\* What was uncommitted in the main tree when a merge began, the user's work or
\* what the merge of another node had put there, is there during and after
\* the merge, unless the user edits it.  One failed read does not break this
\* for a file that HEAD and the main tree both have; it does for a new file
\* that cannot be read and for a deleted one that `git show` fails on.
UncommittedWorkKept ==
  pc = "apply" =>
    \A f \in Files \ touched :
      start[f] # base[f] /\ ~Blind(f) => main[f] = start[f]

Undisturbed == touched = {} /\ left.faults = MaxFaults

\* The three-way merge of one file, by its definition: a side that did not
\* change takes the other's version.
Conflict == "conflict"

\* The marker is no content.
ASSUME ConflictAssumption == Conflict \notin Contents \cup {Absent}

Merge3(origin, ours, theirs) ==
  CASE theirs = origin -> ours
    [] ours = origin -> theirs
    [] ours = theirs -> ours
    [] OTHER -> Conflict

\* A worktree that was forked from a clean main tree and brings no untracked
\* directory is merged by the definition, whatever the user and the merges of
\* other nodes have done to the main tree since: a file is reported as a
\* conflict exactly when it is one, and every other file has its merged content.
MergeIsThreeWay ==
  Applied /\ Undisturbed /\ fork[cur] = base /\ Untracked(cur) = {} =>
    \A f \in Files :
      LET m == Merge3(fork[cur][f], start[f], wt[cur][f]) IN
      IF m = Conflict THEN f \in clash ELSE f \notin clash /\ main[f] = m

\* A merge that stopped at conflicts has written some files and not others;
\* running it again over its own partial result writes nothing more and finds
\* the same conflicts.
RetryIsNoOp ==
  Applied /\ Undisturbed /\ head = base =>
    \A f \in Changed(cur) :
      LET theirs == wt[cur][f] IN
      /\ main[f] = base[f] => theirs = main[f]
      /\ f \in clash <=> main[f] \notin {base[f], theirs} /\ theirs # base[f]

\* "the changes now live in the main tree, so the worktree is dead weight -
\* remove it": a merge that succeeds has brought over every file the worker
\* changed.
ChangesLand ==
  Applied /\ Undisturbed /\ clash = {} =>
    \A f \in Files : wt[cur][f] # fork[cur][f] => main[f] = wt[cur][f]
=============================================================================
