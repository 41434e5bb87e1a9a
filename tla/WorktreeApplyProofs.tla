------------------------- MODULE WorktreeApplyProofs ------------------------
(***************************************************************************)
(* Correctness of the merge of a worker's worktree for any files, contents *)
(* and number of worktrees, with the user editing, committing and moving   *)
(* HEAD back, and reads and writes failing at any point.                   *)
(*                                                                         *)
(* The properties speak of a finished merge, or of what the user has not   *)
(* touched.  The invariant behind them says of every file how far the      *)
(* merge is with it: not reached, read and not yet written, or settled.    *)
(***************************************************************************)
EXTENDS WorktreeApply, TLAPS

Version == Contents \cup {Absent}

\* What is left of the bounds; a commit of the user's uses one up.
LeftOK ==
  /\ left \in [edits : Int, commits : Nat, faults : 0..MaxFaults,
               work : [Trees -> Int]]
  /\ made + left.commits = MaxCommits

\* Merging starts when every worker is done.
Joined ==
  pc # "run" => \A t \in Trees : state[t] \in {"achieved", "merged", "failed"}

\* The file that was read and is not written yet.
Reading(f) == item # NoItem /\ item.file = f

\* Such a file was untouched when the merge began, if the user keeps off it
\* and it was seen for what it is.
ItemInv ==
  item # NoItem =>
    /\ item \in [file : Files, theirs : Version]
    /\ item.file \notin touched /\ ~Blind(item.file) =>
         start[item.file] = base[item.file]

\* The list get_apply_context made, which later commits of the user's leave
\* alone.
Worklist ==
  {f \in Files : base[f] # whead[cur][f]} \cup
  {f \in Files \ Untracked(cur) : wt[cur][f] # whead[cur][f]}

\* How far an undisturbed merge is with file f.
FileInv(f) ==
  IF f \in todo \/ f \notin Worklist \/ Reading(f)
  THEN main[f] = start[f] /\ f \notin clash
  ELSE IF start[f] = base[f]
  THEN main[f] = wt[cur][f] /\ f \notin clash
  ELSE /\ main[f] = start[f]
       /\ f \in clash <=> wt[cur][f] \notin {start[f], base[f]}

MergeInv ==
  pc = "apply" /\ Undisturbed =>
    /\ todo \subseteq Worklist
    /\ item # NoItem => /\ item.file \in Worklist
                        /\ start[item.file] = base[item.file]
                        /\ item.theirs = wt[cur][item.file]
    /\ \A f \in Files : FileInv(f)

TypeInv == TypeOK /\ LeftOK /\ Joined

ApplyInv == TypeInv /\ ItemInv /\ UncommittedWorkKept /\ MergeInv

-----------------------------------------------------------------------------
(* Types.                                                                  *)

\* The repository's first tree is a tree.
LEMMA FirstTreeType == FirstTree \in Tree
<1>1. (CHOOSE c \in Contents : TRUE) \in Contents
  BY ApplyAssumption
<1> QED
  BY <1>1 DEF FirstTree, Tree

LEMMA GoneType == Gone \in Tree
  BY DEF Gone, Tree

\* A fault uses up one of its bound and nothing else.
LEMMA FaultLeft ==
  ASSUME LeftOK, Fault, made' = made
  PROVE  LeftOK' /\ left'.faults < MaxFaults /\ left' = [left EXCEPT !.faults = @ - 1]
  BY ApplyAssumption DEF LeftOK, Fault

LEMMA InitType == Init => TypeInv
<1> SUFFICES ASSUME Init PROVE TypeInv
  OBVIOUS
<1>1. fork \in [Trees -> Tree] /\ whead \in [Trees -> Tree] /\ wt \in [Trees -> Tree]
  BY FirstTreeType DEF Init
<1>2. TypeOK
  BY <1>1, FirstTreeType, GoneType, ApplyAssumption DEF Init, TypeOK
<1>3. LeftOK /\ Joined
  BY ApplyAssumption DEF Init, LeftOK, Joined
<1> QED
  BY <1>2, <1>3 DEF TypeInv

\* The user's edits and commits are within their bounds and leave the merge
\* alone.
LEMMA UserType ==
  ASSUME TypeInv, UserEdits \/ UserCommits \/ UserResets
  PROVE  TypeInv'
<1> USE ApplyAssumption
<1>0. TypeOK /\ LeftOK /\ Joined
  BY DEF TypeInv
<1>1. UNCHANGED <<captured, fork, whead, wt, state, cur, pc, base, todo, item, clash,
                  start, unread>>
  BY DEF UserEdits, UserCommits, UserResets, mergeVars, repoVars
<1>2. CASE UserEdits
  <2>1. PICK f \in Files, c \in Version :
          main' = [main EXCEPT ![f] = c] /\ touched' \subseteq touched \cup {f}
    BY <1>2 DEF UserEdits, Version
  <2>2. main' \in Tree /\ touched' \subseteq Files
    BY <2>1, <1>0 DEF TypeOK, Tree, Version
  <2>3. /\ UNCHANGED <<log, made, commit>>
        /\ left' = [left EXCEPT !.edits = @ - 1]
    BY <1>2 DEF UserEdits, repoVars
  <2>4. LeftOK'
    BY <2>3, <1>0 DEF LeftOK
  <2> QED
    BY <2>2, <2>3, <2>4, <1>0, <1>1 DEF TypeInv, TypeOK, Joined, NextTree
<1>3. CASE UserCommits
  <2>1. /\ left.commits > 0 /\ left' = [left EXCEPT !.commits = @ - 1]
        /\ made' = made + 1 /\ commit' = made + 1
        /\ log' = [log EXCEPT ![made + 1] = main] /\ UNCHANGED <<main, touched>>
    BY <1>3 DEF UserCommits
  <2>2. made \in 0..MaxCommits
    BY <1>0 DEF TypeOK
  <2>3. LeftOK' /\ made' \in 0..MaxCommits /\ commit' \in 0..made'
    BY <2>1, <2>2, <1>0 DEF LeftOK
  <2>4. log' \in [0..MaxCommits -> Tree]
    BY <2>1, <1>0 DEF TypeOK
  <2> QED
    BY <2>1, <2>3, <2>4, <1>0, <1>1 DEF TypeInv, TypeOK, Joined, NextTree
<1>4. CASE UserResets
  <2>1. /\ left' = [left EXCEPT !.edits = @ - 1] /\ commit' \in 0..made
        /\ UNCHANGED <<log, made, main, touched>>
    BY <1>4 DEF UserResets
  <2>2. LeftOK'
    BY <2>1, <1>0 DEF LeftOK
  <2> QED
    BY <2>1, <2>2, <1>0, <1>1 DEF TypeInv, TypeOK, Joined, NextTree
<1> QED
  BY <1>2, <1>3, <1>4

\* A worker's steps come before the merges.
LEMMA WorkerType ==
  ASSUME TypeInv, NEW t \in Trees,
         Fork(t) \/ WorkerEdits(t) \/ WorkerCommits(t) \/ WorkerDone(t)
  PROVE  TypeInv'
<1> USE ApplyAssumption
<1>0. TypeOK /\ LeftOK /\ Joined
  BY DEF TypeInv
<1>1. pc = "run" /\ cur = NoTree
  BY <1>0 DEF Fork, WorkerEdits, WorkerCommits, WorkerDone, Joined, TypeOK
<1>2. /\ UNCHANGED <<log, made, commit, captured, main, touched, cur, pc, base, todo,
                      item, clash, start, unread>>
      /\ state' \in [Trees -> {"none", "working", "achieved", "merged", "failed"}]
  BY <1>0 DEF Fork, WorkerEdits, WorkerCommits, WorkerDone, mergeVars, repoVars, TypeOK
<1>3. {fork', whead', wt'} \subseteq [Trees -> Tree]
  <2>1. CASE WorkerEdits(t)
    <3>1. PICK f \in Files, c \in Version : wt' = [wt EXCEPT ![t][f] = c]
      BY <2>1 DEF WorkerEdits, Version
    <3>2. wt' \in [Trees -> Tree]
      BY <3>1, <1>0 DEF TypeOK, Tree, Version
    <3> QED
      BY <3>2, <2>1, <1>0 DEF WorkerEdits, TypeOK
  <2>2. CASE ~WorkerEdits(t)
    <3>1. head \in Tree
      BY <1>0 DEF TypeOK, head
    <3> QED
      BY <3>1, <2>2, <1>0 DEF Fork, WorkerCommits, WorkerDone, TypeOK
  <2> QED
    BY <2>1, <2>2
<1>4. LeftOK'
  <2>1. left' = left \/ left' = [left EXCEPT !.work[t] = @ - 1]
    BY DEF Fork, WorkerEdits, WorkerCommits, WorkerDone
  <2> QED
    BY <2>1, <1>0, <1>2 DEF LeftOK
<1>5. TypeOK'
  BY <1>0, <1>1, <1>2, <1>3 DEF TypeOK
<1> QED
  BY <1>1, <1>2, <1>4, <1>5 DEF TypeInv, Joined

\* The steps between merges.
LEMMA DispatchType ==
  ASSUME TypeInv,
         \/ Join \/ Settle \/ ContextFails
         \/ \E t \in Trees : HeadMoved(t) \/ HeadUnmoved(t)
  PROVE  TypeInv'
<1> USE ApplyAssumption
<1>0. TypeOK /\ LeftOK /\ Joined
  BY DEF TypeInv
<1>1. UNCHANGED <<log, made, commit, captured, main, fork, todo, item>>
  BY DEF Join, Settle, ContextFails, HeadMoved, HeadUnmoved, mergeVars, repoVars
<1>2. LeftOK'
  <2>1. left' = left \/ Fault
    BY DEF Join, Settle, ContextFails, HeadMoved, HeadUnmoved
  <2>2. CASE left' = left
    BY <2>2, <1>0, <1>1 DEF LeftOK
  <2>3. CASE Fault
    BY <2>3, <1>0, <1>1, FaultLeft
  <2> QED
    BY <2>1, <2>2, <2>3
<1>3. CASE Join
  BY <1>3, <1>0, <1>1, <1>2 DEF Join, TypeInv, TypeOK, Joined
<1>4. CASE Settle \/ ContextFails
  <2>1. /\ cur \in Trees /\ pc \in {"context", "apply"} /\ item = NoItem
        /\ pc' = "check" /\ cur' = NoTree
        /\ base' \in {base, Gone} /\ start' \in {start, Gone} /\ clash' \in {clash, {}}
        /\ touched' \in {touched, {}} /\ unread' \in {unread, {}}
    BY <1>4, <1>0 DEF Settle, ContextFails, Applied, TypeOK
  <2>2. /\ state' \in {[state EXCEPT ![cur] = "merged"], [state EXCEPT ![cur] = "failed"]}
        /\ wt' \in {wt, [wt EXCEPT ![cur] = Gone]}
        /\ whead' \in {whead, [whead EXCEPT ![cur] = Gone]}
    BY <1>4 DEF Settle, ContextFails
  <2>3. /\ state' \in [Trees -> {"none", "working", "achieved", "merged", "failed"}]
        /\ wt' \in [Trees -> Tree] /\ whead' \in [Trees -> Tree]
    BY <2>1, <2>2, <1>0, GoneType DEF TypeOK
  <2>4. Joined'
    BY <2>1, <2>2, <1>0 DEF Joined, TypeOK
  <2>5. base' \in Tree /\ start' \in Tree
    BY <2>1, <1>0, GoneType DEF TypeOK
  <2>6. TypeOK'
    BY <2>1, <2>3, <2>5, <1>0, <1>1 DEF TypeOK
  <2> QED
    BY <2>4, <2>6, <1>2 DEF TypeInv
<1>5. ASSUME NEW t \in Trees, HeadMoved(t) PROVE TypeInv'
  <2>1. /\ pc = "check" /\ pc' = pc /\ cur' = cur
        /\ state' = [state EXCEPT ![t] = "failed"]
        /\ UNCHANGED <<whead, wt, touched, base, clash, start, unread>>
    BY <1>5 DEF HeadMoved, mergeVars
  <2> QED
    BY <2>1, <1>0, <1>1, <1>2 DEF TypeInv, TypeOK, Joined
<1>6. ASSUME NEW t \in Trees, HeadUnmoved(t) PROVE TypeInv'
  <2>1. /\ pc = "check" /\ pc' = "context" /\ cur' = t /\ NextTree(t) /\ state' = state
        /\ UNCHANGED <<whead, wt, touched, base, clash, start, unread>>
    BY <1>6 DEF HeadUnmoved
  <2>2. item = NoItem
    BY <2>1, <1>0 DEF TypeOK
  <2> QED
    BY <2>1, <2>2, <1>0, <1>1, <1>2 DEF TypeInv, TypeOK, Joined, NextTree
<1> QED
  BY <1>3, <1>4, <1>5, <1>6

\* The steps of one merge.
LEMMA MergeType ==
  ASSUME TypeInv, ItemInv,
         GetApplyContext \/ WriteFile \/ \E f \in Files : ReadFile(f)
  PROVE  TypeInv'
<1> USE ApplyAssumption
<1>0. TypeOK /\ LeftOK /\ Joined
  BY DEF TypeInv
<1>1. UNCHANGED <<log, made, commit, captured, fork, whead, wt, state, cur>>
  BY DEF GetApplyContext, WriteFile, ReadFile, repoVars
<1>2. LeftOK'
  <2>1. left' = left \/ Fault
    BY DEF GetApplyContext, WriteFile, ReadFile
  <2>2. CASE left' = left
    BY <2>2, <1>0, <1>1 DEF LeftOK
  <2>3. CASE Fault
    BY <2>3, <1>0, <1>1, FaultLeft
  <2> QED
    BY <2>1, <2>2, <2>3
<1>3. CASE GetApplyContext
  <2>0. head \in Tree
    BY <1>0 DEF TypeOK, head
  <2>1. /\ base' \in Tree /\ start' = main /\ touched' = {} /\ main' = main
        /\ todo' \subseteq Files /\ clash' = {} /\ item' = NoItem /\ unread' = {}
        /\ pc = "context" /\ pc' = "apply"
    BY <1>3, <2>0 DEF GetApplyContext, Changed, ChangedCommitted
  <2> QED
    BY <2>1, <1>0, <1>1, <1>2 DEF TypeInv, TypeOK, Joined, NextTree
<1>4. CASE WriteFile
  <2>1. /\ item # NoItem /\ item' = NoItem
        /\ \/ main' \in {main, [main EXCEPT ![item.file] = item.theirs]}
           \/ \E c \in Contents : main' = [main EXCEPT ![item.file] = c]
        /\ UNCHANGED <<touched, pc, base, todo, clash, start, unread>>
    BY <1>4 DEF WriteFile
  <2>2. item \in [file : Files, theirs : Version]
    BY <2>1 DEF ItemInv
  <2>3. main' \in Tree
    BY <2>1, <2>2, <1>0 DEF TypeOK, Tree, Version
  <2> QED
    BY <2>1, <2>3, <1>0, <1>1, <1>2 DEF TypeInv, TypeOK, Joined, NextTree
<1>5. ASSUME NEW f \in Files, ReadFile(f) PROVE TypeInv'
  <2>1. /\ pc = "apply" /\ f \in todo /\ todo' = todo \ {f}
        /\ UNCHANGED <<main, touched, pc, base, start>>
        /\ unread' \subseteq unread \cup ({f} \X {"base", "ours"})
    BY <1>5 DEF ReadFile
  <2>2. /\ clash' \subseteq clash \cup {f}
        /\ item' = NoItem \/ (item'.file = f /\ clash' = clash)
    BY <1>5 DEF ReadFile
  <2>3. /\ todo' \subseteq Files /\ clash' \subseteq Files \ todo'
        /\ unread' \subseteq (Files \ todo') \X {"base", "ours"}
        /\ item' = NoItem \/ (item'.file \in Files \ (todo' \cup clash') /\ pc' = "apply")
    BY <2>1, <2>2, <1>0 DEF TypeOK
  <2> QED
    BY <2>1, <2>3, <1>0, <1>1, <1>2 DEF TypeInv, TypeOK, Joined, NextTree
<1> QED
  BY <1>3, <1>4, <1>5

-----------------------------------------------------------------------------
(* The merge.                                                              *)

\* While a merge runs its worktree, base and start do not change, so neither
\* does its list of files.
LEMMA SameWorklist ==
  ASSUME UNCHANGED <<cur, base, whead, wt>>
  PROVE  Worklist' = Worklist
  BY DEF Worklist, Untracked

\* Outside the merges there is nothing to show.
LEMMA NotMerging ==
  ASSUME TypeOK', pc' # "apply"
  PROVE  (ItemInv /\ UncommittedWorkKept /\ MergeInv)'
  BY DEF TypeOK, ItemInv, UncommittedWorkKept, MergeInv

\* A step that touches nothing of a running merge.
LEMMA MergeAlone ==
  ASSUME ItemInv, UncommittedWorkKept, MergeInv,
         UNCHANGED <<main, touched, mergeVars, whead, wt>>, left'.faults = left.faults
  PROVE  (ItemInv /\ UncommittedWorkKept /\ MergeInv)'
<1> USE DEF mergeVars
<1>1. Worklist' = Worklist
  BY SameWorklist
<1>2. ItemInv' /\ UncommittedWorkKept'
  BY DEF ItemInv, UncommittedWorkKept, Blind
<1>3. MergeInv'
  BY <1>1 DEF MergeInv, Undisturbed, FileInv, Reading
<1> QED
  BY <1>2, <1>3

\* An edit of the user's takes its file out of what is promised.
LEMMA UserKeeps ==
  ASSUME ApplyInv, UserEdits \/ UserCommits \/ UserResets
  PROVE  (ItemInv /\ UncommittedWorkKept /\ MergeInv)'
<1>0. TypeOK /\ LeftOK /\ ItemInv /\ UncommittedWorkKept /\ MergeInv
  BY DEF ApplyInv, TypeInv
<1>1. CASE UserEdits
  <2>1. PICK f \in Files, c \in Version :
          /\ main' = [main EXCEPT ![f] = c]
          /\ touched' = IF pc = "apply" THEN touched \cup {f} ELSE {}
    BY <1>1 DEF UserEdits, Version
  <2>2. UNCHANGED <<whead, wt, cur, pc, base, todo, item, clash, start, unread>>
    BY <1>1 DEF UserEdits, mergeVars
  <2>3. ItemInv'
    <3>1. item # NoItem => pc = "apply"
      BY <1>0 DEF TypeOK
    <3> QED
      BY <3>1, <2>1, <2>2, <1>0 DEF ItemInv, Blind
  <2>4. UncommittedWorkKept'
    BY <2>1, <2>2, <1>0 DEF UncommittedWorkKept, TypeOK, Tree, Blind
  <2>5. MergeInv'
    BY <2>1, <2>2 DEF MergeInv, Undisturbed
  <2> QED
    BY <2>3, <2>4, <2>5
<1>2. CASE UserCommits \/ UserResets
  <2>1. /\ UNCHANGED <<main, touched, mergeVars, whead, wt>>
        /\ left' \in {[left EXCEPT !.commits = @ - 1], [left EXCEPT !.edits = @ - 1]}
    BY <1>2 DEF UserCommits, UserResets
  <2>2. left'.faults = left.faults
    BY <2>1, <1>0 DEF LeftOK
  <2> QED
    BY <2>1, <2>2, <1>0, MergeAlone
<1> QED
  BY <1>1, <1>2

\* A merge begins with nothing written.
LEMMA ContextKeeps ==
  ASSUME ApplyInv, GetApplyContext
  PROVE  (ItemInv /\ UncommittedWorkKept /\ MergeInv)'
<1>0. LeftOK
  BY DEF ApplyInv, TypeInv
<1>1. /\ base' = head /\ start' = main /\ main' = main /\ touched' = {}
      /\ (todo' = Changed(cur) \/ Fault) /\ clash' = {} /\ item' = NoItem
      /\ UNCHANGED <<cur, whead, wt, made>>
  BY DEF GetApplyContext, repoVars
<1>2. Worklist' = Changed(cur)
  BY <1>1 DEF Worklist, Changed, ChangedCommitted, Untracked
<1>3. ItemInv' /\ UncommittedWorkKept'
  BY <1>1 DEF ItemInv, UncommittedWorkKept
<1>4. CASE todo' = Changed(cur)
  BY <1>1, <1>2, <1>3, <1>4 DEF MergeInv, FileInv, Reading
<1>5. CASE Fault
  <2>1. left'.faults < MaxFaults
    BY <1>0, <1>1, <1>5, FaultLeft
  <2> QED
    BY <2>1, <1>0, <1>3, ApplyAssumption DEF MergeInv, Undisturbed, LeftOK
<1> QED
  BY <1>1, <1>4, <1>5

\* Reading a file settles it, unless it has to be written.
LEMMA ReadKeeps ==
  ASSUME ApplyInv, NEW f \in Files, ReadFile(f)
  PROVE  (ItemInv /\ UncommittedWorkKept /\ MergeInv)'
<1> USE ApplyAssumption
<1>0. TypeOK /\ LeftOK /\ ItemInv /\ UncommittedWorkKept /\ MergeInv
  BY DEF ApplyInv, TypeInv
<1>1. /\ pc = "apply" /\ item = NoItem /\ f \in todo /\ todo' = todo \ {f}
      /\ UNCHANGED <<main, whead, wt, touched, cur, pc, base, start>>
  BY DEF ReadFile
<1>2. PICK theirs \in {wt[cur][f], Absent}, was \in {base[f], Absent},
           ours \in {main[f], Absent} :
        /\ IF theirs = wt[cur][f] /\ was = base[f] /\ ours = main[f]
             THEN left' = left ELSE Fault
        /\ unread' = unread \cup {<<f, v>> : v \in
              {v \in {"base", "ours"} : IF v = "base" THEN was # base[f] ELSE ours # main[f]}}
        /\ item' = IF was = ours THEN [file |-> f, theirs |-> theirs] ELSE NoItem
        /\ clash' = IF was # ours /\ ours # theirs /\ was # theirs
                      THEN clash \cup {f} ELSE clash
  BY DEF ReadFile
<1>3. theirs \in Version /\ wt[cur][f] \in Version /\ cur \in Trees
  <2>1. cur \in Trees /\ wt \in [Trees -> Tree]
    BY <1>0, <1>1 DEF TypeOK
  <2>2. wt[cur][f] \in Version /\ Absent \in Version
    BY <2>1 DEF Tree, Version
  <2> QED
    BY <2>1, <2>2
<1>a. /\ unread \subseteq unread'
      /\ was # base[f] => <<f, "base">> \in unread'
      /\ ours # main[f] => <<f, "ours">> \in unread'
  BY <1>2
<1>b. \A g \in Files : Blind(g) => Blind(g)'
  BY <1>a, <1>1 DEF Blind
<1>4. ItemInv'
  <2>1. CASE was = ours
    <3>1. item' = [file |-> f, theirs |-> theirs]
      BY <2>1, <1>2
    <3>2. f \notin touched /\ ~Blind(f)' => start[f] = base[f]
      <4> SUFFICES ASSUME f \notin touched, ~Blind(f)', start[f] # base[f] PROVE FALSE
        OBVIOUS
      <4>1. main[f] = start[f]
        BY <1>0, <1>1, <1>b DEF UncommittedWorkKept
      <4>2. was # base[f] \/ ours # main[f]
        BY <4>1, <2>1
      <4>3. was = Absent /\ ours = Absent
        BY <4>2, <2>1, <1>2
      <4> QED
        BY <4>1, <4>3, <1>a, <1>1 DEF Blind
    <3> QED
      BY <3>1, <3>2, <1>1, <1>3 DEF ItemInv
  <2>2. CASE was # ours
    BY <2>2, <1>2 DEF ItemInv
  <2> QED
    BY <2>1, <2>2
<1>5. UncommittedWorkKept'
  BY <1>0, <1>1, <1>b DEF UncommittedWorkKept
<1>6. MergeInv'
  <2> SUFFICES ASSUME touched = {}, left'.faults = MaxFaults
               PROVE  (/\ todo \subseteq Worklist
                       /\ item # NoItem => /\ item.file \in Worklist
                                           /\ start[item.file] = base[item.file]
                                           /\ item.theirs = wt[cur][item.file]
                       /\ \A g \in Files : FileInv(g))'
    BY <1>1 DEF MergeInv, Undisturbed
  <2>a. ~Fault
    BY <1>0, FaultLeft, ApplyAssumption DEF ReadFile, repoVars, LeftOK
  <2>1. theirs = wt[cur][f] /\ was = base[f] /\ ours = main[f] /\ left' = left
    BY <2>a, <1>2
  <2>2. /\ todo \subseteq Worklist /\ \A g \in Files : FileInv(g)
    BY <1>0, <1>1, <2>1 DEF MergeInv, Undisturbed
  <2>3. Worklist' = Worklist
    BY <1>1, SameWorklist
  <2>4. main[f] = start[f] /\ f \notin clash /\ f \in Worklist
    BY <2>2, <1>1 DEF FileInv
  <2>5. item' # NoItem => item' = [file |-> f, theirs |-> theirs] /\ main[f] = base[f]
    BY <1>2, <2>1
  <2>6. main[f] = base[f] => item' = [file |-> f, theirs |-> theirs] /\ item' # NoItem
    BY <1>2, <2>1, <1>3 DEF NoItem
  <2>7. /\ todo' \subseteq Worklist'
        /\ item' # NoItem => /\ item'.file \in Worklist'
                             /\ start'[item'.file] = base'[item'.file]
                             /\ item'.theirs = wt'[cur'][item'.file]
    BY <2>1, <2>2, <2>3, <2>4, <2>5, <1>1
  <2>8. FileInv(f)'
    <3>1. CASE main[f] = base[f]
      BY <3>1, <2>1, <2>4, <2>6, <1>1, <1>2 DEF FileInv, Reading
    <3>2. CASE main[f] # base[f]
      <4>1. item' = NoItem
        BY <3>2, <1>2, <2>1
      <4> QED
        BY <3>2, <4>1, <2>1, <2>3, <2>4, <1>1, <1>2 DEF FileInv, Reading
    <3> QED
      BY <3>1, <3>2
  <2>9. ASSUME NEW g \in Files \ {f} PROVE FileInv(g)'
    <3>1. FileInv(g) /\ ~Reading(g)
      BY <2>2, <1>1 DEF Reading
    <3>2. ~Reading(g)' /\ (g \in clash' <=> g \in clash) /\ (g \in todo' <=> g \in todo)
      BY <2>5, <1>1, <1>2 DEF Reading
    <3> QED
      BY <3>1, <3>2, <2>3, <1>1 DEF FileInv
  <2> QED
    BY <2>7, <2>8, <2>9
<1> QED
  BY <1>4, <1>5, <1>6

\* Writing a file settles it: what was there is what the merge began with and
\* what HEAD has.
LEMMA WriteKeeps ==
  ASSUME ApplyInv, WriteFile
  PROVE  (ItemInv /\ UncommittedWorkKept /\ MergeInv)'
<1> USE ApplyAssumption
<1>0. TypeOK /\ LeftOK /\ ItemInv /\ UncommittedWorkKept /\ MergeInv
  BY DEF ApplyInv, TypeInv
<1>a. item # NoItem
  BY DEF WriteFile
<1>b. PICK f \in Files : f = item.file
  BY <1>0, <1>a DEF ItemInv
<1>1. /\ item # NoItem /\ item' = NoItem
      /\ \/ main' = [main EXCEPT ![f] = item.theirs] /\ left' = left
         \/ Fault /\ (main' = main \/ \E c \in Contents : main' = [main EXCEPT ![f] = c])
      /\ UNCHANGED <<whead, wt, touched, cur, pc, base, todo, clash, start, unread, made>>
  BY <1>b DEF WriteFile, repoVars
<1>2. /\ f \in Files /\ pc = "apply" /\ f \notin todo /\ f \notin clash
      /\ f \notin touched /\ ~Blind(f) => start[f] = base[f]
  BY <1>0, <1>1, <1>b DEF TypeOK, ItemInv
<1>3. \A g \in Files \ {f} : main'[g] = main[g]
  BY <1>0, <1>1 DEF TypeOK, Tree
<1>4. ItemInv'
  BY <1>1 DEF ItemInv
<1>5. UncommittedWorkKept'
  BY <1>0, <1>1, <1>2, <1>3 DEF UncommittedWorkKept, Blind
<1>6. MergeInv'
  <2> SUFFICES ASSUME touched = {}, left'.faults = MaxFaults
               PROVE  (todo \subseteq Worklist /\ \A g \in Files : FileInv(g))'
    BY <1>1 DEF MergeInv, Undisturbed
  <2>a. ~Fault
    BY <1>0, <1>1, FaultLeft, ApplyAssumption DEF LeftOK
  <2>1. main' = [main EXCEPT ![f] = item.theirs] /\ left' = left
    BY <2>a, <1>1
  <2>2. /\ todo \subseteq Worklist /\ \A g \in Files : FileInv(g)
        /\ f \in Worklist /\ start[f] = base[f] /\ item.theirs = wt[cur][f]
    BY <1>0, <1>1, <1>2, <2>1, <1>b DEF MergeInv, Undisturbed
  <2>3. Worklist' = Worklist
    BY <1>1, SameWorklist
  <2>4. main'[f] = wt[cur][f]
    BY <2>1, <2>2, <1>0, <1>2 DEF TypeOK, Tree
  <2>5. FileInv(f)'
    BY <2>2, <2>3, <2>4, <1>1, <1>2 DEF FileInv, Reading
  <2>6. ASSUME NEW g \in Files \ {f} PROVE FileInv(g)'
    <3>1. FileInv(g) /\ ~Reading(g)
      BY <2>2, <1>b DEF Reading
    <3> QED
      BY <3>1, <2>3, <1>1, <1>3 DEF FileInv, Reading
  <2> QED
    BY <2>2, <2>3, <2>5, <2>6, <1>1
<1> QED
  BY <1>4, <1>5, <1>6

-----------------------------------------------------------------------------
(* The theorems.                                                           *)

LEMMA InitApply == Init => ApplyInv
  BY InitType DEF ApplyInv, Init, ItemInv, UncommittedWorkKept, MergeInv

LEMMA NextApply == ApplyInv /\ [Next]_vars => ApplyInv'
<1> SUFFICES ASSUME ApplyInv, [Next]_vars PROVE ApplyInv'
  OBVIOUS
<1>0. TypeInv /\ TypeOK /\ Joined /\ ItemInv /\ UncommittedWorkKept /\ MergeInv
  BY DEF ApplyInv, TypeInv
<1>1. CASE UNCHANGED vars
  <2>1. TypeInv'
    BY <1>0, <1>1 DEF vars, mergeVars, repoVars, TypeInv, TypeOK, LeftOK, Joined, NextTree
  <2>2. (ItemInv /\ UncommittedWorkKept /\ MergeInv)'
    BY <1>0, <1>1, MergeAlone DEF vars
  <2> QED
    BY <2>1, <2>2 DEF ApplyInv
<1>2. CASE UserEdits \/ UserCommits \/ UserResets
  BY <1>0, <1>2, UserType, UserKeeps DEF ApplyInv
<1>3. ASSUME NEW t \in Trees,
             Fork(t) \/ WorkerEdits(t) \/ WorkerCommits(t) \/ WorkerDone(t)
      PROVE  ApplyInv'
  <2>1. TypeInv'
    BY <1>0, <1>3, WorkerType
  <2>2. pc' # "apply"
    BY <1>0, <1>3 DEF Fork, WorkerEdits, WorkerCommits, WorkerDone, mergeVars,
                      Joined, TypeOK
  <2> QED
    BY <2>1, <2>2, NotMerging DEF ApplyInv, TypeInv
<1>4. CASE \/ Join \/ Settle \/ ContextFails
           \/ \E t \in Trees : HeadMoved(t) \/ HeadUnmoved(t)
  <2>1. TypeInv'
    BY <1>0, <1>4, DispatchType
  <2>2. pc' # "apply"
    BY <1>4 DEF Join, Settle, ContextFails, HeadMoved, HeadUnmoved, mergeVars
  <2> QED
    BY <2>1, <2>2, NotMerging DEF ApplyInv, TypeInv
<1>5. CASE GetApplyContext \/ WriteFile \/ \E f \in Files : ReadFile(f)
  <2>1. TypeInv'
    BY <1>0, <1>5, MergeType
  <2>2. (ItemInv /\ UncommittedWorkKept /\ MergeInv)'
    BY <1>5, ContextKeeps, WriteKeeps, ReadKeeps
  <2> QED
    BY <2>1, <2>2 DEF ApplyInv
<1> QED
  BY <1>1, <1>2, <1>3, <1>4, <1>5 DEF Next

\* The inductive invariant holds in every reachable state.
THEOREM ApplyInductive == Spec => []ApplyInv
  BY InitApply, NextApply, PTL DEF Spec

\* Merges run in batch order, one at a time, for achieved nodes only.
THEOREM ApplyTypeCorrect == Spec => []TypeOK
<1>1. ApplyInv => TypeOK
  BY DEF ApplyInv, TypeInv
<1> QED
  BY <1>1, ApplyInductive, PTL

\* No merge overwrites uncommitted work, the user's or another node's, that it
\* saw; what it can miss is a file that looks absent on both sides because
\* reading it failed.
THEOREM ApplyKeepsUncommitted == Spec => []UncommittedWorkKept
<1>1. ApplyInv => UncommittedWorkKept
  BY DEF ApplyInv
<1> QED
  BY <1>1, ApplyInductive, PTL

\* A finished merge has settled every file of its list.
LEMMA AppliedFiles ==
  ASSUME ApplyInv, Applied, Undisturbed, NEW f \in Files
  PROVE  /\ f \notin Worklist => main[f] = start[f] /\ f \notin clash
         /\ f \in Worklist /\ start[f] = base[f] =>
              main[f] = wt[cur][f] /\ f \notin clash
         /\ f \in Worklist /\ start[f] # base[f] =>
              /\ main[f] = start[f]
              /\ f \in clash <=> wt[cur][f] \notin {start[f], base[f]}
<1>1. FileInv(f) /\ f \notin todo /\ ~Reading(f)
  BY DEF ApplyInv, MergeInv, Applied, Reading
<1> QED
  BY <1>1 DEF FileInv

\* Every worktree forked from a clean tree is merged by the definition of a
\* three-way merge, file by file.
THEOREM ApplyMergesThreeWay == Spec => []MergeIsThreeWay
<1>1. ApplyInv => MergeIsThreeWay
  <2> SUFFICES ASSUME ApplyInv, Applied, Undisturbed, fork[cur] = base,
                      Untracked(cur) = {}, NEW f \in Files
               PROVE  LET m == Merge3(fork[cur][f], start[f], wt[cur][f]) IN
                      IF m = Conflict THEN f \in clash
                                      ELSE f \notin clash /\ main[f] = m
    BY DEF MergeIsThreeWay
  <2>1. start[f] \in Version /\ wt[cur][f] \in Version
    BY DEF ApplyInv, TypeInv, TypeOK, Tree, Version, Applied
  <2>2. start[f] # Conflict /\ wt[cur][f] # Conflict
    BY <2>1, ConflictAssumption DEF Version
  <2>3. f \notin Worklist => wt[cur][f] = base[f]
    BY DEF Worklist
  <2> QED
    BY <2>2, <2>3, AppliedFiles DEF Merge3
<1> QED
  BY <1>1, ApplyInductive, PTL

\* Running a merge again over its own result changes nothing and reports the
\* same conflicts.
THEOREM ApplyRetryIsNoOp == Spec => []RetryIsNoOp
<1>1. ApplyInv => RetryIsNoOp
  <2> SUFFICES ASSUME ApplyInv, Applied, Undisturbed, head = base,
                      NEW f \in Changed(cur)
               PROVE  /\ main[f] = base[f] => wt[cur][f] = main[f]
                      /\ f \in clash <=> /\ main[f] \notin {base[f], wt[cur][f]}
                                         /\ wt[cur][f] # base[f]
    BY DEF RetryIsNoOp
  <2>1. f \in Files /\ f \in Worklist
    BY DEF Changed, ChangedCommitted, Worklist
  <2> QED
    BY <2>1, AppliedFiles
<1> QED
  BY <1>1, ApplyInductive, PTL
=============================================================================
