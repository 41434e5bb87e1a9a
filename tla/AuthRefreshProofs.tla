------------------------- MODULE AuthRefreshProofs -------------------------
(***************************************************************************)
(* Theorems about AuthRefresh, for any number of processes, tasks, grants  *)
(* and events and for every choice of callers: the state is well typed,    *)
(* one task at a time spends a refresh token unless its lock file was      *)
(* unlinked, a tombstone has a cause, the stored token is live, and no     *)
(* refresh is on the wire across an acknowledged sleep.                    *)
(***************************************************************************)
EXTENDS AuthRefresh, FiniteSetTheorems, FunctionTheorems, TLAPS

\* The task has passed revalidate_lock_or_reacquire (or is about to, with the
\* lock it just took): the file it holds should be the one the path names.
Secure(t) ==
  \/ pc[t] \in {"ready", "claimed", "wire", "grace", "apply"}
  \/ pc[t] = "again" /\ lk[t] = "locked"

\* Only the login flow keeps a second descriptor.
OuterInv ==
  "login" \notin Events => \A t \in Tasks : outer[t] = NoInode /\ pc[t] # "flow"

\* A request that is under way runs in a process.
HomeInv == \A t \in Tasks : pc[t] # "idle" => home[t] \in Procs

\* The descriptor is open from the wait for the flock to its release, and the
\* chain is past FirstLock only with the lock.
FdInv ==
  \A t \in Tasks :
    /\ IF lk[t] \in {"wait", "stamp", "locked"} THEN fd[t] \in Inodes ELSE fd[t] = NoInode
    /\ pc[t] \in {"held", "ready", "claimed", "wire", "grace", "apply"} => lk[t] = "locked"
    /\ pc[t] \in {"idle", "mutex"} => lk[t] = "out"

\* flock: one holder per inode.
FlockInv ==
  \A i \in Inodes : \A t, u \in Tasks : Holds(t, i) /\ Holds(u, i) => t = u

\* Until one of them is broken, every secure task has the file at the path.
SecureInv ==
  "broken" \in mishaps \/ \A t \in Tasks : Secure(t) => fd[t] = path

LockInv == OuterInv /\ HomeInv /\ FdInv /\ FlockInv /\ SecureInv

\* Before any mishap: there is a stored token and it is live, or a task is
\* about to replace it by a live one; what is on the wire is the stored token;
\* what is about to be stored is live.
GrantInv ==
  mishaps = {} =>
    /\ disk # 0
    /\ \A t \in Tasks : pc[t] # "grace"
    /\ \A t \in Tasks : pc[t] = "wire" => tok[t] = disk /\ disk \in live
    /\ \A t \in Tasks : pc[t] = "apply" => tok[t] \in live
    /\ disk \in live \/ \E t \in Tasks : pc[t] = "apply" /\ tok[t] # disk
    /\ \A p \in Procs : tomb[p] = 0

\* The gate is up from before the ack is held to the wake, and the ack is
\* given in time only when nothing is on the wire.
SleepInv ==
  /\ \A p \in Procs : power[p] # "awake" => gate[p]
  /\ \A t \in Tasks : pc[t] \in {"wire", "grace"} => power[home[t]] # "acked"

-----------------------------------------------------------------------------
(* The lock file.                                                          *)

\* The values of a function on the tasks are finitely many, no more than them.
LEMMA TaskImage ==
  ASSUME NEW S, NEW f \in [Tasks -> S]
  PROVE  IsFiniteSet(Range(f)) /\ Cardinality(Range(f)) <= Cardinality(Tasks)
<1>1. f \in Surjection(Tasks, Range(f))
  BY Fun_RangeProperties
<1> QED BY <1>1, FS_Surjection, InodeAssumption

\* Opening auth.json.lock finds an inode: the one at the path, or a free one.
LEMMA OpenedIsInode ==
  ASSUME LockTypeOK, OuterInv
  PROVE  Opened \in Inodes
<1>1. CASE path # NoInode
  BY <1>1 DEF LockTypeOK, Opened
<1>2. CASE path = NoInode
  <2>1. SUFFICES \E i \in Inodes : Unused(i)
    BY <1>2 DEF Opened
  <2>2. SUFFICES ASSUME \A i \in Inodes : ~Unused(i)
                 PROVE  FALSE
    OBVIOUS
  <2>3. fd \in [Tasks -> Inodes \cup {NoInode}] /\ outer \in [Tasks -> Inodes \cup {NoInode}]
    BY DEF LockTypeOK
  <2>4. /\ IsFiniteSet(Range(fd)) /\ Cardinality(Range(fd)) <= Cardinality(Tasks)
        /\ IsFiniteSet(Range(outer)) /\ Cardinality(Range(outer)) <= Cardinality(Tasks)
    BY <2>3, TaskImage
  <2>5. Inodes \subseteq Range(fd) \cup Range(outer)
    BY <1>2, <2>2, <2>3, LockAssumption DEF Unused, Range
  <2>6. Cardinality(Tasks) \in Nat
    BY FS_CardinalityType, InodeAssumption
  <2>7. CASE "login" \in Events
    <3>1. /\ IsFiniteSet(Range(fd) \cup Range(outer))
          /\ Cardinality(Range(fd) \cup Range(outer)) =
               Cardinality(Range(fd)) + Cardinality(Range(outer))
                 - Cardinality(Range(fd) \cap Range(outer))
      BY <2>4, FS_Union
    <3>2. IsFiniteSet(Range(fd) \cap Range(outer))
      BY <2>4, FS_Intersection
    <3>3. /\ Cardinality(Range(fd)) \in Nat /\ Cardinality(Range(outer)) \in Nat
          /\ Cardinality(Range(fd) \cap Range(outer)) \in Nat
      BY <2>4, <3>2, FS_CardinalityType
    <3>4. /\ IsFiniteSet(Inodes)
          /\ Cardinality(Inodes) <= Cardinality(Range(fd) \cup Range(outer))
      BY <2>5, <3>1, FS_Subset
    <3>5. Cardinality(Inodes) \in Nat
      BY <3>4, FS_CardinalityType
    <3>6. Cardinality(Inodes) > Cardinality(Tasks) * 2
      BY <2>7, <3>4, InodeAssumption
    <3> QED BY <2>4, <2>6, <3>1, <3>3, <3>4, <3>5, <3>6
  <2>8. CASE "login" \notin Events
    <3>1. Inodes \subseteq Range(fd)
      BY <2>3, <2>5, <2>8, LockAssumption DEF OuterInv, Range
    <3>2. IsFiniteSet(Inodes) /\ Cardinality(Inodes) <= Cardinality(Range(fd))
      BY <2>4, <3>1, FS_Subset
    <3>3. Cardinality(Inodes) \in Nat /\ Cardinality(Range(fd)) \in Nat
      BY <2>4, <3>2, FS_CardinalityType
    <3>4. Cardinality(Inodes) > Cardinality(Tasks) * 1
      BY <2>8, <3>2, InodeAssumption
    <3> QED BY <2>4, <2>6, <3>2, <3>3, <3>4
  <2> QED BY <2>7, <2>8
<1> QED BY <1>1, <1>2

-----------------------------------------------------------------------------
(* What a step of one task does to the lock invariants.                    *)

\* The task drops its descriptor: it ends, or goes on to wait for the mutex
\* of its process, in the login flow with the lock kept aside.
LEMMA ReleaseKeepsLock ==
  ASSUME TypeOK, LockInv, NEW t \in Tasks, NEW v \in {"idle", "mutex"},
         pc' = [pc EXCEPT ![t] = v],
         \A u \in Tasks \ {t} : home'[u] = home[u],
         v = "mutex" => home'[t] \in Procs,
         Unlock(t),
         \/ outer' = outer
         \/ outer' = [outer EXCEPT ![t] = NoInode]
         \/ /\ outer' = [outer EXCEPT ![t] = fd[t]]
            /\ lk[t] \in {"locked", "nolock"} /\ pc[t] = "flow",
         mishaps \subseteq mishaps'
  PROVE  LockInv'
<1>1. /\ outer \in [Tasks -> Inodes \cup {NoInode}] /\ fd \in [Tasks -> Inodes \cup {NoInode}]
      /\ pc \in [Tasks -> {"idle", "reload", "flow", "mutex", "first", "held",
                       "again", "ready", "claimed", "wire", "grace", "apply"}]
      /\ lk \in [Tasks -> {"out", "try", "break", "open", "wait", "stamp", "locked", "nolock"}]
  BY DEF TypeOK, LockTypeOK
<1>2. OuterInv'
  BY <1>1 DEF LockInv, OuterInv
<1>3. HomeInv'
  BY <1>1 DEF LockInv, HomeInv
<1>4. FdInv'
  BY <1>1 DEF LockInv, FdInv, Unlock
<1>5. FlockInv'
  <2>1. \A i \in Inodes : \A u \in Tasks : Holds(u, i)' => Holds(u, i)
    BY <1>1, LockAssumption DEF LockInv, FdInv, Unlock, Holds
  <2> QED BY <2>1 DEF LockInv, FlockInv
<1>6. SecureInv'
  BY <1>1 DEF LockInv, SecureInv, Secure, Unlock
<1> QED BY <1>2, <1>3, <1>4, <1>5, <1>6 DEF LockInv

\* The task that has the lock goes on with it.
LEMMA AdvanceKeepsLock ==
  ASSUME TypeOK, LockInv, NEW t \in Tasks,
         NEW v \in {"held", "ready", "claimed", "wire", "grace", "apply"},
         pc' = [pc EXCEPT ![t] = v], pc[t] # "idle", lk[t] = "locked",
         v = "held" \/ Secure(t) \/ StillLive(t),
         UNCHANGED <<home, lockVars>>, mishaps \subseteq mishaps'
  PROVE  LockInv'
<1>1. /\ pc \in [Tasks -> {"idle", "reload", "flow", "mutex", "first", "held",
                       "again", "ready", "claimed", "wire", "grace", "apply"}]
      /\ path' = path /\ lk' = lk /\ fd' = fd /\ outer' = outer /\ home' = home
  BY DEF TypeOK, lockVars
<1>2. OuterInv'
  BY <1>1 DEF LockInv, OuterInv
<1>3. HomeInv'
  BY <1>1 DEF LockInv, HomeInv
<1>4. FdInv'
  BY <1>1 DEF LockInv, FdInv
<1>5. FlockInv'
  BY <1>1 DEF LockInv, FlockInv, Holds
<1>6. SecureInv'
  BY <1>1 DEF LockInv, SecureInv, Secure, StillLive
<1> QED BY <1>2, <1>3, <1>4, <1>5, <1>6 DEF LockInv

\* The task starts an acquisition.
LEMMA AskKeepsLock ==
  ASSUME TypeOK, LockInv, NEW t \in Tasks,
         NEW v \in {"reload", "flow", "first", "again"},
         pc' = [pc EXCEPT ![t] = v],
         v = "flow" => "login" \in Events,
         \A u \in Tasks \ {t} : home'[u] = home[u], home'[t] \in Procs,
         lk' = [lk EXCEPT ![t] = "try"], fd' = [fd EXCEPT ![t] = NoInode],
         UNCHANGED <<path, outer, mishaps>>
  PROVE  LockInv'
<1>1. /\ fd \in [Tasks -> Inodes \cup {NoInode}]
      /\ pc \in [Tasks -> {"idle", "reload", "flow", "mutex", "first", "held",
                       "again", "ready", "claimed", "wire", "grace", "apply"}]
      /\ lk \in [Tasks -> {"out", "try", "break", "open", "wait", "stamp", "locked", "nolock"}]
  BY DEF TypeOK, LockTypeOK
<1>2. OuterInv'
  BY <1>1 DEF LockInv, OuterInv
<1>3. HomeInv'
  BY <1>1 DEF LockInv, HomeInv
<1>4. FdInv'
  BY <1>1 DEF LockInv, FdInv
<1>5. FlockInv'
  <2>1. \A i \in Inodes : \A u \in Tasks : Holds(u, i)' => Holds(u, i)
    BY <1>1, LockAssumption DEF Holds
  <2> QED BY <2>1 DEF LockInv, FlockInv
<1>6. SecureInv'
  BY <1>1 DEF LockInv, SecureInv, Secure
<1> QED BY <1>2, <1>3, <1>4, <1>5, <1>6 DEF LockInv

\* Nothing the lock invariants read changes.
LEMMA SameKeepsLock ==
  ASSUME LockInv, UNCHANGED <<path, lk, fd, outer, home, pc>>, mishaps \subseteq mishaps'
  PROVE  LockInv'
BY DEF LockInv, OuterInv, HomeInv, FdInv, FlockInv, SecureInv, Secure, Holds

\* A move of one task within the lock protocol: a flock is taken only on a
\* free inode, the lock is had only on the file at the path, and the path is
\* taken from a secure task only with a note of it.
LEMMA MoveKeepsLock ==
  ASSUME TypeOK, LockInv, NEW t \in Tasks, NEW x, NEW y \in Inodes \cup {NoInode},
         lk[t] \notin {"out", "locked", "nolock"},
         lk' = [lk EXCEPT ![t] = x], fd' = [fd EXCEPT ![t] = y],
         x # "out", y \in Inodes <=> x \in {"wait", "stamp", "locked"},
         x \in {"stamp", "locked"} => ~Held(y) \/ (lk[t] = "stamp" /\ y = fd[t]),
         x = "locked" => y = path',
         \/ path' = path
         \/ path = NoInode
         \/ "broken" \in mishaps'
         \/ \A u \in Tasks : Secure(u) => fd[u] # path,
         UNCHANGED <<outer, home, pc>>, mishaps \subseteq mishaps'
  PROVE  LockInv'
<1>1. /\ fd \in [Tasks -> Inodes \cup {NoInode}]
      /\ pc \in [Tasks -> {"idle", "reload", "flow", "mutex", "first", "held",
                       "again", "ready", "claimed", "wire", "grace", "apply"}]
      /\ lk \in [Tasks -> {"out", "try", "break", "open", "wait", "stamp", "locked", "nolock"}]
  BY DEF TypeOK, LockTypeOK
<1>2. pc[t] \in {"reload", "flow", "first", "again"}
  BY <1>1 DEF LockInv, FdInv
<1>3. OuterInv' /\ HomeInv'
  BY DEF LockInv, OuterInv, HomeInv
<1>4. FdInv'
  BY <1>1, <1>2, LockAssumption DEF LockInv, FdInv
<1>5. FlockInv'
  <2>1. SUFFICES ASSUME NEW i \in Inodes, NEW u \in Tasks, NEW w \in Tasks,
                        Holds(u, i)', Holds(w, i)'
                 PROVE  u = w
    BY DEF FlockInv
  <2>2. \A s \in Tasks : Holds(s, i)' => Holds(s, i) \/ (s = t /\ y = i /\ ~Held(i))
    BY <1>1 DEF Holds
  <2>3. Held(i) => Holds(u, i) /\ Holds(w, i)
    BY <2>1, <2>2
  <2>4. ~Held(i) => u = t /\ w = t
    BY <2>1, <2>2 DEF Held
  <2> QED BY <2>3, <2>4 DEF LockInv, FlockInv
<1>6. SecureInv'
  <2>1. SUFFICES ASSUME "broken" \notin mishaps', NEW u \in Tasks, Secure(u)'
                 PROVE  fd'[u] = path'
    BY DEF SecureInv
  <2>2. CASE u = t
    BY <1>1, <1>2, <2>1, <2>2 DEF Secure
  <2>3. CASE u # t
    <3>1. Secure(u) /\ fd'[u] = fd[u] /\ lk[u] = "locked"
      BY <1>1, <2>1, <2>3 DEF Secure, LockInv, FdInv
    <3>2. fd[u] = path /\ fd[u] \in Inodes
      BY <2>1, <3>1 DEF LockInv, SecureInv, FdInv
    <3> QED BY <2>1, <3>1, <3>2, LockAssumption
  <2> QED BY <2>2, <2>3
<1> QED BY <1>3, <1>4, <1>5, <1>6 DEF LockInv

\* The next phase of an acquisition, as a function of this one.
LEMMA RetryMoves ==
  ASSUME LockTypeOK, NEW t \in Tasks, Retry(t)
  PROVE  /\ \E x \in {"open", "try", "nolock"} : lk' = [lk EXCEPT ![t] = x]
         /\ phase' \in [Tasks -> 1..4]
BY DEF LockTypeOK, Retry

\* Every step of the lock protocol keeps the lock's state well typed.
LEMMA LockStepTypes ==
  ASSUME LockTypeOK, OuterInv, NEW t \in Tasks, LockStep(t)
  PROVE  LockTypeOK'
<1>1. Opened \in Inodes
  BY OpenedIsInode
<1> USE DEF LockTypeOK
<1>2. CASE TryOnce(t)
  BY <1>1, <1>2 DEF TryOnce, Open
<1>3. CASE Break(t)
  BY <1>3, RetryMoves DEF Break
<1>4. CASE OpenToWait(t)
  BY <1>1, <1>4 DEF OpenToWait, Open
<1>5. CASE Granted(t)
  BY <1>5 DEF Granted
<1>6. CASE TimesOut(t)
  BY <1>6 DEF TimesOut
<1>7. CASE Stamp(t)
  BY <1>7, RetryMoves DEF Stamp
<1> QED BY <1>2, <1>3, <1>4, <1>5, <1>6, <1>7 DEF LockStep

\* Every step of the lock protocol keeps the lock invariants.
LEMMA LockKeepsLock ==
  ASSUME TypeOK, LockInv, NEW t \in Tasks, Lock(t)
  PROVE  LockInv'
<1>1. /\ fd \in [Tasks -> Inodes \cup {NoInode}] /\ path \in Inodes \cup {NoInode}
      /\ lk \in [Tasks -> {"out", "try", "break", "open", "wait", "stamp", "locked", "nolock"}]
      /\ Opened \in Inodes
  BY OpenedIsInode DEF TypeOK, LockTypeOK, LockInv
<1>2. UNCHANGED <<home, pc>> /\ mishaps \subseteq mishaps'
  BY DEF Lock, chainVars
<1>3. CASE TryOnce(t)
  <2>1. PICK i \in Inodes : i = Opened
    BY <1>1
  <2>2. lk[t] = "try" /\ fd[t] = NoInode /\ outer' = outer /\ (path = NoInode \/ path' = path)
    BY <1>3, <1>1 DEF TryOnce, Open, Opened, LockInv, FdInv
  <2>3. ASSUME ~Held(i), lk' = [lk EXCEPT ![t] = "stamp"], fd' = [fd EXCEPT ![t] = i]
        PROVE  LockInv'
    BY <1>1, <1>2, <2>2, <2>3, MoveKeepsLock
  <2>4. ASSUME NEW x \in {"break", "open", "nolock"}, lk' = [lk EXCEPT ![t] = x], fd' = fd
        PROVE  LockInv'
    <3>1. fd' = [fd EXCEPT ![t] = NoInode]
      BY <1>1, <2>2, <2>4
    <3> QED BY <1>1, <1>2, <2>2, <2>4, <3>1, MoveKeepsLock, LockAssumption
  <2> QED BY <1>3, <2>1, <2>3, <2>4 DEF TryOnce
<1>4. CASE Break(t)
  <2>1. lk[t] = "break" /\ fd[t] = NoInode /\ outer' = outer /\ fd' = [fd EXCEPT ![t] = NoInode]
    BY <1>1, <1>4 DEF Break, LockInv, FdInv
  <2>2. PICK x \in {"open", "try", "nolock"} : lk' = [lk EXCEPT ![t] = x]
    BY <1>4, RetryMoves DEF Break, TypeOK
  <2>3. path = NoInode \/ "broken" \in mishaps' \/ \A u \in Tasks : Secure(u) => fd[u] # path
    BY <2>1 DEF Lock, Secure, InFlight
  <2> QED BY <1>2, <2>1, <2>2, <2>3, MoveKeepsLock, LockAssumption
<1>5. CASE OpenToWait(t)
  <2>1. PICK i \in Inodes : i = Opened
    BY <1>1
  <2> QED BY <1>1, <1>2, <1>5, <2>1, MoveKeepsLock DEF OpenToWait, Open, Opened
<1>6. CASE Granted(t)
  <2>1. fd' = [fd EXCEPT ![t] = fd[t]] /\ fd[t] \in Inodes
    BY <1>1, <1>6 DEF Granted, LockInv, FdInv
  <2> QED BY <1>2, <1>6, <2>1, MoveKeepsLock DEF Granted
<1>7. CASE TimesOut(t)
  BY <1>2, <1>7, MoveKeepsLock, LockAssumption DEF TimesOut
<1>8. CASE Stamp(t)
  <2>1. lk[t] = "stamp" /\ fd[t] \in Inodes /\ outer' = outer /\ path' = path
    BY <1>8 DEF Stamp, LockInv, FdInv
  <2>2. CASE fd[t] = path
    <3>1. fd' = [fd EXCEPT ![t] = fd[t]] /\ lk' = [lk EXCEPT ![t] = "locked"]
      BY <1>1, <1>8, <2>2 DEF Stamp
    <3> QED BY <1>1, <1>2, <2>1, <2>2, <3>1, MoveKeepsLock
  <2>3. CASE fd[t] # path
    <3>1. fd' = [fd EXCEPT ![t] = NoInode] /\ Retry(t)
      BY <1>8, <2>3 DEF Stamp
    <3>2. PICK x \in {"open", "try", "nolock"} : lk' = [lk EXCEPT ![t] = x]
      BY <3>1, RetryMoves DEF TypeOK
    <3> QED BY <1>2, <2>1, <3>1, <3>2, MoveKeepsLock, LockAssumption
  <2> QED BY <2>2, <2>3
<1> QED BY <1>3, <1>4, <1>5, <1>6, <1>7, <1>8 DEF Lock, LockStep

-----------------------------------------------------------------------------
(* What the step of one task does to the other invariants.                 *)

IInv == TypeOK /\ LockInv /\ GrantInv /\ SleepInv

\* The part of the type invariant a request writes.
RequestTypeOK ==
  /\ LockTypeOK
  /\ mem \in [Procs -> 0..MaxGrants]
  /\ mutex \in [Procs -> Tasks \cup {NoTask}]
  /\ home \in [Tasks -> Procs \cup {NoProc}]
  /\ pc \in [Tasks -> {"idle", "reload", "flow", "mutex", "first", "held",
                       "again", "ready", "claimed", "wire", "grace", "apply"}]
  /\ reason \in [Tasks -> {"PreRequest", "ServerRejected"}]
  /\ pre \in [Tasks -> 0..MaxGrants] /\ tok \in [Tasks -> 0..MaxGrants]
  /\ snap \in [Tasks -> 0..MaxGrants]

\* The part the host, the file and the power listener write.
WorldTypeOK ==
  /\ disk \in 0..MaxGrants
  /\ minted \in Grants /\ live \subseteq 1..minted /\ expired \subseteq 1..minted
  /\ tomb \in [Procs -> 0..MaxGrants]
  /\ gate \in [Procs -> BOOLEAN]
  /\ power \in [Procs -> {"awake", "holding", "acked", "overdue"}]
  /\ stray \subseteq 0..MaxGrants
  /\ mishaps \subseteq {"broken", "lost", "refused", "unsaved", "abandoned", "logout"}
  /\ budget \in 0..MaxEvents

LEMMA TypeParts == TypeOK <=> RequestTypeOK /\ WorldTypeOK
BY DEF TypeOK, RequestTypeOK, WorldTypeOK

\* Task t goes to v, and no other task moves.
Goes(t, v) ==
  /\ pc' = [pc EXCEPT ![t] = v]
  /\ \A u \in Tasks \ {t} : tok'[u] = tok[u] /\ home'[u] = home[u]

\* A request is answered.
LEMMA AnswerKeeps ==
  ASSUME TypeOK, LockInv, NEW t \in Tasks, NEW p \in Procs, NEW m \in 0..MaxGrants,
         Answer(t, p, m), mishaps \subseteq mishaps'
  PROVE  RequestTypeOK' /\ LockInv' /\ Goes(t, "idle")
<1>1. RequestTypeOK'
  BY RefreshAssumption DEF TypeOK, RequestTypeOK, LockTypeOK, Answer, End, Unlock
<1>2. Goes(t, "idle")
  BY DEF TypeOK, Answer, End, Goes
<1>3. LockInv'
  BY <1>2, ReleaseKeepsLock DEF Answer, End, Goes
<1> QED BY <1>1, <1>2, <1>3

\* A transient error is an answer with the snapshot or the cache.
LEMMA TransientKeeps ==
  ASSUME TypeOK, LockInv, NEW t \in Tasks, NEW p \in Procs,
         Transient(t, p), mishaps \subseteq mishaps'
  PROVE  RequestTypeOK' /\ LockInv' /\ Goes(t, "idle")
<1>1. PICK m \in 0..MaxGrants : Answer(t, p, m)
  BY DEF Transient, TypeOK
<1> QED BY <1>1, AnswerKeeps

LEMMA ReturnKeeps ==
  ASSUME TypeOK, LockInv, NEW t \in Tasks, NEW p \in Procs,
         Return(t, p), mishaps \subseteq mishaps'
  PROVE  RequestTypeOK' /\ LockInv' /\ Goes(t, "idle")
<1>1. PICK m \in 0..MaxGrants : Answer(t, p, m)
  BY DEF Return, TypeOK
<1> QED BY <1>1, AnswerKeeps

LEMMA CurrentType ==
  ASSUME TypeOK, NEW p \in Procs
  PROVE  Current(p) \in 0..MaxGrants
BY RefreshAssumption DEF TypeOK, Current

LEMMA ResolveType ==
  ASSUME TypeOK, NEW p \in Procs, NEW why
  PROVE  Resolve(p, why) \in 0..MaxGrants
BY RefreshAssumption DEF TypeOK, Resolve

\* refresh_chain up to the mutex: an answer, or a wait without a lock.
LEMMA EnterChainKeeps ==
  ASSUME TypeOK, LockInv, NEW t \in Tasks, NEW p \in Procs,
         NEW why \in {"PreRequest", "ServerRejected"},
         EnterChain(t, p, why), mishaps \subseteq mishaps'
  PROVE  RequestTypeOK' /\ LockInv' /\ \E v \in {"idle", "mutex"} : Goes(t, v)
<1>1. disk \in 0..MaxGrants
  BY DEF TypeOK
<1>2. CASE Tombstoned(p)
  BY <1>1, <1>2, AnswerKeeps, ReturnKeeps DEF EnterChain
<1>3. CASE ~Tombstoned(p)
  <2>1. RequestTypeOK'
    BY <1>3, CurrentType DEF EnterChain, TypeOK, RequestTypeOK, LockTypeOK, Unlock
  <2>2. Goes(t, "mutex") /\ home'[t] = p
    BY <1>3 DEF TypeOK, EnterChain, Goes
  <2>3. LockInv'
    BY <1>3, <2>2, ReleaseKeepsLock DEF EnterChain, Goes
  <2> QED BY <2>1, <2>2, <2>3
<1> QED BY <1>2, <1>3

\* A task that was not about to store a token, and does not go to the host,
\* keeps the grant invariant.
LEMMA CalmKeepsGrant ==
  ASSUME TypeOK, GrantInv, NEW t \in Tasks, pc[t] # "apply",
         NEW v \in {"idle", "reload", "flow", "mutex", "first", "held", "again", "ready", "claimed"},
         Goes(t, v), UNCHANGED <<disk, live>>,
         \A p \in Procs : tomb'[p] \in {0, tomb[p]}, mishaps \subseteq mishaps'
  PROVE  GrantInv'
<1>1. SUFFICES ASSUME mishaps' = {}
               PROVE  GrantInv'
  BY DEF GrantInv
<1>2. mishaps = {} /\ pc \in [Tasks -> {"idle", "reload", "flow", "mutex", "first", "held",
                       "again", "ready", "claimed", "wire", "grace", "apply"}]
  BY <1>1 DEF TypeOK
<1>3. \A u \in Tasks : pc'[u] \in {"wire", "grace", "apply"} =>
                         pc[u] = pc'[u] /\ tok'[u] = tok[u]
  BY <1>2 DEF Goes
<1>4. \A u \in Tasks : pc[u] = "apply" => pc'[u] = "apply" /\ tok'[u] = tok[u]
  BY <1>2 DEF Goes
<1> QED BY <1>1, <1>2, <1>3, <1>4 DEF GrantInv

\* A step of a task that does not send a token keeps the sleep invariant.
LEMMA CalmKeepsSleep ==
  ASSUME TypeOK, SleepInv, NEW t \in Tasks, NEW v, Goes(t, v),
         v \notin {"wire", "grace"} \/ (pc[t] = "wire" /\ home'[t] = home[t]),
         UNCHANGED <<gate, power>>
  PROVE  SleepInv'
<1>1. \A u \in Tasks : pc'[u] \in {"wire", "grace"} =>
                         pc[u] \in {"wire", "grace"} /\ home'[u] = home[u]
  BY DEF Goes, TypeOK
<1> QED BY <1>1 DEF SleepInv

\* The common case: nothing is written but the request.
LEMMA CalmStep ==
  ASSUME IInv, NEW t \in Tasks, pc[t] # "apply", RequestTypeOK', LockInv',
         NEW v \in {"idle", "reload", "flow", "mutex", "first", "held", "again", "ready", "claimed"},
         Goes(t, v), UNCHANGED <<disk, minted, live, expired, tomb, envVars, mishaps>>
  PROVE  IInv'
<1>1. WorldTypeOK' /\ TypeOK'
  BY TypeParts DEF IInv, WorldTypeOK, envVars, TypeOK, RequestTypeOK
<1>2. GrantInv'
  BY CalmKeepsGrant DEF IInv
<1>3. SleepInv'
  BY CalmKeepsSleep DEF IInv, envVars
<1> QED BY <1>1, <1>2, <1>3 DEF IInv

-----------------------------------------------------------------------------
(* The callers.                                                            *)

LEMMA AuthStep ==
  ASSUME IInv, NEW t \in Tasks, NEW p \in Procs, Auth(t, p)
  PROVE  IInv'
<1>1. pc[t] = "idle" /\ EnterChain(t, p, "PreRequest")
      /\ UNCHANGED <<disk, minted, live, expired, tomb, envVars, mishaps>>
  BY DEF Auth
<1>2. RequestTypeOK' /\ LockInv' /\ \E v \in {"idle", "mutex"} : Goes(t, v)
  BY <1>1, EnterChainKeeps DEF IInv
<1> QED BY <1>1, <1>2, CalmStep

LEMMA TickStep ==
  ASSUME IInv, NEW t \in Tasks, NEW p \in Procs, NEW force \in BOOLEAN, Tick(t, p, force)
  PROVE  IInv'
<1>1. pc[t] = "idle" /\ UNCHANGED <<disk, minted, live, expired, tomb, envVars, mishaps>>
      /\ disk \in 0..MaxGrants /\ TypeOK /\ LockInv
  BY DEF Tick, IInv, TypeOK
<1>2. CASE Answer(t, p, disk)
  BY <1>1, <1>2, AnswerKeeps, CalmStep
<1>3. CASE EnterChain(t, p, IF force THEN "ServerRejected" ELSE "PreRequest")
  <2>1. (IF force THEN "ServerRejected" ELSE "PreRequest") \in {"PreRequest", "ServerRejected"}
    BY Zenon
  <2>2. RequestTypeOK' /\ LockInv' /\ \E v \in {"idle", "mutex"} : Goes(t, v)
    BY <1>1, <1>3, <2>1, EnterChainKeeps
  <2> QED BY <1>1, <2>2, CalmStep
<1>4. ASSUME mem' = [mem EXCEPT ![p] = disk],
             home' = [home EXCEPT ![t] = p],
             pc' = [pc EXCEPT ![t] = "mutex"],
             reason' = [reason EXCEPT ![t] = "ServerRejected"],
             pre' = [pre EXCEPT ![t] = disk],
             UNCHANGED <<mutex, tok, snap, lockVars>>
      PROVE  IInv'
  <2>1. lk[t] = "out" /\ fd[t] = NoInode /\ path' = path /\ lk' = lk /\ fd' = fd /\ outer' = outer
        /\ info' = info /\ phase' = phase
    BY <1>1, <1>4 DEF LockInv, FdInv, lockVars
  <2>2. RequestTypeOK'
    BY <1>1, <1>4, <2>1 DEF TypeOK, RequestTypeOK, LockTypeOK
  <2>3. Goes(t, "mutex") /\ home'[t] = p
    BY <1>1, <1>4 DEF TypeOK, Goes
  <2>4. LockInv'
    <3>1. /\ pc \in [Tasks -> {"idle", "reload", "flow", "mutex", "first", "held",
                       "again", "ready", "claimed", "wire", "grace", "apply"}]
      BY <1>1 DEF TypeOK
    <3>2. OuterInv' /\ HomeInv' /\ FdInv'
      BY <1>1, <1>4, <2>1, <2>3, <3>1 DEF LockInv, OuterInv, HomeInv, FdInv, Goes
    <3>3. FlockInv'
      BY <1>1, <2>1 DEF LockInv, FlockInv, Holds
    <3>4. SecureInv'
      BY <1>1, <1>4, <2>1, <3>1 DEF LockInv, SecureInv, Secure
    <3> QED BY <3>2, <3>3, <3>4 DEF LockInv
  <2> QED BY <1>1, <2>2, <2>3, <2>4, CalmStep
<1> QED BY <1>2, <1>3, <1>4 DEF Tick

\* The budget stays within its bound.
LEMMA BudgetType ==
  ASSUME TypeOK, NEW kind, Happens(kind)
  PROVE  budget' \in 0..MaxEvents
BY RefreshAssumption DEF TypeOK, Happens

\* The first half of a recovery, and of the login flow: ask for the lock.
LEMMA RecoverStep ==
  ASSUME IInv, NEW t \in Tasks, NEW p \in Procs, Recover(t, p) \/ StartFlow(t, p)
  PROVE  IInv'
<1>1. TypeOK /\ LockInv /\ pc[t] = "idle" /\ fd[t] = NoInode /\ GrantInv /\ SleepInv
  BY DEF IInv, Recover, StartFlow, LockInv, FdInv
<1>2. UNCHANGED <<disk, minted, live, expired, tomb, gate, power, stray, mishaps>>
      /\ budget' \in 0..MaxEvents
  BY <1>1, BudgetType DEF Recover, StartFlow, envVars, TypeOK
<1>3. RequestTypeOK'
  BY <1>1 DEF Recover, StartFlow, TypeOK, RequestTypeOK, LockTypeOK
<1>4. PICK v \in {"reload", "flow"} : /\ pc' = [pc EXCEPT ![t] = v]
                                      /\ v = "flow" => "login" \in Events
  BY DEF Recover, StartFlow, Happens
<1>5. Goes(t, v) /\ home'[t] = p
  BY <1>1, <1>4 DEF Recover, StartFlow, Goes, TypeOK
<1>6. fd' = [fd EXCEPT ![t] = NoInode]
  BY <1>1 DEF Recover, StartFlow, TypeOK, LockTypeOK
<1>7. LockInv'
  BY <1>1, <1>4, <1>5, <1>6, AskKeepsLock DEF Recover, StartFlow, Goes
<1>8. TypeOK'
  BY <1>1, <1>2, <1>3 DEF TypeOK, RequestTypeOK
<1>9. GrantInv'
  BY <1>1, <1>2, <1>5, CalmKeepsGrant
<1>10. SleepInv'
  BY <1>1, <1>2, <1>5, CalmKeepsSleep
<1> QED BY <1>7, <1>8, <1>9, <1>10 DEF IInv

LEMMA ReloadStep ==
  ASSUME IInv, NEW t \in Tasks, Reload(t)
  PROVE  IInv'
<1>1. TypeOK /\ LockInv /\ pc[t] = "reload" /\ home[t] \in Procs /\ disk \in 0..MaxGrants
      /\ UNCHANGED <<disk, minted, live, expired, tomb, envVars, mishaps>>
  BY DEF IInv, Reload, LockInv, HomeInv, TypeOK
<1>2. \/ Answer(t, home[t], disk) \/ Return(t, home[t])
      \/ EnterChain(t, home[t], "ServerRejected")
  BY DEF Reload
<1>3. RequestTypeOK' /\ LockInv' /\ \E v \in {"idle", "mutex"} : Goes(t, v)
  BY <1>1, <1>2, EnterChainKeeps, AnswerKeeps, ReturnKeeps
<1> QED BY <1>1, <1>3, CalmStep

LEMMA FlowStep ==
  ASSUME IInv, NEW t \in Tasks, Flow(t)
  PROVE  IInv'
<1>1. TypeOK /\ LockInv /\ pc[t] = "flow" /\ home[t] \in Procs /\ disk \in 0..MaxGrants
      /\ UNCHANGED <<disk, minted, live, expired, tomb, envVars, mishaps>>
      /\ lk[t] \in {"locked", "nolock"}
  BY DEF IInv, Flow, LockInv, HomeInv, TypeOK
<1>2. CASE Answer(t, home[t], IF Fresh(disk) THEN disk ELSE mem[home[t]])
  <2>1. (IF Fresh(disk) THEN disk ELSE mem[home[t]]) \in 0..MaxGrants
    BY <1>1 DEF TypeOK
  <2> QED BY <1>1, <1>2, <2>1, AnswerKeeps, CalmStep
<1>3. ASSUME pc' = [pc EXCEPT ![t] = "mutex"],
             outer' = [outer EXCEPT ![t] = fd[t]],
             snap' = [snap EXCEPT ![t] = disk],
             Unlock(t),
             UNCHANGED <<home, mem, mutex, reason, pre, tok>>
      PROVE  IInv'
  <2>1. RequestTypeOK'
    BY <1>1, <1>3 DEF TypeOK, RequestTypeOK, LockTypeOK, Unlock
  <2>2. Goes(t, "mutex") /\ home'[t] \in Procs
    BY <1>1, <1>3 DEF Goes
  <2>3. LockInv'
    BY <1>1, <1>3, <2>2, ReleaseKeepsLock DEF Goes
  <2> QED BY <1>1, <2>1, <2>2, <2>3, CalmStep
<1> QED BY <1>2, <1>3 DEF Flow

-----------------------------------------------------------------------------
(* refresh_chain up to the request.                                        *)

LEMMA TakeMutexStep ==
  ASSUME IInv, NEW t \in Tasks, TakeMutex(t)
  PROVE  IInv'
<1>1. TypeOK /\ LockInv /\ pc[t] = "mutex" /\ home[t] \in Procs /\ fd[t] = NoInode
      /\ UNCHANGED <<disk, minted, live, expired, tomb, envVars, mishaps>>
  BY DEF IInv, TakeMutex, LockInv, HomeInv, FdInv
<1>2. CASE Return(t, home[t])
  BY <1>1, <1>2, ReturnKeeps, CalmStep
<1>3. ASSUME mutex' = [mutex EXCEPT ![home[t]] = t],
             pc' = [pc EXCEPT ![t] = "first"],
             lk' = [lk EXCEPT ![t] = "try"],
             pre' = [pre EXCEPT ![t] = 0],
             UNCHANGED <<path, info, phase, fd, outer, home, mem, reason, tok, snap>>
      PROVE  IInv'
  <2>1. RequestTypeOK'
    BY <1>1, <1>3, RefreshAssumption DEF TypeOK, RequestTypeOK, LockTypeOK
  <2>2. Goes(t, "first") /\ home'[t] \in Procs
    BY <1>1, <1>3 DEF Goes
  <2>3. fd' = [fd EXCEPT ![t] = NoInode]
    BY <1>1, <1>3 DEF TypeOK, LockTypeOK
  <2>4. LockInv'
    BY <1>1, <1>3, <2>2, <2>3, AskKeepsLock DEF Goes
  <2> QED BY <1>1, <2>1, <2>2, <2>4, CalmStep
<1> QED BY <1>2, <1>3 DEF TakeMutex

\* The chain goes on with the lock it has, and nothing else changes.
LEMMA AdvanceStep ==
  ASSUME IInv, NEW t \in Tasks, NEW v \in {"held", "ready", "claimed"},
         pc[t] \notin {"idle", "apply"}, lk[t] = "locked",
         v = "held" \/ Secure(t) \/ StillLive(t),
         pc' = [pc EXCEPT ![t] = v],
         UNCHANGED <<home, mem, mutex, reason, pre, tok, snap, lockVars>>,
         UNCHANGED <<disk, minted, live, expired, tomb, envVars, mishaps>>
  PROVE  IInv'
<1>1. RequestTypeOK'
  BY DEF IInv, TypeOK, RequestTypeOK, LockTypeOK, lockVars
<1>2. Goes(t, v)
  BY DEF Goes
<1>3. LockInv'
  BY AdvanceKeepsLock DEF IInv
<1> QED BY <1>1, <1>2, <1>3, CalmStep

LEMMA FirstLockStep ==
  ASSUME IInv, NEW t \in Tasks, FirstLock(t)
  PROVE  IInv'
<1>1. TypeOK /\ LockInv /\ pc[t] = "first" /\ home[t] \in Procs /\ disk \in 0..MaxGrants
      /\ UNCHANGED <<disk, minted, live, expired, tomb, envVars, mishaps>>
  BY DEF IInv, FirstLock, LockInv, HomeInv, TypeOK
<1>2. CASE Answer(t, home[t], disk) \/ Transient(t, home[t])
  BY <1>1, <1>2, AnswerKeeps, TransientKeeps, CalmStep
<1>3. CASE /\ lk[t] # "nolock" /\ pc' = [pc EXCEPT ![t] = "held"]
           /\ UNCHANGED <<home, mem, mutex, reason, pre, tok, snap, lockVars>>
  BY <1>1, <1>3, AdvanceStep DEF FirstLock
<1> QED BY <1>2, <1>3 DEF FirstLock

LEMMA RevalidateStep ==
  ASSUME IInv, NEW t \in Tasks, Revalidate(t)
  PROVE  IInv'
<1>1. TypeOK /\ LockInv /\ pc[t] = "held" /\ home[t] \in Procs /\ lk[t] = "locked"
      /\ UNCHANGED <<disk, minted, live, expired, tomb, envVars, mishaps>>
      /\ UNCHANGED <<home, mem, mutex, reason, pre, tok, snap>>
  BY DEF IInv, Revalidate, LockInv, HomeInv, FdInv
<1>2. CASE StillLive(t)
  BY <1>1, <1>2, AdvanceStep DEF Revalidate
<1>3. CASE ~StillLive(t)
  <2>1. RequestTypeOK'
    BY <1>1, <1>3 DEF Revalidate, TypeOK, RequestTypeOK, LockTypeOK
  <2>2. Goes(t, "again") /\ home'[t] \in Procs
    BY <1>1, <1>3 DEF Revalidate, Goes
  <2>3. LockInv'
    BY <1>1, <1>3, <2>2, AskKeepsLock DEF Revalidate, Goes
  <2> QED BY <1>1, <2>1, <2>2, <2>3, CalmStep
<1> QED BY <1>2, <1>3

LEMMA SecondLockStep ==
  ASSUME IInv, NEW t \in Tasks, SecondLock(t)
  PROVE  IInv'
<1>1. TypeOK /\ LockInv /\ pc[t] = "again" /\ home[t] \in Procs /\ disk \in 0..MaxGrants
      /\ UNCHANGED <<disk, minted, live, expired, tomb, envVars, mishaps>>
  BY DEF IInv, SecondLock, LockInv, HomeInv, TypeOK
<1>2. CASE Answer(t, home[t], disk) \/ Transient(t, home[t])
  BY <1>1, <1>2, AnswerKeeps, TransientKeeps, CalmStep
<1>3. CASE /\ lk[t] = "locked" /\ pc' = [pc EXCEPT ![t] = "ready"]
           /\ UNCHANGED <<home, mem, mutex, reason, pre, tok, snap, lockVars>>
  BY <1>1, <1>3, AdvanceStep DEF Secure
<1> QED BY <1>2, <1>3 DEF SecondLock

LEMMA ClaimStep ==
  ASSUME IInv, NEW t \in Tasks, Claim(t)
  PROVE  IInv'
<1>1. pc[t] = "ready" /\ lk[t] = "locked"
  BY DEF IInv, Claim, LockInv, FdInv
<1> QED BY <1>1, AdvanceStep DEF Claim, Secure

-----------------------------------------------------------------------------
(* The request and what follows it.                                        *)

\* Mutual exclusion: until a lock file in use is unlinked, at most one task
\* is past revalidate_lock_or_reacquire.
LEMMA OneSecure ==
  ASSUME LockInv, "broken" \notin mishaps, NEW t \in Tasks, NEW u \in Tasks,
         Secure(t), Secure(u)
  PROVE  t = u
<1>1. lk[t] = "locked" /\ lk[u] = "locked" /\ fd[t] = path /\ fd[u] = path /\ fd[t] \in Inodes
  BY DEF LockInv, FdInv, SecureInv, Secure
<1>2. Holds(t, path) /\ Holds(u, path)
  BY <1>1 DEF Holds
<1> QED BY <1>1, <1>2 DEF LockInv, FlockInv

\* A task with the token goes on to v with g; the disk is as it was.
LEMMA TokenStep ==
  ASSUME IInv, NEW t \in Tasks, NEW v \in {"wire", "grace", "apply"}, NEW g \in 0..MaxGrants,
         pc[t] \in {"claimed", "wire", "grace"},
         pc' = [pc EXCEPT ![t] = v], tok' = [tok EXCEPT ![t] = g],
         UNCHANGED <<home, mem, mutex, reason, pre, snap, lockVars>>,
         UNCHANGED <<disk, minted, live, expired, tomb, envVars, mishaps>>,
         v = "apply" \/ pc[t] = "wire" \/ ~gate[home[t]],
         mishaps = {} => /\ v = "wire" => g = disk
                         /\ v = "apply" => g = disk
                         /\ v # "grace"
  PROVE  IInv'
<1>1. TypeOK /\ LockInv /\ home[t] \in Procs /\ lk[t] = "locked" /\ GrantInv /\ SleepInv
      /\ pc \in [Tasks -> {"idle", "reload", "flow", "mutex", "first", "held",
                       "again", "ready", "claimed", "wire", "grace", "apply"}]
  BY DEF IInv, LockInv, HomeInv, FdInv, TypeOK
<1>2. Goes(t, v)
  BY <1>1 DEF Goes, TypeOK
<1>3. TypeOK'
  BY <1>1 DEF TypeOK, LockTypeOK, lockVars, envVars
<1>4. LockInv'
  BY <1>1, AdvanceKeepsLock DEF Secure
<1>5. GrantInv'
  <2>1. SUFFICES ASSUME mishaps = {}
                 PROVE  GrantInv'
    BY DEF GrantInv
  <2>2. \A u \in Tasks : Secure(u) => u = t
    BY <1>1, <2>1, OneSecure DEF Secure
  <2>3. \A u \in Tasks \ {t} : pc[u] \notin {"wire", "grace", "apply"} /\ pc'[u] = pc[u]
    BY <1>1, <2>2 DEF Secure
  <2>4. disk \in live
    BY <1>1, <2>1, <2>3 DEF GrantInv
  <2>5. pc'[t] = v /\ tok'[t] = g /\ v \in {"wire", "apply"} /\ g = disk
    BY <1>1, <2>1 DEF TypeOK
  <2> QED BY <1>1, <2>1, <2>3, <2>4, <2>5 DEF GrantInv
<1>6. SleepInv'
  <2>1. CASE v = "apply" \/ pc[t] = "wire"
    BY <1>1, <1>2, <2>1, CalmKeepsSleep DEF envVars
  <2>2. CASE ~gate[home[t]]
    <3>1. power[home[t]] = "awake" /\ power' = power /\ gate' = gate
      BY <1>1, <2>2 DEF SleepInv, envVars
    <3> QED BY <1>1, <1>2, <3>1 DEF SleepInv, Goes
  <2> QED BY <2>1, <2>2
<1> QED BY <1>3, <1>4, <1>5, <1>6 DEF IInv

LEMMA SendTokenStep ==
  ASSUME IInv, NEW t \in Tasks, SendToken(t)
  PROVE  IInv'
<1>1. TypeOK /\ LockInv /\ pc[t] = "claimed" /\ home[t] \in Procs /\ disk \in 0..MaxGrants
      /\ UNCHANGED <<disk, minted, live, expired, tomb, envVars, mishaps>>
  BY DEF IInv, SendToken, LockInv, HomeInv, TypeOK
<1>2. CASE Transient(t, home[t])
  BY <1>1, <1>2, TransientKeeps, CalmStep
<1>3. CASE /\ pc' = [pc EXCEPT ![t] = "apply"]
           /\ tok' = [tok EXCEPT ![t] = disk]
           /\ UNCHANGED <<home, mem, mutex, reason, pre, snap, lockVars>>
  BY <1>1, <1>3, TokenStep
<1>4. PICK g \in 0..MaxGrants : g = Resolve(home[t], reason[t])
  BY <1>1, ResolveType
<1>5. mishaps = {} => g = disk
  BY <1>1, <1>4 DEF IInv, GrantInv, Resolve
<1>6. CASE /\ ~gate[home[t]]
           /\ pc' = [pc EXCEPT ![t] = "wire"]
           /\ tok' = [tok EXCEPT ![t] = g]
           /\ UNCHANGED <<home, mem, mutex, reason, pre, snap, lockVars>>
  BY <1>1, <1>5, <1>6, TokenStep
<1> QED BY <1>2, <1>3, <1>4, <1>6 DEF SendToken

LEMMA HostRejectsStep ==
  ASSUME IInv, NEW t \in Tasks, HostRejects(t)
  PROVE  IInv'
<1>1. /\ TypeOK /\ LockInv /\ GrantInv /\ SleepInv /\ pc[t] = "wire" /\ lk[t] = "locked"
      /\ pc' = [pc EXCEPT ![t] = "grace"]
      /\ UNCHANGED <<home, mem, mutex, reason, pre, tok, snap, disk, minted, live, expired,
                     tomb, lockVars, gate, power, stray>>
  BY DEF IInv, HostRejects, LockInv, FdInv
<1>2. mishaps' # {} /\ mishaps' \in {mishaps, mishaps \cup {"refused"}}
      /\ budget' \in 0..MaxEvents
  <2>1. CASE tok[t] \notin live /\ UNCHANGED <<budget, mishaps>>
    BY <1>1, <2>1 DEF GrantInv, TypeOK
  <2>2. CASE Happens("refused") /\ mishaps' = mishaps \cup {"refused"}
    BY <1>1, <2>2, BudgetType
  <2> QED BY <2>1, <2>2 DEF HostRejects
<1>3. TypeOK'
  BY <1>1, <1>2 DEF TypeOK, LockTypeOK, lockVars
<1>4. LockInv'
  BY <1>1, <1>2, AdvanceKeepsLock DEF Secure
<1>5. GrantInv'
  BY <1>2 DEF GrantInv
<1>6. SleepInv'
  <2>1. Goes(t, "grace")
    BY <1>1 DEF Goes, TypeOK
  <2> QED BY <1>1, <2>1, CalmKeepsSleep
<1> QED BY <1>3, <1>4, <1>5, <1>6 DEF IInv

LEMMA HostFailsStep ==
  ASSUME IInv, NEW t \in Tasks, HostFails(t)
  PROVE  IInv'
<1>1. TypeOK /\ LockInv /\ pc[t] = "wire" /\ home[t] \in Procs
      /\ UNCHANGED <<disk, minted, live, expired, tomb, envVars, mishaps>>
  BY DEF IInv, HostFails, LockInv, HomeInv
<1> QED BY <1>1, TransientKeeps, CalmStep DEF HostFails

\* What a rotation does to the host's books.
LEMMA RotationTypes ==
  ASSUME TypeOK, NEW g, minted < MaxGrants, minted' = minted + 1,
         live' = (live \ {g}) \cup {minted'}, expired' = expired
  PROVE  /\ minted' \in Grants /\ minted' \in 0..MaxGrants
         /\ live' \subseteq 1..minted' /\ expired' \subseteq 1..minted'
<1>1. minted \in Nat /\ minted >= 1 /\ MaxGrants \in Nat /\ live \subseteq 1..minted
      /\ expired \subseteq 1..minted
  BY RefreshAssumption DEF TypeOK, Grants
<1>2. minted' \in Grants /\ minted' \in 0..MaxGrants /\ minted' \in 1..minted'
  BY <1>1 DEF Grants
<1>3. 1..minted \subseteq 1..minted'
  BY <1>1
<1> QED BY <1>1, <1>2, <1>3

LEMMA HostRotatesStep ==
  ASSUME IInv, NEW t \in Tasks, HostRotates(t)
  PROVE  IInv'
<1>1. TypeOK /\ LockInv /\ pc[t] = "wire" /\ home[t] \in Procs /\ lk[t] = "locked"
      /\ GrantInv /\ SleepInv
      /\ pc \in [Tasks -> {"idle", "reload", "flow", "mutex", "first", "held",
                       "again", "ready", "claimed", "wire", "grace", "apply"}]
  BY DEF IInv, HostRotates, LockInv, HomeInv, FdInv, TypeOK
<1>2. PICK n : n = minted'
  OBVIOUS
<1>3. /\ n \in Grants /\ n \in 0..MaxGrants /\ minted' \in Grants
      /\ live' \subseteq 1..minted' /\ expired' \subseteq 1..minted'
  BY <1>1, <1>2, RotationTypes DEF HostRotates
<1>4. /\ pc' = [pc EXCEPT ![t] = "apply"] /\ tok' = [tok EXCEPT ![t] = n]
      /\ n \in live' /\ UNCHANGED <<home, mem, mutex, reason, pre, snap, disk, expired, tomb,
                                    lockVars, envVars, mishaps>>
  BY <1>2 DEF HostRotates
<1>5. TypeOK'
  BY <1>1, <1>3, <1>4 DEF TypeOK, LockTypeOK, lockVars, envVars
<1>6. LockInv'
  BY <1>1, <1>4, AdvanceKeepsLock DEF Secure
<1>7. SleepInv'
  <2>1. Goes(t, "apply")
    BY <1>1, <1>4 DEF Goes, TypeOK
  <2> QED BY <1>1, <1>4, <2>1, CalmKeepsSleep DEF envVars
<1>8. GrantInv'
  <2>1. SUFFICES ASSUME mishaps = {}
                 PROVE  GrantInv'
    BY <1>4 DEF GrantInv
  <2>2. \A u \in Tasks : Secure(u) => u = t
    BY <1>1, <2>1, OneSecure DEF Secure
  <2>3. \A u \in Tasks \ {t} : pc[u] \notin {"wire", "grace", "apply"} /\ pc'[u] = pc[u]
    BY <1>1, <1>4, <2>2 DEF Secure
  <2>4. tok[t] = disk /\ disk \in live /\ disk # n
    <3>1. tok[t] = disk /\ disk \in live
      BY <1>1, <2>1 DEF GrantInv
    <3>2. disk \in 1..minted /\ minted \in Nat /\ n = minted + 1
      BY <1>1, <1>2, <3>1, RefreshAssumption DEF TypeOK, HostRotates, Grants
    <3>3. disk # n
      BY <3>2
    <3> QED BY <3>1, <3>3
  <2>5. pc'[t] = "apply" /\ tok'[t] = n
    BY <1>1, <1>4 DEF TypeOK
  <2> QED BY <1>1, <1>4, <2>1, <2>3, <2>4, <2>5 DEF GrantInv
<1> QED BY <1>5, <1>6, <1>7, <1>8 DEF IInv

LEMMA ReplyLostStep ==
  ASSUME IInv, NEW t \in Tasks, ReplyLost(t)
  PROVE  IInv'
<1>1. TypeOK /\ LockInv /\ SleepInv
  BY DEF IInv
<1>2. /\ minted' \in Grants /\ live' \subseteq 1..minted' /\ expired' \subseteq 1..minted'
      /\ budget' \in 0..MaxEvents
  BY <1>1, RotationTypes, BudgetType DEF ReplyLost
<1>3. TypeOK'
  BY <1>1, <1>2 DEF TypeOK, LockTypeOK, lockVars, ReplyLost
<1>4. LockInv'
  BY <1>1, SameKeepsLock DEF ReplyLost, lockVars
<1>5. GrantInv'
  BY DEF ReplyLost, GrantInv
<1>6. SleepInv'
  BY <1>1 DEF ReplyLost, SleepInv
<1> QED BY <1>3, <1>4, <1>5, <1>6 DEF IInv

LEMMA AfterRejectionStep ==
  ASSUME IInv, NEW t \in Tasks, AfterRejection(t)
  PROVE  IInv'
<1>1. TypeOK /\ LockInv /\ GrantInv /\ SleepInv /\ pc[t] = "grace" /\ home[t] \in Procs
      /\ disk \in 0..MaxGrants /\ tok[t] \in 0..MaxGrants
      /\ UNCHANGED <<disk, minted, live, expired, envVars, mishaps>>
  BY DEF IInv, AfterRejection, LockInv, HomeInv, TypeOK
<1>2. mishaps # {}
  BY <1>1 DEF GrantInv
<1>3. CASE /\ pc' = [pc EXCEPT ![t] = "apply"] /\ tok' = [tok EXCEPT ![t] = disk]
           /\ UNCHANGED <<home, mem, mutex, reason, pre, snap, lockVars, tomb>>
  BY <1>1, <1>2, <1>3, TokenStep
<1>4. CASE (Answer(t, home[t], disk) \/ Transient(t, home[t])) /\ UNCHANGED tomb
  <2>1. RequestTypeOK' /\ LockInv' /\ Goes(t, "idle")
    BY <1>1, <1>4, AnswerKeeps, TransientKeeps
  <2> QED BY <1>1, <1>4, <2>1, CalmStep
<1>5. CASE Return(t, home[t]) /\ tomb' = [tomb EXCEPT ![home[t]] = tok[t]]
  <2>1. RequestTypeOK' /\ LockInv' /\ Goes(t, "idle")
    BY <1>1, <1>5, ReturnKeeps
  <2>2. tomb' \in [Procs -> 0..MaxGrants]
    BY <1>1, <1>5 DEF TypeOK
  <2>3. TypeOK'
    BY <1>1, <2>1, <2>2 DEF TypeOK, RequestTypeOK, envVars
  <2>4. GrantInv'
    BY <1>1, <1>2 DEF GrantInv
  <2>5. SleepInv'
    BY <1>1, <2>1, CalmKeepsSleep DEF envVars
  <2> QED BY <2>1, <2>3, <2>4, <2>5 DEF IInv
<1> QED BY <1>3, <1>4, <1>5 DEF AfterRejection

LEMMA ApplyStep ==
  ASSUME IInv, NEW t \in Tasks, Apply(t)
  PROVE  IInv'
<1>1. TypeOK /\ LockInv /\ GrantInv /\ SleepInv /\ pc[t] = "apply" /\ home[t] \in Procs
      /\ tok[t] \in 0..MaxGrants /\ snap[t] \in 0..MaxGrants
      /\ UNCHANGED <<minted, live, expired, tomb, gate, power, stray>>
      /\ pc \in [Tasks -> {"idle", "reload", "flow", "mutex", "first", "held",
                       "again", "ready", "claimed", "wire", "grace", "apply"}]
  BY DEF IInv, Apply, LockInv, HomeInv, TypeOK
<1>2. CASE disk' = tok[t] /\ Answer(t, home[t], tok[t]) /\ UNCHANGED <<budget, mishaps>>
  <2>1. RequestTypeOK' /\ LockInv' /\ Goes(t, "idle")
    BY <1>1, <1>2, AnswerKeeps
  <2>2. TypeOK'
    BY <1>1, <1>2, <2>1 DEF TypeOK, RequestTypeOK
  <2>3. SleepInv'
    BY <1>1, <2>1, CalmKeepsSleep
  <2>4. GrantInv'
    <3>1. SUFFICES ASSUME mishaps = {}
                   PROVE  GrantInv'
      BY <1>2 DEF GrantInv
    <3>2. \A u \in Tasks : Secure(u) => u = t
      BY <1>1, <3>1, OneSecure DEF Secure
    <3>3. \A u \in Tasks : pc'[u] \notin {"wire", "grace", "apply"}
      BY <1>1, <2>1, <3>2 DEF Secure, Goes
    <3>4. disk' \in live' /\ disk' # 0
      BY <1>1, <1>2, <3>1 DEF GrantInv, TypeOK
    <3>5. \A p \in Procs : tomb'[p] = 0
      BY <1>1, <3>1 DEF GrantInv
    <3> QED BY <3>3, <3>4, <3>5 DEF GrantInv
  <2> QED BY <2>1, <2>2, <2>3, <2>4 DEF IInv
<1>3. ASSUME Happens("unsaved"), mishaps' = mishaps \cup {"unsaved"},
             \/ Answer(t, home[t], tok[t])
             \/ Answer(t, home[t], IF snap[t] # 0 THEN snap[t] ELSE tok[t]),
             disk' = disk
      PROVE  IInv'
  <2>1. RequestTypeOK' /\ LockInv' /\ Goes(t, "idle")
    BY <1>1, <1>3, AnswerKeeps
  <2>2. budget' \in 0..MaxEvents
    BY <1>1, <1>3, BudgetType
  <2>3. TypeOK'
    BY <1>1, <1>3, <2>1, <2>2 DEF TypeOK, RequestTypeOK
  <2>4. SleepInv'
    BY <1>1, <2>1, CalmKeepsSleep
  <2>5. GrantInv'
    BY <1>3 DEF GrantInv
  <2> QED BY <2>1, <2>3, <2>4, <2>5 DEF IInv
<1> QED BY <1>2, <1>3 DEF Apply

-----------------------------------------------------------------------------
(* The rest of the world.                                                  *)

LEMMA LockedStep ==
  ASSUME IInv, NEW t \in Tasks, Lock(t)
  PROVE  IInv'
<1>1. TypeOK /\ LockInv /\ GrantInv /\ SleepInv
  BY DEF IInv
<1>2. LockTypeOK'
  BY <1>1, LockStepTypes DEF Lock, TypeOK, LockInv
<1>3. mishaps' \in {mishaps, mishaps \cup {"broken"}}
  BY DEF Lock
<1>4. TypeOK'
  BY <1>1, <1>2, <1>3 DEF Lock, TypeOK, chainVars, envVars
<1>5. LockInv'
  BY <1>1, LockKeepsLock
<1>6. GrantInv'
  BY <1>1, <1>3 DEF Lock, GrantInv, chainVars
<1>7. SleepInv'
  BY <1>1 DEF Lock, SleepInv, chainVars, envVars
<1> QED BY <1>4, <1>5, <1>6, <1>7 DEF IInv

LEMMA TimeStep ==
  ASSUME IInv, TimePasses
  PROVE  IInv'
<1>1. TypeOK /\ LockInv /\ GrantInv /\ SleepInv
  BY DEF IInv
<1>2. /\ UNCHANGED <<mem, disk, minted, live, mutex, home, pc, reason, pre, tok, snap>>
      /\ UNCHANGED <<gate, power, stray, budget, mishaps>>
  BY DEF TimePasses, envVars
<1>3. LockTypeOK' /\ UNCHANGED <<path, lk, fd, outer>>
  BY <1>1 DEF TimePasses, TypeOK, LockTypeOK, lockVars, Age
<1>4. expired' \subseteq 1..minted' /\ tomb' \in [Procs -> 0..MaxGrants]
  <2>1. expired \subseteq 1..minted /\ tomb \in [Procs -> 0..MaxGrants] /\ 0 \in 0..MaxGrants
    BY <1>1, RefreshAssumption DEF TypeOK
  <2>2. \/ expired' = expired
        \/ \E g \in (1..minted) \ expired : expired' = expired \cup {g}
    BY DEF TimePasses
  <2>3. tomb' = tomb \/ \E p \in Procs : tomb' = [tomb EXCEPT ![p] = 0]
    BY DEF TimePasses
  <2>4. expired' \subseteq 1..minted'
    BY <1>2, <2>1, <2>2
  <2>5. tomb' \in [Procs -> 0..MaxGrants]
    BY <2>1, <2>3
  <2> QED BY <2>4, <2>5
<1>5. TypeOK'
  BY <1>1, <1>2, <1>3, <1>4 DEF TypeOK
<1>6. LockInv'
  BY <1>1, <1>2, <1>3, SameKeepsLock
<1>7. \A p \in Procs : tomb'[p] \in {0, tomb[p]}
  BY <1>1 DEF TimePasses, TypeOK
<1>8. GrantInv'
  BY <1>1, <1>2, <1>7 DEF GrantInv
<1>9. SleepInv'
  BY <1>1, <1>2 DEF SleepInv
<1> QED BY <1>5, <1>6, <1>8, <1>9 DEF IInv

LEMMA LogoutStep ==
  ASSUME IInv, NEW p \in Procs, Logout(p)
  PROVE  IInv'
<1>1. TypeOK /\ LockInv /\ SleepInv
  BY DEF IInv
<1>2. Opened \in Inodes /\ budget' \in 0..MaxEvents
  BY <1>1, OpenedIsInode, BudgetType DEF TypeOK, LockInv, Logout
<1>3. TypeOK'
  BY <1>1, <1>2, RefreshAssumption DEF TypeOK, LockTypeOK, Logout
<1>4. LockInv'
  <2>1. /\ path' = path \/ path = NoInode
        /\ UNCHANGED <<lk, fd, outer, home, pc>> /\ mishaps \subseteq mishaps'
    BY DEF Logout, Opened
  <2>2. OuterInv' /\ HomeInv' /\ FdInv' /\ FlockInv'
    BY <1>1, <2>1 DEF LockInv, OuterInv, HomeInv, FdInv, FlockInv, Holds
  <2>3. SecureInv'
    <3>1. \A u \in Tasks : Secure(u)' => Secure(u) /\ fd[u] # NoInode
      BY <1>1, <2>1, LockAssumption DEF Secure, LockInv, FdInv
    <3> QED BY <1>1, <2>1, <3>1 DEF SecureInv, LockInv
  <2> QED BY <2>2, <2>3 DEF LockInv
<1>5. GrantInv'
  BY DEF GrantInv, Logout
<1>6. SleepInv'
  BY <1>1 DEF SleepInv, Logout
<1> QED BY <1>3, <1>4, <1>5, <1>6 DEF IInv

LEMMA CrashStep ==
  ASSUME IInv, NEW p \in Procs, Crash(p)
  PROVE  IInv'
<1>1. TypeOK /\ LockInv /\ GrantInv /\ SleepInv
  BY DEF IInv
<1>2. PICK gone \in SUBSET Tasks : gone = {t \in Tasks : home[t] = p}
  OBVIOUS
<1>3. /\ mem' = [mem EXCEPT ![p] = disk] /\ tomb' = [tomb EXCEPT ![p] = 0]
      /\ mutex' = [mutex EXCEPT ![p] = NoTask]
      /\ gate' = [gate EXCEPT ![p] = FALSE] /\ power' = [power EXCEPT ![p] = "awake"]
      /\ UNCHANGED <<path, info, disk, minted, live, expired>>
      /\ mishaps \subseteq mishaps'
      /\ mishaps' \in {mishaps, mishaps \cup {"abandoned"}}
  BY DEF Crash
<1>4. /\ pc' = [t \in Tasks |-> IF t \in gone THEN "idle" ELSE pc[t]]
      /\ tok' = [t \in Tasks |-> IF t \in gone THEN 0 ELSE tok[t]]
      /\ lk' = [t \in Tasks |-> IF t \in gone THEN "out" ELSE lk[t]]
      /\ fd' = [t \in Tasks |-> IF t \in gone THEN NoInode ELSE fd[t]]
      /\ outer' = [t \in Tasks |-> IF t \in gone THEN NoInode ELSE outer[t]]
      /\ home' = [t \in Tasks |-> IF t \in gone THEN NoProc ELSE home[t]]
  BY <1>2 DEF Crash
<1>5. /\ reason' = [t \in Tasks |-> IF t \in gone THEN "PreRequest" ELSE reason[t]]
      /\ pre' = [t \in Tasks |-> IF t \in gone THEN 0 ELSE pre[t]]
      /\ snap' = [t \in Tasks |-> IF t \in gone THEN 0 ELSE snap[t]]
      /\ phase' = [t \in Tasks |-> IF t \in gone THEN 1 ELSE phase[t]]
  BY <1>2 DEF Crash
<1>6. budget' \in 0..MaxEvents
  BY <1>1, BudgetType DEF Crash
<1>7. TypeOK'
  <2>1. LockTypeOK'
    BY <1>1, <1>3, <1>4, <1>5 DEF TypeOK, LockTypeOK
  <2>2. RequestTypeOK'
    BY <1>1, <1>3, <1>4, <1>5, <2>1, RefreshAssumption DEF TypeOK, RequestTypeOK
  <2>3. stray' \subseteq 0..MaxGrants
    <3>1. stray' = stray \cup {tok[t] : t \in {u \in gone : pc[u] = "wire"}}
      BY <1>2 DEF Crash
    <3>2. stray \subseteq 0..MaxGrants /\ \A t \in Tasks : tok[t] \in 0..MaxGrants
      BY <1>1 DEF TypeOK
    <3>3. \A x \in stray' : x \in 0..MaxGrants
      BY <3>1, <3>2
    <3> QED BY <3>3
  <2>4. WorldTypeOK'
    BY <1>1, <1>3, <1>6, <2>3, RefreshAssumption DEF TypeOK, WorldTypeOK
  <2> QED BY <2>2, <2>4 DEF TypeOK, RequestTypeOK, WorldTypeOK
<1>8. LockInv'
  <2>1. OuterInv' /\ HomeInv' /\ FdInv'
    BY <1>1, <1>4 DEF LockInv, OuterInv, HomeInv, FdInv
  <2>2. \A i \in Inodes : \A u \in Tasks : Holds(u, i)' => Holds(u, i)
    BY <1>1, <1>4, LockAssumption DEF Holds
  <2>3. FlockInv'
    BY <1>1, <2>2 DEF LockInv, FlockInv
  <2>4. SecureInv'
    BY <1>1, <1>3, <1>4 DEF LockInv, SecureInv, Secure
  <2> QED BY <2>1, <2>3, <2>4 DEF LockInv
<1>9. GrantInv'
  <2>1. SUFFICES ASSUME mishaps' = {}
                 PROVE  GrantInv'
    BY DEF GrantInv
  <2>2. mishaps = {} /\ \A t \in gone : ~(pc[t] = "apply" /\ tok[t] # disk)
    BY <1>2, <1>3, <2>1 DEF Crash, Abandons
  <2>3. \A u \in Tasks : pc'[u] \in {"wire", "grace", "apply"} =>
                           pc[u] = pc'[u] /\ tok'[u] = tok[u]
    BY <1>4
  <2>4. \A u \in Tasks : pc[u] = "apply" /\ tok[u] # disk => pc'[u] = "apply" /\ tok'[u] = tok[u]
    BY <1>4, <2>2
  <2>5. \A q \in Procs : tomb'[q] = 0
    BY <1>1, <1>3, <2>2 DEF GrantInv, TypeOK
  <2> QED BY <1>1, <1>3, <2>2, <2>3, <2>4, <2>5 DEF GrantInv
<1>10. SleepInv'
  <2>1. \A q \in Procs : power'[q] # "awake" => gate'[q]
    BY <1>1, <1>3 DEF SleepInv, TypeOK
  <2>2. \A t \in Tasks : pc'[t] \in {"wire", "grace"} => power'[home'[t]] # "acked"
    <3>1. SUFFICES ASSUME NEW t \in Tasks, pc'[t] \in {"wire", "grace"}
                   PROVE  power'[home'[t]] # "acked"
      OBVIOUS
    <3>2. t \notin gone /\ pc[t] = pc'[t] /\ home'[t] = home[t] /\ home[t] # p
      BY <1>2, <1>4, <3>1
    <3>3. power[home[t]] # "acked" /\ home[t] \in Procs
      BY <1>1, <3>1, <3>2 DEF SleepInv, LockInv, HomeInv
    <3> QED BY <1>1, <1>3, <3>2, <3>3 DEF TypeOK
  <2> QED BY <2>1, <2>2 DEF SleepInv
<1> QED BY <1>7, <1>8, <1>9, <1>10 DEF IInv

LEMMA DroppedStep ==
  ASSUME IInv, NEW t \in Tasks, Dropped(t)
  PROVE  IInv'
<1>1. TypeOK /\ LockInv /\ GrantInv /\ SleepInv /\ home[t] \in Procs /\ Return(t, home[t])
      /\ UNCHANGED <<disk, minted, live, expired, tomb, gate, power>>
      /\ mishaps' \in {mishaps, mishaps \cup {"abandoned"}}
      /\ pc \in [Tasks -> {"idle", "reload", "flow", "mutex", "first", "held",
                       "again", "ready", "claimed", "wire", "grace", "apply"}]
  BY DEF IInv, Dropped, LockInv, HomeInv, TypeOK
<1>2. RequestTypeOK' /\ LockInv' /\ Goes(t, "idle")
  BY <1>1, ReturnKeeps
<1>3. stray' \subseteq 0..MaxGrants /\ budget' \in 0..MaxEvents
  BY <1>1, BudgetType DEF Dropped, TypeOK
<1>4. TypeOK'
  BY <1>1, <1>2, <1>3 DEF TypeOK, RequestTypeOK
<1>5. SleepInv'
  BY <1>1, <1>2, CalmKeepsSleep
<1>6. GrantInv'
  <2>1. SUFFICES ASSUME mishaps' = {}
                 PROVE  GrantInv'
    BY DEF GrantInv
  <2>2. mishaps = {} /\ ~(pc[t] = "apply" /\ tok[t] # disk)
    BY <1>1, <2>1 DEF Dropped, Abandons
  <2>3. \A u \in Tasks : pc'[u] \in {"wire", "grace", "apply"} =>
                           pc[u] = pc'[u] /\ tok'[u] = tok[u]
    BY <1>1, <1>2 DEF Goes
  <2>4. \A u \in Tasks : pc[u] = "apply" /\ tok[u] # disk => pc'[u] = "apply" /\ tok'[u] = tok[u]
    BY <1>1, <1>2, <2>2 DEF Goes
  <2> QED BY <1>1, <2>2, <2>3, <2>4 DEF GrantInv
<1> QED BY <1>2, <1>4, <1>5, <1>6 DEF IInv

LEMMA StrayStep ==
  ASSUME IInv, NEW g \in Grants, StrayArrives(g)
  PROVE  IInv'
<1>1. TypeOK /\ LockInv /\ GrantInv /\ SleepInv
      /\ UNCHANGED <<lockVars, mem, disk, expired, tomb, mutex, home, pc, reason, pre, tok,
                     snap, gate, power, budget>>
      /\ stray' \subseteq stray
  BY DEF IInv, StrayArrives
<1>2. LockInv'
  BY <1>1, SameKeepsLock DEF StrayArrives, lockVars
<1>3. SleepInv'
  BY <1>1 DEF SleepInv
<1>4. CASE UNCHANGED <<minted, live, mishaps>>
  <2>1. TypeOK'
    BY <1>1, <1>4 DEF TypeOK, LockTypeOK, lockVars
  <2>2. GrantInv'
    BY <1>1, <1>4 DEF GrantInv
  <2> QED BY <1>2, <1>3, <2>1, <2>2 DEF IInv
<1>5. ASSUME minted < MaxGrants, minted' = minted + 1,
             live' = (live \ {g}) \cup {minted'}, mishaps' = mishaps \cup {"abandoned"}
      PROVE  IInv'
  <2>1. minted' \in Grants /\ live' \subseteq 1..minted' /\ expired' \subseteq 1..minted'
    BY <1>1, <1>5, RotationTypes
  <2>2. TypeOK'
    BY <1>1, <1>5, <2>1 DEF TypeOK, LockTypeOK, lockVars
  <2>3. GrantInv'
    BY <1>5 DEF GrantInv
  <2> QED BY <1>2, <1>3, <2>2, <2>3 DEF IInv
<1> QED BY <1>4, <1>5 DEF StrayArrives

LEMMA PowerStep ==
  ASSUME IInv, NEW p \in Procs, WillSleep(p) \/ AckSleep(p) \/ Wake(p)
  PROVE  IInv'
<1>1. TypeOK /\ LockInv /\ GrantInv /\ SleepInv
  BY DEF IInv
<1>2. /\ UNCHANGED <<mem, disk, minted, live, expired, tomb, mutex, home, pc, reason, pre, tok,
                     snap, stray, mishaps>>
      /\ UNCHANGED <<path, info, lk, phase, fd, outer>>
  BY DEF WillSleep, AckSleep, Wake, chainVars, lockVars
<1>3. budget' \in 0..MaxEvents
  BY <1>1, BudgetType DEF WillSleep, AckSleep, Wake, TypeOK
<1>4. power' \in [Procs -> {"awake", "holding", "acked", "overdue"}] /\ gate' \in [Procs -> BOOLEAN]
  BY <1>1 DEF WillSleep, AckSleep, Wake, TypeOK
<1>5. TypeOK'
  BY <1>1, <1>2, <1>3, <1>4 DEF TypeOK, LockTypeOK
<1>6. LockInv'
  BY <1>1, <1>2, SameKeepsLock
<1>7. GrantInv'
  BY <1>1, <1>2 DEF GrantInv
<1>8. SleepInv'
  <2>1. \A q \in Procs : power'[q] # "awake" => gate'[q]
    <3>1. CASE WillSleep(p)
      BY <1>1, <3>1 DEF WillSleep, SleepInv, TypeOK
    <3>2. CASE AckSleep(p)
      BY <1>1, <3>2 DEF AckSleep, SleepInv, TypeOK
    <3>3. CASE Wake(p)
      BY <1>1, <3>3 DEF Wake, SleepInv, TypeOK
    <3> QED BY <3>1, <3>2, <3>3
  <2>2. \A t \in Tasks : pc[t] \in {"wire", "grace"} => power'[home[t]] # "acked"
    <3>1. SUFFICES ASSUME NEW t \in Tasks, pc[t] \in {"wire", "grace"}
                   PROVE  power'[home[t]] # "acked"
      OBVIOUS
    <3>2. home[t] \in Procs /\ power[home[t]] # "acked"
      BY <1>1, <3>1 DEF SleepInv, LockInv, HomeInv
    <3> QED BY <1>1, <3>1, <3>2 DEF WillSleep, AckSleep, Wake, TypeOK, InFlight
  <2> QED BY <1>2, <2>1, <2>2 DEF SleepInv
<1> QED BY <1>5, <1>6, <1>7, <1>8 DEF IInv

-----------------------------------------------------------------------------
(* The theorems.                                                           *)

LEMMA InitInv == Init => IInv
<1> SUFFICES ASSUME Init
             PROVE  IInv
  OBVIOUS
<1>1. TypeOK
  BY RefreshAssumption DEF Init, LockInit, TypeOK, LockTypeOK, Grants
<1>2. LockInv
  BY LockAssumption DEF Init, LockInit, LockInv, OuterInv, HomeInv, FdInv, FlockInv, SecureInv,
                        Secure, Holds
<1>3. GrantInv
  BY DEF Init, GrantInv
<1>4. SleepInv
  BY DEF Init, SleepInv
<1> QED BY <1>1, <1>2, <1>3, <1>4 DEF IInv

LEMMA ChainInv ==
  ASSUME IInv, NEW t \in Tasks, ChainStep(t)
  PROVE  IInv'
BY ReloadStep, FlowStep, TakeMutexStep, FirstLockStep, RevalidateStep, SecondLockStep, ClaimStep,
   SendTokenStep, AfterRejectionStep, ApplyStep
   DEF ChainStep

LEMMA HostInv ==
  ASSUME IInv, NEW t \in Tasks, HostStep(t)
  PROVE  IInv'
BY HostRotatesStep, ReplyLostStep, HostFailsStep, HostRejectsStep DEF HostStep

LEMMA StutterInv == IInv /\ UNCHANGED vars => IInv'
BY DEF IInv, TypeOK, LockTypeOK, LockInv, OuterInv, HomeInv, FdInv, FlockInv, SecureInv, Secure,
       Holds, GrantInv, SleepInv, vars, lockVars, chainVars, envVars

LEMMA NextInv == IInv /\ [Next]_vars => IInv'
<1> SUFFICES ASSUME IInv, [Next]_vars
             PROVE  IInv'
  OBVIOUS
<1>1. ASSUME NEW t \in Tasks, NEW p \in Procs,
             \/ Auth(t, p) \/ Recover(t, p) \/ Tick(t, p, TRUE) \/ Tick(t, p, FALSE)
             \/ StartFlow(t, p)
      PROVE  IInv'
  BY <1>1, AuthStep, RecoverStep, TickStep
<1>2. ASSUME NEW t \in Tasks, Lock(t) \/ ChainStep(t) \/ HostStep(t) \/ Dropped(t)
      PROVE  IInv'
  BY <1>2, LockedStep, ChainInv, HostInv, DroppedStep
<1>3. ASSUME NEW p \in Procs,
             Logout(p) \/ Crash(p) \/ WillSleep(p) \/ AckSleep(p) \/ Wake(p)
      PROVE  IInv'
  BY <1>3, LogoutStep, CrashStep, PowerStep
<1>4. ASSUME NEW g \in Grants, StrayArrives(g)
      PROVE  IInv'
  BY <1>4, StrayStep
<1> QED BY <1>1, <1>2, <1>3, <1>4, TimeStep, StutterInv DEF Next

\* The inductive invariant: the types, the discipline of auth.json.lock, what
\* is on the wire against what is stored and live, and the sleep gate.
THEOREM RefreshInductive == Spec => []IInv
BY InitInv, NextInv, PTL DEF Spec

\* The state of the processes, the lock file and the host stays well typed.
THEOREM RefreshTypeCorrect == Spec => []TypeOK
<1>1. IInv => TypeOK
  BY DEF IInv
<1> QED BY <1>1, RefreshInductive, PTL

\* However many processes and tasks share auth.json, one refresh token is on
\* the wire once at a time, unless the lock file of a task that had passed
\* revalidate_lock_or_reacquire was unlinked.
THEOREM RefreshOneSpender == Spec => []OneSpenderUnlessBroken
<1>1. IInv => OneSpenderUnlessBroken
  <2>1. SUFFICES ASSUME IInv, "broken" \notin mishaps, NEW t \in Tasks, NEW u \in Tasks,
                        t # u, {pc[t], pc[u]} \subseteq {"wire", "grace"}
                 PROVE  FALSE
    BY DEF OneSpenderUnlessBroken
  <2>2. Secure(t) /\ Secure(u)
    BY <2>1 DEF Secure
  <2> QED BY <2>1, <2>2, OneSecure DEF IInv
<1> QED BY <1>1, RefreshInductive, PTL

\* A permanent failure is recorded only after a mishap: while no reply was
\* lost, no write failed, no request was abandoned by a crash or a cancelled
\* turn once the host had rotated its token, no lock in use was broken, nobody
\* logged out and the host refused no live token, no process sends its user
\* back to the login.
THEOREM RefreshTombstoneCause == Spec => []TombstoneHasCause
<1>1. IInv => TombstoneHasCause
  BY DEF IInv, GrantInv, TombstoneHasCause
<1> QED BY <1>1, RefreshInductive, PTL

\* Without a mishap the refresh token in auth.json is one the host accepts,
\* whenever no refresh is under way.
THEOREM RefreshStoredLive == Spec => []StoredTokenIsLive
<1>1. IInv => StoredTokenIsLive
  BY DEF IInv, GrantInv, StoredTokenIsLive
<1> QED BY <1>1, RefreshInductive, PTL

\* No refresh is on the wire between an acknowledged sleep and the wake.
THEOREM RefreshNotAcrossSleep == Spec => []NoRefreshAcrossSleep
<1>1. IInv => NoRefreshAcrossSleep
  BY DEF IInv, SleepInv, NoRefreshAcrossSleep
<1> QED BY <1>1, RefreshInductive, PTL
=============================================================================
