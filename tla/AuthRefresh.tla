---------------------------- MODULE AuthRefresh ----------------------------
(***************************************************************************)
(* The OAuth session of several kigi processes over one auth.json          *)
(* (auth/manager.rs, auth/recovery.rs, auth/flow.rs, auth/refresh/,        *)
(* auth/manager/sleep_gate.rs).  Each process caches the credential; any   *)
(* task may find it expiring or rejected and run refresh_chain, which must *)
(* never send a refresh token that was already spent: the OAuth host       *)
(* rotates the token on every use, so a second use is refused and the user *)
(* has to log in again.                                                    *)
(*                                                                         *)
(* A credential is the number of the grant that minted it and stands for   *)
(* its access and its refresh token together; 0 is none.  The file store   *)
(* is modelled, not the keyring, and so are OAuth sessions, not API keys.  *)
(* A cached token inside the refresh threshold that is returned as a grace *)
(* changes no state and is left out, and so is the fresh-mint guard, which *)
(* only answers a request without refreshing.                              *)
(***************************************************************************)
EXTENDS AuthLock

CONSTANTS Procs,       \* kigi processes sharing one KIGI_SHARE_DIR
          NoProc,
          Callers,     \* which entry points are called
          MaxGrants,   \* bound: credentials the host mints
          MaxEvents,   \* bound: events other than requests and time
          Events       \* which of them happen

ASSUME RefreshAssumption ==
  /\ NoProc \notin Procs
  /\ Callers \subseteq {"auth", "tick", "recover"}
  /\ MaxGrants \in Nat \ {0} /\ MaxEvents \in Nat
  /\ Events \subseteq {"lost", "refused", "unsaved", "crash", "drop", "login",
                 "logout", "sleep"}

\* A file system never runs out of inode numbers: there are more than the open
\* files of the tasks, of which the login flow has two.
ASSUME InodeAssumption ==
  /\ IsFiniteSet(Tasks)
  /\ IsFiniteSet(Inodes) =>
       Cardinality(Inodes) > Cardinality(Tasks) * (IF "login" \in Events THEN 2 ELSE 1)

Grants == 1..MaxGrants

VARIABLES
  mem,      \* `inner` of each process
  disk,     \* the scope's entry in auth.json
  minted,   \* grants the host has made
  live,     \* refresh tokens the host would accept
  expired,  \* credentials inside their refresh threshold
  tomb,     \* `permanent_failure` of each process
  mutex,    \* `refresh_lock` of each process: the task that has it, or none
  home,     \* the process a task runs in
  pc,       \* where each task is in auth(), recovery or the login flow
  reason,   \* RefreshReason
  pre,      \* pre_lock_key, or the rejected key while reloading
  tok,      \* the refresh token sent, or the credential to persist
  snap,     \* the credential the login flow read before it called auth()
  gate,     \* sleep_gate of each process
  power,    \* its power listener: awake, holding the ack, acknowledged
  stray,    \* tokens of requests that nobody waits for any more
  mishaps,  \* history: what went wrong that the lock cannot prevent
  budget    \* events left

chainVars == <<mem, disk, minted, live, expired, tomb, mutex, home, pc, reason,
               pre, tok, snap>>
envVars == <<gate, power, stray, budget>>
vars == <<lockVars, chainVars, envVars, mishaps>>

NoTask == "none"

\* A bounded event of the given kind happens.
Happens(kind) == kind \in Events /\ budget > 0 /\ budget' = budget - 1

\* From here to the end of the refresher's call the in-flight slot is taken.
InFlight == {"claimed", "wire", "grace"}

TypeOK ==
  /\ LockTypeOK
  /\ mem \in [Procs -> 0..MaxGrants] /\ disk \in 0..MaxGrants
  /\ minted \in Grants /\ live \subseteq 1..minted /\ expired \subseteq 1..minted
  /\ tomb \in [Procs -> 0..MaxGrants]
  /\ mutex \in [Procs -> Tasks \cup {NoTask}]
  /\ home \in [Tasks -> Procs \cup {NoProc}]
  /\ pc \in [Tasks -> {"idle", "reload", "flow", "mutex", "first", "held",
                       "again", "ready", "claimed", "wire", "grace", "apply"}]
  /\ reason \in [Tasks -> {"PreRequest", "ServerRejected"}]
  /\ pre \in [Tasks -> 0..MaxGrants] /\ tok \in [Tasks -> 0..MaxGrants]
  /\ snap \in [Tasks -> 0..MaxGrants]
  /\ gate \in [Procs -> BOOLEAN]
  /\ power \in [Procs -> {"awake", "holding", "acked", "overdue"}]
  /\ stray \subseteq 0..MaxGrants
  /\ mishaps \subseteq {"broken", "lost", "refused", "unsaved", "abandoned", "logout"}
  /\ budget \in 0..MaxEvents

Init ==
  /\ LockInit
  /\ minted = 1 /\ live = {1} /\ expired \in {{}, {1}}
  /\ disk = 1 /\ mem = [p \in Procs |-> 1]
  /\ tomb = [p \in Procs |-> 0]
  /\ mutex = [p \in Procs |-> NoTask]
  /\ home = [t \in Tasks |-> NoProc] /\ pc = [t \in Tasks |-> "idle"]
  /\ reason = [t \in Tasks |-> "PreRequest"]
  /\ pre = [t \in Tasks |-> 0] /\ tok = [t \in Tasks |-> 0]
  /\ snap = [t \in Tasks |-> 0]
  /\ gate = [p \in Procs |-> FALSE] /\ power = [p \in Procs |-> "awake"]
  /\ stray = {} /\ mishaps = {}
  /\ budget = MaxEvents

-----------------------------------------------------------------------------
(* What the manager reads.                                                 *)

Fresh(g) == g # 0 /\ g \notin expired

\* AuthManager::current.
Current(p) == IF Fresh(mem[p]) THEN mem[p] ELSE 0

\* resolve_refresh_credential: persisted first, then the expired cached one,
\* then (on ServerRejected only) the current one.
Resolve(p, why) ==
  CASE disk # 0                                  -> disk
    [] disk = 0 /\ mem[p] \in expired            -> mem[p]
    [] disk = 0 /\ mem[p] \notin expired
                /\ why = "ServerRejected"        -> mem[p]
    [] OTHER                                     -> 0

\* permanent_failure(): a stored tombstone counts while it names the token a
\* refresh would send; its cooldown is part of TimePasses.
Tombstoned(p) == tomb[p] # 0 /\ tomb[p] = Resolve(p, "ServerRejected")

\* try_use_disk_token.
Adoptable(p, why) ==
  Fresh(disk) /\ (why = "ServerRejected" => disk # mem[p])

-----------------------------------------------------------------------------
(* How a request ends: the guards drop, the file lock and the in-process   *)
(* mutex with them.                                                        *)

Unlock(t) ==
  /\ lk' = [lk EXCEPT ![t] = "out"]
  /\ phase' = [phase EXCEPT ![t] = 1]
  /\ fd' = [fd EXCEPT ![t] = NoInode]
  /\ UNCHANGED <<path, info>>

End(t, p) ==
  /\ pc' = [pc EXCEPT ![t] = "idle"]
  /\ home' = [home EXCEPT ![t] = NoProc]
  /\ mutex' = [mutex EXCEPT ![p] = IF @ = t THEN NoTask ELSE @]
  /\ reason' = [reason EXCEPT ![t] = "PreRequest"]
  /\ pre' = [pre EXCEPT ![t] = 0]
  /\ tok' = [tok EXCEPT ![t] = 0]
  /\ snap' = [snap EXCEPT ![t] = 0]
  /\ outer' = [outer EXCEPT ![t] = NoInode]
  /\ Unlock(t)

\* The request of task t in process p is over, with m left in p's cache.
Answer(t, p, m) == mem' = [mem EXCEPT ![p] = m] /\ End(t, p)

\* Err(transient): the login flow then puts the credential it had read from
\* disk before the call into the cache; every other caller leaves it alone.
Transient(t, p) == Answer(t, p, IF snap[t] # 0 THEN snap[t] ELSE mem[p])

\* Err(permanent), or Ok with the cache as it is.
Return(t, p) == Answer(t, p, mem[p])

\* refresh_chain up to the await of refresh_lock (step 0).
EnterChain(t, p, why) ==
  IF Tombstoned(p)
  THEN IF Adoptable(p, why) THEN Answer(t, p, disk) ELSE Return(t, p)
  ELSE /\ home' = [home EXCEPT ![t] = p]
       /\ pc' = [pc EXCEPT ![t] = "mutex"]
       /\ reason' = [reason EXCEPT ![t] = why]
       /\ pre' = [pre EXCEPT ![t] = Current(p)]
       /\ Unlock(t)
       /\ UNCHANGED <<mem, mutex, tok, snap, outer>>

-----------------------------------------------------------------------------
(* Callers: task t makes a request in process p.                           *)

\* auth_dispatch past its fast path, for an OAuth session.
Auth(t, p) ==
  /\ "auth" \in Callers /\ pc[t] = "idle" /\ mem[p] \in expired
  /\ EnterChain(t, p, "PreRequest")
  /\ UNCHANGED <<disk, minted, live, expired, tomb, envVars, mishaps>>

\* proactive_tick, forced after a system sleep: the back-off guards,
\* pick_up_sibling_token, then the chain.
Tick(t, p, force) ==
  /\ "tick" \in Callers /\ pc[t] = "idle"
  /\ \/ /\ Tombstoned(p) /\ Adoptable(p, "PreRequest")
        /\ Answer(t, p, disk)
     \/ /\ ~Tombstoned(p) /\ mem[p] # 0 /\ ~gate[p]
        /\ Fresh(disk) /\ disk # mem[p]
        /\ \/ /\ force
              /\ mem' = [mem EXCEPT ![p] = disk]
              /\ home' = [home EXCEPT ![t] = p]
              /\ pc' = [pc EXCEPT ![t] = "mutex"]
              /\ reason' = [reason EXCEPT ![t] = "ServerRejected"]
              /\ pre' = [pre EXCEPT ![t] = disk]
              /\ UNCHANGED <<mutex, tok, snap, lockVars>>
           \/ ~force /\ Answer(t, p, disk)
     \/ /\ ~Tombstoned(p) /\ mem[p] # 0 /\ ~gate[p]
        /\ ~(Fresh(disk) /\ disk # mem[p])
        /\ force \/ mem[p] \in expired
        /\ EnterChain(t, p, IF force THEN "ServerRejected" ELSE "PreRequest")
  /\ UNCHANGED <<disk, minted, live, expired, tomb, envVars, mishaps>>

\* UnauthorizedRecovery::next after a 401: first ReloadFromDisk, under a lock
\* it can do without ...
Recover(t, p) ==
  /\ "recover" \in Callers /\ pc[t] = "idle" /\ mem[p] # 0
  /\ home' = [home EXCEPT ![t] = p]
  /\ pc' = [pc EXCEPT ![t] = "reload"]
  /\ pre' = [pre EXCEPT ![t] = mem[p]]
  /\ lk' = [lk EXCEPT ![t] = "try"]
  /\ UNCHANGED <<path, info, phase, fd, outer, mem, disk, minted, live, expired,
                 tomb, mutex, reason, tok, snap, envVars, mishaps>>

\* ... then RefreshFromAuthority.
Reload(t) ==
  /\ pc[t] = "reload" /\ lk[t] \in {"locked", "nolock"}
  /\ CASE Fresh(disk) /\ disk # pre[t]               -> Answer(t, home[t], disk)
       [] ~(Fresh(disk) /\ disk # pre[t])
            /\ mem[home[t]] = 0                      -> Return(t, home[t])
       [] OTHER                      -> EnterChain(t, home[t], "ServerRejected")
  /\ UNCHANGED <<disk, minted, live, expired, tomb, envVars, mishaps>>

\* The user logs in: run_auth_flow_inner with an expired cached credential ...
StartFlow(t, p) ==
  /\ pc[t] = "idle" /\ mem[p] \in expired
  /\ Happens("login")
  /\ home' = [home EXCEPT ![t] = p]
  /\ pc' = [pc EXCEPT ![t] = "flow"]
  /\ lk' = [lk EXCEPT ![t] = "try"]
  /\ UNCHANGED <<path, info, phase, fd, outer, mem, disk, minted, live, expired,
                 tomb, mutex, reason, pre, tok, snap, gate, power, stray, mishaps>>

\* ... with its lock, or without after the timeout: a valid persisted token,
\* or else auth() while `_file_lock` stays in scope.
Flow(t) ==
  LET p == home[t] IN
    /\ pc[t] = "flow" /\ lk[t] \in {"locked", "nolock"}
    /\ IF Fresh(disk) \/ Fresh(mem[p]) \/ mem[p] = 0 \/ Tombstoned(p)
       THEN Answer(t, p, IF Fresh(disk) THEN disk ELSE mem[p])
       ELSE /\ pc' = [pc EXCEPT ![t] = "mutex"]
            /\ outer' = [outer EXCEPT ![t] = fd[t]]
            /\ snap' = [snap EXCEPT ![t] = disk]
            /\ Unlock(t)
            /\ UNCHANGED <<home, mem, mutex, reason, pre, tok>>
    /\ UNCHANGED <<disk, minted, live, expired, tomb, envVars, mishaps>>

-----------------------------------------------------------------------------
(* refresh_chain, from the grant of refresh_lock on.                       *)

\* Steps 1 and 1b, and the start of acquire_refresh_lock_or_adopt.
TakeMutex(t) ==
  /\ pc[t] = "mutex"
  /\ LET p == home[t] IN
       /\ mutex[p] = NoTask
       /\ IF \/ Current(p) # 0 /\ (reason[t] = "PreRequest" \/ pre[t] # Current(p))
             \/ Tombstoned(p)
          THEN Return(t, home[t])
          ELSE /\ mutex' = [mutex EXCEPT ![p] = t]
               /\ pc' = [pc EXCEPT ![t] = "first"]
               /\ lk' = [lk EXCEPT ![t] = "try"]
               /\ pre' = [pre EXCEPT ![t] = 0]
               /\ UNCHANGED <<path, info, phase, fd, outer, home, mem, reason, tok, snap>>
  /\ UNCHANGED <<disk, minted, live, expired, tomb, envVars, mishaps>>

\* Step 2 after the lock attempt, and step 3a.  Without a refresher, and in a
\* dark wake, which the manager asks the system about, nothing is sent either.
FirstLock(t) ==
  /\ pc[t] = "first" /\ lk[t] \in {"locked", "nolock"}
  /\ \/ /\ Adoptable(home[t], reason[t])
        /\ Answer(t, home[t], disk)
     \/ /\ ~Adoptable(home[t], reason[t])
        /\ Transient(t, home[t])
     \/ /\ lk[t] = "locked" /\ ~Adoptable(home[t], reason[t]) /\ ~gate[home[t]]
        /\ pc' = [pc EXCEPT ![t] = "held"]
        /\ UNCHANGED <<home, mem, mutex, reason, pre, tok, snap, lockVars>>
  /\ UNCHANGED <<disk, minted, live, expired, tomb, envVars, mishaps>>

\* Step 3b, revalidate_lock_or_reacquire.
Revalidate(t) ==
  /\ pc[t] = "held"
  /\ \/ /\ StillLive(t)
        /\ pc' = [pc EXCEPT ![t] = "ready"]
        /\ UNCHANGED lockVars
     \/ /\ ~StillLive(t)
        /\ pc' = [pc EXCEPT ![t] = "again"]
        /\ lk' = [lk EXCEPT ![t] = "try"]
        /\ phase' = [phase EXCEPT ![t] = 1]
        /\ fd' = [fd EXCEPT ![t] = NoInode]
        /\ UNCHANGED <<path, info, outer>>
  /\ UNCHANGED <<home, mem, mutex, reason, pre, tok, snap, disk, minted, live, expired,
                 tomb, envVars, mishaps>>

\* ... after the second lock attempt.
SecondLock(t) ==
  /\ pc[t] = "again" /\ lk[t] \in {"locked", "nolock"}
  /\ CASE lk[t] = "nolock" -> Transient(t, home[t])
       [] lk[t] = "locked" /\ Adoptable(home[t], reason[t]) -> Answer(t, home[t], disk)
       [] OTHER -> /\ pc' = [pc EXCEPT ![t] = "ready"]
                   /\ UNCHANGED <<home, mem, mutex, reason, pre, tok, snap, lockVars>>
  /\ UNCHANGED <<disk, minted, live, expired, tomb, envVars, mishaps>>

\* Step 3c: InFlightGuard::new ...
Claim(t) ==
  /\ pc[t] = "ready"
  /\ pc' = [pc EXCEPT ![t] = "claimed"]
  /\ UNCHANGED <<home, mem, mutex, reason, pre, tok, snap, disk, minted, live, expired,
                 tomb, lockVars, envVars, mishaps>>

\* Mutant: no last look at the sleep gate.
SendTokenUngated(t) ==
  LET p == home[t]
      g == Resolve(p, reason[t])
  IN
    /\ pc[t] = "claimed" /\ g # 0
    /\ pc' = [pc EXCEPT ![t] = "wire"]
    /\ tok' = [tok EXCEPT ![t] = g]
    /\ UNCHANGED <<home, mem, mutex, reason, pre, snap, lockVars, disk, minted,
                   live, expired, tomb, envVars, mishaps>>

\* ... the last look at the sleep gate, and the refresher up to the request:
\* a valid persisted token that is not the cached one is taken as it is.
SendToken(t) ==
  LET p == home[t]
      g == Resolve(p, reason[t])
  IN
    /\ pc[t] = "claimed"
    /\ CASE gate[p] -> Transient(t, home[t])
         [] ~gate[p] /\ Fresh(disk) /\ Current(p) # disk ->
              /\ pc' = [pc EXCEPT ![t] = "apply"]
              /\ tok' = [tok EXCEPT ![t] = disk]
              /\ UNCHANGED <<home, mem, mutex, reason, pre, snap, lockVars>>
         [] ~gate[p] /\ ~(Fresh(disk) /\ Current(p) # disk) /\ g = 0 ->
              Transient(t, home[t])
         [] OTHER ->
              /\ pc' = [pc EXCEPT ![t] = "wire"]
              /\ tok' = [tok EXCEPT ![t] = g]
              /\ UNCHANGED <<home, mem, mutex, reason, pre, snap, lockVars>>
    /\ UNCHANGED <<disk, minted, live, expired, tomb, envVars, mishaps>>

\* External: the OAuth host answers 200 and rotates the refresh token ...
HostRotates(t) ==
  /\ pc[t] = "wire" /\ tok[t] \in live /\ minted < MaxGrants
  /\ minted' = minted + 1
  /\ live' = (live \ {tok[t]}) \cup {minted'}
  /\ tok' = [tok EXCEPT ![t] = minted']
  /\ pc' = [pc EXCEPT ![t] = "apply"]
  /\ UNCHANGED <<home, mem, mutex, reason, pre, snap, disk, expired, tomb, lockVars,
                 envVars, mishaps>>

\* ... or does so and the reply is lost: the retry loop sends the token again.
ReplyLost(t) ==
  /\ pc[t] = "wire" /\ tok[t] \in live /\ minted < MaxGrants
  /\ Happens("lost")
  /\ minted' = minted + 1
  /\ live' = (live \ {tok[t]}) \cup {minted'}
  /\ mishaps' = mishaps \cup {"lost"}
  /\ UNCHANGED <<home, mem, mutex, reason, pre, tok, snap, pc, disk, expired, tomb,
                 lockVars, gate, power, stray>>

\* Mutant: a failure that says nothing of the token tombstones it.
HostFailsForGood(t) ==
  /\ pc[t] = "wire"
  /\ Return(t, home[t])
  /\ tomb' = [tomb EXCEPT ![home[t]] = tok[t]]
  /\ UNCHANGED <<disk, minted, live, expired, envVars, mishaps>>

\* ... or cannot be reached, answers 5xx three times or something else.
HostFails(t) ==
  /\ pc[t] = "wire"
  /\ Transient(t, home[t])
  /\ UNCHANGED <<disk, minted, live, expired, tomb, envVars, mishaps>>

\* ... or answers 401 or 403: the token was spent before, or the host refuses
\* one that was not (it expired or was revoked there).
HostRejects(t) ==
  /\ pc[t] = "wire"
  /\ \/ tok[t] \notin live /\ UNCHANGED <<budget, mishaps>>
     \/ /\ tok[t] \in live /\ Happens("refused")
        /\ mishaps' = mishaps \cup {"refused"}
  /\ pc' = [pc EXCEPT ![t] = "grace"]
  /\ UNCHANGED <<home, mem, mutex, reason, pre, tok, snap, disk, minted, live, expired,
                 tomb, lockVars, gate, power, stray>>

\* adopt_rotation_after_unauthorized, and the PermanentFailure arm of
\* apply_refresh_outcome: adopt, demote to transient, or record the tombstone.
AfterRejection(t) ==
  LET p == home[t]
      memRt == IF mem[p] \in expired THEN mem[p] ELSE 0
  IN
    /\ pc[t] = "grace"
    /\ \/ /\ disk # 0 /\ disk # tok[t]
          /\ tok' = [tok EXCEPT ![t] = disk]
          /\ pc' = [pc EXCEPT ![t] = "apply"]
          /\ UNCHANGED <<home, mem, mutex, reason, pre, snap, lockVars, tomb>>
       \/ /\ disk \in {0, tok[t]}
          /\ CASE Adoptable(p, reason[t]) -> Answer(t, home[t], disk) /\ UNCHANGED tomb
               [] ~Adoptable(p, reason[t]) /\ Fresh(disk) /\ memRt # disk ->
                    Transient(t, home[t]) /\ UNCHANGED tomb
               [] OTHER -> Return(t, home[t]) /\ tomb' = [tomb EXCEPT ![p] = tok[t]]
    /\ UNCHANGED <<disk, minted, live, expired, envVars, mishaps>>

\* Mutant: the new credential is cached and not persisted.
ApplyCached(t) ==
  /\ pc[t] = "apply"
  /\ Answer(t, home[t], tok[t])
  /\ UNCHANGED <<disk, minted, live, expired, tomb, envVars, mishaps>>

\* The Success arm: update() persists, then caches.  With auth.json unreadable
\* it caches only; a failed write still caches and is reported as transient.
Apply(t) ==
  /\ pc[t] = "apply"
  /\ \/ /\ disk' = tok[t]
        /\ Answer(t, home[t], tok[t])
        /\ UNCHANGED <<budget, mishaps>>
     \/ /\ Happens("unsaved")
        /\ mishaps' = mishaps \cup {"unsaved"}
        /\ \/ Answer(t, home[t], tok[t])
           \/ Answer(t, home[t], IF snap[t] # 0 THEN snap[t] ELSE tok[t])
        /\ UNCHANGED disk
  /\ UNCHANGED <<minted, live, expired, tomb, gate, power, stray>>

-----------------------------------------------------------------------------
(* The rest of the world.                                                  *)

\* A step of the lock protocol; unlinking the file of a task that is past
\* step 3b is noted.
Lock(t) ==
  /\ LockStep(t)
  /\ mishaps' =
       IF /\ lk[t] = "break"
          /\ \E u \in Tasks :
               /\ fd[u] = path /\ path # NoInode
               /\ \/ pc[u] \in InFlight \cup {"ready", "apply"}
                  \/ pc[u] = "again" /\ lk[u] = "locked"
       THEN mishaps \cup {"broken"} ELSE mishaps
  /\ UNCHANGED <<chainVars, envVars>>

TimePasses ==
  /\ \/ /\ Age
        /\ UNCHANGED <<expired, tomb>>
     \/ /\ \E g \in (1..minted) \ expired : expired' = expired \cup {g}
        /\ UNCHANGED <<lockVars, tomb>>
     \/ /\ \E p \in Procs : tomb[p] # 0 /\ tomb' = [tomb EXCEPT ![p] = 0]
        /\ UNCHANGED <<lockVars, expired>>
  /\ UNCHANGED <<mem, disk, minted, live, mutex, home, pc, reason, pre, tok, snap,
                 envVars, mishaps>>

\* The request of task t is abandoned: its reply reaches nobody.
Abandons(t) == pc[t] = "apply" /\ tok[t] # disk

\* A cancelled turn aborts its future wherever refresh_chain awaits; the guards
\* drop, and what was sent stays sent.  The login flow runs in no turn.
Dropped(t) ==
  /\ pc[t] \notin {"idle", "flow"} /\ snap[t] = 0 /\ outer[t] = NoInode
  /\ Happens("drop")
  /\ stray' = IF pc[t] = "wire" THEN stray \cup {tok[t]} ELSE stray
  /\ mishaps' = IF Abandons(t) THEN mishaps \cup {"abandoned"} ELSE mishaps
  /\ Return(t, home[t])
  /\ UNCHANGED <<disk, minted, live, expired, tomb, gate, power>>

\* Such a request reaches the host after its sender is gone, or never does.
StrayArrives(g) ==
  /\ g \in stray
  /\ stray' = stray \ {g}
  /\ \/ /\ g \in live /\ minted < MaxGrants
        /\ minted' = minted + 1
        /\ live' = (live \ {g}) \cup {minted'}
        /\ mishaps' = mishaps \cup {"abandoned"}
     \/ UNCHANGED <<minted, live, mishaps>>
  /\ UNCHANGED <<lockVars, mem, disk, expired, tomb, mutex, home, pc, reason, pre, tok,
                 snap, gate, power, budget>>

\* remove_scope of the manager's own scope: the entry in auth.json is removed
\* only if the lock happens to be free and the file readable, the cache dropped
\* in each case; unless the write fails, which ends the logout.
Logout(p) ==
  /\ mem[p] # 0 /\ Happens("logout")
  /\ LET i == Opened IN
       /\ path' = i
       /\ info' = IF Held(i) THEN info ELSE "fresh"
       /\ \/ disk' = disk /\ mem' = [mem EXCEPT ![p] = 0]
          \/ ~Held(i) /\ disk' = 0 /\ mem' = [mem EXCEPT ![p] = 0]
          \/ ~Held(i) /\ UNCHANGED <<disk, mem>>
  /\ mishaps' = mishaps \cup {"logout"}
  /\ UNCHANGED <<lk, phase, fd, outer, minted, live, expired, tomb, mutex, home, pc,
                 reason, pre, tok, snap, gate, power, stray>>

\* A process dies and is started again: AuthManager::new loads what is on
\* disk; the kernel drops its flocks and its stamps name a dead PID.
Crash(p) ==
  LET gone == {t \in Tasks : home[t] = p}
      Reset(f, v) == [t \in Tasks |-> IF t \in gone THEN v ELSE f[t]]
  IN
    /\ Happens("crash")
    /\ stray' = stray \cup {tok[t] : t \in {u \in gone : pc[u] = "wire"}}
    /\ mishaps' = IF \E t \in gone : Abandons(t)
                  THEN mishaps \cup {"abandoned"} ELSE mishaps
    /\ mem' = [mem EXCEPT ![p] = disk] /\ tomb' = [tomb EXCEPT ![p] = 0]
    /\ mutex' = [mutex EXCEPT ![p] = NoTask]
    /\ gate' = [gate EXCEPT ![p] = FALSE] /\ power' = [power EXCEPT ![p] = "awake"]
    /\ pc' = Reset(pc, "idle") /\ reason' = Reset(reason, "PreRequest")
    /\ pre' = Reset(pre, 0) /\ tok' = Reset(tok, 0) /\ snap' = Reset(snap, 0)
    /\ lk' = Reset(lk, "out") /\ phase' = Reset(phase, 1)
    /\ fd' = Reset(fd, NoInode) /\ outer' = Reset(outer, NoInode)
    /\ home' = Reset(home, NoProc)
    /\ UNCHANGED <<path, info, disk, minted, live, expired>>

\* set_system_sleep_imminent(true): the gate first, then the ack is held ...
WillSleep(p) ==
  /\ power[p] = "awake" /\ Happens("sleep")
  /\ gate' = [gate EXCEPT ![p] = TRUE]
  /\ power' = [power EXCEPT ![p] = "holding"]
  /\ UNCHANGED <<lockVars, chainVars, stray, mishaps>>

\* ... until no refresh is in flight, or SLEEP_ACK_MAX_WAIT.
AckSleep(p) ==
  /\ power[p] = "holding"
  /\ power' = [power EXCEPT ![p] =
       IF \E t \in Tasks : home[t] = p /\ pc[t] \in InFlight THEN "overdue" ELSE "acked"]
  /\ UNCHANGED <<lockVars, chainVars, gate, stray, budget, mishaps>>

\* The wake event, or a gate that was up for SLEEP_GATE_MAX without one.
Wake(p) ==
  /\ power[p] # "awake" /\ power[p] # "holding"
  /\ gate' = [gate EXCEPT ![p] = FALSE]
  /\ power' = [power EXCEPT ![p] = "awake"]
  /\ UNCHANGED <<lockVars, chainVars, stray, budget, mishaps>>

\* What the task does by itself, and what it waits for the host to do.
ChainStep(t) ==
  \/ Reload(t) \/ Flow(t) \/ TakeMutex(t) \/ FirstLock(t) \/ Revalidate(t)
  \/ SecondLock(t) \/ Claim(t) \/ SendToken(t) \/ AfterRejection(t) \/ Apply(t)

HostStep(t) == HostRotates(t) \/ ReplyLost(t) \/ HostFails(t) \/ HostRejects(t)

Next ==
  \/ \E t \in Tasks : \/ \E p \in Procs : \/ Auth(t, p) \/ Recover(t, p)
                                          \/ Tick(t, p, TRUE) \/ Tick(t, p, FALSE)
                                          \/ StartFlow(t, p)
                      \/ Lock(t) \/ ChainStep(t) \/ HostStep(t) \/ Dropped(t)
  \/ \E g \in Grants : StrayArrives(g)
  \/ TimePasses
  \/ \E p \in Procs : Logout(p) \/ Crash(p) \/ WillSleep(p) \/ AckSleep(p) \/ Wake(p)

Spec == Init /\ [][Next]_vars

Deadline(t) == TimesOut(t) /\ UNCHANGED <<chainVars, envVars, mishaps>>

\* Every task keeps running; the in-process mutex is fair and the deadline of
\* a wait does pass, however often the waiter has to start over on another
\* inode.  The host may stay silent: the HTTP client has a connect timeout and
\* the request none.
FairSpec ==
  /\ Spec
  /\ \A t \in Tasks : /\ WF_vars(ChainStep(t) \/ Lock(t))
                       /\ SF_vars(TakeMutex(t))
                       /\ SF_vars(Deadline(t))

-----------------------------------------------------------------------------
(* Properties.                                                             *)

\* Two tasks never have the same refresh token on the wire, unless the lock
\* file of one that had passed revalidate_lock_or_reacquire was unlinked.
OneSpenderUnlessBroken ==
  \/ "broken" \in mishaps
  \/ \A t, u \in Tasks : t # u /\ {pc[t], pc[u]} \subseteq {"wire", "grace"}
                           => tok[t] # tok[u]

\* A task is told to log in again only after something that left the live
\* refresh token outside auth.json, or after the host refused a live one.
TombstoneHasCause == mishaps # {} \/ \A p \in Procs : tomb[p] = 0

\* While no refresh is under way the stored refresh token is one the host
\* accepts, so every process can go on from it.
StoredTokenIsLive ==
  \/ mishaps # {} \/ disk \in live \cup {0}
  \/ \E t \in Tasks : pc[t] \in {"wire", "grace", "apply"}

\* Between an acknowledged sleep and the wake no task has a refresh on the
\* wire; the request of a cancelled turn has no task any more.
NoRefreshAcrossSleep ==
  \A t \in Tasks :
    pc[t] \in {"wire", "grace"} => ~(power[home[t]] = "acked" /\ gate[home[t]])

\* Every request for a token made in a process is answered, with a token or an
\* error, whatever happens to the lock file and in the other processes, as
\* long as no request of this process stays on the wire for ever.  A request
\* another process never gets an answer to keeps the file lock, not this one.
Answered ==
  \A p \in Procs :
    (\A u \in Tasks : []<>~(home[u] = p /\ pc[u] = "wire"))
      => \A t \in Tasks : home[t] = p ~> home[t] # p
=============================================================================
