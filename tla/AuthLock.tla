------------------------------ MODULE AuthLock ------------------------------
(***************************************************************************)
(* auth.json.lock (auth/manager/lock.rs): an exclusive flock on whatever   *)
(* inode the path names, stamped with PID:TIMESTAMP, that a waiter may     *)
(* break by unlinking the path when the stamp looks stale.  One acquirer   *)
(* per task, over several processes.  flock belongs to the open file, so   *)
(* two tasks of one process, or one task twice, exclude each other too.    *)
(*                                                                         *)
(* Seconds are left out: a stamp is fresh until Age makes it stale (its    *)
(* process died, or 60 s passed, whether or not the holder is done), and   *)
(* the 10 s and 45 s waits are the action TimesOut.  The thread a timed    *)
(* out or dropped wait leaves behind takes a free lock only to drop it and *)
(* is left out; so are open, flock and unlink failing for other reasons.   *)
(***************************************************************************)
EXTENDS Naturals, FiniteSets, TLC

CONSTANTS Tasks,    \* tasks that may ask for a token at the same time
          Inodes,   \* inode numbers the lock file can get
          NoInode

ASSUME LockAssumption == NoInode \notin Inodes

VARIABLES
  path,   \* inode auth.json.lock names
  info,   \* is_holder_stale of that file's content: "fresh" or "stale"
  lk,     \* where each task is in try_lock_auth_file_async
  phase,  \* 1 instant try, 2 blocking wait, 3 and 4 the stale fallback
  fd,     \* the file the task has open
  outer   \* the lock run_auth_flow_inner keeps while it calls auth()

lockVars == <<path, info, lk, phase, fd, outer>>

LockTypeOK ==
  /\ path \in Inodes \cup {NoInode}
  /\ info \in {"fresh", "stale"}
  /\ lk \in [Tasks -> {"out", "try", "break", "open", "wait", "stamp",
                       "locked", "nolock"}]
  /\ phase \in [Tasks -> 1..4]
  /\ fd \in [Tasks -> Inodes \cup {NoInode}]
  /\ outer \in [Tasks -> Inodes \cup {NoInode}]

LockInit ==
  /\ path = NoInode
  /\ info = "fresh"
  /\ lk = [t \in Tasks |-> "out"]
  /\ phase = [t \in Tasks |-> 1]
  /\ fd = [t \in Tasks |-> NoInode]
  /\ outer = [t \in Tasks |-> NoInode]

\* flock held on inode i by task t.
Holds(t, i) == outer[t] = i \/ (fd[t] = i /\ lk[t] \in {"stamp", "locked"})

Held(i) == \E t \in Tasks : Holds(t, i)

\* An inode number is free for a new file once no path and no descriptor
\* refers to the old one.
Unused(i) == i # path /\ \A t \in Tasks : fd[t] # i /\ outer[t] # i

\* OpenOptions::create(true): the file the path names, or a new one.
Opened == IF path # NoInode THEN path ELSE CHOOSE i \in Inodes : Unused(i)

\* What opening does to the directory and to a new file's content.
Open(i) ==
  /\ path' = i
  /\ info' = IF path = NoInode THEN "fresh" ELSE info

\* Mutant: no end to the stale fallback.
RetryForever(t) ==
  /\ lk' = [lk EXCEPT ![t] = IF phase[t] < 3 THEN "open" ELSE "try"]
  /\ phase' = [phase EXCEPT ![t] = @ + 1]

\* The next phase after an attempt that ended StaleUnlinked.
Retry(t) ==
  CASE phase[t] \in {1, 2} -> lk' = [lk EXCEPT ![t] = "open"]
                              /\ phase' = [phase EXCEPT ![t] = 2]
    [] phase[t] = 3        -> lk' = [lk EXCEPT ![t] = "try"]
                              /\ phase' = [phase EXCEPT ![t] = 4]
    [] OTHER               -> lk' = [lk EXCEPT ![t] = "nolock"]
                              /\ phase' = [phase EXCEPT ![t] = 1]

\* try_acquire_once, up to the flock and, when that would block, to the
\* verdict on the stamp; a stamp is read from the file this attempt opened.
TryOnce(t) ==
  /\ lk[t] = "try"
  /\ LET i == Opened IN
       /\ Open(i)
       /\ \/ /\ ~Held(i)
             /\ lk' = [lk EXCEPT ![t] = "stamp"]
             /\ fd' = [fd EXCEPT ![t] = i]
             /\ UNCHANGED phase
          \/ /\ Held(i) /\ info = "stale"
             /\ lk' = [lk EXCEPT ![t] = "break"]
             /\ UNCHANGED <<fd, phase>>
          \/ /\ Held(i) /\ info = "fresh"
             /\ \/ phase[t] = 1 /\ lk' = [lk EXCEPT ![t] = "open"]
                                /\ phase' = [phase EXCEPT ![t] = 2]
                \/ phase[t] # 1 /\ lk' = [lk EXCEPT ![t] = "nolock"]
                                /\ phase' = [phase EXCEPT ![t] = 1]
             /\ UNCHANGED fd
  /\ UNCHANGED outer

\* remove_file(lock_path) after a stale verdict.  It removes whatever file the
\* path names by now; with no file there it fails and the attempt was Busy.
Break(t) ==
  /\ lk[t] = "break"
  /\ path' = NoInode
  /\ \/ path # NoInode /\ Retry(t)
     \/ /\ path = NoInode
        /\ \/ phase[t] = 1 /\ Retry(t)
           \/ phase[t] # 1 /\ lk' = [lk EXCEPT ![t] = "nolock"]
                           /\ phase' = [phase EXCEPT ![t] = 1]
  /\ UNCHANGED <<info, fd, outer>>

\* blocking_acquire opens the path, then queues on that inode.
OpenToWait(t) ==
  /\ lk[t] = "open"
  /\ LET i == Opened IN Open(i) /\ fd' = [fd EXCEPT ![t] = i]
  /\ lk' = [lk EXCEPT ![t] = "wait"]
  /\ UNCHANGED <<phase, outer>>

Granted(t) ==
  /\ lk[t] = "wait" /\ ~Held(fd[t])
  /\ lk' = [lk EXCEPT ![t] = "stamp"]
  /\ UNCHANGED <<path, info, phase, fd, outer>>

\* Mutant: a wait without a deadline.
NeverTimesOut(t) ==
  lk[t] = "none" /\ UNCHANGED lockVars

\* The deadline of the blocking wait: on to the stale fallback.
TimesOut(t) ==
  /\ lk[t] \in {"open", "wait"}
  /\ lk' = [lk EXCEPT ![t] = "try"]
  /\ phase' = [phase EXCEPT ![t] = 3]
  /\ fd' = [fd EXCEPT ![t] = NoInode]
  /\ UNCHANGED <<path, info, outer>>

\* write_holder_info, then inodes_match.  A stamp on an unlinked file is never
\* read.
Stamp(t) ==
  /\ lk[t] = "stamp"
  /\ \/ /\ fd[t] = path
        /\ info' = "fresh"
        /\ lk' = [lk EXCEPT ![t] = "locked"]
        /\ phase' = [phase EXCEPT ![t] = 1]
        /\ UNCHANGED fd
     \/ /\ fd[t] # path
        /\ Retry(t)
        /\ fd' = [fd EXCEPT ![t] = NoInode]
        /\ UNCHANGED info
  /\ UNCHANGED <<path, outer>>

LockStep(t) ==
  TryOnce(t) \/ Break(t) \/ OpenToWait(t) \/ Granted(t) \/ TimesOut(t) \/ Stamp(t)

\* Mutant: no look at the path.
StillOpen(t) == fd[t] # NoInode

\* AuthFileLock::still_live.
StillLive(t) == fd[t] = path

\* The process named in the stamp is gone, or STALE_LOCK_TIMEOUT_SECS passed
\* since the stamp (with no stamp in it, since the file was written).  The
\* content outlives its holder, so a new holder is judged by it until Stamp.
Age ==
  /\ path # NoInode /\ info = "fresh"
  /\ info' = "stale"
  /\ UNCHANGED <<path, lk, phase, fd, outer>>
=============================================================================
