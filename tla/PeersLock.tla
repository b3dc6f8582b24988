------------------------------ MODULE PeersLock ------------------------------
(***************************************************************************)
(* withPeersLock (lib/peers/lock.ts): the advisory lock file that          *)
(* serialises the writers of peers.json.  The code is synchronous inside   *)
(* one process, so the steps below are the system calls at which two `maw` *)
(* processes interleave: open(wx), write(pid), open+read of the holder's   *)
(* pid, kill(pid, 0), unlink.                                              *)
(*                                                                         *)
(* A process runs one call of withPeersLock and is then done.  It may be   *)
(* killed at any point; its lock file then stays behind.  Process ids are  *)
(* not reused.  Opening and reading the holder's file is one step: the gap *)
(* between the two only adds executions in which the caller polls again.   *)
(***************************************************************************)
EXTENDS FiniteSets

CONSTANTS Proc,      \* the processes that call withPeersLock
          NoFile,    \* <path>.lock does not exist
          Blank      \* no pid: an empty lock file, or none to read (NaN)

LockFiles == [by : Proc, pid : Proc \cup {Blank}]

ASSUME LockConstants == NoFile \notin LockFiles /\ Blank \notin Proc

VARIABLES lockFile,  \* NoFile, or the file at <path>.lock: creator and content
          pc,        \* where each process is in withPeersLock
          seen,      \* holderPid, as last read by each process
          alive,     \* the processes that kill(pid, 0) finds
          liveSteal  \* history: a steal removed the lock of a live process,
                     \* one whose own call had not given up on writing its pid

lockVars == <<lockFile, pc, seen, alive, liveSteal>>

\* The pcs at which the caller's own lock file should be at <path>.lock.
Owning == {"stamp", "crit", "check", "unlink"}
Ended  == {"done", "timedOut", "unstamped", "dead"}
Pcs    == {"idle", "open", "read", "judge", "steal"} \cup Owning \cup Ended

LockInit ==
    /\ lockFile = NoFile
    /\ pc = [p \in Proc |-> "idle"]
    /\ seen = [p \in Proc |-> Blank]
    /\ alive = Proc
    /\ liveSteal = FALSE

At(p, here, next) == pc[p] = here /\ pc' = [pc EXCEPT ![p] = next]

Call(p) ==
    /\ At(p, "idle", "open")
    /\ UNCHANGED <<lockFile, seen, alive, liveSteal>>

\* Mutant: openSync without O_EXCL.
CreateWithoutExcl(p) ==
    /\ At(p, "open", "stamp")
    /\ lockFile' = [by |-> p, pid |-> Blank]
    /\ UNCHANGED <<seen, alive, liveSteal>>

\* openSync(lockPath, "wx") creates the file: still empty.
CreateLock(p) ==
    /\ lockFile = NoFile
    /\ At(p, "open", "stamp")
    /\ lockFile' = [by |-> p, pid |-> Blank]
    /\ UNCHANGED <<seen, alive, liveSteal>>

\* writeSync(fd, pid) goes to the file this process created, wherever it is.
StampPid(p) ==
    /\ At(p, "stamp", "crit")
    /\ lockFile' = IF lockFile # NoFile /\ lockFile.by = p
                   THEN [lockFile EXCEPT !.pid = p] ELSE lockFile
    /\ UNCHANGED <<seen, alive, liveSteal>>

\* writeSync throws: the code rethrows what is not EEXIST, outside the try with
\* the finally block, and the empty file stays at the path.
StampFails(p) ==
    /\ At(p, "stamp", "unstamped")
    /\ UNCHANGED <<lockFile, seen, alive, liveSteal>>

\* openSync(lockPath, "wx") fails with EEXIST.
FindLocked(p) ==
    /\ lockFile # NoFile
    /\ At(p, "open", "read")
    /\ UNCHANGED <<lockFile, seen, alive, liveSteal>>

\* A missing or an empty file reads as NaN.
ReadHolder(p) ==
    /\ At(p, "read", "judge")
    /\ seen' = [seen EXCEPT ![p] = IF lockFile = NoFile THEN Blank
                                   ELSE lockFile.pid]
    /\ UNCHANGED <<lockFile, alive, liveSteal>>

\* kill(pid, 0) finds the process; NaN is never alive.
IsAlive(pid) == pid \in alive

\* isAlive(holderPid): sleep POLL_MS and try again.
Poll(p) ==
    /\ IsAlive(seen[p])
    /\ At(p, "judge", "open")
    /\ UNCHANGED <<lockFile, seen, alive, liveSteal>>

\* Mutant: a caller that gives up removes the lock on its way out.
TimeOutUnlinks(p) ==
    /\ IsAlive(seen[p])
    /\ At(p, "judge", "timedOut")
    /\ lockFile' = NoFile
    /\ UNCHANGED <<seen, alive, liveSteal>>

\* isAlive(holderPid) and the deadline has passed: throw.
TimeOut(p) ==
    /\ IsAlive(seen[p])
    /\ At(p, "judge", "timedOut")
    /\ UNCHANGED <<lockFile, seen, alive, liveSteal>>

FindStale(p) ==
    /\ ~IsAlive(seen[p])
    /\ At(p, "judge", "steal")
    /\ UNCHANGED <<lockFile, seen, alive, liveSteal>>

\* unlinkSync(lockPath) removes whatever file has that name by now.
StealLock(p) ==
    /\ At(p, "steal", "open")
    /\ lockFile' = NoFile
    /\ liveSteal' = (liveSteal \/ (/\ lockFile # NoFile
                                  /\ pc[lockFile.by] \notin {"unstamped", "dead"}))
    /\ UNCHANGED <<seen, alive>>

\* Mutant: no finally block, so a throwing fn leaves the lock.
LeaveFnWithoutFinally(p) ==
    /\ At(p, "crit", "done")
    /\ UNCHANGED <<lockFile, seen, alive, liveSteal>>

\* fn() has returned or thrown; the finally block begins.
LeaveFn(p) ==
    /\ At(p, "crit", "check")
    /\ UNCHANGED <<lockFile, seen, alive, liveSteal>>

CheckOwnLock(p) ==
    /\ At(p, "check", IF lockFile = NoFile THEN "done" ELSE "unlink")
    /\ UNCHANGED <<lockFile, seen, alive, liveSteal>>

ReleaseLock(p) ==
    /\ At(p, "unlink", "done")
    /\ lockFile' = NoFile
    /\ UNCHANGED <<seen, alive, liveSteal>>

\* The process is killed, or exits after its call.
Die(p) ==
    /\ pc[p] # "dead"
    /\ pc' = [pc EXCEPT ![p] = "dead"]
    /\ alive' = alive \ {p}
    /\ UNCHANGED <<lockFile, seen, liveSteal>>

\* The steps of withPeersLock around fn.
LockStep(p) ==
    \/ CreateLock(p) \/ StampPid(p) \/ StampFails(p) \/ FindLocked(p) \/ ReadHolder(p)
    \/ Poll(p) \/ TimeOut(p) \/ FindStale(p) \/ StealLock(p)
    \/ CheckOwnLock(p) \/ ReleaseLock(p)

LockNext == \E p \in Proc : Call(p) \/ LockStep(p) \/ LeaveFn(p) \/ Die(p)

LockSpec == LockInit /\ [][LockNext]_lockVars

\* A process that runs keeps running: withPeersLock never blocks on anything
\* but the lock, and fn is synchronous.
LockFairness == \A p \in Proc : WF_lockVars(LockStep(p) \/ LeaveFn(p))

FairLockSpec == LockSpec /\ LockFairness

-----------------------------------------------------------------------------
\* Every variable has its type.
LockTypeOK ==
    /\ lockFile \in LockFiles \cup {NoFile}
    /\ pc \in [Proc -> Pcs]
    /\ seen \in [Proc -> Proc \cup {Blank}]
    /\ alive = {p \in Proc : pc[p] # "dead"}
    /\ liveSteal \in BOOLEAN

\* lock.ts:33 says that fn runs "while holding an exclusive lock": no two
\* processes run fn at the same time.
MutualExclusion ==
    \A p, q \in Proc : pc[p] = "crit" /\ pc[q] = "crit" => p = q

\* What the lock does promise: two processes run fn together only after a
\* steal removed the lock file of a live process; no other order of creating,
\* stamping, timing out, dying and releasing breaks the exclusion.
ExclusiveUnlessLiveSteal == liveSteal \/ MutualExclusion

\* Until such a steal, a process between its open(wx) and its unlink finds its
\* own file at <path>.lock, so the release of one never frees another's lock.
OwnLockUnlessLiveSteal ==
    liveSteal \/ \A p \in Proc : pc[p] \in Owning =>
        lockFile # NoFile /\ lockFile.by = p

\* The file at <path>.lock is never the leftover of a call that ran fn: whatever
\* steals happened, its creator is inside withPeersLock or was killed there, or
\* could not write its pid, and then the file is still empty, which the others
\* take for stale.  So no finished but still running process (`maw serve`) blocks
\* them.
LockFileIsNotLeftBehind ==
    lockFile # NoFile =>
      \/ pc[lockFile.by] \in Owning \cup {"dead"}
      \/ pc[lockFile.by] = "unstamped" /\ lockFile.pid = Blank

\* No caller spins for ever: whatever dead or live processes left behind, a
\* running call of withPeersLock ends (or its process dies), one whose fn throws too.
EveryCallEnds == \A p \in Proc : pc[p] = "open" ~> pc[p] \in Ended
=============================================================================
