------------------------------ MODULE PeerStore ------------------------------
(***************************************************************************)
(* The peers.json store (lib/peers/store.ts) on top of the lock of         *)
(* PeersLock: fn of withPeersLock is the read-mutate-write of mutatePeers, *)
(* and loadPeers runs beside it without the lock.  A process optionally    *)
(* loads (`peers list`, the first half of `peers add`) and then optionally *)
(* mutates.  A process may be killed between any two steps.                *)
(*                                                                         *)
(* The contents are abstract: a store is a member of Store, and what a     *)
(* process does to it is Mutate(p, _).  Corrupt stands for every file that *)
(* does not parse or has a wrong shape, a half-written one included.       *)
(***************************************************************************)
EXTENDS PeersLock

CONSTANTS Store, Mutate(_, _),
          Empty,    \* emptyStore()
          Legacy,   \* what the legacy peers.json reads as (Empty if none)
          Missing,  \* peers.json does not exist
          Corrupt,  \* a file that does not parse as a store
          StartFiles \* what peers.json may be when the first process starts

Files == Store \cup {Missing, Corrupt}
TmpFiles == [ino : Proc, data : Store \cup {Corrupt}]

ASSUME StoreConstants ==
    /\ Empty \in Store /\ Legacy \in Store
    /\ Missing \notin Store \cup {Corrupt} /\ Corrupt \notin Store
    /\ NoFile \notin TmpFiles
    /\ StartFiles \subseteq Files
    /\ \A p \in Proc, s \in Store : Mutate(p, s) \in Store

VARIABLES disk,    \* peers.json
          tmp,     \* peers.json.tmp: NoFile, or its inode and its content
          aside,   \* the contents of the peers.json.corrupt-* files
          fd,      \* the inode of the tmp file each process has opened
          snap,    \* the store each process has read inside the lock
          io,      \* where each process is in loadPeers or mutatePeers
          clobber  \* history: a load removed the tmp file of a live writer

storeVars == <<disk, tmp, aside, fd, snap, io, clobber>>
vars == <<lockVars, storeVars>>

\* io before, during and after loadPeers; in mutatePeers; and its outcomes.
Quiet    == {"none", "loaded"}
Loading  == {"loading", "aside"}
Mutating == {"read", "opened", "filled"}
Outcomes == {"committed", "failed"}

\* readUnlocked: a missing file falls back to the legacy one, and a file that
\* does not parse reads as the empty store.
Content(f) == CASE f = Missing -> Legacy
                [] f = Corrupt -> Empty
                [] OTHER -> f

Init ==
    /\ LockInit
    /\ disk \in StartFiles
    /\ tmp = NoFile
    /\ aside = {}
    /\ fd = [p \in Proc |-> p]
    /\ snap = [p \in Proc |-> Empty]
    /\ io = [p \in Proc |-> "none"]
    /\ clobber = FALSE

IoAt(p, here, next) == io[p] = here /\ io' = [io EXCEPT ![p] = next]

\* clearStaleTmp, the first thing loadPeers does.
ClearStaleTmp(p) ==
    /\ pc[p] = "idle"
    /\ IoAt(p, "none", "loading")
    /\ tmp' = NoFile
    /\ clobber' = (clobber \/ \E q \in alive : io[q] \in {"opened", "filled"}
                                  /\ tmp # NoFile /\ tmp.ino = fd[q])
    /\ UNCHANGED <<lockVars, disk, aside, fd, snap>>

\* The rest of loadPeers when the file parses, or does not exist.
LoadLive(p) ==
    /\ pc[p] = "idle"
    /\ IoAt(p, "loading", IF disk = Corrupt THEN "aside" ELSE "loaded")
    /\ UNCHANGED <<lockVars, disk, tmp, aside, fd, snap, clobber>>

\* renameSync(path, aside) moves whatever is at the path by now; a failing
\* rename is ignored.
MoveAside(p) ==
    /\ pc[p] = "idle"
    /\ IoAt(p, "aside", "loaded")
    /\ aside' = aside \cup ({disk} \ {Missing})
    /\ disk' = Missing
    /\ UNCHANGED <<lockVars, tmp, fd, snap, clobber>>

\* Mutant: the store is read before the lock is held.
ReadBeforeLock(p) ==
    /\ pc[p] \in {"open", "crit"}
    /\ \E q \in Quiet : IoAt(p, q, "read")
    /\ snap' = [snap EXCEPT ![p] = Content(disk)]
    /\ UNCHANGED <<lockVars, disk, tmp, aside, fd, clobber>>

\* The fresh read inside the lock: no move aside, no clean-up of the tmp file.
ReadUnlocked(p) ==
    /\ pc[p] = "crit"
    /\ \E q \in Quiet : IoAt(p, q, "read")
    /\ snap' = [snap EXCEPT ![p] = Content(disk)]
    /\ UNCHANGED <<lockVars, disk, tmp, aside, fd, clobber>>

\* Mutant: writeFileSync opens the live file.
OpenInPlace(p) ==
    /\ pc[p] = "crit"
    /\ IoAt(p, "read", "opened")
    /\ disk' = Corrupt
    /\ UNCHANGED <<lockVars, tmp, aside, fd, snap, clobber>>

\* writeFileSync opens the tmp file, creating or truncating it ...
OpenTmp(p) ==
    /\ pc[p] = "crit"
    /\ IoAt(p, "read", "opened")
    /\ LET ino == IF tmp = NoFile THEN p ELSE tmp.ino
       IN /\ tmp' = [ino |-> ino, data |-> Corrupt]
          /\ fd' = [fd EXCEPT ![p] = ino]
    /\ UNCHANGED <<lockVars, disk, aside, snap, clobber>>

\* ... and writes the mutated store into the file it opened.
FillTmp(p) ==
    /\ pc[p] = "crit"
    /\ IoAt(p, "opened", "filled")
    /\ tmp' = IF tmp # NoFile /\ tmp.ino = fd[p]
              THEN [ino |-> fd[p], data |-> Mutate(p, snap[p])] ELSE tmp
    /\ UNCHANGED <<lockVars, disk, aside, fd, snap, clobber>>

\* renameSync(tmp, path)
RenameTmp(p) ==
    /\ pc[p] = "crit"
    /\ tmp # NoFile
    /\ IoAt(p, "filled", "committed")
    /\ disk' = tmp.data
    /\ tmp' = NoFile
    /\ UNCHANGED <<lockVars, aside, fd, snap, clobber>>

\* renameSync throws ENOENT: someone's clearStaleTmp removed the tmp file.
RenameFails(p) ==
    /\ pc[p] = "crit"
    /\ tmp = NoFile
    /\ IoAt(p, "filled", "failed")
    /\ UNCHANGED <<lockVars, disk, tmp, aside, fd, snap, clobber>>

\* The lock's own steps: withPeersLock is called by a process that is not in
\* loadPeers, and fn is over when its io has an outcome.
CallLocked(p) == io[p] \in Quiet /\ Call(p) /\ UNCHANGED storeVars
LockIo(p)     == LockStep(p) /\ UNCHANGED storeVars
\* Mutant: a throwing fn never reaches the finally block.
LeaveOnSuccess(p) == io[p] = "committed" /\ LeaveFn(p) /\ UNCHANGED storeVars
LeaveLocked(p) == io[p] \in Outcomes /\ LeaveFn(p) /\ UNCHANGED storeVars
Kill(p)       == Die(p) /\ UNCHANGED storeVars

StoreStep(p) ==
    \/ LoadLive(p) \/ MoveAside(p) \/ ReadUnlocked(p) \/ OpenTmp(p)
    \/ FillTmp(p) \/ RenameTmp(p) \/ RenameFails(p)

Next == \E p \in Proc :
    CallLocked(p) \/ LockIo(p) \/ LeaveLocked(p) \/ Kill(p)
    \/ ClearStaleTmp(p) \/ StoreStep(p)

Spec == Init /\ [][Next]_vars

\* Every file operation of a process that runs is eventually executed.
Fairness == \A p \in Proc : WF_vars(LockIo(p) \/ LeaveLocked(p) \/ StoreStep(p))

FairSpec == Spec /\ Fairness

-----------------------------------------------------------------------------
\* Every variable has its type.
TypeOK ==
    /\ LockTypeOK
    /\ disk \in Files
    /\ tmp \in TmpFiles \cup {NoFile}
    /\ aside \subseteq Store \cup {Corrupt}
    /\ fd \in [Proc -> Proc]
    /\ snap \in [Proc -> Store]
    /\ io \in [Proc -> Quiet \cup Loading \cup Mutating \cup Outcomes]
    /\ clobber \in BOOLEAN

Committed == {p \in Proc : io[p] = "committed"}

Strict == INSTANCE PeerRegister
          WITH store <- Content(disk), committed <- Committed, broken <- FALSE

\* store.ts:172-177 calls mutatePeers an "atomic read-modify-write under the
\* peers lock" with which "concurrent writers don't lose each other's updates":
\* every change of peers.json is one whole mutation of the store before it.
AtomicReadModifyWrite == Strict!RegSpec

Register == INSTANCE PeerRegister
            WITH store <- Content(disk), committed <- Committed,
                 broken <- liveSteal

\* What mutatePeers does promise when peers.json starts out readable: until a
\* live lock is stolen it is that register, whatever is killed in between and
\* whatever loads run beside it.
RegisterUnlessLiveSteal == Register!RegSpec

\* store.ts:4-6: "a crash mid-write leaves either the old file intact or the new
\* file fully in place"; with a live steal two writers share the tmp file.
NeverTruncated == disk = Corrupt => liveSteal

\* store.ts:7-8 takes the tmp file cleaned on load for "leftover from a crashed
\* writer", but a load may remove that of a running one.  A mutation fails at its
\* rename only because of that, or of another writer let in by a live steal.
FailureNeedsClobber ==
    \A p \in Proc : io[p] = "failed" => clobber \/ liveSteal

\* store.ts:172-177, "so concurrent writers don't lose each other's updates", also
\* when loads find a corrupt file and move it aside: until a live lock is stolen,
\* what a process has committed is in peers.json, or in a file that a load, which
\* had found a corrupt one there before, moved aside.  A store has an update that
\* would not change it; the mutations must be such that none undoes another.
Keeps(s, p) == Mutate(p, s) = s

NoUpdateLost ==
    \A p \in Committed :
        liveSteal \/ \E s \in {Content(disk)} \cup (aside \ {Corrupt}) : Keeps(s, p)
=============================================================================
