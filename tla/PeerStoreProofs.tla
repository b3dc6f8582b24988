--------------------------- MODULE PeerStoreProofs ---------------------------
(***************************************************************************)
(* The peers lock and the store on top of it, for every set of processes,  *)
(* every set of stores and every mutator, with any number of kills and of  *)
(* concurrent loads.  Until a live process's lock is stolen the lock       *)
(* excludes; mutatePeers implements the register of PeerRegister, if       *)
(* peers.json starts readable; and from any start, no update is lost and a *)
(* mutation fails only because of a load.                                  *)
(***************************************************************************)
EXTENDS PeerStore, TLAPS

-----------------------------------------------------------------------------
(* The lock: a lock file is never left behind by a finished call, and only *)
(* a steal of a live process's lock breaks mutual exclusion.               *)


\* The variables keep their types, and `alive` is the set of undead processes.
THEOREM LockTypes == LockSpec => []LockTypeOK
<1>1. LockInit => LockTypeOK
  BY LockConstants DEF LockInit, LockTypeOK, LockFiles, Pcs, Owning, Ended
<1>2. LockTypeOK /\ [LockNext]_lockVars => LockTypeOK'
  <2> SUFFICES ASSUME LockTypeOK, [LockNext]_lockVars PROVE LockTypeOK'
    OBVIOUS
  <2> USE LockConstants
      DEF LockTypeOK, LockFiles, Pcs, Owning, Ended, At, lockVars
  <2>1. ASSUME NEW p \in Proc, Call(p) PROVE LockTypeOK'
    BY <2>1 DEF Call
  <2>2. ASSUME NEW p \in Proc, CreateLock(p) PROVE LockTypeOK'
    BY <2>2 DEF CreateLock
  <2>3. ASSUME NEW p \in Proc, StampPid(p) \/ StampFails(p)
        PROVE LockTypeOK'
    BY <2>3 DEF StampPid, StampFails
  <2>4. ASSUME NEW p \in Proc, FindLocked(p) PROVE LockTypeOK'
    BY <2>4 DEF FindLocked
  <2>5. ASSUME NEW p \in Proc, ReadHolder(p) PROVE LockTypeOK'
    BY <2>5 DEF ReadHolder
  <2>6. ASSUME NEW p \in Proc, Poll(p) \/ TimeOut(p) \/ FindStale(p)
        PROVE LockTypeOK'
    BY <2>6 DEF Poll, TimeOut, FindStale
  <2>7. ASSUME NEW p \in Proc, StealLock(p) PROVE LockTypeOK'
    BY <2>7 DEF StealLock
  <2>8. ASSUME NEW p \in Proc, LeaveFn(p) PROVE LockTypeOK'
    BY <2>8 DEF LeaveFn
  <2>9. ASSUME NEW p \in Proc, CheckOwnLock(p) \/ ReleaseLock(p)
        PROVE LockTypeOK'
    BY <2>9 DEF CheckOwnLock, ReleaseLock
  <2>10. ASSUME NEW p \in Proc, Die(p) PROVE LockTypeOK'
    BY <2>10 DEF Die
  <2>11. CASE UNCHANGED lockVars
    BY <2>11
  <2> QED
    BY <2>1, <2>2, <2>3, <2>4, <2>5, <2>6, <2>7, <2>8, <2>9, <2>10, <2>11
    DEF LockNext, LockStep
<1> QED
  BY <1>1, <1>2, PTL DEF LockSpec

-----------------------------------------------------------------------------
\* The file of a creator that has not stamped it is empty.
NotLeftBehind ==
    /\ LockFileIsNotLeftBehind
    /\ lockFile # NoFile /\ pc[lockFile.by] = "stamp" => lockFile.pid = Blank

\* One step keeps the lock file with its creator.
LEMMA NotLeftBehindStep ==
  LockTypeOK /\ NotLeftBehind /\ [LockNext]_lockVars
    => NotLeftBehind'
<1> SUFFICES ASSUME LockTypeOK, NotLeftBehind, [LockNext]_lockVars
             PROVE NotLeftBehind'
  OBVIOUS
<1> USE LockConstants
    DEF LockTypeOK, NotLeftBehind, LockFileIsNotLeftBehind, LockFiles, Owning, At,
        lockVars
<1>1. ASSUME NEW p \in Proc, Call(p) \/ FindLocked(p) \/ ReadHolder(p)
      PROVE NotLeftBehind'
  BY <1>1 DEF Call, FindLocked, ReadHolder
<1>2. ASSUME NEW p \in Proc, CreateLock(p) PROVE NotLeftBehind'
  BY <1>2 DEF CreateLock
<1>3. ASSUME NEW p \in Proc, StampPid(p) \/ StampFails(p)
      PROVE NotLeftBehind'
  BY <1>3 DEF StampPid, StampFails
<1>4. ASSUME NEW p \in Proc, Poll(p) \/ TimeOut(p) \/ FindStale(p)
      PROVE NotLeftBehind'
  BY <1>4 DEF Poll, TimeOut, FindStale
<1>5. ASSUME NEW p \in Proc, StealLock(p) \/ ReleaseLock(p)
      PROVE NotLeftBehind'
  BY <1>5 DEF StealLock, ReleaseLock
<1>6. ASSUME NEW p \in Proc, LeaveFn(p) \/ CheckOwnLock(p)
      PROVE NotLeftBehind'
  BY <1>6 DEF LeaveFn, CheckOwnLock
<1>7. ASSUME NEW p \in Proc, Die(p) PROVE NotLeftBehind'
  BY <1>7 DEF Die
<1>8. CASE UNCHANGED lockVars
  BY <1>8
<1> QED
  BY <1>1, <1>2, <1>3, <1>4, <1>5, <1>6, <1>7, <1>8 DEF LockNext, LockStep

\* A lock file at <path>.lock belongs to a call that has not ended, or is empty
\* because its creator could not write.
THEOREM NoLockLeftBehind == LockSpec => []LockFileIsNotLeftBehind
<1>1. LockInit => NotLeftBehind
  BY DEF LockInit, NotLeftBehind, LockFileIsNotLeftBehind
<1>2. NotLeftBehind => LockFileIsNotLeftBehind
  BY DEF NotLeftBehind
<1> QED
  BY <1>1, <1>2, NotLeftBehindStep, LockTypes, PTL DEF LockSpec

-----------------------------------------------------------------------------
\* One step keeps each owner's file in place, or steals it from a live owner.
LEMMA OwnLockStep ==
  LockTypeOK /\ OwnLockUnlessLiveSteal /\ [LockNext]_lockVars
    => OwnLockUnlessLiveSteal'
<1> SUFFICES ASSUME LockTypeOK, OwnLockUnlessLiveSteal, [LockNext]_lockVars
             PROVE OwnLockUnlessLiveSteal'
  OBVIOUS
<1> USE LockConstants
    DEF LockTypeOK, OwnLockUnlessLiveSteal, LockFiles, Owning, At, lockVars
<1>1. ASSUME NEW p \in Proc, Call(p) \/ FindLocked(p) \/ ReadHolder(p)
      PROVE OwnLockUnlessLiveSteal'
  BY <1>1 DEF Call, FindLocked, ReadHolder
<1>2. ASSUME NEW p \in Proc, CreateLock(p) PROVE OwnLockUnlessLiveSteal'
  BY <1>2 DEF CreateLock
<1>3. ASSUME NEW p \in Proc, StampPid(p) \/ StampFails(p)
      PROVE OwnLockUnlessLiveSteal'
  BY <1>3 DEF StampPid, StampFails
<1>4. ASSUME NEW p \in Proc, Poll(p) \/ TimeOut(p) \/ FindStale(p)
      PROVE OwnLockUnlessLiveSteal'
  BY <1>4 DEF Poll, TimeOut, FindStale
<1>5. ASSUME NEW p \in Proc, StealLock(p) PROVE OwnLockUnlessLiveSteal'
  BY <1>5 DEF StealLock
<1>6. ASSUME NEW p \in Proc, LeaveFn(p) \/ CheckOwnLock(p) \/ ReleaseLock(p)
      PROVE OwnLockUnlessLiveSteal'
  BY <1>6 DEF LeaveFn, CheckOwnLock, ReleaseLock
<1>7. ASSUME NEW p \in Proc, Die(p) PROVE OwnLockUnlessLiveSteal'
  BY <1>7 DEF Die
<1>8. CASE UNCHANGED lockVars
  BY <1>8
<1> QED
  BY <1>1, <1>2, <1>3, <1>4, <1>5, <1>6, <1>7, <1>8 DEF LockNext, LockStep

\* Until a live process's lock is stolen, an owner's file stays at the path.
THEOREM OwnLock == LockSpec => []OwnLockUnlessLiveSteal
<1>1. LockInit => OwnLockUnlessLiveSteal
  BY DEF LockInit, OwnLockUnlessLiveSteal, Owning
<1> QED
  BY <1>1, OwnLockStep, LockTypes, PTL DEF LockSpec

\* Mutual exclusion of fn, for every number of processes, crashes and timeouts,
\* up to the first steal of a live process's lock.
THEOREM Exclusion == LockSpec => []ExclusiveUnlessLiveSteal
<1>1. OwnLockUnlessLiveSteal => ExclusiveUnlessLiveSteal
  BY DEF OwnLockUnlessLiveSteal, ExclusiveUnlessLiveSteal, MutualExclusion, Owning
<1> QED
  BY <1>1, OwnLock, PTL

-----------------------------------------------------------------------------
(* The store. *)


\* The store runs the lock: every step is a step of PeersLock or leaves the
\* lock's variables alone.
LEMMA ImplementsLock == Spec => LockSpec
<1>1. Init => LockInit
  BY DEF Init
<1>2. [Next]_vars => [LockNext]_lockVars
  <2> SUFFICES ASSUME [Next]_vars PROVE [LockNext]_lockVars
    OBVIOUS
  <2>1. ASSUME NEW p \in Proc,
               CallLocked(p) \/ LockIo(p) \/ LeaveLocked(p) \/ Kill(p)
        PROVE LockNext
    BY <2>1 DEF CallLocked, LockIo, LeaveLocked, Kill, LockNext
  <2>2. ASSUME NEW p \in Proc, ClearStaleTmp(p) \/ StoreStep(p)
        PROVE UNCHANGED lockVars
    BY <2>2 DEF ClearStaleTmp, StoreStep, LoadLive, MoveAside, ReadUnlocked,
                OpenTmp, FillTmp, RenameTmp, RenameFails
  <2>3. CASE UNCHANGED vars
    BY <2>3 DEF vars
  <2> QED
    BY <2>1, <2>2, <2>3 DEF Next
<1> QED
  BY <1>1, <1>2, PTL DEF Spec, LockSpec

-----------------------------------------------------------------------------
\* The types of the variables that mutatePeers and loadPeers touch.
StoreTypeOK ==
    /\ disk \in Files
    /\ tmp \in TmpFiles \cup {NoFile}
    /\ aside \subseteq Store \cup {Corrupt}
    /\ fd \in [Proc -> Proc]
    /\ snap \in [Proc -> Store]
    /\ io \in [Proc -> Quiet \cup Loading \cup Mutating \cup Outcomes]
    /\ clobber \in BOOLEAN

\* A file reads as a store, and a readable one as itself.
LEMMA ContentType == \A f \in Files : Content(f) \in Store
  BY StoreConstants DEF Files, Content

LEMMA ContentOfStore == \A s \in Store : Content(s) = s
  BY StoreConstants DEF Content

LEMMA StoreTypeStep == StoreTypeOK /\ [Next]_vars => StoreTypeOK'
<1> SUFFICES ASSUME StoreTypeOK, [Next]_vars PROVE StoreTypeOK'
  OBVIOUS
<1> USE StoreConstants DEF StoreTypeOK, Files, TmpFiles, Quiet, Loading,
        Mutating, Outcomes, IoAt, storeVars
<1>1. ASSUME NEW p \in Proc,
             CallLocked(p) \/ LockIo(p) \/ LeaveLocked(p) \/ Kill(p)
      PROVE StoreTypeOK'
  <2>1. UNCHANGED storeVars
    BY <1>1 DEF CallLocked, LockIo, LeaveLocked, Kill
  <2> QED
    BY <2>1
<1>2. ASSUME NEW p \in Proc, ClearStaleTmp(p) PROVE StoreTypeOK'
  BY <1>2 DEF ClearStaleTmp
<1>3. ASSUME NEW p \in Proc, LoadLive(p) PROVE StoreTypeOK'
  BY <1>3 DEF LoadLive
<1>4. ASSUME NEW p \in Proc, MoveAside(p) PROVE StoreTypeOK'
  BY <1>4 DEF MoveAside
<1>5. ASSUME NEW p \in Proc, ReadUnlocked(p) PROVE StoreTypeOK'
  BY <1>5, ContentType DEF ReadUnlocked
<1>6. ASSUME NEW p \in Proc, OpenTmp(p) PROVE StoreTypeOK'
  BY <1>6 DEF OpenTmp
<1>7. ASSUME NEW p \in Proc, FillTmp(p) PROVE StoreTypeOK'
  BY <1>7 DEF FillTmp
<1>8. ASSUME NEW p \in Proc, RenameTmp(p) \/ RenameFails(p)
      PROVE StoreTypeOK'
  BY <1>8 DEF RenameTmp, RenameFails
<1>9. CASE UNCHANGED vars
  BY <1>9 DEF vars
<1> QED
  BY <1>1, <1>2, <1>3, <1>4, <1>5, <1>6, <1>7, <1>8, <1>9 DEF Next, StoreStep

\* Every variable of the composed store keeps its type.
THEOREM StoreTypes == Spec => []TypeOK
<1>1. Init => StoreTypeOK
  BY StoreConstants
  DEF Init, StoreTypeOK, Files, TmpFiles, Quiet, Loading, Mutating, Outcomes
<1>2. LockTypeOK /\ StoreTypeOK => TypeOK
  BY DEF TypeOK, StoreTypeOK
<1> QED
  BY <1>1, <1>2, StoreTypeStep, ImplementsLock, LockTypes, PTL DEF Spec

-----------------------------------------------------------------------------
\* The writer inside the lock has read the current store, and the tmp file is
\* gone or its own: torn until it is filled, then the mutation of that store.
WriterInv(p) ==
    pc[p] = "crit" =>
      /\ io[p] \in Mutating => snap[p] = Content(disk)
      /\ io[p] = "opened" => tmp = NoFile \/ tmp.ino = fd[p]
      /\ io[p] = "filled" => tmp = NoFile \/ tmp.data = Mutate(p, snap[p])

\* A process that is not yet inside the lock has not begun its mutation.
NotBegun(p) ==
    pc[p] \in {"idle", "open", "read", "judge", "steal", "stamp"} =>
      io[p] \in Quiet \cup Loading

\* The inductive invariant of the store: as long as no live lock was stolen the
\* file is readable, so that no load moves it aside.
StoreInv ==
    /\ \A p \in Proc : NotBegun(p)
    /\ liveSteal \/ /\ disk # Corrupt
                    /\ \A p \in Proc : io[p] # "aside"
                    /\ \A p \in Proc : WriterInv(p)

LEMMA NotBegunStep ==
  TypeOK /\ (\A p \in Proc : NotBegun(p)) /\ [Next]_vars
    => (\A p \in Proc : NotBegun(p))'
<1> SUFFICES ASSUME TypeOK, \A p \in Proc : NotBegun(p), [Next]_vars
             PROVE (\A p \in Proc : NotBegun(p))'
  OBVIOUS
<1> USE DEF TypeOK, LockTypeOK, NotBegun, IoAt, At, Quiet, Loading, Mutating,
            Outcomes, storeVars, lockVars
<1>1. ASSUME NEW q \in Proc, CallLocked(q) \/ LeaveLocked(q) \/ Kill(q)
      PROVE (\A p \in Proc : NotBegun(p))'
  BY <1>1 DEF CallLocked, LeaveLocked, Kill, Call, LeaveFn, Die
<1>2. ASSUME NEW q \in Proc, LockIo(q)
      PROVE (\A p \in Proc : NotBegun(p))'
  BY <1>2 DEF LockIo, LockStep, CreateLock, StampPid, StampFails, FindLocked, ReadHolder,
     Poll, TimeOut, FindStale, StealLock, CheckOwnLock, ReleaseLock
<1>3. ASSUME NEW q \in Proc, ClearStaleTmp(q) \/ LoadLive(q) \/ MoveAside(q)
      PROVE (\A p \in Proc : NotBegun(p))'
  BY <1>3 DEF ClearStaleTmp, LoadLive, MoveAside
<1>4. ASSUME NEW q \in Proc, ReadUnlocked(q) \/ OpenTmp(q) \/ FillTmp(q)
      PROVE (\A p \in Proc : NotBegun(p))'
  BY <1>4 DEF ReadUnlocked, OpenTmp, FillTmp
<1>5. ASSUME NEW q \in Proc, RenameTmp(q) \/ RenameFails(q)
      PROVE (\A p \in Proc : NotBegun(p))'
  BY <1>5 DEF RenameTmp, RenameFails
<1>6. CASE UNCHANGED vars
  BY <1>6 DEF vars
<1> QED
  BY <1>1, <1>2, <1>3, <1>4, <1>5, <1>6 DEF Next, StoreStep

\* A steal of a live lock is never forgotten.
LEMMA LiveStealStays == liveSteal /\ [Next]_vars => liveSteal'
<1> SUFFICES ASSUME liveSteal, [Next]_vars PROVE liveSteal'
  OBVIOUS
<1>1. ASSUME NEW p \in Proc,
             CallLocked(p) \/ LockIo(p) \/ LeaveLocked(p) \/ Kill(p)
      PROVE liveSteal'
  BY <1>1 DEF CallLocked, LockIo, LeaveLocked, Kill, Call, LockStep,
     LeaveFn, Die, CreateLock, StampPid, StampFails, FindLocked, ReadHolder, Poll,
     TimeOut, FindStale, StealLock, CheckOwnLock, ReleaseLock
<1>2. ASSUME NEW p \in Proc, ClearStaleTmp(p) \/ StoreStep(p)
      PROVE liveSteal'
  BY <1>2 DEF ClearStaleTmp, StoreStep, LoadLive, MoveAside, lockVars,
     ReadUnlocked, OpenTmp, FillTmp, RenameTmp, RenameFails
<1>3. CASE UNCHANGED vars
  BY <1>3 DEF vars, lockVars
<1> QED
  BY <1>1, <1>2, <1>3 DEF Next

\* The store's own steps do not touch the lock, and the lock's not the store.
LEMMA StoreStepLock ==
  ASSUME NEW p \in Proc, ClearStaleTmp(p) \/ StoreStep(p)
  PROVE UNCHANGED lockVars
  BY DEF ClearStaleTmp, StoreStep, LoadLive, MoveAside, ReadUnlocked,
         OpenTmp, FillTmp, RenameTmp, RenameFails

\* Only StampPid enters fn.
LEMMA EnterByStamp ==
  ASSUME LockTypeOK, NEW p \in Proc, NEW q \in Proc,
         CallLocked(p) \/ LockIo(p) \/ LeaveLocked(p) \/ Kill(p),
         pc'[q] = "crit"
  PROVE pc[q] \in {"crit", "stamp"}
  BY DEF LockTypeOK, CallLocked, LockIo, LeaveLocked, Kill, Call, LockStep,
     LeaveFn, Die, CreateLock, StampPid, StampFails, FindLocked, ReadHolder, Poll,
     TimeOut, FindStale, StealLock, CheckOwnLock, ReleaseLock, At

\* Only one process is inside the lock when no live lock was stolen.
LEMMA OneWriter ==
  ASSUME OwnLockUnlessLiveSteal, ~liveSteal,
         NEW p \in Proc, NEW q \in Proc, pc[p] = "crit", pc[q] = "crit"
  PROVE p = q
  BY DEF OwnLockUnlessLiveSteal, Owning

\* One step keeps the writer's view and the tmp file consistent.
LEMMA WriterInvStep ==
  ASSUME TypeOK, OwnLockUnlessLiveSteal, StoreInv, ~liveSteal, ~liveSteal',
         [Next]_vars
  PROVE /\ disk' # Corrupt
        /\ \A q \in Proc : io'[q] # "aside"
        /\ \A q \in Proc : WriterInv(q)'
<1> DEFINE Good == /\ disk' # Corrupt
                   /\ \A q \in Proc : io'[q] # "aside"
                   /\ \A q \in Proc : WriterInv(q)'
<1> USE StoreConstants
    DEF TypeOK, Files, TmpFiles, StoreInv, WriterInv, IoAt, lockVars
<1>1. ASSUME NEW p \in Proc,
             CallLocked(p) \/ LockIo(p) \/ LeaveLocked(p) \/ Kill(p)
      PROVE Good
  <2>1. UNCHANGED storeVars
    BY <1>1 DEF CallLocked, LockIo, LeaveLocked, Kill
  <2>2. \A q \in Proc : pc'[q] = "crit" => pc[q] = "crit" \/ io[q] \notin Mutating
    BY <1>1, EnterByStamp DEF NotBegun, Quiet, Loading, Mutating
  <2> QED
    BY <2>1, <2>2 DEF storeVars, Mutating
<1>2. ASSUME NEW p \in Proc, ClearStaleTmp(p) PROVE Good
  BY <1>2 DEF ClearStaleTmp, Mutating
<1>3. ASSUME NEW p \in Proc, LoadLive(p) PROVE Good
  BY <1>3 DEF LoadLive, Mutating
<1>4. ASSUME NEW p \in Proc, MoveAside(p) PROVE Good
  BY <1>4 DEF MoveAside
<1>5. ASSUME NEW p \in Proc, ReadUnlocked(p) PROVE Good
  BY <1>5 DEF ReadUnlocked, Mutating
<1>6. ASSUME NEW p \in Proc, OpenTmp(p) PROVE Good
  <2>1. \A q \in Proc : pc[q] = "crit" => q = p
    BY <1>6, OneWriter DEF OpenTmp
  <2> QED
    BY <1>6, <2>1 DEF OpenTmp, Mutating
<1>7. ASSUME NEW p \in Proc, FillTmp(p) PROVE Good
  <2>1. \A q \in Proc : pc[q] = "crit" => q = p
    BY <1>7, OneWriter DEF FillTmp
  <2> QED
    BY <1>7, <2>1 DEF FillTmp, Mutating
<1>8. ASSUME NEW p \in Proc, RenameTmp(p) PROVE Good
  <2>1. \A q \in Proc : pc[q] = "crit" => q = p
    BY <1>8, OneWriter DEF RenameTmp
  <2>2. disk' \in Store
    BY <1>8 DEF RenameTmp
  <2> QED
    BY <1>8, <2>1, <2>2 DEF RenameTmp, Mutating
<1>9. ASSUME NEW p \in Proc, RenameFails(p) PROVE Good
  BY <1>9 DEF RenameFails, Mutating
<1>10. CASE UNCHANGED vars
  BY <1>10 DEF vars, storeVars
<1> QED
  BY <1>1, <1>2, <1>3, <1>4, <1>5, <1>6, <1>7, <1>8, <1>9, <1>10
  DEF Next, StoreStep

LEMMA StoreInvStep ==
  TypeOK /\ OwnLockUnlessLiveSteal /\ StoreInv /\ [Next]_vars => StoreInv'
<1> SUFFICES ASSUME TypeOK, OwnLockUnlessLiveSteal, StoreInv, [Next]_vars
             PROVE StoreInv'
  OBVIOUS
<1>1. (\A p \in Proc : NotBegun(p))'
  BY NotBegunStep DEF StoreInv
<1>2. CASE liveSteal'
  BY <1>1, <1>2 DEF StoreInv
<1>3. CASE ~liveSteal'
  <2>1. ~liveSteal
    BY <1>3, LiveStealStays
  <2> QED
    BY <1>1, <1>3, <2>1, WriterInvStep DEF StoreInv
<1> QED
  BY <1>2, <1>3

\* The three facts that the register rests on, when peers.json starts readable.
LEMMA StoreInvariant == ASSUME Corrupt \notin StartFiles
                        PROVE Spec => []StoreInv
<1>1. Init => StoreInv
  BY StoreConstants
  DEF Init, LockInit, StoreInv, NotBegun, WriterInv, Quiet
<1> QED
  BY <1>1, StoreInvStep, StoreTypes, ImplementsLock, OwnLock, PTL DEF Spec

\* No crash and no concurrent load leaves peers.json truncated.
THEOREM Untruncated == ASSUME Corrupt \notin StartFiles
                       PROVE Spec => []NeverTruncated
<1>1. StoreInv => NeverTruncated
  BY DEF StoreInv, NeverTruncated
<1> QED
  BY <1>1, StoreInvariant, PTL

-----------------------------------------------------------------------------
\* Every step is a commit of the register, a lapse of its promise or a stutter.
LEMMA RegisterStep ==
  TypeOK /\ TypeOK' /\ OwnLockUnlessLiveSteal /\ StoreInv /\ [Next]_vars
    => [Register!RegNext]_(Register!regVars)
<1> SUFFICES ASSUME TypeOK, TypeOK', OwnLockUnlessLiveSteal, StoreInv,
                    [Next]_vars
             PROVE [Register!RegNext]_(Register!regVars)
  OBVIOUS
<1> USE DEF Register!RegNext, Register!regVars, Register!Lapse
<1>1. CASE liveSteal'
  BY <1>1
<1>2. CASE ~liveSteal'
  <2>1. ~liveSteal
    BY <1>2, LiveStealStays
  <2>10. liveSteal' = liveSteal
    BY <1>2, <2>1 DEF TypeOK, LockTypeOK
  <2>2. ASSUME NEW p \in Proc,
               CallLocked(p) \/ LockIo(p) \/ LeaveLocked(p) \/ Kill(p)
        PROVE UNCHANGED Register!regVars
    <3>1. UNCHANGED storeVars
      BY <2>2 DEF CallLocked, LockIo, LeaveLocked, Kill
    <3> QED
      BY <2>10, <3>1 DEF storeVars, Committed
  <2>3. ASSUME NEW p \in Proc, RenameTmp(p) PROVE Register!Commit(p)
    <3>1. /\ pc[p] = "crit" /\ io[p] = "filled" /\ tmp # NoFile
          /\ disk' = tmp.data /\ io' = [io EXCEPT ![p] = "committed"]
      BY <2>3 DEF RenameTmp, IoAt
    <3>2. disk' = Mutate(p, Content(disk))
      BY <2>1, <3>1 DEF StoreInv, WriterInv, Mutating
    <3>3. disk \in Files /\ Content(disk) \in Store
      BY ContentType DEF TypeOK
    <3>4. Content(disk') = disk'
      BY <3>2, <3>3, StoreConstants, ContentOfStore
    <3>5. Committed' = Committed \cup {p} /\ p \notin Committed
      BY <3>1 DEF Committed, TypeOK
    <3> QED
      BY <2>10, <3>2, <3>4, <3>5 DEF Register!Commit
  <2>4. ASSUME NEW p \in Proc, ClearStaleTmp(p) \/ LoadLive(p) \/ ReadUnlocked(p)
                               \/ OpenTmp(p) \/ FillTmp(p) \/ RenameFails(p)
        PROVE UNCHANGED Register!regVars
    <3>1. UNCHANGED <<disk, liveSteal>>
      BY <2>4 DEF ClearStaleTmp, LoadLive, ReadUnlocked, OpenTmp, FillTmp,
                  RenameFails, lockVars
    <3>2. Committed' = Committed
      BY <2>4 DEF ClearStaleTmp, LoadLive, ReadUnlocked, OpenTmp, FillTmp,
                  RenameFails, IoAt, Quiet, Committed, TypeOK
    <3> QED
      BY <3>1, <3>2
  <2>5. ASSUME NEW p \in Proc, MoveAside(p) PROVE FALSE
    BY <2>1, <2>5 DEF MoveAside, IoAt, StoreInv
  <2>6. CASE UNCHANGED vars
    BY <2>6 DEF vars, lockVars, storeVars, Committed
  <2> QED
    BY <2>2, <2>3, <2>4, <2>5, <2>6 DEF Next, StoreStep
<1> QED
  BY <1>1, <1>2

\* mutatePeers is an atomic, exactly-once register whenever peers.json starts
\* out readable and until the lock of a live process is stolen.
THEOREM StoreIsRegister == ASSUME Corrupt \notin StartFiles
                           PROVE Spec => RegisterUnlessLiveSteal
<1>1. Init => Register!RegInit
  BY StoreConstants, ContentType
  DEF Init, Register!RegInit, Committed, Files
<1> QED
  BY <1>1, RegisterStep, StoreInvariant, StoreTypes, ImplementsLock, OwnLock, PTL
  DEF Spec, RegisterUnlessLiveSteal, Register!RegSpec

-----------------------------------------------------------------------------
(* From any start file, a corrupt one included. *)

\* The tmp file of a writer is its own, and is gone only where a load has removed it.
TmpInv ==
    liveSteal \/ \A p \in Proc :
        /\ pc[p] = "crit" =>
             /\ io[p] \in {"opened", "filled"} =>
                  IF tmp = NoFile THEN clobber ELSE tmp.ino = fd[p]
             /\ io[p] = "filled" => tmp = NoFile \/ tmp.data = Mutate(p, snap[p])
        /\ io[p] = "failed" => clobber

LEMMA TmpInvStep ==
  TypeOK /\ (\A p \in Proc : NotBegun(p)) /\ OwnLockUnlessLiveSteal /\ TmpInv /\ [Next]_vars
    => TmpInv'
<1> SUFFICES ASSUME TypeOK, \A p \in Proc : NotBegun(p), OwnLockUnlessLiveSteal, TmpInv,
                    [Next]_vars, ~liveSteal'
             PROVE TmpInv'
  BY DEF TmpInv
<1>0. ~liveSteal
  BY LiveStealStays
<1> USE <1>0, StoreConstants DEF TypeOK, LockTypeOK, TmpFiles, TmpInv, IoAt, lockVars
<1>1. ASSUME NEW p \in Proc,
             CallLocked(p) \/ LockIo(p) \/ LeaveLocked(p) \/ Kill(p)
      PROVE TmpInv'
  <2>1. UNCHANGED storeVars
    BY <1>1 DEF CallLocked, LockIo, LeaveLocked, Kill
  <2>2. \A q \in Proc : pc'[q] = "crit" => pc[q] = "crit" \/ io[q] \notin {"opened", "filled"}
    BY <1>1, EnterByStamp DEF NotBegun, Quiet, Loading
  <2> QED
    BY <2>1, <2>2 DEF storeVars
<1>2. ASSUME NEW p \in Proc, ClearStaleTmp(p) PROVE TmpInv'
  BY <1>2 DEF ClearStaleTmp
<1>3. ASSUME NEW p \in Proc, LoadLive(p) \/ MoveAside(p) \/ ReadUnlocked(p) PROVE TmpInv'
  BY <1>3 DEF LoadLive, MoveAside, ReadUnlocked, Quiet
<1>4. ASSUME NEW p \in Proc, OpenTmp(p) PROVE TmpInv'
  <2>1. \A q \in Proc : pc[q] = "crit" => q = p
    BY <1>4, OneWriter DEF OpenTmp
  <2> QED
    BY <1>4, <2>1 DEF OpenTmp
<1>5. ASSUME NEW p \in Proc, FillTmp(p) PROVE TmpInv'
  <2>1. \A q \in Proc : pc[q] = "crit" => q = p
    BY <1>5, OneWriter DEF FillTmp
  <2> QED
    BY <1>5, <2>1 DEF FillTmp
<1>6. ASSUME NEW p \in Proc, RenameTmp(p) PROVE TmpInv'
  <2>1. \A q \in Proc : pc[q] = "crit" => q = p
    BY <1>6, OneWriter DEF RenameTmp
  <2> QED
    BY <1>6, <2>1 DEF RenameTmp
<1>7. ASSUME NEW p \in Proc, RenameFails(p) PROVE TmpInv'
  BY <1>7 DEF RenameFails
<1>8. CASE UNCHANGED vars
  BY <1>8 DEF vars, storeVars
<1> QED
  BY <1>1, <1>2, <1>3, <1>4, <1>5, <1>6, <1>7, <1>8 DEF Next, StoreStep

LEMMA BegunByHolder == Spec => [](\A p \in Proc : NotBegun(p))
<1>1. Init => \A p \in Proc : NotBegun(p)
  BY DEF Init, LockInit, NotBegun, Quiet
<1> QED
  BY <1>1, NotBegunStep, StoreTypes, PTL DEF Spec

LEMMA TmpInvariant == Spec => []TmpInv
<1>1. Init => TmpInv
  BY DEF Init, LockInit, TmpInv
<1> QED
  BY <1>1, TmpInvStep, BegunByHolder, StoreTypes, ImplementsLock, OwnLock, PTL DEF Spec

\* A mutation fails at its rename only where a load removed the tmp file of a running
\* writer, or a live lock was stolen; from any start file.
THEOREM FailureExplained == Spec => []FailureNeedsClobber
<1>1. TmpInv => FailureNeedsClobber
  BY DEF TmpInv, FailureNeedsClobber
<1> QED
  BY <1>1, TmpInvariant, PTL

\* No mutation undoes itself or another, as for those that add different entries.
Additive ==
    \A p, q \in Proc, s \in Store :
        /\ Keeps(Mutate(p, s), p)
        /\ Keeps(s, q) => Keeps(Mutate(p, s), q)

\* An update is in a file that was moved aside.
Aside(p) == \E s \in aside \ {Corrupt} : Keeps(s, p)

\* Every update is in peers.json or was moved aside, and is in what the next writer will
\* write or was moved aside; once there is one, there is no corrupt file to be found.
KeepInv ==
    liveSteal \/
        /\ disk = Corrupt => Committed = {}
        /\ \A q \in Committed :
             /\ Aside(q) \/ Keeps(Content(disk), q)
             /\ \A p \in Proc : pc[p] = "crit" /\ io[p] \in Mutating =>
                  Aside(q) \/ Keeps(snap[p], q)

LEMMA KeepInvStep ==
  ASSUME Additive
  PROVE  TypeOK /\ (\A p \in Proc : NotBegun(p)) /\ OwnLockUnlessLiveSteal /\ TmpInv /\ KeepInv
           /\ [Next]_vars => KeepInv'
<1> SUFFICES ASSUME TypeOK, \A p \in Proc : NotBegun(p), OwnLockUnlessLiveSteal, TmpInv, KeepInv,
                    [Next]_vars, ~liveSteal'
             PROVE KeepInv'
  BY DEF KeepInv
<1>0. ~liveSteal
  BY LiveStealStays
<1>a. \A q \in Committed : q \in Proc
  BY DEF Committed
\* A step that commits nothing and loses no file keeps it, if it keeps what readers have read.
<1>1. ASSUME Committed' = Committed, aside \subseteq aside', disk' \in {disk, Missing},
             disk' # disk => (disk \in Store => disk \in aside' \ {Corrupt}),
             disk # disk' => disk # Missing,
             \A p \in Proc : pc'[p] = "crit" /\ io'[p] \in Mutating =>
                \/ pc[p] = "crit" /\ io[p] \in Mutating /\ snap'[p] = snap[p]
                \/ snap'[p] = Content(disk)
      PROVE KeepInv'
  <2>1. \A q : Aside(q) => Aside(q)'
    BY <1>1 DEF Aside
  <2>2. disk' = Corrupt => Committed' = {}
    BY <1>0, <1>1, StoreConstants DEF KeepInv
  <2>3. \A q \in Committed : disk' # disk => Aside(q)' \/ ~Keeps(Content(disk), q)
    <3> SUFFICES ASSUME NEW q \in Committed, disk' # disk, Keeps(Content(disk), q)
                 PROVE  Aside(q)'
      OBVIOUS
    <3>1. disk # Corrupt /\ disk \in Files
      BY <1>0 DEF KeepInv, TypeOK
    <3>2. disk \in Store /\ Content(disk) = disk
      BY <1>1, <3>1, ContentOfStore DEF Files
    <3> QED
      BY <1>1, <3>2 DEF Aside, Keeps
  <2>4. ASSUME NEW q \in Committed'
        PROVE  /\ Aside(q)' \/ Keeps(Content(disk'), q)
               /\ \A p \in Proc : pc'[p] = "crit" /\ io'[p] \in Mutating =>
                    Aside(q)' \/ Keeps(snap'[p], q)
    BY <1>0, <1>1, <2>1, <2>3 DEF KeepInv
  <2> QED
    BY <2>2, <2>4 DEF KeepInv, Keeps
<1>2. ASSUME NEW p \in Proc,
             CallLocked(p) \/ LockIo(p) \/ LeaveLocked(p) \/ Kill(p)
      PROVE KeepInv'
  <2>1. UNCHANGED storeVars
    BY <1>2 DEF CallLocked, LockIo, LeaveLocked, Kill
  <2>2. \A q \in Proc : pc'[q] = "crit" => pc[q] = "crit" \/ io[q] \notin Mutating
    BY <1>2, EnterByStamp DEF NotBegun, Quiet, Loading, Mutating, TypeOK
  <2> QED
    BY <1>1, <2>1, <2>2 DEF storeVars, Committed
<1>3. ASSUME NEW p \in Proc, ClearStaleTmp(p) \/ LoadLive(p) \/ MoveAside(p) \/ ReadUnlocked(p)
                             \/ OpenTmp(p) \/ FillTmp(p) \/ RenameFails(p)
      PROVE KeepInv'
  <2>1. io' \in [Proc -> Quiet \cup Loading \cup Mutating \cup Outcomes] /\ pc' = pc
    BY <1>3 DEF ClearStaleTmp, LoadLive, MoveAside, ReadUnlocked, OpenTmp, FillTmp, RenameFails,
       IoAt, TypeOK, lockVars, Quiet, Loading, Mutating, Outcomes
  <2>2. Committed' = Committed
    BY <1>3 DEF ClearStaleTmp, LoadLive, MoveAside, ReadUnlocked, OpenTmp, FillTmp, RenameFails,
       IoAt, Quiet, Committed, TypeOK
  <2>3. /\ aside \subseteq aside' /\ disk' \in {disk, Missing}
        /\ disk' # disk => (disk \in Store => disk \in aside' \ {Corrupt})
        /\ disk # disk' => disk # Missing
    BY <1>3, StoreConstants
    DEF ClearStaleTmp, LoadLive, MoveAside, ReadUnlocked, OpenTmp, FillTmp, RenameFails
  <2>4. \A q \in Proc : pc'[q] = "crit" /\ io'[q] \in Mutating =>
                \/ pc[q] = "crit" /\ io[q] \in Mutating /\ snap'[q] = snap[q]
                \/ snap'[q] = Content(disk)
    BY <1>3 DEF ClearStaleTmp, LoadLive, MoveAside, ReadUnlocked, OpenTmp, FillTmp, RenameFails,
       IoAt, TypeOK, lockVars, Mutating
  <2> QED
    BY <1>1, <2>2, <2>3, <2>4
<1>4. ASSUME NEW p \in Proc, RenameTmp(p) PROVE KeepInv'
  <2>1. \A q \in Proc : pc[q] = "crit" => q = p
    BY <1>0, <1>4, OneWriter DEF RenameTmp
  <2>2. /\ pc[p] = "crit" /\ io[p] = "filled" /\ tmp # NoFile /\ UNCHANGED <<pc, aside, snap>>
        /\ disk' = tmp.data /\ io' = [io EXCEPT ![p] = "committed"]
    BY <1>4 DEF RenameTmp, IoAt, lockVars
  <2>3. disk' = Mutate(p, snap[p]) /\ snap[p] \in Store /\ disk' \in Store
    BY <1>0, <2>2, StoreConstants DEF TmpInv, TypeOK
  <2>4. Content(disk') = disk' /\ disk' # Corrupt
    BY <2>3, ContentOfStore, StoreConstants
  <2>5. Committed' = Committed \cup {p}
    BY <2>2 DEF Committed, TypeOK
  <2>6. \A q : Aside(q)' <=> Aside(q)
    BY <2>2 DEF Aside
  <2>7. \A q \in Proc : ~(pc'[q] = "crit" /\ io'[q] \in Mutating)
    BY <2>1, <2>2 DEF Mutating, TypeOK
  <2>8. \A q \in Committed' : Aside(q)' \/ Keeps(Content(disk'), q)
    BY <1>0, <1>a, <2>2, <2>3, <2>4, <2>5, <2>6 DEF KeepInv, Additive, Mutating
  <2> QED
    BY <2>4, <2>7, <2>8 DEF KeepInv, Keeps
<1>5. CASE UNCHANGED vars
  BY <1>1, <1>5 DEF vars, lockVars, storeVars, Committed
<1> QED
  BY <1>2, <1>3, <1>4, <1>5 DEF Next, StoreStep

\* Whatever loads move aside and whoever is killed, no committed update is lost until a live
\* lock is stolen; from any start file, for mutations that do not undo each other.
THEOREM UpdatesKept == ASSUME Additive PROVE Spec => []NoUpdateLost
<1>1. Init => KeepInv
  BY DEF Init, LockInit, KeepInv, Committed
<1>2. KeepInv => NoUpdateLost
  BY DEF KeepInv, NoUpdateLost, Aside
<1> QED
  BY <1>1, <1>2, KeepInvStep, TmpInvariant, BegunByHolder, StoreTypes, ImplementsLock, OwnLock, PTL
  DEF Spec
=============================================================================
