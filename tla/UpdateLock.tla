------------------------------ MODULE UpdateLock ------------------------------
(***************************************************************************)
(* withUpdateLock (cli/update-lock.ts), which is to keep the updates of    *)
(* several `maw update` processes apart, and the installers, `bun add`,    *)
(* that an update starts and waits for.  An action is one use of the lock  *)
(* file.  A process makes one update and ends, killed by a signal or not;  *)
(* pids are not used again.  A process that has not begun yet is "open".   *)
(***************************************************************************)

CONSTANTS Updater, NoFile \* none of Updater, nor of Locks

Locks == [of : Updater, stamped : BOOLEAN]

VARIABLES updateLock, \* NoFile, or whose file it is and whether its pid is in it yet
          place,      \* where each process is in withUpdateLock
          holder,     \* the holderPid it has read, or NoFile (NaN)
          installers, \* those whose installer is at work
          robbed      \* history: one took over the lock of a live owner whose pid it had not read

updateLockVars == <<updateLock, place, holder, installers, robbed>>

UpdateLockInit ==
    /\ updateLock = NoFile
    /\ place = [p \in Updater |-> "open"]
    /\ holder = [p \in Updater |-> NoFile]
    /\ installers = {}
    /\ robbed = FALSE

Moves(p, from, to) == place[p] = from /\ place' = [place EXCEPT ![p] = to]

Owns(p) == updateLock # NoFile /\ updateLock.of = p
Running(pid) == pid # NoFile /\ place[pid] # "gone"

\* openSync(lockPath, "wx")
Creates(p) ==
    /\ Moves(p, "open", "stamp")
    /\ updateLock = NoFile /\ updateLock' = [of |-> p, stamped |-> FALSE]
    /\ UNCHANGED <<holder, installers, robbed>>

FindsLock(p) ==
    /\ Moves(p, "open", "read") /\ updateLock # NoFile
    /\ UNCHANGED <<updateLock, holder, installers, robbed>>

\* The pid goes through the descriptor, to the process's own file only.
Stamps(p) ==
    /\ Moves(p, "stamp", "fn")
    /\ updateLock' = IF Owns(p) THEN [updateLock EXCEPT !.stamped = TRUE] ELSE updateLock
    /\ UNCHANGED <<holder, installers, robbed>>

\* A file that is gone, or is empty still, reads as NaN.
Reads(p) ==
    /\ Moves(p, "read", "judge")
    /\ holder' = [holder EXCEPT ![p] = IF updateLock # NoFile /\ updateLock.stamped
                                         THEN updateLock.of ELSE NoFile]
    /\ UNCHANGED <<updateLock, installers, robbed>>

\* Mutant: who has waited for 60 s takes the lock over, whoever holds it.
JudgesImpatient(p) ==
    /\ Moves(p, "judge", "open") \/ Moves(p, "judge", "steal")
    /\ UNCHANGED <<updateLock, holder, installers, robbed>>

\* A live holder is waited for, 500 ms at a time and 60 s in all; any other is taken over.
Judges(p) ==
    /\ IF Running(holder[p])
         THEN Moves(p, "judge", "open") \/ Moves(p, "judge", "gone")
         ELSE Moves(p, "judge", "steal")
    /\ UNCHANGED <<updateLock, holder, installers, robbed>>

\* unlinkSync goes by name, whatever file has it by now.
TakesOver(p) ==
    /\ Moves(p, "steal", "open")
    /\ robbed' = (robbed \/ \E q \in Updater \ {holder[p]} :
                             Owns(q) /\ place[q] \in {"stamp", "fn"})
    /\ updateLock' = NoFile
    /\ UNCHANGED <<holder, installers>>

\* fn starts an installer, and goes on when that has ended.
Spawns(p) ==
    /\ place[p] = "fn" /\ installers' = installers \cup {p}
    /\ UNCHANGED <<updateLock, place, holder, robbed>>

Exits(p) ==
    /\ p \in installers /\ installers' = installers \ {p}
    /\ UNCHANGED <<updateLock, place, holder, robbed>>

\* The finally block; a failed update ends by process.exit, which runs no such block.
Releases(p) ==
    /\ p \notin installers /\ Moves(p, "fn", "gone")
    /\ updateLock' \in {NoFile, updateLock}
    /\ UNCHANGED <<holder, installers, robbed>>

\* The handlers of SIGINT and SIGTERM release the lock.  The installer may or may not have
\* had the signal too.
Interrupted(p) ==
    /\ Moves(p, "fn", "gone") /\ updateLock' = NoFile
    /\ installers' \in {installers, installers \ {p}}
    /\ UNCHANGED <<holder, robbed>>

\* SIGKILL, or any signal outside of fn; an error of a file-system call ends it as well.
Perishes(p) ==
    /\ place[p] # "gone" /\ place' = [place EXCEPT ![p] = "gone"]
    /\ installers' \in {installers, installers \ {p}}
    /\ UNCHANGED <<updateLock, holder, robbed>>

UpdateLockNext ==
    \E p \in Updater :
        \/ Creates(p) \/ FindsLock(p) \/ Stamps(p) \/ Reads(p) \/ Judges(p) \/ TakesOver(p)
        \/ Spawns(p) \/ Exits(p) \/ Releases(p) \/ Interrupted(p) \/ Perishes(p)

UpdateLockSpec == UpdateLockInit /\ [][UpdateLockNext]_updateLockVars

-----------------------------------------------------------------------------
\* Every variable has its type.
UpdateLockTypeOK ==
    /\ updateLock \in Locks \cup {NoFile}
    /\ place \in [Updater -> {"open", "stamp", "read", "judge", "steal", "fn", "gone"}]
    /\ holder \in [Updater -> Updater \cup {NoFile}]
    /\ installers \subseteq Updater
    /\ robbed \in BOOLEAN

AtWork(p) == place[p] = "fn" \/ p \in installers

\* The comment of withUpdateLock, "run fn() while holding an exclusive update lock": until
\* one takes over, for an empty lock or a dead owner's, what is the lock of a live one, two
\* updates are at work only where one was ended by a signal and its installer was not.
UpdatesApart ==
    robbed \/ \A p, q \in Updater :
        p # q /\ AtWork(p) /\ AtWork(q) => \E d \in {p, q} : d \in installers /\ place[d] = "gone"
=============================================================================
