----------------------------- MODULE InstancePid -----------------------------
(***************************************************************************)
(* The pid file of `maw serve` (cli/instance-pid.ts) and the processes     *)
(* that use it: `serve`, with or without --force-takeover, `serve status`  *)
(* and `serve stop`, any of them at once.  An action is one use of the     *)
(* file; the probe of a pid and the signal it leads to are one step.  A    *)
(* process runs one command and may crash anywhere in it; pids are not     *)
(* used again.  The port is no second guard, since it may differ.          *)
(***************************************************************************)
EXTENDS Naturals

CONSTANTS Server, NoFile

ASSUME PidConstants ==
    /\ NoFile \notin Server
    /\ \A p \in Server, b \in BOOLEAN : NoFile # [owner |-> p, stamped |-> b]

VARIABLES pidFile, \* NoFile, or whose it is and whether its pid is in it yet
          job,     \* what a process was started for
          doing,   \* where it is
          tries,   \* the attempts it has left
          prior,   \* the pid it has read, or NoFile (NaN)
          met      \* history: two were busy with the pid file at once

pidVars == <<pidFile, job, doing, tries, prior, met>>

Jobs == {"serve", "force", "status", "stop"}

PidInit ==
    /\ pidFile = NoFile
    /\ job = [p \in Server |-> "serve"]
    /\ doing = [p \in Server |-> "new"]
    /\ tries = [p \in Server |-> 2]
    /\ prior = [p \in Server |-> NoFile]
    /\ met = FALSE

Busy == {"open", "stamp", "read", "decide", "unlink", "signalled", "exiting"}
Alive(p) == doing[p] \in Busy \cup {"serving"}

\* Process p goes on to `there`; a history of who is busy beside whom is kept.
Moves(p, here, there) ==
    /\ doing[p] = here
    /\ doing' = [doing EXCEPT ![p] = there]
    /\ met' = (met \/ \E q \in Server \ {p} : there \in Busy /\ doing[q] \in Busy)

Call(p, what) ==
    /\ Moves(p, "new", IF what \in {"serve", "force"} THEN "open" ELSE "read")
    /\ job' = [job EXCEPT ![p] = what]
    /\ UNCHANGED <<pidFile, tries, prior>>

\* openSync(file, "wx"), twice at most; then the server starts with no lock at all.
Open(p) ==
    /\ \/ /\ tries[p] > 0 /\ pidFile = NoFile
          /\ Moves(p, "open", "stamp")
          /\ pidFile' = [owner |-> p, stamped |-> FALSE]
       \/ /\ tries[p] > 0 /\ pidFile # NoFile
          /\ Moves(p, "open", "read") /\ UNCHANGED pidFile
       \/ /\ tries[p] = 0
          /\ Moves(p, "open", "serving") /\ UNCHANGED pidFile
    /\ tries' = [tries EXCEPT ![p] = IF @ > 0 THEN @ - 1 ELSE 0]
    /\ UNCHANGED <<job, prior>>

\* The pid goes into the file that was opened, whether it is still at its path or not.
Stamp(p) ==
    /\ Moves(p, "stamp", "serving")
    /\ pidFile' = IF pidFile # NoFile /\ pidFile.owner = p
                  THEN [owner |-> p, stamped |-> TRUE] ELSE pidFile
    /\ UNCHANGED <<job, tries, prior>>

\* readPid: no file, and an empty one, is NaN.
ReadPid(p) ==
    /\ Moves(p, "read", "decide")
    /\ prior' = [prior EXCEPT ![p] = IF pidFile # NoFile /\ pidFile.stamped
                                   THEN pidFile.owner ELSE NoFile]
    /\ UNCHANGED <<pidFile, job, tries>>

Finite(p) == prior[p] # NoFile
Running(p) == Finite(p) /\ Alive(prior[p])

\* Nobody alive is named: remove the file, but `status` and `stop` not one that is NaN.
Clears(p) == IF job[p] \in {"status", "stop"} /\ ~Finite(p) THEN "gone" ELSE "unlink"

\* Mutant: whoever is named is taken to be gone.
GivesUpStale(p) ==
    /\ \/ job[p] = "serve" /\ Moves(p, "decide", "unlink")
       \/ job[p] = "status" /\ ~Running(p)
          /\ Moves(p, "decide", IF Finite(p) THEN "unlink" ELSE "gone")
    /\ UNCHANGED <<pidFile, job, tries, prior>>

\* Somebody alive is named: `serve` refuses, and `status` is done.
GivesUp(p) ==
    /\ \/ ~Running(p) /\ Moves(p, "decide", Clears(p))
       \/ Running(p) /\ job[p] \in {"serve", "status"} /\ Moves(p, "decide", "gone")
    /\ UNCHANGED <<pidFile, job, tries, prior>>

\* --force-takeover and `stop` send SIGTERM, which is handled when the other gets to it.
Terminates(p) ==
    /\ doing[p] = "decide" /\ Running(p) /\ job[p] \in {"force", "stop"}
    /\ doing' = [doing EXCEPT ![p] = "unlink",
                        ![prior[p]] = IF @ = "serving" THEN "signalled" ELSE @]
    /\ met' = TRUE
    /\ UNCHANGED <<pidFile, job, tries, prior>>

\* unlinkPid, by name; then another attempt, or the command is done.
Unlink(p) ==
    /\ Moves(p, "unlink", IF job[p] \in {"serve", "force"} THEN "open" ELSE "gone")
    /\ pidFile' = NoFile
    /\ UNCHANGED <<job, tries, prior>>

\* SIGINT or SIGTERM from elsewhere.
Interrupted(p) ==
    /\ Moves(p, "serving", "signalled")
    /\ UNCHANGED <<pidFile, job, tries, prior>>

\* The handler unlinks by name, and the exit it calls does so once more.
CleansUp(p) ==
    /\ Moves(p, "signalled", "exiting") \/ Moves(p, "exiting", "gone")
    /\ pidFile' = NoFile
    /\ UNCHANGED <<job, tries, prior>>

Crashes(p) ==
    /\ Alive(p) /\ Moves(p, doing[p], "gone")
    /\ UNCHANGED <<pidFile, job, tries, prior>>

PidNext ==
    \E p \in Server :
        \/ \E what \in Jobs : Call(p, what)
        \/ Open(p) \/ Stamp(p) \/ ReadPid(p) \/ GivesUp(p) \/ Terminates(p)
        \/ Unlink(p) \/ Interrupted(p) \/ CleansUp(p) \/ Crashes(p)

PidSpec == PidInit /\ [][PidNext]_pidVars

-----------------------------------------------------------------------------
\* Every variable has its type.
PidTypeOK ==
    /\ pidFile \in [owner : Server, stamped : BOOLEAN] \cup {NoFile}
    /\ job \in [Server -> Jobs]
    /\ doing \in [Server -> Busy \cup {"new", "serving", "gone"}]
    /\ tries \in [Server -> 0..2]
    /\ prior \in [Server -> Server \cup {NoFile}]
    /\ met \in BOOLEAN

Serving == {p \in Server : doing[p] = "serving"}

\* instance-pid.ts:4, "Refuse a second serve invocation if a prior PID is still alive":
\* as long as no two processes are busy with the pid file at once, it names the one
\* server there is, crashes and the files they leave notwithstanding.  (A take-over and
\* a stop always meet the clean-up of their victim.)
OneNamedServer ==
    ~met => \A p \in Serving : pidFile = [owner |-> p, stamped |-> TRUE]
=============================================================================
