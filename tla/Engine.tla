------------------------------- MODULE Engine -------------------------------
(***************************************************************************)
(* The engine's watch over the agents of a tmux session: the list of its   *)
(* windows; the status detection, which reads what every pane runs; and    *)
(* the crash check, which types the launch command into the panes whose    *)
(* agent is gone.  All are intervals that nothing keeps from overlapping,  *)
(* and tmux answers each question after an await.  The status is kept by   *)
(* index, and tmux moves windows up when one before them closes.           *)
(*                                                                         *)
(* autoRestart is on.  Left out are the events that are sent, the peers'   *)
(* sessions, captures, previews and teams; and that the list is refreshed, *)
(* and the intervals run, only at times: an interval may tick or not.      *)
(***************************************************************************)
EXTENDS Naturals, Sequences, FiniteSets

CONSTANTS MaxWindows, \* bound on the windows of the session
          MaxLooks,   \* bound on the detections that have read and not applied
          Checker,    \* the crash checks that may be under way
          NoEntry     \* no entry in a map

VARIABLES windows,  \* of the session, by index: what the pane runs, and whether an agent
                    \* ended there since the last restart (history)
          sessions, \* sessionCache.sessions: how many windows it lists
          longest,  \* how many windows there have been at once
          state,    \* StatusDetector.state
          readings, \* what detections have read, in that order
          checks,   \* the crash checks: the indices to do, and whether the first has its command
          unearned, \* history: a restart went to a pane where no agent had ended
          excused   \* history: why that may be

engineVars == <<windows, sessions, longest, state, readings, checks, unearned, excused>>

Index   == 1..MaxWindows
Program == {"agent", "shell", "other"}
Entry   == [status : {"ready", "idle", "crashed"}, wasRunning : BOOLEAN]
Idle    == [todo |-> {}, typed |-> FALSE]

\* Something in the engine is still about the window that was at index i.
Remembered(i) ==
    \/ state[i] # NoEntry
    \/ \E r \in DOMAIN readings : i \in DOMAIN readings[r].runs
    \/ \E k \in Checker : i \in checks[k].todo

EngineInit ==
    /\ windows = <<>> /\ sessions = 0 /\ longest = 0
    /\ state = [i \in Index |-> NoEntry]
    /\ readings = <<>> /\ checks = [k \in Checker |-> Idle]
    /\ unearned = FALSE /\ excused = FALSE

-----------------------------------------------------------------------------
(* What people, other commands and the agents themselves do. *)

\* A window is opened at the next free index.
Opens ==
    /\ Len(windows) < MaxWindows
    /\ windows' = Append(windows, [runs |-> "shell", ended |-> FALSE])
    /\ longest' = IF Len(windows) < longest THEN longest ELSE Len(windows) + 1
    /\ excused' = (excused \/ Remembered(Len(windows) + 1))
    /\ UNCHANGED <<sessions, state, readings, checks, unearned>>

\* A window closes, and with renumber-windows the ones behind it move up.
Closes(i) ==
    /\ i \in DOMAIN windows
    /\ windows' = [j \in 1..(Len(windows) - 1) |-> windows[IF j < i THEN j ELSE j + 1]]
    /\ excused' = (excused \/ i < Len(windows))
    /\ UNCHANGED <<sessions, longest, state, readings, checks, unearned>>

\* An agent is started, by a wake or by hand; it ends; or another program runs for a while.
Becomes(i, program) ==
    /\ i \in DOMAIN windows /\ windows[i].runs # program
    /\ "shell" \in {windows[i].runs, program}
    /\ windows' = [windows EXCEPT ![i] = [runs |-> program, ended |-> @.ended \/ @.runs = "agent"]]
    /\ UNCHANGED <<sessions, longest, state, readings, checks, unearned, excused>>

-----------------------------------------------------------------------------
(* The list of windows. *)

\* What broadcastSessions and sendInitialSessions put there: an answer of tmux of any age,
\* since an interval does not wait for the last one's, or the empty list of a failure.
CacheSessions ==
    /\ sessions' \in 0..longest
    /\ UNCHANGED <<windows, longest, state, readings, checks, unearned, excused>>

-----------------------------------------------------------------------------
(* StatusDetector.detect *)

\* The list, and what tmux answers about its panes later (getPaneCommands): a pane that tmux
\* does not have, or all of them when it fails, has no command, neither an agent's nor a
\* shell.  That the list is replaced meanwhile is CacheSessions before and after.
Detect ==
    /\ sessions # 0 /\ Len(readings) < MaxLooks
    /\ \E answers \in BOOLEAN :
         readings' = Append(readings, [outdated |-> FALSE, runs |-> [i \in 1..sessions |->
             IF answers /\ i \in DOMAIN windows THEN windows[i].runs ELSE "other"]])
    /\ UNCHANGED <<windows, sessions, longest, state, checks, unearned, excused>>

WasRunning(e) == e # NoEntry /\ e.wasRunning

\* What a pane's entry becomes: an agent keeps its status, and a shell where one ran is a crash.
Seen(e, program) ==
    CASE program = "agent" -> [status |-> IF e = NoEntry THEN "ready" ELSE e.status, wasRunning |-> TRUE]
      [] program = "shell" -> [status |-> IF WasRunning(e) THEN "crashed" ELSE "idle", wasRunning |-> WasRunning(e)]
      [] OTHER -> [status |-> "idle", wasRunning |-> WasRunning(e)]

\* The rest of detect, without an await, with the pruning of windows it was not given.
Apply(r) ==
    /\ r \in DOMAIN readings
    /\ state' = [i \in Index |->
         IF i \in DOMAIN readings[r].runs THEN Seen(state[i], readings[r].runs[i]) ELSE NoEntry]
    /\ readings' = [q \in 1..(Len(readings) - 1) |->
         IF q < r THEN [readings[q] EXCEPT !.outdated = TRUE] ELSE readings[q + 1]]
    /\ excused' = (excused \/ readings[r].outdated)
    /\ UNCHANGED <<windows, sessions, longest, checks, unearned>>

-----------------------------------------------------------------------------
(* handleCrashedAgents *)

\* getCrashedAgents: of the windows in the cached list.
Crashed == {i \in 1..sessions : state[i] # NoEntry /\ state[i].status = "crashed"}

Busy(k) == checks[k].todo # {}

\* They are restarted in the order of the list: i is the one at hand.
Current(k, i) == i \in checks[k].todo /\ \A j \in checks[k].todo : i <= j

Check(k) ==
    /\ ~Busy(k) /\ Crashed # {}
    /\ checks' = [checks EXCEPT ![k].todo = Crashed]
    /\ excused' = (excused \/ \E j \in Checker : Busy(j))
    /\ UNCHANGED <<windows, sessions, longest, state, readings, unearned>>

\* sendText: whatever the pane at that index runs by now gets the command.  A shell starts
\* the agent, or finds no such program.
Restart(k, i) ==
    /\ Current(k, i) /\ ~checks[k].typed /\ i \in DOMAIN windows
    /\ \E program \in {windows[i].runs} \cup (IF windows[i].runs = "shell" THEN {"agent"} ELSE {}) :
         windows' = [windows EXCEPT ![i] = [runs |-> program, ended |-> FALSE]]
    /\ unearned' = (unearned \/ ~windows[i].ended)
    /\ checks' = [checks EXCEPT ![k].typed = TRUE]
    /\ readings' = [r \in DOMAIN readings |-> [readings[r] EXCEPT !.outdated = TRUE]]
    /\ UNCHANGED <<sessions, longest, state, excused>>

GoOn(k, i) == checks' = [checks EXCEPT ![k] = [todo |-> @.todo \ {i}, typed |-> FALSE]]

\* The window is gone, or tmux fails: on to the next one, with nothing cleared.
RestartFails(k, i) ==
    /\ Current(k, i) /\ ~checks[k].typed /\ GoOn(k, i)
    /\ UNCHANGED <<windows, sessions, longest, state, readings, unearned, excused>>

\* sendText retries the Enter, and tmux fails it: nothing is cleared of what was typed.
SubmitFails(k, i) ==
    /\ Current(k, i) /\ checks[k].typed /\ GoOn(k, i) /\ excused' = TRUE
    /\ UNCHANGED <<windows, sessions, longest, state, readings, unearned>>

\* The status alone is reset, and that an agent ran there is remembered.
ClearStatus(k, i) ==
    /\ Current(k, i) /\ checks[k].typed /\ GoOn(k, i)
    /\ state' = [state EXCEPT ![i] = IF @ = NoEntry THEN @ ELSE [@ EXCEPT !.status = "idle"]]
    /\ UNCHANGED <<windows, sessions, longest, readings, unearned, excused>>

\* clearCrashed, once sendText has seen the command go.
Clear(k, i) ==
    /\ Current(k, i) /\ checks[k].typed /\ GoOn(k, i)
    /\ state' = [state EXCEPT ![i] = IF @ = NoEntry THEN @ ELSE [status |-> "idle", wasRunning |-> FALSE]]
    /\ UNCHANGED <<windows, sessions, longest, readings, unearned, excused>>

EngineNext ==
    \/ Opens \/ CacheSessions \/ Detect
    \/ \E i \in Index : Closes(i) \/ \E program \in Program : Becomes(i, program)
    \/ \E r \in 1..MaxLooks : Apply(r)
    \/ \E k \in Checker : Check(k)
    \/ \E k \in Checker, i \in Index :
         Restart(k, i) \/ RestartFails(k, i) \/ SubmitFails(k, i) \/ Clear(k, i)

EngineSpec == EngineInit /\ [][EngineNext]_engineVars

-----------------------------------------------------------------------------
EngineTypeOK ==
    /\ windows \in Seq([runs : Program, ended : BOOLEAN]) /\ Len(windows) <= longest
    /\ sessions \in 0..longest /\ longest \in 0..MaxWindows
    /\ state \in [Index -> Entry \cup {NoEntry}]
    /\ readings \in Seq([outdated : BOOLEAN, runs : Seq(Program)]) /\ Len(readings) <= MaxLooks
    /\ checks \in [Checker -> [todo : SUBSET Index, typed : BOOLEAN]]
    /\ unearned \in BOOLEAN /\ excused \in BOOLEAN

\* "Auto-restart crashed agents" (engine-crash.ts:9): every restart is for an agent that
\* ended in that pane since the last restart there, whatever was started by hand meanwhile,
\* however old the list of windows is and wherever tmux fails; until a window takes the index
\* of one whose status, reading or crash the engine still holds, two checks overlap, a
\* detection applies what it read before a restart or before what a faster one has applied,
\* or tmux fails an Enter that sendText sends again.
RestartsAreEarned == ~excused => ~unearned
=============================================================================
