----------------------------- MODULE PtySessions -----------------------------
(***************************************************************************)
(* The web terminals of `maw serve` (core/transport/pty.ts).  A WebSocket  *)
(* client attaches to a tmux target; the first attach creates a grouped    *)
(* maw-pty-* tmux session and a wrapper process, later ones join it, and   *)
(* the last detach starts a grace timer.  Handlers run to completion; what *)
(* interleaves is everything between their awaits: clients, the creations  *)
(* in flight, the grace timers, the end of a wrapper's stdout, and the     *)
(* sweeps that kill untracked tmux sessions.                               *)
(*                                                                         *)
(* A pty is numbered by its id.  Sizes, scrollback and keystrokes are left *)
(* out; killing a session that is gone is a no-op.                         *)
(***************************************************************************)
EXTENDS Naturals, FiniteSets

CONSTANTS Client,  \* the WebSocket clients
          Target,  \* the (sanitised) tmux targets
          MaxPty,  \* bound: the ptys created in a behaviour
          None     \* no pty, no target, no client

Pty == 1..MaxPty

ASSUME PtyConstants == /\ MaxPty \in Nat
                       /\ None \notin Pty \cup Target \cup Client

VARIABLES sessions,  \* the pty tracked for each target
          attaching, \* the targets for which a creation is in flight
          creating,  \* the ptys not yet in sessions (creatingPtyNames)
          made,      \* nextPtyId
          stage,     \* how far each pty is
          of,        \* its target
          opener,    \* the client whose attach creates it
          viewers,   \* its viewers
          timer,     \* the ptys whose grace timer runs
          proc,      \* the ptys whose wrapper process runs
          tmuxAlive, \* the maw-pty-* sessions that tmux has
          open,      \* the clients that are connected
          wants,     \* history: the target each client attached to last
          ghost,     \* history: ptys handed to a client that had moved on
          evicted    \* history: ptys another pty's end removed from sessions

madeVars  == <<made, of, opener>>
histories == <<ghost, evicted>>
vars == <<sessions, attaching, creating, madeVars, stage, viewers, timer,
          proc, tmuxAlive, open, wants, histories>>

Creation == {"group", "setup", "stuck"}
Stages   == {"none", "failed", "running", "ended"} \cup Creation

Tracked(n) == \E t \in Target : sessions[t] = n

\* isTrackedPtyName
Spared(n) == n \in creating \/ Tracked(n)

Init ==
    /\ sessions = [t \in Target |-> None]
    /\ attaching = {} /\ creating = {} /\ made = 0
    /\ stage = [n \in Pty |-> "none"]
    /\ of = [n \in Pty |-> None]
    /\ opener = [n \in Pty |-> None]
    /\ viewers = [n \in Pty |-> {}]
    /\ timer = {} /\ proc = {} /\ tmuxAlive = {}
    /\ open = Client
    /\ wants = [c \in Client |-> None]
    /\ ghost = {} /\ evicted = {}

-----------------------------------------------------------------------------
\* detach(ws): the client leaves every tracked session it views; the timer of a
\* session that it leaves empty starts.
ViewersWithout(c) ==
    [n \in Pty |-> IF Tracked(n) THEN viewers[n] \ {c} ELSE viewers[n]]

\* Mutant: no timer is started.
NoTimers(c) == timer

TimersWithout(c) == timer \cup {n \in Pty : Tracked(n) /\ viewers[n] = {c}}

\* A "detach" message, or the close of the socket.
Detach(c) ==
    /\ c \in open
    /\ \E stay \in {open, open \ {c}} : open' = stay
    /\ viewers' = ViewersWithout(c)
    /\ timer' = TimersWithout(c)
    /\ wants' = [wants EXCEPT ![c] = None]
    /\ UNCHANGED <<sessions, attaching, creating, madeVars, stage, proc, tmuxAlive,
                   histories>>

Asks(c, t) == c \in open /\ open' = open /\ wants' = [wants EXCEPT ![c] = t]

\* Mutant: clearTimeout is forgotten.
JoinKeepsTimer(c, t) ==
    /\ Asks(c, t)
    /\ sessions[t] # None
    /\ viewers' = [ViewersWithout(c) EXCEPT ![sessions[t]] = @ \cup {c}]
    /\ timer' = TimersWithout(c)
    /\ UNCHANGED <<sessions, attaching, creating, madeVars, stage, proc, tmuxAlive,
                   histories>>

\* Mutant: the client stays in the session it viewed before.
JoinWithoutDetach(c, t) ==
    /\ Asks(c, t)
    /\ sessions[t] # None
    /\ viewers' = [viewers EXCEPT ![sessions[t]] = @ \cup {c}]
    /\ timer' = timer \ {sessions[t]}
    /\ UNCHANGED <<sessions, attaching, creating, madeVars, stage, proc, tmuxAlive,
                   histories>>

\* attach: join the session that exists; its grace timer is cleared.
Join(c, t) ==
    /\ Asks(c, t)
    /\ sessions[t] # None
    /\ viewers' = [ViewersWithout(c) EXCEPT ![sessions[t]] = @ \cup {c}]
    /\ timer' = TimersWithout(c) \ {sessions[t]}
    /\ UNCHANGED <<sessions, attaching, creating, madeVars, stage, proc, tmuxAlive,
                   histories>>

\* attach while another client's attach creates the session: nothing is sent.
Ignore(c, t) ==
    /\ Asks(c, t)
    /\ sessions[t] = None /\ t \in attaching
    /\ viewers' = ViewersWithout(c)
    /\ timer' = TimersWithout(c)
    /\ UNCHANGED <<sessions, attaching, creating, madeVars, stage, proc, tmuxAlive,
                   histories>>

\* Mutant: without the `attaching` mutex.
CreateWithoutMutex(c, t) ==
    /\ Asks(c, t)
    /\ sessions[t] = None
    /\ made < MaxPty
    /\ made' = made + 1
    /\ of' = [of EXCEPT ![made + 1] = t]
    /\ opener' = [opener EXCEPT ![made + 1] = c]
    /\ stage' = [stage EXCEPT ![made + 1] = "group"]
    /\ attaching' = attaching \cup {t}
    /\ creating' = creating \cup {made + 1}
    /\ viewers' = ViewersWithout(c)
    /\ timer' = TimersWithout(c)
    /\ UNCHANGED <<sessions, proc, tmuxAlive, histories>>

\* attach: create the session; newGroupedSession is called.
Create(c, t) ==
    /\ Asks(c, t)
    /\ sessions[t] = None /\ t \notin attaching
    /\ made < MaxPty
    /\ made' = made + 1
    /\ of' = [of EXCEPT ![made + 1] = t]
    /\ opener' = [opener EXCEPT ![made + 1] = c]
    /\ stage' = [stage EXCEPT ![made + 1] = "group"]
    /\ attaching' = attaching \cup {t}
    /\ creating' = creating \cup {made + 1}
    /\ viewers' = ViewersWithout(c)
    /\ timer' = TimersWithout(c)
    /\ UNCHANGED <<sessions, proc, tmuxAlive, histories>>

At(n, here, next) == stage[n] = here /\ stage' = [stage EXCEPT ![n] = next]

\* tmux has the grouped session; its options and rows are set next.
GroupMade(n) ==
    /\ At(n, "group", "setup")
    /\ tmuxAlive' = tmuxAlive \cup {n}
    /\ UNCHANGED <<sessions, attaching, creating, madeVars, viewers, timer, proc,
                   open, wants, histories>>

\* newGroupedSession rejects: in new-session, or in the select-window after it.
GroupFails(n) ==
    /\ At(n, "group", "failed")
    /\ \E left \in {tmuxAlive, tmuxAlive \cup {n}} : tmuxAlive' = left
    /\ creating' = creating \ {n}
    /\ attaching' = attaching \ {of[n]}
    /\ UNCHANGED <<sessions, madeVars, viewers, timer, proc, open, wants, histories>>

\* The wrapper process starts and the session becomes tracked, with the client
\* that asked for it as its viewer.
Spawn(n) ==
    /\ At(n, "setup", "running")
    /\ proc' = proc \cup {n}
    /\ viewers' = [viewers EXCEPT ![n] = {opener[n]}]
    /\ sessions' = [sessions EXCEPT ![of[n]] = n]
    /\ creating' = creating \ {n}
    /\ attaching' = attaching \ {of[n]}
    /\ ghost' = IF wants[opener[n]] = of[n] THEN ghost ELSE ghost \cup {n}
    /\ UNCHANGED <<madeVars, timer, tmuxAlive, open, wants, evicted>>

\* Bun.spawn throws: nothing catches it and nothing is undone.
SpawnThrows(n) ==
    /\ At(n, "setup", "stuck")
    /\ UNCHANGED <<sessions, attaching, creating, madeVars, viewers, timer, proc,
                   tmuxAlive, open, wants, histories>>

\* The wrapper process ends, killed or on its own.
ProcEnds(n) ==
    /\ n \in proc
    /\ proc' = proc \ {n}
    /\ UNCHANGED <<sessions, attaching, creating, madeVars, stage, viewers, timer,
                   tmuxAlive, open, wants, histories>>

\* sessions.delete(target): whichever pty is tracked for the target of n.
Forget(n) ==
    /\ sessions' = [sessions EXCEPT ![of[n]] = None]
    /\ evicted' = evicted \cup ({sessions[of[n]]} \ {n, None})

\* The reader of the wrapper's stdout comes to its end.
StreamEnds(n) ==
    /\ n \notin proc
    /\ At(n, "running", "ended")
    /\ Forget(n)
    /\ tmuxAlive' = tmuxAlive \ {n}
    /\ UNCHANGED <<attaching, creating, madeVars, viewers, timer, proc, open, wants,
                   ghost>>

\* The grace timer fires: the process is sent a signal, the session is killed.
Grace(n) ==
    /\ n \in timer
    /\ timer' = timer \ {n}
    /\ Forget(n)
    /\ tmuxAlive' = tmuxAlive \ {n}
    /\ UNCHANGED <<attaching, creating, madeVars, stage, viewers, proc, open, wants,
                   ghost>>

\* A sweep, periodic or of an attach to the same parent, comes to n.
Reap(n) ==
    /\ n \in tmuxAlive /\ ~Spared(n)
    /\ tmuxAlive' = tmuxAlive \ {n}
    /\ UNCHANGED <<sessions, attaching, creating, madeVars, stage, viewers, timer,
                   proc, open, wants, histories>>

PtyStep(n) ==
    \/ GroupMade(n) \/ GroupFails(n) \/ Spawn(n) \/ SpawnThrows(n)
    \/ StreamEnds(n) \/ Grace(n) \/ Reap(n)

Next ==
    \/ \E c \in Client : Detach(c)
    \/ \E c \in Client, t \in Target : Join(c, t) \/ Ignore(c, t) \/ Create(c, t)
    \/ \E n \in Pty : PtyStep(n) \/ ProcEnds(n)

Spec == Init /\ [][Next]_vars

\* Timers fire, tmux answers, the sweep is periodic, and a wrapper attached to a
\* session that tmux has killed ends.  Clients need not do anything.
Fairness == \A n \in Pty :
    /\ WF_vars(GroupMade(n) \/ GroupFails(n)) /\ WF_vars(Spawn(n) \/ SpawnThrows(n))
    /\ WF_vars(StreamEnds(n)) /\ WF_vars(Grace(n)) /\ WF_vars(Reap(n))
    /\ WF_vars(n \notin tmuxAlive /\ ProcEnds(n))

FairSpec == Spec /\ Fairness

-----------------------------------------------------------------------------
\* Every variable has its type.
TypeOK ==
    /\ sessions \in [Target -> Pty \cup {None}]
    /\ attaching \subseteq Target
    /\ creating \subseteq Pty
    /\ made \in 0..MaxPty
    /\ stage \in [Pty -> Stages]
    /\ of \in [Pty -> Target \cup {None}]
    /\ opener \in [Pty -> Client \cup {None}]
    /\ viewers \in [Pty -> SUBSET Client]
    /\ timer \subseteq Pty /\ proc \subseteq Pty /\ tmuxAlive \subseteq Pty
    /\ open \subseteq Client
    /\ wants \in [Client -> Target \cup {None}]
    /\ ghost \subseteq Pty /\ evicted \subseteq Pty

\* The mutex of attach: while a pty is being created for a target, no other is
\* created for it and none is tracked, so a new session never replaces another.
SoleTerminal ==
    \A n \in Pty : stage[n] \in Creation =>
        /\ sessions[of[n]] = None
        /\ \A m \in Pty : stage[m] \in Creation /\ of[m] = of[n] => m = n

\* The grace timer only ever runs for a pty that nobody views, whatever joins,
\* detaches and evictions happened: it never kills a viewed terminal.
GraceHitsNoViewer == \A n \in timer : viewers[n] = {}

\* The sweep spares what is tracked, so a terminal somebody views is killed by
\* one only after the end of another pty took its place in sessions away.
ViewedIsTracked ==
    \A n \in Pty : stage[n] = "running" /\ viewers[n] # {} =>
        Tracked(n) \/ n \in evicted

\* A client never sees, or types into, the terminal of a target other than the
\* one it asked for last, unless it moved on while that pty was being created.
ViewersAskedForIt ==
    \A n \in Pty, c \in Client : Tracked(n) /\ c \in viewers[n] =>
        wants[c] = of[n] \/ n \in ghost

\* pty.ts:148-149: "Tracked/attached sessions are always skipped, so a live
\* Oracle terminal is never touched" by a sweep: what it kills has no running
\* wrapper with a connected viewer.
LiveTerminalUntouched ==
    [][\A n \in Pty : Reap(n) => n \notin proc \/ viewers[n] \cap open = {}]_vars

\* A maw-pty-* session that no connected client views, or that is not tracked
\* any more, goes away (or is viewed again), unless it was handed to a client
\* that had moved on: tmux accumulates no abandoned sessions.
Abandoned(n) ==
    /\ n \in tmuxAlive /\ n \notin creating /\ n \notin ghost
    /\ viewers[n] \cap open = {} \/ ~Tracked(n)

NoTerminalLeaks == \A n \in Pty : Abandoned(n) ~> ~Abandoned(n)
=============================================================================
