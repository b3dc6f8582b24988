---------------------------- MODULE HubTransport ----------------------------
(***************************************************************************)
(* The workspace-hub transport (transports/hub-transport.ts and            *)
(* hub-connection.ts): one connection per configured workspace, each with  *)
(* a WebSocket, a heartbeat and a reconnect timer.  Everything runs in the *)
(* handlers of socket events and timers; connect() awaits one promise per  *)
(* workspace, which the first socket's open event or a 10 s timeout        *)
(* settles.  An instance is connected once and disconnected at most once:  *)
(* resetTransportRouter drops it then.                                     *)
(*                                                                         *)
(* A socket is a Slot of its connection: connecting, open, closing when it *)
(* takes no more messages but its close event is yet to come, and free     *)
(* once that event has been handled.  The back-off of the reconnect timer  *)
(* is left out, as are the messages that change no state, and the hub      *)
(* itself, which closes sockets and announces agents as it likes.          *)
(***************************************************************************)
EXTENDS FiniteSets

CONSTANTS Workspace, Agent, Slot, Null

ASSUME HubConstants == Null \notin Slot /\ Null \notin Agent

VARIABLES joined,    \* the keys of `connections`
          connected, \* _connected
          stage,     \* connect(): not called, awaiting, returned
          promise,   \* what connectWorkspace has resolved to
          timeout,   \* the workspaces whose connect timeout is armed
          first,     \* the socket of each that has onFirstConnect
          sock,      \* the sockets of each workspace's connection
          ws,        \* conn.ws
          up,        \* conn.connected
          beat,      \* conn.heartbeatTimer
          timer,     \* conn.reconnectTimer
          agents     \* conn.remoteAgents

callVars == <<stage, promise, timeout>>
vars == <<joined, connected, callVars, first, sock, ws, up, beat, timer, agents>>

HubInit ==
    /\ joined = {} /\ connected = FALSE
    /\ stage = "new"
    /\ promise = [w \in Workspace |-> "none"]
    /\ timeout = {}
    /\ first = [w \in Workspace |-> Null]
    /\ sock = [w \in Workspace |-> [s \in Slot |-> "free"]]
    /\ ws = [w \in Workspace |-> Null]
    /\ up = {} /\ beat = {} /\ timer = {}
    /\ agents = [w \in Workspace |-> {}]

Live == {"connecting", "open", "closing"}

\* The sockets of a connection after ws.close(): its close event is yet to come.
AfterClose(w) ==
    [s \in Slot |-> IF s = ws[w] /\ sock[w][s] # "free" THEN "closing" ELSE sock[w][s]]

\* conn.connected of a joined workspace (updateConnectedState).
AnyUp(W, U) == \E w \in W : w \in U

-----------------------------------------------------------------------------
\* connect(): every workspace gets a connection and a first socket.  Where the
\* WebSocket constructor throws, a reconnect is scheduled instead.
Connect ==
    /\ stage = "new"
    /\ stage' = "awaiting"
    /\ joined' = Workspace
    /\ promise' = [w \in Workspace |-> "pending"]
    /\ timeout' = Workspace
    /\ \E s \in Slot, thrown \in SUBSET Workspace :
        LET given == [w \in Workspace |-> IF w \in thrown THEN Null ELSE s]
        IN /\ ws' = given /\ first' = given
           /\ sock' = [w \in Workspace |-> [i \in Slot |->
                         IF i = given[w] THEN "connecting" ELSE "free"]]
           /\ timer' = thrown
    /\ UNCHANGED <<connected, up, beat, agents>>

\* Mutant: the connect timeout is cleared, but the promise is not resolved.
OpenedUnresolved(w, s) ==
    /\ sock[w][s] = "connecting"
    /\ sock' = [sock EXCEPT ![w][s] = "open"]
    /\ up' = up \cup {w}
    /\ beat' = beat \cup {w}
    /\ connected' = TRUE
    /\ timeout' = IF first[w] = s THEN timeout \ {w} ELSE timeout
    /\ UNCHANGED <<joined, stage, promise, first, ws, timer, agents>>

\* Mutant: _connected is left to connect().
OpenedUnnoticed(w, s) ==
    /\ sock[w][s] = "connecting"
    /\ sock' = [sock EXCEPT ![w][s] = "open"]
    /\ up' = up \cup {w}
    /\ beat' = beat \cup {w}
    /\ timeout' = IF first[w] = s THEN timeout \ {w} ELSE timeout
    /\ promise' = IF first[w] = s /\ promise[w] = "pending"
                  THEN [promise EXCEPT ![w] = "true"] ELSE promise
    /\ UNCHANGED <<joined, connected, stage, first, ws, timer, agents>>

\* The open event of a socket; onFirstConnect belongs to the first one only.
Opened(w, s) ==
    /\ sock[w][s] = "connecting"
    /\ sock' = [sock EXCEPT ![w][s] = "open"]
    /\ up' = up \cup {w}
    /\ beat' = beat \cup {w}
    /\ connected' = TRUE
    /\ timeout' = IF first[w] = s THEN timeout \ {w} ELSE timeout
    /\ promise' = IF first[w] = s /\ promise[w] = "pending"
                  THEN [promise EXCEPT ![w] = "true"] ELSE promise
    /\ UNCHANGED <<joined, stage, first, ws, timer, agents>>

\* Messages from the hub arrive on an open socket.
Receive(w, known) ==
    /\ \E s \in Slot : sock[w][s] = "open"
    /\ agents' = [agents EXCEPT ![w] = known]
    /\ UNCHANGED <<joined, connected, callVars, first, sock, ws, up, beat, timer>>

AuthOk(w, A)   == Receive(w, A)
Presence(w, A) == Receive(w, agents[w] \cup A)
NodeLeft(w, A) == Receive(w, agents[w] \ A)

\* The other side, or a failing network, begins to close an open socket: its readyState is
\* CLOSING, of which nobody is told, and conn.connected holds until the close event.
Closing(w, s) ==
    /\ sock[w][s] = "open"
    /\ sock' = [sock EXCEPT ![w][s] = "closing"]
    /\ UNCHANGED <<joined, connected, callVars, first, ws, up, beat, timer, agents>>

\* What the close event does to the socket that is closed, or that failed to open.
Gone(w, s) ==
    /\ sock[w][s] \in Live
    /\ sock' = [sock EXCEPT ![w][s] = "free"]
    /\ first' = IF first[w] = s THEN [first EXCEPT ![w] = Null] ELSE first
    /\ UNCHANGED <<joined, callVars, ws, agents>>

\* Mutants: no reconnect; the connection stays "connected"; _connected is not
\* updated.
ClosedForGood(w, s) ==
    /\ Gone(w, s)
    /\ up' = up \ {w} /\ beat' = beat \ {w}
    /\ connected' = AnyUp(joined, up \ {w})
    /\ UNCHANGED timer
ClosedStaysUp(w, s) ==
    /\ Gone(w, s)
    /\ beat' = beat \ {w}
    /\ connected' = AnyUp(joined, up)
    /\ timer' = timer \cup {w}
    /\ UNCHANGED up
ClosedUnnoticed(w, s) ==
    /\ Gone(w, s)
    /\ up' = up \ {w} /\ beat' = beat \ {w}
    /\ timer' = timer \cup {w}
    /\ UNCHANGED connected

\* The close event of a socket, whichever of the connection's sockets it is.
Closed(w, s) ==
    /\ Gone(w, s)
    /\ up' = up \ {w} /\ beat' = beat \ {w}
    /\ connected' = AnyUp(joined, up \ {w})
    /\ timer' = timer \cup {w}

\* The reconnect timer: the old socket is closed and a new one opened, which has
\* no onFirstConnect ...
Reopen(w) ==
    /\ w \in timer
    /\ \E s \in Slot :
        /\ sock[w][s] = "free"
        /\ sock' = [sock EXCEPT ![w] = [AfterClose(w) EXCEPT ![s] = "connecting"]]
        /\ ws' = [ws EXCEPT ![w] = s]
    /\ timer' = timer \ {w}
    /\ UNCHANGED <<joined, connected, callVars, first, up, beat, agents>>

\* Mutant: the catch block does not schedule.
ReopenThrowsOnce(w) ==
    /\ w \in timer
    /\ sock' = [sock EXCEPT ![w] = AfterClose(w)]
    /\ timer' = timer \ {w}
    /\ UNCHANGED <<joined, connected, callVars, first, ws, up, beat, agents>>

\* ... or the constructor throws, and the reconnect is scheduled again.
ReopenThrows(w) ==
    /\ w \in timer
    /\ sock' = [sock EXCEPT ![w] = AfterClose(w)]
    /\ UNCHANGED <<joined, connected, callVars, first, ws, up, beat, timer, agents>>

\* The connect timeout resolves to false, but not if the connection is up by now.
TimesOut(w) ==
    /\ w \in timeout
    /\ timeout' = timeout \ {w}
    /\ promise' = IF w \notin up THEN [promise EXCEPT ![w] = "false"] ELSE promise
    /\ UNCHANGED <<joined, connected, stage, first, sock, ws, up, beat, timer, agents>>

\* Promise.allSettled: connect() sets _connected to what the promises said.
ConnectReturns ==
    /\ stage = "awaiting"
    /\ \A w \in Workspace : promise[w] # "pending"
    /\ stage' = "returned"
    /\ connected' = \E w \in Workspace : promise[w] = "true"
    /\ UNCHANGED <<joined, promise, timeout, first, sock, ws, up, beat, timer, agents>>

\* disconnect(): cleanupConnection of every connection.
Disconnect ==
    /\ joined # {}
    /\ joined' = {} /\ connected' = FALSE
    /\ beat' = beat \ joined /\ timer' = timer \ joined /\ up' = up \ joined
    /\ sock' = [w \in Workspace |-> IF w \in joined THEN AfterClose(w) ELSE sock[w]]
    /\ ws' = [w \in Workspace |-> IF w \in joined THEN Null ELSE ws[w]]
    /\ UNCHANGED <<callVars, first, agents>>

HubNext ==
    \/ Connect \/ ConnectReturns \/ Disconnect
    \/ \E w \in Workspace : Reopen(w) \/ ReopenThrows(w) \/ TimesOut(w)
    \/ \E w \in Workspace, s \in Slot : Opened(w, s) \/ Closing(w, s) \/ Closed(w, s)
    \/ \E w \in Workspace, A \in SUBSET Agent :
        AuthOk(w, A) \/ Presence(w, A) \/ NodeLeft(w, A)

HubSpec == HubInit /\ [][HubNext]_vars

\* Timers fire, and a socket that closes gets its close event.  Of the world outside: the
\* constructor does not throw for ever, and a hub that is tried again and again accepts a
\* connection at last.
Fairness ==
    \A w \in Workspace :
        /\ SF_vars(Reopen(w))
        /\ SF_vars(\E s \in Slot : Opened(w, s))
        /\ WF_vars(\E s \in Slot : sock[w][s] # "open" /\ Closed(w, s))

FairHubSpec == HubSpec /\ Fairness

-----------------------------------------------------------------------------
\* Every variable has its type.
HubTypeOK ==
    /\ joined \subseteq Workspace /\ connected \in BOOLEAN
    /\ stage \in {"new", "awaiting", "returned"}
    /\ promise \in [Workspace -> {"none", "pending", "true", "false"}]
    /\ timeout \subseteq Workspace
    /\ first \in [Workspace -> Slot \cup {Null}]
    /\ sock \in [Workspace -> [Slot -> Live \cup {"free"}]]
    /\ ws \in [Workspace -> Slot \cup {Null}]
    /\ up \subseteq Workspace /\ beat \subseteq Workspace /\ timer \subseteq Workspace
    /\ agents \in [Workspace -> SUBSET Agent]

IsLive(w, s) == sock[w][s] \in Live

\* hub.ts:13, "Opens one WebSocket per workspace.  Reconnects automatically":
\* a connection never has two sockets, nor a socket beside a reconnect timer, not
\* even after disconnect(); and one that is joined has one or the other.
OneAttempt ==
    \A w \in Workspace :
        /\ \A s, r \in Slot : IsLive(w, s) /\ IsLive(w, r) => s = r
        /\ w \in timer => \A s \in Slot : ~IsLive(w, s)
        /\ w \in joined => w \in timer \/ \E s \in Slot : IsLive(w, s)

\* canReach looks at `connected` alone, send at conn.ws too and then calls its send, which
\* throws on a socket that is connecting and drops the message on one that closes.
CanReach(a) == connected /\ \E w \in joined : w \in up /\ a \in agents[w]

\* What canReach promises, send writes to a socket that has been open: never to none, nor to
\* one of a reconnect that is under way.  It is open still, or it is closing and the only one
\* of its workspace, with no reconnect on the way before its close event has been handled.
ReachableCanBeSent ==
    \A a \in Agent : CanReach(a) =>
        \A w \in joined : w \in up /\ a \in agents[w] =>
            /\ ws[w] # Null
            /\ \/ sock[w][ws[w]] = "open"
               \/ /\ sock[w][ws[w]] = "closing" /\ w \notin timer
                  /\ \A s \in Slot \ {ws[w]} : ~IsLive(w, s)

\* A connection has a heartbeat exactly while it is up: no interval outlives its
\* socket, and no open socket is silent.
BeatsWhileUp ==
    /\ beat = up
    /\ \A w \in Workspace, s \in Slot : sock[w][s] = "open" => w \in beat

\* connect() waits for a workspace beyond the timeout only if its first socket
\* failed and a later one, which cannot settle the promise, was up by then.
PendingOnlyIfReconnected ==
    \A w \in Workspace :
        promise[w] = "pending" => w \in timeout \/ first[w] = Null

\* transport.ts:101, "Whether the transport is currently connected".
StatusIsRight == connected <=> AnyUp(joined, up)

\* It is right until connect() overwrites it with what its promises once said, or
\* a connection that disconnect() dropped comes up; no other step falsifies it.
OnlyTheseFalsifyStatus ==
    [][StatusIsRight /\ ~StatusIsRight' =>
         \/ ConnectReturns
         \/ \E w \in Workspace \ joined, s \in Slot : Opened(w, s)]_vars

\* A workspace that is down, or is called connected while its socket closes, comes to have
\* an open socket again, if its hub can be reached.
ComesBack ==
    \A w \in Workspace :
        w \in joined ~> w \notin joined \/ \E s \in Slot : sock[w][s] = "open"
=============================================================================
