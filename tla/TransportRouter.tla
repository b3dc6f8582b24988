--------------------------- MODULE TransportRouter ---------------------------
(***************************************************************************)
(* TransportRouter.send (core/transport/transport.ts) over the transports  *)
(* it has in the order of transports/index.ts: tmux, the hub transport of  *)
(* HubTransport, the scout, http and nanoclaw.  For each in turn it asks   *)
(* whether it is connected and can reach the target, and awaits its send;  *)
(* a false answer or a retryable error makes it go on to the next.         *)
(*                                                                         *)
(* The hub decides and sends in one step, since nothing is awaited there;  *)
(* what it hands to a socket that is closing is lost, and it answers true. *)
(* The others await tmux or a peer: their send may have delivered when it  *)
(* fails, and a request may be delivered after its time-out.  Left out:    *)
(* what of scout, http and nanoclaw decides whether they reach a target.   *)
(***************************************************************************)
EXTENDS HubTransport, Naturals, Sequences

CONSTANT Message

VARIABLES target, \* where a message goes: an agent, and whether another host is named
          at,     \* the transport it has come to
          phase,  \* of the send: not called, choosing, awaiting, done
          copies, \* the transports that have delivered it, or handed it to an open socket
          loose,  \* requests that nobody waits for and that may still be delivered
          result, \* what send has returned
          lost,   \* history: the hub gave it to a socket that was closing
          passed  \* history: the hub was passed over for an agent that it knew and was up for

sendVars == <<target, at, phase, copies, loose, result, lost, passed>>
routerVars == <<vars, sendVars>>

Order == <<"tmux", "hub", "scout", "http", "nanoclaw">>
Transport == {Order[i] : i \in DOMAIN Order}
Pending == [ok |-> FALSE, via |-> "none", reason |-> "pending"]
Ok(t) == [ok |-> TRUE, via |-> t, reason |-> "none"]
Fatal(t) == [ok |-> FALSE, via |-> t, reason |-> "error"]
Unreachable == [ok |-> FALSE, via |-> "none", reason |-> "unreachable"]

RouterInit ==
    /\ HubInit
    /\ target = [m \in Message |-> [agent |-> Null, remote |-> FALSE]]
    /\ at = [m \in Message |-> 1]
    /\ phase = [m \in Message |-> "new"]
    /\ copies = [m \in Message |-> {}]
    /\ loose = [m \in Message |-> {}]
    /\ result = [m \in Message |-> Pending]
    /\ lost = {} /\ passed = {}

Now(m) == Order[at[m]]

Send(m, a, remote) ==
    /\ phase[m] = "new"
    /\ phase' = [phase EXCEPT ![m] = "choosing"]
    /\ target' = [target EXCEPT ![m] = [agent |-> a, remote |-> remote]]
    /\ UNCHANGED <<vars, at, copies, loose, result, lost, passed>>

SendReturns(m, r) ==
    /\ result' = [result EXCEPT ![m] = r]
    /\ phase' = [phase EXCEPT ![m] = "done"]
    /\ UNCHANGED at

\* Mutant: the loop does not end behind the last transport.
GoesOnForever(m) ==
    /\ at' = [at EXCEPT ![m] = @ + 1]
    /\ phase' = [phase EXCEPT ![m] = "choosing"]
    /\ UNCHANGED result

\* The next transport of the loop; behind the last one the target is unreachable.
GoesOn(m) ==
    IF at[m] = Len(Order) THEN SendReturns(m, Unreachable)
    ELSE /\ at' = [at EXCEPT ![m] = @ + 1]
         /\ phase' = [phase EXCEPT ![m] = "choosing"]
         /\ UNCHANGED result

\* canReach of the others: tmux any local target and no other, nanoclaw as it likes.
MayReach(m, t) ==
    CASE t = "tmux" -> ~target[m].remote
      [] t \in {"scout", "http"} -> target[m].remote
      [] t = "nanoclaw" -> TRUE

HasUp(a) == \E w \in joined : w \in up /\ a \in agents[w]

\* The workspaces that send tries: up, with a socket, and they know the agent.  On one that
\* is connecting conn.ws.send throws, and send goes on to the next workspace.
Tried(m) == {w \in joined : w \in up /\ ws[w] # Null /\ target[m].agent \in agents[w]}
Takers(m) == {w \in Tried(m) : sock[w][ws[w]] # "connecting"}

Choosing(m) == phase[m] = "choosing" /\ UNCHANGED <<vars, target, loose>>

\* The hub: asked and sent in one step, by the first workspace whose socket takes it, which
\* is any, since they are in the order of their files.
HubSends(m) ==
    /\ Choosing(m) /\ Now(m) = "hub" /\ CanReach(target[m].agent)
    /\ \E w \in Takers(m) :
        IF sock[w][ws[w]] = "open"
          THEN copies' = [copies EXCEPT ![m] = @ \cup {"hub"}] /\ UNCHANGED lost
          ELSE lost' = lost \cup {m} /\ UNCHANGED copies
    /\ SendReturns(m, Ok("hub")) /\ UNCHANGED passed

HubPasses(m) ==
    /\ Choosing(m) /\ Now(m) = "hub"
    /\ ~CanReach(target[m].agent) \/ Takers(m) = {}
    /\ passed' = IF HasUp(target[m].agent) THEN passed \cup {m} ELSE passed
    /\ GoesOn(m) /\ UNCHANGED <<copies, lost>>

\* One that is not connected or cannot reach the target.
Skips(m) ==
    /\ Choosing(m) /\ Now(m) # "hub"
    /\ Now(m) = "tmux" => ~MayReach(m, "tmux")
    /\ GoesOn(m)
    /\ UNCHANGED <<copies, lost, passed>>

Awaits(m) ==
    /\ Choosing(m) /\ Now(m) # "hub" /\ MayReach(m, Now(m))
    /\ phase' = [phase EXCEPT ![m] = "awaiting"]
    /\ UNCHANGED <<at, copies, result, lost, passed>>

\* tmux has typed the message, or a peer has taken the request.
Delivers(m) ==
    /\ phase[m] = "awaiting" /\ copies' = [copies EXCEPT ![m] = @ \cup {Now(m)}]
    /\ UNCHANGED <<vars, target, at, phase, loose, result, lost, passed>>

DeliversLate(m) ==
    /\ copies' = [copies EXCEPT ![m] = @ \cup loose[m]]
    /\ loose' = [loose EXCEPT ![m] = {}]
    /\ UNCHANGED <<vars, target, at, phase, result, lost, passed>>

Answers(m) ==
    /\ phase[m] = "awaiting" /\ Now(m) \in copies[m]
    /\ SendReturns(m, Ok(Now(m)))
    /\ UNCHANGED <<vars, target, copies, loose, lost, passed>>

\* A false answer, or an error that classifyError calls retryable.
SendFails(m) ==
    /\ phase[m] = "awaiting"
    /\ loose' = IF Now(m) = "tmux" THEN loose ELSE [loose EXCEPT ![m] = @ \cup {Now(m)}]
    /\ GoesOn(m)
    /\ UNCHANGED <<vars, target, copies, lost, passed>>

\* An error that is not; tmux and the scout catch theirs.
Throws(m) ==
    /\ phase[m] = "awaiting" /\ Now(m) \in {"http", "nanoclaw"}
    /\ SendReturns(m, Fatal(Now(m)))
    /\ UNCHANGED <<vars, target, copies, loose, lost, passed>>

RouterNext ==
    \/ HubNext /\ UNCHANGED sendVars
    \/ \E m \in Message :
        \/ \E a \in Agent, remote \in BOOLEAN : Send(m, a, remote)
        \/ HubSends(m) \/ HubPasses(m) \/ Skips(m) \/ Awaits(m) \/ Delivers(m) \/ DeliversLate(m)
        \/ Answers(m) \/ SendFails(m) \/ Throws(m)

RouterSpec == RouterInit /\ [][RouterNext]_routerVars

-----------------------------------------------------------------------------
\* Every variable has its type.
RouterTypeOK ==
    /\ target \in [Message -> [agent : Agent \cup {Null}, remote : BOOLEAN]]
    /\ at \in [Message -> 1..Len(Order)]
    /\ phase \in [Message -> {"new", "choosing", "awaiting", "done"}]
    /\ copies \in [Message -> SUBSET Transport]
    /\ loose \in [Message -> SUBSET Transport]
    /\ result \in [Message -> [ok : BOOLEAN, via : Transport \cup {"none"},
                               reason : {"none", "pending", "error", "unreachable"}]]
    /\ lost \subseteq Message /\ passed \subseteq Message

\* A true answer was given for a delivery, by the transport it names; the hub alone answers
\* true for a message that nobody gets, which its closing socket dropped, and what is lost so
\* is lost altogether unless an earlier transport had delivered it before it failed.
OkIsDelivered ==
    \A m \in Message :
        /\ result[m].ok => result[m].via \in copies[m] \/ m \in lost
        /\ m \in lost => /\ result[m] = Ok("hub")
                         /\ copies[m] \cup loose[m] \subseteq {"tmux"}

\* A message that was handed over a second time had been by one that failed afterwards;
\* behind the hub, which fails only when it has sent nothing, none has it from there.
TwiceOnlyAfterFailure ==
    \A m \in Message :
        /\ "hub" \in copies[m] => result[m] = Ok("hub")
        /\ \A t \in copies[m] : result[m].ok /\ t # result[m].via =>
             \E i, j \in DOMAIN Order : i < j /\ Order[i] = t /\ Order[j] = result[m].via

\* The hub is passed over for an agent that it knows and is up for only where connect()
\* returned with no promise kept, which wrote FALSE over a connection that came up late.
PassedOnlyIfOverwritten ==
    passed # {} => stage = "returned" /\ \A w \in Workspace : promise[w] # "true"

\* What a caller of send may rely on.
RouterPromise == OkIsDelivered /\ TwiceOnlyAfterFailure /\ PassedOnlyIfOverwritten
=============================================================================
