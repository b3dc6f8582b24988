--------------------------------- MODULE Hey ---------------------------------
(***************************************************************************)
(* cmdSend (commands/shared/comm-send.ts): one call resolves its target,   *)
(* wakes it, passes the scope gate and the consent gate, and then types    *)
(* into a local pane, posts to a peer, looks for a peer that has the       *)
(* target, or falls back to the inbox.  A call that fails exits; inside a  *)
(* fan-out to a team process.exit is replaced by a function that only      *)
(* takes a note, so the call goes on behind the exit.  An outcome is that  *)
(* of one member; the tally printed at the end, which counts a held or a   *)
(* queued member as delivered, is left out.                                *)
(*                                                                         *)
(* How a target is resolved is not modelled: a call may always find its    *)
(* target here, at a peer, or not at all.  Likewise the scopes, the trust  *)
(* list and consent, which other commands change at any time, may give     *)
(* either verdict each time they are asked.                                *)
(***************************************************************************)
EXTENDS SendApi

CONSTANT Sender  \* the calls that may be a `maw hey`

VARIABLES pc, outcome,
          route,     \* local, peer or miss, once resolved
          pending    \* status of the queue record of each call's message

heyVars == <<op, pc, outcome, route, pending>>
vars == <<apiVars, heyVars>>

NoOp == [kind |-> "none", msg |-> None, ask |-> FALSE, inboxOnly |-> FALSE, team |-> FALSE]

HeyInit ==
    /\ ApiInit
    /\ op = [c \in Call |-> NoOp]
    /\ pc = [c \in Call |-> "idle"]
    /\ outcome = [c \in Call |-> "none"]
    /\ route = [c \in Call |-> "none"]
    /\ pending = [m \in Call |-> "none"]

At(c, s) == pc[c] = s
Goto(c, s) == pc' = [pc EXCEPT ![c] = s]
Message(c) == op[c].msg

\* Once a fan-out has noted a failure, the member counts as failed.
Reports(c, o) == outcome' = [outcome EXCEPT ![c] = IF @ = "failed" THEN @ ELSE o]

\* cmdSend returns to its caller, or an error is thrown through it.
Returns(c, o) ==
    /\ Goto(c, IF op[c].kind = "approve" THEN "returned" ELSE "done")
    /\ Reports(c, o)
Throws(c) == Goto(c, "done") /\ Reports(c, "failed")

\* process.exit(1).
Exits(c, next) ==
    /\ Goto(c, IF op[c].team THEN next ELSE "done")
    /\ Reports(c, "failed")

\* Nothing but the call's own progress.
OnlyPc == UNCHANGED <<apiVars, op, route, pending>>

-----------------------------------------------------------------------------
\* `maw hey`, alone or for one member of a team; with --approve it asks no gate.
StartHey(c) ==
    /\ At(c, "idle") /\ c \in Sender /\ Goto(c, "resolve")
    /\ \E a, i, t \in BOOLEAN :
        op' = [op EXCEPT ![c] =
                [kind |-> "hey", msg |-> c, ask |-> a, inboxOnly |-> i, team |-> t]]
    /\ UNCHANGED <<apiVars, outcome, route, pending>>

\* The target is awake, or was woken, and is resolved.
Resolve(c) ==
    /\ At(c, "resolve") /\ Goto(c, "gate")
    /\ \E r \in {"local", "peer", "miss"} : route' = [route EXCEPT ![c] = r]
    /\ UNCHANGED <<apiVars, op, outcome, pending>>

\* A bare name that no local window has, or more than one, or a peer whose /api/wake
\* fails.  Behind the exit a fan-out may wake the name and find it all the same, or
\* throw over an ambiguous one.
ResolveFails(c) ==
    /\ At(c, "resolve") /\ (Exits(c, "gate") \/ Throws(c))
    /\ \E r \in {"local", "peer", "miss"} : route' = [route EXCEPT ![c] = r]
    /\ UNCHANGED <<apiVars, op, pending>>

\* The gate puts the message into the queue for approval; cmdSend returns.
Hold(c) ==
    /\ At(c, "gate") /\ route[c] = "peer" /\ op[c].ask
    /\ pending' = [pending EXCEPT ![Message(c)] = "pending"]
    /\ Returns(c, "held")
    /\ UNCHANGED <<apiVars, op, route>>

\* Mutant: the held message is sent as well.
PassGateHeld(c) ==
    /\ At(c, "gate") /\ Goto(c, "consent") /\ UNCHANGED <<outcome, apiVars, op, route>>
    /\ pending' = [pending EXCEPT ![Message(c)] = "pending"]

\* Allowed, not asked, or the evaluation failed.
PassGate(c) == At(c, "gate") /\ Goto(c, "consent") /\ UNCHANGED outcome /\ OnlyPc

\* The consent gate is off or lets the message through, or it sends the user away.
Consented(c) == At(c, "consent") /\ Goto(c, "deliver") /\ UNCHANGED outcome /\ OnlyPc
Denied(c) ==
    /\ At(c, "consent") /\ route[c] = "peer"
    /\ Exits(c, "deliver") /\ OnlyPc

\* --inbox to a local target: the inbox only.
FileLocal(c) ==
    /\ At(c, "deliver") /\ route[c] = "local" /\ op[c].inboxOnly
    /\ \/ FileUnder(c, TRUE) /\ Returns(c, "queued")
       \/ FileUnder(c, FALSE) /\ Exits(c, "keys")
    /\ UNCHANGED <<landed, request, op, route, pending>>

\* Keys to a local pane, then a copy to the inbox, then the hook; a config without a
\* node name throws after all that.
TypeLocal(c) ==
    /\ \/ At(c, "deliver") /\ route[c] = "local" /\ ~op[c].inboxOnly
       \/ At(c, "keys")
    /\ \/ /\ Inject(c) /\ \E written \in BOOLEAN : FileUnder(c, written)
          /\ Returns(c, "delivered") \/ Throws(c)
       \/ UNCHANGED <<landed, inbox>> /\ Throws(c)
    /\ UNCHANGED <<request, op, route, pending>>

Posts(c, leg) ==
    /\ request' = [request EXCEPT ![<<c, leg>>] = "sent"]
    /\ Goto(c, leg)
    /\ UNCHANGED <<landed, inbox, op, outcome, route, pending>>

PostPeer(c) == At(c, "deliver") /\ route[c] = "peer" /\ Posts(c, "peer")

\* Mutant: an answer of any kind is taken for success.
AcceptedUnread(c, leg) ==
    /\ At(c, leg) /\ request[<<c, leg>>] # "sent"
    /\ Returns(c, IF request[<<c, leg>>] = "delivered" THEN "delivered" ELSE "queued")
    /\ OnlyPc

\* The peer took the message; a state that is not "delivered" reads as "queued".
Accepted(c, leg) ==
    /\ At(c, leg) /\ request[<<c, leg>>] \in {"delivered", "queued", "unstated"}
    /\ Returns(c, IF request[<<c, leg>>] = "delivered" THEN "delivered" ELSE "queued")
    /\ OnlyPc

\* Mutant: a request that failed is made again on the discovered route.
RefusedRetries(c, leg) ==
    /\ At(c, leg)
    /\ Goto(c, IF leg = "peer" THEN "discover" ELSE "inbox") /\ UNCHANGED outcome
    /\ OnlyPc

\* An answer that is not ok, no connection, or none in ten seconds.  The handler
\* at the other end goes on all the same.
Refused(c, leg) ==
    /\ At(c, leg)
    /\ Exits(c, IF leg = "peer" THEN "discover" ELSE "inbox")
    /\ OnlyPc

\* findPeerForTarget: the slow path of a miss.
Discover(c) ==
    /\ \/ At(c, "discover")
       \/ At(c, "deliver") /\ route[c] = "miss"
    /\ \/ Posts(c, "discovery")
       \/ Goto(c, "inbox") /\ UNCHANGED outcome /\ OnlyPc

\* Nobody has it: the inbox, or an error at last.
LastResort(c) ==
    /\ At(c, "inbox")
    /\ \/ FileUnder(c, TRUE) /\ Returns(c, "queued")
       \/ FileUnder(c, FALSE) /\ Exits(c, "done")
    /\ UNCHANGED <<landed, request, op, route, pending>>

HeyStep(c) ==
    \/ StartHey(c) \/ Resolve(c) \/ ResolveFails(c) \/ Hold(c) \/ PassGate(c)
    \/ Consented(c) \/ Denied(c) \/ FileLocal(c) \/ TypeLocal(c) \/ PostPeer(c)
    \/ \E leg \in Leg : Accepted(c, leg) \/ Refused(c, leg)
    \/ Discover(c) \/ LastResort(c)

-----------------------------------------------------------------------------
Arrived(c) == landed[c] > 0 \/ c \in filed \cup overwritten

\* What the command tells its user is so: "delivered" was typed into a pane, "queued"
\* was typed, or filed and is there still, unless a message alike has replaced it
\* (receiver-inbox.ts:200).
SuccessIsTrue ==
    \A c \in Call :
        /\ outcome[c] = "delivered" => landed[c] > 0
        /\ outcome[c] = "queued" => Arrived(c)

\* A failure may be reported of a message that has arrived, but only where a request
\* was made and its answer was lost or refused, where a local send threw afterwards,
\* or behind an exit of a fan-out.
FailureIsTrueUnless ==
    \A c \in Call : outcome[c] = "failed" /\ Arrived(c) =>
        \/ op[c].team
        \/ \E leg \in Leg : request[<<c, leg>>] # "none"
        \/ route[c] = "local" /\ ~op[c].inboxOnly

\* One run of the command submits its message once, unless it went on behind an exit.
OnceUnlessFanOut == \A c \in Call : landed[c] > 1 => op[c].team

\* The report of one call is honest: comm-send.ts prints "delivered", "queued" or an
\* error, and the user decides by it whether to send again.
ReportIsHonest == SuccessIsTrue /\ FailureIsTrueUnless /\ OnceUnlessFanOut
=============================================================================
