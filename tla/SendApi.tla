------------------------------- MODULE SendApi -------------------------------
(***************************************************************************)
(* The receiving end of `maw hey`: POST /api/send (api/sessions.ts) and    *)
(* the receiver's inbox (commands/shared/receiver-inbox.ts).  A call is    *)
(* one run of cmdSend; it makes at most one request on each leg, the one   *)
(* to the peer it resolved and the one to a peer it discovered.  What a    *)
(* request carries is its call's `op`, which does not change under way.    *)
(*                                                                         *)
(* Whether a pane is live, tmux answers or the receiver has a repository   *)
(* for its inbox is the environment's: every outcome is allowed.           *)
(***************************************************************************)
EXTENDS Naturals

CONSTANTS Call, None

Leg == {"peer", "discovery"}
Request == Call \X Leg

VARIABLES op,       \* what each call sends: kind, msg, gate, inboxOnly, team
          landed,   \* how often a call's message was submitted to a live pane
          filed,    \* the calls whose message is in an inbox
          overwritten,  \* history: those whose file a later message has replaced
          request   \* none, sent, or what the handler answered

inbox == <<filed, overwritten>>
apiVars == <<landed, inbox, request>>

ApiInit ==
    /\ landed = [c \in Call |-> 0]
    /\ filed = {}
    /\ overwritten = {}
    /\ request = [q \in Request |-> "none"]

-----------------------------------------------------------------------------
\* persistReceiverInbox; FALSE when the writer is off, no repository is found, or
\* the write fails.  The file is named for its sender, minute and first six words: it
\* replaces those of earlier messages that are alike in them.
FileUnder(c, written) ==
    IF written
      THEN \E alike \in SUBSET (filed \ {c}) :
             /\ filed' = (filed \ alike) \cup {c}
             /\ overwritten' = overwritten \cup alike
      ELSE UNCHANGED inbox

Inject(c) == landed' = [landed EXCEPT ![c] = @ + 1]

\* Every failure of a request is an "error" to its sender, whatever the status.
Answer(q, a) ==
    /\ request[q] = "sent"
    /\ request' = [request EXCEPT ![q] = a]

\* Resolved here and still live: the keys are sent and a copy filed if it can be.
\* A busy prompt makes the pane's program queue what was typed.
ServeLive(q) ==
    /\ ~op[q[1]].inboxOnly
    /\ \E a \in {"delivered", "queued"} : Answer(q, a)
    /\ Inject(q[1])
    /\ \E written \in BOOLEAN : FileUnder(q[1], written)

\* Mutant: the handler says "queued" whatever came of the inbox.
ServeQueuedBlindly(q) ==
    /\ Answer(q, "queued")
    /\ \E written \in BOOLEAN : FileUnder(q[1], written)
    /\ UNCHANGED landed

\* queueOrFail, and the last resort of a miss: not live, --inbox, tmux failed, or not
\* found at all.  The message goes to the inbox, or the answer is 502 or 404.
ServeQueued(q) ==
    /\ \E written \in BOOLEAN :
        /\ Answer(q, IF written THEN "queued" ELSE "error")
        /\ FileUnder(q[1], written)
    /\ UNCHANGED landed

\* Unknown here but in the fleet: wake, resolve once more, send.  This answer has no
\* state in it.
ServeWoken(q) ==
    /\ ~op[q[1]].inboxOnly
    /\ Answer(q, "unstated")
    /\ Inject(q[1])
    /\ \E written \in BOOLEAN : FileUnder(q[1], written)

\* Forwarded to a node resolved or discovered, which does one of the above.  A state
\* that is not "delivered" is passed on as "queued"; when the connection fails, or
\* after ten seconds, the answer is 502, whatever the other node did.
ServeForward(q) ==
    \E typed, written \in BOOLEAN, a \in {"delivered", "queued", "error"} :
        /\ typed => ~op[q[1]].inboxOnly
        /\ a = "delivered" => typed
        /\ a = "queued" => typed \/ written
        /\ Answer(q, a)
        /\ IF typed THEN Inject(q[1]) ELSE UNCHANGED landed
        /\ FileUnder(q[1], written)

ApiNext ==
    /\ \E q \in Request :
        ServeLive(q) \/ ServeQueued(q) \/ ServeWoken(q) \/ ServeForward(q)
    /\ UNCHANGED op
=============================================================================
