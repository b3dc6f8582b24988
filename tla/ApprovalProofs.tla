--------------------------- MODULE ApprovalProofs ---------------------------
(***************************************************************************)
(* What `maw hey` reports is so, and what the scope gate holds waits for   *)
(* its verdict: for every set of calls, of which any may be messages, runs *)
(* for a team, approvals and rejections, with any number of deaths.        *)
(***************************************************************************)
EXTENDS Approval, TLAPS

Underway == {"resolve", "gate", "consent", "deliver", "keys", "peer", "discovery", "discover",
             "inbox", "returned"}
Marking == {"approving", "rejecting"}
Places == {"idle", "approve", "reject", "discard", "done", "dead"} \cup Marking \cup Underway

Ops == [kind : {"none", "hey", "approve", "reject"}, msg : Call \cup {None},
        ask : BOOLEAN, inboxOnly : BOOLEAN, team : BOOLEAN]

\* Every variable has its type.
ApprovalTypes ==
    /\ op \in [Call -> Ops]
    /\ pc \in [Call -> Places]
    /\ outcome \in [Call -> {"none", "held", "delivered", "queued", "failed"}]
    /\ route \in [Call -> {"none", "local", "peer", "miss"}]
    /\ pending \in [Call -> {"none", "pending", "approved", "rejected"}]
    /\ landed \in [Call -> Nat]
    /\ filed \subseteq Call /\ overwritten \subseteq Call
    /\ request \in [Request -> {"none", "sent", "delivered", "queued", "unstated", "error"}]
    /\ contested \subseteq Call

\* The places of a call are those of its kind; what it is about is a message; and only a
\* `maw hey` is held, or goes on behind an exit for its team.
Roles(c) ==
    /\ op[c].kind = "none" <=> At(c, "idle")
    /\ op[c].kind # "none" => op[c].msg \in Call
    /\ op[c].kind = "hey" => op[c].msg = c /\ pc[c] \in (Underway \ {"returned"}) \cup {"done"}
    /\ op[c].kind = "approve" => pc[c] \in Underway \cup {"approve", "approving", "done", "dead"}
    /\ op[c].kind = "reject" => pc[c] \in {"reject", "rejecting", "discard", "done", "dead"}
    /\ op[c].kind # "hey" => ~op[c].ask /\ ~op[c].team
    /\ pc[c] \in {"keys", "discover"} => op[c].team

Posted(c) == \E leg \in Leg : request[<<c, leg>>] # "none"

\* A call that has yet to deliver has sent nothing.
Early == {"idle", "resolve", "gate", "consent", "deliver", "approve", "approving", "reject",
          "rejecting", "discard"}
NotYet(c) == pc[c] \in Early => ~Posted(c) /\ ~Arrived(c)

\* Without a team behind it, nor has one that falls back to the inbox; it has no outcome
\* before it is over; what reached its receiver without a request it reports at once; and
\* it makes one request, which is not served again.
Single(c) ==
    ~op[c].team =>
        /\ At(c, "inbox") => ~Posted(c) /\ ~Arrived(c)
        /\ pc[c] \notin {"returned", "done", "dead"} => outcome[c] = "none"
        /\ Arrived(c) /\ ~Posted(c) =>
             /\ pc[c] \in {"returned", "done", "dead"}
             /\ outcome[c] = "failed" => route[c] = "local" /\ ~op[c].inboxOnly
        /\ \A leg, other \in Leg :
             request[<<c, leg>>] # "none" /\ request[<<c, other>>] # "none" => leg = other
        /\ landed[c] > 0 => \A leg \in Leg : request[<<c, leg>>] # "sent"
        /\ landed[c] <= 1

\* What an answer says is so, what is over with "held" was not sent, and an approval that
\* has returned has sent its message.
Truthful(c) ==
    /\ \A leg \in Leg :
        /\ request[<<c, leg>>] = "delivered" => landed[c] > 0
        /\ request[<<c, leg>>] \in {"queued", "unstated"} => Arrived(c)
    /\ At(c, "peer") => request[<<c, "peer">>] # "none"
    /\ At(c, "discovery") => request[<<c, "discovery">>] # "none"
    /\ outcome[c] = "delivered" => landed[c] > 0
    /\ outcome[c] = "queued" => Arrived(c)
    /\ outcome[c] = "held" => At(c, "done") /\ ~Posted(c) /\ ~Arrived(c)
    /\ At(c, "returned") => Arrived(c) /\ outcome[c] # "failed"

CallInv(c) == Roles(c) /\ NotYet(c) /\ Single(c) /\ Truthful(c)

\* An approval that has marked its record, or has sent something since.
Acted(c) == pc[c] \in Underway \/ Posted(c) \/ Arrived(c)

\* An approval that has read its record and not marked it yet.
Deciding(c) == pc[c] \in {"approve", "approving"}

Verdict(c, m) == About(c, "approve", m) \/ About(c, "reject", m)

\* A rejection that marked its record, or found it marked.
Refuses(r, m) ==
    About(r, "reject", m) /\ (At(r, "discard") \/ (At(r, "done") /\ outcome[r] # "failed"))

\* A message is on the queue, or has verdicts, once its own call is over; until they overlap
\* or a rejection replaces an approval, the first that is marked is the only one.
QueueInv(m) ==
    /\ (pending[m] # "none" \/ \E c \in Call : Verdict(c, m)) =>
         op[m].kind = "hey" /\ At(m, "done")
    /\ m \notin contested =>
        /\ \A c \in Approvals(m) : Acted(c) =>
             /\ pending[m] \in {"approved", "none"}
             /\ \A d \in Approvals(m) \ {c} : ~Deciding(d) /\ ~Acted(d)
        /\ (pending[m] = "rejected" \/ \E r \in Call : Refuses(r, m)) =>
             /\ pending[m] \in {"rejected", "none"}
             /\ \A c \in Approvals(m) : ~Deciding(c) /\ ~Acted(c)

\* The draft of a record: an approval that wrote it is about to rename it, or is dead; and
\* until verdicts overlap who is about to rename it is alone and finds its own.
DraftInv(m) ==
    /\ draft[m] = "approved" => \E a \in Approvals(m) : pc[a] \in {"approving", "dead"}
    /\ m \notin contested => \A c \in Call : op[c].msg = m /\ pc[c] \in Marking =>
        /\ draft[m] = IF pc[c] = "approving" THEN "approved" ELSE "rejected"
        /\ \A d \in Call \ {c} : op[d].msg = m => pc[d] \notin Marking

Statuses == {"none", "approved", "rejected"}

ApprovalInv ==
    /\ ApprovalTypes
    /\ \A c \in Call : CallInv(c)
    /\ \A m \in Call : QueueInv(m)
    /\ draft \in [Call -> Statuses] /\ \A m \in Call : DraftInv(m)
    /\ ApprovedIsInHand

-----------------------------------------------------------------------------
(* What a step does to the call that takes it, and to the others. *)

\* The step is one of call c: it changes nothing of any other.
Alone(c) ==
    \A d \in Call \ {c} :
        /\ op'[d] = op[d] /\ pc'[d] = pc[d] /\ outcome'[d] = outcome[d] /\ route'[d] = route[d]
        /\ landed'[d] = landed[d]
        /\ \A leg \in Leg : request'[<<d, leg>>] = request[<<d, leg>>]
        /\ Arrived(d)' <=> Arrived(d)

LEMMA OthersKeep ==
    ASSUME NEW c \in Call, Alone(c), \A d \in Call : CallInv(d)
    PROVE  \A d \in Call \ {c} : CallInv(d)'
<1> SUFFICES ASSUME NEW d \in Call \ {c} PROVE CallInv(d)'
  OBVIOUS
<1>1. /\ op'[d] = op[d] /\ pc'[d] = pc[d] /\ outcome'[d] = outcome[d] /\ route'[d] = route[d]
      /\ landed'[d] = landed[d] /\ \A leg \in Leg : request'[<<d, leg>>] = request[<<d, leg>>]
      /\ Arrived(d)' <=> Arrived(d)
  BY DEF Alone
<1>2. Posted(d)' <=> Posted(d)
  BY <1>1 DEF Posted
<1>3. CallInv(d)
  OBVIOUS
<1>4. Roles(d)'
  BY <1>1, <1>3 DEF CallInv, Roles, At
<1>5. NotYet(d)'
  BY <1>1, <1>2, <1>3 DEF CallInv, NotYet
<1>6. Single(d)'
  BY <1>1, <1>2, <1>3 DEF CallInv, Single, At
<1>7. Truthful(d)'
  <2>1. "peer" \in Leg /\ "discovery" \in Leg
    BY DEF Leg
  <2> QED
    BY <1>1, <1>2, <1>3, <2>1 DEF CallInv, Truthful, At
<1> QED
  BY <1>4, <1>5, <1>6, <1>7 DEF CallInv

\* A message that is filed stays in the inbox or becomes one that was replaced.
LEMMA Files ==
    ASSUME ApprovalTypes, NEW c \in Call, NEW written \in BOOLEAN, FileUnder(c, written)
    PROVE  /\ filed' \subseteq Call /\ overwritten' \subseteq Call
           /\ \A d \in Call \ {c} :
                d \in filed' \cup overwritten' <=> d \in filed \cup overwritten
           /\ c \in filed' \cup overwritten' <=> written \/ c \in filed \cup overwritten
<1>1. CASE written
  BY <1>1 DEF FileUnder, ApprovalTypes
<1>2. CASE ~written
  BY <1>2 DEF FileUnder, ApprovalTypes, inbox
<1> QED
  BY <1>1, <1>2

LEMMA Injects ==
    ASSUME ApprovalTypes, NEW c \in Call, Inject(c)
    PROVE  /\ landed' \in [Call -> Nat] /\ landed'[c] = landed[c] + 1
           /\ \A d \in Call \ {c} : landed'[d] = landed[d]
BY DEF ApprovalTypes, Inject

LEMMA Pairs ==
    /\ \A c \in Call, leg \in Leg : <<c, leg>> \in Request
    /\ \A c, d \in Call, leg, other \in Leg : <<c, leg>> = <<d, other>> => c = d /\ leg = other
BY DEF Request

LEMMA PostsEffect ==
    ASSUME ApprovalTypes, NEW c \in Call, NEW leg \in Leg, Posts(c, leg)
    PROVE  /\ request' \in [Request -> {"none", "sent", "delivered", "queued", "unstated", "error"}]
           /\ request'[<<c, leg>>] = "sent"
           /\ \A other \in Leg \ {leg} : request'[<<c, other>>] = request[<<c, other>>]
           /\ \A d \in Call \ {c}, other \in Leg : request'[<<d, other>>] = request[<<d, other>>]
           /\ pc' = [pc EXCEPT ![c] = leg]
           /\ UNCHANGED <<landed, filed, overwritten, op, outcome, route, pending>>
BY Pairs DEF ApprovalTypes, Posts, Goto, inbox

\* The same of an answer.
LEMMA AnswerEffect ==
    ASSUME ApprovalTypes, NEW c \in Call, NEW leg \in Leg,
           NEW a \in {"delivered", "queued", "unstated", "error"}, Answer(<<c, leg>>, a)
    PROVE  /\ request' \in [Request -> {"none", "sent", "delivered", "queued", "unstated", "error"}]
           /\ request[<<c, leg>>] = "sent" /\ request'[<<c, leg>>] = a
           /\ \A other \in Leg \ {leg} : request'[<<c, other>>] = request[<<c, other>>]
           /\ \A d \in Call \ {c}, other \in Leg : request'[<<d, other>>] = request[<<d, other>>]
BY Pairs DEF ApprovalTypes, Answer

Outcomes == {"none", "held", "delivered", "queued", "failed"}

\* Only the progress of call c: where it is and what has come of it.
Progress(c, here, o) ==
    /\ pc' \in [Call -> Places] /\ pc'[c] = here
    /\ outcome' \in [Call -> Outcomes]
    /\ outcome'[c] = IF outcome[c] = "failed" THEN "failed" ELSE o
    /\ \A d \in Call \ {c} : pc'[d] = pc[d] /\ outcome'[d] = outcome[d]

LEMMA Goes ==
    ASSUME ApprovalTypes, NEW c \in Call, NEW here \in Places, Goto(c, here), UNCHANGED outcome
    PROVE  Progress(c, here, outcome[c])
BY DEF ApprovalTypes, Goto, Progress, Outcomes

LEMMA ReturnsEffect ==
    ASSUME ApprovalTypes, NEW c \in Call, NEW o \in {"held", "delivered", "queued"}, Returns(c, o)
    PROVE  Progress(c, IF op[c].kind = "approve" THEN "returned" ELSE "done", o)
BY DEF ApprovalTypes, Returns, Goto, Reports, Progress, Outcomes, Places, Underway

LEMMA ThrowsEffect ==
    ASSUME ApprovalTypes, NEW c \in Call, Throws(c) PROVE Progress(c, "done", "failed")
BY DEF ApprovalTypes, Throws, Goto, Reports, Progress, Outcomes, Places

LEMMA ExitsEffect ==
    ASSUME ApprovalTypes, NEW c \in Call, NEW next \in Places, Exits(c, next)
    PROVE  Progress(c, IF op[c].team THEN next ELSE "done", "failed")
BY DEF ApprovalTypes, Exits, Goto, Reports, Progress, Outcomes, Places

\* A step of one call keeps what it promises, and the types.
Kept(c) == ApprovalTypes' /\ Alone(c) /\ CallInv(c)'

\* A step that only moves its call, in the order it had, without anything sent.
LEMMA Moves ==
    ASSUME ApprovalTypes, NEW c \in Call, NEW here \in Places, NEW o \in Outcomes,
           Progress(c, here, o), UNCHANGED <<apiVars, op>>,
           route' \in [Call -> {"none", "local", "peer", "miss"}],
           \A d \in Call \ {c} : route'[d] = route[d],
           pending' \in [Call -> {"none", "pending", "approved", "rejected"}],
           contested' \subseteq Call
    PROVE  /\ ApprovalTypes' /\ Alone(c)
           /\ Posted(c)' <=> Posted(c)
           /\ Arrived(c)' <=> Arrived(c)
<1>1. UNCHANGED <<landed, filed, overwritten, request, op>>
  BY DEF apiVars, inbox
<1> QED
  BY <1>1 DEF ApprovalTypes, Progress, Alone, Arrived, Posted, Outcomes

LEMMA StartKeeps ==
    ASSUME ApprovalInv, NEW c \in Call, StartHey(c), UNCHANGED contested PROVE Kept(c)
<1>1. Progress(c, "resolve", outcome[c])
  BY Goes DEF StartHey, ApprovalInv, Places, Underway
<1>2. /\ UNCHANGED <<landed, filed, overwritten, request, route, pending, contested>>
      /\ op' \in [Call -> Ops] /\ op'[c].kind = "hey" /\ op'[c].msg = c
      /\ \A d \in Call \ {c} : op'[d] = op[d]
  BY DEF StartHey, apiVars, inbox, ApprovalInv, ApprovalTypes, Ops
<1>3. ApprovalTypes' /\ Alone(c) /\ (Posted(c)' <=> Posted(c)) /\ (Arrived(c)' <=> Arrived(c))
  BY <1>1, <1>2 DEF ApprovalInv, ApprovalTypes, Progress, Alone, Arrived, Posted, Outcomes
<1>4. At(c, "idle") /\ CallInv(c) /\ pc'[c] = "resolve" /\ outcome'[c] = outcome[c]
  BY <1>1 DEF StartHey, ApprovalInv, Progress
<1>5. Roles(c)'
  BY <1>2, <1>4 DEF Roles, At, Underway
<1>6. NotYet(c)' /\ ~Posted(c) /\ ~Arrived(c) /\ outcome[c] = "none"
  BY <1>3, <1>4 DEF CallInv, NotYet, Single, Roles, At, Early
<1> QED
  BY <1>2, <1>3, <1>4, <1>5, <1>6
  DEF Kept, CallInv, Single, Truthful, At, Posted, Arrived, ApprovalInv, ApprovalTypes

\* A step that leaves things unsent keeps all but what is to be shown of its new place.
LEMMA EarlyMoves ==
    ASSUME ApprovalInv, NEW c \in Call, pc[c] \in Early, NEW here \in Places, NEW o \in Outcomes,
           Progress(c, here, o), UNCHANGED <<apiVars, op>>,
           route' \in [Call -> {"none", "local", "peer", "miss"}],
           \A d \in Call \ {c} : route'[d] = route[d],
           pending' \in [Call -> {"none", "pending", "approved", "rejected"}],
           contested' \subseteq Call,
           Roles(c)', here \notin {"peer", "discovery", "returned"},
           o \in {"failed", "held"} => here = "done" \/ op[c].team, o = "held" => here = "done",
           o \in {"failed", "held", outcome[c]}
    PROVE  Kept(c)
<1>1. ApprovalTypes /\ CallInv(c)
  BY DEF ApprovalInv
<1>2. ApprovalTypes' /\ Alone(c) /\ (Posted(c)' <=> Posted(c)) /\ (Arrived(c)' <=> Arrived(c))
  BY <1>1, Moves
<1>3. UNCHANGED <<landed, request, op>> /\ op[c] \in Ops /\ landed[c] \in Nat
  BY <1>1 DEF apiVars, ApprovalTypes
<1>4. /\ pc'[c] = here /\ outcome'[c] = IF outcome[c] = "failed" THEN "failed" ELSE o
      /\ ~Posted(c) /\ ~Arrived(c)
  BY <1>1 DEF Progress, CallInv, NotYet
<1>5. landed[c] = 0
  BY <1>3, <1>4 DEF Arrived
<1>6. \A leg \in Leg : request[<<c, leg>>] = "none"
  BY <1>4 DEF Posted
<1>7. pc[c] \notin {"returned", "done", "dead"} /\ outcome[c] # "held"
  BY <1>1 DEF Early, CallInv, Truthful, At
<1>8. Single(c)'
  BY <1>1, <1>2, <1>3, <1>4, <1>5, <1>6, <1>7 DEF CallInv, Single, At
<1>9. Truthful(c)'
  BY <1>1, <1>2, <1>3, <1>4, <1>5, <1>6, <1>7 DEF CallInv, Truthful, At
<1> QED
  BY <1>2, <1>4, <1>8, <1>9 DEF Kept, CallInv, NotYet

LEMMA PlacesNamed ==
    /\ {"idle", "approve", "approving", "reject", "rejecting", "discard", "done", "dead",
        "resolve", "gate", "consent", "deliver", "keys", "peer", "discovery", "discover",
        "inbox", "returned"} \subseteq Places
    /\ ApprovalInv => ApprovalTypes /\ \A c \in Call : outcome[c] \in Outcomes /\ CallInv(c)
BY DEF Places, Marking, Underway, ApprovalInv, ApprovalTypes, Outcomes

\* Where a call of a kind may go on.
LEMMA RolesGoOn ==
    ASSUME NEW c \in Call, Roles(c), UNCHANGED op, NEW here, pc'[c] = here,
           pc[c] \in Underway,
           here \in Underway \cup {"done"}, here = "returned" => op[c].kind = "approve",
           here \in {"keys", "discover"} => op[c].team
    PROVE  Roles(c)'
BY DEF Roles, At, Underway

\* Who has sent nothing has failed only where it goes on behind an exit.
LEMMA EarlyOutcome ==
    ASSUME ApprovalInv, NEW c \in Call, pc[c] \in Early
    PROVE  (outcome[c] = "failed" => op[c].team) /\ outcome[c] # "held"
BY PlacesNamed DEF CallInv, Single, Truthful, At, Early

LEMMA ResolveKeeps ==
    ASSUME ApprovalInv, NEW c \in Call, Resolve(c) \/ ResolveFails(c), UNCHANGED contested
    PROVE  Kept(c)
<1>1. /\ UNCHANGED <<apiVars, op, pending, contested>>
      /\ route' \in [Call -> {"none", "local", "peer", "miss"}]
      /\ \A d \in Call \ {c} : route'[d] = route[d]
      /\ pc[c] = "resolve" /\ pc[c] \in Early
  BY PlacesNamed DEF Resolve, ResolveFails, ApprovalTypes, At, Early
<1>2. PICK here \in {"gate", "done"}, o \in Outcomes :
        /\ Progress(c, here, o)
        /\ o \in {"failed", outcome[c]}
        /\ o = "failed" => here = "done" \/ op[c].team
  <2>1. CASE Resolve(c)
    <3>1. Progress(c, "gate", outcome[c])
      BY <2>1, Goes, PlacesNamed DEF Resolve
    <3> QED
      BY <1>1, <3>1, EarlyOutcome, PlacesNamed
  <2>2. CASE ResolveFails(c)
    <3>1. \/ Progress(c, IF op[c].team THEN "gate" ELSE "done", "failed")
          \/ Progress(c, "done", "failed")
      BY <2>2, ExitsEffect, ThrowsEffect, PlacesNamed DEF ResolveFails
    <3> QED
      BY <3>1 DEF Outcomes
  <2> QED
    BY <2>1, <2>2
<1>3. Roles(c)'
  BY <1>1, <1>2, RolesGoOn, PlacesNamed DEF Underway, CallInv, Progress
<1> QED
  BY <1>1, <1>2, <1>3, EarlyOutcome, EarlyMoves, PlacesNamed DEF ApprovalTypes

LEMMA HoldKeeps ==
    ASSUME ApprovalInv, NEW c \in Call, Hold(c), UNCHANGED contested PROVE Kept(c)
<1>1. /\ UNCHANGED <<apiVars, op, route, contested>> /\ pc[c] = "gate" /\ pc[c] \in Early
      /\ pending' \in [Call -> {"none", "pending", "approved", "rejected"}]
      /\ op[c].kind = "hey"
  BY PlacesNamed DEF Hold, At, Early, ApprovalTypes, CallInv, Roles, Underway
<1>2. Progress(c, "done", "held")
  BY <1>1, ReturnsEffect, PlacesNamed DEF Hold
<1>3. Roles(c)'
  BY <1>1, <1>2, RolesGoOn, PlacesNamed DEF Underway, CallInv, Progress
<1> QED
  BY <1>1, <1>2, <1>3, EarlyMoves, PlacesNamed DEF ApprovalTypes, Outcomes

LEMMA GatesKeep ==
    ASSUME ApprovalInv, NEW c \in Call, PassGate(c) \/ Consented(c) \/ Denied(c),
           UNCHANGED contested
    PROVE  Kept(c)
<1>1. /\ UNCHANGED <<apiVars, op, route, pending, contested>>
      /\ pc[c] \in {"gate", "consent"} /\ pc[c] \in Early
  BY DEF PassGate, Consented, Denied, OnlyPc, At, Early
<1>2. PICK here \in {"consent", "deliver", "done"}, o \in Outcomes :
        /\ Progress(c, here, o)
        /\ o \in {"failed", outcome[c]}
        /\ o = "failed" => here = "done" \/ op[c].team
  <2>1. CASE PassGate(c) \/ Consented(c)
    <3>1. Progress(c, "consent", outcome[c]) \/ Progress(c, "deliver", outcome[c])
      BY <2>1, Goes, PlacesNamed DEF PassGate, Consented
    <3> QED
      BY <1>1, <3>1, EarlyOutcome, PlacesNamed
  <2>2. CASE Denied(c)
    <3>1. Progress(c, IF op[c].team THEN "deliver" ELSE "done", "failed")
      BY <2>2, ExitsEffect, PlacesNamed DEF Denied
    <3> QED
      BY <3>1 DEF Outcomes
  <2> QED
    BY <2>1, <2>2
<1>3. Roles(c)'
  BY <1>1, <1>2, RolesGoOn, PlacesNamed DEF Underway, CallInv, Progress
<1> QED
  BY <1>1, <1>2, <1>3, EarlyOutcome, EarlyMoves, PlacesNamed DEF ApprovalTypes

\* The same of a step once something may have been sent.
LEMMA LateMoves ==
    ASSUME ApprovalInv, NEW c \in Call, NEW here \in Places, NEW o \in Outcomes,
           Progress(c, here, o), UNCHANGED <<apiVars, op, route, contested>>,
           pending' \in [Call -> {"none", "pending", "approved", "rejected"}],
           Roles(c)', pc[c] # "done", here \notin Early \cup {"peer", "discovery"},
           op[c].team \/ here \in {"returned", "done", "dead"},
           op[c].team \/ outcome'[c] # "failed" \/ Posted(c) \/ ~Arrived(c),
           o # "held", o = "delivered" => landed[c] > 0, o = "queued" => Arrived(c),
           here = "returned" => Arrived(c) /\ outcome'[c] # "failed"
    PROVE  Kept(c)
<1>1. ApprovalTypes /\ CallInv(c) /\ outcome[c] # "held"
  BY DEF ApprovalInv, CallInv, Truthful, At
<1>2. ApprovalTypes' /\ Alone(c) /\ (Posted(c)' <=> Posted(c)) /\ (Arrived(c)' <=> Arrived(c))
  BY <1>1, Moves DEF ApprovalTypes
<1>3. UNCHANGED <<landed, request, op, route>>
  BY DEF apiVars
<1>4. pc'[c] = here /\ outcome'[c] = IF outcome[c] = "failed" THEN "failed" ELSE o
  BY DEF Progress
<1>5. Single(c)'
  BY <1>1, <1>2, <1>3, <1>4 DEF CallInv, Single, At
<1>6. Truthful(c)'
  BY <1>1, <1>2, <1>3, <1>4 DEF CallInv, Truthful, At
<1> QED
  BY <1>2, <1>4, <1>5, <1>6 DEF Kept, CallInv, NotYet

\* A step of a call that types or files its message: without a team it is then over.
LEMMA Delivers ==
    ASSUME ApprovalInv, NEW c \in Call, NEW here \in {"returned", "done"}, NEW o \in Outcomes,
           Progress(c, here, o), UNCHANGED <<request, op, route, pending, contested>>,
           Roles(c)', pc[c] \in {"deliver", "keys", "inbox"},
           landed' \in [Call -> Nat], filed' \subseteq Call, overwritten' \subseteq Call,
           \A d \in Call \ {c} : landed'[d] = landed[d] /\ (Arrived(d)' <=> Arrived(d)),
           landed'[c] \in {landed[c], landed[c] + 1}, Arrived(c)',
           o \in {"delivered", "queued", "failed"}, o = "delivered" => landed'[c] > 0,
           o = "failed" => here = "done" /\ (op[c].team \/ (route[c] = "local" /\ ~op[c].inboxOnly))
    PROVE  Kept(c)
<1>1. ApprovalTypes /\ CallInv(c)
  BY DEF ApprovalInv
<1>2. landed[c] \in Nat /\ landed'[c] \in Nat /\ op[c] \in Ops
  BY <1>1 DEF ApprovalTypes
<1>3. ApprovalTypes'
  BY <1>1 DEF ApprovalTypes, Progress, Outcomes
<1>4. Alone(c)
  BY DEF Alone, Progress
<1>5. Posted(c)' <=> Posted(c)
  BY DEF Posted
<1>6. pc'[c] = here /\ outcome'[c] = IF outcome[c] = "failed" THEN "failed" ELSE o
  BY DEF Progress
<1>7. ~op[c].team => ~Posted(c) /\ ~Arrived(c) /\ outcome[c] = "none" /\ landed[c] = 0
  <2>1. ~op[c].team => pc[c] # "keys"
    BY <1>1 DEF CallInv, Roles
  <2> QED
    BY <1>1, <1>2, <2>1 DEF CallInv, NotYet, Single, At, Early, Arrived
<1>8. landed[c] > 0 => landed'[c] > 0
  BY <1>2
<1>9. Single(c)'
  <2>1. ~op[c].team => \A leg \in Leg : request[<<c, leg>>] = "none"
    BY <1>7 DEF Posted
  <2> QED
    BY <1>2, <1>5, <1>6, <1>7, <2>1 DEF Single, At
<1>10. Truthful(c)'
  <2>1. outcome[c] # "held"
    BY <1>1 DEF CallInv, Truthful, At
  <2>2. here = "returned" => op[c].kind = "approve" /\ ~op[c].team
    BY <1>2, <1>6 DEF Roles, At, Underway, Ops
  <2> QED
    BY <1>1, <1>5, <1>6, <1>7, <1>8, <2>1, <2>2 DEF CallInv, Truthful, At
<1> QED
  BY <1>3, <1>4, <1>6, <1>9, <1>10 DEF Kept, CallInv, NotYet, Early

LEMMA FileLocalKeeps ==
    ASSUME ApprovalInv, NEW c \in Call, FileLocal(c), UNCHANGED contested PROVE Kept(c)
<1>1. /\ pc[c] = "deliver" /\ pc[c] \in Early
      /\ UNCHANGED <<landed, request, op, route, pending, contested>>
  BY DEF FileLocal, At, Early
<1>2. CASE FileUnder(c, TRUE) /\ Returns(c, "queued")
  <2>1. PICK here \in {"returned", "done"} :
          /\ Progress(c, here, "queued") /\ (here = "returned" => op[c].kind = "approve")
    BY <1>2, ReturnsEffect, PlacesNamed
  <2>2. Roles(c)'
    BY <1>1, <2>1, RolesGoOn, PlacesNamed DEF Underway, CallInv, Progress
  <2>3. /\ filed' \subseteq Call /\ overwritten' \subseteq Call /\ Arrived(c)'
        /\ \A d \in Call \ {c} : landed'[d] = landed[d] /\ (Arrived(d)' <=> Arrived(d))
    BY <1>1, <1>2, Files, PlacesNamed DEF Arrived
  <2> QED
    BY <1>1, <2>1, <2>2, <2>3, Delivers, PlacesNamed DEF ApprovalTypes, Outcomes
<1>3. CASE FileUnder(c, FALSE) /\ Exits(c, "keys")
  <2>1. UNCHANGED <<apiVars, op>>
    BY <1>1, <1>3 DEF FileUnder, apiVars
  <2>2. PICK here \in {"keys", "done"} :
          Progress(c, here, "failed") /\ (here = "done" <=> ~op[c].team)
    BY <1>3, ExitsEffect, PlacesNamed
  <2>3. Roles(c)'
    BY <1>1, <2>2, RolesGoOn, PlacesNamed DEF Underway, CallInv, Progress
  <2> QED
    BY <1>1, <2>1, <2>2, <2>3, EarlyMoves, PlacesNamed DEF ApprovalTypes, Outcomes
<1> QED
  BY <1>2, <1>3 DEF FileLocal

LEMMA TypeLocalKeeps ==
    ASSUME ApprovalInv, NEW c \in Call, TypeLocal(c), UNCHANGED contested PROVE Kept(c)
<1>1. /\ pc[c] \in {"deliver", "keys"} /\ UNCHANGED <<request, op, route, pending, contested>>
      /\ pc[c] = "deliver" => route[c] = "local" /\ ~op[c].inboxOnly
      /\ pc[c] = "keys" => op[c].team
  BY PlacesNamed DEF TypeLocal, At, CallInv, Roles
<1>2. ASSUME NEW written \in BOOLEAN, Inject(c), FileUnder(c, written),
             Returns(c, "delivered") \/ Throws(c)
      PROVE  Kept(c)
  <2>1. PICK here \in {"returned", "done"}, o \in {"delivered", "failed"} :
          /\ Progress(c, here, o) /\ (here = "returned" => op[c].kind = "approve")
          /\ o = "failed" => here = "done"
    BY <1>2, ReturnsEffect, ThrowsEffect, PlacesNamed
  <2>2. Roles(c)'
    BY <1>1, <2>1, RolesGoOn, PlacesNamed DEF Underway, CallInv, Progress
  <2>3. landed[c] \in Nat
    BY PlacesNamed DEF ApprovalTypes
  <2>4. /\ filed' \subseteq Call /\ overwritten' \subseteq Call /\ Arrived(c)'
        /\ landed' \in [Call -> Nat] /\ landed'[c] = landed[c] + 1 /\ landed'[c] > 0
        /\ \A d \in Call \ {c} : landed'[d] = landed[d] /\ (Arrived(d)' <=> Arrived(d))
    BY <1>2, <2>3, Files, Injects, PlacesNamed DEF Arrived
  <2> QED
    BY <1>1, <2>1, <2>2, <2>4, Delivers DEF Outcomes
<1>3. CASE UNCHANGED <<landed, inbox>> /\ Throws(c)
  <2>1. UNCHANGED <<apiVars, op>> /\ Progress(c, "done", "failed")
    BY <1>1, <1>3, ThrowsEffect, PlacesNamed DEF apiVars
  <2>2. Roles(c)'
    BY <1>1, <2>1, RolesGoOn, PlacesNamed DEF Underway, CallInv, Progress
  <2>3. CASE pc[c] = "deliver"
    BY <1>1, <2>1, <2>2, <2>3, EarlyMoves, PlacesNamed DEF ApprovalTypes, Outcomes, Early
  <2>4. CASE pc[c] = "keys"
    BY <1>1, <2>1, <2>2, <2>4, LateMoves, PlacesNamed DEF ApprovalTypes, Outcomes, Early
  <2> QED
    BY <1>1, <2>3, <2>4
<1> QED
  BY <1>2, <1>3 DEF TypeLocal

LEMMA LastResortKeeps ==
    ASSUME ApprovalInv, NEW c \in Call, LastResort(c), UNCHANGED contested PROVE Kept(c)
<1>1. pc[c] = "inbox" /\ UNCHANGED <<landed, request, op, route, pending, contested>>
  BY DEF LastResort, At
<1>2. CASE FileUnder(c, TRUE) /\ Returns(c, "queued")
  <2>1. PICK here \in {"returned", "done"} :
          /\ Progress(c, here, "queued") /\ (here = "returned" => op[c].kind = "approve")
    BY <1>2, ReturnsEffect, PlacesNamed
  <2>2. Roles(c)'
    BY <1>1, <2>1, RolesGoOn, PlacesNamed DEF Underway, CallInv, Progress
  <2>3. /\ filed' \subseteq Call /\ overwritten' \subseteq Call /\ Arrived(c)'
        /\ \A d \in Call \ {c} : landed'[d] = landed[d] /\ (Arrived(d)' <=> Arrived(d))
    BY <1>1, <1>2, Files, PlacesNamed DEF Arrived
  <2> QED
    BY <1>1, <2>1, <2>2, <2>3, Delivers, PlacesNamed DEF ApprovalTypes, Outcomes
<1>3. CASE FileUnder(c, FALSE) /\ Exits(c, "done")
  <2>1. UNCHANGED <<apiVars, op>>
    BY <1>1, <1>3 DEF FileUnder, apiVars
  <2>2. Progress(c, "done", "failed")
    BY <1>3, ExitsEffect, PlacesNamed
  <2>3. Roles(c)'
    BY <1>1, <2>2, RolesGoOn, PlacesNamed DEF Underway, CallInv, Progress
  <2>4. op[c].team \/ ~Arrived(c)
    BY <1>1, PlacesNamed DEF CallInv, Single, At
  <2> QED
    BY <1>1, <2>1, <2>2, <2>3, <2>4, LateMoves, PlacesNamed DEF ApprovalTypes, Outcomes, Early
<1> QED
  BY <1>2, <1>3 DEF LastResort

\* A request is made.
LEMMA PostKeeps ==
    ASSUME ApprovalInv, NEW c \in Call, NEW leg \in Leg, Posts(c, leg), UNCHANGED contested,
           pc[c] \in {"deliver", "discover"}
    PROVE  Kept(c)
<1>1. ApprovalTypes /\ CallInv(c) /\ landed[c] \in Nat
  BY PlacesNamed DEF ApprovalTypes
<1>2. /\ request' \in [Request -> {"none", "sent", "delivered", "queued", "unstated", "error"}]
      /\ request'[<<c, leg>>] = "sent"
      /\ \A other \in Leg \ {leg} : request'[<<c, other>>] = request[<<c, other>>]
      /\ \A d \in Call \ {c}, other \in Leg : request'[<<d, other>>] = request[<<d, other>>]
      /\ pc' = [pc EXCEPT ![c] = leg]
      /\ UNCHANGED <<landed, filed, overwritten, op, outcome, route, pending>>
  BY <1>1, PostsEffect
<1>3. leg \in {"peer", "discovery"} /\ leg \in Places /\ leg \in Underway
  BY PlacesNamed DEF Leg, Underway
<1>4. pc' \in [Call -> Places] /\ pc'[c] = leg /\ \A d \in Call \ {c} : pc'[d] = pc[d]
  BY <1>1, <1>2, <1>3 DEF ApprovalTypes
<1>5. ApprovalTypes' /\ Alone(c)
  BY <1>1, <1>2, <1>4 DEF ApprovalTypes, Alone, Arrived
<1>6. (Arrived(c)' <=> Arrived(c)) /\ Posted(c)'
  BY <1>2 DEF Arrived, Posted
<1>7. Roles(c)'
  BY <1>1, <1>2, <1>3, <1>4, RolesGoOn DEF CallInv, Underway
<1>8. ~op[c].team => /\ ~Posted(c) /\ ~Arrived(c) /\ outcome[c] = "none" /\ landed[c] = 0
                     /\ \A other \in Leg : request[<<c, other>>] = "none"
  BY <1>1 DEF CallInv, Roles, NotYet, Single, At, Early, Arrived, Posted
<1>9. Single(c)'
  BY <1>2, <1>3, <1>4, <1>6, <1>8 DEF Single, At
<1>10. Truthful(c)'
  BY <1>1, <1>2, <1>3, <1>4, <1>6 DEF CallInv, Truthful, At
<1> QED
  BY <1>3, <1>4, <1>5, <1>7, <1>9, <1>10 DEF Kept, CallInv, NotYet, Early

LEMMA PeerKeeps ==
    ASSUME ApprovalInv, NEW c \in Call, PostPeer(c), UNCHANGED contested PROVE Kept(c)
BY PostKeeps DEF PostPeer, At, Leg

LEMMA DiscoverKeeps ==
    ASSUME ApprovalInv, NEW c \in Call, Discover(c), UNCHANGED contested PROVE Kept(c)
<1>1. pc[c] \in {"deliver", "discover"} /\ (pc[c] = "discover" => op[c].team)
  BY PlacesNamed DEF Discover, At, CallInv, Roles
<1>2. CASE Posts(c, "discovery")
  BY <1>1, <1>2, PostKeeps DEF Leg
<1>3. CASE Goto(c, "inbox") /\ UNCHANGED outcome /\ OnlyPc
  <2>1. Progress(c, "inbox", outcome[c]) /\ UNCHANGED <<apiVars, op, route, pending, contested>>
    BY <1>3, Goes, PlacesNamed DEF OnlyPc
  <2>2. Roles(c)'
    BY <1>1, <2>1, RolesGoOn, PlacesNamed DEF Underway, CallInv, Progress
  <2>3. CASE pc[c] = "deliver"
    BY <2>1, <2>2, <2>3, EarlyOutcome, EarlyMoves, PlacesNamed DEF ApprovalTypes, Early
  <2>4. CASE pc[c] = "discover"
    BY <1>1, <2>1, <2>2, <2>4, LateMoves, PlacesNamed
    DEF ApprovalTypes, Early, CallInv, Truthful, At
  <2> QED
    BY <1>1, <2>3, <2>4
<1> QED
  BY <1>2, <1>3 DEF Discover

LEMMA AcceptedKeeps ==
    ASSUME ApprovalInv, NEW c \in Call, NEW leg \in Leg, Accepted(c, leg), UNCHANGED contested
    PROVE  Kept(c)
<1>1. /\ pc[c] = leg /\ pc[c] \in {"peer", "discovery"}
      /\ UNCHANGED <<apiVars, op, route, pending, contested>>
      /\ request[<<c, leg>>] \in {"delivered", "queued", "unstated"}
  BY DEF Accepted, OnlyPc, At, Leg
<1>2. Posted(c) /\ landed[c] \in Nat
  BY <1>1, PlacesNamed DEF Posted, ApprovalTypes
<1>3. Arrived(c) /\ (request[<<c, leg>>] = "delivered" => landed[c] > 0)
  BY <1>1, <1>2, PlacesNamed DEF CallInv, Truthful, Arrived
<1>4. PICK here \in {"returned", "done"}, o \in {"delivered", "queued"} :
        /\ Progress(c, here, o) /\ (here = "returned" => op[c].kind = "approve")
        /\ o = "delivered" => landed[c] > 0
  BY <1>1, <1>3, ReturnsEffect, PlacesNamed DEF Accepted
<1>5. Roles(c)'
  BY <1>1, <1>4, RolesGoOn, PlacesNamed DEF Underway, CallInv, Progress
<1>6. here = "returned" => outcome'[c] # "failed"
  BY <1>1, <1>4, PlacesNamed DEF CallInv, Roles, Single, Progress, At
<1> QED
  BY <1>1, <1>2, <1>3, <1>4, <1>5, <1>6, LateMoves, PlacesNamed DEF ApprovalTypes, Outcomes, Early

LEMMA RefusedKeeps ==
    ASSUME ApprovalInv, NEW c \in Call, NEW leg \in Leg, Refused(c, leg), UNCHANGED contested
    PROVE  Kept(c)
<1>1. /\ pc[c] = leg /\ pc[c] \in {"peer", "discovery"}
      /\ UNCHANGED <<apiVars, op, route, pending, contested>>
  BY DEF Refused, OnlyPc, At, Leg
<1>2. Posted(c)
  BY <1>1, PlacesNamed DEF Posted, CallInv, Truthful, At
<1>3. PICK here \in {"discover", "inbox", "done"} :
        Progress(c, here, "failed") /\ (here = "done" \/ op[c].team)
  BY ExitsEffect, PlacesNamed DEF Refused
<1>4. Roles(c)'
  BY <1>1, <1>3, RolesGoOn, PlacesNamed DEF Underway, CallInv, Progress
<1> QED
  BY <1>1, <1>2, <1>3, <1>4, LateMoves, PlacesNamed DEF ApprovalTypes, Outcomes, Early

LEMMA HeyKeeps ==
    ASSUME ApprovalInv, NEW c \in Call, HeyStep(c), UNCHANGED contested PROVE Kept(c)
BY StartKeeps, ResolveKeeps, HoldKeeps, GatesKeep, FileLocalKeeps, TypeLocalKeeps, PeerKeeps,
   AcceptedKeeps, RefusedKeeps, DiscoverKeeps, LastResortKeeps DEF HeyStep

-----------------------------------------------------------------------------
(* The receiver answers a request. *)

\* What serving a request of a call may do to it.
LEMMA ServedKeeps ==
    ASSUME ApprovalInv, NEW c \in Call, NEW leg \in Leg,
           NEW a \in {"delivered", "queued", "unstated", "error"}, Answer(<<c, leg>>, a),
           NEW typed \in BOOLEAN, NEW written \in BOOLEAN, FileUnder(c, written),
           IF typed THEN Inject(c) ELSE UNCHANGED landed,
           a = "delivered" => typed, a \in {"queued", "unstated"} => typed \/ written,
           UNCHANGED <<op, pc, outcome, route, pending, contested>>
    PROVE  Kept(c)
<1>1. ApprovalTypes /\ CallInv(c) /\ landed[c] \in Nat
  BY PlacesNamed DEF ApprovalTypes
<1>2. /\ request' \in [Request -> {"none", "sent", "delivered", "queued", "unstated", "error"}]
      /\ request[<<c, leg>>] = "sent" /\ request'[<<c, leg>>] = a
      /\ \A other \in Leg \ {leg} : request'[<<c, other>>] = request[<<c, other>>]
      /\ \A d \in Call \ {c}, other \in Leg : request'[<<d, other>>] = request[<<d, other>>]
  BY <1>1, AnswerEffect
<1>3. /\ landed' \in [Call -> Nat]
      /\ landed'[c] = IF typed THEN landed[c] + 1 ELSE landed[c]
      /\ \A d \in Call \ {c} : landed'[d] = landed[d]
  BY <1>1, Injects DEF ApprovalTypes
<1>4. /\ filed' \subseteq Call /\ overwritten' \subseteq Call
      /\ \A d \in Call \ {c} : d \in filed' \cup overwritten' <=> d \in filed \cup overwritten
      /\ c \in filed' \cup overwritten' <=> written \/ c \in filed \cup overwritten
  BY <1>1, Files
<1>5. ApprovalTypes' /\ Alone(c)
  BY <1>1, <1>2, <1>3, <1>4 DEF ApprovalTypes, Alone, Arrived
<1>6. /\ Arrived(c)' <=> Arrived(c) \/ typed \/ written
      /\ Posted(c) /\ Posted(c)'
  BY <1>1, <1>2, <1>3, <1>4 DEF Arrived, Posted
<1>7. Roles(c)'
  BY <1>1 DEF CallInv, Roles, At
<1>8. NotYet(c)' /\ outcome[c] # "held"
  BY <1>1, <1>6 DEF CallInv, NotYet, Truthful
<1>9. ~op[c].team => /\ landed[c] = 0 /\ pc[c] # "inbox"
                     /\ \A other \in Leg \ {leg} : request[<<c, other>>] = "none"
  BY <1>1, <1>2, <1>6 DEF CallInv, Single, At
<1>10. Single(c)'
  BY <1>1, <1>2, <1>3, <1>6, <1>9 DEF CallInv, Single, At
<1>11. Truthful(c)'
  BY <1>1, <1>2, <1>3, <1>6, <1>8 DEF CallInv, Truthful, At, Leg
<1> QED
  BY <1>5, <1>7, <1>8, <1>10, <1>11 DEF Kept, CallInv

LEMMA ApiKeeps ==
    ASSUME ApprovalInv, ApiNext, UNCHANGED <<pc, outcome, route, pending, contested>>
    PROVE  \E c \in Call : Kept(c) /\ Posted(c) /\ pc[c] \notin Early
<1>1. PICK q \in Request : ServeLive(q) \/ ServeQueued(q) \/ ServeWoken(q) \/ ServeForward(q)
  BY DEF ApiNext
<1>2. PICK c \in Call, leg \in Leg : q = <<c, leg>>
  BY DEF Request
<1>3. UNCHANGED op /\ q[1] = c
  BY <1>2 DEF ApiNext
<1>4. \E a \in {"delivered", "queued", "unstated", "error"}, typed, written \in BOOLEAN :
        /\ Answer(<<c, leg>>, a) /\ FileUnder(c, written)
        /\ IF typed THEN Inject(c) ELSE UNCHANGED landed
        /\ a = "delivered" => typed
        /\ a \in {"queued", "unstated"} => typed \/ written
  <2>1. CASE ServeLive(q)
    <3>1. PICK a \in {"delivered", "queued"}, written \in BOOLEAN :
            Answer(<<c, leg>>, a) /\ Inject(c) /\ FileUnder(c, written)
      BY <1>2, <1>3, <2>1 DEF ServeLive
    <3> WITNESS a \in {"delivered", "queued", "unstated", "error"}, TRUE \in BOOLEAN,
                written \in BOOLEAN
    <3> QED
      BY <3>1
  <2>2. CASE ServeQueued(q)
    <3>1. PICK written \in BOOLEAN, a \in {"queued", "error"} :
            (a = "queued" => written) /\ Answer(<<c, leg>>, a) /\ FileUnder(c, written)
      BY <1>2, <1>3, <2>2 DEF ServeQueued
    <3> WITNESS a \in {"delivered", "queued", "unstated", "error"}, FALSE \in BOOLEAN,
                written \in BOOLEAN
    <3> QED
      BY <2>2, <3>1 DEF ServeQueued
  <2>3. CASE ServeWoken(q)
    <3>1. PICK written \in BOOLEAN :
            Answer(<<c, leg>>, "unstated") /\ Inject(c) /\ FileUnder(c, written)
      BY <1>2, <1>3, <2>3 DEF ServeWoken
    <3> WITNESS "unstated" \in {"delivered", "queued", "unstated", "error"}, TRUE \in BOOLEAN,
                written \in BOOLEAN
    <3> QED
      BY <3>1
  <2>4. CASE ServeForward(q)
    <3>1. PICK typed \in BOOLEAN, written \in BOOLEAN, a \in {"delivered", "queued", "error"} :
            /\ a = "delivered" => typed
            /\ a = "queued" => typed \/ written
            /\ Answer(<<c, leg>>, a) /\ FileUnder(c, written)
            /\ IF typed THEN Inject(c) ELSE UNCHANGED landed
      BY <1>2, <1>3, <2>4 DEF ServeForward
    <3> WITNESS a \in {"delivered", "queued", "unstated", "error"}, typed \in BOOLEAN,
                written \in BOOLEAN
    <3> QED
      BY <3>1
  <2> QED
    BY <1>1, <2>1, <2>2, <2>3, <2>4
<1>5. Kept(c)
  <2>1. PICK a \in {"delivered", "queued", "unstated", "error"},
             typed \in BOOLEAN, written \in BOOLEAN :
          /\ Answer(<<c, leg>>, a) /\ FileUnder(c, written)
          /\ IF typed THEN Inject(c) ELSE UNCHANGED landed
          /\ a = "delivered" => typed
          /\ a \in {"queued", "unstated"} => typed \/ written
    BY <1>4
  <2> QED
    BY <1>3, <2>1, ServedKeeps
<1>6. request[<<c, leg>>] = "sent"
  BY <1>1, <1>2 DEF ServeLive, ServeQueued, ServeWoken, ServeForward, Answer
<1>7. Posted(c) /\ pc[c] \notin Early
  BY <1>6, PlacesNamed DEF Posted, CallInv, NotYet
<1> QED
  BY <1>5, <1>7

-----------------------------------------------------------------------------
(* Approving and rejecting. *)

LEMMA ReadKeeps ==
    ASSUME ApprovalInv, NEW c \in Call, NEW kind \in {"approve", "reject"}, NEW m \in Call,
           NEW next \in {"approve", "reject", "discard"}, Read(c, kind, m, next),
           next = "approve" <=> kind = "approve"
    PROVE  Kept(c)
<1>1. ApprovalTypes /\ CallInv(c) /\ pc[c] = "idle"
  BY PlacesNamed DEF Read, At
<1>2. Progress(c, next, outcome[c])
  BY <1>1, Goes, PlacesNamed DEF Read
<1>3. /\ UNCHANGED <<landed, filed, overwritten, request, route, pending, contested>>
      /\ op' \in [Call -> Ops] /\ op'[c].kind = kind /\ op'[c].msg = m
      /\ ~op'[c].ask /\ ~op'[c].team
      /\ \A d \in Call \ {c} : op'[d] = op[d]
  BY <1>1 DEF Read, apiVars, inbox, ApprovalTypes, Ops, NoOp
<1>4. ApprovalTypes' /\ Alone(c) /\ (Posted(c)' <=> Posted(c)) /\ (Arrived(c)' <=> Arrived(c))
  BY <1>1, <1>2, <1>3 DEF ApprovalTypes, Progress, Alone, Arrived, Posted, Outcomes
<1>5. /\ pc'[c] = next /\ outcome'[c] = outcome[c] /\ outcome[c] = "none"
      /\ ~Posted(c) /\ ~Arrived(c) /\ landed[c] \in Nat
  BY <1>1, <1>2 DEF CallInv, NotYet, Single, Roles, At, Early, Progress, ApprovalTypes
<1>6. Roles(c)'
  BY <1>3, <1>5 DEF Roles, At, Underway
<1>7. \A leg \in Leg : request[<<c, leg>>] = "none"
  BY <1>5 DEF Posted
<1>8. landed[c] = 0
  BY <1>5 DEF Arrived
<1>9. NotYet(c)' /\ Single(c)' /\ Truthful(c)'
  BY <1>3, <1>4, <1>5, <1>7, <1>8 DEF NotYet, Single, Truthful, At
<1> QED
  BY <1>4, <1>6, <1>9 DEF Kept, CallInv

LEMMA MarkKeeps ==
    ASSUME ApprovalInv, NEW c \in Call,
           ApproveDraft(c) \/ RejectDraft(c) \/ ApproveMark(c) \/ RejectMark(c)
    PROVE  Kept(c)
<1>1. /\ UNCHANGED <<apiVars, op, route>> /\ pc[c] \in Early
      /\ \/ pc[c] = "approve" /\ ApproveDraft(c)
         \/ pc[c] = "reject" /\ RejectDraft(c)
         \/ pc[c] = "approving" /\ ApproveMark(c)
         \/ pc[c] = "rejecting" /\ RejectMark(c)
  BY DEF ApproveDraft, RejectDraft, ApproveMark, RejectMark, At, Early
<1>2. /\ pc[c] \in {"approve", "approving"} <=> op[c].kind = "approve"
      /\ pc[c] \in {"reject", "rejecting"} <=> op[c].kind = "reject"
      /\ op[c].msg \in Call /\ ~op[c].team /\ outcome[c] \notin {"failed", "held"}
  <2>1. op[c] \in Ops /\ Roles(c)
    BY PlacesNamed DEF ApprovalTypes, CallInv
  <2> QED
    BY <1>1, <2>1, EarlyOutcome DEF Roles, At, Ops, Underway
<1>3. /\ pending' \in [Call -> {"none", "pending", "approved", "rejected"}]
      /\ contested' \subseteq Call
  <2>1. /\ pending \in [Call -> {"none", "pending", "approved", "rejected"}]
        /\ contested \subseteq Call /\ draft \in [Call -> Statuses]
    BY PlacesNamed DEF ApprovalTypes, ApprovalInv
  <2> QED
    BY <1>1, <1>2, <2>1
    DEF ApproveDraft, RejectDraft, ApproveMark, RejectMark, Drafts, Renames, Message, Statuses
<1>4. PICK here \in {"approving", "rejecting", "resolve", "discard", "done"},
           o \in {"failed", outcome[c]} :
        /\ Progress(c, here, o)
        /\ o = "failed" => here = "done"
        /\ here \in {"approving", "resolve"} => pc[c] \in {"approve", "approving"}
        /\ here \in {"rejecting", "discard"} => pc[c] \in {"reject", "rejecting"}
  <2>1. ApprovalTypes
    BY DEF ApprovalInv
  <2>2. Throws(c) => Progress(c, "done", "failed")
    BY <2>1, ThrowsEffect
  <2>3. \A next \in {"approving", "rejecting", "resolve", "discard"} :
          Goto(c, next) /\ UNCHANGED outcome => Progress(c, next, outcome[c])
    BY <2>1, Goes, PlacesNamed
  <2>4. Throws(c) \/ \E next \in {"approving", "rejecting", "resolve", "discard"} :
          /\ Goto(c, next) /\ UNCHANGED outcome
          /\ next \in {"approving", "resolve"} => pc[c] \in {"approve", "approving"}
          /\ next \in {"rejecting", "discard"} => pc[c] \in {"reject", "rejecting"}
    BY <1>1 DEF ApproveDraft, RejectDraft, ApproveMark, RejectMark, Drafts, Renames
  <2> QED
    BY <1>2, <2>2, <2>3, <2>4
<1>5. Roles(c)'
  BY <1>1, <1>2, <1>4, PlacesNamed DEF CallInv, Roles, At, Underway, Progress
<1> QED
  BY <1>1, <1>3, <1>4, <1>5, EarlyMoves, EarlyOutcome, PlacesNamed
  DEF ApprovalTypes, Outcomes

LEMMA DeleteKeeps ==
    ASSUME ApprovalInv, NEW c \in Call, ApproveDelete(c) \/ RejectDelete(c) PROVE Kept(c)
<1>1. /\ UNCHANGED <<apiVars, op, route, contested>> /\ pc[c] \in {"returned", "discard"}
      /\ Progress(c, "done", outcome[c])
      /\ pending' \in [Call -> {"none", "pending", "approved", "rejected"}]
  BY Goes, PlacesNamed DEF ApproveDelete, RejectDelete, Delete, At, ApprovalTypes
<1>2. Roles(c)'
  BY <1>1, PlacesNamed DEF CallInv, Roles, At, Underway, Progress
<1>3. CASE pc[c] = "discard"
  BY <1>1, <1>2, <1>3, EarlyMoves, EarlyOutcome, PlacesNamed DEF ApprovalTypes, Early
<1>4. CASE pc[c] = "returned"
  <2>1. /\ outcome[c] \notin {"failed", "held"}
        /\ outcome[c] = "delivered" => landed[c] > 0
        /\ outcome[c] = "queued" => Arrived(c)
    BY <1>4, PlacesNamed DEF CallInv, Truthful, At
  <2>2. outcome'[c] = outcome[c]
    BY <1>1 DEF Progress
  <2> QED
    BY <1>1, <1>2, <1>4, <2>1, <2>2, LateMoves, PlacesNamed DEF Early
<1> QED
  BY <1>1, <1>3, <1>4

LEMMA KilledKeeps == ASSUME ApprovalInv, NEW c \in Call, Killed(c) PROVE Kept(c)
<1>1. /\ UNCHANGED <<apiVars, op, route, pending, contested>> /\ pc[c] \notin {"done", "dead"}
      /\ Progress(c, "dead", outcome[c]) /\ op[c].kind \in {"approve", "reject"} /\ ~op[c].team
  BY Goes, PlacesNamed DEF Killed, OnlyPc, CallInv, Roles
<1>2. Roles(c)'
  BY <1>1, PlacesNamed DEF CallInv, Roles, At, Underway, Progress
<1>3. CASE pc[c] \in Early
  BY <1>1, <1>2, <1>3, EarlyMoves, EarlyOutcome, PlacesNamed DEF ApprovalTypes
<1>4. CASE pc[c] \notin Early
  <2>1. /\ outcome[c] \notin {"failed", "held"}
        /\ outcome[c] = "delivered" => landed[c] > 0
        /\ outcome[c] = "queued" => Arrived(c)
    BY <1>1, PlacesNamed DEF CallInv, Truthful, Single, At
  <2>2. outcome'[c] = outcome[c]
    BY <1>1 DEF Progress
  <2> QED
    BY <1>1, <1>2, <2>1, <2>2, LateMoves, PlacesNamed DEF Early, ApprovalTypes
<1> QED
  BY <1>3, <1>4

\* A step of no call keeps what the calls promise.
LEMMA NoneKeeps ==
    ASSUME ApprovalInv, UNCHANGED <<apiVars, op, pc, outcome, route>>,
           pending' \in [Call -> {"none", "pending", "approved", "rejected"}],
           contested' \subseteq Call
    PROVE  ApprovalTypes' /\ \A c \in Call : CallInv(c)'
<1>1. UNCHANGED <<landed, filed, overwritten, request, op, pc, outcome, route>>
  BY DEF apiVars, inbox
<1>2. ApprovalTypes'
  BY <1>1, PlacesNamed DEF ApprovalTypes
<1>3. \A c \in Call : (Posted(c)' <=> Posted(c)) /\ (Arrived(c)' <=> Arrived(c))
  BY <1>1 DEF Posted, Arrived
<1>4. ASSUME NEW c \in Call PROVE CallInv(c)'
  <2>1. CallInv(c)
    BY PlacesNamed
  <2> QED
    BY <1>1, <1>3, <2>1 DEF CallInv, Roles, NotYet, Single, Truthful, At
<1> QED
  BY <1>2, <1>4

\* Every step keeps the types and what the calls promise.
LEMMA CallsKeep ==
    ASSUME ApprovalInv, [Next]_allVars PROVE ApprovalTypes' /\ \A c \in Call : CallInv(c)'
<1> SUFFICES ASSUME \A c \in Call : ~Kept(c)
             PROVE ApprovalTypes' /\ \A c \in Call : CallInv(c)'
  BY OthersKeep, PlacesNamed DEF Kept
<1>1. \A c, m \in Call : ~ApproveRead(c, m) /\ ~RejectRead(c, m)
  BY ReadKeeps DEF ApproveRead, RejectRead
<1>2. ~(ApiNext /\ UNCHANGED <<pc, outcome, route, pending, contested>>)
  BY ApiKeeps
<1>3. CASE \E m \in Call : Expire(m)
  BY <1>3, NoneKeeps, PlacesNamed DEF Expire, ApprovalTypes
<1>4. CASE UNCHANGED allVars
  BY <1>4, NoneKeeps, PlacesNamed DEF allVars, vars, heyVars, ApprovalTypes
<1> QED
  BY <1>1, <1>2, <1>3, <1>4, HeyKeeps, KilledKeeps, MarkKeeps, DeleteKeeps DEF Next

-----------------------------------------------------------------------------
(* The queue. *)

\* A step that reads no record, and marks none, keeps what holds of a message.
LEMMA QueueKeeps ==
    ASSUME NEW m \in Call, QueueInv(m), contested \subseteq contested',
           pending'[m] \in {pending[m], "none"},
           \A c \in Call : Verdict(c, m)' => op'[c] = op[c],
           \A c \in Call : Verdict(c, m) => op'[c] = op[c],
           \A c \in Approvals(m) : (Acted(c)' => Acted(c)) /\ (Deciding(c)' => Deciding(c)),
           \A r \in Call : Refuses(r, m)' => Refuses(r, m),
           op[m].kind = "hey" /\ At(m, "done") => op'[m].kind = "hey" /\ At(m, "done")'
    PROVE  QueueInv(m)'
<1>1. Approvals(m)' = Approvals(m)
  BY DEF Approvals, About, Verdict
<1>2. \A c \in Call : Verdict(c, m)' => Verdict(c, m)
  BY DEF Verdict, About
<1> QED
  BY <1>1, <1>2 DEF QueueInv

\* What a step of a call may do to the records of the others.
LEMMA QueueAlone ==
    ASSUME ApprovalInv, NEW c \in Call, Alone(c), NEW m \in Call, contested \subseteq contested',
           pending'[m] \in {pending[m], "none"},
           op'[c] = op[c] \/ (op[c].kind = "none" /\ op'[c].kind = "hey"),
           About(c, "approve", m) =>
             (Acted(c)' => Acted(c)) /\ (Deciding(c)' => Deciding(c)),
           Refuses(c, m)' => Refuses(c, m),
           pc[c] \notin {"done", "dead"} \/ pc'[c] = pc[c]
    PROVE  QueueInv(m)'
<1>1. \A d \in Call \ {c} : op'[d] = op[d] /\ pc'[d] = pc[d] /\ outcome'[d] = outcome[d]
  BY DEF Alone
<1>2. \A d \in Call \ {c} : (Posted(d)' <=> Posted(d)) /\ (Arrived(d)' <=> Arrived(d))
  BY DEF Alone, Posted
<1>3. \A d \in Call \ {c} : (Acted(d)' <=> Acted(d)) /\ (Refuses(d, m)' <=> Refuses(d, m))
  BY <1>1, <1>2 DEF Acted, Refuses, About, At
<1>4. \A d \in Call : (Verdict(d, m) \/ Verdict(d, m)') => op'[d] = op[d]
  BY <1>1 DEF Verdict, About
<1>5. \A d \in Approvals(m) :
        (Acted(d)' => Acted(d)) /\ (Deciding(d)' => Deciding(d))
  BY <1>1, <1>3 DEF Approvals, Deciding
<1>6. op[m].kind = "hey" /\ At(m, "done") => op'[m].kind = "hey" /\ At(m, "done")'
  BY <1>1 DEF At
<1>7. QueueInv(m) /\ \A d \in Call : Refuses(d, m)' => Refuses(d, m)
  BY <1>3 DEF ApprovalInv
<1> QED
  BY <1>4, <1>5, <1>6, <1>7, QueueKeeps

\* Where a step of cmdSend starts and ends, and what it leaves alone.
LEMMA HeyGoes ==
    ASSUME ApprovalInv, NEW c \in Call, HeyStep(c)
    PROVE  /\ pc'[c] \in Underway \cup {"done"}
           /\ \/ StartHey(c) /\ pc[c] = "idle"
              \/ UNCHANGED op /\ pc[c] \in Underway \ {"returned"}
           /\ Hold(c) \/ UNCHANGED pending
<1>1. pc \in [Call -> Places]
  BY PlacesNamed DEF ApprovalTypes
<1> USE <1>1 DEF Underway, At
<1>2. \A o \in {"held", "delivered", "queued"} : Returns(c, o) => pc'[c] \in Underway \cup {"done"}
  BY DEF Returns, Goto
<1>3. Throws(c) => pc'[c] \in Underway \cup {"done"}
  BY DEF Throws, Goto
<1>4. \A next \in Underway \cup {"done"} :
        (Goto(c, next) \/ Exits(c, next)) => pc'[c] \in Underway \cup {"done"}
  BY DEF Goto, Exits
<1>5. CASE StartHey(c) \/ Resolve(c) \/ ResolveFails(c)
  BY <1>3, <1>4, <1>5 DEF StartHey, Resolve, ResolveFails
<1>6. CASE Hold(c) \/ PassGate(c) \/ Consented(c) \/ Denied(c)
  BY <1>2, <1>4, <1>6 DEF Hold, PassGate, Consented, Denied, OnlyPc
<1>7. CASE FileLocal(c) \/ TypeLocal(c) \/ LastResort(c)
  BY <1>2, <1>3, <1>4, <1>7 DEF FileLocal, TypeLocal, LastResort
<1>8. CASE PostPeer(c) \/ Discover(c)
  BY <1>4, <1>8 DEF PostPeer, Discover, Posts, OnlyPc
<1>9. ASSUME NEW leg \in Leg, Accepted(c, leg) \/ Refused(c, leg)
      PROVE  /\ pc'[c] \in Underway \cup {"done"} /\ UNCHANGED <<op, pending>>
             /\ pc[c] \in Underway \ {"returned"}
  BY <1>2, <1>4, <1>9 DEF Accepted, Refused, OnlyPc, Leg
<1> QED
  BY <1>5, <1>6, <1>7, <1>8, <1>9 DEF HeyStep

\* An approval's send ends as "returned", unless it fails.
LEMMA ApproveGoesOn ==
    ASSUME ApprovalInv, NEW c \in Call, HeyStep(c), op[c].kind = "approve"
    PROVE  pc'[c] = "done" => outcome'[c] = "failed"
<1>1. /\ pc \in [Call -> Places]
      /\ outcome \in [Call -> {"none", "held", "delivered", "queued", "failed"}]
  BY PlacesNamed DEF ApprovalTypes
<1> USE <1>1
<1>2. \A o : Returns(c, o) => pc'[c] = "returned"
  BY DEF Returns, Goto
<1>3. Throws(c) \/ (\E next : Exits(c, next)) => outcome'[c] = "failed"
  BY DEF Throws, Exits, Reports
<1>4. \A next \in Underway : Goto(c, next) => pc'[c] # "done"
  BY DEF Goto, Underway
<1> USE DEF Underway
<1>5. CASE StartHey(c) \/ Resolve(c) \/ ResolveFails(c)
  BY <1>3, <1>4, <1>5 DEF StartHey, Resolve, ResolveFails
<1>6. CASE Hold(c) \/ PassGate(c) \/ Consented(c) \/ Denied(c)
  BY <1>2, <1>3, <1>4, <1>6 DEF Hold, PassGate, Consented, Denied
<1>7. CASE FileLocal(c) \/ TypeLocal(c) \/ LastResort(c)
  BY <1>2, <1>3, <1>7 DEF FileLocal, TypeLocal, LastResort
<1>8. CASE PostPeer(c) \/ Discover(c)
  BY <1>4, <1>8 DEF PostPeer, Discover, Posts
<1>9. ASSUME NEW leg \in Leg, Accepted(c, leg) \/ Refused(c, leg)
      PROVE  pc'[c] = "done" => outcome'[c] = "failed"
  BY <1>2, <1>3, <1>9 DEF Accepted, Refused
<1> QED
  BY <1>5, <1>6, <1>7, <1>8, <1>9 DEF HeyStep

\* A step of cmdSend: of a `maw hey`, or of an approval that has marked its record.
LEMMA HeyQueue ==
    ASSUME ApprovalInv, NEW c \in Call, HeyStep(c), UNCHANGED contested, NEW m \in Call
    PROVE  QueueInv(m)'
<1>1. Kept(c) /\ Roles(c)
  BY HeyKeeps, PlacesNamed DEF CallInv
<1>2. /\ pc'[c] \in Underway \cup {"done"}
      /\ pc[c] \in Underway \ {"returned"} \/ (pc[c] = "idle" /\ StartHey(c))
      /\ op'[c] = op[c] \/ (op[c].kind = "none" /\ op'[c].kind = "hey")
      /\ op'[c].kind = "hey" \/ (op'[c] = op[c] /\ pc[c] \in Underway)
  <2>1. op \in [Call -> Ops]
    BY PlacesNamed DEF ApprovalTypes
  <2>2. StartHey(c) => op'[c].kind = "hey"
    BY <2>1 DEF StartHey
  <2>3. pc[c] = "idle" => op[c].kind = "none"
    BY <1>1 DEF Roles, At
  <2> QED
    BY <2>2, <2>3, HeyGoes
<1>3. ~Refuses(c, m)' /\ ~(About(c, "approve", m) /\ Deciding(c)')
  BY <1>1, <1>2 DEF Roles, Underway, At, Refuses, About, Deciding
<1>4. About(c, "approve", m) => Acted(c)
  BY <1>1, <1>2 DEF About, Roles, At, Acted
<1>5. CASE Hold(c) /\ m = c
  <2>1. pc[c] = "gate" /\ op[c].kind = "hey" /\ op'[c] = op[c]
    BY <1>1, <1>5, PlacesNamed DEF Hold, At, Roles, Underway
  <2>2. \A d \in Call : ~Verdict(d, m)
    BY <1>5, <2>1 DEF ApprovalInv, QueueInv, At
  <2>3. \A d \in Call : ~Verdict(d, m)'
    BY <1>1, <1>5, <2>1, <2>2 DEF Kept, Alone, Verdict, About
  <2>4. At(c, "done")'
    BY <1>5, <2>1, ReturnsEffect, PlacesNamed DEF Hold, Progress, At
  <2>5. pending'[m] \in {"pending"}
    BY <1>1, <1>5, <2>1, PlacesNamed DEF Hold, Roles, Message, ApprovalTypes
  <2> QED
    BY <1>5, <2>1, <2>3, <2>4, <2>5 DEF QueueInv, Approvals, Refuses, Verdict
<1>6. CASE ~(Hold(c) /\ m = c)
  <2>1. pending'[m] = pending[m]
    BY <1>1, <1>6, HeyGoes, PlacesNamed DEF Hold, ApprovalTypes, Message, Roles, At, Underway
  <2> QED
    BY <1>1, <1>2, <1>3, <1>4, <2>1, QueueAlone DEF Kept, Underway, Deciding
<1> QED
  BY <1>5, <1>6

\* A verdict is read: the record was pending, so that nothing has acted on it, or rejected.
LEMMA ReadQueue ==
    ASSUME ApprovalInv, NEW c \in Call, NEW n \in Call, ApproveRead(c, n) \/ RejectRead(c, n),
           NEW m \in Call
    PROVE  QueueInv(m)'
<1>1. Kept(c) /\ Roles(c) /\ NotYet(c) /\ UNCHANGED <<pending, contested>> /\ pc[c] = "idle"
  BY ReadKeeps, PlacesNamed DEF ApproveRead, RejectRead, Read, At, CallInv
<1>2. /\ op'[c].kind = IF ApproveRead(c, n) THEN "approve" ELSE "reject"
      /\ op'[c].msg = n /\ op[c].kind = "none"
      /\ pc'[c] \in {"approve", "reject", "discard"}
      /\ pc'[c] = "approve" <=> ApproveRead(c, n)
      /\ pc'[c] = "discard" <=> RejectRead(c, n) /\ pending[n] = "rejected"
  <2>1. op \in [Call -> Ops] /\ pc \in [Call -> Places]
    BY PlacesNamed DEF ApprovalTypes
  <2>2. ApproveRead(c, n) => pc'[c] = "approve" /\ op'[c].kind = "approve" /\ op'[c].msg = n
    BY <2>1 DEF ApproveRead, Read, Goto
  <2>3. RejectRead(c, n) =>
          /\ pc'[c] = (IF pending[n] = "rejected" THEN "discard" ELSE "reject")
          /\ op'[c].kind = "reject" /\ op'[c].msg = n
    BY <2>1 DEF RejectRead, Read, Goto
  <2> QED
    BY <1>1, <2>2, <2>3 DEF Roles, At
<1>3. /\ \A d \in Call \ {c} : op'[d] = op[d] /\ pc'[d] = pc[d] /\ outcome'[d] = outcome[d]
      /\ \A d \in Call \ {c} : Acted(d)' <=> Acted(d)
  BY <1>1 DEF Kept, Alone, Acted, Posted
<1>4. ~Acted(c)'
  BY <1>1, <1>2 DEF Kept, CallInv, NotYet, Early, Underway, Acted
<1>5. QueueInv(m) /\ QueueInv(n) /\ pending[n] # "none"
  BY DEF ApprovalInv, ApproveRead, RejectRead
<1>6. CASE n # m
  <2>1. \A d \in Call : Verdict(d, m) \/ Verdict(d, m)' => d # c
    BY <1>2, <1>6 DEF Verdict, About
  <2>2. Refuses(c, m)' => FALSE
    BY <1>2, <1>6 DEF Refuses, About
  <2>3. \A d \in Call \ {c} : Refuses(d, m)' <=> Refuses(d, m)
    BY <1>3 DEF Refuses, About, At
  <2>4. \A d \in Approvals(m) : d # c
    BY <2>1 DEF Approvals, Verdict
  <2>5. op[m].kind = "hey" /\ At(m, "done") => op'[m].kind = "hey" /\ At(m, "done")'
    BY <1>2, <1>3 DEF At
  <2> QED
    BY <1>1, <1>3, <1>5, <2>1, <2>2, <2>3, <2>4, <2>5, QueueKeeps DEF Approvals, Deciding
<1>7. CASE n = m
  <2>1. op[m].kind = "hey" /\ At(m, "done") /\ m # c
    BY <1>1, <1>5, <1>7 DEF QueueInv, At
  <2>2. op'[m].kind = "hey" /\ At(m, "done")'
    BY <1>3, <2>1 DEF At
  <2>3. \A d \in Approvals(m)' : (d = c /\ ApproveRead(c, n)) \/ (d # c /\ d \in Approvals(m))
    BY <1>2, <1>3 DEF Approvals, About
  <2>4. \A d \in Approvals(m)' : Acted(d)' => d # c /\ d \in Approvals(m) /\ Acted(d)
    BY <1>3, <1>4, <2>3 DEF Approvals
  <2>5. \A r \in Call : Refuses(r, m)' => Refuses(r, m) \/ pending[m] = "rejected"
    BY <1>2, <1>3, <1>7 DEF Refuses, About, At
  <2>6. ApproveRead(c, n) => pending[m] = "pending"
    BY <1>7 DEF ApproveRead
  <2>7. \A d \in Approvals(m)' : ~ApproveRead(c, n) =>
          /\ d \in Approvals(m)
          /\ (Acted(d)' <=> Acted(d)) /\ (Deciding(d)' <=> Deciding(d))
    BY <1>3, <2>3 DEF Deciding, Approvals
  <2>8. ASSUME m \notin contested, NEW a \in Approvals(m)', Acted(a)'
        PROVE  /\ pending[m] \in {"approved", "none"}
               /\ \A d \in Approvals(m)' \ {a} : ~Deciding(d)' /\ ~Acted(d)'
    <3>1. a \in Approvals(m) /\ Acted(a) /\ a \in Call
      BY <2>4, <2>8 DEF Approvals
    <3>2. /\ pending[m] \in {"approved", "none"}
          /\ \A d \in Approvals(m) \ {a} : ~Deciding(d) /\ ~Acted(d)
      BY <1>5, <2>8, <3>1 DEF QueueInv
    <3> QED
      BY <2>6, <2>7, <3>2
  <2>9. ASSUME m \notin contested, pending[m] = "rejected" \/ \E r \in Call : Refuses(r, m)'
        PROVE  /\ pending[m] \in {"rejected", "none"}
               /\ \A d \in Approvals(m)' : ~Deciding(d)' /\ ~Acted(d)'
    <3>1. /\ pending[m] \in {"rejected", "none"}
          /\ \A d \in Approvals(m) : ~Deciding(d) /\ ~Acted(d)
      BY <1>5, <2>5, <2>9 DEF QueueInv
    <3> QED
      BY <2>6, <2>7, <3>1
  <2> QED
    BY <1>1, <2>2, <2>8, <2>9 DEF QueueInv
<1> QED
  BY <1>6, <1>7

\* A call that marks a record has read it and sent nothing.
LEMMA MarkerIs ==
    ASSUME ApprovalInv, NEW c \in Call,
           ApproveDraft(c) \/ RejectDraft(c) \/ ApproveMark(c) \/ RejectMark(c)
    PROVE  /\ Kept(c) /\ ~Acted(c) /\ UNCHANGED op /\ op[c].msg \in Call
           /\ pc[c] \in {"approve", "approving"} <=> op[c].kind = "approve"
           /\ pc[c] \in {"reject", "rejecting"} <=> op[c].kind = "reject"
           /\ (Posted(c)' <=> Posted(c)) /\ (Arrived(c)' <=> Arrived(c))
           /\ outcome[c] # "failed" /\ op[c].kind \in {"approve", "reject"}
<1>1. Kept(c) /\ Roles(c) /\ NotYet(c) /\ op[c] \in Ops
  BY MarkKeeps, PlacesNamed DEF CallInv, ApprovalTypes
<1>2. /\ UNCHANGED <<apiVars, op>> /\ pc[c] \in Early
      /\ pc[c] \in {"approve", "approving", "reject", "rejecting"}
  BY DEF ApproveDraft, RejectDraft, ApproveMark, RejectMark, At, Early
<1>3. /\ pc[c] \in {"approve", "approving"} <=> op[c].kind = "approve"
      /\ pc[c] \in {"reject", "rejecting"} <=> op[c].kind = "reject"
      /\ op[c].msg \in Call /\ ~op[c].team
  BY <1>1, <1>2 DEF Roles, At, Underway, Ops
<1>4. (Posted(c)' <=> Posted(c)) /\ (Arrived(c)' <=> Arrived(c))
  BY <1>2 DEF apiVars, inbox, Posted, Arrived
<1>5. ~Acted(c)
  BY <1>1, <1>2 DEF NotYet, Acted, Underway
<1> QED
  BY <1>1, <1>2, <1>3, <1>4, <1>5, EarlyOutcome

\* A draft that is written, or cannot be, leaves the record as it was.
LEMMA DraftQueue ==
    ASSUME ApprovalInv, NEW c \in Call, ApproveDraft(c) \/ RejectDraft(c), NEW m \in Call
    PROVE  QueueInv(m)'
<1>1. /\ UNCHANGED pending /\ contested \subseteq contested'
      /\ pc[c] \in {"approve", "reject"}
      /\ \/ pc'[c] \in {"approving", "rejecting"} /\ outcome'[c] = outcome[c]
         \/ pc'[c] = "done" /\ outcome'[c] = "failed"
  <2>1. Throws(c) => pc'[c] = "done" /\ outcome'[c] = "failed"
    BY ThrowsEffect, PlacesNamed DEF Progress
  <2>2. \A next \in {"approving", "rejecting"} : Goto(c, next) => pc'[c] = next
    BY PlacesNamed DEF Goto, ApprovalTypes
  <2> QED
    BY <2>1, <2>2 DEF ApproveDraft, RejectDraft, Drafts, At
<1>2. ~Acted(c)' /\ (About(c, "approve", m) /\ Deciding(c)' => Deciding(c)) /\ ~Refuses(c, m)'
  BY <1>1, MarkerIs DEF Acted, Underway, Deciding, About, Refuses, At
<1> QED
  BY <1>1, <1>2, MarkerIs, QueueAlone DEF Kept

\* A record is marked, or the draft has gone: of two marks of one message that do not
\* overlap the first is the only one.
LEMMA MarkQueue ==
    ASSUME ApprovalInv, NEW c \in Call, ApproveMark(c) \/ RejectMark(c), NEW m \in Call
    PROVE  QueueInv(m)'
<1> DEFINE n == op[c].msg
<1>1. /\ Kept(c) /\ ~Acted(c) /\ UNCHANGED op /\ n \in Call
      /\ pc[c] \in {"approving", "rejecting"}
      /\ pc[c] = "approving" <=> ApproveMark(c)
      /\ outcome[c] # "failed"
      /\ pending \in [Call -> {"none", "pending", "approved", "rejected"}]
      /\ (Posted(c)' <=> Posted(c)) /\ (Arrived(c)' <=> Arrived(c))
  BY MarkerIs, PlacesNamed DEF ApproveMark, RejectMark, At, ApprovalTypes
<1>2. (ApproveMark(c) <=> op[c].kind = "approve") /\ (RejectMark(c) <=> op[c].kind = "reject")
  BY <1>1, MarkerIs DEF ApproveMark, RejectMark, At
<1>3. CASE Throws(c) /\ UNCHANGED <<pending, contested>>
  <2>1. pc'[c] = "done" /\ outcome'[c] = "failed"
    BY <1>3, ThrowsEffect, PlacesNamed DEF Progress
  <2>2. ~Acted(c)' /\ ~Deciding(c)' /\ ~Refuses(c, m)'
    BY <1>1, <2>1 DEF Acted, Underway, Deciding, Refuses, At
  <2> QED
    BY <1>1, <1>3, <2>1, <2>2, QueueAlone DEF Kept
<1>4. CASE /\ UNCHANGED outcome
           /\ pending' = [pending EXCEPT ![n] = draft[n]]
           /\ contested' = IF Overlaps(c, n) \/ (~ApproveMark(c) /\ pending[n] # "pending")
                           THEN contested \cup {n} ELSE contested
           /\ pc' = [pc EXCEPT ![c] = IF ApproveMark(c) THEN "resolve" ELSE "discard"]
  <2>1. /\ pending'[n] = draft[n]
        /\ \A k \in Call \ {n} : pending'[k] = pending[k]
        /\ pc'[c] = (IF ApproveMark(c) THEN "resolve" ELSE "discard")
    BY <1>1, <1>4, PlacesNamed DEF ApprovalTypes
  <2>2. CASE m # n
    <3>1. ~About(c, "approve", m) /\ ~Refuses(c, m)'
      BY <1>1, <2>2 DEF About, Refuses
    <3> QED
      BY <1>1, <1>4, <2>1, <2>2, <3>1, QueueAlone DEF Kept
  <2>3. CASE m = n
    <3>1. /\ \A d \in Call \ {c} : pc'[d] = pc[d] /\ outcome'[d] = outcome[d]
          /\ \A d \in Call \ {c} : Acted(d)' <=> Acted(d)
      BY <1>1 DEF Kept, Alone, Acted, Posted
    <3>2. QueueInv(m) /\ Verdict(c, m) /\ DraftInv(m)
      BY <1>1, <1>2, <2>3 DEF ApprovalInv, Verdict, About
    <3>3. op'[m].kind = "hey" /\ At(m, "done")' /\ m # c
      BY <1>1, <3>1, <3>2 DEF QueueInv, At
    <3>4. Approvals(m)' = Approvals(m)
      BY <1>1 DEF Approvals, About
    <3>5. \A r \in Call \ {c} : Refuses(r, m)' <=> Refuses(r, m)
      BY <1>1, <3>1 DEF Refuses, About, At
    <3>6. ASSUME m \notin contested'
          PROVE  /\ m \notin contested
                 /\ \A d \in Call \ {c} : op[d].msg = m =>
                      pc[d] \notin {"approve", "approving", "reject", "rejecting"}
                 /\ ~ApproveMark(c) => pending[m] = "pending"
                 /\ pending'[m] = IF ApproveMark(c) THEN "approved" ELSE "rejected"
      <4>1. /\ m \notin contested
            /\ \A d \in Call \ {c} : op[d].msg = m =>
                 pc[d] \notin {"approve", "approving", "reject", "rejecting"}
            /\ ~ApproveMark(c) => pending[m] = "pending"
        BY <1>4, <2>3, <3>6 DEF Overlaps
      <4> QED
        BY <1>1, <2>1, <2>3, <3>2, <4>1 DEF DraftInv, Marking
    <3>7. CASE ApproveMark(c)
      <4>1. c \in Approvals(m) /\ Deciding(c) /\ pc'[c] = "resolve" /\ ~Refuses(c, m)'
        BY <1>1, <1>2, <2>1, <2>3, <3>7 DEF Approvals, About, At, Refuses, Deciding
      <4>2. ASSUME m \notin contested'
            PROVE  /\ \A d \in Approvals(m) \ {c} : ~Acted(d) /\ ~Deciding(d)
                   /\ \A r \in Call : ~Refuses(r, m)
                   /\ ~Deciding(c)'
        BY <3>2, <3>6, <4>1, <4>2 DEF QueueInv, Approvals, About, Deciding
      <4> QED
        BY <2>3, <3>1, <3>3, <3>4, <3>5, <3>6, <3>7, <4>1, <4>2
        DEF QueueInv, Deciding, Approvals
    <3>8. CASE ~ApproveMark(c)
      <4>1. c \notin Approvals(m)
        BY <1>2, <3>8 DEF Approvals, About
      <4>2. ASSUME m \notin contested'
            PROVE  \A d \in Approvals(m) : ~Acted(d) /\ ~Deciding(d)
        BY <3>2, <3>6, <3>8, <4>1, <4>2 DEF QueueInv, Approvals, About, Deciding
      <4> QED
        BY <2>3, <3>1, <3>3, <3>4, <3>6, <3>8, <4>1, <4>2 DEF QueueInv, Deciding, Approvals
    <3> QED
      BY <3>7, <3>8
  <2> QED
    BY <2>2, <2>3
<1> QED
  BY <1>1, <1>2, <1>3, <1>4 DEF ApproveMark, RejectMark, Renames, Message, Goto, At

\* A record is deleted, or its process killed.
LEMMA EndQueue ==
    ASSUME ApprovalInv, NEW c \in Call, ApproveDelete(c) \/ RejectDelete(c) \/ Killed(c),
           NEW m \in Call
    PROVE  QueueInv(m)'
<1>1. /\ Kept(c) /\ UNCHANGED <<op, contested, outcome>> /\ Roles(c)
      /\ pc[c] \notin {"done", "dead"} /\ pc'[c] \in {"done", "dead"}
      /\ pc'[c] = "done" => (op[c].kind = "reject" => At(c, "discard"))
  BY DeleteKeeps, KilledKeeps, PlacesNamed
  DEF ApproveDelete, RejectDelete, Delete, Killed, OnlyPc, Goto, At, CallInv, ApprovalTypes,
      Roles, Underway
<1>2. pending'[m] \in {pending[m], "none"}
  BY PlacesNamed DEF ApproveDelete, RejectDelete, Delete, Killed, OnlyPc, ApprovalTypes
<1>3. Acted(c)' => Acted(c)
  <2>1. UNCHANGED apiVars
    BY DEF ApproveDelete, RejectDelete, Delete, Killed, OnlyPc
  <2> QED
    BY <1>1, <2>1 DEF apiVars, inbox, Acted, Posted, Arrived, Underway
<1>4. Refuses(c, m)' => Refuses(c, m)
  BY <1>1 DEF Refuses, About, At
<1> QED
  BY <1>1, <1>2, <1>3, <1>4, QueueAlone DEF Kept, At, Deciding

LEMMA QueueSteps ==
    ASSUME ApprovalInv, [Next]_allVars, NEW m \in Call PROVE QueueInv(m)'
<1>1. CASE ApiNext /\ UNCHANGED <<pc, outcome, route, pending, contested>>
  <2>1. PICK c \in Call : Kept(c) /\ Posted(c) /\ pc[c] \notin Early
    BY <1>1, ApiKeeps
  <2>2. UNCHANGED op /\ Acted(c)
    BY <1>1, <2>1 DEF ApiNext, Acted
  <2> QED
    BY <1>1, <2>1, <2>2, QueueAlone DEF Kept, Refuses, About, At, Deciding
<1>2. CASE UNCHANGED allVars \/ \E n \in Call : Expire(n)
  <2>1. UNCHANGED <<apiVars, op, pc, outcome, contested>>
    BY <1>2 DEF Expire, allVars, vars, heyVars
  <2>2. pending'[m] \in {pending[m], "none"}
    BY <1>2, PlacesNamed DEF Expire, allVars, vars, heyVars, ApprovalTypes
  <2>3. Alone(m)
    BY <2>1, <1>2 DEF Alone, apiVars, inbox, Arrived, Expire, allVars, vars, heyVars
  <2>4. Acted(m)' => Acted(m)
    BY <2>1 DEF Acted, apiVars, inbox, Posted, Arrived
  <2> QED
    BY <2>1, <2>2, <2>3, <2>4, QueueAlone DEF Refuses, About, At, Deciding
<1> QED
  BY <1>1, <1>2, HeyQueue, ReadQueue, DraftQueue, MarkQueue, EndQueue DEF Next

-----------------------------------------------------------------------------
(* The drafts. *)

\* A step of a call that touches no draft, and begins none.
LEMMA DraftAlone ==
    ASSUME ApprovalInv, NEW c \in Call, Alone(c), UNCHANGED draft, contested \subseteq contested',
           NEW m \in Call, pc'[c] \notin Marking,
           About(c, "approve", m) /\ pc[c] \in {"approving", "dead"} /\ draft[m] = "approved"
             => op'[c] = op[c] /\ pc'[c] = "dead"
    PROVE  DraftInv(m)'
<1>1. DraftInv(m) /\ \A d \in Call \ {c} : op'[d] = op[d] /\ pc'[d] = pc[d]
  BY DEF ApprovalInv, Alone
<1>2. ASSUME draft'[m] = "approved"
      PROVE  \E a \in Approvals(m)' : pc'[a] \in {"approving", "dead"}
  <2>1. PICK a \in Approvals(m) : pc[a] \in {"approving", "dead"}
    BY <1>1, <1>2 DEF DraftInv
  <2>2. a \in Call /\ About(a, "approve", m)
    BY DEF Approvals
  <2>3. a \in Approvals(m)' /\ pc'[a] \in {"approving", "dead"}
    BY <1>1, <1>2, <2>1, <2>2 DEF Approvals, About
  <2> QED
    BY <2>3
<1>3. ASSUME m \notin contested', NEW d \in Call, op'[d].msg = m, pc'[d] \in Marking
      PROVE  /\ draft'[m] = IF pc'[d] = "approving" THEN "approved" ELSE "rejected"
             /\ \A e \in Call \ {d} : op'[e].msg = m => pc'[e] \notin Marking
  <2>1. d # c /\ op[d].msg = m /\ pc[d] \in Marking /\ m \notin contested
    BY <1>1, <1>3
  <2> QED
    BY <1>1, <1>3, <2>1 DEF DraftInv
<1> QED
  BY <1>2, <1>3 DEF DraftInv

\* A draft is written by its call, or there is nothing to write it for.
LEMMA DraftWritten ==
    ASSUME ApprovalInv, NEW c \in Call, ApproveDraft(c) \/ RejectDraft(c), NEW m \in Call
    PROVE  DraftInv(m)' /\ draft' \in [Call -> Statuses]
<1> DEFINE n == op[c].msg
           status == IF ApproveDraft(c) THEN "approved" ELSE "rejected"
           next == IF ApproveDraft(c) THEN "approving" ELSE "rejecting"
<1>1. /\ Kept(c) /\ UNCHANGED op /\ n \in Call /\ pc \in [Call -> Places]
      /\ draft \in [Call -> Statuses] /\ DraftInv(m)
  BY MarkerIs, PlacesNamed DEF ApprovalTypes, ApprovalInv
<1>2. /\ pc[c] = "approve" <=> ApproveDraft(c)
      /\ pc[c] = "reject" <=> RejectDraft(c)
      /\ op[c].kind = "approve" <=> ApproveDraft(c)
  BY MarkerIs DEF ApproveDraft, RejectDraft, At
<1>3. \/ Throws(c) /\ UNCHANGED <<draft, contested>>
      \/ /\ draft' = [draft EXCEPT ![n] = status] /\ pc' = [pc EXCEPT ![c] = next]
         /\ contested' = IF Overlaps(c, n) THEN contested \cup {n} ELSE contested
  BY <1>2 DEF ApproveDraft, RejectDraft, Drafts, Message, Goto
<1>4. CASE Throws(c) /\ UNCHANGED <<draft, contested>>
  <2>1. pc'[c] = "done"
    BY <1>4, ThrowsEffect, PlacesNamed DEF Progress
  <2>2. pc[c] \notin {"approving", "dead"}
    BY <1>2
  <2> QED
    BY <1>1, <1>4, <2>1, <2>2, DraftAlone DEF Kept, Marking
<1>5. CASE /\ draft' = [draft EXCEPT ![n] = status] /\ pc' = [pc EXCEPT ![c] = next]
           /\ contested' = IF Overlaps(c, n) THEN contested \cup {n} ELSE contested
  <2>1. /\ draft' \in [Call -> Statuses] /\ draft'[n] = status
        /\ \A k \in Call \ {n} : draft'[k] = draft[k]
        /\ pc'[c] = next /\ \A d \in Call \ {c} : pc'[d] = pc[d]
    BY <1>1, <1>5 DEF Statuses
  <2>2. CASE m = n
    <3>1. draft'[m] = "approved" => c \in Approvals(m)' /\ pc'[c] = "approving"
      BY <1>1, <1>2, <2>1, <2>2 DEF Approvals, About
    <3>2. m \notin contested' => \A d \in Call \ {c} : op[d].msg = m => pc[d] \notin Marking
      BY <1>5, <2>2 DEF Overlaps, Marking
    <3> QED
      BY <1>1, <2>1, <2>2, <3>1, <3>2 DEF DraftInv, Marking
  <2>3. CASE m # n
    <3>1. draft'[m] = draft[m] /\ (m \notin contested' => m \notin contested)
      BY <1>5, <2>1, <2>3
    <3>2. Approvals(m)' = Approvals(m) /\ c \notin Approvals(m)
      BY <1>1, <2>3 DEF Approvals, About
    <3>3. Approvals(m) \subseteq Call \ {c}
      BY <3>2 DEF Approvals
    <3> QED
      BY <1>1, <2>1, <2>3, <3>1, <3>2, <3>3 DEF DraftInv
  <2> QED
    BY <2>1, <2>2, <2>3
<1> QED
  BY <1>3, <1>4, <1>5

\* A draft is renamed, or has gone.
LEMMA DraftRenamed ==
    ASSUME ApprovalInv, NEW c \in Call, ApproveMark(c) \/ RejectMark(c), NEW m \in Call
    PROVE  DraftInv(m)' /\ draft' \in [Call -> Statuses]
<1> DEFINE n == op[c].msg
<1>1. /\ Kept(c) /\ UNCHANGED op /\ n \in Call /\ pc \in [Call -> Places]
      /\ draft \in [Call -> Statuses] /\ DraftInv(m) /\ pc[c] \in {"approving", "rejecting"}
  BY MarkerIs, PlacesNamed DEF ApprovalTypes, ApprovalInv, ApproveMark, RejectMark, At
<1>2. pc'[c] \notin Marking /\ contested \subseteq contested'
  <2>1. Throws(c) => pc'[c] = "done"
    BY ThrowsEffect, PlacesNamed DEF Progress
  <2> QED
    BY <1>1, <2>1 DEF ApproveMark, RejectMark, Renames, Goto, Marking
<1>3. CASE draft[n] = "none" /\ UNCHANGED draft
  BY <1>1, <1>2, <1>3, DraftAlone DEF Kept, About
<1>4. CASE draft' = [draft EXCEPT ![n] = "none"]
  <2>1. /\ draft' \in [Call -> Statuses] /\ draft'[n] = "none"
        /\ \A k \in Call \ {n} : draft'[k] = draft[k]
    BY <1>1, <1>4 DEF Statuses
  <2>2. \A d \in Call \ {c} : pc'[d] = pc[d]
    BY <1>1 DEF Kept, Alone
  <2>3. CASE m # n
    <3>1. Approvals(m)' = Approvals(m) /\ Approvals(m) \subseteq Call \ {c}
      BY <1>1, <2>3 DEF Approvals, About
    <3> QED
      BY <1>1, <1>2, <2>1, <2>2, <2>3, <3>1 DEF DraftInv
  <2>4. CASE m = n
    <3>1. m \notin contested' => \A d \in Call \ {c} : op[d].msg = m => pc[d] \notin Marking
      BY <1>1, <1>2, <2>4 DEF DraftInv, Marking
    <3> QED
      BY <1>1, <1>2, <2>1, <2>2, <2>4, <3>1 DEF DraftInv
  <2> QED
    BY <2>1, <2>3, <2>4
<1> QED
  BY <1>3, <1>4 DEF ApproveMark, RejectMark, Renames, Message

LEMMA DraftSteps ==
    ASSUME ApprovalInv, [Next]_allVars, NEW m \in Call
    PROVE  DraftInv(m)' /\ draft' \in [Call -> Statuses]
<1>1. draft \in [Call -> Statuses] /\ DraftInv(m)
  BY DEF ApprovalInv
<1>2. ASSUME NEW c \in Call, HeyStep(c), UNCHANGED <<draft, contested>>
      PROVE  DraftInv(m)' /\ draft' \in [Call -> Statuses]
  BY <1>1, <1>2, HeyKeeps, HeyGoes, DraftAlone DEF Kept, Underway, Marking
<1>3. ASSUME NEW c \in Call, NEW n \in Call, ApproveRead(c, n) \/ RejectRead(c, n)
      PROVE  DraftInv(m)' /\ draft' \in [Call -> Statuses]
  <2>1. /\ Kept(c) /\ pc[c] = "idle" /\ UNCHANGED <<draft, contested>>
        /\ pc'[c] \in {"approve", "reject", "discard"}
    BY <1>3, ReadKeeps, PlacesNamed DEF ApproveRead, RejectRead, Read, At, Goto, ApprovalTypes
  <2> QED
    BY <1>1, <2>1, DraftAlone DEF Kept, Marking
<1>4. ASSUME NEW c \in Call, ApproveDelete(c) \/ RejectDelete(c) \/ Killed(c)
      PROVE  DraftInv(m)' /\ draft' \in [Call -> Statuses]
  <2>1. /\ Kept(c) /\ UNCHANGED <<op, draft, contested>> /\ pc'[c] \in {"done", "dead"}
        /\ pc[c] \in {"returned", "discard"} \/ pc'[c] = "dead"
    BY <1>4, DeleteKeeps, KilledKeeps, PlacesNamed
    DEF ApproveDelete, RejectDelete, Delete, Killed, OnlyPc, Goto, At, ApprovalTypes
  <2> QED
    BY <1>1, <2>1, DraftAlone DEF Kept, Marking
<1>5. CASE \/ UNCHANGED allVars \/ \E n \in Call : Expire(n)
           \/ ApiNext /\ UNCHANGED <<pc, outcome, route, pending, draft, contested>>
  <2>1. UNCHANGED <<op, pc, draft, contested>>
    BY <1>5 DEF Expire, ApiNext, allVars, vars, heyVars
  <2> QED
    BY <1>1, <2>1 DEF DraftInv, Approvals, About
<1> QED
  BY <1>2, <1>3, <1>4, <1>5, DraftWritten, DraftRenamed DEF Next

-----------------------------------------------------------------------------
LEMMA HandSteps == ASSUME ApprovalInv, [Next]_allVars PROVE ApprovedIsInHand'
<1> SUFFICES ASSUME NEW m \in Call, pending'[m] = "approved"
             PROVE  \E c \in Approvals(m)' : \/ pc'[c] \notin {"idle", "approve", "done"}
                                             \/ At(c, "done")' /\ outcome'[c] = "failed"
  BY DEF ApprovedIsInHand
<1> DEFINE InHand(c) == pc[c] \notin {"idle", "approve", "done"} \/ (At(c, "done") /\ outcome[c] = "failed")
<1>1. /\ pending \in [Call -> {"none", "pending", "approved", "rejected"}]
      /\ pc \in [Call -> Places]
  BY PlacesNamed DEF ApprovalTypes
<1>2. pending[m] = "approved" => \E c \in Approvals(m) : InHand(c)
  BY DEF ApprovalInv, ApprovedIsInHand
<1> SUFFICES \E c \in Approvals(m)' : InHand(c)'
  BY DEF At
\* A call that had the message in hand still has, unless it is the one that steps.
<1>3. ASSUME NEW c \in Call, Alone(c), pending[m] = "approved",
             op'[c] = op[c] \/ op[c].kind = "none",
             About(c, "approve", m) /\ InHand(c) => InHand(c)'
      PROVE  \E d \in Approvals(m)' : InHand(d)'
  <2>1. PICK d \in Approvals(m) : InHand(d)
    BY <1>2, <1>3
  <2>2. d \in Call /\ About(d, "approve", m)
    BY DEF Approvals
  <2>3. CASE d = c
    BY <1>3, <2>1, <2>2, <2>3 DEF Approvals, About
  <2>4. CASE d # c
    <3>1. op'[d] = op[d] /\ pc'[d] = pc[d] /\ outcome'[d] = outcome[d]
      BY <1>3, <2>2, <2>4 DEF Alone
    <3> QED
      BY <2>1, <2>2, <3>1 DEF Approvals, About, At
  <2> QED
    BY <2>3, <2>4
<1>4. ASSUME NEW c \in Call, HeyStep(c), UNCHANGED contested PROVE \E d \in Approvals(m)' : InHand(d)'
  <2>1. Kept(c) /\ Roles(c)
    BY <1>4, HeyKeeps, PlacesNamed DEF CallInv
  <2>2. pending[m] = "approved"
    BY <1>1, <1>4, HeyGoes DEF Hold
  <2>3. op'[c] = op[c] \/ op[c].kind = "none"
    BY <1>4, <2>1, HeyGoes DEF Roles, At
  <2>4. ASSUME op[c].kind = "approve", pc[c] \notin {"idle", "approve", "done"}
        PROVE  pc'[c] \notin {"idle", "approve", "done"} \/ (pc'[c] = "done" /\ outcome'[c] = "failed")
    BY <1>4, <2>4, HeyGoes, ApproveGoesOn DEF Underway
  <2>5. op[c].kind = "approve" => pc[c] \notin {"idle", "approve", "done"}
    BY <1>4, <2>1, HeyGoes DEF Roles, At, Underway
  <2> QED
    BY <1>3, <2>1, <2>2, <2>3, <2>4, <2>5 DEF Kept, About, At
<1>5. ASSUME NEW c \in Call, NEW n \in Call, ApproveRead(c, n) \/ RejectRead(c, n)
      PROVE  \E d \in Approvals(m)' : InHand(d)'
  <2>1. Kept(c) /\ Roles(c) /\ pc[c] = "idle" /\ UNCHANGED pending
    BY <1>5, ReadKeeps, PlacesNamed DEF CallInv, ApproveRead, RejectRead, Read, At
  <2> QED
    BY <1>3, <2>1 DEF Kept, Roles, About, At
<1>6. ASSUME NEW c \in Call,
             ApproveDraft(c) \/ RejectDraft(c) \/ ApproveMark(c) \/ RejectMark(c)
      PROVE  \E d \in Approvals(m)' : InHand(d)'
  <2>1. /\ Kept(c) /\ UNCHANGED op /\ op[c].msg \in Call
        /\ pc[c] \in {"approve", "approving"} <=> op[c].kind = "approve"
    BY <1>6, MarkerIs
  <2>2. op[c].kind = "approve" /\ InHand(c) => InHand(c)'
    <3>1. Throws(c) => pc'[c] = "done" /\ outcome'[c] = "failed"
      BY ThrowsEffect, PlacesNamed DEF Progress
    <3>2. \A next \in {"approving", "resolve"} : Goto(c, next) => pc'[c] = next
      BY <1>1 DEF Goto
    <3> QED
      BY <1>6, <2>1, <3>1, <3>2
      DEF ApproveDraft, RejectDraft, ApproveMark, RejectMark, Drafts, Renames, At
  <2>3. CASE pending'[m] = pending[m]
    BY <1>3, <2>1, <2>2, <2>3 DEF Kept, About
  <2>4. CASE pending'[m] # pending[m]
    <3>2. op[c].msg = m /\ draft[m] = "approved"
      BY <1>1, <1>6, <2>1, <2>4
      DEF ApproveDraft, RejectDraft, ApproveMark, RejectMark, Renames, Message
    <3>3. PICK a \in Approvals(m) : pc[a] \in {"approving", "dead"}
      BY <3>2 DEF ApprovalInv, DraftInv
    <3>4. a \in Call /\ About(a, "approve", m)
      BY DEF Approvals
    <3>5. CASE a # c
      <4>1. op'[a] = op[a] /\ pc'[a] = pc[a]
        BY <2>1, <3>4, <3>5 DEF Kept, Alone
      <4> QED
        BY <3>3, <3>4, <4>1 DEF Approvals, About
    <3>6. CASE a = c
      <4>1. InHand(c)'
        BY <2>1, <2>2, <3>3, <3>4, <3>6 DEF About
      <4> QED
        BY <2>1, <3>4, <3>6, <4>1 DEF Approvals, About
    <3> QED
      BY <3>5, <3>6
  <2> QED
    BY <2>3, <2>4
<1>7. ASSUME NEW c \in Call, ApproveDelete(c) \/ RejectDelete(c)
      PROVE  \E d \in Approvals(m)' : InHand(d)'
  <2>1. /\ Kept(c) /\ Roles(c) /\ UNCHANGED op /\ pc[c] \in {"returned", "discard"}
        /\ op[c].msg \in Call /\ op[c] \in Ops /\ pending' = [pending EXCEPT ![op[c].msg] = "none"]
    BY <1>7, DeleteKeeps, PlacesNamed
    DEF CallInv, ApproveDelete, RejectDelete, Delete, Roles, At, Message, ApprovalTypes
  <2>2. pending[m] = "approved" /\ op[c].msg # m
    BY <1>1, <2>1
  <2> QED
    BY <1>3, <2>1, <2>2 DEF Kept, About
<1>8. ASSUME NEW c \in Call, Killed(c) PROVE \E d \in Approvals(m)' : InHand(d)'
  <2>1. Kept(c) /\ UNCHANGED <<op, pending>> /\ pc'[c] = "dead"
    BY <1>1, <1>8, KilledKeeps DEF Killed, OnlyPc, Goto
  <2> QED
    BY <1>3, <2>1 DEF Kept
<1>9. CASE \/ UNCHANGED allVars \/ \E n \in Call : Expire(n)
           \/ ApiNext /\ UNCHANGED <<pc, outcome, route, pending, contested>>
  <2>1. UNCHANGED <<op, pc, outcome>>
    BY <1>9 DEF Expire, ApiNext, allVars, vars, heyVars
  <2>2. pending[m] = "approved"
    BY <1>1, <1>9 DEF Expire, allVars, vars, heyVars
  <2> QED
    BY <1>2, <2>1, <2>2 DEF Approvals, About, At
<1> QED
  BY <1>4, <1>5, <1>6, <1>7, <1>8, <1>9 DEF Next

LEMMA ApprovalSteps == ApprovalInv /\ [Next]_allVars => ApprovalInv'
<1> SUFFICES ASSUME ApprovalInv, [Next]_allVars PROVE ApprovalInv'
  OBVIOUS
<1>1. CASE Call = {}
  <2>1. UNCHANGED draft
    BY <1>1 DEF Next, allVars
  <2> QED
    BY <1>1, <2>1, CallsKeep, HandSteps DEF ApprovalInv
<1>2. CASE Call # {}
  BY <1>2, CallsKeep, QueueSteps, DraftSteps, HandSteps DEF ApprovalInv
<1> QED
  BY <1>1, <1>2

LEMMA ApprovalStarts == Init => ApprovalInv
<1> SUFFICES ASSUME Init PROVE ApprovalInv
  OBVIOUS
<1> USE DEF Init, HeyInit, ApiInit
<1>1. ApprovalTypes
  BY DEF ApprovalTypes, Ops, NoOp, Places
<1>2. ASSUME NEW c \in Call PROVE CallInv(c)
  <2>1. \A leg \in Leg : request[<<c, leg>>] = "none"
    BY Pairs
  <2>2. ~Posted(c)
    BY <2>1 DEF Posted
  <2>3. ~Arrived(c)
    BY DEF Arrived
  <2> QED
    BY <2>1, <2>2, <2>3 DEF CallInv, Roles, NotYet, Single, Truthful, At, NoOp
<1>3. ASSUME NEW m \in Call PROVE QueueInv(m)
  <2>1. \A c \in Call : ~Verdict(c, m)
    BY DEF Verdict, About, NoOp
  <2> QED
    BY <2>1 DEF QueueInv, Verdict, Approvals, Refuses
<1>4. ApprovedIsInHand
  BY DEF ApprovedIsInHand
<1>5. draft \in [Call -> Statuses] /\ \A m \in Call : DraftInv(m)
  BY DEF Statuses, DraftInv, Marking
<1> QED
  BY <1>1, <1>2, <1>3, <1>4, <1>5 DEF ApprovalInv

LEMMA ApprovalInvariant == Spec => []ApprovalInv
BY ApprovalStarts, ApprovalSteps, PTL DEF Spec

-----------------------------------------------------------------------------
\* comm-send.ts: what a call reports is so.  "delivered" was typed and "queued" typed or
\* filed; a failure of what has arrived is one of a request, of a throw after the keys or
\* behind an exit; and but for such an exit a message is submitted once.
THEOREM ReportHonest == Spec => []ReportIsHonest
<1>1. ApprovalInv => ReportIsHonest
  <2> SUFFICES ASSUME ApprovalInv, NEW c \in Call
               PROVE  /\ outcome[c] = "delivered" => landed[c] > 0
                      /\ outcome[c] = "queued" => Arrived(c)
                      /\ outcome[c] = "failed" /\ Arrived(c) =>
                           \/ op[c].team
                           \/ \E leg \in Leg : request[<<c, leg>>] # "none"
                           \/ route[c] = "local" /\ ~op[c].inboxOnly
                      /\ landed[c] > 1 => op[c].team
    BY DEF ReportIsHonest, SuccessIsTrue, FailureIsTrueUnless, OnceUnlessFanOut
  <2>1. CallInv(c) /\ landed[c] \in Nat
    BY PlacesNamed DEF ApprovalTypes
  <2> QED
    BY <2>1 DEF CallInv, Single, Truthful, Posted
<1> QED
  BY <1>1, ApprovalInvariant, PTL

\* comm-send.ts and impl.ts of the inbox plugin: what the gate held reaches nobody without an
\* approval, through one only, and not if it was rejected, until two verdicts on it overlap or
\* a rejection replaces an approval.
THEOREM HeldWaits == Spec => []HeldWaitsForVerdict
<1>1. ApprovalInv => HeldWaitsForVerdict
  <2> SUFFICES ASSUME ApprovalInv, NEW m \in Call, outcome[m] = "held"
               PROVE  /\ ~Arrived(m)
                      /\ m \notin contested =>
                           /\ \A c, d \in Approvals(m) : landed[c] > 0 /\ landed[d] > 0 => c = d
                           /\ \A c \in Approvals(m), r \in Call :
                                ~(About(r, "reject", m) /\ At(r, "done") /\ outcome[r] # "failed"
                                    /\ Arrived(c))
    BY DEF HeldWaitsForVerdict
  <2>1. CallInv(m) /\ QueueInv(m)
    BY DEF ApprovalInv
  <2>2. \A c \in Call : landed[c] > 0 => Acted(c)
    BY DEF Acted, Arrived
  <2>3. \A c \in Call : Arrived(c) => Acted(c)
    BY DEF Acted
  <2> QED
    BY <2>1, <2>2, <2>3 DEF CallInv, Truthful, QueueInv, Approvals, Refuses
<1> QED
  BY <1>1, ApprovalInvariant, PTL

\* impl.ts of the inbox plugin: a record stays "approved" only while its approver is at work,
\* or after that send failed or died.
THEOREM ApprovedInHand == Spec => []ApprovedIsInHand
BY ApprovalInvariant, PTL DEF ApprovalInv

\* A record goes only once its message has arrived, when it was rejected, or when it is too
\* old: nothing that the gate held is lost on the way.
THEOREM HeldNotLost == Spec => HeldIsNotLost
<1> DEFINE Removed(m) ==
      pending[m] # "none" /\ pending'[m] = "none" =>
        \/ \E c \in Approvals(m) : Arrived(c)
        \/ \E r \in Call : About(r, "reject", m)
        \/ Expire(m)
<1>1. ApprovalInv /\ [Next]_allVars => [\A m \in Call : Removed(m)]_allVars
  <2> SUFFICES ASSUME ApprovalInv, Next, NEW m \in Call, pending[m] # "none", pending'[m] = "none"
               PROVE  \/ \E c \in Approvals(m) : Arrived(c)
                      \/ \E r \in Call : About(r, "reject", m)
                      \/ Expire(m)
    OBVIOUS
  <2>1. pending \in [Call -> {"none", "pending", "approved", "rejected"}]
    BY PlacesNamed DEF ApprovalTypes
  <2>2. ASSUME NEW c \in Call, HeyStep(c) PROVE FALSE
    BY <2>1, <2>2, HeyGoes DEF Hold
  <2>3. ASSUME NEW c \in Call, ApproveMark(c) \/ RejectMark(c) PROVE FALSE
    <3>1. draft[op[c].msg] \in Statuses
      BY <2>3, MarkerIs DEF ApprovalInv
    <3> QED
      BY <2>1, <2>3, <3>1 DEF ApproveMark, RejectMark, Renames, Message
  <2>4. ASSUME NEW c \in Call, ApproveDelete(c) \/ RejectDelete(c)
        PROVE  (\E a \in Approvals(m) : Arrived(a)) \/ (\E r \in Call : About(r, "reject", m))
    <3>1. op[c].msg = m
      BY <2>1, <2>4 DEF ApproveDelete, RejectDelete, Delete, Message
    <3>2. Roles(c) /\ Truthful(c) /\ op[c] \in Ops
      BY PlacesNamed DEF CallInv, ApprovalTypes
    <3>3. CASE ApproveDelete(c)
      BY <3>1, <3>2, <3>3 DEF ApproveDelete, Roles, Truthful, At, Underway, Ops, Approvals, About
    <3>4. CASE RejectDelete(c)
      BY <3>1, <3>2, <3>4 DEF RejectDelete, Roles, At, Underway, Ops, About
    <3> QED
      BY <2>4, <3>3, <3>4
  <2>5. ASSUME NEW n \in Call, Expire(n) PROVE Expire(m)
    BY <2>1, <2>5 DEF Expire
  <2>6. ASSUME NEW c \in Call, NEW n \in Call,
               \/ Killed(c) \/ ApproveRead(c, n) \/ RejectRead(c, n)
               \/ ApproveDraft(c) \/ RejectDraft(c)
        PROVE  FALSE
    BY <2>6 DEF Killed, OnlyPc, ApproveRead, RejectRead, Read, ApproveDraft, RejectDraft
  <2> QED
    BY <2>2, <2>3, <2>4, <2>5, <2>6 DEF Next
<1> QED
  BY <1>1, ApprovalInvariant, PTL DEF Spec, HeldIsNotLost
=============================================================================
