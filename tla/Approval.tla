------------------------------ MODULE Approval ------------------------------
(***************************************************************************)
(* The approval queue: messages that the scope gate held are files with a  *)
(* status (commands/shared/queue-store.ts), which `maw inbox approve` and  *)
(* `maw inbox reject` read, mark and delete (plugin inbox, impl.ts).  A    *)
(* mark is two steps: the draft beside the record, whose name all marks of *)
(* the record share, and its rename over the record, which brings back one *)
(* that has gone meanwhile.  Approving sends the message again through     *)
(* cmdSend, past the gate.  Composed with Hey and SendApi.                 *)
(***************************************************************************)
EXTENDS Hey

CONSTANT Operator  \* the calls that may be a `maw inbox approve` or `reject`

VARIABLES draft,     \* the status in the tmp file of each record, or "none"
          contested  \* history: messages with two verdicts that overlapped, or with a
                     \* rejection of a record that was not pending any more

allVars == <<vars, draft, contested>>

Init == HeyInit /\ draft = [m \in Call |-> "none"] /\ contested = {}

\* Which message a call of the queue is about.
About(c, k, m) == op[c].kind = k /\ op[c].msg = m

\* resolvePendingId: the record is read, and must be pending to be approved.
Read(c, kind, m, next) ==
    /\ At(c, "idle") /\ c \in Operator /\ Goto(c, next)
    /\ op' = [op EXCEPT ![c] = [NoOp EXCEPT !.kind = kind, !.msg = m]]
    /\ UNCHANGED <<apiVars, outcome, route, pending, draft, contested>>

\* Mutant: the status is not asked.
ApproveReadAny(c, m) == pending[m] # "none" /\ Read(c, "approve", m, "approve")

ApproveRead(c, m) == pending[m] = "pending" /\ Read(c, "approve", m, "approve")

RejectRead(c, m) ==
    /\ pending[m] # "none"
    /\ Read(c, "reject", m, IF pending[m] = "rejected" THEN "discard" ELSE "reject")

Overlaps(c, m) ==
    \E d \in Call \ {c} :
        op[d].msg = m /\ pc[d] \in {"approve", "approving", "reject", "rejecting"}

\* updatePending throws if the file has gone meanwhile; else the record with its new
\* status, whatever the old one was, is written to <id>.json.tmp.
Drafts(c, status, next) ==
    LET m == Message(c) IN
    \/ /\ pending[m] = "none" /\ Throws(c)
       /\ UNCHANGED <<draft, contested>>
    \/ /\ pending[m] # "none"
       /\ draft' = [draft EXCEPT ![m] = status]
       /\ contested' = IF Overlaps(c, m) THEN contested \cup {m} ELSE contested
       /\ Goto(c, next) /\ UNCHANGED outcome

\* renameSync moves whatever that file holds by now, and throws if it is gone.
Renames(c, next) ==
    LET m == Message(c) IN
    \/ /\ draft[m] = "none" /\ Throws(c)
       /\ UNCHANGED <<pending, draft, contested>>
    \/ /\ draft[m] # "none"
       /\ pending' = [pending EXCEPT ![m] = draft[m]]
       /\ draft' = [draft EXCEPT ![m] = "none"]
       /\ contested' = IF Overlaps(c, m) \/ (next = "discard" /\ pending[m] # "pending")
                       THEN contested \cup {m} ELSE contested
       /\ Goto(c, next) /\ UNCHANGED outcome

\* Mutant: the record is taken off the queue before it is sent.
ApproveTakes(c) ==
    /\ At(c, "approving") /\ Goto(c, "resolve")
    /\ pending' = [pending EXCEPT ![Message(c)] = "none"]
    /\ UNCHANGED <<apiVars, op, route, outcome, draft, contested>>

ApproveDraft(c) ==
    /\ At(c, "approve") /\ Drafts(c, "approved", "approving")
    /\ UNCHANGED <<apiVars, op, route, pending>>
ApproveMark(c) ==
    /\ At(c, "approving") /\ Renames(c, "resolve")
    /\ UNCHANGED <<apiVars, op, route>>
RejectDraft(c) ==
    /\ At(c, "reject") /\ Drafts(c, "rejected", "rejecting")
    /\ UNCHANGED <<apiVars, op, route, pending>>
RejectMark(c) ==
    /\ At(c, "rejecting") /\ Renames(c, "discard")
    /\ UNCHANGED <<apiVars, op, route>>

\* A deletion that fails is passed over and the record stays, which to the queue is a
\* call that was killed before it (Killed).
Delete(c) ==
    /\ pending' = [pending EXCEPT ![Message(c)] = "none"]
    /\ Goto(c, "done")
    /\ UNCHANGED <<apiVars, op, outcome, route, draft, contested>>

\* Mutant: the record stays as "approved" after the send.
ApproveKeeps(c) ==
    /\ At(c, "returned") /\ Goto(c, "done")
    /\ UNCHANGED <<apiVars, op, outcome, route, pending, draft, contested>>

\* cmdSend has returned: the record is deleted.
ApproveDelete(c) == At(c, "returned") /\ Delete(c)
RejectDelete(c) == At(c, "discard") /\ Delete(c)

\* A record of thirty days goes when anybody lists the queue.
Expire(m) ==
    /\ pending[m] # "none"
    /\ pending' = [pending EXCEPT ![m] = "none"]
    /\ UNCHANGED <<apiVars, op, pc, outcome, route, draft, contested>>

\* A process killed between its file operations.  (One that only sends dies without
\* a word, which no property asks about.)
Killed(c) ==
    /\ op[c].kind \in {"approve", "reject"} /\ pc[c] \notin {"done", "dead"}
    /\ Goto(c, "dead") /\ UNCHANGED <<outcome, draft, contested>> /\ OnlyPc

Next ==
    \/ \E c \in Call :
        \/ HeyStep(c) /\ UNCHANGED <<draft, contested>>
        \/ ApproveDraft(c) \/ ApproveMark(c) \/ ApproveDelete(c)
        \/ RejectDraft(c) \/ RejectMark(c) \/ RejectDelete(c) \/ Killed(c)
        \/ \E m \in Call : ApproveRead(c, m) \/ RejectRead(c, m)
    \/ ApiNext /\ UNCHANGED <<pc, outcome, route, pending, draft, contested>>
    \/ \E m \in Call : Expire(m)

Spec == Init /\ [][Next]_allVars

-----------------------------------------------------------------------------
Approvals(m) == {c \in Call : About(c, "approve", m)}

\* A held message reaches its receiver through an approval alone, through one only,
\* and not if it was rejected, unless two verdicts on it overlapped.
HeldWaitsForVerdict ==
    \A m \in Call : outcome[m] = "held" =>
        /\ ~Arrived(m)
        /\ m \notin contested =>
            /\ \A c, d \in Approvals(m) : landed[c] > 0 /\ landed[d] > 0 => c = d
            /\ \A c \in Approvals(m), r \in Call :
                 ~(About(r, "reject", m) /\ At(r, "done") /\ outcome[r] # "failed" /\ Arrived(c))

\* A record goes only once its message has reached a pane or an inbox, or when it was
\* rejected, or was too old: what the gate held is not lost on the way.
HeldIsNotLost ==
    [][\A m \in Call : pending[m] # "none" /\ pending'[m] = "none" =>
        \/ \E c \in Approvals(m) : Arrived(c)
        \/ \E r \in Call : About(r, "reject", m)
        \/ Expire(m)]_allVars

\* impl.ts:766, "the file is left intact in that case so the operator can retry": it
\* is left, as "approved", which no retry accepts.  A record stays so only while its
\* approver is at work, or after that send failed or died.
ApprovedIsInHand ==
    \A m \in Call : pending[m] = "approved" =>
        \E c \in Approvals(m) :
            \/ pc[c] \notin {"idle", "approve", "done"}
            \/ At(c, "done") /\ outcome[c] = "failed"
=============================================================================
