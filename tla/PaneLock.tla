------------------------------ MODULE PaneLock ------------------------------
(***************************************************************************)
(* withPaneLock and splitWindowLocked (core/transport/tmux-pane-lock.ts):  *)
(* the in-process promise queue that serialises tmux pane creation.  A     *)
(* Caller is one call.  Promises are numbered in the order in which they   *)
(* become paneQueue; number 0 is the resolved promise the module starts    *)
(* with, so the promise before n is n - 1.  Entering the queue is one      *)
(* synchronous step; fn is the split-window command, which may reject,     *)
(* followed by the settle delay.                                           *)
(***************************************************************************)
EXTENDS Naturals, Sequences, FiniteSets

CONSTANT Caller

VARIABLES made,     \* the number of the promise that is paneQueue
          promise,  \* the promise each call has made, 0 before it has one
          resolved, \* the promises that were resolved
          pc,       \* where each call is
          panes     \* the panes tmux has created, by call, in order

vars == <<made, promise, resolved, pc, panes>>

Inside == {"split", "settle", "finally"}
Pcs    == {"idle", "waiting", "done"} \cup Inside

Init ==
    /\ made = 0
    /\ promise = [c \in Caller |-> 0]
    /\ resolved = {0}
    /\ pc = [c \in Caller |-> "idle"]
    /\ panes = <<>>

At(c, here, next) == pc[c] = here /\ pc' = [pc EXCEPT ![c] = next]

\* prev = paneQueue; paneQueue = a new promise; await prev
Enter(c) ==
    /\ At(c, "idle", "waiting")
    /\ made' = made + 1
    /\ promise' = [promise EXCEPT ![c] = made + 1]
    /\ UNCHANGED <<resolved, panes>>

\* Mutant: a flag instead of a queue; any waiting call may be next.
StartWhenFree(c) ==
    /\ \A d \in Caller : pc[d] \notin Inside
    /\ At(c, "waiting", "split")
    /\ UNCHANGED <<made, promise, resolved, panes>>

\* prev has resolved: fn issues split-window.
Start(c) ==
    /\ promise[c] - 1 \in resolved
    /\ At(c, "waiting", "split")
    /\ UNCHANGED <<made, promise, resolved, panes>>

\* tmux has created the pane; the settle delay begins.
Split(c) ==
    /\ At(c, "split", "settle")
    /\ panes' = Append(panes, c)
    /\ UNCHANGED <<made, promise, resolved>>

\* Mutant: release() is not in a finally block.
SplitFailsUnreleased(c) ==
    /\ At(c, "split", "done")
    /\ UNCHANGED <<made, promise, resolved, panes>>

\* split-window fails: fn rejects, without a settle delay.
SplitFails(c) ==
    /\ At(c, "split", "finally")
    /\ UNCHANGED <<made, promise, resolved, panes>>

Settle(c) ==
    /\ At(c, "settle", "finally")
    /\ UNCHANGED <<made, promise, resolved, panes>>

\* The finally block: release() resolves the promise of this call.
Release(c) ==
    /\ At(c, "finally", "done")
    /\ resolved' = resolved \cup {promise[c]}
    /\ UNCHANGED <<made, promise, panes>>

CallerStep(c) ==
    Start(c) \/ Split(c) \/ SplitFails(c) \/ Settle(c) \/ Release(c)

Next == \E c \in Caller : Enter(c) \/ CallerStep(c)

Spec == Init /\ [][Next]_vars

\* The event loop runs what is ready, tmux answers every command (or its
\* subprocess fails), and timers fire.
Fairness == \A c \in Caller : WF_vars(CallerStep(c))

FairSpec == Spec /\ Fairness

-----------------------------------------------------------------------------
\* Every variable has its type.
TypeOK ==
    /\ made \in Nat
    /\ promise \in [Caller -> Nat]
    /\ resolved \subseteq Nat
    /\ pc \in [Caller -> Pcs]
    /\ panes \in Seq(Caller)

\* From a caller's split-window to the end of its settle delay no other call
\* runs: nobody else's pane can appear before a call has read its pane.
OneSplitAtATime ==
    \A c, d \in Caller : pc[c] \in Inside /\ pc[d] \in Inside => c = d

\* Panes are created in the order of arrival, at most one for each call.
PanesInOrder ==
    \A i, j \in DOMAIN panes : i < j => promise[panes[i]] < promise[panes[j]]

\* The calls that wait or are served, first come first.
Line == [i \in 1..(made + 1 - Cardinality(resolved)) |->
           CHOOSE c \in Caller : promise[c] = i + Cardinality(resolved) - 1]

Queue == INSTANCE PaneQueue
         WITH line <- Line, serving <- {c \in Caller : pc[c] \in Inside}

\* withPaneLock implements a line of callers who are served one at a time, in the order in
\* which they came, and of whom each makes room for the next whatever becomes of its split.
ImplementsLine == Queue!LineSpec

\* A failed split does not poison the queue and nobody starves: every call that
\* entered the queue completes.
EveryCallServed == \A c \in Caller : pc[c] = "waiting" ~> pc[c] = "done"
=============================================================================
