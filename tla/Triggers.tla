------------------------------ MODULE Triggers ------------------------------
(***************************************************************************)
(* The trigger engine of `maw serve` (core/runtime/triggers-engine.ts,     *)
(* triggers-idle.ts, trigger-listener.ts).  fire() runs the actions of the *)
(* configured triggers that match an event, one after the other, awaiting  *)
(* each; checkIdleTriggers() runs every 15 s and awaits a fire() for every *)
(* agent that has been idle long enough.  Between two awaits the code is   *)
(* synchronous; at an await any other fire, check or feed event may run.   *)
(*                                                                         *)
(* A Task is one such activity: a fire called from the feed or the API, or *)
(* a check with the fires it calls.  An Event stands for an event and the  *)
(* repo of its context.  The time since an agent was last active is kept   *)
(* as its age, up to MaxAge, beyond which no timeout tells ages apart.     *)
(* The results shown by GET /triggers and the audit log are left out, and  *)
(* nothing but fire changes the configured triggers while the server runs. *)
(***************************************************************************)
EXTENDS Naturals, SequencesExt

CONSTANTS Task, Agent, Event, Trigger, None,
          Idle,        \* the event "agent-idle"
          FeedEvents,  \* the events the feed listener fires
          Matches,     \* the events that fire each trigger: its `on` and `repo`
          Once,        \* the triggers with `once`
          Timeout,     \* `timeout` of each trigger, 0 if it has none
          Configured,  \* config.triggers when the server starts
          MaxAge

Ages == 0..MaxAge

ASSUME TriggerConstants ==
    /\ Idle \in Event /\ FeedEvents \subseteq Event
    /\ Matches \in [Trigger -> SUBSET Event]
    /\ Once \subseteq Trigger
    /\ Timeout \in [Trigger -> Nat]
    /\ Configured \in Seq(Trigger) /\ IsInjective(Configured)
    /\ MaxAge \in Nat /\ \A t \in Trigger : Timeout[t] <= MaxAge
    /\ None \notin Agent /\ None \notin Trigger /\ None \notin Ages

VARIABLES config,    \* config.triggers
          timed,     \* the agents in idleTimers
          age,       \* the time since each agent was last active
          prev,      \* agentPrevState
          step,      \* where each task is
          event, who, list, at, anyOk,  \* fire: event, agent, triggers, i, results
          begun,     \* history: the one-time triggers that had succeeded when it was called
          idles, next, since, \* checkIdleTriggers: its triggers, the index of the
                              \* one it fires for, idleSec of the agent
          visited,   \* the agents its loop has passed
          succeeded, \* history: the triggers whose action has succeeded
          outdated   \* history: a trigger was removed by an index of an old list

fireVars  == <<step, event, who, list, at, anyOk, begun>>
checkVars == <<idles, next, since, visited>>
histories == <<succeeded, outdated>>
vars == <<config, timed, age, prev, fireVars, checkVars, histories>>

IsIdle(t) == Idle \in Matches[t]

Init ==
    /\ config = Configured
    /\ timed = {}
    /\ age = [a \in Agent |-> MaxAge]
    /\ prev = [a \in Agent |-> "none"]
    /\ step = [k \in Task |-> "free"]
    /\ event = [k \in Task |-> Idle]
    /\ who = [k \in Task |-> None]
    /\ list = [k \in Task |-> <<>>]
    /\ at = [k \in Task |-> 0]
    /\ anyOk = [k \in Task |-> FALSE]
    /\ begun = [k \in Task |-> {}]
    /\ idles = [k \in Task |-> <<>>]
    /\ next = [k \in Task |-> 0]
    /\ since = [k \in Task |-> 0]
    /\ visited = [k \in Task |-> {}]
    /\ succeeded = {} /\ outdated = FALSE

IsFirst(i, S) == i \in S /\ \A j \in S : i <= j

-----------------------------------------------------------------------------
\* The filters at the top of fire's loop.
Skips(t, e, a) ==
    \/ e \notin Matches[t]
    \/ e = Idle /\ a \in timed' /\ age'[a] < Timeout[t]

\* The triggers of the list after index i whose action fire runs.
Matching(l, i, e, a) == {j \in (i + 1)..Len(l) : ~Skips(l[j], e, a)}

\* Task k goes on with fire: to its next action, or back to the caller.
GoOn(k, l, i, e, a) ==
    \/ /\ Matching(l, i, e, a) = {}
       /\ at' = [at EXCEPT ![k] = 0]
       /\ step' = [step EXCEPT ![k] = "back"]
    \/ \E n \in 1..Len(l) :
        /\ IsFirst(n, Matching(l, i, e, a))
        /\ at' = [at EXCEPT ![k] = n]
        /\ step' = [step EXCEPT ![k] = "action"]

\* fire(e, {agent: a}) up to its first await; the list is the one of this moment.
\* The agent only matters to agent-idle.
Fire(k, e, a) ==
    /\ event' = [event EXCEPT ![k] = e]
    /\ who' = [who EXCEPT ![k] = IF e = Idle THEN a ELSE None]
    /\ list' = [list EXCEPT ![k] = config]
    /\ begun' = [begun EXCEPT ![k] = Once \cap succeeded]
    /\ anyOk' = [anyOk EXCEPT ![k] = FALSE]
    /\ GoOn(k, config, 0, e, a)

\* Mutant: the filter is off by one.
WithoutNext(l, i) == IF i + 1 \in DOMAIN l THEN RemoveAt(l, i + 1) ELSE l

\* Once-triggers are removed by index: filter((_, idx) => idx !== i).
Without(l, i) == IF i \in DOMAIN l THEN RemoveAt(l, i) ELSE l

\* Mutant: result.ok is not looked at.
AnyEndRemoves(k, ok) ==
    LET t == list[k][at[k]]
        spent == t \in Once
    IN /\ step[k] = "action"
       /\ UNCHANGED <<timed, age, prev, event, who, list, begun, checkVars>>
       /\ GoOn(k, list[k], at[k], event[k], who[k])
       /\ anyOk' = [anyOk EXCEPT ![k] = @ \/ ok]
       /\ config' = IF spent THEN Without(config, at[k]) ELSE config
       /\ succeeded' = IF ok THEN succeeded \cup {t} ELSE succeeded
       /\ outdated' = (outdated \/ (spent /\ config # list[k]))

\* The action of task k has ended: a one-time trigger that succeeded is
\* removed, and the loop goes on.
ActionEnds(k, ok) ==
    LET t == list[k][at[k]]
        spent == ok /\ t \in Once
    IN /\ step[k] = "action"
       /\ UNCHANGED <<timed, age, prev, event, who, list, begun, checkVars>>
       /\ GoOn(k, list[k], at[k], event[k], who[k])
       /\ anyOk' = [anyOk EXCEPT ![k] = @ \/ ok]
       /\ config' = IF spent THEN Without(config, at[k]) ELSE config
       /\ succeeded' = IF ok THEN succeeded \cup {t} ELSE succeeded
       /\ outdated' = (outdated \/ (spent /\ config # list[k]))

\* Task k is over; what its locals held is forgotten.
End(k) ==
    /\ step' = [step EXCEPT ![k] = "free"]
    /\ event' = [event EXCEPT ![k] = Idle]
    /\ who' = [who EXCEPT ![k] = None]
    /\ list' = [list EXCEPT ![k] = <<>>]
    /\ begun' = [begun EXCEPT ![k] = {}]
    /\ at' = [at EXCEPT ![k] = 0]
    /\ anyOk' = [anyOk EXCEPT ![k] = FALSE]
    /\ idles' = [idles EXCEPT ![k] = <<>>]
    /\ next' = [next EXCEPT ![k] = 0]
    /\ since' = [since EXCEPT ![k] = 0]

\* A fire of the feed or of the API returns.
Return(k) ==
    /\ step[k] = "back" /\ idles[k] = <<>>
    /\ End(k)
    /\ UNCHANGED <<config, timed, age, prev, visited, histories>>

\* POST /triggers/fire
ApiFire(k, e, a) ==
    /\ step[k] = "free"
    /\ UNCHANGED <<config, timed, age, prev, checkVars, histories>>
    /\ Fire(k, e, a)

\* Mutant: the busy state is not recorded.
MarkTimerOnly(a) ==
    /\ timed' = timed \cup {a}
    /\ age' = [age EXCEPT ![a] = 0]
    /\ UNCHANGED prev

MarkAgentActive(a) ==
    /\ timed' = timed \cup {a}
    /\ age' = [age EXCEPT ![a] = 0]
    /\ prev' = [prev EXCEPT ![a] = "busy"]

\* A feed event that only resets the agent's idle timer ...
Activity(a) ==
    /\ MarkAgentActive(a)
    /\ UNCHANGED <<config, fireVars, checkVars, histories>>

\* ... and one that also fires triggers.
FeedFire(k, e, a) ==
    /\ step[k] = "free"
    /\ MarkAgentActive(a)
    /\ Fire(k, e, a)
    /\ UNCHANGED <<config, checkVars, histories>>

-----------------------------------------------------------------------------
\* The triggers of the check after index i whose timeout has elapsed.
Due(l, i, idleSec) ==
    {j \in (i + 1)..Len(l) : Timeout[l[j]] > 0 /\ idleSec >= Timeout[l[j]]}

\* The check of task k, past index i of its triggers, calls fire for agent a.
FireFor(k, l, i, idleSec, a) ==
    /\ \E n \in 1..Len(l) :
        IsFirst(n, Due(l, i, idleSec)) /\ next' = [next EXCEPT ![k] = n]
    /\ idles' = [idles EXCEPT ![k] = l]
    /\ since' = [since EXCEPT ![k] = idleSec]
    /\ Fire(k, Idle, a)

\* The agents each loop has passed; one that leaves idleTimers may come again.
Visited(k, seen) == [m \in Task |-> (IF m = k THEN seen ELSE visited[m]) \cap timed']

\* The loop of task k over idleTimers, which has passed the agents in seen, goes
\* on: to an agent that was busy and is due, or to its end.
GoThrough(k, l, seen) ==
    LET left == timed' \ seen
        due == {a \in left : prev'[a] = "busy" /\ Due(l, 0, age[a]) # {}}
    IN \/ due = {} /\ End(k) /\ visited' = Visited(k, {})
       \/ \E a \in due, passed \in SUBSET (left \ due) :
            /\ FireFor(k, l, 0, age[a], a)
            /\ visited' = Visited(k, seen \cup passed \cup {a})

\* The interval, which is there if the server started with an idle trigger.
CheckIdle(k) ==
    LET l == SelectSeq(config, IsIdle)
    IN /\ step[k] = "free"
       /\ \E t \in Range(Configured) : IsIdle(t)
       /\ l # <<>>
       /\ UNCHANGED <<config, timed, age, prev, histories>>
       /\ GoThrough(k, l, {})

\* fire returns to the check: an agent for which an action succeeded is idle now;
\* then the check's next trigger that was due, or the next agent.
BackInCheck(k) ==
    LET a == who[k]
        more == Due(idles[k], next[k], since[k]) # {}
    IN /\ step[k] = "back" /\ idles[k] # <<>>
       /\ timed' = IF anyOk[k] THEN timed \ {a} ELSE timed
       /\ prev' = IF anyOk[k] THEN [prev EXCEPT ![a] = "idle"] ELSE prev
       /\ UNCHANGED <<config, age, histories>>
       /\ \/ /\ more
             /\ FireFor(k, idles[k], next[k], since[k], a)
             /\ visited' = Visited(k, visited[k])
          \/ ~more /\ GoThrough(k, idles[k], visited[k])

\* Time passes.
Tick ==
    /\ age' = [a \in Agent |-> IF age[a] < MaxAge THEN age[a] + 1 ELSE MaxAge]
    /\ UNCHANGED <<config, timed, prev, fireVars, checkVars, histories>>

Next ==
    \/ \E k \in Task : Return(k) \/ CheckIdle(k) \/ BackInCheck(k)
    \/ \E k \in Task, ok \in BOOLEAN : ActionEnds(k, ok)
    \/ \E k \in Task, e \in Event, a \in Agent \cup {None} : ApiFire(k, e, a)
    \/ \E k \in Task, e \in FeedEvents, a \in Agent : FeedFire(k, e, a)
    \/ \E a \in Agent : Activity(a)
    \/ Tick

Spec == Init /\ [][Next]_vars

\* The interval comes round, time passes, actions end and the event loop runs
\* what is ready.  A free task is only a bound of the model, hence the SF.
Fairness ==
    /\ WF_vars(Tick) /\ SF_vars(\E k \in Task : CheckIdle(k))
    /\ \A k \in Task :
        WF_vars(Return(k) \/ BackInCheck(k) \/ \E ok \in BOOLEAN : ActionEnds(k, ok))

FairSpec == Spec /\ Fairness

-----------------------------------------------------------------------------
\* Activity and the idle check agree on who is busy: an agent is in idleTimers
\* exactly if its previous state is "busy", whatever overlaps.
BusyIffTimed == \A a \in Agent : prev[a] = "busy" <=> a \in timed

\* triggers-engine.ts:114, "One-time triggers: remove after successful fire":
\* what is removed when a one-time trigger has fired is that trigger.
OnlyTheFiredIsRemoved ==
    [][\A k \in Task : ActionEnds(k, TRUE) /\ config' # config =>
         Range(config) \ Range(config') = {list[k][at[k]]}]_vars

\* A trigger that was configured before this one has gone: its index in older lists is
\* another's now.
Displaced(t) ==
    \E i, j \in DOMAIN Configured :
        i < j /\ Configured[j] = t /\ Configured[i] \notin Range(config)

\* What holds: until a trigger is removed by its index in a list that has changed
\* since, the triggers left are all but the one-time ones that have succeeded;
\* failures, recurring triggers and overlapping checks remove nothing.  And even
\* when indices have gone wrong, a trigger that has gone is a one-time trigger that
\* has succeeded or comes behind one, and a one-time trigger is still there after
\* it has succeeded only if one before it has gone.
OnlySpentTriggersGo ==
    /\ outdated \/ Range(config) = Range(Configured) \ (Once \cap succeeded)
    /\ \A j \in DOMAIN Configured : Configured[j] \notin Range(config) =>
         \E i \in 1..j : Configured[i] \in Once \cap succeeded
    /\ \A t \in Once \cap succeeded \cap Range(config) : Displaced(t)

\* Fires that overlap may each run a one-time trigger; but a fire that is called when
\* it has succeeded does not run it again, unless one before it has gone meanwhile.
NoLaterFireRepeats ==
    \A k \in Task :
        step[k] = "action" /\ list[k][at[k]] \in begun[k] => Displaced(list[k][at[k]])

\* triggers-engine.ts:85, "skip if agent hasn't been idle long enough": a check
\* starts an action for an agent only when the trigger's timeout has elapsed since
\* the agent's last activity.
Starts(k) == step'[k] = "action" /\ (step[k] # "action" \/ at'[k] # at[k])

IdleLongEnough ==
    [][\A k \in Task : Starts(k) /\ idles'[k] # <<>> =>
         age'[who'[k]] >= Timeout[list'[k][at'[k]]]]_vars

\* An agent that was busy and stays idle is noticed by a check: an action for it
\* runs, unless it is active again or no idle trigger with a timeout is left.
Runs(a) == \E k \in Task : step[k] = "action" /\ event[k] = Idle /\ who[k] = a

Waits(a) ==
    /\ a \in timed /\ age[a] = MaxAge
    /\ \E t \in Range(config) : IsIdle(t) /\ Timeout[t] > 0

IdleIsNoticed == \A a \in Agent : Waits(a) ~> ~Waits(a) \/ Runs(a)
=============================================================================
