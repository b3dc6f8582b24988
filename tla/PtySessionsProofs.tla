-------------------------- MODULE PtySessionsProofs --------------------------
(***************************************************************************)
(* The safety of the web terminals, for every set of clients and targets   *)
(* and every number of ptys.                                               *)
(***************************************************************************)
EXTENDS PtySessions, TLAPS

\* The names and mutexes of the creations in flight.
Creating ==
    /\ creating = {n \in Pty : stage[n] \in Creation}
    /\ \A n \in creating : of[n] \in attaching
    /\ \A t \in attaching : sessions[t] = None
    /\ SoleTerminal

\* Ids are handed out in order; what exists has a target and an opener.
Made ==
    /\ \A n \in Pty : n > made <=> stage[n] = "none"
    /\ \A n \in Pty : stage[n] # "none" => of[n] \in Target /\ opener[n] \in Client

\* A tracked pty runs, and is tracked for its own target only.
Tracking ==
    \A t \in Target : sessions[t] # None =>
        stage[sessions[t]] = "running" /\ of[sessions[t]] = t

\* Timers belong to ptys that were spawned, and that nobody views.
Timers == \A n \in timer : stage[n] \in {"running", "ended"} /\ viewers[n] = {}

IInv ==
    /\ TypeOK /\ Creating /\ Made /\ Tracking /\ Timers
    /\ ViewedIsTracked /\ ViewersAskedForIt

LEMMA InitIInv == Init => IInv
  BY PtyConstants
  DEF Init, IInv, TypeOK, Creating, Made, Tracking, Timers, ViewedIsTracked,
      ViewersAskedForIt, SoleTerminal, Tracked, Pty, Stages, Creation

\* What the detach at the beginning of every request does to viewers and timers.
LEMMA DetachLemma ==
    ASSUME IInv, NEW c \in Client
    PROVE  /\ ViewersWithout(c) \in [Pty -> SUBSET Client]
           /\ TimersWithout(c) \subseteq Pty
           /\ \A n \in Pty : Tracked(n) => c \notin ViewersWithout(c)[n]
           /\ \A n \in Pty : ViewersWithout(c)[n] \subseteq viewers[n]
           /\ \A n \in TimersWithout(c) :
                stage[n] \in {"running", "ended"} /\ ViewersWithout(c)[n] = {}
<1> USE DEF ViewersWithout, TimersWithout
<1>1. \A n \in Pty : Tracked(n) => stage[n] = "running"
  BY PtyConstants DEF IInv, Tracking, Tracked, TypeOK
<1>2. ViewersWithout(c) \in [Pty -> SUBSET Client] /\ TimersWithout(c) \subseteq Pty
  BY DEF IInv, TypeOK
<1>3. \A n \in TimersWithout(c) :
         stage[n] \in {"running", "ended"} /\ ViewersWithout(c)[n] = {}
  <2> TAKE n \in TimersWithout(c)
  <2>1. CASE n \in timer
    BY <2>1, <1>2 DEF IInv, Timers, TypeOK
  <2>2. CASE n \notin timer
    BY <2>2, <1>1, <1>2
  <2> QED
    BY <2>1, <2>2
<1> QED
  BY <1>2, <1>3

LEMMA StepTypeOK == IInv /\ [Next]_vars => TypeOK'
<1> SUFFICES ASSUME IInv, [Next]_vars PROVE TypeOK'
  OBVIOUS
<1> USE PtyConstants DEF IInv, TypeOK, madeVars, histories, Pty, Stages, Creation
<1>1. ASSUME NEW c \in Client, Detach(c) PROVE TypeOK'
  BY <1>1, DetachLemma DEF Detach
<1>2. ASSUME NEW c \in Client, NEW t \in Target, Join(c, t) PROVE TypeOK'
  BY <1>2, DetachLemma DEF Join, Asks
<1>3. ASSUME NEW c \in Client, NEW t \in Target, Ignore(c, t) PROVE TypeOK'
  BY <1>3, DetachLemma DEF Ignore, Asks
<1>4. ASSUME NEW c \in Client, NEW t \in Target, Create(c, t) PROVE TypeOK'
  BY <1>4, DetachLemma DEF Create, Asks
<1>5. ASSUME NEW n \in Pty, GroupMade(n) PROVE TypeOK'
  BY <1>5 DEF GroupMade, At
<1>6. ASSUME NEW n \in Pty, GroupFails(n) PROVE TypeOK'
  BY <1>6 DEF GroupFails, At
<1>7. ASSUME NEW n \in Pty, Spawn(n) PROVE TypeOK'
  BY <1>7 DEF Spawn, At, Made
<1>8. ASSUME NEW n \in Pty, SpawnThrows(n) PROVE TypeOK'
  BY <1>8 DEF SpawnThrows, At
<1>9. ASSUME NEW n \in Pty, ProcEnds(n) PROVE TypeOK'
  BY <1>9 DEF ProcEnds
<1>10. ASSUME NEW n \in Pty, StreamEnds(n) PROVE TypeOK'
  BY <1>10 DEF StreamEnds, At, Forget, Made
<1>11. ASSUME NEW n \in Pty, Grace(n) PROVE TypeOK'
  <2>1. of[n] \in Target
    BY <1>11 DEF Grace, Made, Timers
  <2>2. sessions' \in [Target -> Pty \cup {None}] /\ evicted' \subseteq Pty
    BY <1>11, <2>1 DEF Grace, Forget
  <2> QED
    BY <1>11, <2>2 DEF Grace
<1>12. ASSUME NEW n \in Pty, Reap(n) PROVE TypeOK'
  BY <1>12 DEF Reap, Spared
<1>13. CASE UNCHANGED vars
  BY <1>13 DEF vars, madeVars, histories
<1> QED
  BY <1>1, <1>2, <1>3, <1>4, <1>5, <1>6, <1>7, <1>8, <1>9, <1>10, <1>11, <1>12, <1>13 DEF Next, PtyStep

LEMMA StepCreating == IInv /\ [Next]_vars => Creating'
<1> SUFFICES ASSUME IInv, [Next]_vars PROVE Creating'
  OBVIOUS
<1> USE PtyConstants DEF IInv, TypeOK, madeVars, histories, Creating, SoleTerminal, Made, Tracking, Creation, Stages, Pty
<1>1. ASSUME NEW c \in Client, Detach(c) PROVE Creating'
  BY <1>1, DetachLemma DEF Detach
<1>2. ASSUME NEW c \in Client, NEW t \in Target, Join(c, t) PROVE Creating'
  BY <1>2, DetachLemma DEF Join, Asks
<1>3. ASSUME NEW c \in Client, NEW t \in Target, Ignore(c, t) PROVE Creating'
  BY <1>3, DetachLemma DEF Ignore, Asks
<1>4. ASSUME NEW c \in Client, NEW t \in Target, Create(c, t) PROVE Creating'
  BY <1>4, DetachLemma DEF Create, Asks
<1>5. ASSUME NEW n \in Pty, GroupMade(n) PROVE Creating'
  BY <1>5 DEF GroupMade, At
<1>6. ASSUME NEW n \in Pty, GroupFails(n) PROVE Creating'
  BY <1>6 DEF GroupFails, At
<1>7. ASSUME NEW n \in Pty, Spawn(n) PROVE Creating'
  BY <1>7 DEF Spawn, At
<1>8. ASSUME NEW n \in Pty, SpawnThrows(n) PROVE Creating'
  BY <1>8 DEF SpawnThrows, At
<1>9. ASSUME NEW n \in Pty, ProcEnds(n) PROVE Creating'
  BY <1>9 DEF ProcEnds
<1>10. ASSUME NEW n \in Pty, StreamEnds(n) PROVE Creating'
  BY <1>10 DEF StreamEnds, At, Forget
<1>11. ASSUME NEW n \in Pty, Grace(n) PROVE Creating'
  BY <1>11 DEF Grace, Forget
<1>12. ASSUME NEW n \in Pty, Reap(n) PROVE Creating'
  BY <1>12 DEF Reap, Spared
<1>13. CASE UNCHANGED vars
  BY <1>13 DEF vars, madeVars, histories
<1> QED
  BY <1>1, <1>2, <1>3, <1>4, <1>5, <1>6, <1>7, <1>8, <1>9, <1>10, <1>11, <1>12, <1>13 DEF Next, PtyStep

LEMMA StepMade == IInv /\ [Next]_vars => Made'
<1> SUFFICES ASSUME IInv, [Next]_vars PROVE Made'
  OBVIOUS
<1> USE PtyConstants DEF IInv, TypeOK, madeVars, histories, Made, Creation, Stages, Pty
<1>1. ASSUME NEW c \in Client, Detach(c) PROVE Made'
  BY <1>1, DetachLemma DEF Detach
<1>2. ASSUME NEW c \in Client, NEW t \in Target, Join(c, t) PROVE Made'
  BY <1>2, DetachLemma DEF Join, Asks
<1>3. ASSUME NEW c \in Client, NEW t \in Target, Ignore(c, t) PROVE Made'
  BY <1>3, DetachLemma DEF Ignore, Asks
<1>4. ASSUME NEW c \in Client, NEW t \in Target, Create(c, t) PROVE Made'
  BY <1>4, DetachLemma DEF Create, Asks
<1>5. ASSUME NEW n \in Pty, GroupMade(n) PROVE Made'
  BY <1>5 DEF GroupMade, At
<1>6. ASSUME NEW n \in Pty, GroupFails(n) PROVE Made'
  BY <1>6 DEF GroupFails, At
<1>7. ASSUME NEW n \in Pty, Spawn(n) PROVE Made'
  BY <1>7 DEF Spawn, At
<1>8. ASSUME NEW n \in Pty, SpawnThrows(n) PROVE Made'
  BY <1>8 DEF SpawnThrows, At
<1>9. ASSUME NEW n \in Pty, ProcEnds(n) PROVE Made'
  BY <1>9 DEF ProcEnds
<1>10. ASSUME NEW n \in Pty, StreamEnds(n) PROVE Made'
  BY <1>10 DEF StreamEnds, At, Forget
<1>11. ASSUME NEW n \in Pty, Grace(n) PROVE Made'
  BY <1>11 DEF Grace, Forget
<1>12. ASSUME NEW n \in Pty, Reap(n) PROVE Made'
  BY <1>12 DEF Reap, Spared
<1>13. CASE UNCHANGED vars
  BY <1>13 DEF vars, madeVars, histories
<1> QED
  BY <1>1, <1>2, <1>3, <1>4, <1>5, <1>6, <1>7, <1>8, <1>9, <1>10, <1>11, <1>12, <1>13 DEF Next, PtyStep

LEMMA StepTracking == IInv /\ [Next]_vars => Tracking'
<1> SUFFICES ASSUME IInv, [Next]_vars PROVE Tracking'
  OBVIOUS
<1> USE PtyConstants DEF IInv, TypeOK, madeVars, histories, Tracking, Made, Creating, SoleTerminal, Creation, Stages, Pty
<1>1. ASSUME NEW c \in Client, Detach(c) PROVE Tracking'
  BY <1>1, DetachLemma DEF Detach
<1>2. ASSUME NEW c \in Client, NEW t \in Target, Join(c, t) PROVE Tracking'
  BY <1>2, DetachLemma DEF Join, Asks
<1>3. ASSUME NEW c \in Client, NEW t \in Target, Ignore(c, t) PROVE Tracking'
  BY <1>3, DetachLemma DEF Ignore, Asks
<1>4. ASSUME NEW c \in Client, NEW t \in Target, Create(c, t) PROVE Tracking'
  BY <1>4, DetachLemma DEF Create, Asks
<1>5. ASSUME NEW n \in Pty, GroupMade(n) PROVE Tracking'
  BY <1>5 DEF GroupMade, At
<1>6. ASSUME NEW n \in Pty, GroupFails(n) PROVE Tracking'
  BY <1>6 DEF GroupFails, At
<1>7. ASSUME NEW n \in Pty, Spawn(n) PROVE Tracking'
  BY <1>7 DEF Spawn, At
<1>8. ASSUME NEW n \in Pty, SpawnThrows(n) PROVE Tracking'
  BY <1>8 DEF SpawnThrows, At
<1>9. ASSUME NEW n \in Pty, ProcEnds(n) PROVE Tracking'
  BY <1>9 DEF ProcEnds
<1>10. ASSUME NEW n \in Pty, StreamEnds(n) PROVE Tracking'
  BY <1>10 DEF StreamEnds, At, Forget
<1>11. ASSUME NEW n \in Pty, Grace(n) PROVE Tracking'
  BY <1>11 DEF Grace, Forget
<1>12. ASSUME NEW n \in Pty, Reap(n) PROVE Tracking'
  BY <1>12 DEF Reap, Spared
<1>13. CASE UNCHANGED vars
  BY <1>13 DEF vars, madeVars, histories
<1> QED
  BY <1>1, <1>2, <1>3, <1>4, <1>5, <1>6, <1>7, <1>8, <1>9, <1>10, <1>11, <1>12, <1>13 DEF Next, PtyStep

LEMMA StepTimers == IInv /\ [Next]_vars => Timers'
<1> SUFFICES ASSUME IInv, [Next]_vars PROVE Timers'
  OBVIOUS
<1> USE PtyConstants DEF IInv, TypeOK, madeVars, histories, Timers, Made, Creating, Tracking, Creation, Stages, Pty
<1>1. ASSUME NEW c \in Client, Detach(c) PROVE Timers'
  BY <1>1, DetachLemma DEF Detach
<1>2. ASSUME NEW c \in Client, NEW t \in Target, Join(c, t) PROVE Timers'
  BY <1>2, DetachLemma DEF Join, Asks
<1>3. ASSUME NEW c \in Client, NEW t \in Target, Ignore(c, t) PROVE Timers'
  BY <1>3, DetachLemma DEF Ignore, Asks
<1>4. ASSUME NEW c \in Client, NEW t \in Target, Create(c, t) PROVE Timers'
  BY <1>4, DetachLemma DEF Create, Asks
<1>5. ASSUME NEW n \in Pty, GroupMade(n) PROVE Timers'
  BY <1>5 DEF GroupMade, At
<1>6. ASSUME NEW n \in Pty, GroupFails(n) PROVE Timers'
  BY <1>6 DEF GroupFails, At
<1>7. ASSUME NEW n \in Pty, Spawn(n) PROVE Timers'
  BY <1>7 DEF Spawn, At
<1>8. ASSUME NEW n \in Pty, SpawnThrows(n) PROVE Timers'
  BY <1>8 DEF SpawnThrows, At
<1>9. ASSUME NEW n \in Pty, ProcEnds(n) PROVE Timers'
  BY <1>9 DEF ProcEnds
<1>10. ASSUME NEW n \in Pty, StreamEnds(n) PROVE Timers'
  BY <1>10 DEF StreamEnds, At, Forget
<1>11. ASSUME NEW n \in Pty, Grace(n) PROVE Timers'
  BY <1>11 DEF Grace, Forget
<1>12. ASSUME NEW n \in Pty, Reap(n) PROVE Timers'
  BY <1>12 DEF Reap, Spared
<1>13. CASE UNCHANGED vars
  BY <1>13 DEF vars, madeVars, histories
<1> QED
  BY <1>1, <1>2, <1>3, <1>4, <1>5, <1>6, <1>7, <1>8, <1>9, <1>10, <1>11, <1>12, <1>13 DEF Next, PtyStep

LEMMA StepViewed == IInv /\ [Next]_vars => ViewedIsTracked'
<1> SUFFICES ASSUME IInv, [Next]_vars PROVE ViewedIsTracked'
  OBVIOUS
<1> USE PtyConstants DEF IInv, TypeOK, madeVars, histories, ViewedIsTracked, Tracked, Tracking, Made, Creating, SoleTerminal, Timers, Creation, Stages, Pty
<1>1. ASSUME NEW c \in Client, Detach(c) PROVE ViewedIsTracked'
  BY <1>1, DetachLemma DEF Detach
<1>2. ASSUME NEW c \in Client, NEW t \in Target, Join(c, t) PROVE ViewedIsTracked'
  <2> SUFFICES ASSUME NEW n \in Pty, stage'[n] = "running", viewers'[n] # {},
                      n \notin evicted'
               PROVE \E u \in Target : sessions'[u] = n
    BY DEF ViewedIsTracked
  <2>1. sessions' = sessions /\ stage' = stage /\ evicted' = evicted
    BY <1>2 DEF Join
  <2>2. CASE n = sessions[t]
    BY <2>1, <2>2
  <2>3. CASE n # sessions[t]
    <3>1. viewers'[n] = ViewersWithout(c)[n]
      BY <1>2, <2>3, DetachLemma DEF Join
    <3>2. viewers[n] # {}
      BY <3>1, DetachLemma
    <3> QED
      BY <2>1, <3>2
  <2> QED
    BY <2>2, <2>3
<1>3. ASSUME NEW c \in Client, NEW t \in Target, Ignore(c, t) PROVE ViewedIsTracked'
  <2>1. UNCHANGED <<sessions, stage, evicted>> /\ viewers' = ViewersWithout(c)
    BY <1>3 DEF Ignore
  <2>2. \A n \in Pty : viewers'[n] \subseteq viewers[n]
    BY <2>1, DetachLemma
  <2> QED
    BY <2>1, <2>2
<1>4. ASSUME NEW c \in Client, NEW t \in Target, Create(c, t) PROVE ViewedIsTracked'
  <2>1. UNCHANGED <<sessions, evicted>> /\ viewers' = ViewersWithout(c)
    BY <1>4 DEF Create
  <2>2. \A n \in Pty : viewers'[n] \subseteq viewers[n]
    BY <2>1, DetachLemma
  <2>3. \A n \in Pty : stage'[n] = "running" => stage[n] = "running"
    BY <1>4 DEF Create
  <2> QED
    BY <2>1, <2>2, <2>3
<1>5. ASSUME NEW n \in Pty, GroupMade(n) PROVE ViewedIsTracked'
  BY <1>5 DEF GroupMade, At
<1>6. ASSUME NEW n \in Pty, GroupFails(n) PROVE ViewedIsTracked'
  BY <1>6 DEF GroupFails, At
<1>7. ASSUME NEW n \in Pty, Spawn(n) PROVE ViewedIsTracked'
  BY <1>7 DEF Spawn, At
<1>8. ASSUME NEW n \in Pty, SpawnThrows(n) PROVE ViewedIsTracked'
  BY <1>8 DEF SpawnThrows, At
<1>9. ASSUME NEW n \in Pty, ProcEnds(n) PROVE ViewedIsTracked'
  BY <1>9 DEF ProcEnds
<1>10. ASSUME NEW n \in Pty, StreamEnds(n) PROVE ViewedIsTracked'
  <2> SUFFICES ASSUME NEW m \in Pty, stage'[m] = "running", viewers'[m] # {},
                      m \notin evicted'
               PROVE \E u \in Target : sessions'[u] = m
    BY DEF ViewedIsTracked
  <2>1. m # n /\ stage[m] = "running" /\ viewers[m] # {} /\ of[n] \in Target
    BY <1>10 DEF StreamEnds, At
  <2>2. m \notin evicted /\ sessions[of[n]] # m
    BY <1>10, <2>1 DEF StreamEnds, Forget
  <2>3. PICK u \in Target : sessions[u] = m
    BY <2>1, <2>2
  <2>4. sessions'[u] = m
    BY <1>10, <2>1, <2>2, <2>3 DEF StreamEnds, Forget
  <2> QED
    BY <2>4
<1>11. ASSUME NEW n \in Pty, Grace(n) PROVE ViewedIsTracked'
  BY <1>11 DEF Grace, Forget
<1>12. ASSUME NEW n \in Pty, Reap(n) PROVE ViewedIsTracked'
  BY <1>12 DEF Reap, Spared
<1>13. CASE UNCHANGED vars
  BY <1>13 DEF vars, madeVars, histories
<1> QED
  BY <1>1, <1>2, <1>3, <1>4, <1>5, <1>6, <1>7, <1>8, <1>9, <1>10, <1>11, <1>12, <1>13 DEF Next, PtyStep

LEMMA StepAsked == IInv /\ [Next]_vars => ViewersAskedForIt'
<1> SUFFICES ASSUME IInv, [Next]_vars PROVE ViewersAskedForIt'
  OBVIOUS
<1> USE PtyConstants DEF IInv, TypeOK, madeVars, histories, ViewersAskedForIt, Tracked, Tracking, Made, Creating, SoleTerminal, Creation, Stages, Pty
<1>1. ASSUME NEW c \in Client, Detach(c) PROVE ViewersAskedForIt'
  BY <1>1, DetachLemma DEF Detach
<1>2. ASSUME NEW c \in Client, NEW t \in Target, Join(c, t) PROVE ViewersAskedForIt'
  BY <1>2, DetachLemma DEF Join, Asks
<1>3. ASSUME NEW c \in Client, NEW t \in Target, Ignore(c, t) PROVE ViewersAskedForIt'
  BY <1>3, DetachLemma DEF Ignore, Asks
<1>4. ASSUME NEW c \in Client, NEW t \in Target, Create(c, t) PROVE ViewersAskedForIt'
  BY <1>4, DetachLemma DEF Create, Asks
<1>5. ASSUME NEW n \in Pty, GroupMade(n) PROVE ViewersAskedForIt'
  BY <1>5 DEF GroupMade, At
<1>6. ASSUME NEW n \in Pty, GroupFails(n) PROVE ViewersAskedForIt'
  BY <1>6 DEF GroupFails, At
<1>7. ASSUME NEW n \in Pty, Spawn(n) PROVE ViewersAskedForIt'
  BY <1>7 DEF Spawn, At
<1>8. ASSUME NEW n \in Pty, SpawnThrows(n) PROVE ViewersAskedForIt'
  BY <1>8 DEF SpawnThrows, At
<1>9. ASSUME NEW n \in Pty, ProcEnds(n) PROVE ViewersAskedForIt'
  BY <1>9 DEF ProcEnds
<1>10. ASSUME NEW n \in Pty, StreamEnds(n) PROVE ViewersAskedForIt'
  BY <1>10 DEF StreamEnds, At, Forget
<1>11. ASSUME NEW n \in Pty, Grace(n) PROVE ViewersAskedForIt'
  BY <1>11 DEF Grace, Forget
<1>12. ASSUME NEW n \in Pty, Reap(n) PROVE ViewersAskedForIt'
  BY <1>12 DEF Reap, Spared
<1>13. CASE UNCHANGED vars
  BY <1>13 DEF vars, madeVars, histories
<1> QED
  BY <1>1, <1>2, <1>3, <1>4, <1>5, <1>6, <1>7, <1>8, <1>9, <1>10, <1>11, <1>12, <1>13 DEF Next, PtyStep

LEMMA Invariance == Spec => []IInv
<1>1. IInv /\ [Next]_vars => IInv'
  BY StepTypeOK, StepCreating, StepMade, StepTracking, StepTimers, StepViewed,
     StepAsked DEF IInv
<1> QED
  BY <1>1, InitIInv, PTL DEF Spec

\* The variables keep their types.
THEOREM PtyTypes == Spec => []TypeOK
<1>1. IInv => TypeOK
  BY DEF IInv
<1> QED
  BY <1>1, Invariance, PTL

\* A creation never replaces a session, and no two run for one target.
THEOREM OneTerminal == Spec => []SoleTerminal
<1>1. IInv => SoleTerminal
  BY DEF IInv, Creating
<1> QED
  BY <1>1, Invariance, PTL

\* The grace timer never kills a viewed terminal.
THEOREM GraceIsSafe == Spec => []GraceHitsNoViewer
<1>1. IInv => GraceHitsNoViewer
  BY DEF IInv, Timers, GraceHitsNoViewer
<1> QED
  BY <1>1, Invariance, PTL

\* A viewed terminal is tracked until the end of another pty evicts it.
THEOREM ViewedTracked == Spec => []ViewedIsTracked
<1>1. IInv => ViewedIsTracked
  BY DEF IInv
<1> QED
  BY <1>1, Invariance, PTL

\* A client views only what it asked for last, or what it was handed late.
THEOREM ViewersAsked == Spec => []ViewersAskedForIt
<1>1. IInv => ViewersAskedForIt
  BY DEF IInv
<1> QED
  BY <1>1, Invariance, PTL
=============================================================================
