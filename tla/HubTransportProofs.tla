------------------------- MODULE HubTransportProofs -------------------------
(***************************************************************************)
(* Proofs about HubTransport, for any workspaces, sockets and agents: one  *)
(* attempt per workspace, heartbeats, what canReach promises, and why      *)
(* connect() may wait for ever; and about the router that sends through it.*)
(***************************************************************************)
EXTENDS TransportRouter, TLAPS

\* What opens is conn.ws; the connection is up while it is open, and until it has closed.
Current ==
    \A w \in Workspace :
        /\ \A s \in Slot : sock[w][s] \in {"connecting", "open"} => ws[w] = s
        /\ \A s \in Slot : sock[w][s] = "open" => w \in up
        /\ w \in up => ws[w] \in Slot /\ sock[w][ws[w]] \in {"open", "closing"}

\* The first socket has not been handled to its end, and has settled the promise if it was
\* open.
Firsts ==
    \A w \in Workspace, s \in Slot :
        first[w] = s => IsLive(w, s) /\ (w \in up => promise[w] # "pending")

Fresh ==
    stage = "new" => up = {} /\ timer = {} /\ \A w \in Workspace, s \in Slot : ~IsLive(w, s)

IInv == /\ HubTypeOK /\ OneAttempt /\ BeatsWhileUp /\ PendingOnlyIfReconnected
        /\ Current /\ Firsts /\ Fresh

LEMMA Initially == HubInit => IInv
<1> SUFFICES ASSUME HubInit PROVE IInv
  OBVIOUS
<1>1. \A w \in Workspace, s \in Slot : sock[w][s] = "free" /\ ~IsLive(w, s)
  BY DEF HubInit, Live, IsLive
<1>2. HubTypeOK
  BY DEF HubInit, HubTypeOK, Live
<1>3. OneAttempt /\ BeatsWhileUp /\ PendingOnlyIfReconnected
  BY <1>1 DEF HubInit, OneAttempt, BeatsWhileUp, PendingOnlyIfReconnected
<1>4. Current /\ Firsts /\ Fresh
  BY <1>1, HubConstants DEF HubInit, Current, Firsts, Fresh
<1> QED
  BY <1>2, <1>3, <1>4 DEF IInv

LEMMA Afters ==
    ASSUME HubTypeOK, NEW w \in Workspace
    PROVE  /\ AfterClose(w) \in [Slot -> Live \cup {"free"}]
           /\ \A s \in Slot :
                /\ AfterClose(w)[s] \in Live <=> IsLive(w, s)
                /\ AfterClose(w)[s] \in {"connecting", "open"}
                     => s # ws[w] /\ AfterClose(w)[s] = sock[w][s]
BY DEF HubTypeOK, AfterClose, Live, IsLive

LEMMA Stepwise == IInv /\ [HubNext]_vars => IInv'
<1> SUFFICES ASSUME IInv, [HubNext]_vars PROVE IInv'
  OBVIOUS
<1> USE HubConstants
<1> USE DEF IInv, Live, IsLive
<1>1. CASE Connect
  <2>1. PICK s \in Slot, thrown \in SUBSET Workspace :
        LET given == [w \in Workspace |-> IF w \in thrown THEN Null ELSE s]
        IN /\ ws' = given /\ first' = given
           /\ sock' = [w \in Workspace |-> [i \in Slot |->
                         IF i = given[w] THEN "connecting" ELSE "free"]]
           /\ timer' = thrown
    BY <1>1 DEF Connect
  <2>2. /\ \A w \in Workspace : ws'[w] = (IF w \in thrown THEN Null ELSE s)
        /\ \A w \in Workspace : first'[w] = ws'[w]
        /\ \A w \in Workspace, i \in Slot :
            sock'[w][i] = IF i = s /\ w \notin thrown THEN "connecting" ELSE "free"
    BY <2>1
  <2>3. HubTypeOK'
    BY <1>1, <2>1 DEF Connect, HubTypeOK
  <2>4. up' = {} /\ beat' = {} /\ joined' = Workspace /\ timer' = thrown
        /\ timeout' = Workspace /\ stage' = "awaiting"
    BY <1>1, <2>1 DEF Connect, Fresh, BeatsWhileUp
  <2> QED
    BY <2>2, <2>3, <2>4 DEF OneAttempt, BeatsWhileUp, PendingOnlyIfReconnected,
       Current, Firsts, Fresh
<1>2. CASE ConnectReturns
  BY <1>2 DEF ConnectReturns, HubTypeOK, OneAttempt, BeatsWhileUp,
     PendingOnlyIfReconnected, Current, Firsts, Fresh
<1>3. CASE Disconnect
  <2>1. \A w \in Workspace : joined \subseteq Workspace /\
          sock'[w] = IF w \in joined THEN AfterClose(w) ELSE sock[w]
    BY <1>3 DEF Disconnect, HubTypeOK
  <2>2. HubTypeOK'
    BY <1>3, Afters DEF Disconnect, HubTypeOK, callVars
  <2>3. \A w \in Workspace, s \in Slot : IsLive(w, s)' <=> IsLive(w, s)
    BY <2>1, Afters
  <2>4. \A w \in joined, s \in Slot : sock'[w][s] \notin {"connecting", "open"}
    <3>1. joined \subseteq Workspace
      BY DEF HubTypeOK
    <3>2. ASSUME NEW w \in joined, NEW s \in Slot, sock'[w][s] \in {"connecting", "open"}
          PROVE  FALSE
      <4>1. s # ws[w] /\ sock[w][s] \in {"connecting", "open"}
        BY <2>1, <3>1, <3>2, Afters
      <4> QED
        BY <3>1, <4>1 DEF Current
    <3> QED
      BY <3>2
  <2>5. OneAttempt'
    BY <1>3, <2>3 DEF Disconnect, OneAttempt, HubTypeOK
  <2>6. Current' /\ BeatsWhileUp'
    <3>1. \A w \in Workspace \ joined : sock'[w] = sock[w] /\ ws'[w] = ws[w]
      BY <1>3, <2>1 DEF Disconnect
    <3>2. up' = up \ joined /\ beat' = up \ joined
      BY <1>3 DEF Disconnect, BeatsWhileUp
    <3> QED
      BY <2>4, <3>1, <3>2 DEF Current, BeatsWhileUp
  <2>7. Firsts'
    BY <1>3, <2>1, <2>3, <2>4 DEF Disconnect, Firsts, callVars
  <2>8. PendingOnlyIfReconnected' /\ Fresh'
    BY <1>3, <2>3 DEF Disconnect, PendingOnlyIfReconnected, Fresh, callVars
  <2> QED
    BY <2>2, <2>5, <2>6, <2>7, <2>8
<1>4. ASSUME NEW w \in Workspace, Reopen(w) PROVE IInv'
  <2>1. PICK s \in Slot :
          /\ sock[w][s] = "free"
          /\ sock' = [sock EXCEPT ![w] = [AfterClose(w) EXCEPT ![s] = "connecting"]]
          /\ ws' = [ws EXCEPT ![w] = s]
    BY <1>4 DEF Reopen
  <2>2. \A r \in Slot : ~IsLive(w, r)
    BY <1>4 DEF Reopen, OneAttempt
  <2>3. /\ \A r \in Slot : sock'[w][r] = IF r = s THEN "connecting" ELSE "free"
        /\ \A v \in Workspace \ {w} : sock'[v] = sock[v]
        /\ sock' \in [Workspace -> [Slot -> Live \cup {"free"}]]
    BY <2>1, <2>2, Afters DEF HubTypeOK
  <2>4. ws'[w] = s /\ \A v \in Workspace \ {w} : ws'[v] = ws[v]
    BY <2>1 DEF HubTypeOK
  <2>5. HubTypeOK'
    BY <1>4, <2>1, <2>3 DEF Reopen, HubTypeOK, callVars
  <2>6. OneAttempt'
    BY <1>4, <2>2, <2>3 DEF Reopen, OneAttempt
  <2>7. Current' /\ BeatsWhileUp'
    BY <1>4, <2>2, <2>3, <2>4 DEF Reopen, Current, BeatsWhileUp
  <2>8. Firsts'
    BY <1>4, <2>2, <2>3 DEF Reopen, Firsts, callVars
  <2> QED
    BY <1>4, <2>5, <2>6, <2>7, <2>8 DEF Reopen, PendingOnlyIfReconnected, Fresh, callVars
<1>5. ASSUME NEW w \in Workspace, ReopenThrows(w) PROVE IInv'
  <2>1. \A r \in Slot : ~IsLive(w, r)
    BY <1>5 DEF ReopenThrows, OneAttempt
  <2>2. sock' = sock
    <3>1. AfterClose(w) = sock[w]
      BY <2>1 DEF AfterClose, HubTypeOK
    <3> QED
      BY <1>5, <3>1 DEF ReopenThrows, HubTypeOK
  <2> QED
    BY <1>5, <2>2 DEF ReopenThrows, HubTypeOK, OneAttempt, BeatsWhileUp,
       PendingOnlyIfReconnected, Current, Firsts, Fresh, callVars
<1>6. ASSUME NEW w \in Workspace, TimesOut(w) PROVE IInv'
  <2>1. HubTypeOK'
    BY <1>6 DEF TimesOut, HubTypeOK
  <2>2. w \in up => first[w] = Null \/ promise[w] # "pending"
    BY DEF Current, Firsts, OneAttempt, HubTypeOK
  <2>3. PendingOnlyIfReconnected' /\ Firsts'
    BY <1>6, <2>2 DEF TimesOut, PendingOnlyIfReconnected, Firsts, HubTypeOK
  <2> QED
    BY <1>6, <2>1, <2>3 DEF TimesOut, OneAttempt, BeatsWhileUp, Current, Fresh
<1>7. ASSUME NEW w \in Workspace, NEW s \in Slot, Opened(w, s) PROVE IInv'
  <2>1. /\ sock[w][s] = "connecting" /\ sock'[w][s] = "open"
        /\ \A v \in Workspace, r \in Slot :
            v # w \/ r # s => sock'[v][r] = sock[v][r]
    BY <1>7 DEF Opened, HubTypeOK
  <2>2. HubTypeOK'
    BY <1>7 DEF Opened, HubTypeOK
  <2>3. OneAttempt'
    BY <1>7, <2>1 DEF Opened, OneAttempt
  <2>4. Current' /\ BeatsWhileUp'
    BY <1>7, <2>1 DEF Opened, Current, BeatsWhileUp
  <2>5. Firsts' /\ PendingOnlyIfReconnected'
    BY <1>7, <2>1 DEF Opened, Firsts, PendingOnlyIfReconnected, HubTypeOK, OneAttempt
  <2>6. Fresh'
    BY <1>7, <2>1 DEF Opened, Fresh
  <2> QED
    BY <2>2, <2>3, <2>4, <2>5, <2>6
<1>8. ASSUME NEW w \in Workspace, NEW s \in Slot, Closed(w, s) PROVE IInv'
  <2>1. /\ IsLive(w, s) /\ sock'[w][s] = "free"
        /\ \A v \in Workspace, r \in Slot :
            v # w \/ r # s => sock'[v][r] = sock[v][r]
    BY <1>8 DEF Closed, Gone, HubTypeOK
  <2>2. HubTypeOK'
    BY <1>8 DEF Closed, Gone, HubTypeOK, AnyUp, callVars
  <2>3. OneAttempt'
    BY <1>8, <2>1 DEF Closed, Gone, OneAttempt
  <2>4. Current' /\ BeatsWhileUp'
    BY <1>8, <2>1 DEF Closed, Gone, Current, BeatsWhileUp, OneAttempt
  <2>5. Firsts' /\ PendingOnlyIfReconnected'
    BY <1>8, <2>1 DEF Closed, Gone, Firsts, PendingOnlyIfReconnected, HubTypeOK, callVars
  <2>6. Fresh'
    BY <1>8, <2>1 DEF Closed, Gone, Fresh, callVars
  <2> QED
    BY <2>2, <2>3, <2>4, <2>5, <2>6
<1>11. ASSUME NEW w \in Workspace, NEW s \in Slot, Closing(w, s) PROVE IInv'
  <2>1. /\ sock[w][s] = "open" /\ sock'[w][s] = "closing"
        /\ \A v \in Workspace, r \in Slot :
            v # w \/ r # s => sock'[v][r] = sock[v][r]
        /\ UNCHANGED <<joined, connected, stage, promise, timeout, first, ws, up, beat, timer>>
    BY <1>11 DEF Closing, HubTypeOK, callVars
  <2>2. HubTypeOK'
    BY <1>11 DEF Closing, HubTypeOK, callVars
  <2>3. \A v \in Workspace, r \in Slot : IsLive(v, r)' <=> IsLive(v, r)
    BY <2>1
  <2>4. OneAttempt' /\ Firsts' /\ Fresh' /\ PendingOnlyIfReconnected'
    BY <2>1, <2>3 DEF OneAttempt, Firsts, Fresh, PendingOnlyIfReconnected
  <2>5. Current' /\ BeatsWhileUp'
    BY <2>1 DEF Current, BeatsWhileUp
  <2> QED
    BY <2>2, <2>4, <2>5
<1>9. ASSUME NEW w \in Workspace, NEW A \in SUBSET Agent,
             AuthOk(w, A) \/ Presence(w, A) \/ NodeLeft(w, A)
      PROVE  IInv'
  <2>1. PICK known \in SUBSET Agent : Receive(w, known)
    BY <1>9 DEF AuthOk, Presence, NodeLeft, HubTypeOK
  <2> QED
    BY <2>1 DEF Receive, HubTypeOK, OneAttempt, BeatsWhileUp, PendingOnlyIfReconnected,
       Current, Firsts, Fresh, callVars
<1>10. CASE UNCHANGED vars
  BY <1>10 DEF vars, callVars, HubTypeOK, OneAttempt, BeatsWhileUp,
     PendingOnlyIfReconnected, Current, Firsts, Fresh
<1> QED
  BY <1>1, <1>2, <1>3, <1>4, <1>5, <1>6, <1>7, <1>8, <1>9, <1>10, <1>11 DEF HubNext

LEMMA Always == HubSpec => []IInv
BY Initially, Stepwise, PTL DEF HubSpec

\* The variables of the transport keep their types.
THEOREM HubTypes == HubSpec => []HubTypeOK
BY Always, PTL DEF IInv

\* hub-connection.ts: however sockets fail, close and reconnect, and whatever
\* disconnect() interrupts, a workspace has one socket or one reconnect timer.
THEOREM OneEach == HubSpec => []OneAttempt
BY Always, PTL DEF IInv

\* startHeartbeat and stopHeartbeat: the interval runs exactly while a connection
\* is up, and every open socket has one.
THEOREM Beats == HubSpec => []BeatsWhileUp
BY Always, PTL DEF IInv

\* hub-transport.ts, connectWorkspace: a promise that its timeout did not settle
\* is one whose first socket has gone.
THEOREM WhyPending == HubSpec => []PendingOnlyIfReconnected
BY Always, PTL DEF IInv

\* canReach and send: an agent that can be reached is sent to on the connection's own socket,
\* which is open, or closes and is the only one, with no reconnect before its close event.
THEOREM ReachSends == HubSpec => []ReachableCanBeSent
<1>1. ASSUME IInv, NEW w \in Workspace, w \in up
      PROVE  /\ ws[w] # Null
             /\ \/ sock[w][ws[w]] = "open"
                \/ /\ sock[w][ws[w]] = "closing" /\ w \notin timer
                   /\ \A s \in Slot \ {ws[w]} : ~IsLive(w, s)
  <2>1. ws[w] \in Slot /\ sock[w][ws[w]] \in {"open", "closing"}
    BY <1>1 DEF IInv, Current
  <2>2. IsLive(w, ws[w])
    BY <2>1 DEF IsLive, Live
  <2> QED
    BY <1>1, <2>1, <2>2, HubConstants DEF IInv, OneAttempt
<1>2. IInv => ReachableCanBeSent
  BY <1>1 DEF IInv, HubTypeOK, ReachableCanBeSent
<1> QED
  BY <1>2, Always, PTL

LEMMA Falsifiers ==
    ASSUME IInv, [HubNext]_vars, StatusIsRight, ~StatusIsRight'
    PROVE  ConnectReturns \/ \E w \in Workspace \ joined, s \in Slot : Opened(w, s)
<1> SUFFICES ASSUME ~ConnectReturns,
                    ~\E w \in Workspace \ joined, s \in Slot : Opened(w, s)
             PROVE  FALSE
  OBVIOUS
<1>1. CASE Connect
  BY <1>1 DEF Connect, StatusIsRight, AnyUp, IInv, Fresh
<1>2. CASE Disconnect
  BY <1>2 DEF Disconnect, StatusIsRight, AnyUp
<1>3. ASSUME NEW w \in Workspace, Reopen(w) \/ ReopenThrows(w) \/ TimesOut(w)
      PROVE  FALSE
  BY <1>3 DEF Reopen, ReopenThrows, TimesOut, StatusIsRight, AnyUp
<1>4. ASSUME NEW w \in Workspace, NEW s \in Slot, Opened(w, s)
      PROVE  FALSE
  <2>1. w \in joined
    BY <1>4
  <2> QED
    BY <1>4, <2>1 DEF Opened, StatusIsRight, AnyUp
<1>5. ASSUME NEW w \in Workspace, NEW s \in Slot, Closed(w, s)
      PROVE  FALSE
  BY <1>5 DEF Closed, Gone, StatusIsRight, AnyUp
<1>8. ASSUME NEW w \in Workspace, NEW s \in Slot, Closing(w, s)
      PROVE  FALSE
  BY <1>8 DEF Closing, StatusIsRight, AnyUp
<1>6. ASSUME NEW w \in Workspace, NEW A \in SUBSET Agent,
             AuthOk(w, A) \/ Presence(w, A) \/ NodeLeft(w, A)
      PROVE  FALSE
  BY <1>6 DEF AuthOk, Presence, NodeLeft, Receive, StatusIsRight, AnyUp
<1>7. CASE UNCHANGED vars
  BY <1>7 DEF vars, StatusIsRight, AnyUp
<1> QED
  BY <1>1, <1>2, <1>3, <1>4, <1>5, <1>6, <1>7, <1>8 DEF HubNext

\* hub-transport.ts: `connected` goes wrong only when connect() overwrites it with
\* what its promises said, or when a dropped connection comes up.
THEOREM StatusGoesWrong == HubSpec => OnlyTheseFalsifyStatus
<1>1. IInv /\ [HubNext]_vars =>
        [StatusIsRight /\ ~StatusIsRight' =>
           \/ ConnectReturns
           \/ \E w \in Workspace \ joined, s \in Slot : Opened(w, s)]_vars
  BY Falsifiers
<1> QED
  BY <1>1, Always, PTL DEF HubSpec, OnlyTheseFalsifyStatus

-----------------------------------------------------------------------------
(* The router over the hub. *)

Overwritten == stage = "returned" /\ \A w \in Workspace : promise[w] # "true"

\* What the hub says of itself is wrong only where connect() has overwritten it.
WrongIfOverwritten == AnyUp(joined, up) /\ ~connected => Overwritten

Settled == stage = "returned" => \A w \in Workspace : promise[w] # "pending"

\* What is delivered, or may still be, is so by the transports so far; only the hub, which
\* fails only before it sends, ends with it; a true answer names the last of them; and what
\* a closing socket dropped is answered true, and had by nobody but tmux.
SentSoFar(m) ==
    /\ \A t \in copies[m] \cup loose[m] : \E i \in 1..at[m] : Order[i] = t
    /\ "hub" \notin loose[m]
    /\ "hub" \in copies[m] => result[m] = Ok("hub")
    /\ phase[m] = "awaiting" => Now(m) # "hub"
    /\ phase[m] # "done" => result[m] = Pending
    /\ result[m].ok => result[m].via = Now(m) /\ (Now(m) \in copies[m] \/ m \in lost)
    /\ m \in lost => /\ phase[m] = "done" /\ result[m] = Ok("hub")
                     /\ copies[m] \cup loose[m] \subseteq {"tmux"}

RouterInv ==
    /\ IInv /\ RouterTypeOK /\ WrongIfOverwritten /\ Settled
    /\ passed # {} => Overwritten
    /\ \A m \in Message : SentSoFar(m)

LEMMA Orders ==
    /\ Len(Order) = 5 /\ DOMAIN Order = 1..5
    /\ \A i \in 1..5 : Order[i] \in Transport
    /\ \A i, j \in 1..5 : Order[i] = Order[j] => i = j
<1>1. Len(Order) = 5 /\ DOMAIN Order = 1..5
  BY DEF Order
<1>2. /\ Order[1] = "tmux" /\ Order[2] = "hub" /\ Order[3] = "scout"
      /\ Order[4] = "http" /\ Order[5] = "nanoclaw"
  BY DEF Order
<1>3. \A i, j \in 1..5 : Order[i] = Order[j] => i = j
  BY <1>2
<1> QED
  BY <1>1, <1>3 DEF Transport

LEMMA RouterStarts == RouterInit => RouterInv
<1> SUFFICES ASSUME RouterInit PROVE RouterInv
  OBVIOUS
<1>1. IInv
  BY Initially DEF RouterInit
<1>2. RouterTypeOK
  BY Orders DEF RouterInit, RouterTypeOK, Transport, Pending
<1>3. WrongIfOverwritten /\ Settled
  BY DEF RouterInit, HubInit, WrongIfOverwritten, Settled, AnyUp
<1>4. passed = {} /\ \A m \in Message : SentSoFar(m)
  BY DEF RouterInit, SentSoFar, Pending
<1> QED
  BY <1>1, <1>2, <1>3, <1>4 DEF RouterInv

LEMMA RouterPromises == RouterInv => RouterPromise
<1> SUFFICES ASSUME RouterInv PROVE RouterPromise
  OBVIOUS
<1>1. OkIsDelivered
  BY DEF RouterInv, SentSoFar, OkIsDelivered
<1>2. TwiceOnlyAfterFailure
  <2> SUFFICES ASSUME NEW m \in Message
               PROVE  /\ "hub" \in copies[m] => result[m] = Ok("hub")
                      /\ \A t \in copies[m] : result[m].ok /\ t # result[m].via =>
                           \E i, j \in DOMAIN Order :
                              i < j /\ Order[i] = t /\ Order[j] = result[m].via
    BY DEF TwiceOnlyAfterFailure
  <2>1. SentSoFar(m) /\ at[m] \in 1..5
    BY Orders DEF RouterInv, RouterTypeOK
  <2>2. ASSUME NEW t \in copies[m], result[m].ok, t # result[m].via
        PROVE  \E i, j \in DOMAIN Order : i < j /\ Order[i] = t /\ Order[j] = result[m].via
    <3>1. PICK i \in 1..at[m] : Order[i] = t
      BY <2>1, <2>2 DEF SentSoFar
    <3>2. result[m].via = Order[at[m]]
      BY <2>1, <2>2 DEF SentSoFar, Now
    <3>3. i # at[m]
      BY <2>2, <3>1, <3>2
    <3>4. i \in DOMAIN Order /\ at[m] \in DOMAIN Order /\ i < at[m]
      BY <2>1, <3>3, Orders
    <3> QED
      BY <3>1, <3>2, <3>4
  <2> QED
    BY <2>1, <2>2 DEF SentSoFar
<1>3. PassedOnlyIfOverwritten
  BY DEF RouterInv, PassedOnlyIfOverwritten, Overwritten
<1> QED
  BY <1>1, <1>2, <1>3 DEF RouterPromise

\* A step of the hub disturbs none of what is said of it and of what it was passed over for.
LEMMA HubGoesOn ==
    ASSUME IInv, WrongIfOverwritten, Settled, [HubNext]_vars
    PROVE  WrongIfOverwritten' /\ Settled' /\ (Overwritten => Overwritten')
<1> DEFINE Stands == WrongIfOverwritten' /\ Settled' /\ (Overwritten => Overwritten')
<1> USE DEF WrongIfOverwritten, Settled, Overwritten, AnyUp
<1>1. CASE Connect
  BY <1>1 DEF Connect, IInv, Fresh
<1>2. CASE ConnectReturns
  BY <1>2 DEF ConnectReturns
<1>3. CASE Disconnect
  BY <1>3 DEF Disconnect, callVars
<1>4. ASSUME NEW w \in Workspace, Reopen(w) \/ ReopenThrows(w) PROVE Stands
  BY <1>4 DEF Reopen, ReopenThrows, callVars
<1>5. ASSUME NEW w \in Workspace, TimesOut(w) PROVE Stands
  <2>1. UNCHANGED <<joined, connected, stage, up>>
    BY <1>5 DEF TimesOut
  <2>2. \A v \in Workspace : promise'[v] \in {promise[v], "false"}
    BY <1>5 DEF TimesOut, IInv, HubTypeOK
  <2> QED
    BY <2>1, <2>2
<1>6. ASSUME NEW w \in Workspace, NEW s \in Slot, Opened(w, s) PROVE Stands
  <2>1. connected' /\ stage' = stage
    BY <1>6 DEF Opened
  <2>2. \A v \in Workspace :
          promise'[v] # promise[v] => promise[v] = "pending" /\ promise'[v] = "true"
    BY <1>6 DEF Opened, IInv, HubTypeOK
  <2> QED
    BY <2>1, <2>2
<1>7. ASSUME NEW w \in Workspace, NEW s \in Slot, Closed(w, s) PROVE Stands
  BY <1>7 DEF Closed, Gone, callVars
<1>8. ASSUME NEW w \in Workspace, NEW A \in SUBSET Agent,
             AuthOk(w, A) \/ Presence(w, A) \/ NodeLeft(w, A)
      PROVE  Stands
  BY <1>8 DEF AuthOk, Presence, NodeLeft, Receive, callVars
<1>9. ASSUME NEW w \in Workspace, NEW s \in Slot, Closing(w, s) PROVE Stands
  BY <1>9 DEF Closing, callVars
<1>10. CASE UNCHANGED vars
  BY <1>10 DEF vars, callVars
<1> QED
  BY <1>1, <1>2, <1>3, <1>4, <1>5, <1>6, <1>7, <1>8, <1>9, <1>10 DEF HubNext

\* The loop goes on to the next transport, or ends behind the last.
LEMMA GoingOn ==
    ASSUME RouterTypeOK, NEW m \in Message, GoesOn(m), phase[m] # "done", SentSoFar(m)
    PROVE  /\ at' \in [Message -> 1..Len(Order)]
           /\ phase' \in [Message -> {"new", "choosing", "awaiting", "done"}]
           /\ at'[m] \in at[m]..5 /\ phase'[m] \in {"choosing", "done"}
           /\ result' \in [Message -> [ok : BOOLEAN, via : Transport \cup {"none"},
                                      reason : {"none", "pending", "error", "unreachable"}]]
           /\ phase'[m] # "done" => result'[m] = Pending
           /\ ~result'[m].ok
           /\ \A o \in Message \ {m} :
                at'[o] = at[o] /\ phase'[o] = phase[o] /\ result'[o] = result[o]
<1> DEFINE Results == [ok : BOOLEAN, via : Transport \cup {"none"},
                       reason : {"none", "pending", "error", "unreachable"}]
<1>1. at[m] \in 1..5 /\ result[m] = Pending
  BY Orders DEF RouterTypeOK, SentSoFar
<1>2. Unreachable \in Results /\ ~Unreachable.ok /\ ~Pending.ok
  BY DEF Unreachable, Pending
<1>3. CASE at[m] = Len(Order)
  <2>1. /\ result' = [result EXCEPT ![m] = Unreachable] /\ at' = at
        /\ phase' = [phase EXCEPT ![m] = "done"]
    BY <1>3 DEF GoesOn, SendReturns
  <2>2. result' \in [Message -> Results] /\ result'[m] = Unreachable /\ phase'[m] = "done"
    BY <1>2, <2>1 DEF RouterTypeOK
  <2>3. at' \in [Message -> 1..Len(Order)] /\ at'[m] \in at[m]..5
        /\ phase' \in [Message -> {"new", "choosing", "awaiting", "done"}]
    BY <1>1, <2>1 DEF RouterTypeOK
  <2>4. \A o \in Message \ {m} : at'[o] = at[o] /\ phase'[o] = phase[o] /\ result'[o] = result[o]
    BY <2>1 DEF RouterTypeOK
  <2> QED
    BY <1>2, <2>2, <2>3, <2>4
<1>4. CASE at[m] # Len(Order)
  <2>1. /\ result' = result /\ at' = [at EXCEPT ![m] = @ + 1]
        /\ phase' = [phase EXCEPT ![m] = "choosing"]
    BY <1>4 DEF GoesOn
  <2>2. at[m] + 1 \in 1..Len(Order) /\ at[m] + 1 \in at[m]..5
    BY <1>1, <1>4, Orders
  <2>3. at' \in [Message -> 1..Len(Order)] /\ at'[m] \in at[m]..5
        /\ phase' \in [Message -> {"new", "choosing", "awaiting", "done"}] /\ phase'[m] = "choosing"
    BY <2>1, <2>2 DEF RouterTypeOK
  <2>4. \A o \in Message \ {m} : at'[o] = at[o] /\ phase'[o] = phase[o] /\ result'[o] = result[o]
    BY <2>1 DEF RouterTypeOK
  <2> QED
    BY <1>1, <1>2, <2>1, <2>3, <2>4 DEF RouterTypeOK
<1> QED
  BY <1>3, <1>4

\* What has been sent of the others does not change, ...
LEMMA OthersSent ==
    ASSUME NEW m \in Message, \A o \in Message : SentSoFar(o),
           \A o \in Message \ {m} :
             /\ at'[o] = at[o] /\ phase'[o] = phase[o] /\ result'[o] = result[o]
             /\ copies'[o] = copies[o] /\ loose'[o] = loose[o]
             /\ o \in lost' <=> o \in lost
    PROVE  \A o \in Message \ {m} : SentSoFar(o)'
BY DEF SentSoFar, Now

\* ... and what has been sent of this one stands when the loop goes on.
LEMMA SentGoesOn ==
    ASSUME RouterTypeOK, \A o \in Message : SentSoFar(o),
           NEW m \in Message, GoesOn(m), phase[m] # "done", Now(m) # "hub" \/ loose' = loose,
           UNCHANGED <<copies, lost>>,
           loose' = loose \/ loose' = [loose EXCEPT ![m] = @ \cup {Now(m)}]
    PROVE  \A o \in Message : SentSoFar(o)'
<1>1. /\ at[m] \in 1..5 /\ at'[m] \in at[m]..5 /\ phase'[m] \in {"choosing", "done"}
      /\ phase'[m] # "done" => result'[m] = Pending
      /\ ~result'[m].ok
      /\ \A o \in Message \ {m} : at'[o] = at[o] /\ phase'[o] = phase[o] /\ result'[o] = result[o]
  BY GoingOn, Orders DEF RouterTypeOK
<1>2. /\ loose'[m] \subseteq loose[m] \cup {Now(m)}
      /\ "hub" \notin loose'[m]
      /\ \A o \in Message \ {m} : loose'[o] = loose[o]
  BY DEF RouterTypeOK, SentSoFar
<1>3. \A t \in copies'[m] \cup loose'[m] : \E i \in 1..at'[m] : Order[i] = t
  <2> SUFFICES ASSUME NEW t \in copies[m] \cup loose[m] \cup {Now(m)}
               PROVE  \E i \in 1..at'[m] : Order[i] = t
    BY <1>2
  <2>1. \E i \in 1..at[m] : Order[i] = t
    BY <1>1 DEF SentSoFar, Now
  <2> QED
    BY <1>1, <2>1
<1>4. "hub" \notin copies'[m]
  BY DEF SentSoFar, Ok, Pending
<1>5. SentSoFar(m)'
  BY <1>1, <1>2, <1>3, <1>4 DEF SentSoFar
<1> QED
  BY <1>1, <1>2, <1>5, OthersSent

LEMMA RouterSteps == RouterInv /\ [RouterNext]_routerVars => RouterInv'
<1> SUFFICES ASSUME RouterInv, [RouterNext]_routerVars PROVE RouterInv'
  OBVIOUS
<1> USE DEF RouterInv
<1>1. CASE [HubNext]_vars /\ UNCHANGED sendVars
  <2>1. IInv' /\ WrongIfOverwritten' /\ Settled' /\ (Overwritten => Overwritten')
    BY <1>1, Stepwise, HubGoesOn
  <2>2. RouterTypeOK' /\ \A m \in Message : SentSoFar(m)'
    BY <1>1 DEF sendVars, RouterTypeOK, SentSoFar, Now
  <2> QED
    BY <1>1, <2>1, <2>2 DEF sendVars
<1>2. ASSUME UNCHANGED vars, RouterTypeOK', passed' # {} => Overwritten,
             \A m \in Message : SentSoFar(m)'
      PROVE  RouterInv'
  <2>1. IInv' /\ WrongIfOverwritten' /\ Settled' /\ (Overwritten => Overwritten')
    BY <1>2, Stepwise, HubGoesOn
  <2> QED
    BY <1>2, <2>1
<1>3. ASSUME NEW m \in Message, NEW a \in Agent, NEW remote \in BOOLEAN, Send(m, a, remote)
      PROVE  RouterInv'
  <2>1. RouterTypeOK'
    BY <1>3 DEF Send, RouterTypeOK
  <2>2. \A o \in Message : SentSoFar(o)'
    BY <1>3 DEF Send, SentSoFar, Now, RouterTypeOK
  <2> QED
    BY <1>2, <1>3, <2>1, <2>2 DEF Send
<1>4. ASSUME NEW m \in Message, HubSends(m) PROVE RouterInv'
  <2>1. /\ UNCHANGED <<vars, target, loose, at, passed>> /\ phase[m] = "choosing"
        /\ Now(m) = "hub"
        /\ result' = [result EXCEPT ![m] = Ok("hub")]
        /\ phase' = [phase EXCEPT ![m] = "done"]
    BY <1>4 DEF HubSends, Choosing, SendReturns
  <2>2. \/ copies' = [copies EXCEPT ![m] = @ \cup {"hub"}] /\ UNCHANGED lost
        \/ lost' = lost \cup {m} /\ UNCHANGED copies
    BY <1>4 DEF HubSends
  <2>3. RouterTypeOK'
    BY <2>1, <2>2, Orders DEF RouterTypeOK, Now, Ok, Transport
  <2>4. copies[m] \cup loose[m] \subseteq {"tmux"} /\ m \notin lost
    <3>1. at[m] = 2
      BY <2>1 DEF Now, Order, RouterTypeOK
    <3>2. \A t \in copies[m] \cup loose[m] : \E i \in 1..2 : Order[i] = t
      BY <3>1 DEF SentSoFar
    <3>3. "hub" \notin copies[m] \cup loose[m]
      BY <2>1 DEF SentSoFar, Ok, Pending
    <3>4. Order[1] = "tmux" /\ Order[2] = "hub" /\ 1..2 = {1, 2}
      BY DEF Order
    <3> QED
      BY <2>1, <3>2, <3>3, <3>4 DEF SentSoFar
  <2>5. SentSoFar(m)'
    <3>1. /\ result'[m] = Ok("hub") /\ phase'[m] = "done" /\ at'[m] = at[m]
          /\ loose'[m] = loose[m] /\ Now(m)' = "hub" /\ Ok("hub").via = "hub"
      BY <2>1 DEF RouterTypeOK, Now, Ok
    <3>2. \E i \in 1..at[m] : Order[i] = "hub"
      BY <2>1 DEF Now, RouterTypeOK
    <3>3. copies'[m] \subseteq copies[m] \cup {"hub"}
          /\ ("hub" \in copies'[m] \/ m \in lost')
          /\ (m \in lost' => copies'[m] = copies[m])
      BY <2>2, <2>4 DEF RouterTypeOK
    <3> QED
      BY <2>4, <3>1, <3>2, <3>3 DEF SentSoFar
  <2>6. \A o \in Message : SentSoFar(o)'
    <3>1. \A o \in Message \ {m} : SentSoFar(o)'
      BY <2>1, <2>2, OthersSent DEF RouterTypeOK
    <3> QED
      BY <2>5, <3>1
  <2> QED
    BY <1>2, <2>1, <2>3, <2>6
<1>12. ASSUME NEW m \in Message, HubPasses(m) PROVE RouterInv'
  <2>1. /\ UNCHANGED <<vars, target, loose, copies, lost>> /\ phase[m] = "choosing"
        /\ GoesOn(m)
        /\ passed' = IF HasUp(target[m].agent) THEN passed \cup {m} ELSE passed
    BY <1>12 DEF HubPasses, Choosing
  <2>2. ASSUME HasUp(target[m].agent) PROVE Overwritten
    <3>1. PICK w \in joined : w \in up /\ target[m].agent \in agents[w]
      BY <2>2 DEF HasUp
    <3>2. ws[w] # Null /\ sock[w][ws[w]] \in {"open", "closing"}
      BY <3>1, HubConstants DEF IInv, HubTypeOK, Current
    <3>3. Takers(m) # {} /\ AnyUp(joined, up)
      BY <3>1, <3>2 DEF Takers, Tried, AnyUp
    <3>4. ~connected
      BY <1>12, <3>1, <3>3 DEF HubPasses, CanReach
    <3> QED
      BY <3>3, <3>4 DEF WrongIfOverwritten
  <2>3. RouterTypeOK'
    BY <2>1, GoingOn DEF RouterTypeOK
  <2>4. \A o \in Message : SentSoFar(o)'
    BY <2>1, SentGoesOn
  <2> QED
    BY <1>2, <2>1, <2>2, <2>3, <2>4
<1>5. ASSUME NEW m \in Message, Skips(m) PROVE RouterInv'
  <2>1. UNCHANGED <<vars, target, loose, copies, lost, passed>> /\ phase[m] = "choosing" /\ GoesOn(m)
    BY <1>5 DEF Skips, Choosing
  <2>2. RouterTypeOK'
    BY <2>1, GoingOn DEF RouterTypeOK
  <2>3. \A o \in Message : SentSoFar(o)'
    BY <2>1, SentGoesOn
  <2> QED
    BY <1>2, <2>1, <2>2, <2>3
<1>6. ASSUME NEW m \in Message, Awaits(m) PROVE RouterInv'
  <2>1. RouterTypeOK'
    BY <1>6 DEF Awaits, Choosing, RouterTypeOK
  <2>2. \A o \in Message : SentSoFar(o)'
    BY <1>6 DEF Awaits, Choosing, SentSoFar, Now, RouterTypeOK
  <2> QED
    BY <1>2, <1>6, <2>1, <2>2 DEF Awaits, Choosing
<1>7. ASSUME NEW m \in Message, Delivers(m) PROVE RouterInv'
  <2>1. /\ phase[m] = "awaiting" /\ copies' = [copies EXCEPT ![m] = @ \cup {Now(m)}]
        /\ UNCHANGED <<vars, target, at, phase, loose, result, lost, passed>>
    BY <1>7 DEF Delivers
  <2>2. RouterTypeOK'
    BY <2>1, Orders DEF RouterTypeOK, Now
  <2>3. \A o \in Message : SentSoFar(o)'
    BY <2>1, Orders DEF SentSoFar, Now, RouterTypeOK
  <2> QED
    BY <1>2, <2>1, <2>2, <2>3
<1>8. ASSUME NEW m \in Message, DeliversLate(m) PROVE RouterInv'
  <2>1. /\ copies' = [copies EXCEPT ![m] = @ \cup loose[m]]
        /\ loose' = [loose EXCEPT ![m] = {}]
        /\ UNCHANGED <<vars, target, at, phase, result, lost, passed>>
    BY <1>8 DEF DeliversLate
  <2>2. RouterTypeOK'
    BY <2>1 DEF RouterTypeOK
  <2>3. \A o \in Message : SentSoFar(o)'
    <3>1. \A o \in Message \ {m} : SentSoFar(o)'
      BY <2>1, OthersSent DEF RouterTypeOK
    <3>2. copies'[m] = copies[m] \cup loose[m] /\ loose'[m] = {}
      BY <2>1 DEF RouterTypeOK
    <3>3. SentSoFar(m)'
      BY <2>1, <3>2 DEF SentSoFar, Now
    <3> QED
      BY <3>1, <3>3
  <2> QED
    BY <1>2, <2>1, <2>2, <2>3
<1>9. ASSUME NEW m \in Message, Answers(m) PROVE RouterInv'
  <2>1. /\ phase[m] = "awaiting" /\ Now(m) \in copies[m]
        /\ result' = [result EXCEPT ![m] = Ok(Now(m))]
        /\ phase' = [phase EXCEPT ![m] = "done"]
        /\ UNCHANGED <<vars, target, at, copies, loose, lost, passed>>
    BY <1>9 DEF Answers, SendReturns
  <2>2. RouterTypeOK'
    BY <2>1, Orders DEF RouterTypeOK, Ok, Now
  <2>3. \A o \in Message : SentSoFar(o)'
    <3>1. \A o \in Message \ {m} : SentSoFar(o)'
      BY <2>1, OthersSent DEF RouterTypeOK
    <3>2. SentSoFar(m)'
      BY <2>1 DEF SentSoFar, Now, RouterTypeOK, Ok, Pending
    <3> QED
      BY <3>1, <3>2
  <2> QED
    BY <1>2, <2>1, <2>2, <2>3
<1>10. ASSUME NEW m \in Message, SendFails(m) PROVE RouterInv'
  <2>1. /\ phase[m] = "awaiting" /\ GoesOn(m)
        /\ loose' = IF Now(m) = "tmux" THEN loose ELSE [loose EXCEPT ![m] = @ \cup {Now(m)}]
        /\ UNCHANGED <<vars, target, copies, lost, passed>>
    BY <1>10 DEF SendFails
  <2>2. RouterTypeOK'
    BY <2>1, GoingOn, Orders DEF RouterTypeOK, Now
  <2>3. \A o \in Message : SentSoFar(o)'
    <3>1. Now(m) # "hub"
      BY <2>1 DEF SentSoFar
    <3> QED
      BY <2>1, <3>1, SentGoesOn
  <2> QED
    BY <1>2, <2>1, <2>2, <2>3
<1>11. ASSUME NEW m \in Message, Throws(m) PROVE RouterInv'
  <2>1. /\ phase[m] = "awaiting" /\ result' = [result EXCEPT ![m] = Fatal(Now(m))]
        /\ phase' = [phase EXCEPT ![m] = "done"]
        /\ UNCHANGED <<vars, target, at, copies, loose, lost, passed>>
    BY <1>11 DEF Throws, SendReturns
  <2>2. RouterTypeOK'
    BY <2>1, Orders DEF RouterTypeOK, Fatal, Now
  <2>3. \A o \in Message : SentSoFar(o)'
    <3>1. \A o \in Message \ {m} : SentSoFar(o)'
      BY <2>1, OthersSent DEF RouterTypeOK
    <3>2. SentSoFar(m)'
      BY <2>1 DEF SentSoFar, Now, RouterTypeOK, Fatal, Pending, Ok
    <3> QED
      BY <3>1, <3>2
  <2> QED
    BY <1>2, <2>1, <2>2, <2>3
<1> QED
  BY <1>1, <1>3, <1>4, <1>5, <1>6, <1>7, <1>8, <1>9, <1>10, <1>11, <1>12
  DEF RouterNext, routerVars

\* transport.ts, send: a true answer was given for a delivery, or by the hub for what its closing
\* socket dropped; a message is handed over twice only behind a transport that failed, and the hub
\* is passed over only where connect() has overwritten its status; for any messages, agents and
\* workspaces.
THEOREM RouterKeepsPromise == RouterSpec => []RouterPromise
BY RouterStarts, RouterSteps, RouterPromises, PTL DEF RouterSpec

\* The router takes no step of the hub transport but the hub's own: what is proved of HubSpec
\* holds of the hub inside the router too.
THEOREM RouterLeavesHub == RouterSpec => HubSpec
<1>1. RouterInit => HubInit
  BY DEF RouterInit
<1>2. [RouterNext]_routerVars => [HubNext]_vars
  <2> SUFFICES ASSUME [RouterNext]_routerVars PROVE [HubNext]_vars
    OBVIOUS
  <2>1. ASSUME NEW m \in Message, HubSends(m) \/ HubPasses(m) \/ Skips(m) \/ Awaits(m) PROVE UNCHANGED vars
    BY <2>1 DEF HubSends, HubPasses, Skips, Awaits, Choosing
  <2>2. ASSUME NEW m \in Message, NEW a, NEW remote, Send(m, a, remote) PROVE UNCHANGED vars
    BY <2>2 DEF Send
  <2>3. ASSUME NEW m \in Message,
               Delivers(m) \/ DeliversLate(m) \/ Answers(m) \/ SendFails(m) \/ Throws(m)
        PROVE  UNCHANGED vars
    BY <2>3 DEF Delivers, DeliversLate, Answers, SendFails, Throws
  <2>4. CASE UNCHANGED routerVars
    BY <2>4 DEF routerVars
  <2> QED
    BY <2>1, <2>2, <2>3, <2>4 DEF RouterNext
<1> QED
  BY <1>1, <1>2, PTL DEF RouterSpec, HubSpec
=============================================================================
