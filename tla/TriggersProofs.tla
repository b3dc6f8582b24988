--------------------------- MODULE TriggersProofs ---------------------------
(***************************************************************************)
(* Proofs about Triggers: the two idle maps agree; until an index of an    *)
(* outdated list removes a trigger, exactly the one-time triggers that     *)
(* have succeeded are gone; and whatever is removed, a one-time trigger    *)
(* that has succeeded is left, and run by a later fire, only if one before *)
(* it has gone.  The lists that fires hold, and the configured triggers of *)
(* the moment, are what is Kept of older lists, in their order.            *)
(***************************************************************************)
EXTENDS Triggers, SequenceTheorems, TLAPS

\* Lists of triggers hold none twice; an action that runs is one of its list's.
Lists ==
    /\ config \in Seq(Trigger) /\ IsInjective(config)
    /\ list \in [Task -> Seq(Trigger)]
    /\ at \in [Task -> Nat]
    /\ step \in [Task -> {"free", "action", "back"}]
    /\ \A k \in Task : step[k] = "action" => at[k] \in DOMAIN list[k]

\* A check that fires, fires for an agent; a free task is no check.
Idling ==
    /\ timed \subseteq Agent
    /\ prev \in [Agent -> {"none", "busy", "idle"}]
    /\ who \in [Task -> Agent \cup {None}]
    /\ idles = [k \in Task |-> idles[k]]
    /\ \A k \in Task : idles[k] # <<>> => who[k] \in Agent /\ step[k] # "free"
    /\ BusyIffTimed

\* What is left of a list: its elements come in its order, each at its old place or before
\* it, and before it only if one that came earlier has gone.
Kept(c, l) ==
    /\ \A i \in DOMAIN c : \E j \in DOMAIN l :
          l[j] = c[i] /\ i <= j /\ (i < j => \E d \in DOMAIN l : d < j /\ l[d] \notin Range(c))
    /\ \A i, m \in DOMAIN c, j, n \in DOMAIN l :
          i < m /\ l[j] = c[i] /\ l[n] = c[m] => j < n

Orders ==
    /\ Kept(config, Configured)
    /\ \A k \in Task : step[k] # "free" =>
          /\ Kept(config, list[k]) /\ Kept(list[k], Configured) /\ IsInjective(list[k])
          /\ \A t \in begun[k] \cap Range(list[k]) : Displaced(t)
    /\ begun = [k \in Task |-> begun[k]] /\ \A k \in Task : begun[k] \subseteq Once

IInv == Lists /\ Idling /\ Orders /\ OnlySpentTriggersGo

\* What the removal of an index does to a list without repetitions.
LEMMA RemoveFacts ==
    ASSUME NEW l \in Seq(Trigger), IsInjective(l), NEW i \in DOMAIN l
    PROVE  /\ RemoveAt(l, i) \in Seq(Trigger)
           /\ IsInjective(RemoveAt(l, i))
           /\ Range(RemoveAt(l, i)) = Range(l) \ {l[i]}
           /\ Len(RemoveAt(l, i)) = Len(l) - 1
           /\ \A j \in 1..(Len(l) - 1) :
                 RemoveAt(l, i)[j] = IF j < i THEN l[j] ELSE l[j + 1]
<1> DEFINE r == RemoveAt(l, i)
<1>1. i \in 1..Len(l) /\ Len(l) \in Nat
  BY LenProperties
<1>2. /\ SubSeq(l, 1, i - 1) \in Seq(Trigger) /\ Len(SubSeq(l, 1, i - 1)) = i - 1
      /\ \A j \in 1..(i - 1) : SubSeq(l, 1, i - 1)[j] = l[j]
  BY <1>1, SubSeqProperties
<1>3. /\ SubSeq(l, i + 1, Len(l)) \in Seq(Trigger)
      /\ Len(SubSeq(l, i + 1, Len(l))) = Len(l) - i
      /\ \A j \in 1..(Len(l) - i) : SubSeq(l, i + 1, Len(l))[j] = l[i + j]
  BY <1>1, SubSeqProperties
<1>4. /\ r \in Seq(Trigger) /\ Len(r) = Len(l) - 1
      /\ \A j \in 1..(Len(l) - 1) : r[j] = IF j < i THEN l[j] ELSE l[j + 1]
  <2> DEFINE f == SubSeq(l, 1, i - 1)
             g == SubSeq(l, i + 1, Len(l))
  <2>1. r = f \o g
    BY DEF RemoveAt
  <2>2. /\ f \o g \in Seq(Trigger) /\ Len(f \o g) = Len(f) + Len(g)
        /\ \A j \in 1..(Len(f) + Len(g)) :
            (f \o g)[j] = IF j <= Len(f) THEN f[j] ELSE g[j - Len(f)]
    BY <1>2, <1>3, ConcatProperties, Zenon
  <2>3. /\ Len(f) = i - 1 /\ \A j \in 1..(i - 1) : f[j] = l[j]
        /\ Len(g) = Len(l) - i /\ \A j \in 1..(Len(l) - i) : g[j] = l[i + j]
    BY <1>2, <1>3
  <2> HIDE DEF f, g, r
  <2>4. ASSUME NEW j \in 1..(Len(l) - 1)
        PROVE  r[j] = IF j < i THEN l[j] ELSE l[j + 1]
    <3>1. CASE j < i
      <4>1. /\ j \in 1..(i - 1) /\ j <= Len(f)
            /\ j \in 1..(Len(f) + Len(g))
        BY <1>1, <2>3, <3>1
      <4>2. r[j] = f[j]
        BY <2>1, <2>2, <4>1
      <4> QED
        BY <2>3, <3>1, <4>1, <4>2
    <3>2. CASE ~(j < i)
      <4>1. /\ j - (i - 1) \in 1..(Len(l) - i) /\ ~(j <= Len(f))
            /\ j \in 1..(Len(f) + Len(g)) /\ i + (j - (i - 1)) = j + 1
        BY <1>1, <2>3, <3>2
      <4>2. r[j] = g[j - (i - 1)]
        BY <2>1, <2>2, <2>3, <4>1
      <4> QED
        BY <2>3, <3>2, <4>1, <4>2
    <3> QED
      BY <3>1, <3>2
  <2> QED
    <3>1. Len(r) = Len(l) - 1 /\ r \in Seq(Trigger)
      BY <1>1, <2>1, <2>2, <2>3
    <3> QED
      BY <2>4, <3>1
<1> HIDE DEF r
<1>5. DOMAIN r = 1..(Len(l) - 1) /\ DOMAIN l = 1..Len(l)
  BY <1>4
<1>6. IsInjective(r)
  <2> SUFFICES ASSUME NEW a \in DOMAIN r, NEW b \in DOMAIN r, r[a] = r[b]
               PROVE  a = b
    BY DEF IsInjective
  <2> DEFINE Old(j) == IF j < i THEN j ELSE j + 1
  <2>1. /\ Old(a) \in DOMAIN l /\ r[a] = l[Old(a)]
        /\ Old(b) \in DOMAIN l /\ r[b] = l[Old(b)]
    BY <1>1, <1>4, <1>5
  <2>2. Old(a) = Old(b)
    BY <2>1 DEF IsInjective
  <2> QED
    BY <1>1, <1>5, <2>2
<1>7. Range(r) = Range(l) \ {l[i]}
  <2>1. ASSUME NEW j \in DOMAIN r
        PROVE  \E m \in DOMAIN l : m # i /\ r[j] = l[m]
    <3>1. CASE j < i
      <4>1. j \in DOMAIN l /\ j # i
        BY <1>1, <1>5, <3>1
      <4> QED
        BY <1>4, <1>5, <3>1, <4>1
    <3>2. CASE ~(j < i)
      <4>1. j + 1 \in DOMAIN l /\ j + 1 # i
        BY <1>1, <1>5, <3>2
      <4> QED
        BY <1>4, <1>5, <3>2, <4>1
    <3> QED
      BY <3>1, <3>2
  <2>2. ASSUME NEW m \in DOMAIN l, m # i
        PROVE  \E j \in DOMAIN r : r[j] = l[m]
    <3>1. CASE m < i
      BY <1>1, <1>4, <1>5, <3>1
    <3>2. CASE m > i
      <4>1. m - 1 \in DOMAIN r /\ ~(m - 1 < i) /\ (m - 1) + 1 = m
        BY <1>1, <1>5, <3>2
      <4> QED
        BY <1>4, <1>5, <4>1
    <3> QED
      BY <1>1, <1>5, <2>2, <3>1, <3>2
  <2> QED
    BY <2>1, <2>2 DEF Range, IsInjective
<1> QED
  BY <1>4, <1>6, <1>7 DEF r

LEMMA KeptAtFirst ==
    ASSUME NEW l \in Seq(Trigger), IsInjective(l) PROVE Kept(l, l)
<1>1. DOMAIN l = 1..Len(l) /\ Len(l) \in Nat
  BY LenProperties
<1>2. \A i, j \in DOMAIN l : l[i] = l[j] => i = j
  BY DEF IsInjective
<1> QED
  BY <1>1, <1>2 DEF Kept

\* What is left of a list when one more goes.
LEMMA KeptWithout ==
    ASSUME NEW c \in Seq(Trigger), IsInjective(c), NEW l \in Seq(Trigger), IsInjective(l),
           Kept(c, l), NEW i \in DOMAIN c
    PROVE  Kept(RemoveAt(c, i), l)
<1> DEFINE r == RemoveAt(c, i)
           Old(j) == IF j < i THEN j ELSE j + 1
<1>1. /\ r \in Seq(Trigger) /\ Range(r) = Range(c) \ {c[i]} /\ Len(r) = Len(c) - 1
      /\ \A j \in 1..(Len(c) - 1) : r[j] = IF j < i THEN c[j] ELSE c[j + 1]
  BY RemoveFacts
<1> HIDE DEF r
<1>2. /\ DOMAIN r = 1..(Len(c) - 1) /\ DOMAIN c = 1..Len(c) /\ DOMAIN l = 1..Len(l)
      /\ Len(c) \in Nat /\ Len(l) \in Nat /\ i \in 1..Len(c)
  BY <1>1, LenProperties
<1>3. \A j \in DOMAIN r : Old(j) \in DOMAIN c /\ r[j] = c[Old(j)] /\ Old(j) \in {j, j + 1}
                        /\ (Old(j) # j => i < Old(j))
  BY <1>1, <1>2
<1>4. \A j, m \in DOMAIN r : j < m => Old(j) < Old(m)
  BY <1>2
<1> HIDE DEF Old
<1>5. ASSUME NEW j \in DOMAIN r
      PROVE  \E n \in DOMAIN l :
               l[n] = r[j] /\ j <= n /\ (j < n => \E d \in DOMAIN l : d < n /\ l[d] \notin Range(r))
  <2>1. PICK n \in DOMAIN l :
          l[n] = c[Old(j)] /\ Old(j) <= n
          /\ (Old(j) < n => \E d \in DOMAIN l : d < n /\ l[d] \notin Range(c))
    BY <1>3 DEF Kept
  <2>2. l[n] = r[j] /\ j <= n
    BY <1>2, <1>3, <2>1
  <2>3. CASE Old(j) = j
    BY <1>1, <2>1, <2>2, <2>3
  <2>4. CASE Old(j) # j
    <3>1. PICK d \in DOMAIN l : l[d] = c[i]
      BY DEF Kept
    <3>2. d < n
      BY <1>3, <2>1, <2>4, <3>1 DEF Kept
    <3>3. l[d] \notin Range(r)
      BY <1>1, <3>1
    <3> QED
      BY <2>2, <3>2, <3>3
  <2> QED
    BY <2>3, <2>4
<1>6. ASSUME NEW a \in DOMAIN r, NEW m \in DOMAIN r, NEW j \in DOMAIN l, NEW n \in DOMAIN l,
             a < m, l[j] = r[a], l[n] = r[m]
      PROVE  j < n
  BY <1>3, <1>4, <1>6 DEF Kept
<1> QED
  BY <1>5, <1>6 DEF Kept, r

LEMMA InitIInv == Init => IInv
<1> SUFFICES ASSUME Init PROVE IInv
  OBVIOUS
<1>1. Lists
  BY TriggerConstants DEF Init, Lists
<1>2. Idling
  <2>1. \A a \in Agent : prev[a] # "busy" /\ a \notin timed
    BY DEF Init
  <2> QED
    BY <2>1 DEF Init, Idling, BusyIffTimed
<1>3. OnlySpentTriggersGo
  BY DEF Init, OnlySpentTriggersGo, Range
<1>4. Orders
  BY TriggerConstants, KeptAtFirst DEF Init, Orders
<1> QED
  BY <1>1, <1>2, <1>3, <1>4 DEF IInv

\* fire goes on within its own list.
LEMMA GoOnLists ==
    ASSUME Lists, NEW k \in Task, NEW l \in Seq(Trigger), NEW i, NEW e, NEW a,
           GoOn(k, l, i, e, a), list' \in [Task -> Seq(Trigger)], list'[k] = l,
           \A m \in Task \ {k} : list'[m] = list[m]
    PROVE  /\ at' \in [Task -> Nat]
           /\ step' \in [Task -> {"free", "action", "back"}]
           /\ \A m \in Task : step'[m] = "action" => at'[m] \in DOMAIN list'[m]
           /\ step'[k] # "free" /\ \A m \in Task \ {k} : step'[m] = step[m]
<1>1. CASE /\ at' = [at EXCEPT ![k] = 0]
           /\ step' = [step EXCEPT ![k] = "back"]
  BY <1>1 DEF Lists
<1>2. CASE \E n \in 1..Len(l) : /\ at' = [at EXCEPT ![k] = n]
                               /\ step' = [step EXCEPT ![k] = "action"]
  <2>1. PICK n \in 1..Len(l) : /\ at' = [at EXCEPT ![k] = n]
                               /\ step' = [step EXCEPT ![k] = "action"]
    BY <1>2
  <2>2. n \in Nat /\ n \in DOMAIN l
    BY LenProperties
  <2>3. /\ at'[k] = n /\ step'[k] = "action"
        /\ \A m \in Task \ {k} : at'[m] = at[m] /\ step'[m] = step[m]
    BY <2>1 DEF Lists
  <2> QED
    BY <2>1, <2>2, <2>3 DEF Lists
<1> QED
  BY <1>1, <1>2 DEF GoOn

\* A call of fire starts with the list of the moment.
LEMMA FireLists ==
    ASSUME Lists, NEW k \in Task, NEW e, NEW a \in Agent \cup {None},
           Fire(k, e, a), UNCHANGED config
    PROVE  /\ Lists'
           /\ step'[k] # "free" /\ \A m \in Task \ {k} : step'[m] = step[m]
<1>1. /\ list' = [list EXCEPT ![k] = config]
      /\ GoOn(k, config, 0, e, a)
  BY DEF Fire
<1>2. /\ list' \in [Task -> Seq(Trigger)] /\ list'[k] = config
      /\ \A m \in Task \ {k} : list'[m] = list[m]
  BY <1>1 DEF Lists
<1> QED
  BY <1>1, <1>2, GoOnLists DEF Lists

LEMMA EndLists ==
    ASSUME Lists, NEW k \in Task, End(k), UNCHANGED config
    PROVE  Lists'
  BY DEF Lists, End

\* The idle maps when a check goes on to an agent, or ends.
LEMMA GoThroughIdling ==
    ASSUME Lists, Idling, NEW k \in Task, NEW l, NEW seen, GoThrough(k, l, seen),
           UNCHANGED config, timed' \subseteq Agent
    PROVE  /\ Lists'
           /\ who' \in [Task -> Agent \cup {None}]
           /\ idles' = [m \in Task |-> idles'[m]]
           /\ \A m \in Task :
                idles'[m] # <<>> => who'[m] \in Agent /\ step'[m] # "free"
<1>1. CASE End(k)
  <2>1. Lists'
    BY <1>1, EndLists
  <2> QED
    BY <1>1, <2>1 DEF End, Idling, Lists
<1>2. CASE \E a \in timed' : FireFor(k, l, 0, age[a], a)
  <2>1. PICK a \in timed' : FireFor(k, l, 0, age[a], a)
    BY <1>2
  <2>2. a \in Agent /\ Fire(k, Idle, a) /\ idles' = [idles EXCEPT ![k] = l]
    BY <2>1 DEF FireFor
  <2>3. who' = [who EXCEPT ![k] = a]
    BY <2>2 DEF Fire
  <2>4. /\ Lists'
        /\ step'[k] # "free" /\ \A m \in Task \ {k} : step'[m] = step[m]
    BY <2>2, FireLists
  <2> QED
    BY <2>2, <2>3, <2>4 DEF Idling
<1> QED
  BY <1>1, <1>2 DEF GoThrough

\* A trigger is displaced by what has gone before it, and stays so.
LEMMA DisplacedStays ==
    ASSUME Range(config') \subseteq Range(config), NEW t, Displaced(t)
    PROVE  Displaced(t)'
  BY DEF Displaced

\* fire takes the list of the moment, of which all that has succeeded is displaced.
LEMMA FireOrders ==
    ASSUME Lists, Orders, OnlySpentTriggersGo, NEW k \in Task, NEW e, NEW a,
           Fire(k, e, a), UNCHANGED config, \A m \in Task \ {k} : step'[m] = step[m]
    PROVE  Orders'
<1>1. /\ list'[k] = config /\ \A m \in Task \ {k} : list'[m] = list[m]
      /\ begun' = [begun EXCEPT ![k] = Once \cap succeeded]
  BY DEF Fire, Lists
<1>2. /\ begun'[k] = Once \cap succeeded /\ \A m \in Task \ {k} : begun'[m] = begun[m]
      /\ begun' = [m \in Task |-> begun'[m]]
  BY <1>1 DEF Orders
<1>3. Kept(config, config) /\ Kept(config, Configured) /\ IsInjective(config)
  BY KeptAtFirst DEF Lists, Orders
<1>4. \A t \in Once \cap succeeded \cap Range(config) : Displaced(t)'
  BY DEF OnlySpentTriggersGo, Displaced
<1>5. ASSUME NEW m \in Task, step'[m] # "free"
      PROVE  /\ Kept(config', list'[m]) /\ Kept(list'[m], Configured) /\ IsInjective(list'[m])
             /\ \A t \in begun'[m] \cap Range(list'[m]) : Displaced(t)'
  <2>1. CASE m = k
    BY <1>1, <1>2, <1>3, <1>4, <2>1
  <2>2. CASE m # k
    BY <1>1, <1>2, <1>5, <2>2, DisplacedStays DEF Orders
  <2> QED
    BY <2>1, <2>2
<1>6. \A m \in Task : begun'[m] \subseteq Once
  BY <1>2 DEF Orders
<1> QED
  BY <1>2, <1>3, <1>5, <1>6 DEF Orders, Kept, Displaced

LEMMA EndOrders ==
    ASSUME Lists, Orders, NEW k \in Task, End(k), UNCHANGED config
    PROVE  Orders'
<1>1. /\ step'[k] = "free" /\ begun'[k] = {} /\ begun' = [m \in Task |-> begun'[m]]
      /\ \A m \in Task \ {k} : step'[m] = step[m] /\ list'[m] = list[m] /\ begun'[m] = begun[m]
  BY DEF End, Lists, Orders
<1>2. ASSUME NEW m \in Task, step'[m] # "free"
      PROVE  /\ Kept(config', list'[m]) /\ Kept(list'[m], Configured) /\ IsInjective(list'[m])
             /\ \A t \in begun'[m] \cap Range(list'[m]) : Displaced(t)'
  BY <1>1, <1>2, DisplacedStays DEF Orders
<1> QED
  BY <1>1, <1>2 DEF Orders, Kept, Displaced

LEMMA GoThroughOrders ==
    ASSUME Lists, Orders, OnlySpentTriggersGo, Idling, NEW k \in Task, NEW l, NEW seen,
           GoThrough(k, l, seen), UNCHANGED config, timed' \subseteq Agent
    PROVE  Orders'
<1>1. CASE End(k)
  BY <1>1, EndOrders
<1>2. CASE \E a \in timed' : FireFor(k, l, 0, age[a], a)
  <2>1. PICK a \in timed' : Fire(k, Idle, a)
    BY <1>2 DEF FireFor
  <2> QED
    BY <2>1, FireLists, FireOrders
<1> QED
  BY <1>1, <1>2 DEF GoThrough

\* Nothing of it is about the idle maps.
LEMMA OrdersStay ==
    ASSUME Orders, UNCHANGED <<config, step, list, begun>>
    PROVE  Orders'
  BY DEF Orders, Kept, Displaced

-----------------------------------------------------------------------------
LEMMA ActionKeeps ==
    ASSUME IInv, NEW k \in Task, NEW ok \in BOOLEAN, ActionEnds(k, ok)
    PROVE  IInv'
<1> DEFINE i == at[k]
           l == list[k]
           t == l[i]
           spent == ok /\ t \in Once
<1>1. i \in DOMAIN l /\ l \in Seq(Trigger) /\ t \in Trigger /\ step[k] = "action"
  BY ElementOfSeq DEF IInv, Lists, ActionEnds
<1>2. /\ UNCHANGED <<timed, prev, who, list, idles, begun>>
      /\ GoOn(k, l, i, event[k], who[k])
      /\ config' = IF spent THEN Without(config, i) ELSE config
      /\ succeeded' = IF ok THEN succeeded \cup {t} ELSE succeeded
      /\ outdated' = (outdated \/ (spent /\ config # l))
  BY DEF ActionEnds, checkVars
<1>3. /\ Kept(config, Configured) /\ Kept(config, l) /\ Kept(l, Configured)
      /\ IsInjective(config) /\ IsInjective(l) /\ config \in Seq(Trigger)
      /\ IsInjective(Configured) /\ Configured \in Seq(Trigger)
      /\ DOMAIN config \subseteq Nat /\ DOMAIN l \subseteq Nat
      /\ DOMAIN Configured = 1..Len(Configured) /\ Len(Configured) \in Nat
  BY <1>1, TriggerConstants, LenProperties DEF IInv, Lists, Orders
<1> HIDE DEF spent, t, l, i
<1>5. /\ config' \in Seq(Trigger) /\ IsInjective(config')
      /\ Range(config') \subseteq Range(config)
      /\ \/ config' = config /\ (spent => i \notin DOMAIN config)
         \/ /\ spent /\ i \in DOMAIN config /\ config' = RemoveAt(config, i)
            /\ Range(config') = Range(config) \ {config[i]}
  BY <1>2, <1>3, RemoveFacts DEF Without
<1>6. Lists'
  BY <1>1, <1>2, <1>5, GoOnLists DEF IInv, Lists, i, l
<1>7. step'[k] # "free" /\ \A m \in Task \ {k} : step'[m] = step[m]
  BY <1>1, <1>2, GoOnLists DEF IInv, Lists, i, l
<1>8. Idling'
  BY <1>2, <1>7 DEF IInv, Idling, BusyIffTimed, ActionEnds
<1>9. Orders'
  <2>1. Kept(config', Configured)
    BY <1>3, <1>5, KeptWithout
  <2>2. ASSUME NEW m \in Task, step'[m] # "free"
        PROVE  /\ Kept(config', list'[m]) /\ Kept(list'[m], Configured) /\ IsInjective(list'[m])
               /\ \A u \in begun'[m] \cap Range(list'[m]) : Displaced(u)'
    <3>1. /\ list'[m] = list[m] /\ begun'[m] = begun[m] /\ step[m] # "free"
          /\ list[m] \in Seq(Trigger)
      BY <1>1, <1>2, <1>7, <2>2 DEF IInv, Lists
    <3>2. /\ Kept(config, list[m]) /\ Kept(list[m], Configured) /\ IsInjective(list[m])
          /\ \A u \in begun[m] \cap Range(list[m]) : Displaced(u)
      BY <3>1 DEF IInv, Orders
    <3>3. Kept(config', list[m])
      BY <1>3, <1>5, <3>1, <3>2, KeptWithout
    <3> QED
      BY <1>5, <3>1, <3>2, <3>3, DisplacedStays
  <2>3. begun' = [m \in Task |-> begun'[m]] /\ \A m \in Task : begun'[m] \subseteq Once
    BY <1>2 DEF IInv, Orders
  <2> QED
    BY <2>1, <2>2, <2>3 DEF Orders, Kept, Displaced
<1>10. outdated' \/ Range(config') = Range(Configured) \ (Once \cap succeeded')
  <2> SUFFICES ASSUME ~outdated'
               PROVE  Range(config') = Range(Configured) \ (Once \cap succeeded')
    OBVIOUS
  <2>1. ~outdated /\ (spent => config = l)
    BY <1>2
  <2>2. Range(config) = Range(Configured) \ (Once \cap succeeded)
    BY <2>1 DEF IInv, OnlySpentTriggersGo
  <2>3. CASE spent
    <3>1. config = l /\ i \in DOMAIN config /\ config[i] = t
      BY <1>1, <2>1, <2>3 DEF t
    <3>2. Range(config') = Range(config) \ {t}
      BY <1>5, <2>3, <3>1
    <3>3. ok /\ t \in Once
      BY <2>3 DEF spent
    <3> QED
      BY <1>2, <2>2, <3>2, <3>3
  <2>4. CASE ~spent
    BY <1>2, <2>2, <2>4 DEF spent
  <2> QED
    BY <2>3, <2>4
<1>11. ASSUME NEW j \in DOMAIN Configured, Configured[j] \notin Range(config')
       PROVE  \E n \in 1..j : Configured[n] \in Once \cap succeeded'
  <2>1. CASE Configured[j] \notin Range(config)
    <3>1. PICK n \in 1..j : Configured[n] \in Once \cap succeeded
      BY <2>1 DEF IInv, OnlySpentTriggersGo
    <3> QED
      BY <1>2, <3>1
  <2>2. CASE Configured[j] \in Range(config)
    <3>1. spent /\ i \in DOMAIN config /\ config[i] = Configured[j]
      BY <1>5, <1>11, <2>2
    <3>2. PICK m \in DOMAIN l : l[m] = Configured[j] /\ i <= m
      BY <3>1, <1>3 DEF Kept
    <3>3. PICK n \in DOMAIN Configured : Configured[n] = t
      BY <1>1, <1>3 DEF Kept, t
    <3>4. n <= j
      <4>1. CASE i = m
        BY <1>3, <3>2, <3>3, <4>1 DEF t, IsInjective
      <4>2. CASE i # m
        <5>1. i < m
          BY <1>1, <1>3, <3>2, <4>2
        <5>2. n < j
          BY <1>1, <1>3, <3>2, <3>3, <5>1 DEF Kept, t
        <5> QED
          BY <1>3, <5>2
      <4> QED
        BY <4>1, <4>2
    <3>5. n \in 1..j /\ t \in Once \cap succeeded'
      BY <1>2, <1>3, <3>1, <3>4 DEF spent
    <3> QED
      BY <3>3, <3>5
  <2> QED
    BY <2>1, <2>2
<1>12. ASSUME NEW u \in Once \cap succeeded' \cap Range(config')
       PROVE  Displaced(u)'
  <2>1. CASE u \in succeeded
    BY <1>5, <2>1, DisplacedStays DEF IInv, OnlySpentTriggersGo
  <2>2. CASE u \notin succeeded
    <3>1. u = t /\ ok /\ spent
      BY <1>2, <2>2 DEF spent
    <3>2. PICK m \in DOMAIN config : config[m] = t
      BY <1>5, <3>1 DEF Range
    <3>3. m # i
      BY <1>5, <3>1, <3>2
    <3>4. m <= i /\ (m < i => \E d \in DOMAIN l : d < i /\ l[d] \notin Range(config))
      <4>1. PICK n \in DOMAIN l :
              l[n] = t /\ m <= n /\ (m < n => \E d \in DOMAIN l : d < n /\ l[d] \notin Range(config))
        BY <1>3, <3>2 DEF Kept
      <4>2. n = i
        BY <1>1, <1>3, <4>1 DEF IsInjective, t
      <4> QED
        BY <4>1, <4>2
    <3>5. PICK d \in DOMAIN l : d < i /\ l[d] \notin Range(config)
      BY <1>1, <1>3, <3>3, <3>4
    <3>6. PICK n \in DOMAIN Configured : Configured[n] = l[d]
      BY <1>3 DEF Kept
    <3>7. PICK j \in DOMAIN Configured : Configured[j] = t
      BY <1>1, <1>3 DEF Kept, t
    <3>8. n < j
      BY <1>1, <1>3, <3>5, <3>6, <3>7 DEF Kept, t
    <3>9. Configured[n] \notin Range(config')
      BY <1>5, <3>5, <3>6
    <3> QED
      BY <3>1, <3>7, <3>8, <3>9 DEF Displaced
  <2> QED
    BY <2>1, <2>2
<1>13. OnlySpentTriggersGo'
  BY <1>10, <1>11, <1>12 DEF OnlySpentTriggersGo, Displaced
<1> QED
  BY <1>6, <1>8, <1>9, <1>13 DEF IInv

\* The histories are about what was removed and what has succeeded only.
LEMMA SameHistories ==
    ASSUME IInv, UNCHANGED <<config, histories>>
    PROVE  OnlySpentTriggersGo'
  BY DEF IInv, OnlySpentTriggersGo, Displaced, histories

\* The first half of Idling, which activity and checks change.
Maps ==
    /\ timed \subseteq Agent
    /\ prev \in [Agent -> {"none", "busy", "idle"}]
    /\ BusyIffTimed

LEMMA MarkKeeps ==
    ASSUME Idling, NEW a \in Agent, MarkAgentActive(a)
    PROVE  Maps'
  BY DEF Idling, MarkAgentActive, Maps, BusyIffTimed

LEMMA DirectFire ==
    ASSUME Lists, Idling, NEW k \in Task, NEW e, NEW a \in Agent \cup {None},
           step[k] = "free", Fire(k, e, a), UNCHANGED <<config, idles>>
    PROVE  Lists' /\ (Maps' => Idling')
<1>1. /\ Lists'
      /\ step'[k] # "free" /\ \A m \in Task \ {k} : step'[m] = step[m]
  BY FireLists
<1>2. who' = [who EXCEPT ![k] = IF e = Idle THEN a ELSE None]
  BY DEF Fire
<1> QED
  BY <1>1, <1>2 DEF Idling, Maps

LEMMA NextIInv == IInv /\ [Next]_vars => IInv'
<1> SUFFICES ASSUME IInv, [Next]_vars
             PROVE  IInv'
  OBVIOUS
<1> USE DEF IInv
<1>1. ASSUME NEW k \in Task, Return(k)
      PROVE  IInv'
  <2>1. Lists'
    BY <1>1, EndLists DEF Return
  <2>2. Idling'
    BY <1>1 DEF Return, End, Idling, BusyIffTimed, Lists
  <2>3. Orders'
    BY <1>1, EndOrders DEF Return
  <2> QED
    BY <1>1, <2>1, <2>2, <2>3, SameHistories DEF Return
<1>2. ASSUME NEW k \in Task, CheckIdle(k)
      PROVE  IInv'
  <2>1. /\ UNCHANGED <<config, timed, prev, histories>>
        /\ \E l : GoThrough(k, l, {})
    BY <1>2 DEF CheckIdle
  <2>2. Lists' /\ Idling'
    BY <2>1, GoThroughIdling DEF Idling, BusyIffTimed
  <2>3. Orders'
    BY <2>1, GoThroughOrders DEF Idling
  <2> QED
    BY <2>1, <2>2, <2>3, SameHistories
<1>3. ASSUME NEW k \in Task, BackInCheck(k)
      PROVE  IInv'
  <2>1. /\ idles[k] # <<>> /\ who[k] \in Agent
        /\ UNCHANGED <<config, histories>>
        /\ timed' = IF anyOk[k] THEN timed \ {who[k]} ELSE timed
        /\ prev' = IF anyOk[k] THEN [prev EXCEPT ![who[k]] = "idle"] ELSE prev
    BY <1>3 DEF BackInCheck, Idling
  <2>2. /\ timed' \subseteq Agent /\ prev' \in [Agent -> {"none", "busy", "idle"}]
        /\ BusyIffTimed'
    BY <2>1 DEF Idling, BusyIffTimed
  <2>3. CASE FireFor(k, idles[k], next[k], since[k], who[k])
    <3>1. Fire(k, Idle, who[k]) /\ idles' = [idles EXCEPT ![k] = idles[k]]
      BY <2>3 DEF FireFor
    <3>2. /\ Lists'
          /\ step'[k] # "free" /\ \A m \in Task \ {k} : step'[m] = step[m]
      BY <2>1, <3>1, FireLists
    <3>3. who' = [who EXCEPT ![k] = who[k]]
      BY <3>1 DEF Fire
    <3>4. Orders'
      BY <2>1, <3>1, <3>2, FireOrders
    <3> QED
      BY <2>1, <2>2, <3>1, <3>2, <3>3, <3>4, SameHistories DEF Idling
  <2>4. CASE GoThrough(k, idles[k], visited[k])
    <3>1. Lists' /\ Idling'
      BY <2>1, <2>2, <2>4, GoThroughIdling DEF Idling
    <3>2. Orders'
      BY <2>1, <2>2, <2>4, GoThroughOrders
    <3> QED
      BY <2>1, <3>1, <3>2, SameHistories
  <2> QED
    BY <1>3, <2>3, <2>4 DEF BackInCheck
<1>4. ASSUME NEW k \in Task, NEW ok \in BOOLEAN, ActionEnds(k, ok)
      PROVE  IInv'
  BY <1>4, ActionKeeps
<1>5. ASSUME NEW k \in Task, NEW e \in Event, NEW a \in Agent \cup {None},
             ApiFire(k, e, a)
      PROVE  IInv'
  <2>1. /\ UNCHANGED <<config, timed, prev, idles, histories>>
        /\ step[k] = "free" /\ Fire(k, e, a)
    BY <1>5 DEF ApiFire, checkVars
  <2>2. Lists' /\ Idling'
    BY <2>1, DirectFire DEF Maps, Idling, BusyIffTimed
  <2>3. Orders'
    BY <2>1, FireLists, FireOrders
  <2> QED
    BY <2>1, <2>2, <2>3, SameHistories
<1>6. ASSUME NEW k \in Task, NEW e \in FeedEvents, NEW a \in Agent, FeedFire(k, e, a)
      PROVE  IInv'
  <2>1. /\ UNCHANGED <<config, idles, histories>>
        /\ step[k] = "free" /\ Fire(k, e, a) /\ MarkAgentActive(a)
    BY <1>6 DEF FeedFire, checkVars
  <2>2. Lists' /\ Idling'
    BY <2>1, DirectFire, MarkKeeps
  <2>3. Orders'
    BY <2>1, FireLists, FireOrders
  <2> QED
    BY <2>1, <2>2, <2>3, SameHistories
<1>7. ASSUME NEW a \in Agent, Activity(a)
      PROVE  IInv'
  <2>1. UNCHANGED <<config, fireVars, checkVars, histories>> /\ MarkAgentActive(a)
    BY <1>7 DEF Activity
  <2>2. Lists' /\ Idling'
    BY <2>1, MarkKeeps DEF Lists, Idling, Maps, fireVars, checkVars
  <2>3. Orders'
    BY <2>1, OrdersStay DEF fireVars
  <2> QED
    BY <2>1, <2>2, <2>3, SameHistories
<1>8. CASE Tick \/ UNCHANGED vars
  <2>1. UNCHANGED <<config, timed, prev, fireVars, checkVars, histories>>
    BY <1>8 DEF Tick, vars
  <2>2. Lists' /\ Idling'
    BY <2>1 DEF Lists, Idling, BusyIffTimed, fireVars, checkVars
  <2>3. Orders'
    BY <2>1, OrdersStay DEF fireVars
  <2> QED
    BY <2>1, <2>2, <2>3, SameHistories
<1> QED
  BY <1>1, <1>2, <1>3, <1>4, <1>5, <1>6, <1>7, <1>8 DEF Next

LEMMA SpecIInv == Spec => []IInv
<1>1. Init => IInv
  BY InitIInv
<1>2. IInv /\ [Next]_vars => IInv'
  BY NextIInv
<1> QED
  BY <1>1, <1>2, PTL DEF Spec

-----------------------------------------------------------------------------
\* For any triggers, agents and overlap of fires and checks, idleTimers and
\* agentPrevState agree on who is busy.
THEOREM MapsAgree == Spec => []BusyIffTimed
<1>1. IInv => BusyIffTimed
  BY DEF IInv, Idling
<1> QED
  BY <1>1, SpecIInv, PTL

\* Until an index into an outdated list removes a trigger, what is configured is
\* what was, less the one-time triggers that have succeeded; and always what has
\* gone is one of these or comes behind one, and one of these is left only if a
\* trigger before it has gone.
THEOREM SpentGo == Spec => []OnlySpentTriggersGo
<1>1. IInv => OnlySpentTriggersGo
  BY DEF IInv
<1> QED
  BY <1>1, SpecIInv, PTL

\* A fire that is called when a one-time trigger has succeeded runs it again only if
\* a trigger before it has gone: beyond that, only fires that overlap repeat one.
THEOREM OnceOnly == Spec => []NoLaterFireRepeats
<1>1. IInv => NoLaterFireRepeats
  BY DEF IInv, Lists, Orders, NoLaterFireRepeats, Range
<1> QED
  BY <1>1, SpecIInv, PTL
=============================================================================
