-------------------------------- MODULE Scout --------------------------------
(***************************************************************************)
(* Discovery and auto-pairing on a local network (transports/scout.ts,     *)
(* scout-state.ts, scout-pair.ts, and /pair/auto of api/pair.ts).  A node  *)
(* multicasts a scout, and who hears it answers with a hello, by UDP: a    *)
(* hello may come at any time, any number of times, or not at all.  The    *)
(* first one of a peer makes the node with the greater zid post a pairing  *)
(* to it, up to three times.                                               *)
(*                                                                         *)
(* A node is a number, its zid; it is not restarted.  A hello a node sends *)
(* to another that shares its host and port may come back to itself (the   *)
(* socket is bound with reuseAddr).  The TOFU check of cmdAdd, which may   *)
(* refuse, is PeerTofu; the proof of identity counts as part of it.        *)
(***************************************************************************)
EXTENDS Naturals

CONSTANT Zid \* of Nat

VARIABLES seen,    \* discoveredPeers of each node
          paired,  \* those of them that are marked paired
          pending, \* pendingConnections
          greeted, \* recentHellos: whose hello a node heard within the last minute
          call,    \* a pairing under way: the attempts begun, and where the last one is
          peers,   \* what pairings have put into the peers.json of each node
          unheard  \* history: pairings of which a post got no answer, or one refused here

scoutVars == <<seen, paired, pending, greeted, call, peers, unheard>>

NoCall == [try |-> 0, at |-> "none"]

ScoutInit ==
    /\ seen = [n \in Zid |-> {}] /\ paired = [n \in Zid |-> {}]
    /\ pending = [n \in Zid |-> {}] /\ greeted = [n \in Zid |-> {}]
    /\ call = [n \in Zid |-> [m \in Zid |-> NoCall]]
    /\ peers = [n \in Zid |-> {}]
    /\ unheard = {}

InFlight(n, m) == call[n][m].at # "none"

\* ScoutState.handleHello: only a peer that is new is paired with, by the greater zid.
ShouldPair(n, m) == m \notin seen[n] /\ m \notin pending[n] /\ n > m

Hello(n, m) ==
    /\ greeted' = [greeted EXCEPT ![n] = @ \cup {m}]
    /\ seen' = [seen EXCEPT ![n] = @ \cup ({m} \ {n})]
    /\ IF ShouldPair(n, m)
         THEN /\ pending' = [pending EXCEPT ![n] = @ \cup {m}]
              /\ call' = [call EXCEPT ![n][m] = [try |-> 1, at |-> "post"]]
         ELSE UNCHANGED <<pending, call>>
    /\ UNCHANGED <<paired, peers, unheard>>

Reaches(n, m, there) ==
    /\ call[n][m].at = "post"
    /\ call' = [call EXCEPT ![n][m].at = there]
    /\ UNCHANGED <<seen, paired, pending, unheard>>

\* /pair/auto at m: n is stored, and the hello is spent; or cmdAdd refuses (4xx).  The
\* zid in the request of n is that of m, as scout-pair.ts:66 takes it from the peer.
\* The check of the hello, cmdAdd, which is awaited, and the deletion are one step: two
\* requests that pass the check by one hello are here two by a hello that came again.
Accepts(n, m) ==
    /\ m \in greeted[m]
    /\ \/ /\ Reaches(n, m, "stored")
          /\ peers' = [peers EXCEPT ![m] = @ \cup {n}]
          /\ greeted' = [greeted EXCEPT ![m] = @ \ {m}]
       \/ Reaches(n, m, "failed") /\ UNCHANGED <<peers, greeted>>

\* "no_recent_hello": a 403, which is not tried again.
NoRecentHello(n, m) ==
    /\ m \notin greeted[m] /\ Reaches(n, m, "failed")
    /\ UNCHANGED <<peers, greeted>>

\* No answer within two seconds, or a 5xx: the next attempt, if there is one.
Unanswered(n, m) ==
    /\ call[n][m].at \in {"post", "stored"}
    /\ call' = [call EXCEPT ![n][m] = IF @.try < 3 THEN [try |-> @.try + 1, at |-> "post"]
                                      ELSE [@ EXCEPT !.at = "failed"]]
    /\ unheard' = unheard \cup {<<n, m>>}
    /\ UNCHANGED <<seen, paired, pending, greeted, peers>>

\* A request that nobody waits for any more arrives.
AcceptsLate(n, m) ==
    /\ <<n, m>> \in unheard /\ m \in greeted[m]
    /\ peers' = [peers EXCEPT ![m] = @ \cup {n}]
    /\ greeted' = [greeted EXCEPT ![m] = @ \ {m}]
    /\ UNCHANGED <<seen, paired, pending, call, unheard>>

\* initiatePair stores the peer, or cmdAdd refuses it; markPaired, clearPending.
Paired(n, m) ==
    /\ call[n][m].at = "stored"
    /\ call' = [call EXCEPT ![n][m] = NoCall]
    /\ peers' = [peers EXCEPT ![n] = @ \cup {m}]
    /\ paired' = [paired EXCEPT ![n] = @ \cup {m}]
    /\ pending' = [pending EXCEPT ![n] = @ \ {m}]
    /\ UNCHANGED <<seen, greeted, unheard>>

\* Mutant: clearPending is forgotten.
PairFailsPending(n, m) ==
    /\ call[n][m].at \in {"stored", "failed"}
    /\ call' = [call EXCEPT ![n][m] = NoCall]
    /\ unheard' = IF call[n][m].at = "stored" THEN unheard \cup {<<n, m>>} ELSE unheard
    /\ UNCHANGED <<seen, paired, pending, greeted, peers>>

PairFails(n, m) ==
    /\ call[n][m].at \in {"stored", "failed"}
    /\ call' = [call EXCEPT ![n][m] = NoCall]
    /\ pending' = [pending EXCEPT ![n] = @ \ {m}]
    /\ unheard' = IF call[n][m].at = "stored" THEN unheard \cup {<<n, m>>} ELSE unheard
    /\ UNCHANGED <<seen, paired, greeted, peers>>

\* pruneStale, after 30 s of silence: a pairing, which a hello began, is over by then.
Prune(n, m) ==
    /\ m \in seen[n] /\ ~InFlight(n, m)
    /\ seen' = [seen EXCEPT ![n] = @ \ {m}]
    /\ paired' = [paired EXCEPT ![n] = @ \ {m}]
    /\ pending' = [pending EXCEPT ![n] = @ \ {m}]
    /\ UNCHANGED <<greeted, call, peers, unheard>>

\* HELLO_WINDOW_MS has passed since the last hello of m.
Forgets(n, m) ==
    /\ greeted' = [greeted EXCEPT ![n] = @ \ {m}]
    /\ UNCHANGED <<seen, paired, pending, call, peers, unheard>>

ScoutNext ==
    \E n, m \in Zid :
        \/ Hello(n, m) \/ Accepts(n, m) \/ NoRecentHello(n, m) \/ Unanswered(n, m)
        \/ AcceptsLate(n, m) \/ Paired(n, m) \/ PairFails(n, m) \/ Prune(n, m) \/ Forgets(n, m)

ScoutSpec == ScoutInit /\ [][ScoutNext]_scoutVars

-----------------------------------------------------------------------------
\* Every variable has its type.
ScoutTypeOK ==
    /\ \A f \in {seen, paired, pending, greeted, peers} : f \in [Zid -> SUBSET Zid]
    /\ call \in [Zid -> [Zid -> [try : 0..3, at : {"none", "post", "stored", "failed"}]]]
    /\ unheard \subseteq Zid \X Zid

\* Whom an initiator has stored has stored it; and who stored an initiator is stored by
\* it or about to be, unless an answer was lost on the way or refused on its arrival.
BothOrUnheard ==
    \A n, m \in Zid : n > m =>
        /\ m \in peers[n] => n \in peers[m]
        /\ n \in peers[m] => \/ m \in peers[n] \/ call[n][m].at = "stored"
                             \/ <<n, m>> \in unheard

\* A pairing is under way for exactly the peers that are pending, all of them in sight,
\* and none is begun for a peer that is paired.
PendingIsInFlight ==
    \A n, m \in Zid :
        /\ m \in pending[n] <=> InFlight(n, m)
        /\ InFlight(n, m) => m \in seen[n] \ paired[n]

PairingPromise == BothOrUnheard /\ PendingIsInFlight

\* api/pair.ts:128, "must have seen a Hello from this zid recently", and :47: the zid is
\* recorded when a hello is received.  A node that has the initiator's hello of the last
\* minute does not refuse it as one whose hello it has not seen.
GreetedIsNotRefused ==
    [][\A n, m \in Zid : NoRecentHello(n, m) => n \notin greeted[m]]_scoutVars
=============================================================================
