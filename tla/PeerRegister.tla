---------------------------- MODULE PeerRegister ----------------------------
(***************************************************************************)
(* What mutatePeers (lib/peers/store.ts) promises: peers.json is a         *)
(* register holding one store, and a successful call replaces the store by *)
(* its mutation in one indivisible step, once.  A failed or killed call    *)
(* replaces nothing.  `broken` says that the promise has lapsed, after     *)
(* which nothing is required.                                              *)
(***************************************************************************)
CONSTANTS Proc,         \* the callers of mutatePeers
          Store,        \* the values of the alias map
          Mutate(_, _)  \* Mutate(p, s): what the mutator of p makes of s

VARIABLES store, committed, broken

regVars == <<store, committed, broken>>

RegInit == store \in Store /\ committed = {}

Commit(p) ==
    /\ p \notin committed
    /\ committed' = committed \cup {p}
    /\ store' = Mutate(p, store)
    /\ broken' = broken

Lapse == broken'

RegNext == Lapse \/ \E p \in Proc : Commit(p)

RegSpec == (broken \/ RegInit) /\ [][RegNext]_regVars
=============================================================================
