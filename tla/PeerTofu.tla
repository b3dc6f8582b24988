------------------------------ MODULE PeerTofu ------------------------------
(***************************************************************************)
(* The `maw peers` commands and the trust-on-first-use pin of a peer's     *)
(* public key (lib/peers/impl.ts, tofu.ts).  Every mutatePeers call is one *)
(* step here: PeerStore says when that is so.  Commands run in different   *)
(* processes, so any other command may run between two steps of one; a     *)
(* command may also be killed anywhere: it then takes no further step.     *)
(*                                                                         *)
(* Of an entry only what TOFU decides on is kept: its pin, and whether its *)
(* last probe failed.  The peer itself is the environment: it may change   *)
(* the key that /api/identity advertises, or be an old node without one.   *)
(***************************************************************************)
EXTENDS FiniteSets

CONSTANTS Cmd,      \* the command processes
          Alias,    \* the aliases of peers.json
          Key,      \* the public keys
          NoKey,    \* no `pubkey` field
          Absent    \* no such alias

ASSUME TofuConstants == NoKey \notin Key /\ Absent \notin [pin : Key \cup {NoKey},
                                                           failed : BOOLEAN]

VARIABLES peers,     \* peers.json
          served,    \* the key each peer advertises now
          step,      \* where each command is
          job,       \* what each command was asked to do
          observed,  \* the key its probe brought back
          failed,    \* whether its probe failed
          existing,  \* the entry it loaded
          heard,     \* history: the key of its answer that it does not refuse
          accepted   \* history: per alias, the keys its commands went on with
                     \* since the operator last cleared it

runVars == <<step, job, observed, failed, existing>>
histVars == <<heard, accepted>>
vars == <<peers, served, runVars, histVars>>

MaybeKey == Key \cup {NoKey}
Entry    == [pin : MaybeKey, failed : BOOLEAN]
Entries  == Entry \cup {Absent}

Steps == {"idle", "await", "load", "write", "apply", "ok", "refused", "error"}
Job   == [cmd : {"none", "add", "probe"}, alias : Alias, supplied : MaybeKey]

PinOf(e) == IF e = Absent THEN NoKey ELSE e.pin

\* evaluatePeerIdentity
Evaluate(e, key) ==
    CASE PinOf(e) = NoKey /\ key # NoKey -> "bootstrap"
      [] PinOf(e) = NoKey /\ key = NoKey -> "legacy-first"
      [] PinOf(e) # NoKey /\ key = NoKey -> "legacy-pinned"
      [] PinOf(e) # NoKey /\ key = PinOf(e) -> "match"
      [] OTHER -> "mismatch"

Init ==
    /\ peers = [a \in Alias |-> Absent]
    /\ served \in [Alias -> MaybeKey]
    /\ step = [c \in Cmd |-> "idle"]
    /\ job \in [Cmd -> [cmd : {"none"}, alias : Alias, supplied : {NoKey}]]
    /\ observed = [c \in Cmd |-> NoKey]
    /\ failed = [c \in Cmd |-> FALSE]
    /\ existing = [c \in Cmd |-> Absent]
    /\ heard = [c \in Cmd |-> NoKey]
    /\ accepted = [a \in Alias |-> {}]

\* The peer rotates its key, or is replaced by another node at its URL.
Rotate(a, k) ==
    /\ served' = [served EXCEPT ![a] = k]
    /\ UNCHANGED <<peers, runVars, histVars>>

At(c, here, next) == step[c] = here /\ step' = [step EXCEPT ![c] = next]

\* `maw peers add`, or the add of a pairing, which supplies the remote's key.
AddCall(c, a, k) ==
    /\ At(c, "idle", "await")
    /\ job' = [job EXCEPT ![c] = [cmd |-> "add", alias |-> a, supplied |-> k]]
    /\ UNCHANGED <<peers, served, observed, failed, existing, histVars>>

\* `maw peers probe` loads the entry before it probes; no entry is an error.
ProbeCall(c, a) ==
    /\ At(c, "idle", IF peers[a] = Absent THEN "error" ELSE "await")
    /\ job' = [job EXCEPT ![c] = [cmd |-> "probe", alias |-> a, supplied |-> NoKey]]
    /\ existing' = [existing EXCEPT ![c] = peers[a]]
    /\ UNCHANGED <<peers, served, observed, failed, histVars>>

\* What probePeer brings back for c: the key advertised at that moment, if any.
Probed(c, down) == IF down THEN NoKey ELSE served[job[c].alias]

\* The peer's answer is not the key that was supplied for it.
Contradicts(c, key) == key # NoKey /\ job[c].supplied \notin {NoKey, key}

\* The key that an add goes on with: a supplied one wins.
Known(c, key) == IF job[c].supplied # NoKey THEN job[c].supplied ELSE key

\* Mutant: a supplied key wins even when the peer contradicts it.
AddAnswerUnchecked(c, down) ==
    /\ job[c].cmd = "add"
    /\ At(c, "await", "load")
    /\ observed' = [observed EXCEPT ![c] = Known(c, Probed(c, down))]
    /\ failed' = [failed EXCEPT ![c] = down]
    /\ heard' = [heard EXCEPT ![c] = IF Contradicts(c, Probed(c, down)) THEN NoKey
                                     ELSE Known(c, Probed(c, down))]
    /\ UNCHANGED <<peers, served, job, existing, accepted>>

\* cmdAdd after its probe: a peer that contradicts the supplied key is refused.
AddAnswer(c, down) ==
    /\ job[c].cmd = "add"
    /\ At(c, "await", IF Contradicts(c, Probed(c, down)) THEN "refused" ELSE "load")
    /\ observed' = [observed EXCEPT ![c] = Known(c, Probed(c, down))]
    /\ failed' = [failed EXCEPT ![c] = down]
    /\ heard' = [heard EXCEPT ![c] = IF Contradicts(c, Probed(c, down)) THEN NoKey
                                     ELSE Known(c, Probed(c, down))]
    /\ UNCHANGED <<peers, served, job, existing, accepted>>

\* What the commands of a go on with, once c has settled on k.
Accepts(c, k) == accepted' = [accepted EXCEPT ![job[c].alias] = @ \cup ({k} \ {NoKey})]

\* cmdProbe after its probe: a changed key ends it without an update.
ProbeAnswer(c, down) ==
    /\ job[c].cmd = "probe"
    /\ At(c, "await", IF Evaluate(existing[c], Probed(c, down)) = "mismatch"
                      THEN "refused" ELSE "write")
    /\ observed' = [observed EXCEPT ![c] = Probed(c, down)]
    /\ failed' = [failed EXCEPT ![c] = down]
    /\ heard' = [heard EXCEPT ![c] =
                   IF Evaluate(existing[c], Probed(c, down)) = "mismatch"
                   THEN NoKey ELSE Probed(c, down)]
    /\ Accepts(c, heard'[c])
    /\ UNCHANGED <<peers, served, job, existing>>

\* cmdAdd loads the entry after its probe, and refuses a changed key.
AddLoad(c) ==
    /\ existing' = [existing EXCEPT ![c] = peers[job[c].alias]]
    /\ At(c, "load", IF Evaluate(existing'[c], observed[c]) = "mismatch"
                     THEN "refused" ELSE "write")
    /\ heard' = [heard EXCEPT ![c] =
                   IF Evaluate(existing'[c], observed[c]) = "mismatch" THEN NoKey ELSE @]
    /\ Accepts(c, heard'[c])
    /\ UNCHANGED <<peers, served, job, observed, failed>>

\* The entry that cmdAdd builds from what it loaded: a pin it found is kept.
AddedEntry(c) ==
    [pin |-> IF PinOf(existing[c]) # NoKey THEN PinOf(existing[c]) ELSE observed[c],
     failed |-> failed[c]]

\* It replaces whatever is there by now.
AddWrite(c) ==
    /\ job[c].cmd = "add"
    /\ At(c, "write", "apply")
    /\ peers' = [peers EXCEPT ![job[c].alias] = AddedEntry(c)]
    /\ UNCHANGED <<served, job, observed, failed, existing, histVars>>

\* cmdProbe updates lastError and lastSeen of the entry, if it is still there.
ProbeWrite(c) ==
    /\ job[c].cmd = "probe"
    /\ At(c, "write", "apply")
    /\ peers' = [a \in Alias |->
                   IF a = job[c].alias /\ peers[a] # Absent
                   THEN [pin |-> peers[a].pin, failed |-> failed[c]] ELSE peers[a]]
    /\ UNCHANGED <<served, job, observed, failed, existing, histVars>>

\* Mutant: without `if (p.pubkey) return`.
ApplyTofuOverPin(c) ==
    /\ At(c, "apply", IF failed[c] THEN "error" ELSE "ok")
    /\ peers' = [a \in Alias |->
                   IF /\ a = job[c].alias
                      /\ Evaluate(existing[c], observed[c]) = "bootstrap"
                      /\ peers[a] # Absent
                   THEN [pin |-> observed[c], failed |-> peers[a].failed]
                   ELSE peers[a]]
    /\ UNCHANGED <<served, job, observed, failed, existing, histVars>>

\* Mutant: a match is pinned like a first contact.
ApplyTofuOnMatch(c) ==
    /\ At(c, "apply", IF failed[c] THEN "error" ELSE "ok")
    /\ peers' = [a \in Alias |->
                   IF /\ a = job[c].alias
                      /\ Evaluate(existing[c], observed[c]) \in {"bootstrap", "match"}
                      /\ peers[a] # Absent /\ PinOf(peers[a]) = NoKey
                   THEN [pin |-> observed[c], failed |-> peers[a].failed]
                   ELSE peers[a]]
    /\ UNCHANGED <<served, job, observed, failed, existing, histVars>>

\* applyTofuDecision: a bootstrap pins the key unless the entry is gone or has a
\* pin by now.
ApplyTofu(c) ==
    /\ At(c, "apply", IF failed[c] THEN "error" ELSE "ok")
    /\ peers' = [a \in Alias |->
                   IF /\ a = job[c].alias
                      /\ Evaluate(existing[c], observed[c]) = "bootstrap"
                      /\ peers[a] # Absent /\ PinOf(peers[a]) = NoKey
                   THEN [pin |-> observed[c], failed |-> peers[a].failed]
                   ELSE peers[a]]
    /\ UNCHANGED <<served, job, observed, failed, existing, histVars>>

\* What a command that is past its decision may still pin: the key it heard, if
\* it loaded no pin, or the pin that an add has loaded and is about to write back.
StillPins(c) ==
    IF step[c] \notin {"write", "apply"} THEN {}
    ELSE IF PinOf(existing[c]) = NoKey THEN {heard[c]} \ {NoKey}
    ELSE IF job[c].cmd = "add" /\ step[c] = "write" THEN {PinOf(existing[c])} ELSE {}

\* The operator clears a; only commands that are past their decision hold keys.
Cleared(a) == accepted' = [accepted EXCEPT ![a] =
                             UNION {StillPins(c) : c \in {d \in Cmd : job[d].alias = a}}]

\* forgetPeerPubkey; an alias that is not there is left alone.
Forget(a) ==
    /\ peers[a] # Absent
    /\ peers' = [peers EXCEPT ![a] = [pin |-> NoKey, failed |-> peers[a].failed]]
    /\ Cleared(a)
    /\ UNCHANGED <<served, runVars, heard>>

\* cmdRemove
Remove(a) ==
    /\ peers' = [peers EXCEPT ![a] = Absent]
    /\ Cleared(a)
    /\ UNCHANGED <<served, runVars, heard>>

CmdStep(c) ==
    \/ \E down \in BOOLEAN : AddAnswer(c, down) \/ ProbeAnswer(c, down)
    \/ AddLoad(c) \/ AddWrite(c) \/ ProbeWrite(c) \/ ApplyTofu(c)

Next ==
    \/ \E c \in Cmd : CmdStep(c)
    \/ \E c \in Cmd, a \in Alias : ProbeCall(c, a) \/ \E k \in MaybeKey : AddCall(c, a, k)
    \/ \E a \in Alias : Forget(a) \/ Remove(a) \/ \E k \in MaybeKey : Rotate(a, k)

Spec == Init /\ [][Next]_vars

-----------------------------------------------------------------------------
\* Every variable has its type.
TypeOK ==
    /\ peers \in [Alias -> Entries]
    /\ served \in [Alias -> MaybeKey]
    /\ step \in [Cmd -> Steps]
    /\ job \in [Cmd -> Job]
    /\ observed \in [Cmd -> MaybeKey]
    /\ failed \in [Cmd -> BOOLEAN]
    /\ existing \in [Cmd -> Entries]
    /\ heard \in [Cmd -> MaybeKey]
    /\ accepted \in [Alias -> SUBSET Key]

\* The step of the operator that may clear the pin of an alias.
OperatorClears(a) == Forget(a) \/ Remove(a)

\* A `peers add` writes an entry that is no longer the one it loaded.
StaleAdd(a) == \E c \in Cmd :
    AddWrite(c) /\ job[c].alias = a /\ existing[c] # peers[a]

\* store.ts:64-68 says that once a key is cached "every subsequent identity
\* check validates the response against this value" and that the operator clears
\* it with `maw peers forget`: a pin changes only by the operator's step.
PinIsKeptUntilForgotten ==
    [][\A a \in Alias : PinOf(peers[a]) # NoKey /\ PinOf(peers'[a]) # PinOf(peers[a])
         => OperatorClears(a)]_vars

\* What does hold: no probe, failed probe, legacy answer or rotation of the peer
\* ever moves a pin; besides the operator only an add that overwrites an entry
\* which another process changed since it was loaded does.
PinIsKeptUnlessStaleAdd ==
    [][\A a \in Alias : PinOf(peers[a]) # NoKey /\ PinOf(peers'[a]) # PinOf(peers[a])
         => OperatorClears(a) \/ StaleAdd(a)]_vars

\* Whatever the commands interleave, a pin is a key that a command of this alias
\* went on with since the operator last cleared it: one that the peer advertised
\* to it or that was supplied, and that no probe or loaded pin contradicted.  A
\* forgotten key comes back by itself only from a command that was already past
\* its decision at that moment, and a matching probe is not such a command.
PinWasAccepted ==
    \A a \in Alias : PinOf(peers[a]) # NoKey => PinOf(peers[a]) \in accepted[a]
=============================================================================
