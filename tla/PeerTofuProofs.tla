--------------------------- MODULE PeerTofuProofs ---------------------------
(***************************************************************************)
(* The pin of an alias, for every set of commands, aliases and keys: it is *)
(* a key that an unrefused command of this alias went on with since the    *)
(* operator cleared it, and only the operator or an add that lost a race   *)
(* ever changes it.                                                        *)
(***************************************************************************)
EXTENDS PeerTofu, TLAPS

\* The variables keep their types.
THEOREM TofuTypes == Spec => []TypeOK
<1> USE TofuConstants
    DEF TypeOK, At, Job, Entries, Entry, MaybeKey, Steps, runVars, histVars
<1>1. Init => TypeOK
  BY DEF Init
<1>2. TypeOK /\ [Next]_vars => TypeOK'
  <2> SUFFICES ASSUME TypeOK, [Next]_vars PROVE TypeOK'
    OBVIOUS
  <2>1. ASSUME NEW c \in Cmd, NEW down \in BOOLEAN,
               AddAnswer(c, down) \/ ProbeAnswer(c, down)
        PROVE TypeOK'
    <3>1. Probed(c, down) \in MaybeKey /\ job[c].supplied \in MaybeKey
      BY DEF Probed
    <3>2. CASE AddAnswer(c, down)
      BY <3>1, <3>2 DEF AddAnswer, Known
    <3>3. CASE ProbeAnswer(c, down)
      <4>1. heard'[c] \in MaybeKey
        BY <3>1, <3>3 DEF ProbeAnswer
      <4> QED
        BY <3>1, <3>3, <4>1 DEF ProbeAnswer, Accepts
    <3> QED
      BY <2>1, <3>2, <3>3
  <2>2. ASSUME NEW c \in Cmd, AddLoad(c) PROVE TypeOK'
    <3>1. heard'[c] \in MaybeKey
      BY <2>2 DEF AddLoad
    <3> QED
      BY <2>2, <3>1 DEF AddLoad, Accepts
  <2>3. ASSUME NEW c \in Cmd, AddWrite(c) PROVE TypeOK'
    BY <2>3 DEF AddWrite, AddedEntry, PinOf
  <2>4. ASSUME NEW c \in Cmd, ProbeWrite(c) PROVE TypeOK'
    BY <2>4 DEF ProbeWrite
  <2>5. ASSUME NEW c \in Cmd, ApplyTofu(c) PROVE TypeOK'
    BY <2>5 DEF ApplyTofu
  <2>6. ASSUME NEW c \in Cmd, NEW a \in Alias, ProbeCall(c, a) PROVE TypeOK'
    BY <2>6 DEF ProbeCall
  <2>7. ASSUME NEW c \in Cmd, NEW a \in Alias, NEW k \in MaybeKey,
               AddCall(c, a, k)
        PROVE TypeOK'
    BY <2>7 DEF AddCall
  <2>8. ASSUME NEW a \in Alias, Forget(a) \/ Remove(a) PROVE TypeOK'
    <3>1. Cleared(a) => accepted' \in [Alias -> SUBSET Key]
      <4>1. \A c \in Cmd : StillPins(c) \subseteq Key
        BY DEF StillPins, PinOf
      <4> QED
        BY <4>1 DEF Cleared
    <3>2. CASE Forget(a)
      <4>1. [pin |-> NoKey, failed |-> peers[a].failed] \in Entries
        BY <3>2 DEF Forget
      <4> QED
        BY <3>1, <3>2, <4>1 DEF Forget
    <3>3. CASE Remove(a)
      BY <3>1, <3>3 DEF Remove
    <3> QED
      BY <2>8, <3>2, <3>3
  <2>9. ASSUME NEW a \in Alias, NEW k \in MaybeKey, Rotate(a, k)
        PROVE TypeOK'
    BY <2>9 DEF Rotate
  <2>10. CASE UNCHANGED vars
    BY <2>10 DEF vars
  <2> QED
    BY <2>1, <2>2, <2>3, <2>4, <2>5, <2>6, <2>7, <2>8, <2>9, <2>10
    DEF Next, CmdStep
<1> QED
  BY <1>1, <1>2, PTL DEF Spec

-----------------------------------------------------------------------------
\* A pin moves by the operator's hand or by an add whose entry is stale.
LEMMA PinStep ==
  ASSUME TypeOK, [Next]_vars, NEW a \in Alias,
         PinOf(peers[a]) # NoKey, PinOf(peers'[a]) # PinOf(peers[a])
  PROVE OperatorClears(a) \/ StaleAdd(a)
<1> USE TofuConstants
    DEF TypeOK, At, Job, Entries, Entry, MaybeKey, Steps, runVars, histVars, PinOf
<1>1. ASSUME NEW c \in Cmd, AddWrite(c) PROVE StaleAdd(a)
  <2>1. job[c].alias = a
    BY <1>1 DEF AddWrite
  <2>2. existing[c] # peers[a]
    BY <1>1, <2>1 DEF AddWrite, AddedEntry
  <2> QED
    BY <1>1, <2>1, <2>2 DEF StaleAdd
<1>2. ASSUME NEW c \in Cmd, ProbeWrite(c) PROVE FALSE
  BY <1>2 DEF ProbeWrite
<1>3. ASSUME NEW c \in Cmd, ApplyTofu(c) PROVE FALSE
  BY <1>3 DEF ApplyTofu
<1>4. ASSUME NEW b \in Alias, Forget(b) \/ Remove(b) PROVE OperatorClears(a)
  <2>1. a = b
    BY <1>4 DEF Forget, Remove
  <2> QED
    BY <1>4, <2>1 DEF OperatorClears
<1>5. CASE \E c \in Cmd : \/ \E down \in BOOLEAN : AddAnswer(c, down) \/ ProbeAnswer(c, down)
                          \/ AddLoad(c)
  BY <1>5 DEF AddAnswer, ProbeAnswer, AddLoad
<1>6. CASE \E b \in Alias, k \in MaybeKey :
              Rotate(b, k) \/ \E c \in Cmd : ProbeCall(c, b) \/ AddCall(c, b, k)
  BY <1>6 DEF Rotate, ProbeCall, AddCall
<1>7. CASE UNCHANGED vars
  BY <1>7 DEF vars
<1> QED
  BY <1>1, <1>2, <1>3, <1>4, <1>5, <1>6, <1>7 DEF Next, CmdStep

\* Only the operator and a stale add ever change or clear a pin.
THEOREM PinKept == Spec => PinIsKeptUnlessStaleAdd
<1>1. TypeOK /\ [Next]_vars =>
        [\A a \in Alias : PinOf(peers[a]) # NoKey
              /\ PinOf(peers'[a]) # PinOf(peers[a])
           => OperatorClears(a) \/ StaleAdd(a)]_vars
  BY PinStep
<1> QED
  BY <1>1, TofuTypes, PTL DEF Spec, PinIsKeptUnlessStaleAdd

-----------------------------------------------------------------------------
\* An add at its load still believes its answer; a command past its decision has
\* settled on the key it heard, and what it may still pin counts as accepted.
Settled(c) ==
    /\ step[c] = "load" => observed[c] = heard[c] /\ job[c].cmd = "add"
    /\ step[c] \in {"write", "apply"} =>
         observed[c] = heard[c] /\ StillPins(c) \subseteq accepted[job[c].alias]

Accepted == PinWasAccepted /\ \A c \in Cmd : Settled(c)

\* A step of the operator keeps what the commands may still pin.
LEMMA ClearStep ==
  ASSUME TypeOK, Accepted, NEW a \in Alias, Forget(a) \/ Remove(a)
  PROVE  Accepted'
<1> USE DEF TypeOK, Entries, Entry, MaybeKey, Job, PinOf, runVars
<1>1. /\ PinOf(peers'[a]) = NoKey
      /\ \A b \in Alias \ {a} : peers'[b] = peers[b] /\ accepted'[b] = accepted[b]
      /\ accepted'[a] = UNION {StillPins(c) : c \in {d \in Cmd : job[d].alias = a}}
      /\ UNCHANGED <<step, job, observed, existing, heard>>
  BY TofuConstants DEF Forget, Remove, Cleared
<1>2. PinWasAccepted'
  BY <1>1 DEF Accepted, PinWasAccepted
<1>3. ASSUME NEW c \in Cmd PROVE Settled(c)'
  <2>1. StillPins(c)' = StillPins(c)
    BY <1>1 DEF StillPins
  <2>2. StillPins(c) \subseteq accepted[job[c].alias]
        => StillPins(c) \subseteq accepted'[job[c].alias]
    BY <1>1
  <2> QED
    BY <1>1, <2>1, <2>2 DEF Accepted, Settled
<1> QED
  BY <1>2, <1>3 DEF Accepted

\* A step of a command goes on only with a key that it heard.
LEMMA AcceptedStep == TypeOK /\ Accepted /\ [Next]_vars => Accepted'
<1> SUFFICES ASSUME TypeOK, Accepted, [Next]_vars PROVE Accepted'
  OBVIOUS
<1> USE TofuConstants
    DEF TypeOK, At, Job, Entries, Entry, MaybeKey, Steps, runVars, histVars,
        PinOf, Accepted, PinWasAccepted, Settled, StillPins
<1>1. ASSUME NEW c \in Cmd, NEW down \in BOOLEAN, AddAnswer(c, down)
      PROVE Accepted'
  BY <1>1 DEF AddAnswer, Contradicts
<1>2. ASSUME NEW c \in Cmd, NEW down \in BOOLEAN, ProbeAnswer(c, down)
      PROVE Accepted'
  BY <1>2 DEF ProbeAnswer, Accepts
<1>3. ASSUME NEW c \in Cmd, AddLoad(c) PROVE Accepted'
  BY <1>3 DEF AddLoad, Accepts
<1>4. ASSUME NEW c \in Cmd, AddWrite(c) PROVE Accepted'
  BY <1>4 DEF AddWrite, AddedEntry
<1>5. ASSUME NEW c \in Cmd, ProbeWrite(c) PROVE Accepted'
  BY <1>5 DEF ProbeWrite
<1>6. ASSUME NEW c \in Cmd, ApplyTofu(c) PROVE Accepted'
  BY <1>6 DEF ApplyTofu, Evaluate
<1>7. ASSUME NEW c \in Cmd, NEW a \in Alias, ProbeCall(c, a) PROVE Accepted'
  BY <1>7 DEF ProbeCall
<1>8. ASSUME NEW c \in Cmd, NEW a \in Alias, NEW k \in MaybeKey,
             AddCall(c, a, k)
      PROVE Accepted'
  BY <1>8 DEF AddCall
<1>9. ASSUME NEW a \in Alias, Forget(a) \/ Remove(a) PROVE Accepted'
  BY <1>9, ClearStep
<1>10. ASSUME NEW a \in Alias, NEW k \in MaybeKey, Rotate(a, k)
       PROVE Accepted'
  BY <1>10 DEF Rotate
<1>11. CASE UNCHANGED vars
  BY <1>11 DEF vars
<1> HIDE DEF Accepted, TypeOK
<1> QED
  BY <1>1, <1>2, <1>3, <1>4, <1>5, <1>6, <1>7, <1>8, <1>9, <1>10, <1>11
  DEF Next, CmdStep

\* Every pin is a key that a command of this alias went on with, unrefused, since
\* the operator last cleared it or while it was already past its decision.
THEOREM PinAccepted == Spec => []PinWasAccepted
<1>1. Init => Accepted
  BY TofuConstants DEF Init, Accepted, PinWasAccepted, Settled, PinOf
<1>2. Accepted => PinWasAccepted
  BY DEF Accepted
<1> QED
  BY <1>1, <1>2, AcceptedStep, TofuTypes, PTL DEF Spec
=============================================================================
