---------------------------- MODULE PartsProofs ----------------------------
(***************************************************************************)
(* Proofs about the parts that share no state: each is proved about alone, *)
(* from its own specification, and a behaviour of the parts side by side   *)
(* is one of each.  The router, with the hub below it, has a module of its *)
(* own, HubTransportProofs.                                                *)
(***************************************************************************)
EXTENDS MCParts, HubTransportProofs, Sequences, FiniteSetTheorems, TLAPS

-----------------------------------------------------------------------------
(* A behaviour of the parts together is one of each part alone: the part at hand takes *)
(* its own steps, and the others none.                                                  *)

PartsVars == <<part, byExtension, byInstance>>

LEMMA StartsApart ==
    ASSUME Init
    PROVE  /\ ConsentInit /\ PidInit /\ RegistryInit /\ RouterInit
           /\ Updates!UpdateInit /\ Locks!UpdateLockInit /\ Scouts!ScoutInit
           /\ Configs!ConfigInit /\ Engines!EngineInit /\ Wakes!WakeInit
BY DEF Init

LEMMA StepsByExtension ==
    ASSUME [Next]_PartsVars
    PROVE  /\ [ConsentNext]_consentVars /\ [PidNext]_pidVars
           /\ [RegistryNext]_registryVars /\ [RouterNext]_routerVars
<1>1. CASE UNCHANGED byExtension
  BY <1>1 DEF byExtension
<1>2. CASE Next /\ UNCHANGED byInstance
  BY <1>2, <1>1 DEF Next, byExtension
<1> QED
  BY <1>1, <1>2 DEF Next, PartsVars

LEMMA StepsByInstance ==
    ASSUME [Next]_PartsVars
    PROVE  /\ [Updates!UpdateNext]_Updates!updateVars
           /\ [Locks!UpdateLockNext]_Locks!updateLockVars
           /\ [Scouts!ScoutNext]_Scouts!scoutVars
           /\ [Configs!ConfigNext]_Configs!configVars
           /\ [Engines!EngineNext]_Engines!engineVars
           /\ [Wakes!WakeNext]_Wakes!wakeVars
<1>1. /\ UNCHANGED updateVars => UNCHANGED Updates!updateVars
      /\ UNCHANGED updateLockVars => UNCHANGED Locks!updateLockVars
      /\ UNCHANGED scoutVars => UNCHANGED Scouts!scoutVars
      /\ UNCHANGED configVars => UNCHANGED Configs!configVars
      /\ UNCHANGED engineVars => UNCHANGED Engines!engineVars
      /\ UNCHANGED wakeVars => UNCHANGED Wakes!wakeVars
  BY DEF updateVars, Updates!updateVars, Updates!disk, Updates!run,
         updateLockVars, Locks!updateLockVars, scoutVars, Scouts!scoutVars,
         configVars, Configs!configVars, engineVars, Engines!engineVars, wakeVars, Wakes!wakeVars
<1>2. CASE UNCHANGED byInstance
  BY <1>1, <1>2 DEF byInstance
<1>3. CASE Next /\ UNCHANGED byExtension
  BY <1>1, <1>2, <1>3 DEF Next, byInstance
<1> QED
  BY <1>2, <1>3 DEF Next, PartsVars

LEMMA OnePart ==
    Spec => /\ ConsentSpec /\ PidSpec /\ RegistrySpec /\ RouterSpec
            /\ Updates!UpdateSpec /\ Locks!UpdateLockSpec /\ Scouts!ScoutSpec
            /\ Configs!ConfigSpec /\ Engines!EngineSpec /\ Wakes!WakeSpec
<1> QED
  BY StartsApart, StepsByExtension, StepsByInstance, PTL
  DEF Spec, PartsVars, ConsentSpec, PidSpec, RegistrySpec, RouterSpec, Updates!UpdateSpec,
      Locks!UpdateLockSpec, Scouts!ScoutSpec, Configs!ConfigSpec, Engines!EngineSpec, Wakes!WakeSpec

-----------------------------------------------------------------------------
(* The plugin registry. *)

\* No registration is bound at two prefixes.
BoundOnce ==
    \A x, y \in Prefix : bound[x] = bound[y] /\ bound[x] # Unbound => x = y

RegistryInv == RegistryTypeOK /\ BoundOnce /\ RegistryFollowsPlugins

LEMMA RegistryStarts ==
    ASSUME RegistryInit PROVE RegistryInv
BY RegistryConstants DEF RegistryInit, RegistryInv, RegistryTypeOK, BoundOnce,
   RegistryFollowsPlugins

LEMMA AtTyped ==
    ASSUME RegistryTypeOK, NEW x \in Prefix PROVE At(x) \subseteq 1..Count
BY DEF RegistryTypeOK, At, Unbound

LEMMA RegistrySteps ==
    ASSUME RegistryInv, [RegistryNext]_registryVars PROVE RegistryInv'
<1> USE RegistryConstants DEF RegistryInv, Unbound
<1>1. ASSUME NEW p \in Plugin, NEW x \in Prefix, Register(p, x) PROVE RegistryInv'
  <2>1. /\ made' = made + 1 /\ made' \in 1..Count
        /\ bound'[x] = [plugin |-> p, id |-> made']
        /\ \A y \in Prefix \ {x} : bound'[y] = IF bound[y].plugin = p THEN Unbound ELSE bound[y]
        /\ \A q \in Plugin : current'[q] = IF q = p THEN made' ELSE current[q]
        /\ sick' = sick /\ struck' = struck /\ flight' = flight
        /\ ousted' = IF bound[x].plugin # p THEN ousted \cup At(x) ELSE ousted
    BY <1>1 DEF Register, RegistryTypeOK
  <2>2. RegistryTypeOK'
    <3>1. bound' \in [Prefix -> [plugin : Plugin, id : 1..Count] \cup {Unbound}]
      BY <1>1, <2>1 DEF Register, RegistryTypeOK
    <3>2. current' \in [Plugin -> 0..Count] /\ made' \in 0..Count
      BY <1>1, <2>1 DEF Register, RegistryTypeOK
    <3> QED
      BY <2>1, <3>1, <3>2, AtTyped DEF RegistryTypeOK
  <2>3. BoundOnce'
    <3> SUFFICES ASSUME NEW y \in Prefix, NEW z \in Prefix,
                        bound'[y] = bound'[z], bound'[y] # Unbound
                 PROVE  y = z
      BY DEF BoundOnce
    <3>1. CASE y # x /\ z # x
      BY <2>1, <3>1 DEF BoundOnce
    <3>2. CASE y = x \/ z = x
      BY <2>1, <3>2
    <3> QED
      BY <3>1, <3>2
  <2>4. \A y \in Prefix : bound'[y] # Unbound => current'[bound'[y].plugin] = bound'[y].id
    BY <2>1 DEF RegistryTypeOK, RegistryFollowsPlugins
  <2>5. ASSUME NEW q \in Plugin
        PROVE  \/ current'[q] \in {0} \cup sick' \cup struck' \cup ousted'
               \/ \E y \in Prefix : bound'[y] = [plugin |-> q, id |-> current'[q]]
    <3>1. CASE q = p
      BY <2>1, <3>1
    <3>2. CASE q # p /\ bound[x] = [plugin |-> q, id |-> current[q]]
      BY <2>1, <3>2 DEF At
    <3>3. CASE q # p /\ bound[x] # [plugin |-> q, id |-> current[q]]
      <4>1. CASE \E y \in Prefix : bound[y] = [plugin |-> q, id |-> current[q]]
        BY <2>1, <3>3, <4>1
      <4>2. CASE current[q] \in {0} \cup sick \cup struck \cup ousted
        BY <2>1, <3>3, <4>2
      <4> QED
        BY <4>1, <4>2 DEF RegistryFollowsPlugins
    <3> QED
      BY <3>1, <3>2, <3>3
  <2> QED
    BY <2>2, <2>3, <2>4, <2>5 DEF RegistryFollowsPlugins
<1>2. ASSUME NEW p \in Plugin, Unregister(p) PROVE RegistryInv'
  BY <1>2 DEF Unregister, RegistryTypeOK, BoundOnce, RegistryFollowsPlugins
<1>3. ASSUME NEW x \in Prefix, UnregisterPrefix(x) PROVE RegistryInv'
  <2>1. /\ bound[x].plugin \in Plugin
        /\ \A y \in Prefix : bound'[y] = IF y = x THEN Unbound ELSE bound[y]
        /\ \A q \in Plugin : current'[q] = IF q = bound[x].plugin THEN 0 ELSE current[q]
        /\ UNCHANGED <<made, flight, sick, struck, ousted>>
    BY <1>3 DEF UnregisterPrefix, RegistryTypeOK
  <2>2. RegistryTypeOK'
    BY <1>3 DEF UnregisterPrefix, RegistryTypeOK
  <2>3. BoundOnce'
    BY <2>1 DEF BoundOnce
  <2>4. ASSUME NEW y \in Prefix, bound'[y] # Unbound
        PROVE  current'[bound'[y].plugin] = bound'[y].id
    <3>1. y # x /\ bound'[y] = bound[y] /\ bound[y].plugin \in Plugin
      BY <2>1, <2>4 DEF RegistryTypeOK
    <3>2. bound[y].plugin # bound[x].plugin
      BY <1>3, <2>4, <3>1 DEF RegistryFollowsPlugins, BoundOnce, RegistryTypeOK, UnregisterPrefix
    <3> QED
      BY <2>1, <2>4, <3>1, <3>2 DEF RegistryFollowsPlugins
  <2>5. ASSUME NEW q \in Plugin
        PROVE  \/ current'[q] \in {0} \cup sick' \cup struck' \cup ousted'
               \/ \E y \in Prefix : bound'[y] = [plugin |-> q, id |-> current'[q]]
    BY <2>1 DEF RegistryFollowsPlugins
  <2> QED
    BY <2>2, <2>3, <2>4, <2>5 DEF RegistryFollowsPlugins
<1>4. ASSUME NEW x \in Prefix, NEW i \in 1..Count, Fails(x, i) PROVE RegistryInv'
  <2>1. /\ \A y \in Prefix : bound'[y] = IF y = x THEN Unbound ELSE bound[y]
        /\ struck' = struck \cup (At(x) \ {i}) /\ i \in sick
        /\ UNCHANGED <<current, made, sick, ousted>>
    BY <1>4 DEF Fails, RegistryTypeOK
  <2>2. RegistryTypeOK'
    BY <1>4, <2>1, AtTyped DEF Fails, RegistryTypeOK
  <2>3. BoundOnce'
    BY <2>1 DEF BoundOnce
  <2>4. \A y \in Prefix : bound'[y] # Unbound => current'[bound'[y].plugin] = bound'[y].id
    BY <2>1 DEF RegistryFollowsPlugins
  <2>5. ASSUME NEW q \in Plugin
        PROVE  \/ current'[q] \in {0} \cup sick' \cup struck' \cup ousted'
               \/ \E y \in Prefix : bound'[y] = [plugin |-> q, id |-> current'[q]]
    <3>1. CASE bound[x] = [plugin |-> q, id |-> current[q]]
      BY <2>1, <3>1 DEF At
    <3>2. CASE bound[x] # [plugin |-> q, id |-> current[q]]
      BY <2>1, <3>2 DEF RegistryFollowsPlugins
    <3> QED
      BY <3>1, <3>2
  <2> QED
    BY <2>2, <2>3, <2>4, <2>5 DEF RegistryFollowsPlugins
<1>5. ASSUME NEW x \in Prefix, NEW i \in 1..Count, Returns(x, i) PROVE RegistryInv'
  BY <1>5 DEF Returns, RegistryTypeOK, BoundOnce, RegistryFollowsPlugins
<1>6. CASE UNCHANGED registryVars
  BY <1>6 DEF registryVars, RegistryTypeOK, BoundOnce, RegistryFollowsPlugins, At
<1>7. ASSUME NEW i \in 1..Count, Sickens(i) PROVE RegistryInv'
  BY <1>7 DEF Sickens, RegistryTypeOK, BoundOnce, RegistryFollowsPlugins
<1>8. ASSUME NEW x \in Prefix, Takes(x) PROVE RegistryInv'
  BY <1>8 DEF Takes, RegistryTypeOK, BoundOnce, RegistryFollowsPlugins
<1> QED
  BY <1>1, <1>2, <1>3, <1>4, <1>5, <1>6, <1>7, <1>8 DEF RegistryNext

\* What the registry has bound is what its plugin registered last, and that stays bound
\* while its process answers, but for the two ways the property names; for any plugins,
\* prefixes and number of registrations.
THEOREM RegistryFollows == RegistrySpec => []RegistryFollowsPlugins
<1>1. RegistryInit => RegistryInv
  BY RegistryStarts
<1>2. RegistryInv /\ [RegistryNext]_registryVars => RegistryInv'
  BY RegistrySteps
<1>3. RegistryInv => RegistryFollowsPlugins
  BY DEF RegistryInv
<1> QED
  BY <1>1, <1>2, <1>3, PTL DEF RegistrySpec

-----------------------------------------------------------------------------
(* The pid file. *)

\* What ReadPid makes of the file.
Named == IF pidFile # NoFile /\ pidFile.stamped THEN pidFile.owner ELSE NoFile

AtMostOneBusy == \A p, q \in Server : doing[p] \in Busy /\ doing[q] \in Busy => p = q

\* What is so of the one process that is busy: what it created or read is what is at the
\* path; there is no server when it removes that or cleans up, so when it tries again,
\* nothing is in its way.
Undisturbed ==
    \A p \in Server :
        /\ doing[p] = "stamp" => pidFile = [owner |-> p, stamped |-> FALSE]
        /\ doing[p] = "decide" => prior[p] = Named
        /\ doing[p] \in {"unlink", "signalled", "exiting"} => Serving = {}
        /\ doing[p] \in {"read", "decide", "unlink"} => tries[p] > 0
        /\ doing[p] = "new" => tries[p] = 2
        /\ doing[p] = "open" => tries[p] = 2 \/ (tries[p] = 1 /\ pidFile = NoFile)

PidInv == PidTypeOK /\ (~met => AtMostOneBusy /\ Undisturbed /\ OneNamedServer)

LEMMA PidStarts ==
    ASSUME PidInit PROVE PidInv
<1>1. PidTypeOK
  <2>1. job \in [Server -> Jobs] /\ tries \in [Server -> 0..2] /\ pidFile = NoFile /\ met = FALSE
    BY DEF PidInit, Jobs
  <2>2. /\ doing \in [Server -> Busy \cup {"new", "serving", "gone"}]
        /\ prior \in [Server -> Server \cup {NoFile}]
    BY DEF PidInit
  <2> QED
    BY <2>1, <2>2 DEF PidTypeOK
<1>2. \A p \in Server : doing[p] = "new" /\ tries[p] = 2
  BY DEF PidInit
<1> QED
  BY <1>1, <1>2 DEF PidInv, Busy, AtMostOneBusy, Undisturbed, OneNamedServer, Serving

\* A step to a busy place that meets nobody is a step of the only one that is busy.
LEMMA Meets ==
    ASSUME PidTypeOK, NEW p \in Server, NEW here, NEW there \in Busy,
           Moves(p, here, there), ~met'
    PROVE  ~met /\ \A q \in Server \ {p} : doing[q] \notin Busy /\ doing'[q] = doing[q]
BY DEF Moves, PidTypeOK

LEMMA PidSteps ==
    ASSUME PidInv, [PidNext]_pidVars PROVE PidInv'
<1> USE PidConstants DEF PidInv
<1>1. ASSUME NEW p \in Server, NEW what \in Jobs, Call(p, what) PROVE PidInv'
  <2>1. PidTypeOK'
    BY <1>1 DEF Call, Moves, PidTypeOK, Jobs, Busy
  <2>2. ASSUME ~met' PROVE (AtMostOneBusy /\ Undisturbed /\ OneNamedServer)'
    <3>1. /\ ~met /\ \A q \in Server \ {p} : doing[q] \notin Busy /\ doing'[q] = doing[q]
          /\ doing[p] = "new" /\ doing'[p] \in {"open", "read"}
      BY <1>1, <2>2, Meets DEF Call, Moves, PidTypeOK, Busy
    <3> QED
      BY <1>1, <3>1 DEF Call, AtMostOneBusy, Undisturbed, OneNamedServer, Serving, Busy, Named
  <2> QED
    BY <2>1, <2>2
<1>2. ASSUME NEW p \in Server, Open(p) PROVE PidInv'
  <2>1. PidTypeOK'
    <3>1. tries' \in [Server -> 0..2]
      BY <1>2 DEF Open, PidTypeOK
    <3>2. UNCHANGED <<job, prior>> /\ \E there \in {"stamp", "read", "serving"} : Moves(p, "open", there)
      BY <1>2 DEF Open
    <3>3. pidFile' \in {[owner |-> p, stamped |-> FALSE], pidFile}
      BY <1>2 DEF Open
    <3>4. [owner |-> p, stamped |-> FALSE] \in [owner : Server, stamped : BOOLEAN]
      OBVIOUS
    <3> QED
      BY <3>1, <3>2, <3>3, <3>4 DEF Moves, PidTypeOK, Busy
  <2>2. ASSUME ~met' PROVE (AtMostOneBusy /\ Undisturbed /\ OneNamedServer)'
    <3>1. doing[p] = "open" /\ ~met
      BY <1>2, <2>2 DEF Open, Moves
    <3>2. tries[p] \in {1, 2} /\ tries'[p] = tries[p] - 1
      BY <1>2, <3>1 DEF Open, Undisturbed, PidTypeOK
    <3>3. CASE pidFile = NoFile
      <4>1. Moves(p, "open", "stamp") /\ pidFile' = [owner |-> p, stamped |-> FALSE]
        BY <1>2, <3>2, <3>3 DEF Open
      <4>2. /\ \A q \in Server \ {p} : doing[q] \notin Busy /\ doing'[q] = doing[q]
            /\ doing'[p] = "stamp"
        BY <2>2, <4>1, Meets DEF Moves, PidTypeOK, Busy
      <4>3. Serving = {}
        <5> SUFFICES ASSUME NEW q \in Serving PROVE FALSE
          OBVIOUS
        <5>1. q \in Server /\ NoFile = [owner |-> q, stamped |-> TRUE]
          BY <3>1, <3>3 DEF OneNamedServer, Serving
        <5> QED
          BY <5>1
      <4>4. OneNamedServer' /\ AtMostOneBusy'
        BY <4>2, <4>3 DEF OneNamedServer, AtMostOneBusy, Serving, Busy
      <4>5. Undisturbed'
        <5>1. \A q \in Server \ {p} : doing[q] \in {"new", "serving", "gone"} /\ tries'[q] = tries[q]
          BY <1>2, <4>2 DEF Open, PidTypeOK
        <5> QED
          BY <3>1, <4>1, <4>2, <5>1 DEF Undisturbed
      <4> QED
        BY <4>4, <4>5
    <3>4. CASE pidFile # NoFile
      <4>1. Moves(p, "open", "read") /\ UNCHANGED pidFile
        BY <1>2, <3>2, <3>4 DEF Open
      <4>2. /\ \A q \in Server \ {p} : doing[q] \notin Busy /\ doing'[q] = doing[q]
            /\ doing'[p] = "read"
        BY <2>2, <4>1, Meets DEF Moves, PidTypeOK, Busy
      <4>3. tries'[p] = 1
        BY <3>1, <3>2, <3>4 DEF Undisturbed
      <4>4. \A q \in Server \ {p} : tries'[q] = tries[q]
        BY <1>2 DEF Open, PidTypeOK
      <4> QED
        BY <1>2, <4>1, <4>2, <4>3, <4>4, <3>1
        DEF Open, AtMostOneBusy, Undisturbed, OneNamedServer, Serving, Busy
    <3> QED
      BY <3>3, <3>4
  <2> QED
    BY <2>1, <2>2
<1>3. ASSUME NEW p \in Server, Stamp(p) PROVE PidInv'
  <2>1. PidTypeOK'
    BY <1>3 DEF Stamp, Moves, PidTypeOK, Busy
  <2>2. ASSUME ~met' PROVE (AtMostOneBusy /\ Undisturbed /\ OneNamedServer)'
    <3>1. ~met /\ doing[p] = "stamp" /\ pidFile = [owner |-> p, stamped |-> FALSE]
      BY <1>3, <2>2 DEF Stamp, Moves, Undisturbed
    <3>2. Serving = {}
      <4> SUFFICES ASSUME NEW q \in Serving PROVE FALSE
        OBVIOUS
      <4>1. pidFile = [owner |-> q, stamped |-> TRUE]
        BY <3>1 DEF OneNamedServer
      <4>2. pidFile.stamped = TRUE /\ pidFile.stamped = FALSE
        BY <3>1, <4>1
      <4> QED
        BY <4>2
    <3>3. \A q \in Server \ {p} : doing[q] \notin Busy /\ doing'[q] = doing[q]
      BY <1>3, <3>1 DEF Stamp, Moves, AtMostOneBusy, Busy, PidTypeOK
    <3>4. doing'[p] = "serving" /\ pidFile' = [owner |-> p, stamped |-> TRUE]
      <4>1. pidFile # NoFile /\ pidFile.owner = p
        BY <3>1
      <4> QED
        BY <1>3, <4>1 DEF Stamp, Moves, PidTypeOK
    <3>5. OneNamedServer' /\ AtMostOneBusy'
      BY <3>2, <3>3, <3>4 DEF OneNamedServer, AtMostOneBusy, Serving, Busy
    <3>6. Undisturbed'
      <4>1. \A q \in Server : tries'[q] = tries[q]
        BY <1>3 DEF Stamp
      <4>2. \A q \in Server \ {p} : doing[q] \in {"new", "serving", "gone"}
        BY <3>3 DEF PidTypeOK
      <4> QED
        BY <3>1, <3>3, <3>4, <4>1, <4>2 DEF Undisturbed
    <3> QED
      BY <3>5, <3>6
  <2> QED
    BY <2>1, <2>2
<1>4. ASSUME NEW p \in Server, ReadPid(p) PROVE PidInv'
  <2>1. PidTypeOK'
    BY <1>4 DEF ReadPid, Moves, PidTypeOK, Busy
  <2>2. ASSUME ~met' PROVE (AtMostOneBusy /\ Undisturbed /\ OneNamedServer)'
    <3>1. /\ ~met /\ \A q \in Server \ {p} : doing[q] \notin Busy /\ doing'[q] = doing[q]
          /\ doing[p] = "read" /\ doing'[p] = "decide"
      BY <1>4, <2>2, Meets DEF ReadPid, Moves, PidTypeOK, Busy
    <3>2. prior'[p] = Named /\ UNCHANGED <<pidFile, tries>>
      BY <1>4 DEF ReadPid, PidTypeOK, Named
    <3> QED
      BY <3>1, <3>2 DEF AtMostOneBusy, Undisturbed, OneNamedServer, Serving, Busy, Named
  <2> QED
    BY <2>1, <2>2
<1>5. ASSUME NEW p \in Server, GivesUp(p) PROVE PidInv'
  <2>1. PidTypeOK'
    BY <1>5 DEF GivesUp, Clears, Moves, PidTypeOK, Busy
  <2>2. ASSUME ~met' PROVE (AtMostOneBusy /\ Undisturbed /\ OneNamedServer)'
    <3>1. /\ ~met /\ doing[p] = "decide" /\ doing'[p] \in {"unlink", "gone"}
          /\ UNCHANGED <<pidFile, job, tries, prior>>
          /\ \A q \in Server \ {p} : doing'[q] = doing[q]
      BY <1>5, <2>2 DEF GivesUp, Clears, Moves, PidTypeOK
    <3>2. \A q \in Server \ {p} : doing[q] \notin Busy
      BY <3>1 DEF AtMostOneBusy, Busy
    <3>3. ASSUME doing'[p] = "unlink" PROVE Serving = {}
      <4>1. ~Running(p)
        BY <1>5, <3>1, <3>3 DEF GivesUp, Clears, Moves, PidTypeOK
      <4>2. ASSUME NEW q \in Serving PROVE FALSE
        <5>1. pidFile = [owner |-> q, stamped |-> TRUE]
          BY <3>1, <4>2 DEF OneNamedServer
        <5>2. q \in Server /\ doing[q] = "serving"
          BY <4>2 DEF Serving
        <5>3. prior[p] = Named
          BY <3>1 DEF Undisturbed
        <5>4. pidFile # NoFile /\ pidFile.stamped /\ pidFile.owner = q
          BY <5>1, <5>2
        <5>5. prior[p] = q /\ q # NoFile
          BY <5>2, <5>3, <5>4 DEF Named
        <5> QED
          BY <4>1, <5>2, <5>5 DEF Running, Finite, Alive
      <4> QED
        BY <4>2
    <3> QED
      BY <3>1, <3>2, <3>3
      DEF AtMostOneBusy, Undisturbed, OneNamedServer, Serving, Busy, Named
  <2> QED
    BY <2>1, <2>2
<1>6. ASSUME NEW p \in Server, Terminates(p) PROVE PidInv'
  <2>1. prior[p] \in Server
    BY <1>6 DEF Terminates, Running, Finite, PidTypeOK
  <2> QED
    BY <1>6, <2>1 DEF Terminates, PidTypeOK, Busy
<1>7. ASSUME NEW p \in Server, Unlink(p) PROVE PidInv'
  <2>1. PidTypeOK'
    BY <1>7 DEF Unlink, Moves, PidTypeOK, Busy
  <2>2. ASSUME ~met' PROVE (AtMostOneBusy /\ Undisturbed /\ OneNamedServer)'
    <3>1. /\ ~met /\ doing[p] = "unlink" /\ Serving = {}
          /\ doing'[p] \in {"open", "gone"} /\ pidFile' = NoFile
          /\ \A q \in Server \ {p} : doing'[q] = doing[q]
          /\ UNCHANGED <<job, tries, prior>>
      BY <1>7, <2>2 DEF Unlink, Moves, PidTypeOK, Undisturbed
    <3>2. \A q \in Server \ {p} : doing[q] \notin Busy
      BY <3>1 DEF AtMostOneBusy, Busy
    <3>3. tries[p] \in {1, 2}
      BY <3>1 DEF Undisturbed, PidTypeOK
    <3> QED
      BY <3>1, <3>2, <3>3
      DEF AtMostOneBusy, Undisturbed, OneNamedServer, Serving, Busy
  <2> QED
    BY <2>1, <2>2
<1>8. ASSUME NEW p \in Server, Interrupted(p) \/ CleansUp(p) PROVE PidInv'
  <2>1. PidTypeOK'
    BY <1>8 DEF Interrupted, CleansUp, Moves, PidTypeOK, Busy
  <2>2. ASSUME ~met' PROVE (AtMostOneBusy /\ Undisturbed /\ OneNamedServer)'
    <3>1. /\ ~met /\ doing[p] \in {"serving", "signalled", "exiting"}
          /\ doing'[p] \in {"signalled", "exiting", "gone"}
          /\ \A q \in Server \ {p} : doing'[q] = doing[q]
          /\ UNCHANGED <<job, tries, prior>>
      BY <1>8, <2>2 DEF Interrupted, CleansUp, Moves, PidTypeOK
    <3>2. \A q \in Server \ {p} : doing[q] \notin Busy
      BY <1>8, <2>2, <3>1, Meets DEF Interrupted, CleansUp, Moves, AtMostOneBusy, Busy
    <3>3. Serving \subseteq {p}
      BY <3>1 DEF OneNamedServer, Undisturbed, Serving
    <3> QED
      BY <1>8, <3>1, <3>2, <3>3
      DEF AtMostOneBusy, Undisturbed, OneNamedServer, Serving, Busy
  <2> QED
    BY <2>1, <2>2
<1>9. ASSUME NEW p \in Server, Crashes(p) PROVE PidInv'
  <2>1. PidTypeOK'
    BY <1>9 DEF Crashes, Moves, PidTypeOK, Busy
  <2>2. /\ (met' <=> met) /\ doing'[p] = "gone"
        /\ \A q \in Server \ {p} : doing'[q] = doing[q]
        /\ UNCHANGED <<pidFile, job, tries, prior>>
    BY <1>9 DEF Crashes, Moves, PidTypeOK, Busy
  <2> QED
    BY <2>1, <2>2 DEF AtMostOneBusy, Undisturbed, OneNamedServer, Serving, Busy, Named
<1>10. CASE UNCHANGED pidVars
  BY <1>10 DEF pidVars, PidTypeOK, AtMostOneBusy, Undisturbed, OneNamedServer, Serving, Named
<1> QED
  BY <1>1, <1>2, <1>3, <1>4, <1>5, <1>6, <1>7, <1>8, <1>9, <1>10 DEF PidNext

\* Until two processes are busy with the pid file at once, every server is named by it
\* (so there is one), for any number of processes that start, stop, and crash anywhere.
THEOREM OneServer == PidSpec => []OneNamedServer
<1>1. PidInit => PidInv
  BY PidStarts
<1>2. PidInv /\ [PidNext]_pidVars => PidInv'
  BY PidSteps
<1>3. PidInv => OneNamedServer
  BY DEF PidInv, OneNamedServer
<1> QED
  BY <1>1, <1>2, <1>3, PTL DEF PidSpec

-----------------------------------------------------------------------------
(* The update lock. *)

\* Until a live owner is robbed, the file at the path is its own; only a process at work or
\* dead has an installer; and who is about to take over has read no live one's pid.
UpdateLockInv ==
    /\ Locks!UpdateLockTypeOK
    /\ robbed \/ \A p \in Updater : place[p] \in {"stamp", "fn"} => Locks!Owns(p)
    /\ \A p \in installers : place[p] \in {"fn", "gone"}
    /\ \A p \in Updater : place[p] = "steal" => ~Locks!Running(holder[p])

LEMMA NoSuchLock ==
    NoFile \notin Updater /\ \A p \in Updater, b \in BOOLEAN : NoFile # [of |-> p, stamped |-> b]
  BY PartsConstants

LEMMA UpdateLockStarts == Locks!UpdateLockInit => UpdateLockInv
BY NoSuchLock DEF Locks!UpdateLockInit, UpdateLockInv, Locks!UpdateLockTypeOK, Locks!Locks

LEMMA UpdateLockStep == UpdateLockInv /\ [Locks!UpdateLockNext]_Locks!updateLockVars => UpdateLockInv'
<1> SUFFICES ASSUME UpdateLockInv, [Locks!UpdateLockNext]_Locks!updateLockVars PROVE UpdateLockInv'
  OBVIOUS
<1> USE NoSuchLock
    DEF UpdateLockInv, Locks!UpdateLockTypeOK, Locks!Locks, Locks!Owns, Locks!Moves, Locks!Running
<1>1. ASSUME NEW p \in Updater, Locks!Creates(p) PROVE UpdateLockInv'
  BY <1>1 DEF Locks!Creates
<1>2. ASSUME NEW p \in Updater, Locks!FindsLock(p) \/ Locks!Reads(p) PROVE UpdateLockInv'
  BY <1>2 DEF Locks!FindsLock, Locks!Reads
<1>3. ASSUME NEW p \in Updater, Locks!Stamps(p) PROVE UpdateLockInv'
  BY <1>3 DEF Locks!Stamps
<1>4. ASSUME NEW p \in Updater, Locks!Judges(p) PROVE UpdateLockInv'
  BY <1>4 DEF Locks!Judges
<1>5. ASSUME NEW p \in Updater, Locks!TakesOver(p) PROVE UpdateLockInv'
  BY <1>5 DEF Locks!TakesOver
<1>6. ASSUME NEW p \in Updater, Locks!Spawns(p) \/ Locks!Exits(p) PROVE UpdateLockInv'
  BY <1>6 DEF Locks!Spawns, Locks!Exits
<1>7. ASSUME NEW p \in Updater, Locks!Releases(p) \/ Locks!Interrupted(p) PROVE UpdateLockInv'
  BY <1>7 DEF Locks!Releases, Locks!Interrupted
<1>8. ASSUME NEW p \in Updater, Locks!Perishes(p) PROVE UpdateLockInv'
  BY <1>8 DEF Locks!Perishes
<1>9. CASE UNCHANGED Locks!updateLockVars
  BY <1>9 DEF Locks!updateLockVars
<1> QED
  BY <1>1, <1>2, <1>3, <1>4, <1>5, <1>6, <1>7, <1>8, <1>9 DEF Locks!UpdateLockNext

\* Until one takes over, for an empty lock or a dead owner's, what is the lock of a live one,
\* two updates are at work only where one was ended by a signal and its installer was not;
\* for any number of processes.
THEOREM UpdatesStayApart == Locks!UpdateLockSpec => []Locks!UpdatesApart
<1>1. UpdateLockInv => Locks!UpdatesApart
  BY DEF UpdateLockInv, Locks!UpdateLockTypeOK, Locks!Locks, Locks!Owns, Locks!UpdatesApart, Locks!AtWork
<1> QED
  BY <1>1, UpdateLockStarts, UpdateLockStep, PTL DEF Locks!UpdateLockSpec

-----------------------------------------------------------------------------
(* The update.  Of one that began with a maw that ran and failed in no rename of its own: *)
(* the old maw is in place until the binary is renamed, then the stash with the package   *)
(* runs, then the two stashes do, and so back if the update fails.                        *)

InPlace == {"first", "rotate", "stash", "discard", "discardPackage", "failed"}
HalfWay == {"evict", "package", "restoreBinary"}
PutAway == {"second", "verify", "download", "restore", "restorePackage"}

UpdateInv ==
    /\ Updates!UpdateTypeOK
    /\ began /\ ~hitch =>
         /\ step \in InPlace => Updates!Works
         /\ step \in HalfWay => stashed /\ Updates!Runs(stash, pkg)
         /\ step \in PutAway => stashed /\ Updates!Runs(stash, pkgStash)
         /\ step \in PutAway \cup {"package"} /\ pkgStash # "none" => pkgStashed

LEMMA UpdateStarts == Updates!UpdateInit => UpdateInv
BY DEF Updates!UpdateInit, UpdateInv, Updates!UpdateTypeOK, Updates!Package, Updates!Binary,
   InPlace, HalfWay, PutAway

LEMMA UpdatePromises == UpdateInv => Updates!UpdateKeepsAMaw
BY DEF UpdateInv, Updates!UpdateTypeOK, Updates!Works, Updates!Runs, Updates!UpdateKeepsAMaw,
   Updates!FailureRestores, Updates!NeverOutOfReach, Updates!Recoverable,
   InPlace, HalfWay, PutAway

LEMMA UpdateSteps == UpdateInv /\ [Updates!UpdateNext]_Updates!updateVars => UpdateInv'
<1> SUFFICES ASSUME UpdateInv, [Updates!UpdateNext]_Updates!updateVars PROVE UpdateInv'
  OBVIOUS
<1> USE DEF UpdateInv, Updates!UpdateTypeOK, Updates!Package, Updates!Binary, Updates!Works,
            Updates!Runs, Updates!Goes, Updates!disk, Updates!run, InPlace, HalfWay, PutAway
<1>1. CASE Updates!Start
  BY <1>1 DEF Updates!Start
<1>2. CASE Updates!FirstAdd
  BY <1>2 DEF Updates!FirstAdd
<1>3. CASE Updates!Rotate
  BY <1>3 DEF Updates!Rotate
<1>4. CASE Updates!StashBinary
  BY <1>4 DEF Updates!StashBinary
<1>5. CASE Updates!EvictStash
  BY <1>5 DEF Updates!EvictStash
<1>6. CASE Updates!StashPackage
  BY <1>6, ZenonT(60) DEF Updates!StashPackage
<1>7. CASE Updates!SecondAdd
  BY <1>7 DEF Updates!SecondAdd
<1>8. CASE Updates!Download
  BY <1>8 DEF Updates!Download
<1>9. CASE Updates!Verify
  BY <1>9 DEF Updates!Verify
<1>10. CASE Updates!DiscardBinary
  BY <1>10 DEF Updates!DiscardBinary
<1>11. CASE Updates!DiscardPackage
  BY <1>11 DEF Updates!DiscardPackage
<1>12. CASE Updates!ClearPackage
  BY <1>12, ZenonT(60) DEF Updates!ClearPackage
<1>13. CASE Updates!RestorePackage
  BY <1>13, ZenonT(60) DEF Updates!RestorePackage
<1>14. CASE Updates!RestoreBinary
  BY <1>14 DEF Updates!RestoreBinary
<1>15. CASE Updates!Ends
  BY <1>15 DEF Updates!Ends
<1>16. CASE Updates!Killed
  BY <1>16 DEF Updates!Killed
<1>17. CASE Updates!Reinstall
  BY <1>17 DEF Updates!Reinstall
<1>18. CASE UNCHANGED Updates!updateVars
  BY <1>18 DEF Updates!updateVars
<1> QED
  BY <1>1, <1>2, <1>3, <1>4, <1>5, <1>6, <1>7, <1>8, <1>9, <1>10, <1>11, <1>12, <1>13,
     <1>14, <1>15, <1>16, <1>17, <1>18 DEF Updates!UpdateNext

\* An update that begins with a maw that runs has one within reach at every step, wherever it
\* dies and whatever the crashed ones before it have left, and restores it if it fails; and
\* updates stay apart.
THEOREM UpdatesKeepAMaw ==
    /\ Updates!UpdateSpec => []Updates!UpdateKeepsAMaw
    /\ Spec => []UpdatePromise
<1>1. Updates!UpdateKeepsAMaw /\ Locks!UpdatesApart => UpdatePromise
  BY DEF UpdatePromise
<1> QED
  BY <1>1, UpdateStarts, UpdateSteps, UpdatePromises, UpdatesStayApart, OnePart, PTL
  DEF Updates!UpdateSpec

-----------------------------------------------------------------------------
(* Consent and the trust list. *)

TrustKinds == {"approve", "trust", "untrust", "add", "remove"}

\* Who loads and writes the trust file has a task of a kind that does, for two nodes.
Tasks ==
    \A p \in Proc :
        /\ pc[p] \in {"mark", "load", "write", "rename"} =>
             task[p].node \in Node /\ task[p].key \in Key
        /\ pc[p] = "mark" => /\ task[p].kind \in {"approve", "reject"}
                             /\ task[p].req \in Request /\ ask[task[p].req] \in Key
        /\ pc[p] \in {"load", "write", "rename"} => task[p].kind \in TrustKinds

\* A request that is on a node, or was sent to one, asks something.
Asked ==
    \A r \in Request :
        post[r] # "none" \/ (\E n \in Node : status[n][r] # "none") => ask[r] \in Key

\* Where nothing has clashed, one process writes at a time; its copy is what it makes of
\* the file as it still is, and what it renames is what it wrote.
OneWriter ==
    \A n \in Node \ clash, p \in Proc :
        Writing(p, n) =>
          /\ \A q \in Proc : Writing(q, n) => q = p
          /\ file[n].shape \in {"none", Shape(task[p].kind)}
          /\ copy[p] = [shape |-> Shape(task[p].kind),
                        of |-> After(task[p].kind, task[p].key,
                                     As(Shape(task[p].kind), file[n]))]
          /\ pc[p] = "rename" => tmp[n] = copy[p]

ConsentInv == ConsentTypeOK /\ Tasks /\ Asked /\ OneWriter /\ TrustIsAsGranted

LEMMA Contents ==
    ASSUME NEW kind \in TrustKinds, NEW k \in Key, NEW of \in SUBSET Key
    PROVE  After(kind, k, of) \subseteq Key /\ Shape(kind) \in {"object", "array"}
<1>1. Same(k) \subseteq Key
  BY DEF Same, Key
<1> QED
  BY <1>1 DEF TrustKinds, After, Shape

LEMMA AsTyped ==
    ASSUME NEW c \in Content, NEW s PROVE As(s, c) \in SUBSET Key
BY DEF As, Content

LEMMA ConsentStarts ==
    ASSUME ConsentInit PROVE ConsentInv
<1> USE ConsentConstants
<1>1. Absent \in Content
  BY DEF Absent, Content
<1>2. \A s \in {"object", "array"} : As(s, Absent) = {}
  BY DEF As, Absent
<1>3. ConsentTypeOK
  <2>1. NoTask \in [kind : {"none", "approve", "reject", "trust", "untrust", "add", "remove"},
                    node : Node \cup {None}, key : Key \cup {None}, req : Request \cup {None}]
    BY DEF NoTask
  <2>2. task \in [Proc -> [kind : {"none", "approve", "reject", "trust", "untrust", "add", "remove"},
                           node : Node \cup {None}, key : Key \cup {None},
                           req : Request \cup {None}]]
    BY <2>1 DEF ConsentInit
  <2>3. /\ file \in [Node -> Content] /\ tmp \in [Node -> Content] /\ copy \in [Proc -> Content]
        /\ status \in [Node -> [Request -> {"none", "pending", "approved", "rejected"}]]
        /\ granted \in [Node -> SUBSET ({"object", "array"} \X Key)]
    BY <1>1 DEF ConsentInit
  <2>4. /\ pc \in [Proc -> {"idle", "mark", "load", "write", "rename", "done", "failed", "dead"}]
        /\ ask \in [Request -> Key \cup {None}]
        /\ post \in [Request -> {"none", "sent", "stored", "answered", "failed"}]
    BY DEF ConsentInit
  <2> QED
    BY <2>2, <2>3, <2>4 DEF ConsentInit, ConsentTypeOK
<1> QED
  BY <1>2, <1>3 DEF ConsentInit, ConsentInv, Tasks, Asked, OneWriter, TrustIsAsGranted, Writing

\* What a step that leaves the files and the writers alone cannot disturb.
LEMMA FilesStand ==
    ASSUME ConsentInv, UNCHANGED <<file, tmp, copy, granted, clash>>,
           \A p \in Proc : \/ pc'[p] = pc[p] /\ task'[p] = task[p]
                           \/ pc'[p] \notin {"write", "rename"}
    PROVE  OneWriter' /\ TrustIsAsGranted'
<1>1. \A n \in Node, p \in Proc :
        Writing(p, n)' => Writing(p, n) /\ pc'[p] = pc[p] /\ task'[p] = task[p]
  BY DEF Writing
<1>2. OneWriter'
  BY <1>1 DEF ConsentInv, OneWriter
<1>3. TrustIsAsGranted'
  BY DEF ConsentInv, TrustIsAsGranted
<1> QED
  BY <1>2, <1>3

LEMMA ConsentSteps ==
    ASSUME ConsentInv, [ConsentNext]_consentVars PROVE ConsentInv'
<1> USE ConsentConstants DEF ConsentInv
<1>1. ASSUME NEW n \in Node, NEW m \in Node, NEW r \in Request, Asks(n, m, r)
      PROVE  ConsentInv'
  <2>1. ConsentTypeOK'
    BY <1>1 DEF Asks, ConsentTypeOK, Key, fileVars
  <2>2. Tasks'
    BY <1>1 DEF Asks, Tasks, ConsentTypeOK, Key
  <2>3. Asked'
    BY <1>1 DEF Asks, ConsentTypeOK, Asked, Key
  <2>4. OneWriter' /\ TrustIsAsGranted'
    BY <1>1, FilesStand DEF Asks, fileVars
  <2> QED
    BY <2>1, <2>2, <2>3, <2>4
<1>2. ASSUME NEW r \in Request, Stored(r) PROVE ConsentInv'
  <2>1. ask[r] \in Key /\ ask[r][2] \in Node
    BY <1>2 DEF Stored, Asked, Key
  <2>2. ConsentTypeOK'
    <3>1. status' \in {status, [status EXCEPT ![ask[r][2]][r] = "pending"]}
      BY <1>2 DEF Stored
    <3>2. status' \in [Node -> [Request -> {"none", "pending", "approved", "rejected"}]]
      <4>1. status[ask[r][2]] \in [Request -> {"none", "pending", "approved", "rejected"}]
        BY <2>1 DEF ConsentTypeOK
      <4>2. [status[ask[r][2]] EXCEPT ![r] = "pending"] \in
              [Request -> {"none", "pending", "approved", "rejected"}]
        BY <4>1
      <4> QED
        BY <2>1, <3>1, <4>2 DEF ConsentTypeOK
    <3>3. post' \in [Request -> {"none", "sent", "stored", "answered", "failed"}]
      BY <1>2 DEF Stored, ConsentTypeOK
    <3> QED
      BY <1>2, <3>2, <3>3 DEF Stored, ConsentTypeOK, fileVars
  <2>3. Tasks'
    BY <1>2 DEF Stored, Tasks
  <2>4. Asked'
    BY <1>2, <2>1 DEF Stored, ConsentTypeOK, Asked
  <2>5. OneWriter' /\ TrustIsAsGranted'
    BY <1>2, FilesStand DEF Stored, fileVars
  <2> QED
    BY <2>2, <2>3, <2>4, <2>5
<1>3. ASSUME NEW r \in Request, Answered(r) \/ Expires(r) PROVE ConsentInv'
  <2>1. ConsentTypeOK'
    BY <1>3 DEF Answered, Expires, ConsentTypeOK, fileVars, verdictVars
  <2>2. Tasks'
    BY <1>3 DEF Answered, Expires, Tasks
  <2>3. Asked'
    BY <1>3 DEF Answered, Expires, ConsentTypeOK, Asked, verdictVars
  <2>4. OneWriter' /\ TrustIsAsGranted'
    BY <1>3, FilesStand DEF Answered, Expires, fileVars
  <2> QED
    BY <2>1, <2>2, <2>3, <2>4
<1>4. ASSUME NEW p \in Proc, NEW n \in Node, NEW r \in Request,
             NEW kind \in {"approve", "reject"}, ReadRequest(p, n, r, kind)
      PROVE  ConsentInv'
  <2>1. ask[r] \in Key
    BY <1>4 DEF ReadRequest, Asked
  <2>2. /\ pc'[p] = "mark" /\ task'[p] = [kind |-> kind, node |-> n, key |-> ask[r], req |-> r]
        /\ \A q \in Proc \ {p} : pc'[q] = pc[q] /\ (pc[q] # "idle" => task'[q] = task[q])
    BY <1>4 DEF ReadRequest, Begin, ConsentTypeOK
  <2>3. ConsentTypeOK'
    BY <1>4 DEF ReadRequest, Begin, ConsentTypeOK, fileVars, requestVars
  <2>4. Tasks'
    BY <1>4, <2>1, <2>2 DEF ReadRequest, requestVars, Tasks
  <2>5. Asked'
    BY <1>4 DEF ReadRequest, Asked, requestVars
  <2>6. OneWriter' /\ TrustIsAsGranted'
    BY <1>4, <2>2, FilesStand DEF ReadRequest, fileVars
  <2> QED
    BY <2>3, <2>4, <2>5, <2>6
<1>5. ASSUME NEW p \in Proc, Mark(p) PROVE ConsentInv'
  <2>1. /\ pc'[p] \in {"load", "done"} /\ (pc'[p] = "load" => task[p].kind = "approve")
        /\ \A q \in Proc \ {p} : pc'[q] = pc[q]
        /\ task' = task /\ pc[p] = "mark"
    BY <1>5 DEF Mark, ConsentTypeOK
  <2>2. ConsentTypeOK'
    BY <1>5 DEF Mark, ConsentTypeOK, fileVars, requestVars
  <2>3. Tasks'
    BY <1>5, <2>1 DEF Mark, Tasks, TrustKinds, requestVars
  <2>4. Asked'
    BY <1>5, <2>1 DEF Mark, Asked, Tasks, requestVars, ConsentTypeOK
  <2>5. OneWriter' /\ TrustIsAsGranted'
    BY <1>5, <2>1, FilesStand DEF Mark, fileVars
  <2> QED
    BY <2>2, <2>3, <2>4, <2>5
<1>6. ASSUME NEW p \in Proc, NEW n \in Node, NEW m \in Node, Command(p, n, m)
      PROVE  ConsentInv'
  <2>1. PICK kind \in {"trust", "untrust", "add", "remove"} :
          Begin(p, kind, n, <<n, m>>, None, "load")
    BY <1>6 DEF Command
  <2>2. /\ pc'[p] = "load" /\ task'[p] = [kind |-> kind, node |-> n, key |-> <<n, m>>, req |-> None]
        /\ \A q \in Proc \ {p} : pc'[q] = pc[q] /\ task'[q] = task[q]
    BY <2>1 DEF Begin, ConsentTypeOK
  <2>3. ConsentTypeOK'
    <3>1. [kind |-> kind, node |-> n, key |-> <<n, m>>, req |-> None] \in
            [kind : {"none", "approve", "reject", "trust", "untrust", "add", "remove"},
             node : Node \cup {None}, key : Key \cup {None}, req : Request \cup {None}]
      BY DEF Key
    <3> QED
      BY <1>6, <2>1, <3>1
      DEF Command, Begin, ConsentTypeOK, fileVars, requestVars, verdictVars
  <2>4. Tasks'
    BY <1>6, <2>2 DEF Command, requestVars, Tasks, TrustKinds, Key
  <2>5. Asked'
    BY <1>6 DEF Command, Asked, requestVars, verdictVars
  <2>6. OneWriter' /\ TrustIsAsGranted'
    BY <1>6, <2>2, FilesStand DEF Command, fileVars
  <2> QED
    BY <2>3, <2>4, <2>5, <2>6
<1>7. ASSUME NEW p \in Proc, Load(p) PROVE ConsentInv'
  <2> DEFINE n == task[p].node
             kind == task[p].kind
             key == task[p].key
             of == As(Shape(kind), file[n])
  <2>1. n \in Node /\ key \in Key /\ kind \in TrustKinds /\ pc[p] = "load"
    BY <1>7 DEF Load, Tasks
  <2>2. of \in SUBSET Key /\ file[n] \in Content
    BY <2>1, AsTyped DEF ConsentTypeOK
  <2>3. After(kind, key, of) \subseteq Key /\ Shape(kind) \in {"object", "array"}
    BY <2>1, <2>2, Contents
  <2>4. UNCHANGED <<file, tmp, granted, ask, post, late, status, contested, task>>
    BY <1>7 DEF Load, requestVars, verdictVars
  <2>5. CASE Idle(kind, key, of)
    <3>1. UNCHANGED <<copy, clash>> /\ pc' = [pc EXCEPT ![p] = "done"]
      BY <1>7, <2>5 DEF Load
    <3>2. ConsentTypeOK'
      BY <2>4, <3>1 DEF ConsentTypeOK
    <3>3. Tasks' /\ Asked'
      BY <2>4, <3>1 DEF Tasks, Asked, ConsentTypeOK
    <3>4. OneWriter' /\ TrustIsAsGranted'
      BY <2>4, <3>1, FilesStand DEF ConsentTypeOK
    <3> QED
      BY <3>2, <3>3, <3>4
  <2>6. CASE ~Idle(kind, key, of)
    <3>1. /\ copy' = [copy EXCEPT ![p] = [shape |-> Shape(kind), of |-> After(kind, key, of)]]
          /\ clash' = IF file[n].shape \notin {"none", Shape(kind)}
                           \/ \E q \in Proc \ {p} : Writing(q, n)
                      THEN clash \cup {n} ELSE clash
          /\ pc' = [pc EXCEPT ![p] = "write"]
      BY <1>7, <2>6 DEF Load
    <3>2. [shape |-> Shape(kind), of |-> After(kind, key, of)] \in Content
      BY <2>3 DEF Content
    <3>3. ConsentTypeOK'
      BY <2>1, <2>4, <3>1, <3>2 DEF ConsentTypeOK
    <3>4. Tasks' /\ Asked'
      BY <2>1, <2>4, <3>1 DEF Tasks, Asked, ConsentTypeOK
    <3>5. TrustIsAsGranted'
      BY <2>4, <3>1 DEF TrustIsAsGranted
    <3>6. /\ pc'[p] = "write" /\ \A q \in Proc \ {p} : pc'[q] = pc[q] /\ copy'[q] = copy[q]
          /\ copy'[p] = [shape |-> Shape(kind), of |-> After(kind, key, of)]
      BY <3>1 DEF ConsentTypeOK
    <3>7. OneWriter'
      <4> SUFFICES ASSUME NEW o \in Node, o \notin clash', NEW q \in Proc, Writing(q, o)'
                   PROVE  /\ \A w \in Proc : Writing(w, o)' => w = q
                          /\ file[o].shape \in {"none", Shape(task[q].kind)}
                          /\ copy'[q] = [shape |-> Shape(task[q].kind),
                                         of |-> After(task[q].kind, task[q].key,
                                                      As(Shape(task[q].kind), file[o]))]
                          /\ pc'[q] = "rename" => tmp[o] = copy'[q]
        BY <2>4 DEF OneWriter
      <4>1. o \notin clash
        BY <3>1
      <4>2. \A w \in Proc \ {p} : Writing(w, o)' <=> Writing(w, o)
        BY <2>4, <3>6 DEF Writing
      <4>3. CASE o = n
        <5>1. file[n].shape \in {"none", Shape(kind)} /\ ~\E w \in Proc \ {p} : Writing(w, n)
          BY <3>1, <4>3
        <5>2. q = p
          BY <4>2, <4>3, <5>1
        <5> QED
          BY <3>6, <4>2, <4>3, <5>1, <5>2
      <4>4. CASE o # n
        <5>1. q # p /\ ~Writing(p, o)'
          BY <2>4, <4>4 DEF Writing
        <5> QED
          BY <3>6, <4>1, <4>2, <5>1 DEF OneWriter
      <4> QED
        BY <4>3, <4>4
    <3> QED
      BY <3>3, <3>4, <3>5, <3>7
  <2> QED
    BY <2>5, <2>6
<1>8. ASSUME NEW p \in Proc, WriteTmp(p) PROVE ConsentInv'
  <2>1. /\ pc[p] = "write" /\ task[p].node \in Node
        /\ pc' = [pc EXCEPT ![p] = "rename"]
        /\ tmp' = [tmp EXCEPT ![task[p].node] = copy[p]]
        /\ UNCHANGED <<file, granted, clash, ask, post, late, status, contested, task, copy>>
    BY <1>8 DEF WriteTmp, requestVars, verdictVars, Tasks
  <2>2. ConsentTypeOK'
    BY <2>1 DEF ConsentTypeOK
  <2>3. Tasks' /\ Asked'
    BY <2>1 DEF Tasks, Asked, ConsentTypeOK
  <2>4. TrustIsAsGranted'
    BY <2>1 DEF TrustIsAsGranted
  <2>5. /\ \A q \in Proc, o \in Node : Writing(q, o)' <=> Writing(q, o)
        /\ Writing(p, task[p].node)
        /\ \A q \in Proc \ {p} : pc'[q] = pc[q]
        /\ tmp'[task[p].node] = copy[p]
        /\ \A o \in Node \ {task[p].node} : tmp'[o] = tmp[o]
    BY <2>1 DEF Writing, ConsentTypeOK
  <2>6. OneWriter'
    <3> SUFFICES ASSUME NEW o \in Node \ clash, NEW q \in Proc, Writing(q, o)
                 PROVE  /\ \A w \in Proc : Writing(w, o) => w = q
                        /\ file[o].shape \in {"none", Shape(task[q].kind)}
                        /\ copy[q] = [shape |-> Shape(task[q].kind),
                                      of |-> After(task[q].kind, task[q].key,
                                                   As(Shape(task[q].kind), file[o]))]
                        /\ pc'[q] = "rename" => tmp'[o] = copy[q]
      BY <2>1, <2>5 DEF OneWriter
    <3>1. CASE q = p
      BY <2>5, <3>1 DEF OneWriter, Writing
    <3>2. CASE q # p
      <4>1. ASSUME o = task[p].node PROVE FALSE
        <5>1. Writing(p, o) /\ \A w \in Proc : Writing(w, o) => w = q
          BY <2>5, <4>1, ZenonT(60) DEF OneWriter
        <5> QED
          BY <3>2, <5>1
      <4> QED
        BY <2>5, <3>2, <4>1 DEF OneWriter
    <3> QED
      BY <3>1, <3>2
  <2> QED
    BY <2>2, <2>3, <2>4, <2>6
<1>9. ASSUME NEW p \in Proc, Rename(p) PROVE ConsentInv'
  <2> DEFINE n == task[p].node
             s == Shape(task[p].kind)
             of == As(s, file[n])
             Told(t) == {g[2] : g \in {h \in granted[n] : h[1] = t}}
  <2>1. /\ pc[p] = "rename" /\ n \in Node /\ task[p].key \in Key
        /\ task[p].kind \in TrustKinds /\ Writing(p, n)
        /\ UNCHANGED <<ask, post, late, status, contested, task, copy, clash>>
    BY <1>9 DEF Rename, Tasks, Writing, requestVars, verdictVars
  <2>2. CASE tmp[n] = Absent
    <3>1. pc' = [pc EXCEPT ![p] = "failed"] /\ UNCHANGED <<file, tmp, granted>>
      BY <1>9, <2>2 DEF Rename
    <3>2. ConsentTypeOK'
      BY <2>1, <3>1 DEF ConsentTypeOK
    <3>3. Tasks' /\ Asked'
      BY <2>1, <3>1 DEF Tasks, Asked, ConsentTypeOK
    <3>4. OneWriter' /\ TrustIsAsGranted'
      BY <2>1, <3>1, FilesStand DEF ConsentTypeOK
    <3> QED
      BY <3>2, <3>3, <3>4
  <2>3. CASE tmp[n] # Absent
    <3>1. /\ file' = [file EXCEPT ![n] = tmp[n]] /\ tmp' = [tmp EXCEPT ![n] = Absent]
          /\ granted' = [granted EXCEPT ![n] = {g \in @ : g[1] # s} \cup
               {<<s, k>> : k \in After(task[p].kind, task[p].key,
                                       {g[2] : g \in {h \in @ : h[1] = s}})}]
          /\ pc' = [pc EXCEPT ![p] = "done"]
      BY <1>9, <2>3 DEF Rename
    <3>2. granted'[n] = {g \in granted[n] : g[1] # s} \cup
             {<<s, k>> : k \in After(task[p].kind, task[p].key, Told(s))}
      BY <2>1, <3>1 DEF ConsentTypeOK
    <3>3. Told(s) \in SUBSET Key
      BY <2>1 DEF ConsentTypeOK
    <3>4. After(task[p].kind, task[p].key, Told(s)) \subseteq Key /\ s \in {"object", "array"}
      BY <2>1, <3>3, Contents
    <3>5. granted'[n] \in SUBSET ({"object", "array"} \X Key)
      <4>1. granted[n] \in SUBSET ({"object", "array"} \X Key)
        BY <2>1 DEF ConsentTypeOK
      <4>2. \A k \in After(task[p].kind, task[p].key, Told(s)) :
              <<s, k>> \in {"object", "array"} \X Key
        BY <3>4
      <4> QED
        BY <3>2, <4>1, <4>2
    <3>6. ConsentTypeOK'
      <4>1. Absent \in Content
        BY DEF Absent, Content
      <4>2. granted' \in [Node -> SUBSET ({"object", "array"} \X Key)]
        BY <2>1, <3>1, <3>5 DEF ConsentTypeOK
      <4> QED
        BY <2>1, <3>1, <4>1, <4>2 DEF ConsentTypeOK
    <3>7. Tasks' /\ Asked'
      BY <2>1, <3>1 DEF Tasks, Asked, ConsentTypeOK
    <3>8. /\ ~Writing(p, n)' /\ \A o \in Node : ~Writing(p, o)'
          /\ \A q \in Proc \ {p}, o \in Node : (Writing(q, o)' <=> Writing(q, o)) /\ pc'[q] = pc[q]
          /\ \A o \in Node \ {n} : file'[o] = file[o] /\ tmp'[o] = tmp[o] /\ granted'[o] = granted[o]
      BY <2>1, <3>1 DEF Writing, ConsentTypeOK
    <3>9. OneWriter'
      <4> SUFFICES ASSUME NEW o \in Node \ clash, NEW q \in Proc, Writing(q, o)'
                   PROVE  /\ \A w \in Proc : Writing(w, o)' => w = q
                          /\ file'[o].shape \in {"none", Shape(task[q].kind)}
                          /\ copy[q] = [shape |-> Shape(task[q].kind),
                                        of |-> After(task[q].kind, task[q].key,
                                                     As(Shape(task[q].kind), file'[o]))]
                          /\ pc'[q] = "rename" => tmp'[o] = copy[q]
        BY <2>1 DEF OneWriter
      <4>1. q # p /\ Writing(q, o)
        BY <3>8
      <4>2. ASSUME o = n PROVE FALSE
        <5>1. Writing(p, o)
          BY <2>1, <4>2
        <5>2. \A w \in Proc : Writing(w, o) => w = q
          BY <4>1 DEF OneWriter
        <5> QED
          BY <4>1, <5>1, <5>2
      <4> QED
        BY <3>8, <4>1, <4>2 DEF OneWriter
    <3>10. TrustIsAsGranted'
      <4> SUFFICES ASSUME NEW o \in Node \ clash, NEW k \in Key, NEW t \in {"object", "array"}
                   PROVE  <<t, k>> \in granted'[o] <=> k \in As(t, file'[o])
        BY <2>1 DEF TrustIsAsGranted
      <4>1. CASE o # n
        BY <3>8, <4>1 DEF TrustIsAsGranted
      <4>2. CASE o = n
        <5>1. /\ file'[n] = [shape |-> s, of |-> After(task[p].kind, task[p].key, of)]
              /\ file[n].shape \in {"none", s}
          BY <2>1, <3>1, <4>2 DEF OneWriter, ConsentTypeOK
        <5>2. \A c \in Key : <<s, c>> \in granted[n] <=> c \in of
          BY <2>1, <3>4, <4>2 DEF TrustIsAsGranted
        <5>3. granted[n] \in SUBSET ({"object", "array"} \X Key)
          BY <2>1 DEF ConsentTypeOK
        <5>4. of \in SUBSET Key
          BY <2>1, AsTyped DEF ConsentTypeOK
        <5>5. Told(s) = of
          <6>1. ASSUME NEW c \in Told(s) PROVE c \in of
            BY <5>2, <5>3
          <6>2. ASSUME NEW c \in of PROVE c \in Told(s)
            <7>1. <<s, c>> \in granted[n] /\ <<s, c>>[1] = s /\ <<s, c>>[2] = c
              BY <5>2, <5>4
            <7> QED
              BY <7>1
          <6> QED
            BY <6>1, <6>2
        <5>6. CASE t = s
          <6>1. As(t, file'[n]) = After(task[p].kind, task[p].key, Told(s))
            <7>1. file'[n].shape = s /\ file'[n].of = After(task[p].kind, task[p].key, of)
              BY <5>1
            <7>2. After(task[p].kind, task[p].key, of) = After(task[p].kind, task[p].key, Told(s))
              BY <5>5
            <7> QED
              BY <5>6, <7>1, <7>2 DEF As
          <6>2. \A g \in {g \in granted[n] : g[1] # s} : g # <<s, k>>
            OBVIOUS
          <6>3. <<s, k>> \in granted'[n] <=> k \in After(task[p].kind, task[p].key, Told(s))
            BY <3>2, <6>2
          <6> QED
            BY <4>2, <5>6, <6>1, <6>3
        <5>7. CASE t # s
          <6>1. k \notin As(t, file[n]) /\ k \notin As(t, file'[n])
            BY <5>1, <5>7 DEF As
          <6>2. <<t, k>> \notin granted[n]
            BY <4>2, <6>1 DEF TrustIsAsGranted
          <6> QED
            BY <3>2, <4>2, <5>7, <6>1, <6>2
        <5> QED
          BY <5>6, <5>7
      <4> QED
        BY <4>1, <4>2
    <3> QED
      BY <3>6, <3>7, <3>9, <3>10
  <2> QED
    BY <2>2, <2>3
<1>10. ASSUME NEW p \in Proc, Dies(p) PROVE ConsentInv'
  <2>1. /\ pc' = [pc EXCEPT ![p] = "dead"]
        /\ UNCHANGED <<file, tmp, granted, clash, ask, post, late, status, contested, task, copy>>
    BY <1>10 DEF Dies, fileVars, requestVars, verdictVars
  <2>2. ConsentTypeOK'
    BY <2>1 DEF ConsentTypeOK
  <2>3. Tasks' /\ Asked'
    BY <2>1 DEF Tasks, Asked, ConsentTypeOK
  <2>4. OneWriter' /\ TrustIsAsGranted'
    BY <2>1, FilesStand DEF ConsentTypeOK
  <2> QED
    BY <2>2, <2>3, <2>4
<1>11. CASE UNCHANGED consentVars
  <2>1. ConsentTypeOK' /\ Tasks' /\ Asked'
    BY <1>11 DEF consentVars, ConsentTypeOK, Tasks, Asked
  <2> QED
    BY <1>11, <2>1, FilesStand DEF consentVars
<1> QED
  BY <1>1, <1>2, <1>3, <1>4, <1>5, <1>6, <1>7, <1>8, <1>9, <1>10, <1>11 DEF ConsentNext

\* Until writers overlap on a node, or the two stores meet in its file, trust.json says
\* what the node was told, whatever dies where; for any nodes, requests and processes.
THEOREM TrustAsGranted == ConsentSpec => []TrustIsAsGranted
<1>1. ConsentInit => ConsentInv
  BY ConsentStarts
<1>2. ConsentInv /\ [ConsentNext]_consentVars => ConsentInv'
  BY ConsentSteps
<1>3. ConsentInv => TrustIsAsGranted
  BY DEF ConsentInv
<1> QED
  BY <1>1, <1>2, <1>3, PTL DEF ConsentSpec

\* A process with no command has no task; one with a verdict has it on a request.
VerdictTasks ==
    \A p \in Proc :
        /\ pc[p] = "idle" => task[p].kind = "none"
        /\ task[p].kind \in {"approve", "reject"} =>
             /\ task[p].node \in Node /\ task[p].req \in Request
             /\ task[p].key = ask[task[p].req] /\ ask[task[p].req] \in Key

\* A verdict that is not contested is the only one about to be marked, on a request that is
\* pending.
OneVerdict ==
    \A p \in Proc, n \in Node, r \in Request :
        pc[p] = "mark" /\ task[p].node = n /\ task[p].req = r /\ <<n, r>> \notin contested =>
          /\ status[n][r] = "pending"
          /\ \A q \in Proc : pc[q] = "mark" /\ task[q].node = n /\ task[q].req = r => q = p

\* Where an approval has gone on from its mark the request has a verdict, and another one only if it
\* is contested.
ApprovalsMarked ==
    \A p \in Proc, n \in Node, r \in Request :
        task[p].kind = "approve" /\ task[p].node = n /\ task[p].req = r
          /\ pc[p] \in {"load", "write", "rename", "done"} =>
             /\ status[n][r] \in {"approved", "rejected"}
             /\ status[n][r] = "rejected" => <<n, r>> \in contested

\* An approval has its effect, or is still to have it, or was broken off.
ApprovalsTakeEffect ==
    \A n \in Node, r \in Request :
        status[n][r] = "approved" /\ n \notin clash /\ ~Forgot(n, ask[r]) =>
          IsTrusted(n, ask[r]) \/ \E p \in Proc : Approving(p, n, r)

VerdictInv == VerdictTasks /\ OneVerdict /\ ApprovalsMarked /\ ApprovalsTakeEffect

LEMMA VerdictStarts ==
    ASSUME ConsentInit PROVE VerdictInv
<1>1. /\ \A p \in Proc : pc[p] = "idle" /\ task[p].kind = "none"
      /\ \A n \in Node, r \in Request : status[n][r] = "none"
  BY DEF ConsentInit, NoTask
<1> QED
  BY <1>1 DEF VerdictInv, VerdictTasks, OneVerdict, ApprovalsMarked, ApprovalsTakeEffect

LEMMA VerdictPromises ==
    ASSUME VerdictInv PROVE VerdictsTakeEffect
<1>1. \A n \in Node, r \in Request :
        status[n][r] = "approved" /\ n \notin clash /\ ~Forgot(n, ask[r]) =>
          IsTrusted(n, ask[r]) \/ \E p \in Proc : Approving(p, n, r)
  BY DEF VerdictInv, ApprovalsTakeEffect
<1>2. \A n \in Node, r \in Request :
        status[n][r] = "rejected" /\ <<n, r>> \notin contested =>
          ~\E p \in Proc : Finished(p, "approve", n, r)
  BY DEF VerdictInv, ApprovalsMarked, Finished
<1> QED
  BY <1>1, <1>2 DEF VerdictsTakeEffect

\* A step of a process that ends no approval, or kills it, and leaves the file alone.
LEMMA VerdictsGoOn ==
    ASSUME ConsentTypeOK, VerdictInv, NEW p \in Proc,
           NEW there \in {"write", "rename", "done", "dead"},
           pc[p] # "idle", pc' = [pc EXCEPT ![p] = there],
           pc[p] \in {"load", "write", "rename"} \/ there = "dead",
           there = "done" => task[p].kind # "approve",
           UNCHANGED <<file, ask, status, task, contested>>, clash \subseteq clash'
    PROVE  VerdictInv'
<1> USE DEF VerdictInv
<1>1. pc'[p] = there /\ \A q \in Proc \ {p} : pc'[q] = pc[q]
  BY DEF ConsentTypeOK
<1>2. VerdictTasks'
  BY <1>1 DEF VerdictTasks
<1>3. OneVerdict' /\ ApprovalsMarked'
  BY <1>1 DEF OneVerdict, ApprovalsMarked
<1>4. \A q \in Proc, o \in Node, x \in Request : Approving(q, o, x) => Approving(q, o, x)'
  BY <1>1 DEF Approving
<1> QED
  BY <1>2, <1>3, <1>4 DEF ApprovalsTakeEffect, IsTrusted, Forgot

LEMMA VerdictSteps ==
    ASSUME ConsentInv, VerdictInv, [ConsentNext]_consentVars PROVE VerdictInv'
<1> USE ConsentConstants DEF VerdictInv, ConsentInv
<1>1. ASSUME NEW n \in Node, NEW m \in Node, NEW r \in Request, Asks(n, m, r)
      PROVE  VerdictInv'
  <2>1. /\ ask[r] = None /\ \A o \in Node : status[o][r] = "none"
        /\ ask' = [ask EXCEPT ![r] = <<n, m>>]
        /\ status' = [status EXCEPT ![n][r] = "pending"]
        /\ UNCHANGED <<file, clash, task, pc, contested>>
    BY <1>1 DEF Asks, Asked, fileVars
  <2>2. /\ \A o \in Request \ {r} : ask'[o] = ask[o]
        /\ \A o \in Node, q \in Request : q # r => status'[o][q] = status[o][q]
        /\ \A o \in Node : status'[o][r] \in {"none", "pending"}
    BY <2>1 DEF ConsentTypeOK
  <2>3. \A p \in Proc : task[p].kind \in {"approve", "reject"} => task[p].req # r
    BY <2>1 DEF VerdictTasks
  <2>4. VerdictTasks'
    BY <2>1, <2>2, <2>3 DEF VerdictTasks
  <2>5. OneVerdict' /\ ApprovalsMarked'
    BY <2>1, <2>2, <2>3 DEF OneVerdict, ApprovalsMarked, Tasks
  <2>6. ApprovalsTakeEffect'
    BY <2>1, <2>2 DEF ApprovalsTakeEffect, Forgot, IsTrusted, Approving
  <2> QED
    BY <2>4, <2>5, <2>6
<1>2. ASSUME NEW r \in Request, Stored(r) PROVE VerdictInv'
  <2>1. /\ UNCHANGED <<file, clash, ask, task, pc, contested>>
        /\ \/ status' = status
           \/ \E m \in Node : /\ status[m][r] = "none"
                              /\ status' = [status EXCEPT ![m][r] = "pending"]
    <3>1. ask[r] \in Key /\ ask[r][2] \in Node
      BY <1>2 DEF Stored, Asked, Key
    <3> QED
      BY <1>2, <3>1 DEF Stored, fileVars
  <2>2. \A n \in Node, q \in Request :
          \/ status'[n][q] = status[n][q]
          \/ status[n][q] = "none" /\ status'[n][q] = "pending"
    BY <2>1 DEF ConsentTypeOK
  <2>3. OneVerdict' /\ ApprovalsMarked'
    BY <2>1, <2>2 DEF OneVerdict, ApprovalsMarked
  <2> QED
    BY <2>1, <2>2, <2>3 DEF VerdictTasks, ApprovalsTakeEffect, Forgot, IsTrusted, Approving
<1>3. ASSUME NEW r \in Request, Answered(r) \/ Expires(r) PROVE VerdictInv'
  BY <1>3 DEF Answered, Expires, fileVars, verdictVars, VerdictTasks, OneVerdict, ApprovalsMarked,
     ApprovalsTakeEffect, Forgot, IsTrusted, Approving
<1>4. ASSUME NEW p \in Proc, NEW n \in Node, NEW r \in Request,
             NEW kind \in {"approve", "reject"}, ReadRequest(p, n, r, kind)
      PROVE  VerdictInv'
  <2>1. /\ pc[p] = "idle" /\ pc' = [pc EXCEPT ![p] = "mark"]
        /\ task' = [task EXCEPT ![p] = [kind |-> kind, node |-> n, key |-> ask[r], req |-> r]]
        /\ status[n][r] = "pending" /\ ask[r] \in Key
        /\ contested' = IF \E q \in Proc : task[q].node = n /\ task[q].req = r /\ pc[q] = "mark"
                        THEN contested \cup {<<n, r>>} ELSE contested
        /\ UNCHANGED <<file, clash, ask, status>>
    BY <1>4 DEF ReadRequest, Begin, Asked, fileVars, requestVars
  <2>2. /\ pc'[p] = "mark" /\ task'[p] = [kind |-> kind, node |-> n, key |-> ask[r], req |-> r]
        /\ \A q \in Proc \ {p} : pc'[q] = pc[q] /\ task'[q] = task[q]
    BY <2>1 DEF ConsentTypeOK
  <2>3. VerdictTasks'
    BY <2>1, <2>2 DEF VerdictTasks
  <2>4. OneVerdict'
    <3> SUFFICES ASSUME NEW q \in Proc, NEW o \in Node, NEW x \in Request,
                        pc'[q] = "mark", task'[q].node = o, task'[q].req = x,
                        <<o, x>> \notin contested'
                 PROVE  /\ status[o][x] = "pending"
                        /\ \A w \in Proc :
                             pc'[w] = "mark" /\ task'[w].node = o /\ task'[w].req = x => w = q
      BY <2>1 DEF OneVerdict
    <3>1. <<o, x>> \notin contested
      BY <2>1
    <3>2. CASE o = n /\ x = r
      <4>1. \A w \in Proc : pc[w] = "mark" => ~(task[w].node = n /\ task[w].req = r)
        BY <2>1, <3>2
      <4> QED
        BY <2>1, <2>2, <3>2, <4>1
    <3>3. CASE o # n \/ x # r
      BY <2>2, <3>1, <3>3 DEF OneVerdict
    <3> QED
      BY <3>2, <3>3
  <2>5. ApprovalsMarked'
    <3>1. contested \subseteq contested' /\ status' = status
      BY <2>1
    <3> QED
      BY <2>2, <3>1 DEF ApprovalsMarked
  <2>6. \A q \in Proc, o \in Node, x \in Request : Approving(q, o, x) => Approving(q, o, x)'
    BY <2>1, <2>2 DEF Approving
  <2>7. \A o \in Node, x \in Request : Forgot(o, ask[x]) => Forgot(o, ask[x])'
    BY <2>1, <2>2 DEF Forgot, VerdictTasks
  <2> QED
    BY <2>1, <2>3, <2>4, <2>5, <2>6, <2>7 DEF ApprovalsTakeEffect, IsTrusted
<1>5. ASSUME NEW p \in Proc, Mark(p) PROVE VerdictInv'
  <2> DEFINE n == task[p].node
             r == task[p].req
             mark == IF task[p].kind = "approve" THEN "approved" ELSE "rejected"
  <2>1. /\ pc[p] = "mark" /\ task[p].kind \in {"approve", "reject"} /\ n \in Node /\ r \in Request
        /\ pc' = [pc EXCEPT ![p] = IF task[p].kind = "approve" THEN "load" ELSE "done"]
        /\ status' = [status EXCEPT ![n][r] = mark]
        /\ UNCHANGED <<file, clash, ask, task, contested>>
    BY <1>5 DEF Mark, Tasks, fileVars, requestVars
  <2>2. /\ pc'[p] = IF task[p].kind = "approve" THEN "load" ELSE "done"
        /\ \A q \in Proc \ {p} : pc'[q] = pc[q]
        /\ \A o \in Node, x \in Request :
              status'[o][x] = IF o = n /\ x = r THEN mark ELSE status[o][x]
    BY <2>1 DEF ConsentTypeOK
  <2>3. VerdictTasks'
    BY <2>1, <2>2 DEF VerdictTasks
  <2>4. OneVerdict'
    BY <2>1, <2>2 DEF OneVerdict
  <2>5. ApprovalsMarked'
    <3> SUFFICES ASSUME NEW q \in Proc, NEW o \in Node, NEW x \in Request,
                        task[q].kind = "approve", task[q].node = o, task[q].req = x,
                        pc'[q] \in {"load", "write", "rename", "done"}
                 PROVE  /\ status'[o][x] \in {"approved", "rejected"}
                        /\ status'[o][x] = "rejected" => <<o, x>> \in contested
      BY <2>1 DEF ApprovalsMarked
    <3>1. CASE q = p
      BY <2>1, <2>2, <3>1
    <3>2. CASE q # p
      <4>1. /\ status[o][x] \in {"approved", "rejected"}
            /\ status[o][x] = "rejected" => <<o, x>> \in contested
        BY <2>2, <3>2 DEF ApprovalsMarked
      <4>2. CASE o = n /\ x = r
        <5>1. <<n, r>> \in contested
          BY <2>1, <4>1, <4>2 DEF OneVerdict
        <5> QED
          BY <2>2, <4>2, <5>1
      <4> QED
        BY <2>2, <4>1, <4>2
    <3> QED
      BY <3>1, <3>2
  <2>6. \A q \in Proc, o \in Node, x \in Request : Approving(q, o, x) => Approving(q, o, x)'
    BY <2>1, <2>2 DEF Approving
  <2>7. ApprovalsTakeEffect'
    <3> SUFFICES ASSUME NEW o \in Node, NEW x \in Request, status'[o][x] = "approved",
                        o \notin clash, ~Forgot(o, ask[x])
                 PROVE  IsTrusted(o, ask[x]) \/ \E q \in Proc : Approving(q, o, x)'
      BY <2>1 DEF ApprovalsTakeEffect, Forgot, IsTrusted
    <3>1. CASE o = n /\ x = r
      <4>1. task[p].kind = "approve"
        BY <2>1, <2>2, <3>1
      <4>2. Approving(p, o, x)'
        BY <2>1, <2>2, <3>1, <4>1 DEF Approving
      <4> QED
        BY <4>2
    <3>2. CASE ~(o = n /\ x = r)
      BY <2>2, <2>6, <3>2 DEF ApprovalsTakeEffect
    <3> QED
      BY <3>1, <3>2
  <2> QED
    BY <2>3, <2>4, <2>5, <2>7
<1>6. ASSUME NEW p \in Proc, NEW n \in Node, NEW m \in Node, Command(p, n, m)
      PROVE  VerdictInv'
  <2>1. PICK kind \in {"trust", "untrust", "add", "remove"} :
          Begin(p, kind, n, <<n, m>>, None, "load")
    BY <1>6 DEF Command
  <2>2. /\ pc[p] = "idle" /\ pc'[p] = "load" /\ task'[p].kind = kind
        /\ \A q \in Proc \ {p} : pc'[q] = pc[q] /\ task'[q] = task[q]
        /\ UNCHANGED <<file, clash, ask, status, contested>>
    BY <1>6, <2>1 DEF Command, Begin, ConsentTypeOK, fileVars, requestVars, verdictVars
  <2>3. VerdictTasks'
    BY <2>2 DEF VerdictTasks
  <2>4. OneVerdict' /\ ApprovalsMarked'
    <3>1. kind # "approve" /\ pc'[p] # "mark"
      BY <2>2
    <3>2. OneVerdict'
      BY <2>2, <3>1 DEF OneVerdict
    <3>3. ApprovalsMarked'
      BY <2>2, <3>1 DEF ApprovalsMarked
    <3> QED
      BY <3>2, <3>3
  <2>5. \A q \in Proc, o \in Node, x \in Request : Approving(q, o, x) => Approving(q, o, x)'
    BY <2>2 DEF Approving
  <2>6. \A o \in Node, x \in Request : Forgot(o, ask[x]) => Forgot(o, ask[x])'
    BY <2>2 DEF Forgot, VerdictTasks
  <2> QED
    BY <2>2, <2>3, <2>4, <2>5, <2>6 DEF ApprovalsTakeEffect, IsTrusted
<1>7. ASSUME NEW p \in Proc, Load(p) PROVE VerdictInv'
  <2>1. pc[p] = "load" /\ UNCHANGED <<file, ask, status, task, contested>>
    BY <1>7 DEF Load, requestVars, verdictVars
  <2>2. \/ pc' = [pc EXCEPT ![p] = "done"] /\ clash' = clash /\ task[p].kind # "approve"
        \/ pc' = [pc EXCEPT ![p] = "write"] /\ clash \subseteq clash'
    BY <1>7 DEF Load, Idle
  <2> QED
    BY <2>1, <2>2, VerdictsGoOn
<1>8. ASSUME NEW p \in Proc, WriteTmp(p) \/ Dies(p) PROVE VerdictInv'
  <2>1. /\ UNCHANGED <<file, ask, status, task, contested, clash>>
        /\ pc[p] \in {"mark", "load", "write", "rename"}
        /\ \/ pc[p] = "write" /\ pc' = [pc EXCEPT ![p] = "rename"]
           \/ pc' = [pc EXCEPT ![p] = "dead"]
    BY <1>8 DEF WriteTmp, Dies, fileVars, requestVars, verdictVars
  <2> QED
    BY <2>1, VerdictsGoOn
<1>9. ASSUME NEW p \in Proc, Rename(p) PROVE VerdictInv'
  <2> DEFINE n == task[p].node
             s == Shape(task[p].kind)
  <2>1. /\ pc[p] = "rename" /\ n \in Node /\ task[p].key \in Key
        /\ task[p].kind \in TrustKinds /\ Writing(p, n)
        /\ UNCHANGED <<ask, status, contested, task, clash>>
        /\ \/ pc' = [pc EXCEPT ![p] = "failed"] /\ file' = file /\ tmp[n] = Absent
           \/ pc' = [pc EXCEPT ![p] = "done"] /\ file' = [file EXCEPT ![n] = tmp[n]]
    BY <1>9 DEF Rename, Tasks, Writing, requestVars, verdictVars
  <2>2. /\ pc'[p] \in {"done", "failed"}
        /\ \A q \in Proc \ {p} : pc'[q] = pc[q]
        /\ \A o \in Node \ {n} : file'[o] = file[o]
    BY <2>1 DEF ConsentTypeOK
  <2>3. VerdictTasks' /\ OneVerdict' /\ ApprovalsMarked'
    BY <2>1, <2>2 DEF VerdictTasks, OneVerdict, ApprovalsMarked
  <2>4. ASSUME n \notin clash
        PROVE  /\ file[n].shape \in {"none", s}
               /\ file'[n] = [shape |-> s, of |-> After(task[p].kind, task[p].key, As(s, file[n]))]
               /\ pc'[p] = "done"
    <3>1. /\ file[n].shape \in {"none", s} /\ tmp[n] = copy[p]
          /\ copy[p] = [shape |-> s, of |-> After(task[p].kind, task[p].key, As(s, file[n]))]
      BY <2>1, <2>4 DEF OneWriter
    <3>2. s # "none"
      BY DEF Shape
    <3>3. tmp[n] # Absent
      BY <3>1, <3>2 DEF Absent
    <3> QED
      BY <2>1, <3>1, <3>3 DEF ConsentTypeOK
  <2>5. ApprovalsTakeEffect'
    <3> SUFFICES ASSUME NEW o \in Node, NEW x \in Request, status[o][x] = "approved",
                        o \notin clash, ~Forgot(o, ask[x]), \A q \in Proc : ~Approving(q, o, x)'
                 PROVE  IsTrusted(o, ask[x])'
      BY <2>1 DEF ApprovalsTakeEffect, Forgot
    <3>1. IsTrusted(o, ask[x]) \/ Approving(p, o, x)
      BY <2>1, <2>2 DEF ApprovalsTakeEffect, Approving
    <3>2. CASE o # n
      <4>1. IsTrusted(o, ask[x])
        BY <3>1, <3>2 DEF Approving
      <4> QED
        BY <2>1, <2>2, <3>2, <4>1 DEF IsTrusted
    <3>3. CASE o = n
      <4>1. CASE Approving(p, n, x)
        <5>1. task[p].kind = "approve" /\ task[p].key = ask[x]
          BY <3>3, <4>1 DEF Approving, VerdictTasks
        <5>2. s = "object" /\ ask[x] \in file'[n].of /\ file'[n].shape = "object"
          BY <2>4, <3>3, <5>1 DEF Shape, After
        <5> QED
          BY <2>1, <3>3, <5>2 DEF IsTrusted, As
      <4>2. CASE IsTrusted(n, ask[x])
        <5>1. file[n].shape = "object" /\ ask[x] \in file[n].of
          BY <4>2 DEF IsTrusted, As
        <5>2. s = "object" /\ As(s, file[n]) = file[n].of
          BY <2>4, <3>3, <5>1 DEF As
        <5>3. task[p].kind \in {"approve", "trust", "untrust"}
          BY <2>1, <5>2 DEF Shape
        <5>4. task[p].kind = "untrust" => task[p].key # ask[x]
          BY <3>3 DEF Forgot
        <5>5. ask[x] \in After(task[p].kind, task[p].key, file[n].of)
          BY <5>1, <5>3, <5>4 DEF After
        <5> QED
          BY <2>1, <2>4, <3>3, <5>2, <5>5 DEF IsTrusted, As
      <4> QED
        BY <3>1, <3>3, <4>1, <4>2
    <3> QED
      BY <3>2, <3>3
  <2> QED
    BY <2>3, <2>5
<1>10. CASE UNCHANGED consentVars
  BY <1>10 DEF consentVars, VerdictTasks, OneVerdict, ApprovalsMarked, ApprovalsTakeEffect,
     Forgot, IsTrusted, Approving
<1> QED
  BY <1>1, <1>2, <1>3, <1>4, <1>5, <1>6, <1>7, <1>8, <1>9, <1>10 DEF ConsentNext

\* An approval that ended well has its effect, one marked without effect was broken off, and a
\* rejected request grants nothing unless another verdict was under way, for any nodes, requests
\* and processes.
THEOREM VerdictsStand == ConsentSpec => []VerdictsTakeEffect
<1>1. ConsentInit => ConsentInv /\ VerdictInv
  BY ConsentStarts, VerdictStarts
<1>2. (ConsentInv /\ VerdictInv) /\ [ConsentNext]_consentVars => (ConsentInv /\ VerdictInv)'
  BY ConsentSteps, VerdictSteps
<1>3. VerdictInv => VerdictsTakeEffect
  BY VerdictPromises
<1> QED
  BY <1>1, <1>2, <1>3, PTL DEF ConsentSpec

-----------------------------------------------------------------------------
(* Discovery and auto-pairing. *)

Attempt == [try : 0..3, at : {"none", "post", "stored", "failed"}]

ScoutTypes ==
    /\ seen \in [Zid -> SUBSET Zid] /\ paired \in [Zid -> SUBSET Zid]
    /\ pending \in [Zid -> SUBSET Zid] /\ greeted \in [Zid -> SUBSET Zid]
    /\ peers \in [Zid -> SUBSET Zid] /\ call \in [Zid -> [Zid -> Attempt]]

\* What holds of n as the initiator and m as the acceptor: n has the greater zid, what m
\* has done stays done until the answer is heard or given up, paired peers are in sight,
\* and the two parts of PairingPromise.
PairStands(n, m) ==
    /\ call[n][m].at # "none" => n > m /\ m \in seen[n] /\ m \notin paired[n]
    /\ <<n, m>> \in unheard => n > m
    /\ call[n][m].at = "stored" => n \in peers[m]
    /\ m \in paired[n] => m \in seen[n]
    /\ m \in pending[n] <=> call[n][m].at # "none"
    /\ n > m =>
         /\ m \in peers[n] => n \in peers[m]
         /\ n \in peers[m] => \/ m \in peers[n] \/ call[n][m].at = "stored"
                              \/ <<n, m>> \in unheard

ScoutInv == ScoutTypes /\ \A n, m \in Zid : PairStands(n, m)

LEMMA ScoutStarts ==
    ASSUME Scouts!ScoutInit PROVE ScoutInv
BY DEF Scouts!ScoutInit, ScoutInv, ScoutTypes, Attempt, PairStands, Scouts!NoCall

LEMMA ScoutPromises ==
    ASSUME ScoutInv PROVE Scouts!PairingPromise
BY DEF ScoutInv, ScoutTypes, PairStands, Scouts!PairingPromise,
   Scouts!BothOrUnheard, Scouts!PendingIsInFlight, Scouts!InFlight

\* What the two kinds of assignment do to a function of one and of two nodes.
LEMMA OneChanges ==
    ASSUME NEW f \in [Zid -> SUBSET Zid], NEW n \in Zid, NEW S \in SUBSET Zid
    PROVE  /\ [f EXCEPT ![n] = S] \in [Zid -> SUBSET Zid]
           /\ \A x \in Zid : [f EXCEPT ![n] = S][x] = IF x = n THEN S ELSE f[x]
OBVIOUS

LEMMA CallChanges ==
    ASSUME NEW f \in [Zid -> [Zid -> Attempt]], NEW n \in Zid, NEW m \in Zid,
           NEW a \in Attempt
    PROVE  /\ [f EXCEPT ![n][m] = a] \in [Zid -> [Zid -> Attempt]]
           /\ \A x, y \in Zid : [f EXCEPT ![n][m] = a][x][y] =
                                  IF x = n /\ y = m THEN a ELSE f[x][y]
<1> DEFINE g == [f[n] EXCEPT ![m] = a]
<1>1. g \in [Zid -> Attempt] /\ \A y \in Zid : g[y] = IF y = m THEN a ELSE f[n][y]
  OBVIOUS
<1>2. [f EXCEPT ![n][m] = a] = [f EXCEPT ![n] = g]
  OBVIOUS
<1> HIDE DEF g
<1> QED
  BY <1>1, <1>2

LEMMA ScoutSteps ==
    ASSUME ScoutInv, [Scouts!ScoutNext]_Scouts!scoutVars PROVE ScoutInv'
<1> USE DEF ScoutInv
<1>1. ASSUME NEW n \in Zid, NEW m \in Zid, Scouts!Hello(n, m) PROVE ScoutInv'
  <2>1. /\ seen' \in [Zid -> SUBSET Zid] /\ greeted' \in [Zid -> SUBSET Zid]
        /\ \A x \in Zid : seen'[x] = IF x = n THEN seen[n] \cup ({m} \ {n}) ELSE seen[x]
    BY <1>1, OneChanges DEF Scouts!Hello, ScoutTypes
  <2>2. UNCHANGED <<paired, peers, unheard>>
    BY <1>1 DEF Scouts!Hello
  <2>3. CASE Scouts!ShouldPair(n, m)
    <3>1. [try |-> 1, at |-> "post"] \in Attempt
      BY DEF Attempt
    <3>2. /\ call' = [call EXCEPT ![n][m] = [try |-> 1, at |-> "post"]]
          /\ pending' = [pending EXCEPT ![n] = pending[n] \cup {m}]
      BY <1>1, <2>3 DEF Scouts!Hello
    <3>3. /\ call' \in [Zid -> [Zid -> Attempt]]
          /\ \A x, y \in Zid : call'[x][y] = IF x = n /\ y = m THEN [try |-> 1, at |-> "post"]
                                                            ELSE call[x][y]
      BY <3>1, <3>2, CallChanges DEF ScoutTypes
    <3>4. /\ pending' \in [Zid -> SUBSET Zid]
          /\ \A x \in Zid : pending'[x] = IF x = n THEN pending[n] \cup {m} ELSE pending[x]
      BY <3>2, OneChanges DEF ScoutTypes
    <3>5. n > m /\ n # m /\ m \notin seen[n]
      BY <2>3, PartsConstants DEF Scouts!ShouldPair
    <3>6. ASSUME NEW x \in Zid, NEW y \in Zid PROVE PairStands(x, y)'
      <4>1. PairStands(x, y) /\ PairStands(n, m)
        OBVIOUS
      <4> QED
        BY <2>1, <2>2, <3>3, <3>4, <3>5, <4>1 DEF PairStands
    <3> QED
      BY <2>1, <2>2, <3>3, <3>4, <3>6 DEF ScoutTypes
  <2>4. CASE ~Scouts!ShouldPair(n, m)
    <3>1. UNCHANGED <<call, pending>>
      BY <1>1, <2>4 DEF Scouts!Hello
    <3>2. ASSUME NEW x \in Zid, NEW y \in Zid PROVE PairStands(x, y)'
      BY <2>1, <2>2, <3>1 DEF PairStands
    <3> QED
      BY <2>1, <2>2, <3>1, <3>2 DEF ScoutTypes
  <2> QED
    BY <2>3, <2>4
\* A post that reaches its acceptor, or is given up, changes only how far it has come.
<1>2. ASSUME NEW n \in Zid, NEW m \in Zid, Scouts!Accepts(n, m) PROVE ScoutInv'
  <2>1. PICK a \in Attempt : call' = [call EXCEPT ![n][m] = a] /\ a.at \in {"stored", "failed"}
                             /\ (a.at = "stored" =>
                                   peers' = [peers EXCEPT ![m] = peers[m] \cup {n}])
                             /\ (a.at = "failed" => UNCHANGED peers)
    <3> DEFINE a(there) == [call[n][m] EXCEPT !.at = there]
    <3>1. \A there \in {"stored", "failed"} : a(there) \in Attempt /\ a(there).at = there
      <4>1. call[n][m] \in Attempt
        BY DEF ScoutTypes
      <4> QED
        BY <4>1 DEF Attempt
    <3>2. CASE call' = [call EXCEPT ![n][m].at = "stored"]
               /\ peers' = [peers EXCEPT ![m] = peers[m] \cup {n}]
      <4>1. call' = [call EXCEPT ![n][m] = a("stored")]
        BY <3>2
      <4> QED
        BY <3>1, <3>2, <4>1
    <3>3. CASE call' = [call EXCEPT ![n][m].at = "failed"] /\ UNCHANGED peers
      <4>1. call' = [call EXCEPT ![n][m] = a("failed")]
        BY <3>3
      <4> QED
        BY <3>1, <3>3, <4>1
    <3> QED
      BY <1>2, <3>2, <3>3 DEF Scouts!Accepts, Scouts!Reaches
  <2>2. /\ call' \in [Zid -> [Zid -> Attempt]]
        /\ \A x, y \in Zid : call'[x][y] = IF x = n /\ y = m THEN a ELSE call[x][y]
    BY <2>1, CallChanges DEF ScoutTypes
  <2>3. /\ peers' \in [Zid -> SUBSET Zid]
        /\ \A x \in Zid : peers'[x] = IF x = m /\ a.at = "stored" THEN peers[m] \cup {n}
                                                                ELSE peers[x]
    <3>1. CASE a.at = "stored"
      <4>1. peers \in [Zid -> SUBSET Zid] /\ peers[m] \cup {n} \in SUBSET Zid
        BY DEF ScoutTypes
      <4>2. peers' = [peers EXCEPT ![m] = peers[m] \cup {n}]
        BY <2>1, <3>1
      <4> QED
        BY <3>1, <4>1, <4>2, OneChanges
    <3>2. CASE a.at = "failed"
      BY <2>1, <3>2 DEF ScoutTypes
    <3> QED
      BY <2>1, <3>1, <3>2
  <2>4. UNCHANGED <<seen, paired, pending, unheard>> /\ call[n][m].at = "post"
    BY <1>2 DEF Scouts!Accepts, Scouts!Reaches
  <2>5. greeted' \in [Zid -> SUBSET Zid]
    <3>1. greeted' = [greeted EXCEPT ![m] = greeted[m] \ {m}] \/ UNCHANGED greeted
      BY <1>2 DEF Scouts!Accepts
    <3>2. greeted \in [Zid -> SUBSET Zid] /\ greeted[m] \ {m} \in SUBSET Zid
      BY DEF ScoutTypes
    <3> QED
      BY <3>1, <3>2, OneChanges
  <2>6. n > m /\ ~(m > n)
    <3>1. PairStands(n, m)
      OBVIOUS
    <3> QED
      BY <2>4, <3>1, PartsConstants DEF PairStands
  <2>7. ASSUME NEW x \in Zid, NEW y \in Zid PROVE PairStands(x, y)'
    <3>1. PairStands(x, y) /\ PairStands(n, m)
      OBVIOUS
    <3> QED
      BY <2>1, <2>2, <2>3, <2>4, <2>6, <3>1 DEF PairStands
  <2> QED
    BY <2>2, <2>3, <2>4, <2>5, <2>7 DEF ScoutTypes
<1>3. ASSUME NEW n \in Zid, NEW m \in Zid, Scouts!NoRecentHello(n, m) PROVE ScoutInv'
  <2>1. PICK a \in Attempt : call' = [call EXCEPT ![n][m] = a] /\ a.at = "failed"
    <3> DEFINE a == [call[n][m] EXCEPT !.at = "failed"]
    <3>1. a \in Attempt /\ a.at = "failed"
      <4>1. call[n][m] \in Attempt
        BY DEF ScoutTypes
      <4> QED
        BY <4>1 DEF Attempt
    <3>2. call' = [call EXCEPT ![n][m] = a]
      BY <1>3 DEF Scouts!NoRecentHello, Scouts!Reaches
    <3> QED
      BY <3>1, <3>2
  <2>2. /\ call' \in [Zid -> [Zid -> Attempt]]
        /\ \A x, y \in Zid : call'[x][y] = IF x = n /\ y = m THEN a ELSE call[x][y]
    BY <2>1, CallChanges DEF ScoutTypes
  <2>3. UNCHANGED <<seen, paired, pending, unheard, peers, greeted>> /\ call[n][m].at = "post"
    BY <1>3 DEF Scouts!NoRecentHello, Scouts!Reaches
  <2>4. ASSUME NEW x \in Zid, NEW y \in Zid PROVE PairStands(x, y)'
    BY <2>1, <2>2, <2>3 DEF PairStands
  <2> QED
    BY <2>2, <2>3, <2>4 DEF ScoutTypes
<1>4. ASSUME NEW n \in Zid, NEW m \in Zid, Scouts!Unanswered(n, m) PROVE ScoutInv'
  <2>1. PICK a \in Attempt : call' = [call EXCEPT ![n][m] = a] /\ a.at \in {"post", "failed"}
    <3> DEFINE a == IF call[n][m].try < 3 THEN [try |-> call[n][m].try + 1, at |-> "post"]
                                          ELSE [call[n][m] EXCEPT !.at = "failed"]
    <3>1. a \in Attempt /\ a.at \in {"post", "failed"}
      <4>1. call[n][m] \in Attempt
        BY DEF ScoutTypes
      <4> QED
        BY <4>1 DEF Attempt
    <3>2. call' = [call EXCEPT ![n][m] = a]
      BY <1>4 DEF Scouts!Unanswered
    <3> QED
      BY <3>1, <3>2
  <2>2. /\ call' \in [Zid -> [Zid -> Attempt]]
        /\ \A x, y \in Zid : call'[x][y] = IF x = n /\ y = m THEN a ELSE call[x][y]
    BY <2>1, CallChanges DEF ScoutTypes
  <2>3. /\ UNCHANGED <<seen, paired, pending, peers, greeted>> /\ call[n][m].at # "none"
        /\ unheard' = unheard \cup {<<n, m>>}
    BY <1>4 DEF Scouts!Unanswered
  <2>4. ASSUME NEW x \in Zid, NEW y \in Zid PROVE PairStands(x, y)'
    <3>1. <<x, y>> \in unheard' <=> <<x, y>> \in unheard \/ (x = n /\ y = m)
      BY <2>3
    <3> QED
      BY <2>1, <2>2, <2>3, <3>1 DEF PairStands
  <2> QED
    BY <2>2, <2>3, <2>4 DEF ScoutTypes
<1>5. ASSUME NEW n \in Zid, NEW m \in Zid, Scouts!AcceptsLate(n, m) PROVE ScoutInv'
  <2>1. /\ peers' \in [Zid -> SUBSET Zid] /\ greeted' \in [Zid -> SUBSET Zid]
        /\ \A x \in Zid : peers'[x] = IF x = m THEN peers[m] \cup {n} ELSE peers[x]
    BY <1>5, OneChanges DEF Scouts!AcceptsLate, ScoutTypes
  <2>2. UNCHANGED <<seen, paired, pending, call, unheard>> /\ <<n, m>> \in unheard
    BY <1>5 DEF Scouts!AcceptsLate
  <2>3. ~(m > n)
    BY <2>2, PartsConstants DEF PairStands
  <2>4. ASSUME NEW x \in Zid, NEW y \in Zid PROVE PairStands(x, y)'
    BY <2>1, <2>2, <2>3 DEF PairStands
  <2> QED
    BY <2>1, <2>2, <2>4 DEF ScoutTypes
<1>6. ASSUME NEW n \in Zid, NEW m \in Zid, Scouts!Paired(n, m) PROVE ScoutInv'
  <2>1. Scouts!NoCall \in Attempt /\ Scouts!NoCall.at = "none"
    BY DEF Scouts!NoCall, Attempt
  <2>2. /\ call' \in [Zid -> [Zid -> Attempt]]
        /\ \A x, y \in Zid : call'[x][y] = IF x = n /\ y = m THEN Scouts!NoCall ELSE call[x][y]
    BY <1>6, <2>1, CallChanges DEF Scouts!Paired, ScoutTypes
  <2>3. /\ peers' \in [Zid -> SUBSET Zid] /\ paired' \in [Zid -> SUBSET Zid]
        /\ pending' \in [Zid -> SUBSET Zid]
        /\ \A x \in Zid : /\ peers'[x] = IF x = n THEN peers[n] \cup {m} ELSE peers[x]
                          /\ paired'[x] = IF x = n THEN paired[n] \cup {m} ELSE paired[x]
                          /\ pending'[x] = IF x = n THEN pending[n] \ {m} ELSE pending[x]
    BY <1>6, OneChanges DEF Scouts!Paired, ScoutTypes
  <2>4. UNCHANGED <<seen, greeted, unheard>> /\ call[n][m].at = "stored"
    BY <1>6 DEF Scouts!Paired
  <2>5. n > m /\ ~(m > n)
    <3>1. PairStands(n, m)
      OBVIOUS
    <3> QED
      BY <2>4, <3>1, PartsConstants DEF PairStands
  <2>6. ASSUME NEW x \in Zid, NEW y \in Zid PROVE PairStands(x, y)'
    <3>1. PairStands(x, y) /\ PairStands(n, m)
      OBVIOUS
    <3> QED
      BY <2>1, <2>2, <2>3, <2>4, <2>5, <3>1 DEF PairStands
  <2> QED
    BY <2>2, <2>3, <2>4, <2>6 DEF ScoutTypes
<1>7. ASSUME NEW n \in Zid, NEW m \in Zid, Scouts!PairFails(n, m) PROVE ScoutInv'
  <2>1. Scouts!NoCall \in Attempt /\ Scouts!NoCall.at = "none"
    BY DEF Scouts!NoCall, Attempt
  <2>2. /\ call' \in [Zid -> [Zid -> Attempt]]
        /\ \A x, y \in Zid : call'[x][y] = IF x = n /\ y = m THEN Scouts!NoCall ELSE call[x][y]
    BY <1>7, <2>1, CallChanges DEF Scouts!PairFails, ScoutTypes
  <2>3. /\ pending' \in [Zid -> SUBSET Zid]
        /\ \A x \in Zid : pending'[x] = IF x = n THEN pending[n] \ {m} ELSE pending[x]
    BY <1>7, OneChanges DEF Scouts!PairFails, ScoutTypes
  <2>4. /\ UNCHANGED <<seen, paired, greeted, peers>> /\ call[n][m].at \in {"stored", "failed"}
        /\ unheard' = IF call[n][m].at = "stored" THEN unheard \cup {<<n, m>>} ELSE unheard
    BY <1>7 DEF Scouts!PairFails
  <2>5. ASSUME NEW x \in Zid, NEW y \in Zid PROVE PairStands(x, y)'
    <3>1. <<x, y>> \in unheard' <=> \/ <<x, y>> \in unheard
                                    \/ x = n /\ y = m /\ call[n][m].at = "stored"
      BY <2>4
    <3>2. PairStands(x, y) /\ PairStands(n, m)
      OBVIOUS
    <3> QED
      BY <2>1, <2>2, <2>3, <2>4, <3>1, <3>2 DEF PairStands
  <2> QED
    BY <2>2, <2>3, <2>4, <2>5 DEF ScoutTypes
<1>8. ASSUME NEW n \in Zid, NEW m \in Zid, Scouts!Prune(n, m) PROVE ScoutInv'
  <2>1. /\ seen' \in [Zid -> SUBSET Zid] /\ paired' \in [Zid -> SUBSET Zid]
        /\ pending' \in [Zid -> SUBSET Zid]
        /\ \A x \in Zid : /\ seen'[x] = IF x = n THEN seen[n] \ {m} ELSE seen[x]
                          /\ paired'[x] = IF x = n THEN paired[n] \ {m} ELSE paired[x]
                          /\ pending'[x] = IF x = n THEN pending[n] \ {m} ELSE pending[x]
    BY <1>8, OneChanges DEF Scouts!Prune, ScoutTypes
  <2>2. UNCHANGED <<greeted, call, peers, unheard>> /\ call[n][m].at = "none"
    BY <1>8 DEF Scouts!Prune, Scouts!InFlight
  <2>3. ASSUME NEW x \in Zid, NEW y \in Zid PROVE PairStands(x, y)'
    BY <2>1, <2>2 DEF PairStands
  <2> QED
    BY <2>1, <2>2, <2>3 DEF ScoutTypes
<1>9. ASSUME NEW n \in Zid, NEW m \in Zid, Scouts!Forgets(n, m) PROVE ScoutInv'
  <2>1. greeted' \in [Zid -> SUBSET Zid]
    BY <1>9, OneChanges DEF Scouts!Forgets, ScoutTypes
  <2> QED
    BY <1>9, <2>1 DEF Scouts!Forgets, ScoutTypes, PairStands
<1>10. CASE UNCHANGED Scouts!scoutVars
  BY <1>10 DEF Scouts!scoutVars, ScoutTypes, PairStands
<1> QED
  BY <1>1, <1>2, <1>3, <1>4, <1>5, <1>6, <1>7, <1>8, <1>9, <1>10 DEF Scouts!ScoutNext

\* Two nodes have stored each other or neither has, but for an answer on its way, lost or
\* refused, and a peer is pending for exactly as long as its pairing is under way.
THEOREM PairedAtBothEnds ==
    /\ Scouts!ScoutSpec => []Scouts!PairingPromise
    /\ Spec => []PairingPromise
<1>1. Scouts!ScoutInit => ScoutInv
  BY ScoutStarts
<1>2. ScoutInv /\ [Scouts!ScoutNext]_Scouts!scoutVars => ScoutInv'
  BY ScoutSteps
<1>3. ScoutInv => Scouts!PairingPromise
  BY ScoutPromises
<1>4. Scouts!PairingPromise => PairingPromise
  BY DEF PairingPromise
<1> QED
  BY <1>1, <1>2, <1>3, <1>4, OnePart, PTL DEF Scouts!ScoutSpec
-----------------------------------------------------------------------------
(* The configuration file.  The log, as a sequence: *)

LogEntry == [by : Proc, add : SUBSET Configs!Item, cut : SUBSET Configs!Item,
             heard : Nat, blind : BOOLEAN]

Speaks(l, i, x) == x \in l[i].add \cup l[i].cut

Undoes(l, j, i) == l[j].blind \/ (l[j].by # l[i].by /\ l[j].heard < i)

\* The i-th write is the last one about x, of the first h.
LastOf(l, i, x, h) == i \in 1..h /\ Speaks(l, i, x) /\ \A j \in (i + 1)..h : ~Speaks(l, j, x)

NoneOf(l, x, h) == \A i \in 1..h : ~Speaks(l, i, x)

\* Contents S say of x what the first h writes make of it.
Fits(l, from, S, x, h) ==
    \/ \E i \in 1..h :
         /\ LastOf(l, i, x, h)
         /\ (x \in S <=> x \in l[i].add) \/ \E j \in (i + 1)..h : Undoes(l, j, i)
    \/ /\ NoneOf(l, x, h)
       /\ (x \in S <=> x \in from) \/ \E j \in 1..h : l[j].blind

LEMMA FitsAlike ==
    ASSUME NEW l, NEW from, NEW x, NEW h, NEW S, NEW T,
           Fits(l, from, S, x, h), x \in S <=> x \in T
    PROVE  Fits(l, from, T, x, h)
BY DEF Fits

LEMMA AppendKeeps ==
    ASSUME NEW l \in Seq(LogEntry), NEW e \in LogEntry
    PROVE  /\ Append(l, e) \in Seq(LogEntry) /\ Len(Append(l, e)) = Len(l) + 1
           /\ \A i \in 1..Len(l) : Append(l, e)[i] = l[i]
           /\ Append(l, e)[Len(l) + 1] = e
OBVIOUS

LEMMA FitsStill ==
    ASSUME NEW l \in Seq(LogEntry), NEW e \in LogEntry, NEW h \in 0..Len(l),
           NEW from, NEW x, NEW S, Fits(l, from, S, x, h)
    PROVE  Fits(Append(l, e), from, S, x, h)
<1> DEFINE m == Append(l, e)
<1>1. Len(l) \in Nat
  OBVIOUS
<1>2. \A i \in 1..h : m[i] = l[i]
  BY <1>1, AppendKeeps
<1> HIDE DEF m
<1>3. \A i \in 1..h : Speaks(m, i, x) <=> Speaks(l, i, x)
  BY <1>2 DEF Speaks
<1>4. \A i, j \in 1..h : Undoes(m, j, i) <=> Undoes(l, j, i)
  BY <1>2 DEF Undoes
<1>5. \A i \in 1..h : (i + 1)..h \subseteq 1..h
  OBVIOUS
<1>6. ASSUME NoneOf(l, x, h), (x \in S <=> x \in from) \/ \E j \in 1..h : l[j].blind
      PROVE  Fits(m, from, S, x, h)
  <2>1. NoneOf(m, x, h)
    BY <1>3, <1>6 DEF NoneOf
  <2>2. (x \in S <=> x \in from) \/ \E j \in 1..h : m[j].blind
    BY <1>2, <1>6
  <2> QED
    BY <2>1, <2>2 DEF Fits
<1>7. ASSUME NEW i \in 1..h, LastOf(l, i, x, h),
             (x \in S <=> x \in l[i].add) \/ \E j \in (i + 1)..h : Undoes(l, j, i)
      PROVE  Fits(m, from, S, x, h)
  <2>1. LastOf(m, i, x, h)
    BY <1>3, <1>5, <1>7 DEF LastOf
  <2>2. (x \in S <=> x \in m[i].add) \/ \E j \in (i + 1)..h : Undoes(m, j, i)
    BY <1>2, <1>4, <1>5, <1>7
  <2> QED
    BY <2>1, <2>2 DEF Fits
<1>8. Fits(m, from, S, x, h)
  <2>1. Fits(l, from, S, x, h)
    OBVIOUS
  <2> QED
    BY <1>6, <1>7, <2>1 DEF Fits
<1> QED
  BY <1>8 DEF m

\* A write e of contents S, by one who has kept C of what it read after e.heard writes,
\* fits the log that it lengthens.
LEMMA WriteFits ==
    ASSUME NEW l \in Seq(LogEntry), NEW e \in LogEntry, NEW from, NEW x, NEW S, NEW C,
           e.heard <= Len(l),
           NoneOf(l, x, Len(l)) \/ \E i \in 1..Len(l) : LastOf(l, i, x, Len(l)),
           x \in e.add \cup e.cut => (x \in S <=> x \in e.add),
           x \notin e.add \cup e.cut => (x \in S <=> x \in C),
           \A i \in 1..Len(l) : i > e.heard /\ l[i].by = e.by /\ Speaks(l, i, x)
                                  => (x \in C <=> x \in l[i].add),
           \/ e.blind
           \/ x \in e.add \cup e.cut
           \/ \E i \in 1..Len(l) : i > e.heard /\ l[i].by = e.by /\ Speaks(l, i, x)
           \/ Fits(l, from, C, x, e.heard)
    PROVE  Fits(Append(l, e), from, S, x, Len(l) + 1)
<1> DEFINE m == Append(l, e)  n == Len(l)
<1>1. n \in Nat /\ e.heard \in Nat
  BY DEF LogEntry
<1>2. (\A i \in 1..n : m[i] = l[i]) /\ m[n + 1] = e
  BY <1>1, AppendKeeps
<1> HIDE DEF m, n
<1>3. /\ \A i \in 1..n : Speaks(m, i, x) <=> Speaks(l, i, x)
      /\ Speaks(m, n + 1, x) <=> x \in e.add \cup e.cut
  BY <1>2 DEF Speaks
<1>4. ASSUME x \in e.add \cup e.cut PROVE Fits(m, from, S, x, n + 1)
  <2>1. n + 1 \in 1..(n + 1) /\ ((n + 1) + 1)..(n + 1) = {}
    BY <1>1
  <2>2. LastOf(m, n + 1, x, n + 1)
    BY <1>3, <1>4, <2>1 DEF LastOf
  <2> QED
    BY <1>2, <1>4, <2>1, <2>2 DEF Fits
<1>5. ASSUME x \notin e.add \cup e.cut, NoneOf(l, x, n) PROVE Fits(m, from, S, x, n + 1)
  <2>1. NoneOf(m, x, n + 1)
    BY <1>1, <1>3, <1>5 DEF NoneOf
  <2>2. CASE e.blind
    BY <1>1, <1>2, <2>1, <2>2 DEF Fits
  <2>3. CASE Fits(l, from, C, x, e.heard)
    <3>1. ~\E i \in 1..e.heard : LastOf(l, i, x, e.heard)
      BY <1>1, <1>5 DEF LastOf, NoneOf, n
    <3>2. (x \in C <=> x \in from) \/ \E j \in 1..e.heard : l[j].blind
      BY <2>3, <3>1 DEF Fits
    <3>3. (x \in S <=> x \in from) \/ \E j \in 1..(n + 1) : m[j].blind
      <4>1. 1..e.heard \subseteq 1..n /\ 1..n \subseteq 1..(n + 1)
        BY <1>1 DEF n
      <4> QED
        BY <1>2, <1>5, <3>2, <4>1
    <3> QED
      BY <2>1, <3>3 DEF Fits
  <2> QED
    BY <1>5, <2>2, <2>3 DEF NoneOf, n
<1>6. ASSUME x \notin e.add \cup e.cut, NEW i \in 1..n, LastOf(l, i, x, n)
      PROVE  Fits(m, from, S, x, n + 1)
  <2>1. i \in 1..(n + 1) /\ n + 1 \in (i + 1)..(n + 1) /\ (i + 1)..n \subseteq 1..n
    BY <1>1
  <2>2. \A j \in (i + 1)..(n + 1) : j = n + 1 \/ j \in (i + 1)..n
    BY <1>1
  <2>3. LastOf(m, i, x, n + 1)
    BY <1>3, <1>6, <2>1, <2>2 DEF LastOf
  <2>4. ASSUME e.blind \/ (i > e.heard /\ l[i].by # e.by) PROVE Undoes(m, n + 1, i)
    BY <1>1, <1>2, <2>4 DEF Undoes
  <2>5. CASE e.blind
    BY <2>1, <2>3, <2>4, <2>5 DEF Fits
  <2>6. CASE i > e.heard /\ l[i].by # e.by
    BY <2>1, <2>3, <2>4, <2>6 DEF Fits
  <2>7. CASE i > e.heard /\ l[i].by = e.by
    <3>1. x \in S <=> x \in m[i].add
      BY <1>2, <1>6, <2>7 DEF LastOf, n
    <3> QED
      BY <2>1, <2>3, <3>1 DEF Fits
  <2>8. CASE ~e.blind /\ i <= e.heard
    <3>1. ~\E j \in 1..n : j > e.heard /\ l[j].by = e.by /\ Speaks(l, j, x)
      BY <1>1, <1>6, <2>8 DEF LastOf
    <3>2. Fits(l, from, C, x, e.heard)
      BY <1>6, <2>8, <3>1 DEF n
    <3>3. ~NoneOf(l, x, e.heard)
      BY <1>1, <1>6, <2>8 DEF NoneOf, LastOf
    <3>4. PICK k \in 1..e.heard : /\ LastOf(l, k, x, e.heard)
                                  /\ \/ x \in C <=> x \in l[k].add
                                     \/ \E j \in (k + 1)..e.heard : Undoes(l, j, k)
      BY <3>2, <3>3 DEF Fits
    <3>5. k = i
      <4>1. k \in 1..n /\ i \in 1..e.heard
        BY <1>1, <2>8 DEF n
      <4>2. ~(k < i)
        BY <1>1, <1>6, <3>4, <4>1 DEF LastOf
      <4>3. ~(i < k)
        BY <1>1, <1>6, <3>4, <4>1 DEF LastOf
      <4> QED
        BY <1>1, <4>1, <4>2, <4>3
    <3>6. (x \in S <=> x \in m[i].add) \/ \E j \in (i + 1)..(n + 1) : Undoes(m, j, i)
      <4>1. CASE x \in C <=> x \in l[i].add
        BY <1>2, <1>6, <4>1
      <4>2. CASE \E j \in (i + 1)..e.heard : Undoes(l, j, i)
        <5>1. \A j \in (i + 1)..e.heard : j \in (i + 1)..n /\ j \in (i + 1)..(n + 1)
          <6>1. e.heard <= n /\ i \in Nat
            BY <1>1 DEF n
          <6> QED
            BY <1>1, <6>1
        <5>2. \A j \in (i + 1)..n : Undoes(m, j, i) <=> Undoes(l, j, i)
          BY <1>2, <2>1 DEF Undoes
        <5> QED
          BY <4>2, <5>1, <5>2
      <4> QED
        BY <3>4, <3>5, <4>1, <4>2
    <3> QED
      BY <2>1, <2>3, <3>6 DEF Fits
  <2> QED
    BY <1>1, <2>5, <2>6, <2>7, <2>8
<1>7. Fits(m, from, S, x, n + 1)
  BY <1>4, <1>5, <1>6 DEF n
<1> QED
  BY <1>7 DEF m, n
LEMMA RecordGrows ==
    ASSUME NEW l \in Seq(LogEntry), NEW e \in LogEntry, NEW x,
           NoneOf(l, x, Len(l)) \/ \E i \in 1..Len(l) : LastOf(l, i, x, Len(l))
    PROVE  \/ NoneOf(Append(l, e), x, Len(l) + 1)
           \/ \E i \in 1..(Len(l) + 1) : LastOf(Append(l, e), i, x, Len(l) + 1)
<1> DEFINE m == Append(l, e)  n == Len(l)
<1>1. n \in Nat
  OBVIOUS
<1>2. (\A i \in 1..n : m[i] = l[i]) /\ m[n + 1] = e
  BY <1>1, AppendKeeps
<1> HIDE DEF m, n
<1>3. \A i \in 1..n : Speaks(m, i, x) <=> Speaks(l, i, x)
  BY <1>2 DEF Speaks
<1>4. ASSUME Speaks(m, n + 1, x) PROVE LastOf(m, n + 1, x, n + 1)
  BY <1>1, <1>4 DEF LastOf
<1>5. ASSUME ~Speaks(m, n + 1, x), NoneOf(l, x, n) PROVE NoneOf(m, x, n + 1)
  BY <1>1, <1>3, <1>5 DEF NoneOf
<1>6. ASSUME ~Speaks(m, n + 1, x), NEW i \in 1..n, LastOf(l, i, x, n)
      PROVE  LastOf(m, i, x, n + 1)
  BY <1>1, <1>3, <1>6 DEF LastOf
<1>7. n + 1 \in 1..(n + 1) /\ 1..n \subseteq 1..(n + 1)
  BY <1>1
<1>8. NoneOf(m, x, n + 1) \/ \E i \in 1..(n + 1) : LastOf(m, i, x, n + 1)
  BY <1>4, <1>5, <1>6, <1>7 DEF n
<1> QED
  BY <1>8 DEF m, n

\* The state.
Changes == [add : SUBSET (Listed \cup Oracle), cut : SUBSET Listed]

Writes == {Configs!Idle} \cup [for : {"save", "migrate"}, at : {"open", "fill"}]

ConfigTypes ==
    /\ disk \in [parsed : BOOLEAN, says : SUBSET Configs!Item]
    /\ cache \in [Proc -> {None} \cup SUBSET Configs!Item]
    /\ write \in [Proc -> Writes]
    /\ change \in [Proc -> Changes]
    /\ healed \subseteq Proc /\ blind \subseteq Proc /\ initial \subseteq Configs!Item
    /\ heard \in [Proc -> Nat]
    /\ log \in Seq(LogEntry)

\* What p has written since it read the file, its copy being kept.
Own(p, i) == i \in 1..Len(log) /\ i > heard[p] /\ log[i].by = p

\* A copy says what the file said when it was read, but for a migration: of that, only the
\* write of the migration comes after it in the log, if it has been written.
Copied(p) ==
    cache[p] # None =>
      /\ heard[p] <= Len(log)
      /\ p \in healed \/ (\E i \in 1..Len(log) : Own(p, i)) =>
           Marker \in cache[p] /\ Old \notin cache[p]
      /\ \A i \in 1..Len(log) : Own(p, i) => log[i].add = {Marker} /\ log[i].cut = {Old}
      /\ \A x \in Configs!Item \ Fleet :
           \/ p \in blind
           \/ x \in {Old, Marker} /\ (p \in healed \/ \E i \in 1..Len(log) : Own(p, i))
           \/ Fits(log, initial, cache[p], x, heard[p])

Unwritten(p) ==
    /\ write[p] = Configs!Idle => change[p] = Configs!Nothing
    /\ write[p] # Configs!Idle \/ p \in healed => cache[p] # None
    /\ write[p].for = "migrate" => p \in healed /\ change[p] = Configs!Nothing

Recorded ==
    \A x \in Configs!Item : \/ NoneOf(log, x, Len(log))
                            \/ \E i \in 1..Len(log) : LastOf(log, i, x, Len(log))

OnDisk ==
    disk.parsed => \A x \in Configs!Item \ Fleet : Fits(log, initial, disk.says, x, Len(log))

ConfigInv == ConfigTypes /\ Recorded /\ OnDisk /\ \A p \in Proc : Copied(p) /\ Unwritten(p)

LEMMA ConfigStarts ==
    ASSUME Configs!ConfigInit PROVE ConfigInv
<1> USE DEF Configs!ConfigInit
<1>1. log = <<>> /\ Len(log) = 0
  OBVIOUS
<1>2. ConfigTypes
  BY PartsConstants DEF ConfigTypes, Configs!Whole, Configs!Item, Writes, Changes, Configs!Nothing
<1>3. \A x : NoneOf(log, x, Len(log))
  BY <1>1 DEF NoneOf
<1>4. OnDisk
  BY <1>1, <1>3 DEF OnDisk, Fits, Configs!Whole
<1>5. \A p \in Proc : Copied(p) /\ Unwritten(p)
  BY DEF Copied, Unwritten, Configs!Idle
<1> QED
  BY <1>2, <1>3, <1>4, <1>5 DEF ConfigInv, Recorded

LEMMA ConfigPromises ==
    ASSUME ConfigInv PROVE Configs!FileSaysWhatWasSaved
<1> SUFFICES ASSUME disk.parsed, NEW x \in Configs!Item \ Fleet
             PROVE  \/ \E i \in DOMAIN log :
                         /\ Configs!About(i, x)
                         /\ \A j \in DOMAIN log : j > i => ~Configs!About(j, x)
                         /\ \/ x \in disk.says <=> x \in log[i].add
                            \/ \E j \in DOMAIN log : j > i /\ Configs!MayUndo(j, i)
                    \/ /\ \A i \in DOMAIN log : ~Configs!About(i, x)
                       /\ \/ x \in disk.says <=> x \in initial
                          \/ \E j \in DOMAIN log : log[j].blind
  BY DEF Configs!FileSaysWhatWasSaved
<1>1. Fits(log, initial, disk.says, x, Len(log))
  BY DEF ConfigInv, OnDisk
<1>2. DOMAIN log = 1..Len(log) /\ Len(log) \in Nat
  BY DEF ConfigInv, ConfigTypes
<1>3. \A i : Configs!About(i, x) <=> Speaks(log, i, x)
  BY DEF Configs!About, Speaks
<1>4. \A i, j : Configs!MayUndo(j, i) <=> Undoes(log, j, i)
  BY DEF Configs!MayUndo, Undoes
<1>5. CASE NoneOf(log, x, Len(log))
  <2>1. ~\E i \in 1..Len(log) : LastOf(log, i, x, Len(log))
    BY <1>5 DEF NoneOf, LastOf
  <2> QED
    BY <1>1, <1>2, <1>3, <1>5, <2>1 DEF Fits, NoneOf
<1>6. CASE ~NoneOf(log, x, Len(log))
  <2>1. PICK i \in 1..Len(log) :
           /\ LastOf(log, i, x, Len(log))
           /\ (x \in disk.says <=> x \in log[i].add) \/ \E j \in (i + 1)..Len(log) : Undoes(log, j, i)
    BY <1>1, <1>6 DEF Fits
  <2>2. Configs!About(i, x) /\ \A j \in DOMAIN log : j > i => ~Configs!About(j, x)
    BY <1>2, <1>3, <2>1 DEF LastOf
  <2>3. \A j \in (i + 1)..Len(log) : j \in DOMAIN log /\ j > i
    BY <1>2
  <2> QED
    BY <1>2, <1>4, <2>1, <2>2, <2>3
<1> QED
  BY <1>5, <1>6
\* What a step leaves alone of q's copy and pending write stands.
LEMMA OthersStand ==
    ASSUME NEW q \in Proc, Copied(q), Unwritten(q), UNCHANGED <<log, initial>>,
           cache'[q] = cache[q], write'[q] = write[q], change'[q] = change[q],
           heard'[q] = heard[q], q \in healed' <=> q \in healed, q \in blind' <=> q \in blind
    PROVE  Copied(q)' /\ Unwritten(q)'
BY DEF Copied, Unwritten, Own

LEMMA LoadStep ==
    ASSUME ConfigInv, NEW p \in Proc, Configs!LoadConfig(p) PROVE ConfigInv'
<1> DEFINE items == IF disk.parsed THEN disk.says ELSE {}
           heals == Old \in items /\ Marker \notin items
<1>1. /\ items \in SUBSET Configs!Item /\ Marker \in Configs!Item /\ Old \in Configs!Item
      /\ Old # Marker /\ Old \notin Fleet /\ Marker \notin Fleet
  BY PartsConstants DEF ConfigInv, ConfigTypes, Configs!Item
<1>2. /\ cache[p] = None /\ UNCHANGED <<disk, change, initial, log>>
      /\ heard' = [heard EXCEPT ![p] = Len(log)]
      /\ blind' = IF disk.parsed THEN blind \ {p} ELSE blind \cup {p}
  BY DEF Configs!LoadConfig
<1>3. CASE heals
  <2>1. /\ cache' = [cache EXCEPT ![p] = (items \ {Old}) \cup {Marker}]
        /\ write' = [write EXCEPT ![p] = [for |-> "migrate", at |-> "open"]]
        /\ healed' = healed \cup {p}
    BY <1>3 DEF Configs!LoadConfig, Configs!Applied, Configs!Migration
  <2>2. ConfigTypes'
    BY <1>1, <1>2, <2>1 DEF ConfigInv, ConfigTypes, Writes
  <2>3. cache'[p] = (items \ {Old}) \cup {Marker} /\ heard'[p] = Len(log) /\ p \in healed'
    BY <1>2, <2>1 DEF ConfigInv, ConfigTypes
  <2>4. Copied(p)'
    <3>1. ~\E i \in 1..Len(log') : Own(p, i)'
      BY <1>2, <2>3 DEF Own, ConfigInv, ConfigTypes
    <3>2. ASSUME NEW x \in Configs!Item \ Fleet, x \notin {Old, Marker}, p \notin blind'
          PROVE  Fits(log', initial', cache'[p], x, heard'[p])
      <4>1. disk.parsed /\ (x \in disk.says <=> x \in cache'[p])
        BY <1>2, <2>3, <3>2
      <4>2. Fits(log, initial, disk.says, x, Len(log))
        BY <4>1 DEF ConfigInv, OnDisk
      <4> QED
        BY <1>2, <2>3, <4>1, <4>2, FitsAlike
    <3>3. heard'[p] <= Len(log')
      BY <1>2, <2>3 DEF ConfigInv, ConfigTypes
    <3> QED
      BY <1>1, <2>3, <3>1, <3>2, <3>3 DEF Copied
  <2>5. Unwritten(p)'
    <3>1. change[p] = Configs!Nothing
      BY <1>2 DEF ConfigInv, Unwritten
    <3>2. write'[p] = [for |-> "migrate", at |-> "open"] /\ cache'[p] # None
      BY <1>1, <2>1, <2>3, PartsConstants DEF ConfigInv, ConfigTypes
    <3>3. write'[p] # Configs!Idle
      BY <3>2 DEF Configs!Idle
    <3> QED
      BY <1>2, <2>3, <3>1, <3>2, <3>3 DEF Unwritten
  <2>6. ASSUME NEW q \in Proc, q # p PROVE Copied(q)' /\ Unwritten(q)'
    <3>1. /\ cache'[q] = cache[q] /\ write'[q] = write[q] /\ heard'[q] = heard[q]
          /\ (q \in healed' <=> q \in healed) /\ (q \in blind' <=> q \in blind)
      BY <1>2, <2>1, <2>6 DEF ConfigInv, ConfigTypes
    <3> QED
      BY <1>2, <3>1, OthersStand DEF ConfigInv
  <2> QED
    BY <1>2, <2>2, <2>4, <2>5, <2>6 DEF ConfigInv, Recorded, OnDisk
<1>4. CASE ~heals
  <2>1. cache' = [cache EXCEPT ![p] = items \cup Fleet] /\ UNCHANGED <<write, healed>>
    BY <1>4 DEF Configs!LoadConfig, Configs!WithFleet
  <2>2. ConfigTypes'
    BY <1>1, <1>2, <2>1 DEF ConfigInv, ConfigTypes, Configs!Item
  <2>3. cache'[p] = items \cup Fleet /\ heard'[p] = Len(log)
    BY <1>2, <2>1 DEF ConfigInv, ConfigTypes
  <2>4. write[p] = Configs!Idle
    BY <1>2 DEF ConfigInv, Unwritten
  <2>5. ~\E i \in 1..Len(log') : Own(p, i)'
    BY <1>2, <2>3 DEF Own, ConfigInv, ConfigTypes
  <2>6. ASSUME NEW x \in Configs!Item \ Fleet, p \notin blind'
        PROVE  Fits(log', initial', cache'[p], x, heard'[p])
    <3>1. disk.parsed /\ (x \in disk.says <=> x \in cache'[p])
      BY <1>2, <2>3, <2>6
    <3>2. Fits(log, initial, disk.says, x, Len(log))
      BY <3>1 DEF ConfigInv, OnDisk
    <3> QED
      BY <1>2, <2>3, <3>1, <3>2, FitsAlike
  <2>7. heard'[p] <= Len(log')
    BY <1>2, <2>3 DEF ConfigInv, ConfigTypes
  <2>8. p \notin healed
    BY <1>2 DEF ConfigInv, Unwritten
  <2>9. Copied(p)'
    BY <2>1, <2>5, <2>6, <2>7, <2>8 DEF Copied
  <2>10. Unwritten(p)'
    BY <1>2, <2>1, <2>4 DEF ConfigInv, Unwritten, Configs!Idle
  <2>11. ASSUME NEW q \in Proc, q # p PROVE Copied(q)' /\ Unwritten(q)'
    <3>1. /\ cache'[q] = cache[q] /\ heard'[q] = heard[q] /\ (q \in blind' <=> q \in blind)
      BY <1>2, <2>1, <2>11 DEF ConfigInv, ConfigTypes
    <3> QED
      BY <1>2, <2>1, <3>1, OthersStand DEF ConfigInv
  <2> QED
    BY <1>2, <2>1, <2>2, <2>8, <2>9, <2>10, <2>11 DEF ConfigInv, Recorded, OnDisk
<1> QED
  BY <1>3, <1>4
LEMMA SaveStep ==
    ASSUME ConfigInv, NEW p \in Proc, NEW add \in SUBSET (Listed \cup Oracle),
           NEW cut \in SUBSET Listed, Configs!Save(p, add, cut)
    PROVE  ConfigInv'
<1>1. /\ write[p] = Configs!Idle /\ cache[p] # None
      /\ write' = [write EXCEPT ![p] = [for |-> "save", at |-> "open"]]
      /\ change' = [change EXCEPT ![p] = [add |-> add, cut |-> cut]]
      /\ UNCHANGED <<disk, cache, healed, initial, heard, blind, log>>
  BY DEF Configs!Save
<1>2. ConfigTypes'
  BY <1>1 DEF ConfigInv, ConfigTypes, Writes, Changes
<1>3. write'[p] = [for |-> "save", at |-> "open"] /\ write'[p] # Configs!Idle
  BY <1>1 DEF ConfigInv, ConfigTypes, Configs!Idle
<1>4. Unwritten(p)'
  BY <1>1, <1>3 DEF ConfigInv, Unwritten
<1>5. Copied(p)'
  BY <1>1 DEF ConfigInv, Copied, Own
<1>6. ASSUME NEW q \in Proc, q # p PROVE Copied(q)' /\ Unwritten(q)'
  <2>1. write'[q] = write[q] /\ change'[q] = change[q]
    BY <1>1, <1>6 DEF ConfigInv, ConfigTypes
  <2> QED
    BY <1>1, <2>1, OthersStand DEF ConfigInv
<1> QED
  BY <1>1, <1>2, <1>4, <1>5, <1>6 DEF ConfigInv, Recorded, OnDisk

LEMMA TruncateStep ==
    ASSUME ConfigInv, NEW p \in Proc, Configs!Truncate(p) PROVE ConfigInv'
<1>1. /\ write[p].at = "open" /\ write' = [write EXCEPT ![p].at = "fill"]
      /\ disk' = Configs!Empty
      /\ UNCHANGED <<cache, change, healed, initial, heard, blind, log>>
  BY DEF Configs!Truncate
<1>2. /\ write[p] \in Writes /\ write[p] # Configs!Idle
      /\ write'[p] = [write[p] EXCEPT !.at = "fill"] /\ write' \in [Proc -> Writes]
  BY <1>1 DEF ConfigInv, ConfigTypes, Writes, Configs!Idle
<1>3. write'[p].for = write[p].for /\ write'[p] # Configs!Idle
  BY <1>2 DEF Writes, Configs!Idle
<1>4. Configs!Empty \in [parsed : BOOLEAN, says : SUBSET Configs!Item] /\ ~Configs!Empty.parsed
  BY DEF Configs!Empty
<1>5. ConfigTypes' /\ OnDisk'
  BY <1>1, <1>2, <1>4 DEF ConfigInv, ConfigTypes, OnDisk
<1>6. Copied(p)' /\ Unwritten(p)'
  <2>1. Copied(p)'
    BY <1>1 DEF ConfigInv, Copied, Own
  <2> QED
    BY <1>1, <1>2, <1>3, <2>1 DEF ConfigInv, Unwritten
<1>7. ASSUME NEW q \in Proc, q # p PROVE Copied(q)' /\ Unwritten(q)'
  <2>1. write'[q] = write[q]
    BY <1>1, <1>7 DEF ConfigInv, ConfigTypes
  <2> QED
    BY <1>1, <2>1, OthersStand DEF ConfigInv
<1> QED
  BY <1>1, <1>5, <1>6, <1>7 DEF ConfigInv, Recorded

LEMMA WriteFailsStep ==
    ASSUME ConfigInv, NEW p \in Proc, Configs!WriteFails(p) PROVE ConfigInv'
<1>1. /\ write[p] # Configs!Idle /\ disk' \in {disk, Configs!Junk}
      /\ cache' = [cache EXCEPT ![p] = IF write[p].for = "save" THEN cache[p]
                                       ELSE cache[p] \cup Fleet]
      /\ write' = [write EXCEPT ![p] = Configs!Idle]
      /\ change' = [change EXCEPT ![p] = Configs!Nothing]
      /\ UNCHANGED <<healed, initial, heard, blind, log>>
  BY DEF Configs!WriteFails, Configs!WithFleet
<1>2. cache[p] # None /\ cache[p] \in SUBSET Configs!Item
  BY <1>1 DEF ConfigInv, ConfigTypes, Unwritten
<1>3. /\ cache'[p] \in SUBSET Configs!Item /\ cache'[p] # None
      /\ \A x \in Configs!Item \ Fleet : x \in cache'[p] <=> x \in cache[p]
      /\ \A q \in Proc : q # p => cache'[q] = cache[q]
      /\ cache' \in [Proc -> {None} \cup SUBSET Configs!Item]
  <2>1. /\ cache[p] \cup Fleet \in SUBSET Configs!Item
    BY <1>2 DEF Configs!Item
  <2> QED
    BY <1>1, <1>2, <2>1, PartsConstants DEF ConfigInv, ConfigTypes
<1>4. /\ write'[p] = Configs!Idle /\ change'[p] = Configs!Nothing
      /\ write' \in [Proc -> Writes] /\ change' \in [Proc -> Changes]
      /\ \A q \in Proc : q # p => write'[q] = write[q] /\ change'[q] = change[q]
  BY <1>1 DEF ConfigInv, ConfigTypes, Writes, Changes, Configs!Nothing
<1>5. /\ Configs!Junk \in [parsed : BOOLEAN, says : SUBSET Configs!Item]
      /\ ~Configs!Junk.parsed
  BY DEF Configs!Junk, Configs!Item
<1>6. ConfigTypes' /\ OnDisk'
  <2>1. ConfigTypes'
    BY <1>1, <1>3, <1>4, <1>5 DEF ConfigInv, ConfigTypes
  <2> QED
    BY <1>1, <1>5, <2>1 DEF ConfigInv, OnDisk
<1>7. Copied(p)'
  <2>1. /\ Old \in Configs!Item \ Fleet /\ Marker \in Configs!Item \ Fleet
    BY PartsConstants DEF Configs!Item
  <2>2. \A i \in 1..Len(log) : Own(p, i)' <=> Own(p, i)
    BY <1>1 DEF Own
  <2>3. ASSUME NEW x \in Configs!Item \ Fleet, Fits(log, initial, cache[p], x, heard[p])
        PROVE  Fits(log', initial', cache'[p], x, heard'[p])
    BY <1>1, <1>3, <2>3, FitsAlike
  <2> QED
    BY <1>1, <1>2, <1>3, <2>1, <2>2, <2>3 DEF ConfigInv, Copied
<1>8. Unwritten(p)'
  BY <1>1, <1>3, <1>4 DEF Unwritten, Configs!Idle
<1>9. ASSUME NEW q \in Proc, q # p PROVE Copied(q)' /\ Unwritten(q)'
  BY <1>1, <1>3, <1>4, <1>9, OthersStand DEF ConfigInv
<1> QED
  BY <1>1, <1>6, <1>7, <1>8, <1>9 DEF ConfigInv, Recorded

LEMMA ExitStep ==
    ASSUME ConfigInv, NEW p \in Proc, Configs!Exit(p) PROVE ConfigInv'
<1>1. /\ cache' = [cache EXCEPT ![p] = None] /\ healed' = healed \ {p}
      /\ write' = [write EXCEPT ![p] = Configs!Idle]
      /\ change' = [change EXCEPT ![p] = Configs!Nothing]
      /\ UNCHANGED <<disk, initial, heard, blind, log>>
  BY DEF Configs!Exit
<1>2. /\ cache'[p] = None /\ write'[p] = Configs!Idle /\ change'[p] = Configs!Nothing
      /\ \A q \in Proc : q # p => /\ cache'[q] = cache[q] /\ write'[q] = write[q]
                                  /\ change'[q] = change[q]
  BY <1>1 DEF ConfigInv, ConfigTypes
<1>3. ConfigTypes'
  BY <1>1 DEF ConfigInv, ConfigTypes, Writes, Changes, Configs!Nothing
<1>4. Copied(p)' /\ Unwritten(p)'
  BY <1>1, <1>2 DEF Copied, Unwritten, Configs!Idle
<1>5. ASSUME NEW q \in Proc, q # p PROVE Copied(q)' /\ Unwritten(q)'
  BY <1>1, <1>2, <1>5, OthersStand DEF ConfigInv
<1> QED
  BY <1>1, <1>3, <1>4, <1>5 DEF ConfigInv, Recorded, OnDisk
LEMMA FillStep ==
    ASSUME ConfigInv, NEW p \in Proc, Configs!Fill(p) PROVE ConfigInv'
<1> DEFINE C == cache[p]
           S == Configs!Applied(C, change[p])
           e == [by |-> p, add |-> Configs!Saved(p).add, cut |-> Configs!Saved(p).cut,
                 heard |-> heard[p], blind |-> p \in blind]
           n == Len(log)
<1>1. /\ write[p].at = "fill"
      /\ disk' \in {Configs!Whole(S), Configs!Junk}
      /\ cache' = [cache EXCEPT ![p] = IF write[p].for = "save" THEN None ELSE C \cup Fleet]
      /\ log' = Append(log, e)
      /\ healed' = healed \ {p}
      /\ write' = [write EXCEPT ![p] = Configs!Idle]
      /\ change' = [change EXCEPT ![p] = Configs!Nothing]
      /\ UNCHANGED <<initial, heard, blind>>
  BY DEF Configs!Fill, Configs!WithFleet
<1>2. /\ Old \in Listed /\ Old # Marker /\ Old \notin Fleet /\ Marker \notin Fleet
      /\ Marker \notin Listed \cup Oracle
      /\ Old \in Configs!Item /\ Marker \in Configs!Item
  BY PartsConstants DEF Configs!Item
<1>3. /\ write[p] # Configs!Idle /\ write[p].for \in {"save", "migrate"}
      /\ C # None /\ C \in SUBSET Configs!Item
      /\ change[p].add \subseteq Listed \cup Oracle /\ change[p].cut \subseteq Listed
  <2>1. write[p] \in Writes /\ change[p] \in Changes
    BY DEF ConfigInv, ConfigTypes
  <2>2. write[p] # Configs!Idle /\ write[p].for \in {"save", "migrate"}
    BY <1>1, <2>1 DEF Writes, Configs!Idle
  <2>3. C # None /\ C \in SUBSET Configs!Item
    BY <2>2 DEF ConfigInv, ConfigTypes, Unwritten
  <2> QED
    BY <2>1, <2>2, <2>3 DEF Changes
<1>4. /\ p \in healed => /\ Configs!Saved(p).add = change[p].add \cup {Marker}
                         /\ Configs!Saved(p).cut = change[p].cut \cup ({Old} \ change[p].add)
      /\ p \notin healed => Configs!Saved(p) = change[p]
  BY DEF Configs!Saved, Configs!Migration
<1>5. S = (C \ change[p].cut) \cup change[p].add /\ S \in SUBSET Configs!Item
  BY <1>3 DEF Configs!Applied, Configs!Item
<1>6. e \in LogEntry /\ e.by = p /\ e.heard = heard[p] /\ (e.blind <=> p \in blind)
      /\ e.add = Configs!Saved(p).add /\ e.cut = Configs!Saved(p).cut
  <2>1. Configs!Saved(p).add \in SUBSET Configs!Item /\ Configs!Saved(p).cut \in SUBSET Configs!Item
    BY <1>2, <1>3, <1>4 DEF Configs!Item
  <2>2. heard[p] \in Nat /\ (p \in blind) \in BOOLEAN
    BY DEF ConfigInv, ConfigTypes
  <2>3. e \in LogEntry
    BY <2>1, <2>2, Zenon DEF LogEntry
  <2> QED
    BY <2>3
<1> HIDE DEF S, e
<1>7. /\ log \in Seq(LogEntry) /\ n \in Nat /\ heard[p] <= n
      /\ log' \in Seq(LogEntry) /\ Len(log') = n + 1
      /\ (\A i \in 1..n : log'[i] = log[i]) /\ log'[n + 1] = e
  <2>1. log \in Seq(LogEntry) /\ n \in Nat
    BY DEF ConfigInv, ConfigTypes
  <2>2. heard[p] <= n
    BY <1>3 DEF ConfigInv, Copied
  <2> QED
    BY <1>1, <1>6, <2>1, <2>2, AppendKeeps
<1>8. /\ \A i \in 1..n : Own(p, i) => log[i].add = {Marker} /\ log[i].cut = {Old}
      /\ p \in healed \/ (\E i \in 1..n : Own(p, i)) => Marker \in C /\ Old \notin C
  BY <1>3 DEF ConfigInv, Copied
<1>9. ASSUME NEW x \in Configs!Item \ Fleet PROVE Fits(log', initial, S, x, n + 1)
  <2>1. x \in e.add \cup e.cut => (x \in S <=> x \in e.add)
    <3>1. CASE p \in healed
      BY <1>2, <1>3, <1>4, <1>5, <1>6, <1>8, <3>1
    <3>2. CASE p \notin healed
      BY <1>4, <1>5, <1>6, <3>2
    <3> QED
      BY <3>1, <3>2
  <2>2. x \notin e.add \cup e.cut => (x \in S <=> x \in C)
    BY <1>4, <1>5, <1>6
  <2>3. ASSUME NEW i \in 1..n, i > e.heard, log[i].by = e.by, Speaks(log, i, x)
        PROVE  x \in C <=> x \in log[i].add
    <3>1. Own(p, i)
      BY <1>6, <2>3 DEF Own
    <3> QED
      BY <1>2, <1>8, <2>3, <3>1 DEF Speaks
  <2>4. \/ e.blind
        \/ x \in e.add \cup e.cut
        \/ \E i \in 1..n : i > e.heard /\ log[i].by = e.by /\ Speaks(log, i, x)
        \/ Fits(log, initial, C, x, e.heard)
    <3>1. \/ p \in blind
          \/ x \in {Old, Marker} /\ (p \in healed \/ \E i \in 1..n : Own(p, i))
          \/ Fits(log, initial, C, x, heard[p])
      BY <1>3 DEF ConfigInv, Copied
    <3>2. ASSUME x \in {Old, Marker}, p \in healed PROVE x \in e.add \cup e.cut
      BY <1>4, <1>6, <3>2
    <3>3. ASSUME x \in {Old, Marker}, NEW i \in 1..n, Own(p, i)
          PROVE  i > e.heard /\ log[i].by = e.by /\ Speaks(log, i, x)
      BY <1>6, <1>8, <3>3 DEF Own, Speaks
    <3> QED
      BY <1>6, <3>1, <3>2, <3>3
  <2>5. NoneOf(log, x, n) \/ \E i \in 1..n : LastOf(log, i, x, n)
    BY DEF ConfigInv, Recorded
  <2>6. e.heard <= n
    BY <1>6, <1>7
  <2>7. Fits(Append(log, e), initial, S, x, n + 1)
    BY <1>6, <1>7, <2>1, <2>2, <2>3, <2>4, <2>5, <2>6, WriteFits
  <2> QED
    BY <1>1, <2>7
<1>10. /\ write'[p] = Configs!Idle /\ change'[p] = Configs!Nothing
       /\ write' \in [Proc -> Writes] /\ change' \in [Proc -> Changes]
       /\ \A q \in Proc : q # p => /\ cache'[q] = cache[q] /\ write'[q] = write[q]
                                   /\ change'[q] = change[q]
  BY <1>1 DEF ConfigInv, ConfigTypes, Writes, Changes, Configs!Nothing
<1>11. /\ cache'[p] = IF write[p].for = "save" THEN None ELSE C \cup Fleet
       /\ C \cup Fleet \in SUBSET Configs!Item
       /\ cache' \in [Proc -> {None} \cup SUBSET Configs!Item]
  <2>1. C \cup Fleet \in SUBSET Configs!Item
    BY <1>3 DEF Configs!Item
  <2> QED
    BY <1>1, <2>1 DEF ConfigInv, ConfigTypes
<1>12. /\ Configs!Whole(S) \in [parsed : BOOLEAN, says : SUBSET Configs!Item]
       /\ Configs!Whole(S).says = S
       /\ Configs!Junk \in [parsed : BOOLEAN, says : SUBSET Configs!Item]
       /\ ~Configs!Junk.parsed
  BY <1>2, <1>5 DEF Configs!Whole, Configs!Junk
<1>13. ConfigTypes'
  BY <1>1, <1>7, <1>10, <1>11, <1>12 DEF ConfigInv, ConfigTypes
<1>14. OnDisk'
  BY <1>1, <1>7, <1>9, <1>12 DEF OnDisk
<1>15. Recorded'
  BY <1>1, <1>6, <1>7, RecordGrows DEF ConfigInv, Recorded
<1>16. ASSUME NEW q \in Proc, NEW x, NEW T, heard[q] <= n,
              Fits(log, initial, T, x, heard[q])
       PROVE  Fits(log', initial', T, x, heard'[q])
  <2>1. heard[q] \in 0..n
    BY <1>7, <1>16 DEF ConfigInv, ConfigTypes
  <2>2. Fits(Append(log, e), initial, T, x, heard[q])
    BY <1>6, <1>7, <1>16, <2>1, FitsStill
  <2> QED
    BY <1>1, <2>2
<1>17. ASSUME NEW q \in Proc, q # p PROVE Copied(q)' /\ Unwritten(q)'
  <2>1. Copied(q) /\ Unwritten(q) /\ (q \in healed' <=> q \in healed) /\ heard[q] \in Nat
    BY <1>1, <1>17 DEF ConfigInv, ConfigTypes
  <2>2. \A i \in 1..(n + 1) : Own(q, i)' <=> i \in 1..n /\ Own(q, i)
    <3>1. \A i \in 1..(n + 1) : i \in 1..n \/ i = n + 1
      BY <1>7
    <3>2. log'[n + 1].by # q
      BY <1>6, <1>7, <1>17
    <3> QED
      BY <1>1, <1>7, <3>1, <3>2 DEF Own
  <2>3. 1..n \subseteq 1..(n + 1)
    BY <1>7
  <2>4. Copied(q)'
    <3> SUFFICES ASSUME cache[q] # None PROVE Copied(q)'
      BY <1>10, <1>17 DEF Copied
    <3>1. heard'[q] <= Len(log')
      BY <1>1, <1>7, <2>1 DEF Copied
    <3>2. (\E i \in 1..Len(log') : Own(q, i)') <=> \E i \in 1..n : Own(q, i)
      BY <1>7, <2>2, <2>3
    <3>3. \A i \in 1..Len(log') : Own(q, i)' => log'[i].add = {Marker} /\ log'[i].cut = {Old}
      BY <1>7, <2>1, <2>2 DEF Copied
    <3>4. ASSUME NEW x \in Configs!Item \ Fleet, Fits(log, initial, cache[q], x, heard[q])
          PROVE  Fits(log', initial', cache'[q], x, heard'[q])
      BY <1>10, <1>16, <1>17, <2>1, <3>4 DEF Copied
    <3> QED
      BY <1>1, <1>10, <1>17, <2>1, <3>1, <3>2, <3>3, <3>4 DEF Copied
  <2>5. Unwritten(q)'
    BY <1>10, <1>17, <2>1 DEF Unwritten
  <2> QED
    BY <2>4, <2>5
<1>18. Copied(p)' /\ Unwritten(p)'
  <2>1. Unwritten(p)'
    BY <1>1, <1>10 DEF Unwritten, Configs!Idle
  <2>2. CASE write[p].for = "save"
    BY <1>11, <2>1, <2>2 DEF Copied
  <2>3. CASE write[p].for = "migrate"
    <3>1. p \in healed /\ change[p] = Configs!Nothing
      BY <2>3 DEF ConfigInv, Unwritten
    <3>2. e.add = {Marker} /\ e.cut = {Old}
      BY <1>4, <1>6, <3>1 DEF Configs!Nothing
    <3>3. cache'[p] = C \cup Fleet
      BY <1>11, <2>3
    <3>4. \A i \in 1..(n + 1) : Own(p, i)' => log'[i].add = {Marker} /\ log'[i].cut = {Old}
      <4>1. \A i \in 1..n : Own(p, i)' <=> Own(p, i)
        BY <1>1, <1>7 DEF Own
      <4>2. \A i \in 1..(n + 1) : i \in 1..n \/ i = n + 1
        BY <1>7
      <4> QED
        BY <1>7, <1>8, <3>2, <4>1, <4>2
    <3>5. \E i \in 1..Len(log') : Own(p, i)'
      <4>1. PICK i \in Nat : i = n + 1
        BY <1>7
      <4>2. i \in 1..Len(log') /\ i > heard'[p] /\ log'[i].by = p
        BY <1>1, <1>6, <1>7, <4>1 DEF ConfigInv, ConfigTypes
      <4> QED
        BY <4>2 DEF Own
    <3>6. ASSUME NEW x \in Configs!Item \ Fleet, Fits(log, initial, C, x, heard[p])
          PROVE  Fits(log', initial', cache'[p], x, heard'[p])
      <4>1. Fits(log', initial', C, x, heard'[p])
        BY <1>7, <1>16, <3>6
      <4> QED
        BY <3>3, <4>1, FitsAlike
    <3>7. \A x \in Configs!Item \ Fleet :
            p \in blind \/ x \in {Old, Marker} \/ Fits(log, initial, C, x, heard[p])
      BY <1>3 DEF ConfigInv, Copied
    <3>8. Marker \in cache'[p] /\ Old \notin cache'[p] /\ heard'[p] <= Len(log')
      <4>1. heard[p] \in Nat
        BY DEF ConfigInv, ConfigTypes
      <4> QED
        BY <1>1, <1>2, <1>7, <1>8, <3>1, <3>3, <4>1
    <3>9. Copied(p)'
      BY <1>1, <1>7, <3>4, <3>5, <3>6, <3>7, <3>8 DEF Copied
    <3> QED
      BY <2>1, <3>9
  <2> QED
    BY <1>3, <2>2, <2>3
<1> QED
  BY <1>13, <1>14, <1>15, <1>17, <1>18 DEF ConfigInv

LEMMA ConfigSteps ==
    ASSUME ConfigInv, [Configs!ConfigNext]_Configs!configVars PROVE ConfigInv'
<1>1. ASSUME NEW p \in Proc, NEW x \in Listed, Configs!Enlist(p, x) \/ Configs!Strike(p, x)
      PROVE  ConfigInv'
  <2>1. {x} \in SUBSET (Listed \cup Oracle) /\ {x} \in SUBSET Listed
        /\ {} \in SUBSET (Listed \cup Oracle) /\ {} \in SUBSET Listed
    OBVIOUS
  <2>2. Configs!Save(p, {x}, {}) \/ Configs!Save(p, {}, {x})
    BY <1>1 DEF Configs!Enlist, Configs!Strike
  <2> QED
    BY <2>1, <2>2, SaveStep
<1>2. ASSUME NEW p \in Proc, NEW a \in Oracle, Configs!RegisterAgent(p, a) PROVE ConfigInv'
  <2>1. {a} \in SUBSET (Listed \cup Oracle) /\ {} \in SUBSET Listed
    OBVIOUS
  <2>2. Configs!Save(p, {a}, {})
    BY <1>2 DEF Configs!RegisterAgent
  <2> QED
    BY <2>1, <2>2, SaveStep
<1>3. CASE UNCHANGED Configs!configVars
  <2>1. UNCHANGED <<disk, cache, write, change, healed, initial, heard, blind, log>>
    BY <1>3 DEF Configs!configVars
  <2>2. \A p \in Proc : Copied(p)' /\ Unwritten(p)'
    BY <2>1, OthersStand DEF ConfigInv
  <2> QED
    BY <2>1, <2>2 DEF ConfigInv, ConfigTypes, Recorded, OnDisk
<1> QED
  BY <1>1, <1>2, <1>3, LoadStep, TruncateStep, FillStep, WriteFailsStep, ExitStep
     DEF Configs!ConfigNext

\* The file says of every plugin, oracle and trigger what was saved of it last, but for
\* writers that had not seen that or could not read the file; for any processes, entries
\* and number of writes, wherever they fail or die.
THEOREM SavesStand ==
    /\ Configs!ConfigSpec => []Configs!FileSaysWhatWasSaved
    /\ Spec => []FileSaysWhatWasSaved
<1>1. Configs!ConfigInit => ConfigInv
  BY ConfigStarts
<1>2. ConfigInv /\ [Configs!ConfigNext]_Configs!configVars => ConfigInv'
  BY ConfigSteps
<1>3. ConfigInv => Configs!FileSaysWhatWasSaved
  BY ConfigPromises
<1>4. Configs!FileSaysWhatWasSaved => FileSaysWhatWasSaved
  BY DEF FileSaysWhatWasSaved
<1> QED
  BY <1>1, <1>2, <1>3, <1>4, OnePart, PTL DEF Configs!ConfigSpec
-----------------------------------------------------------------------------
(* The crash check of the engine. *)

\* An agent runs in the pane at i, or one has ended there since the last restart.
Met(i) == windows[i].runs = "agent" \/ windows[i].ended

\* The launch command has been typed at i, and the crash is not cleared yet.
Underway(i) == \E k \in Checker : checks[k].typed /\ Engines!Current(k, i)

OneCheck ==
    /\ \A j, k \in Checker : Engines!Busy(j) /\ Engines!Busy(k) => j = k
    /\ \A k \in Checker : checks[k].typed => Engines!Busy(k)

\* Of what a check is still to restart an agent has ended.
TodoEnded ==
    \A k \in Checker, i \in DOMAIN windows :
        i \in checks[k].todo => Underway(i) \/ windows[i].ended

\* So it has of what is marked crashed, and where the status knows an agent there was one.
StatusMet ==
    \A i \in DOMAIN windows : ~Underway(i) =>
        /\ Engines!WasRunning(state[i]) => Met(i)
        /\ state[i] # NoEntry /\ state[i].status = "crashed" => windows[i].ended

ReadAt(r, i, program) ==
    ~readings[r].outdated /\ i \in DOMAIN readings[r].runs /\ readings[r].runs[i] = program

\* A shell that was read where an agent was before, for the status or an earlier reading, is
\* one in which the agent has ended.
ReadingsMet ==
    \A r \in DOMAIN readings, i \in DOMAIN windows :
        /\ ReadAt(r, i, "agent") => Met(i)
        /\ ReadAt(r, i, "shell") /\ ~Underway(i) /\ Engines!WasRunning(state[i]) => windows[i].ended
        /\ \A q \in 1..(r - 1) : ReadAt(r, i, "shell") /\ ReadAt(q, i, "agent") => windows[i].ended

Watched == OneCheck /\ TodoEnded /\ StatusMet /\ ReadingsMet /\ ~unearned

EngineInv == Engines!EngineTypeOK /\ (excused \/ Watched)

LEMMA EngineStarts ==
    ASSUME Engines!EngineInit PROVE EngineInv
<1>1. Engines!EngineTypeOK
  <2>1. /\ windows = <<>> /\ readings = <<>> /\ sessions = 0 /\ longest = 0
        /\ unearned = FALSE /\ excused = FALSE
    BY DEF Engines!EngineInit
  <2>2. state \in [Engines!Index -> Engines!Entry \cup {NoEntry}]
    BY DEF Engines!EngineInit
  <2>3. checks \in [Checker -> [todo : SUBSET Engines!Index, typed : BOOLEAN]]
    BY DEF Engines!EngineInit, Engines!Idle
  <2>4. /\ <<>> \in Seq([runs : Engines!Program, ended : BOOLEAN]) /\ Len(<<>>) = 0
        /\ <<>> \in Seq([outdated : BOOLEAN, runs : Seq(Engines!Program)])
    OBVIOUS
  <2>5. Len(windows) = 0 /\ Len(readings) = 0 /\ MaxWindows \in Nat /\ MaxLooks \in Nat
    BY <2>1, PartsConstants
  <2>6. /\ Len(windows) <= longest /\ Len(readings) <= MaxLooks
        /\ sessions \in 0..longest /\ longest \in 0..MaxWindows
    BY <2>1, <2>5
  <2>7. unearned \in BOOLEAN /\ excused \in BOOLEAN
    BY <2>1
  <2>8. /\ windows \in Seq([runs : Engines!Program, ended : BOOLEAN])
        /\ readings \in Seq([outdated : BOOLEAN, runs : Seq(Engines!Program)])
    BY <2>1, <2>4
  <2> QED
    BY <2>2, <2>3, <2>6, <2>7, <2>8 DEF Engines!EngineTypeOK
<1>2. Watched
  BY DEF Engines!EngineInit, Watched, OneCheck, TodoEnded, StatusMet, ReadingsMet,
     Engines!Busy, Engines!Idle
<1> QED
  BY <1>1, <1>2 DEF EngineInv

LEMMA EnginePromises ==
    ASSUME EngineInv PROVE Engines!RestartsAreEarned
BY DEF EngineInv, Watched, Engines!RestartsAreEarned

Window == [runs : Engines!Program, ended : BOOLEAN]
Reading == [outdated : BOOLEAN, runs : Seq(Engines!Program)]

\* A function of 1..n is a sequence.
LEMMA FunctionIsSeq ==
    ASSUME NEW S, NEW n \in Nat, NEW f \in [1..n -> S]
    PROVE  f \in Seq(S) /\ Len(f) = n
OBVIOUS

\* The windows that remain have met at least what they had.
LEMMA WindowsKeep ==
    ASSUME Watched, UNCHANGED <<state, readings, checks, unearned>>,
           DOMAIN windows' \subseteq DOMAIN windows,
           \A i \in DOMAIN windows' : /\ windows[i].ended => windows'[i].ended
                                      /\ Met(i) => Met(i)'
    PROVE  Watched'
<1>1. \A i : Underway(i)' <=> Underway(i)
  BY DEF Underway, Engines!Current
<1>2. OneCheck'
  BY DEF Watched, OneCheck, Engines!Busy
<1>3. TodoEnded'
  BY <1>1 DEF Watched, TodoEnded
<1>4. StatusMet'
  BY <1>1 DEF Watched, StatusMet, Engines!WasRunning
<1>5. \A r, i, program : ReadAt(r, i, program)' <=> ReadAt(r, i, program)
  BY DEF ReadAt
<1>6. ReadingsMet'
  BY <1>1, <1>5 DEF Watched, ReadingsMet, Engines!WasRunning
<1> QED
  BY <1>2, <1>3, <1>4, <1>6 DEF Watched

LEMMA OpensStep ==
    ASSUME EngineInv, Engines!Opens PROVE EngineInv'
<1> DEFINE n == Len(windows) + 1
           w == [runs |-> "shell", ended |-> FALSE]
<1>1. /\ windows \in Seq(Window) /\ Len(windows) \in Nat /\ n \in Engines!Index
      /\ windows' = Append(windows, w) /\ w \in Window
  BY PartsConstants DEF EngineInv, Engines!EngineTypeOK, Engines!Opens, Window, Engines!Program, Engines!Index
<1>2. /\ windows' \in Seq(Window) /\ Len(windows') = n
      /\ \A i \in DOMAIN windows : windows'[i] = windows[i]
      /\ DOMAIN windows' = DOMAIN windows \cup {n}
  BY <1>1
<1>3. Engines!EngineTypeOK'
  BY <1>1, <1>2, PartsConstants DEF EngineInv, Engines!EngineTypeOK, Engines!Opens, Window
<1>4. ASSUME ~excused' PROVE Watched'
  <2>1. /\ Watched /\ state[n] = NoEntry
        /\ \A r \in DOMAIN readings : n \notin DOMAIN readings[r].runs
        /\ \A k \in Checker : n \notin checks[k].todo
        /\ UNCHANGED <<state, readings, checks, unearned>>
    BY <1>4 DEF EngineInv, Engines!Opens, Engines!Remembered
  <2>2. \A i : Underway(i)' <=> Underway(i)
    BY <2>1 DEF Underway, Engines!Current
  <2>3. OneCheck'
    BY <2>1 DEF Watched, OneCheck, Engines!Busy
  <2>4. TodoEnded'
    BY <1>2, <2>1, <2>2 DEF Watched, TodoEnded
  <2>5. \A i \in DOMAIN windows : Met(i)' <=> Met(i)
    BY <1>2 DEF Met
  <2>6. StatusMet'
    BY <1>2, <2>1, <2>2, <2>5 DEF Watched, StatusMet, Engines!WasRunning
  <2>7. \A r, i, program : ReadAt(r, i, program)' <=> ReadAt(r, i, program)
    BY <2>1 DEF ReadAt
  <2>8. \A r \in DOMAIN readings : \A program : ~ReadAt(r, n, program)
    BY <2>1 DEF ReadAt
  <2>9. ReadingsMet'
    BY <1>2, <2>1, <2>2, <2>5, <2>7, <2>8 DEF Watched, ReadingsMet, Engines!WasRunning
  <2> QED
    BY <2>1, <2>3, <2>4, <2>6, <2>9 DEF Watched
<1> QED
  BY <1>3, <1>4 DEF EngineInv

LEMMA ClosesStep ==
    ASSUME EngineInv, NEW i \in Engines!Index, Engines!Closes(i) PROVE EngineInv'
<1>1. windows \in Seq(Window) /\ Len(windows) \in Nat /\ i \in 1..Len(windows)
  BY DEF EngineInv, Engines!EngineTypeOK, Engines!Closes, Window
<1>2. windows' = [j \in 1..(Len(windows) - 1) |-> windows[IF j < i THEN j ELSE j + 1]]
  BY DEF Engines!Closes
<1>3. windows' \in [1..(Len(windows) - 1) -> Window] /\ Len(windows) - 1 \in Nat
  BY <1>1, <1>2
<1>4. windows' \in Seq(Window) /\ Len(windows') = Len(windows) - 1
  BY <1>3, FunctionIsSeq
<1>5. Engines!EngineTypeOK'
  BY <1>1, <1>4, PartsConstants DEF EngineInv, Engines!EngineTypeOK, Engines!Closes, Window
<1>6. ASSUME ~excused' PROVE Watched'
  <2>1. /\ Watched /\ ~(i < Len(windows))
        /\ UNCHANGED <<state, readings, checks, unearned>>
    BY <1>6 DEF EngineInv, Engines!Closes
  <2>2. \A j \in DOMAIN windows' : j \in DOMAIN windows /\ windows'[j] = windows[j]
    BY <1>1, <1>2, <2>1
  <2> QED
    BY <2>1, <2>2, WindowsKeep DEF Met
<1> QED
  BY <1>5, <1>6 DEF EngineInv

LEMMA BecomesStep ==
    ASSUME EngineInv, NEW i \in Engines!Index, NEW program \in Engines!Program,
           Engines!Becomes(i, program)
    PROVE  EngineInv'
<1> DEFINE w == [runs |-> program, ended |-> windows[i].ended \/ windows[i].runs = "agent"]
<1>1. /\ windows \in Seq(Window) /\ i \in DOMAIN windows
      /\ windows' = [windows EXCEPT ![i] = w] /\ w \in Window
      /\ "shell" \in {windows[i].runs, program} /\ windows[i].runs # program
  BY DEF EngineInv, Engines!EngineTypeOK, Engines!Becomes, Window
<1>2. /\ windows' \in Seq(Window) /\ Len(windows') = Len(windows) /\ DOMAIN windows' = DOMAIN windows
      /\ windows'[i] = w /\ \A j \in DOMAIN windows : j # i => windows'[j] = windows[j]
  BY <1>1
<1>3. Engines!EngineTypeOK'
  BY <1>2 DEF EngineInv, Engines!EngineTypeOK, Engines!Becomes, Window
<1>4. ASSUME ~excused' PROVE Watched'
  <2>1. Watched /\ UNCHANGED <<state, readings, checks, unearned>>
    BY <1>4 DEF EngineInv, Engines!Becomes
  <2>2. \A j \in DOMAIN windows' : /\ windows[j].ended => windows'[j].ended
                                   /\ Met(j) => Met(j)'
    BY <1>1, <1>2 DEF Met
  <2> QED
    BY <1>2, <2>1, <2>2, WindowsKeep
<1> QED
  BY <1>3, <1>4 DEF EngineInv

LEMMA CacheStep ==
    ASSUME EngineInv, Engines!CacheSessions PROVE EngineInv'
<1>1. Engines!EngineTypeOK'
  BY DEF EngineInv, Engines!EngineTypeOK, Engines!CacheSessions
<1>2. ASSUME Watched PROVE Watched'
  BY <1>2, WindowsKeep DEF Engines!CacheSessions, Met
<1> QED
  BY <1>1, <1>2 DEF EngineInv, Engines!CacheSessions

LEMMA DetectStep ==
    ASSUME EngineInv, Engines!Detect PROVE EngineInv'
<1>1. PICK answers \in BOOLEAN :
        readings' = Append(readings, [outdated |-> FALSE, runs |-> [i \in 1..sessions |->
            IF answers /\ i \in DOMAIN windows THEN windows[i].runs ELSE "other"]])
  BY DEF Engines!Detect
<1> DEFINE runs == [i \in 1..sessions |->
                      IF answers /\ i \in DOMAIN windows THEN windows[i].runs ELSE "other"]
           reading == [outdated |-> FALSE, runs |-> runs]
<1> PICK n : n = Len(readings) + 1
  OBVIOUS
<1>2. /\ windows \in Seq(Window) /\ sessions \in Nat /\ longest \in Nat
      /\ readings \in Seq(Reading) /\ Len(readings) \in Nat /\ Len(readings) < MaxLooks
      /\ UNCHANGED <<windows, sessions, longest, state, checks, unearned, excused>>
  BY PartsConstants DEF EngineInv, Engines!EngineTypeOK, Engines!Detect, Window, Reading
<1>3. runs \in [1..sessions -> Engines!Program]
  <2>1. \A i \in DOMAIN windows : windows[i] \in Window
    BY <1>2
  <2>2. \A i \in DOMAIN windows : windows[i].runs \in Engines!Program
    BY <2>1 DEF Window
  <2> QED
    BY <2>2 DEF Engines!Program
<1>4. reading \in Reading
  <2>1. runs \in Seq(Engines!Program)
    BY <1>2, <1>3, FunctionIsSeq
  <2> HIDE DEF runs
  <2> QED
    BY <2>1 DEF Reading
<1>5. \A i \in DOMAIN windows : i \in DOMAIN runs =>
         (runs[i] = windows[i].runs \/ runs[i] = "other") /\ DOMAIN runs = 1..sessions
  OBVIOUS
<1> HIDE DEF runs
<1>6. /\ readings' \in Seq(Reading) /\ Len(readings') = n /\ DOMAIN readings' = DOMAIN readings \cup {n}
      /\ readings'[n] = reading /\ \A r \in DOMAIN readings : readings'[r] = readings[r]
      /\ n \notin DOMAIN readings /\ DOMAIN readings = 1..Len(readings)
  <2>1. readings' = Append(readings, reading)
    BY <1>1 DEF runs
  <2> HIDE DEF reading
  <2> QED
    BY <1>2, <1>4, <2>1
<1>7. Engines!EngineTypeOK'
  BY <1>2, <1>6, PartsConstants DEF EngineInv, Engines!EngineTypeOK, Reading
<1>8. ASSUME ~excused' PROVE Watched'
  <2>1. Watched
    BY <1>2, <1>8 DEF EngineInv
  <2>2. \A i : (Underway(i)' <=> Underway(i)) /\ (Met(i)' <=> Met(i))
    BY <1>2 DEF Underway, Engines!Current, Met
  <2>3. OneCheck' /\ TodoEnded' /\ StatusMet' /\ ~unearned'
    BY <1>2, <2>1, <2>2 DEF Watched, OneCheck, TodoEnded, StatusMet, Engines!Busy, Engines!WasRunning
  <2>4. \A r \in DOMAIN readings : \A i, program : ReadAt(r, i, program)' <=> ReadAt(r, i, program)
    BY <1>6 DEF ReadAt
  <2>5. \A i \in DOMAIN windows : \A program :
           ReadAt(n, i, program)' => windows[i].runs = program \/ program = "other"
    BY <1>5, <1>6 DEF ReadAt
  <2>6. ReadingsMet'
    <3> SUFFICES ASSUME NEW r \in DOMAIN readings', NEW i \in DOMAIN windows'
                 PROVE  /\ ReadAt(r, i, "agent")' => Met(i)'
                        /\ ReadAt(r, i, "shell")' /\ ~Underway(i)' /\ Engines!WasRunning(state[i])'
                             => windows'[i].ended
                        /\ \A q \in 1..(r - 1) :
                             ReadAt(r, i, "shell")' /\ ReadAt(q, i, "agent")' => windows'[i].ended
      BY DEF ReadingsMet
    <3>1. CASE r \in DOMAIN readings
      <4>1. 1..(r - 1) \subseteq DOMAIN readings
        BY <1>2, <1>6, <3>1
      <4> QED
        BY <1>2, <2>1, <2>2, <2>4, <3>1, <4>1 DEF Watched, ReadingsMet, Engines!WasRunning
    <3>2. CASE r = n
      <4>1. 1..(r - 1) \subseteq DOMAIN readings
        BY <1>2, <1>6, <3>2
      <4>2. ReadAt(r, i, "agent")' => Met(i)'
        BY <1>2, <2>2, <2>5, <3>2 DEF Met
      <4>3. ReadAt(r, i, "shell")' /\ Met(i) => windows[i].ended
        BY <1>2, <2>5, <3>2 DEF Met
      <4>4. \A q \in 1..(r - 1) : ReadAt(q, i, "agent")' => Met(i)
        BY <1>2, <2>1, <2>4, <4>1 DEF Watched, ReadingsMet
      <4>5. ~Underway(i) /\ Engines!WasRunning(state[i]) => Met(i)
        BY <1>2, <2>1 DEF Watched, StatusMet
      <4> QED
        BY <1>2, <2>2, <4>2, <4>3, <4>4, <4>5 DEF Engines!WasRunning
    <3> QED
      BY <1>6, <3>1, <3>2
  <2> QED
    BY <2>3, <2>6 DEF Watched
<1> QED
  BY <1>7, <1>8 DEF EngineInv

LEMMA ApplyTypes ==
    ASSUME EngineInv, NEW r \in 1..MaxLooks, Engines!Apply(r) PROVE Engines!EngineTypeOK'
<1>1. /\ readings \in Seq(Reading) /\ Len(readings) \in Nat /\ r \in 1..Len(readings)
      /\ Len(readings) <= MaxLooks /\ MaxLooks \in Nat
      /\ state \in [Engines!Index -> Engines!Entry \cup {NoEntry}]
  BY PartsConstants DEF EngineInv, Engines!EngineTypeOK, Engines!Apply, Reading
<1>2. readings' \in Seq(Reading) /\ Len(readings') = Len(readings) - 1
  <2>1. readings' = [q \in 1..(Len(readings) - 1) |->
            IF q < r THEN [readings[q] EXCEPT !.outdated = TRUE] ELSE readings[q + 1]]
    BY DEF Engines!Apply
  <2>2. ASSUME NEW q \in 1..(Len(readings) - 1)
        PROVE  (IF q < r THEN [readings[q] EXCEPT !.outdated = TRUE] ELSE readings[q + 1]) \in Reading
    <3>1. readings[q] \in Reading /\ readings[q + 1] \in Reading
      BY <1>1, <2>2
    <3>2. [readings[q] EXCEPT !.outdated = TRUE] \in Reading
      BY <3>1 DEF Reading
    <3> QED
      BY <3>1, <3>2
  <2>3. readings' \in [1..(Len(readings) - 1) -> Reading] /\ Len(readings) - 1 \in Nat
    BY <1>1, <2>1, <2>2
  <2> QED
    BY <2>3, FunctionIsSeq
<1>3. state' \in [Engines!Index -> Engines!Entry \cup {NoEntry}]
  <2>1. state' = [i \in Engines!Index |->
           IF i \in DOMAIN readings[r].runs THEN Engines!Seen(state[i], readings[r].runs[i]) ELSE NoEntry]
    BY DEF Engines!Apply
  <2>2. ASSUME NEW i \in Engines!Index, NEW program
        PROVE  Engines!Seen(state[i], program) \in Engines!Entry
    <3>1. state[i] = NoEntry \/ state[i] \in Engines!Entry
      BY <1>1
    <3>2. CASE state[i] = NoEntry
      BY <3>2 DEF Engines!Seen, Engines!Entry, Engines!WasRunning
    <3>3. CASE state[i] # NoEntry /\ state[i] \in Engines!Entry
      <4>1. /\ state[i].status \in {"ready", "idle", "crashed"}
            /\ state[i].wasRunning \in BOOLEAN
        BY <3>3 DEF Engines!Entry
      <4>2. Engines!WasRunning(state[i]) \in BOOLEAN
        BY DEF Engines!WasRunning
      <4> QED
        BY <3>3, <4>1, <4>2 DEF Engines!Seen, Engines!Entry
    <3> QED
      BY <3>1, <3>2, <3>3
  <2> QED
    BY <2>1, <2>2
<1>4. UNCHANGED <<windows, sessions, longest, checks, unearned>> /\ excused' \in BOOLEAN
  BY DEF Engines!Apply
<1> QED
  BY <1>1, <1>2, <1>3, <1>4 DEF EngineInv, Engines!EngineTypeOK, Reading

LEMMA ApplyStep ==
    ASSUME EngineInv, NEW r \in 1..MaxLooks, Engines!Apply(r) PROVE EngineInv'
<1>1. Engines!EngineTypeOK'
  BY ApplyTypes
<1>2. ASSUME ~excused' PROVE Watched'
  <2>1. /\ Watched /\ ~readings[r].outdated
        /\ UNCHANGED <<windows, checks, unearned>>
    BY <1>2 DEF EngineInv, Engines!Apply
  <2>2. /\ Len(readings) \in Nat /\ r \in 1..Len(readings)
        /\ DOMAIN readings = 1..Len(readings) /\ DOMAIN readings' = 1..(Len(readings) - 1)
        /\ readings \in Seq(Reading)
    BY DEF EngineInv, Engines!EngineTypeOK, Engines!Apply, Reading
  <2>3. \A i \in DOMAIN windows : i \in Engines!Index
    BY PartsConstants DEF EngineInv, Engines!EngineTypeOK, Engines!Index
  <2>4. \A i \in Engines!Index : state'[i] =
          IF i \in DOMAIN readings[r].runs THEN Engines!Seen(state[i], readings[r].runs[i]) ELSE NoEntry
    BY DEF Engines!Apply
  <2>5. ASSUME NEW i \in DOMAIN windows, Engines!WasRunning(state'[i])
        PROVE  ReadAt(r, i, "agent") \/ Engines!WasRunning(state[i])
    <3>1. i \in DOMAIN readings[r].runs /\ state'[i] = Engines!Seen(state[i], readings[r].runs[i])
      BY <2>3, <2>4, <2>5 DEF Engines!WasRunning
    <3>2. CASE readings[r].runs[i] = "agent"
      BY <2>1, <3>1, <3>2 DEF ReadAt
    <3>3. CASE readings[r].runs[i] # "agent"
      <4>1. state'[i].wasRunning
        BY <2>5 DEF Engines!WasRunning
      <4>2. Engines!Seen(state[i], readings[r].runs[i]).wasRunning = Engines!WasRunning(state[i])
        BY <3>3 DEF Engines!Seen
      <4> QED
        BY <3>1, <4>1, <4>2
    <3> QED
      BY <3>2, <3>3
  <2>6. ASSUME NEW i \in DOMAIN windows, state'[i] # NoEntry, state'[i].status = "crashed"
        PROVE  \/ state[i] # NoEntry /\ state[i].status = "crashed"
               \/ ReadAt(r, i, "shell") /\ Engines!WasRunning(state[i])
    <3>1. i \in DOMAIN readings[r].runs /\ state'[i] = Engines!Seen(state[i], readings[r].runs[i])
      BY <2>3, <2>4, <2>6
    <3>2. CASE readings[r].runs[i] = "agent"
      BY <2>6, <3>1, <3>2 DEF Engines!Seen
    <3>3. CASE readings[r].runs[i] = "shell"
      <4>1. Engines!WasRunning(state[i])
        BY <2>6, <3>1, <3>3 DEF Engines!Seen
      <4> QED
        BY <2>1, <3>1, <3>3, <4>1 DEF ReadAt
    <3>4. CASE readings[r].runs[i] \notin {"agent", "shell"}
      BY <2>6, <3>1, <3>4 DEF Engines!Seen
    <3> QED
      BY <3>2, <3>3, <3>4
  <2>7. \A i : (Underway(i)' <=> Underway(i)) /\ (Met(i)' <=> Met(i))
    BY <2>1 DEF Underway, Engines!Current, Met
  <2>8. OneCheck' /\ TodoEnded' /\ ~unearned'
    BY <2>1, <2>7 DEF Watched, OneCheck, TodoEnded, Engines!Busy
  <2>9. StatusMet'
    <3> SUFFICES ASSUME NEW i \in DOMAIN windows', ~Underway(i)'
                 PROVE  /\ Engines!WasRunning(state'[i]) => Met(i)'
                        /\ state'[i] # NoEntry /\ state'[i].status = "crashed" => windows'[i].ended
      BY DEF StatusMet, Engines!WasRunning
    <3>1. Engines!WasRunning(state'[i]) => Met(i)
      BY <2>1, <2>2, <2>5, <2>7 DEF Watched, StatusMet, ReadingsMet
    <3>2. state'[i] # NoEntry /\ state'[i].status = "crashed" => windows[i].ended
      BY <2>1, <2>2, <2>6, <2>7 DEF Watched, StatusMet, ReadingsMet
    <3> QED
      BY <2>1, <2>7, <3>1, <3>2
  <2>10. ASSUME NEW q \in DOMAIN readings', NEW i, NEW program, ReadAt(q, i, program)'
         PROVE  q \in r..(Len(readings) - 1) /\ ReadAt(q + 1, i, program)
    <3>1. readings'[q] = IF q < r THEN [readings[q] EXCEPT !.outdated = TRUE] ELSE readings[q + 1]
      BY <2>2 DEF Engines!Apply
    <3>2. ~(q < r)
      <4> SUFFICES ASSUME q < r PROVE FALSE
        OBVIOUS
      <4>1. readings[q] \in Reading
        BY <2>2
      <4>2. readings'[q].outdated
        BY <3>1, <4>1 DEF Reading
      <4> QED
        BY <2>10, <4>2 DEF ReadAt
    <3>3. readings'[q] = readings[q + 1]
      BY <3>1, <3>2
    <3>4. q \in r..(Len(readings) - 1)
      BY <2>2, <3>2
    <3> QED
      BY <2>10, <3>3, <3>4 DEF ReadAt
  <2>11. ReadingsMet'
    <3> SUFFICES ASSUME NEW q \in DOMAIN readings', NEW i \in DOMAIN windows'
                 PROVE  /\ ReadAt(q, i, "agent")' => Met(i)'
                        /\ ReadAt(q, i, "shell")' /\ ~Underway(i)' /\ Engines!WasRunning(state'[i])
                             => windows'[i].ended
                        /\ \A p \in 1..(q - 1) :
                             ReadAt(q, i, "shell")' /\ ReadAt(p, i, "agent")' => windows'[i].ended
      BY DEF ReadingsMet, Engines!WasRunning
    <3>1. ASSUME ReadAt(q, i, "agent")' PROVE Met(i)
      <4>1. q + 1 \in DOMAIN readings /\ ReadAt(q + 1, i, "agent")
        BY <2>2, <2>10, <3>1
      <4> QED
        BY <2>1, <4>1 DEF Watched, ReadingsMet
    <3>2. ASSUME ReadAt(q, i, "shell")', ~Underway(i), Engines!WasRunning(state'[i])
          PROVE  windows[i].ended
      <4>1. /\ q + 1 \in DOMAIN readings /\ ReadAt(q + 1, i, "shell")
            /\ r \in 1..((q + 1) - 1)
        BY <2>2, <2>10, <3>2
      <4>2. ReadAt(r, i, "agent") \/ Engines!WasRunning(state[i])
        BY <2>1, <2>5, <3>2
      <4> QED
        BY <2>1, <3>2, <4>1, <4>2 DEF Watched, ReadingsMet
    <3>3. ASSUME NEW p \in 1..(q - 1), ReadAt(q, i, "shell")', ReadAt(p, i, "agent")'
          PROVE  windows[i].ended
      <4>1. p \in DOMAIN readings'
        BY <2>2
      <4>2. /\ q + 1 \in DOMAIN readings /\ ReadAt(q + 1, i, "shell")
            /\ p + 1 \in 1..((q + 1) - 1) /\ ReadAt(p + 1, i, "agent")
        BY <2>2, <2>10, <3>3, <4>1
      <4> QED
        BY <2>1, <4>2 DEF Watched, ReadingsMet
    <3> QED
      BY <2>1, <2>7, <3>1, <3>2, <3>3
  <2> QED
    BY <2>8, <2>9, <2>11 DEF Watched
<1> QED
  BY <1>1, <1>2 DEF EngineInv

\* One crash check at a time: what is under way is its.
LEMMA AtHand ==
    ASSUME OneCheck, NEW k \in Checker, Engines!Busy(k)
    PROVE  /\ \A i : Underway(i) <=> checks[k].typed /\ Engines!Current(k, i)
           /\ \A m \in Checker \ {k} : checks[m].todo = {} /\ ~checks[m].typed
BY DEF OneCheck, Underway, Engines!Current, Engines!Busy

LEMMA CheckStep ==
    ASSUME EngineInv, NEW k \in Checker, Engines!Check(k) PROVE EngineInv'
<1>1. /\ checks \in [Checker -> [todo : SUBSET Engines!Index, typed : BOOLEAN]]
      /\ checks' = [checks EXCEPT ![k].todo = Engines!Crashed]
      /\ UNCHANGED <<windows, sessions, longest, state, readings, unearned>>
  BY DEF EngineInv, Engines!EngineTypeOK, Engines!Check
<1>2. Engines!Crashed \in SUBSET Engines!Index
  BY PartsConstants DEF EngineInv, Engines!EngineTypeOK, Engines!Crashed, Engines!Index
<1>3. Engines!EngineTypeOK'
  <2>1. checks' \in [Checker -> [todo : SUBSET Engines!Index, typed : BOOLEAN]]
    BY <1>1, <1>2
  <2>2. excused' \in BOOLEAN
    BY DEF Engines!Check
  <2> QED
    BY <1>1, <2>1, <2>2 DEF EngineInv, Engines!EngineTypeOK
<1>4. ASSUME ~excused' PROVE Watched'
  <2>1. Watched /\ \A m \in Checker : checks[m].todo = {}
    BY <1>4 DEF EngineInv, Engines!Check, Engines!Busy
  <2>2. \A m \in Checker : ~checks[m].typed
    BY <2>1 DEF Watched, OneCheck, Engines!Busy
  <2>3. ASSUME NEW m \in Checker
        PROVE  (m = k \/ checks'[m].todo = {}) /\ checks'[m].todo \subseteq Engines!Crashed /\ ~checks'[m].typed
    <3>1. CASE m = k
      <4>1. checks'[k] = [todo |-> Engines!Crashed, typed |-> checks[k].typed]
        BY <1>1
      <4> QED
        BY <2>2, <3>1, <4>1
    <3>2. CASE m # k
      <4>1. checks'[m] = checks[m]
        BY <1>1, <3>2
      <4> QED
        BY <2>1, <2>2, <4>1
    <3> QED
      BY <3>1, <3>2
  <2>4. \A i : ~Underway(i) /\ ~Underway(i)'
    BY <2>2, <2>3 DEF Underway
  <2>5. OneCheck'
    BY <2>3 DEF OneCheck, Engines!Busy
  <2>6. TodoEnded'
    BY <1>1, <2>1, <2>3, <2>4 DEF Watched, TodoEnded, StatusMet, Engines!Crashed
  <2>7. \A i : Met(i)' <=> Met(i)
    BY <1>1 DEF Met
  <2>8. StatusMet'
    BY <1>1, <2>1, <2>4, <2>7 DEF Watched, StatusMet, Engines!WasRunning
  <2>9. \A r, i, program : ReadAt(r, i, program)' <=> ReadAt(r, i, program)
    BY <1>1 DEF ReadAt
  <2>10. ReadingsMet'
    BY <1>1, <2>1, <2>4, <2>7, <2>9 DEF Watched, ReadingsMet, Engines!WasRunning
  <2> QED
    BY <1>1, <2>1, <2>5, <2>6, <2>8, <2>10 DEF Watched
<1> QED
  BY <1>3, <1>4 DEF EngineInv

LEMMA RestartStep ==
    ASSUME EngineInv, NEW k \in Checker, NEW i \in Engines!Index, Engines!Restart(k, i)
    PROVE  EngineInv'
<1>1. /\ windows \in Seq(Window) /\ readings \in Seq(Reading) /\ i \in DOMAIN windows
      /\ checks \in [Checker -> [todo : SUBSET Engines!Index, typed : BOOLEAN]]
      /\ unearned \in BOOLEAN
      /\ UNCHANGED <<sessions, longest, state, excused>>
  BY DEF EngineInv, Engines!EngineTypeOK, Engines!Restart, Window, Reading
<1>2. PICK program \in {windows[i].runs} \cup (IF windows[i].runs = "shell" THEN {"agent"} ELSE {}) :
        windows' = [windows EXCEPT ![i] = [runs |-> program, ended |-> FALSE]]
  BY DEF Engines!Restart
<1>3. program \in Engines!Program
  <2>1. windows[i] \in Window
    BY <1>1
  <2>2. windows[i].runs \in Engines!Program
    BY <2>1 DEF Window
  <2> QED
    BY <1>2, <2>2 DEF Engines!Program
<1> DEFINE w == [runs |-> program, ended |-> FALSE]
<1>4. /\ windows' \in Seq(Window) /\ Len(windows') = Len(windows) /\ DOMAIN windows' = DOMAIN windows
      /\ \A j \in DOMAIN windows : j # i => windows'[j] = windows[j]
  <2>1. w \in Window
    BY <1>3 DEF Window
  <2> HIDE DEF w
  <2>2. windows' = [windows EXCEPT ![i] = w]
    BY <1>2 DEF w
  <2> QED
    BY <1>1, <2>1, <2>2
<1>5. /\ readings' \in Seq(Reading) /\ Len(readings') = Len(readings)
      /\ DOMAIN readings' = DOMAIN readings /\ \A r \in DOMAIN readings : readings'[r].outdated
  <2>1. readings' = [r \in 1..Len(readings) |-> [readings[r] EXCEPT !.outdated = TRUE]]
    BY <1>1 DEF Engines!Restart
  <2>2. ASSUME NEW r \in 1..Len(readings)
        PROVE  /\ [readings[r] EXCEPT !.outdated = TRUE] \in Reading
               /\ [readings[r] EXCEPT !.outdated = TRUE].outdated
    <3>1. readings[r] \in Reading
      BY <1>1
    <3> QED
      BY <3>1 DEF Reading
  <2>3. readings' \in [1..Len(readings) -> Reading] /\ Len(readings) \in Nat
    BY <1>1, <2>1, <2>2
  <2> QED
    BY <1>1, <2>1, <2>2, <2>3, FunctionIsSeq
<1>6. /\ checks' = [checks EXCEPT ![k].typed = TRUE]
      /\ checks' \in [Checker -> [todo : SUBSET Engines!Index, typed : BOOLEAN]]
      /\ unearned' \in BOOLEAN
  BY <1>1 DEF Engines!Restart
<1>7. Engines!EngineTypeOK'
  BY <1>1, <1>4, <1>5, <1>6 DEF EngineInv, Engines!EngineTypeOK, Window, Reading
<1>8. ASSUME ~excused' PROVE Watched'
  <2>1. Watched
    BY <1>1, <1>8 DEF EngineInv
  <2>2. Engines!Busy(k) /\ Engines!Current(k, i) /\ ~checks[k].typed
    BY DEF Engines!Restart, Engines!Current, Engines!Busy
  <2>3. /\ \A j : ~Underway(j)
        /\ \A m \in Checker \ {k} : checks[m].todo = {} /\ ~checks[m].typed
    BY <2>1, <2>2, AtHand DEF Watched
  <2>4. /\ \A m \in Checker : checks'[m].todo = checks[m].todo
        /\ checks'[k].typed /\ \A m \in Checker \ {k} : ~checks'[m].typed
    <3>1. checks'[k] = [todo |-> checks[k].todo, typed |-> TRUE]
      BY <1>1, <1>6
    <3>2. \A m \in Checker \ {k} : checks'[m] = checks[m]
      BY <1>1, <1>6
    <3>3. \A m \in Checker \ {k} : ~checks'[m].typed
      BY <2>3, <3>2
    <3> QED
      BY <3>1, <3>2, <3>3
  <2>5. Underway(i)'
    BY <2>2, <2>4 DEF Underway, Engines!Current
  <2>6. OneCheck'
    <3>1. \A m \in Checker : Engines!Busy(m)' => m = k
      BY <2>3, <2>4 DEF Engines!Busy
    <3>2. Engines!Busy(k)'
      BY <2>2, <2>4 DEF Engines!Busy
    <3> QED
      BY <2>4, <3>1, <3>2 DEF OneCheck
  <2>7. TodoEnded'
    BY <1>4, <2>1, <2>3, <2>4, <2>5 DEF Watched, TodoEnded
  <2>8. StatusMet'
    BY <1>1, <1>4, <2>1, <2>3, <2>5 DEF Watched, StatusMet, Met, Engines!WasRunning
  <2>9. \A r \in DOMAIN readings' : \A j, p : ~ReadAt(r, j, p)'
    BY <1>5 DEF ReadAt
  <2>10. ReadingsMet'
    BY <2>9 DEF ReadingsMet
  <2>11. windows[i].ended
    BY <1>1, <2>1, <2>2, <2>3 DEF Watched, TodoEnded, Engines!Current
  <2>12. ~unearned'
    BY <2>1, <2>11 DEF Watched, Engines!Restart
  <2> QED
    BY <2>6, <2>7, <2>8, <2>10, <2>12 DEF Watched
<1> QED
  BY <1>7, <1>8 DEF EngineInv

\* A check goes on to its next agent, with the status as it was or as it is cleared.
LEMMA GoOnStep ==
    ASSUME EngineInv, NEW k \in Checker, NEW i \in Engines!Index,
           Engines!Current(k, i), Engines!GoOn(k, i),
           UNCHANGED <<windows, sessions, longest, readings, unearned>>,
           state' \in [Engines!Index -> Engines!Entry \cup {NoEntry}], excused' \in BOOLEAN,
           ~excused' => /\ ~excused
                        /\ \A j \in Engines!Index : j # i => state'[j] = state[j]
                        /\ checks[k].typed => state'[i] = NoEntry \/ state'[i] = [status |-> "idle", wasRunning |-> FALSE]
                        /\ ~checks[k].typed => state'[i] = state[i]
    PROVE  EngineInv'
<1>1. /\ checks \in [Checker -> [todo : SUBSET Engines!Index, typed : BOOLEAN]]
      /\ checks' = [checks EXCEPT ![k] = [todo |-> checks[k].todo \ {i}, typed |-> FALSE]]
  BY DEF EngineInv, Engines!EngineTypeOK, Engines!GoOn
<1>2. Engines!EngineTypeOK'
  <2>1. checks' \in [Checker -> [todo : SUBSET Engines!Index, typed : BOOLEAN]]
    BY <1>1
  <2> QED
    BY <2>1 DEF EngineInv, Engines!EngineTypeOK
<1>3. ASSUME ~excused' PROVE Watched'
  <2>1. Watched /\ Engines!Busy(k)
    BY <1>3 DEF EngineInv, Engines!Current, Engines!Busy
  <2>2. /\ \A j : Underway(j) <=> checks[k].typed /\ Engines!Current(k, j)
        /\ \A m \in Checker \ {k} : checks[m].todo = {} /\ ~checks[m].typed
    BY <2>1, AtHand DEF Watched
  <2>3. \A j \in Engines!Index : Engines!Current(k, j) => j = i
    BY PartsConstants DEF Engines!Current, Engines!Index
  <2>4. /\ checks'[k].todo = checks[k].todo \ {i} /\ ~checks'[k].typed
        /\ \A m \in Checker \ {k} : checks'[m].todo = {} /\ ~checks'[m].typed
    <3>1. checks'[k] = [todo |-> checks[k].todo \ {i}, typed |-> FALSE]
      BY <1>1
    <3>2. \A m \in Checker \ {k} : checks'[m] = checks[m]
      BY <1>1
    <3>3. \A m \in Checker \ {k} : checks'[m].todo = {} /\ ~checks'[m].typed
      BY <2>2, <3>2
    <3> QED
      BY <3>1, <3>3
  <2>5. \A j : ~Underway(j)'
    BY <2>4 DEF Underway
  <2>6. \A j \in DOMAIN windows : j \in Engines!Index
    BY PartsConstants DEF EngineInv, Engines!EngineTypeOK, Engines!Index
  <2>7. \A j \in Engines!Index : j # i => ~Underway(j)
    BY <2>2, <2>3
  <2>8. OneCheck'
    BY <2>4 DEF OneCheck, Engines!Busy
  <2>9. TodoEnded'
    BY <2>1, <2>4, <2>6, <2>7 DEF Watched, TodoEnded
  <2>10. \A j \in DOMAIN windows : \/ state'[j] = state[j] /\ ~Underway(j)
                                   \/ state'[j] = NoEntry
                                   \/ state'[j] = [status |-> "idle", wasRunning |-> FALSE]
    BY <1>3, <2>2, <2>6, <2>7
  <2>11. ASSUME NEW j \in DOMAIN windows, Engines!WasRunning(state'[j])
         PROVE  Engines!WasRunning(state[j]) /\ ~Underway(j)
    BY <2>10, <2>11 DEF Engines!WasRunning
  <2>12. \A j : Met(j)' <=> Met(j)
    BY DEF Met
  <2>13. StatusMet'
    <3> SUFFICES ASSUME NEW j \in DOMAIN windows
                 PROVE  /\ Engines!WasRunning(state'[j]) => Met(j)'
                        /\ state'[j] # NoEntry /\ state'[j].status = "crashed" => windows[j].ended
      BY DEF StatusMet, Engines!WasRunning
    <3>1. Engines!WasRunning(state'[j]) => Met(j)'
      BY <2>1, <2>11, <2>12 DEF Watched, StatusMet
    <3>2. state'[j] # NoEntry /\ state'[j].status = "crashed" => windows[j].ended
      BY <2>1, <2>10 DEF Watched, StatusMet
    <3> QED
      BY <3>1, <3>2
  <2>14. \A r, j, program : ReadAt(r, j, program)' <=> ReadAt(r, j, program)
    BY DEF ReadAt
  <2>15. ReadingsMet'
    <3> SUFFICES ASSUME NEW r \in DOMAIN readings, NEW j \in DOMAIN windows
                 PROVE  /\ ReadAt(r, j, "agent")' => Met(j)'
                        /\ ReadAt(r, j, "shell")' /\ ~Underway(j)' /\ Engines!WasRunning(state'[j])
                             => windows[j].ended
                        /\ \A q \in 1..(r - 1) :
                             ReadAt(r, j, "shell")' /\ ReadAt(q, j, "agent")' => windows[j].ended
      BY DEF ReadingsMet, Engines!WasRunning
    <3> QED
      BY <2>1, <2>11, <2>12, <2>14 DEF Watched, ReadingsMet
  <2> QED
    BY <2>1, <2>8, <2>9, <2>13, <2>15 DEF Watched
<1> QED
  BY <1>2, <1>3 DEF EngineInv

LEMMA EngineSteps ==
    ASSUME EngineInv, [Engines!EngineNext]_Engines!engineVars PROVE EngineInv'
<1>1. ASSUME NEW k \in Checker, NEW i \in Engines!Index, Engines!RestartFails(k, i)
      PROVE  EngineInv'
  <2>1. /\ Engines!Current(k, i) /\ Engines!GoOn(k, i) /\ ~checks[k].typed
        /\ UNCHANGED <<windows, sessions, longest, state, readings, unearned, excused>>
    BY <1>1 DEF Engines!RestartFails
  <2>2. state' \in [Engines!Index -> Engines!Entry \cup {NoEntry}] /\ excused' \in BOOLEAN
    BY <2>1 DEF EngineInv, Engines!EngineTypeOK
  <2> QED
    BY <2>1, <2>2, GoOnStep
<1>2. ASSUME NEW k \in Checker, NEW i \in Engines!Index, Engines!SubmitFails(k, i)
      PROVE  EngineInv'
  <2>1. /\ Engines!Current(k, i) /\ Engines!GoOn(k, i) /\ excused' = TRUE
        /\ UNCHANGED <<windows, sessions, longest, state, readings, unearned>>
    BY <1>2 DEF Engines!SubmitFails
  <2>2. state' \in [Engines!Index -> Engines!Entry \cup {NoEntry}] /\ excused' \in BOOLEAN
    BY <2>1 DEF EngineInv, Engines!EngineTypeOK
  <2> QED
    BY <2>1, <2>2, GoOnStep
<1>3. ASSUME NEW k \in Checker, NEW i \in Engines!Index, Engines!Clear(k, i)
      PROVE  EngineInv'
  <2>1. /\ Engines!Current(k, i) /\ Engines!GoOn(k, i) /\ checks[k].typed
        /\ state' = [state EXCEPT ![i] = IF state[i] = NoEntry THEN state[i]
                                         ELSE [status |-> "idle", wasRunning |-> FALSE]]
        /\ UNCHANGED <<windows, sessions, longest, readings, unearned, excused>>
    BY <1>3 DEF Engines!Clear
  <2>2. /\ state \in [Engines!Index -> Engines!Entry \cup {NoEntry}] /\ excused' \in BOOLEAN
        /\ [status |-> "idle", wasRunning |-> FALSE] \in Engines!Entry
    BY <2>1 DEF EngineInv, Engines!EngineTypeOK, Engines!Entry
  <2>3. /\ state' \in [Engines!Index -> Engines!Entry \cup {NoEntry}]
        /\ \A j \in Engines!Index : j # i => state'[j] = state[j]
        /\ state'[i] = NoEntry \/ state'[i] = [status |-> "idle", wasRunning |-> FALSE]
    BY <2>1, <2>2
  <2> QED
    BY <2>1, <2>2, <2>3, GoOnStep
<1>4. CASE UNCHANGED Engines!engineVars
  <2>1. UNCHANGED <<windows, sessions, longest, state, readings, checks, unearned, excused>>
    BY <1>4 DEF Engines!engineVars
  <2>2. Engines!EngineTypeOK'
    BY <2>1 DEF EngineInv, Engines!EngineTypeOK
  <2>3. Watched => Watched'
    BY <2>1, WindowsKeep DEF Met
  <2> QED
    BY <2>1, <2>2, <2>3 DEF EngineInv
<1> QED
  BY <1>1, <1>2, <1>3, <1>4, OpensStep, ClosesStep, BecomesStep, CacheStep, DetectStep, ApplyStep,
     CheckStep, RestartStep DEF Engines!EngineNext

\* Until one of the excuses the code leaves itself, every restart is for an agent that ended;
\* for any number of windows, of detections and of checks under way.
THEOREM RestartsEarned ==
    /\ Engines!EngineSpec => []Engines!RestartsAreEarned
    /\ Spec => []RestartsAreEarned
<1>1. Engines!EngineInit => EngineInv
  BY EngineStarts
<1>2. EngineInv /\ [Engines!EngineNext]_Engines!engineVars => EngineInv'
  BY EngineSteps
<1>3. EngineInv => Engines!RestartsAreEarned
  BY EnginePromises
<1>4. Engines!RestartsAreEarned => RestartsAreEarned
  BY DEF RestartsAreEarned
<1> QED
  BY <1>1, <1>2, <1>3, <1>4, OnePart, PTL DEF Engines!EngineSpec

-----------------------------------------------------------------------------
(* Waking and sleeping. *)

\* A session that is mapped is the only one, and the only one a waker goes for.
OnlyMapped ==
    mapped => Wakes!Sessions \subseteq {1} /\ \A p \in Waker : wake[p].session \in {0, 1}

\* A waker that has one goes on in a session, and is one of the crew.
Underneath ==
    \A p \in Waker : Wakes!Busy(p) =>
        p \in crew /\ (wake[p].at \notin {"name", "number"} => wake[p].session # 0)

\* One that is sure of what it has seen is alone.
SureAlone ==
    \A p, q \in Waker : Wakes!Busy(p) /\ wake[p].sure /\ Wakes!Busy(q) => q = p

\* A window of a plan is of one worktree, and the others of the plan are of others.
Planned(todo) ==
    /\ \A x \in todo : x[1] = Plain \/ x[1] = x[2]
    /\ \A x, y \in todo : x # y => x[1] # y[1] /\ x[2] # y[2]

\* A window is where its name says.
Placed(n, d) == (n = Main /\ d = 0) \/ (n = Plain /\ d \in Tree) \/ (n \in Tree /\ d = n)

Plans ==
    \A p \in Waker :
        /\ Planned(wake[p].todo)
        /\ wake[p].at \in {"room", "open"} => Placed(wake[p].name, wake[p].dir)

\* What is counted runs, or will.
CountedRuns ==
    \A t \in Wakes!Tab : tabs[t].counted => tabs[t].runs \in {"starting", "agent"}

Tidy ==
    /\ Wakes!OneOfAKind /\ Wakes!OwnDirectory
    /\ \A t \in Wakes!Tab : Wakes!Has(t) => Placed(t[2], tabs[t].dir)

\* What a waker that is sure has seen is there, and no window it is about to open.
Sees(p) ==
    LET s == wake[p].session IN
    /\ wake[p].at \in {"name", "number", "create"} => Wakes!Sessions = {}
    /\ wake[p].at \in {"launch", "list"} /\ wake[p].created => Wakes!Names(s) \subseteq {Main}
    /\ wake[p].at \in {"spawn", "window"} /\ wake[p].reliable => Wakes!Names(s) \subseteq wake[p].known
    /\ wake[p].at = "type" /\ wake[p].reliable =>
         Wakes!Names(s) \subseteq wake[p].known \cup {wake[p].name}
    /\ wake[p].at \in {"spawn", "type"} /\ wake[p].reliable =>
         \A x \in wake[p].todo : ~Wakes!Taken(<<s, x[1]>>, x[2])
    /\ wake[p].at \in {"room", "open"} => ~Wakes!Taken(<<s, wake[p].name>>, wake[p].dir)

Sighted == \A p \in Waker : Wakes!Busy(p) /\ wake[p].sure => Sees(p)

Counted == {t \in Wakes!Tab : tabs[t].counted}
Past(p) == wake[p].at \in {"number", "create", "launch", "open", "start"}

\* There is room for the agent of a waker that has counted, and no other has.
Room ==
    /\ Cardinality(Counted) <= Cap
    /\ \A p \in Waker : Past(p) =>
         Cardinality(Counted) < Cap /\ \A q \in Waker : Past(q) => q = p

WakeInv ==
    /\ Wakes!WakeTypeOK
    /\ OnlyMapped /\ Underneath /\ SureAlone /\ Plans /\ CountedRuns
    /\ amiss \/ (Tidy /\ Sighted)
    /\ amiss \/ unseen \/ Room

\* The module Wake counts as this one does.
LEMMA SameCardinality ==
    ASSUME NEW S PROVE Wakes!Cardinality(S) = Cardinality(S)
BY Zenon DEF Wakes!Cardinality, Cardinality, Wakes!IsFiniteSet, IsFiniteSet

LEMMA TabsFinite ==
    /\ IsFiniteSet(Wakes!Tab)
    /\ \A S \in SUBSET Wakes!Tab : IsFiniteSet(S) /\ Cardinality(S) \in Nat
    /\ \A S \in SUBSET Wakes!Tab : \A R \in SUBSET S : Cardinality(R) <= Cardinality(S)
<1>1. IsFiniteSet(Wakes!Session)
  <2>1. Wakes!Session = {1} \cup {2}
    BY DEF Wakes!Session
  <2> QED
    BY <2>1, FS_Singleton, FS_AddElement
<1>2. IsFiniteSet({Main, Plain})
  <2>1. IsFiniteSet({Main})
    BY FS_Singleton
  <2>2. IsFiniteSet({Main} \cup {Plain})
    BY <2>1, FS_AddElement
  <2>3. {Main, Plain} = {Main} \cup {Plain}
    OBVIOUS
  <2> QED
    BY <2>2, <2>3
<1>3. IsFiniteSet(Wakes!Name)
  BY <1>2, FS_Union, PartsConstants DEF Wakes!Name
<1>4. IsFiniteSet(Wakes!Tab)
  BY <1>1, <1>3, FS_Product DEF Wakes!Tab
<1>5. \A S \in SUBSET Wakes!Tab : IsFiniteSet(S) /\ Cardinality(S) \in Nat
  BY <1>4, FS_Subset, FS_CardinalityType
<1>6. \A S \in SUBSET Wakes!Tab : \A R \in SUBSET S : Cardinality(R) <= Cardinality(S)
  BY <1>5, FS_Subset
<1> QED
  BY <1>4, <1>5, <1>6

Waking == [at : Wakes!Place, task : {"none", "task", "fresh"}, rehydrate : BOOLEAN,
           session : {0} \cup Wakes!Session, created : BOOLEAN, sure : BOOLEAN,
           known : SUBSET Wakes!Name, reliable : BOOLEAN, todo : SUBSET (Wakes!Name \X Tree),
           name : Wakes!Name, dir : Wakes!Dir]
Pane == [runs : {"none", "shell", "starting", "agent"}, dir : Wakes!Dir,
           counted : BOOLEAN, twin : BOOLEAN]

LEMMA WakeTyped ==
    Wakes!WakeTypeOK <=>
        /\ {mapped, unseen, amiss} \subseteq BOOLEAN
        /\ crew \subseteq Waker /\ ends \in 0..MaxEnds /\ worktrees \subseteq Tree
        /\ tabs \in [Wakes!Tab -> Pane]
        /\ wake \in [Waker -> Waking]
BY DEF Wakes!WakeTypeOK, Pane, Waking

LEMMA IdleTyped == Wakes!Idle \in Waking /\ [Wakes!Idle EXCEPT !.at = "over"] \in Waking
BY DEF Wakes!Idle, Waking, Wakes!Place, Wakes!Name, Wakes!Dir

LEMMA WakeStarts ==
    ASSUME Wakes!WakeInit PROVE WakeInv
<1>1. /\ \A t \in Wakes!Tab : tabs[t] = Wakes!Closed
      /\ \A p \in Waker : wake[p] = Wakes!Idle
      /\ ~amiss /\ ~unseen
  BY DEF Wakes!WakeInit
<1>2. Wakes!WakeTypeOK
  <2>1. wake \in [Waker -> Waking]
    BY IdleTyped DEF Wakes!WakeInit
  <2>2. Wakes!Closed \in Pane
    BY DEF Wakes!Closed, Pane, Wakes!Dir
  <2>3. crew \subseteq Waker
    <3>1. Wakes!Least(Waker) \in Waker
      BY PartsConstants DEF Wakes!Least
    <3> QED
      BY <3>1 DEF Wakes!WakeInit
  <2>4. ends \in 0..MaxEnds /\ worktrees \subseteq Tree /\ tabs \in [Wakes!Tab -> Pane]
    BY <2>2, PartsConstants DEF Wakes!WakeInit
  <2> QED
    BY <1>1, <2>1, <2>4, <2>3, PartsConstants, WakeTyped DEF Wakes!WakeInit
<1>3. \A t \in Wakes!Tab : ~Wakes!Has(t) /\ ~tabs[t].twin /\ ~tabs[t].counted
  BY <1>1 DEF Wakes!Has, Wakes!Closed
<1>4. Wakes!Sessions = {}
  BY <1>3 DEF Wakes!Sessions, Wakes!Names, Wakes!Tab
<1>5. \A p \in Waker : wake[p].session = 0 /\ ~Wakes!Busy(p) /\ wake[p].todo = {} /\ wake[p].at = "idle"
  BY <1>1 DEF Wakes!Idle, Wakes!Busy
<1>6. OnlyMapped /\ Underneath /\ SureAlone /\ Plans /\ CountedRuns
  BY <1>3, <1>4, <1>5 DEF OnlyMapped, Underneath, SureAlone, Plans, CountedRuns, Planned
<1>7. Tidy /\ Sighted
  BY <1>3, <1>4, <1>5 DEF Tidy, Sighted, Wakes!OneOfAKind, Wakes!OwnDirectory
<1>8. Room
  <2>1. Counted = {}
    BY <1>3 DEF Counted
  <2> QED
    BY <1>5, <2>1, FS_EmptySet, PartsConstants DEF Room, Past
<1> QED
  BY <1>2, <1>6, <1>7, <1>8 DEF WakeInv

LEMMA WakePromises ==
    ASSUME WakeInv PROVE Wakes!WakePromise
<1>1. Wakes!MappedIsOne
  BY DEF WakeInv, OnlyMapped, Wakes!MappedIsOne
<1>2. amiss \/ (Wakes!OneOfAKind /\ Wakes!OwnDirectory)
  BY DEF WakeInv, Tidy
<1>3. amiss \/ unseen \/ Wakes!WithinCap
  <2> DEFINE L == {t \in Wakes!Live : tabs[t].counted}
  <2>1. L \in SUBSET Counted /\ Counted \in SUBSET Wakes!Tab
    BY DEF Counted, Wakes!Live
  <2>2. Cardinality(L) <= Cap <=> Wakes!WithinCap
    BY SameCardinality DEF Wakes!WithinCap
  <2> HIDE DEF L
  <2>3. /\ Cardinality(L) <= Cardinality(Counted)
        /\ Cardinality(Counted) \in Nat /\ Cardinality(L) \in Nat
    BY <2>1, TabsFinite
  <2>4. Cardinality(Counted) <= Cap => Wakes!WithinCap
    BY <2>2, <2>3, PartsConstants
  <2>5. amiss \/ unseen \/ Cardinality(Counted) <= Cap
    BY DEF WakeInv, Room
  <2> QED
    BY <2>4, <2>5
<1> QED
  BY <1>1, <1>2, <1>3 DEF Wakes!WakePromise

-----------------------------------------------------------------------------
\* No window opens.
Fewer ==
    \A t \in Wakes!Tab : /\ Wakes!Has(t)' => Wakes!Has(t) /\ tabs'[t].dir = tabs[t].dir
                         /\ tabs'[t].twin => tabs[t].twin

LEMMA FewerSeen ==
    ASSUME Fewer
    PROVE  /\ Tidy => Tidy'
           /\ \A s \in Wakes!Session : Wakes!Names(s)' \subseteq Wakes!Names(s)
           /\ Wakes!Sessions' \subseteq Wakes!Sessions
           /\ \A t \in Wakes!Tab : \A d : Wakes!Taken(t, d)' => Wakes!Taken(t, d)
<1>1. \A s \in Wakes!Session : Wakes!Names(s)' \subseteq Wakes!Names(s)
  BY DEF Fewer, Wakes!Names, Wakes!Tab
<1>2. Wakes!Sessions' \subseteq Wakes!Sessions
  BY <1>1 DEF Wakes!Sessions
<1>3. Tidy => Tidy'
  <2>1. Wakes!OneOfAKind => Wakes!OneOfAKind'
    BY <1>2 DEF Fewer, Wakes!OneOfAKind
  <2>2. Wakes!OwnDirectory => Wakes!OwnDirectory'
    BY DEF Fewer, Wakes!OwnDirectory
  <2>3. ASSUME NEW t \in Wakes!Tab, Wakes!Has(t)', Tidy PROVE Placed(t[2], tabs'[t].dir)
    BY <2>3 DEF Fewer, Tidy
  <2> QED
    BY <2>1, <2>2, <2>3 DEF Tidy, Placed
<1>4. \A t \in Wakes!Tab : \A d : Wakes!Taken(t, d)' => Wakes!Taken(t, d)
  <2> SUFFICES ASSUME NEW t \in Wakes!Tab, NEW d, Wakes!Taken(t, d)' PROVE Wakes!Taken(t, d)
    OBVIOUS
  <2>1. t[1] \in Wakes!Session
    BY DEF Wakes!Tab
  <2>2. CASE Wakes!Has(t)'
    BY <2>2 DEF Fewer, Wakes!Taken
  <2>3. ASSUME NEW n \in Wakes!Names(t[1])', tabs'[<<t[1], n>>].dir = d
        PROVE  Wakes!Taken(t, d)
    <3>1. n \in Wakes!Name /\ Wakes!Has(<<t[1], n>>)' /\ <<t[1], n>> \in Wakes!Tab
      BY <2>1 DEF Wakes!Names, Wakes!Tab, Wakes!Has
    <3>2. n \in Wakes!Names(t[1]) /\ tabs[<<t[1], n>>].dir = d
      BY <2>1, <2>3, <3>1, <1>1 DEF Fewer
    <3> QED
      BY <3>2 DEF Wakes!Taken
  <2> QED
    BY <2>2, <2>3 DEF Wakes!Taken
<1> QED
  BY <1>1, <1>2, <1>3, <1>4

LEMMA SeesStill ==
    ASSUME WakeInv, Fewer, NEW p \in Waker, Wakes!Busy(p), Sees(p), wake'[p] = wake[p]
    PROVE  Sees(p)'
<1>1. /\ wake[p].at \notin {"name", "number"} => wake[p].session \in Wakes!Session
      /\ wake[p].todo \subseteq Wakes!Name \X Tree /\ wake[p].name \in Wakes!Name
  BY WakeTyped DEF WakeInv, Underneath, Waking
<1>2. wake[p].at \notin {"name", "number"} =>
        Wakes!Names(wake[p].session)' \subseteq Wakes!Names(wake[p].session)
  BY <1>1, FewerSeen
<1>3. Wakes!Sessions = {} => Wakes!Sessions' = {}
  BY FewerSeen
<1>4. ASSUME NEW n \in Wakes!Name, NEW d, wake[p].at \notin {"name", "number"}
      PROVE  Wakes!Taken(<<wake[p].session, n>>, d)' => Wakes!Taken(<<wake[p].session, n>>, d)
  <2>1. <<wake[p].session, n>> \in Wakes!Tab
    BY <1>1, <1>4 DEF Wakes!Tab
  <2> QED
    BY <2>1, FewerSeen
<1>5. \A x \in wake[p].todo : x[1] \in Wakes!Name
  BY <1>1
<1>6. wake[p].at \in {"spawn", "type"} /\ wake[p].reliable =>
        \A x \in wake[p].todo : ~Wakes!Taken(<<wake[p].session, x[1]>>, x[2])'
  BY <1>4, <1>5 DEF Sees
<1>7. wake[p].at \in {"room", "open"} =>
        ~Wakes!Taken(<<wake[p].session, wake[p].name>>, wake[p].dir)'
  BY <1>1, <1>4 DEF Sees
<1> QED
  BY <1>2, <1>3, <1>6, <1>7 DEF Sees, Wakes!Taken

\* A waker goes on: it is enough to look at its own record, the windows and the room.
LEMMA WakerGoesOn ==
    ASSUME WakeInv, NEW p \in Waker, Wakes!Busy(p),
           NEW r \in Waking, Wakes!Goes(p, r), UNCHANGED <<crew, mapped>>,
           r.at \notin {"idle", "over"} =>
             /\ r.sure => wake[p].sure
             /\ r.at \notin {"name", "number"} => r.session # 0,
           Planned(r.todo), r.at \in {"room", "open"} => Placed(r.name, r.dir),
           mapped => r.session \in {0, 1} /\ Wakes!Sessions' \subseteq {1},
           ends' \in 0..MaxEnds, worktrees' \subseteq Tree,
           tabs' \in [Wakes!Tab -> Pane], CountedRuns',
           {unseen', amiss'} \subseteq BOOLEAN,
           ~amiss' => Tidy',
           ~amiss' /\ r.at \notin {"idle", "over"} /\ r.sure => Sees(p)',
           ~amiss' /\ ~unseen' => Room'
    PROVE  WakeInv'
<1>1. /\ wake' \in [Waker -> Waking] /\ wake'[p] = r
      /\ \A q \in Waker \ {p} : wake'[q] = wake[q]
  BY WakeTyped DEF WakeInv, Wakes!Goes
<1>2. Wakes!WakeTypeOK'
  <2>1. {mapped', unseen', amiss'} \subseteq BOOLEAN /\ crew' \subseteq Waker
    BY WakeTyped DEF WakeInv
  <2> QED
    BY <1>1, <2>1 DEF Wakes!WakeTypeOK, Pane, Waking
<1>3. /\ Wakes!Busy(p)' <=> r.at \notin {"idle", "over"}
      /\ \A q \in Waker \ {p} : Wakes!Busy(q)' <=> Wakes!Busy(q)
  BY <1>1 DEF Wakes!Busy
<1>4. OnlyMapped'
  BY <1>1 DEF WakeInv, OnlyMapped
<1>5. Underneath'
  <2>1. p \in crew /\ crew' = crew
    BY DEF WakeInv, Underneath
  <2>2. ASSUME NEW q \in Waker, Wakes!Busy(q)'
        PROVE  q \in crew' /\ (wake'[q].at \notin {"name", "number"} => wake'[q].session # 0)
    <3>1. CASE q = p
      BY <1>1, <1>3, <2>1, <2>2, <3>1
    <3>2. CASE q # p
      BY <1>1, <1>3, <2>1, <2>2, <3>2 DEF WakeInv, Underneath
    <3> QED
      BY <3>1, <3>2
  <2> QED
    BY <2>2 DEF Underneath, Wakes!Busy
<1>6. \A q \in Waker \ {p} : ~(Wakes!Busy(q)' /\ wake'[q].sure)
  BY <1>1, <1>3 DEF WakeInv, SureAlone
<1>7. SureAlone'
  <2> SUFFICES ASSUME NEW a \in Waker, NEW b \in Waker, Wakes!Busy(a)', wake'[a].sure,
                      Wakes!Busy(b)'
               PROVE  b = a
    BY DEF SureAlone, Wakes!Busy
  <2>1. a = p /\ r.sure /\ r.at \notin {"idle", "over"}
    BY <1>1, <1>3, <1>6
  <2>2. b # p => Wakes!Busy(b) /\ wake[p].sure
    BY <1>3, <2>1
  <2> QED
    BY <2>1, <2>2 DEF WakeInv, SureAlone
<1>8. Plans'
  BY <1>1 DEF WakeInv, Plans, Planned, Placed
<1>9. ~amiss' => Sighted'
  <2> SUFFICES ASSUME ~amiss', NEW q \in Waker, Wakes!Busy(q)', wake'[q].sure
               PROVE  Sees(q)'
    BY DEF Sighted, Wakes!Busy
  <2>1. q = p /\ r.sure /\ r.at \notin {"idle", "over"}
    BY <1>1, <1>3, <1>6
  <2> QED
    BY <2>1
<1> QED
  BY <1>2, <1>4, <1>5, <1>7, <1>8, <1>9 DEF WakeInv

-----------------------------------------------------------------------------
LEMMA CountedTabs == Counted \in SUBSET Wakes!Tab
BY DEF Counted

\* A step that counts nothing leaves the room there was.
LEMMA RoomStays ==
    ASSUME Room, NEW p \in Waker,
           \A q \in Waker \ {p} : wake'[q] = wake[q],
           Counted' \subseteq Counted, Past(p)' => Past(p)
    PROVE  Room'
<1>1. /\ Cardinality(Counted') <= Cardinality(Counted)
      /\ Cardinality(Counted') \in Nat /\ Cardinality(Counted) \in Nat
  BY CountedTabs, TabsFinite
<1>2. \A q \in Waker : Past(q)' => Past(q)
  BY DEF Past
<1> QED
  BY <1>1, <1>2, PartsConstants DEF Room

\* The agent that was counted for takes the room there is.
LEMMA RoomFills ==
    ASSUME Room, NEW p \in Waker, NEW t, Past(p), ~Past(p)',
           \A q \in Waker \ {p} : wake'[q] = wake[q],
           Counted' \subseteq Counted \cup {t}
    PROVE  Room'
<1>1. IsFiniteSet(Counted) /\ Counted' \in SUBSET Wakes!Tab /\ IsFiniteSet(Counted')
  <2>1. Counted' \in SUBSET Wakes!Tab
    BY DEF Counted
  <2> QED
    BY <2>1, CountedTabs, TabsFinite
<1>2. Cardinality(Counted) < Cap /\ Cardinality(Counted) \in Nat
  BY CountedTabs, TabsFinite DEF Room
<1>3. IsFiniteSet(Counted \cup {t}) /\ Cardinality(Counted \cup {t}) <= Cardinality(Counted) + 1
      /\ Cardinality(Counted \cup {t}) \in Nat
  <2>1. /\ IsFiniteSet(Counted \cup {t})
        /\ Cardinality(Counted \cup {t}) \in {Cardinality(Counted), Cardinality(Counted) + 1}
    <3>1. /\ IsFiniteSet(Counted \cup {t})
          /\ Cardinality(Counted \cup {t})
               = IF t \in Counted THEN Cardinality(Counted) ELSE Cardinality(Counted) + 1
      BY <1>1, FS_AddElement
    <3> QED
      BY <3>1
  <2> QED
    BY <1>2, <2>1
<1>4. Cardinality(Counted') <= Cardinality(Counted \cup {t}) /\ Cardinality(Counted') \in Nat
  BY <1>1, <1>3, FS_Subset, FS_CardinalityType
<1>5. Cardinality(Counted') <= Cap
  BY <1>2, <1>3, <1>4, PartsConstants
<1>6. \A q \in Waker : ~Past(q)'
  BY DEF Past, Room
<1> QED
  BY <1>5, <1>6 DEF Room

\* Where a waker that is sure has counted the agents, or there were none that it could miss, and
\* none was on its way, there is room.
LEMMA RoomFound ==
    ASSUME WakeInv, ~amiss, NEW p \in Waker, Wakes!Busy(p), wake[p].sure,
           NEW missed, Wakes!Room(missed), missed => Wakes!Live = {},
           ~\E t \in Wakes!Tab : tabs[t].runs = "starting",
           \A q \in Waker \ {p} : wake'[q] = wake[q], tabs' = tabs
    PROVE  Room'
<1>1. Counted \subseteq Wakes!Live
  <2> SUFFICES ASSUME NEW t \in Wakes!Tab, tabs[t].counted PROVE t \in Wakes!Live
    BY DEF Counted
  <2>1. tabs[t].runs = "agent" /\ ~tabs[t].twin
    BY DEF WakeInv, CountedRuns, Tidy, Wakes!OneOfAKind
  <2> QED
    BY <2>1 DEF Wakes!Live, Wakes!Unique, Wakes!Has
<1>2. /\ Cardinality(Counted) <= Cardinality(Wakes!Live)
      /\ Cardinality(Counted) \in Nat /\ Cardinality(Wakes!Live) \in Nat
  <2>1. Wakes!Live \in SUBSET Wakes!Tab
    BY DEF Wakes!Live
  <2> QED
    BY <1>1, <2>1, CountedTabs, TabsFinite
<1>3. Cardinality(Wakes!Live) < Cap
  <2>1. Wakes!Live = {} => Cardinality(Wakes!Live) = 0
    BY FS_EmptySet
  <2>2. missed \/ Cardinality(Wakes!Live) < Cap
    BY SameCardinality DEF Wakes!Room
  <2> QED
    BY <2>1, <2>2, PartsConstants
<1>4. Cardinality(Counted) < Cap
  BY <1>2, <1>3, PartsConstants
<1>5. Counted' = Counted
  BY DEF Counted
<1>6. \A q \in Waker \ {p} : ~Past(q)'
  BY DEF WakeInv, SureAlone, Past, Wakes!Busy
<1> QED
  BY <1>2, <1>4, <1>5, <1>6, PartsConstants DEF Room

-----------------------------------------------------------------------------
LEMMA TabsStay ==
    ASSUME WakeInv, tabs' = tabs
    PROVE  /\ tabs' \in [Wakes!Tab -> Pane] /\ CountedRuns' /\ Fewer /\ Counted' = Counted
           /\ Wakes!Sessions' = Wakes!Sessions
BY WakeTyped DEF WakeInv, CountedRuns, Fewer, Counted, Wakes!Has, Wakes!Sessions, Wakes!Names

\* A launch command opens no window, and may count the agent it starts.
LEMMA TypesEffect ==
    ASSUME WakeInv, NEW t \in Wakes!Tab, NEW d \in Wakes!Dir, NEW c \in BOOLEAN, Wakes!Types(t, d, c)
    PROVE  /\ tabs' \in [Wakes!Tab -> Pane] /\ CountedRuns'
           /\ amiss' \in BOOLEAN /\ (amiss => amiss') /\ (~amiss' => Fewer)
           /\ Wakes!Sessions' = Wakes!Sessions
           /\ Counted' \subseteq Counted \cup (IF c THEN {t} ELSE {})
<1>1. tabs \in [Wakes!Tab -> Pane] /\ amiss \in BOOLEAN
  BY WakeTyped DEF WakeInv
<1>2. CASE tabs[t].runs = "shell"
  <2> DEFINE w == [Wakes!Shell(d) EXCEPT !.runs = "starting", !.counted = c]
  <2>1. w.runs = "starting" /\ w.dir = d /\ w.counted = c /\ ~w.twin
    BY DEF Wakes!Shell
  <2>2. w \in Pane
    <3>1. Wakes!Shell(d) \in Pane
      BY DEF Pane, Wakes!Shell
    <3> QED
      BY <3>1 DEF Pane
  <2>3. tabs' = [tabs EXCEPT ![t] = w] /\ amiss' = (amiss \/ tabs[t].dir # d) /\ Wakes!Has(t)
    BY <1>2 DEF Wakes!Types, Wakes!Unique
  <2> HIDE DEF w
  <2>4. /\ tabs' \in [Wakes!Tab -> Pane] /\ tabs'[t] = w
        /\ \A u \in Wakes!Tab : u # t => tabs'[u] = tabs[u]
    BY <1>1, <2>2, <2>3
  <2>5. /\ tabs'[t].runs = "starting" /\ tabs'[t].dir = d /\ tabs'[t].counted = c /\ ~tabs'[t].twin
    BY <2>1, <2>4
  <2>6. CountedRuns'
    BY <2>4, <2>5 DEF WakeInv, CountedRuns
  <2>7. ~amiss' => Fewer
    BY <2>3, <2>4, <2>5 DEF Fewer, Wakes!Has
  <2>8. Counted' \subseteq Counted \cup (IF c THEN {t} ELSE {})
    BY <2>4, <2>5 DEF Counted
  <2>9. \A u \in Wakes!Tab : Wakes!Has(u)' <=> Wakes!Has(u)
    BY <2>3, <2>4, <2>5 DEF Wakes!Has
  <2>10. Wakes!Sessions' = Wakes!Sessions
    BY <2>9 DEF Wakes!Sessions, Wakes!Names, Wakes!Tab
  <2> QED
    BY <1>1, <2>3, <2>4, <2>6, <2>7, <2>8, <2>10
<1>3. CASE tabs[t].runs # "shell"
  <2>1. tabs' = tabs /\ amiss' = amiss
    BY <1>3 DEF Wakes!Types
  <2> QED
    BY <1>1, <2>1, TabsStay
<1> QED
  BY <1>2, <1>3

\* A window opens: nothing is counted, and all is well where nothing was of its name or place.
LEMMA NewEffect ==
    ASSUME WakeInv, NEW t \in Wakes!Tab, NEW d \in Wakes!Dir, Wakes!New(t, d)
    PROVE  /\ tabs' \in [Wakes!Tab -> Pane] /\ CountedRuns' /\ Counted' \subseteq Counted
           /\ Wakes!Sessions' = Wakes!Sessions \cup {t[1]}
           /\ Wakes!Names(t[1])' = Wakes!Names(t[1]) \cup {t[2]}
           /\ Tidy /\ ~Wakes!Taken(t, d) /\ Placed(t[2], d) /\ Wakes!Sessions \subseteq {t[1]} =>
                /\ Tidy' /\ tabs'[t].dir = d
                /\ \A u \in Wakes!Tab : u # t => tabs'[u] = tabs[u]
<1> DEFINE w == IF Wakes!Has(t) THEN [tabs[t] EXCEPT !.twin = TRUE] ELSE Wakes!Shell(d)
<1>1. tabs \in [Wakes!Tab -> Pane]
  BY WakeTyped DEF WakeInv
<1>2. /\ w \in Pane /\ w.runs # "none" /\ (w.counted => tabs[t].counted /\ w.runs = tabs[t].runs)
      /\ ~Wakes!Has(t) => w.dir = d /\ ~w.twin
  <2>1. CASE Wakes!Has(t)
    <3>1. tabs[t] \in Pane
      BY <1>1
    <3>2. w = [tabs[t] EXCEPT !.twin = TRUE]
      BY <2>1
    <3> QED
      BY <2>1, <3>1, <3>2 DEF Pane, Wakes!Has
  <2>2. CASE ~Wakes!Has(t)
    BY <2>2 DEF Pane, Wakes!Shell
  <2> QED
    BY <2>1, <2>2
<1>3. tabs' = [tabs EXCEPT ![t] = w]
  BY DEF Wakes!New
<1> HIDE DEF w
<1>4. /\ tabs' \in [Wakes!Tab -> Pane] /\ tabs'[t] = w
      /\ \A u \in Wakes!Tab : u # t => tabs'[u] = tabs[u]
  BY <1>1, <1>2, <1>3
<1>5. CountedRuns' /\ Counted' \subseteq Counted
  BY <1>2, <1>4 DEF WakeInv, CountedRuns, Counted
<1>6. \A u \in Wakes!Tab : Wakes!Has(u)' <=> Wakes!Has(u) \/ u = t
  BY <1>2, <1>4 DEF Wakes!Has
<1>7. /\ Wakes!Names(t[1])' = Wakes!Names(t[1]) \cup {t[2]}
      /\ \A s \in Wakes!Session : s # t[1] => Wakes!Names(s)' = Wakes!Names(s)
      /\ t[1] \in Wakes!Session /\ t[2] \in Wakes!Name
  <2>1. t = <<t[1], t[2]>> /\ t[1] \in Wakes!Session /\ t[2] \in Wakes!Name
    BY DEF Wakes!Tab
  <2>2. \A s \in Wakes!Session, n \in Wakes!Name :
          Wakes!Has(<<s, n>>)' <=> Wakes!Has(<<s, n>>) \/ (s = t[1] /\ n = t[2])
    <3> SUFFICES ASSUME NEW s \in Wakes!Session, NEW n \in Wakes!Name
                 PROVE  Wakes!Has(<<s, n>>)' <=> Wakes!Has(<<s, n>>) \/ (s = t[1] /\ n = t[2])
      BY DEF Wakes!Has
    <3>1. <<s, n>> \in Wakes!Tab
      BY DEF Wakes!Tab
    <3>2. <<s, n>> = t <=> s = t[1] /\ n = t[2]
      BY <2>1
    <3> QED
      BY <1>6, <3>1, <3>2
  <2> QED
    BY <2>1, <2>2 DEF Wakes!Names
<1>8. Wakes!Sessions' = Wakes!Sessions \cup {t[1]}
  BY <1>7 DEF Wakes!Sessions
<1>9. ASSUME Tidy, ~Wakes!Taken(t, d), Placed(t[2], d), Wakes!Sessions \subseteq {t[1]}
      PROVE  Tidy' /\ tabs'[t].dir = d
  <2>1. ~Wakes!Has(t) /\ tabs'[t].dir = d /\ ~tabs'[t].twin
    BY <1>2, <1>4, <1>9 DEF Wakes!Taken
  <2>2. Wakes!OneOfAKind'
    BY <1>4, <1>8, <1>9, <2>1 DEF Tidy, Wakes!OneOfAKind
  <2>3. \A u \in Wakes!Tab : u # t /\ Wakes!Has(u) => tabs[u].dir # d
    <3> SUFFICES ASSUME NEW u \in Wakes!Tab, u # t, Wakes!Has(u) PROVE tabs[u].dir # d
      OBVIOUS
    <3>1. u = <<u[1], u[2]>> /\ u[1] \in Wakes!Session /\ u[2] \in Wakes!Name
      BY DEF Wakes!Tab
    <3>2. u[2] \in Wakes!Names(u[1])
      BY <3>1 DEF Wakes!Names
    <3>3. u[1] = t[1]
      BY <1>9, <3>1, <3>2 DEF Wakes!Sessions
    <3> QED
      BY <1>9, <3>1, <3>2, <3>3 DEF Wakes!Taken
  <2>4. Wakes!OwnDirectory'
    BY <1>4, <1>6, <1>9, <2>1, <2>3 DEF Tidy, Wakes!OwnDirectory
  <2>5. \A u \in Wakes!Tab : Wakes!Has(u)' => Placed(u[2], tabs'[u].dir)
    BY <1>4, <1>6, <1>9, <2>1 DEF Tidy
  <2> QED
    BY <2>1, <2>2, <2>4, <2>5 DEF Tidy, Placed
<1> QED
  BY <1>4, <1>5, <1>7, <1>8, <1>9

-----------------------------------------------------------------------------
\* A step that opens no window keeps what is said of windows.
LEMMA TidyStays ==
    ASSUME WakeInv, {unseen', amiss'} \subseteq BOOLEAN, amiss => amiss', ~amiss' => Fewer,
           mapped' = mapped, Wakes!Sessions' = Wakes!Sessions
    PROVE  /\ ~amiss' => Tidy'
           /\ mapped => Wakes!Sessions' \subseteq {1}
BY FewerSeen DEF WakeInv, OnlyMapped

\* A wake that is over, one way or another.
LEMMA OverGoesOn ==
    ASSUME WakeInv, NEW p \in Waker, Wakes!Busy(p), Wakes!Over(p),
           UNCHANGED <<crew, mapped, ends>>, worktrees' \subseteq Tree,
           tabs' \in [Wakes!Tab -> Pane], CountedRuns',
           {unseen', amiss'} \subseteq BOOLEAN, amiss => amiss', unseen => unseen',
           ~amiss' => Fewer, Wakes!Sessions' = Wakes!Sessions,
           \/ Counted' \subseteq Counted
           \/ Past(p) /\ \E t : Counted' \subseteq Counted \cup {t}
    PROVE  WakeInv'
<1>1. PICK r \in Waking : Wakes!Goes(p, r) /\ r.at \in {"idle", "over"} /\ r.todo = {} /\ r.session = 0
  <2>1. Wakes!Idle.at = "idle" /\ Wakes!Idle.todo = {} /\ Wakes!Idle.session = 0
    BY DEF Wakes!Idle
  <2>2. /\ [Wakes!Idle EXCEPT !.at = "over"].at = "over"
        /\ [Wakes!Idle EXCEPT !.at = "over"].todo = {} /\ [Wakes!Idle EXCEPT !.at = "over"].session = 0
    BY DEF Wakes!Idle
  <2>3. CASE crew = {p}
    BY <2>1, <2>3, IdleTyped DEF Wakes!Over
  <2>4. CASE crew # {p}
    BY <2>2, <2>4, IdleTyped DEF Wakes!Over
  <2> QED
    BY <2>3, <2>4
<1>2. wake'[p] = r /\ \A q \in Waker \ {p} : wake'[q] = wake[q]
  BY <1>1, WakeTyped DEF WakeInv, Wakes!Goes
<1>3. (~amiss' => Tidy') /\ (mapped => Wakes!Sessions' \subseteq {1})
  BY TidyStays
<1>4. ~amiss' /\ ~unseen' => Room'
  <2> SUFFICES ASSUME ~amiss', ~unseen' PROVE Room'
    OBVIOUS
  <2>1. Room /\ ~Past(p)'
    BY <1>1, <1>2 DEF WakeInv, Past
  <2> QED
    BY <1>2, <2>1, RoomStays, RoomFills
<1>5. Planned(r.todo)
  BY <1>1 DEF Planned
<1>6. ends' \in 0..MaxEnds
  BY WakeTyped DEF WakeInv
<1> QED
  BY <1>1, <1>3, <1>4, <1>5, <1>6, WakerGoesOn

LEMMA FailsStep ==
    ASSUME WakeInv, NEW p \in Waker, Wakes!Busy(p), Wakes!Fails(p) PROVE WakeInv'
<1>1. Wakes!Over(p) /\ UNCHANGED <<crew, ends, mapped, worktrees, tabs, unseen, amiss>>
  BY DEF Wakes!Fails
<1>2. worktrees' \subseteq Tree /\ {unseen', amiss'} \subseteq BOOLEAN
  BY <1>1, WakeTyped DEF WakeInv
<1> QED
  BY <1>1, <1>2, TabsStay, OverGoesOn

\* A waker that goes on and leaves the windows and the counts alone.
LEMMA QuietGoesOn ==
    ASSUME WakeInv, NEW p \in Waker, Wakes!Busy(p), NEW r \in Waking, Wakes!Goes(p, r),
           UNCHANGED <<crew, ends, mapped, tabs, unseen, amiss>>, worktrees' \subseteq Tree,
           r.at \notin {"idle", "over", "name", "number", "create", "launch", "start"},
           r.at = "open" => wake[p].at = "open",
           r.sure => wake[p].sure, r.session = wake[p].session, wake[p].at \notin {"name", "number"},
           Planned(r.todo), r.at \in {"room", "open"} => Placed(r.name, r.dir),
           ~amiss /\ r.sure => Sees(p)'
    PROVE  WakeInv'
<1>1. wake'[p] = r /\ \A q \in Waker \ {p} : wake'[q] = wake[q]
  BY WakeTyped DEF WakeInv, Wakes!Goes
<1>2. {unseen', amiss'} \subseteq BOOLEAN /\ ends' \in 0..MaxEnds
  BY WakeTyped DEF WakeInv
<1>3. /\ tabs' \in [Wakes!Tab -> Pane] /\ CountedRuns' /\ Fewer /\ Counted' = Counted
      /\ Wakes!Sessions' = Wakes!Sessions
  BY TabsStay
<1>4. ~amiss' /\ ~unseen' => Room'
  <2> SUFFICES ASSUME ~amiss', ~unseen' PROVE Room'
    OBVIOUS
  <2>1. Room /\ (Past(p)' => Past(p))
    BY <1>1 DEF WakeInv, Past
  <2> QED
    BY <1>1, <1>3, <2>1, RoomStays
<1>5. mapped => r.session \in {0, 1}
  BY DEF WakeInv, OnlyMapped
<1>6. r.session # 0
  BY DEF WakeInv, Underneath
<1> QED
  BY <1>2, <1>3, <1>4, <1>5, <1>6, TidyStays, WakerGoesOn

LEMMA WindowCheckStep ==
    ASSUME WakeInv, NEW p \in Waker, Wakes!Check(p) PROVE WakeInv'
<1>1. /\ wake[p].at = "check" /\ Wakes!Busy(p)
      /\ UNCHANGED <<crew, ends, mapped, worktrees, tabs, unseen, amiss>>
  BY DEF Wakes!Check, Wakes!At, Wakes!Busy
<1>2. CASE Wakes!Over(p)
  BY <1>1, <1>2, FailsStep DEF Wakes!Fails
<1>3. CASE Wakes!GoesTo(p, "relaunch")
  <2> DEFINE r == [wake[p] EXCEPT !.at = "relaunch"]
  <2>1. /\ r \in Waking /\ r.at = "relaunch" /\ r.session = wake[p].session /\ r.sure = wake[p].sure
        /\ r.todo = wake[p].todo
    BY WakeTyped DEF WakeInv, Waking, Wakes!Place
  <2>2. Wakes!Goes(p, r)
    BY <1>3 DEF Wakes!GoesTo
  <2> HIDE DEF r
  <2>3. wake'[p] = r
    BY <2>2, WakeTyped DEF WakeInv, Wakes!Goes
  <2>4. Sees(p)'
    BY <2>1, <2>3 DEF Sees
  <2>5. worktrees' \subseteq Tree /\ Planned(r.todo)
    BY <1>1, <2>1, WakeTyped DEF WakeInv, Plans
  <2> QED
    BY <1>1, <2>1, <2>2, <2>4, <2>5, QuietGoesOn
<1> QED
  BY <1>2, <1>3 DEF Wakes!Check

LEMMA ListStep ==
    ASSUME WakeInv, NEW p \in Waker, Wakes!List(p) PROVE WakeInv'
<1>a. PICK s : s = wake[p].session
  OBVIOUS
<1>1. /\ wake[p].at = "list" /\ Wakes!Busy(p) /\ s \in Wakes!Session
      /\ UNCHANGED <<crew, ends, mapped, worktrees, tabs, unseen, amiss>>
      /\ worktrees \subseteq Tree /\ wake[p] \in Waking
  BY <1>a, WakeTyped DEF WakeInv, Underneath, Wakes!List, Wakes!At, Wakes!Busy, Waking
<1>b. PICK reliable \in BOOLEAN :
         \E todo \in IF wake[p].rehydrate
                       THEN Wakes!Plans((IF reliable THEN Wakes!Names(s) ELSE {})
                                          \cup (IF wake[p].created THEN {Main} ELSE {}))
                       ELSE {{}} :
             Wakes!Goes(p, [wake[p] EXCEPT !.at = "spawn",
                                           !.known = (IF reliable THEN Wakes!Names(s) ELSE {})
                                                       \cup (IF wake[p].created THEN {Main} ELSE {}),
                                           !.todo = todo, !.rehydrate = FALSE,
                                           !.reliable = reliable \/ wake[p].created])
  BY <1>a DEF Wakes!List
<1>c. PICK known : known = (IF reliable THEN Wakes!Names(s) ELSE {})
                             \cup (IF wake[p].created THEN {Main} ELSE {})
  OBVIOUS
<1>2. PICK todo \in IF wake[p].rehydrate THEN Wakes!Plans(known) ELSE {{}} :
             Wakes!Goes(p, [wake[p] EXCEPT !.at = "spawn", !.known = known, !.todo = todo,
                                           !.rehydrate = FALSE,
                                           !.reliable = reliable \/ wake[p].created])
  BY <1>c, <1>b
<1>3. /\ known \subseteq Wakes!Name
      /\ todo = {} \/ todo \in Wakes!Plans(known)
  BY <1>c, <1>2 DEF Wakes!Names, Wakes!Name
<1>4. ASSUME NEW x \in todo
      PROVE  /\ x \in Wakes!Name \X Tree /\ (x[1] = Plain \/ x[1] = x[2])
             /\ x[1] \notin known /\ x[2] \notin known /\ Plain \notin known
             /\ \A y \in todo : x # y => x[1] # y[1] /\ x[2] # y[2]
  <2>1. Plain \notin known
    BY <1>3, <1>4 DEF Wakes!Plans
  <2>2. PICK head \in worktrees \ known :
          todo = {<<Plain, head>>} \cup {<<w, w>> : w \in (worktrees \ known) \ {head}}
    BY <1>3, <1>4 DEF Wakes!Plans
  <2>3. Plain \notin worktrees /\ worktrees \subseteq Tree /\ Tree \subseteq Wakes!Name
        /\ Plain \in Wakes!Name
    BY <1>1, PartsConstants DEF Wakes!Name
  <2>4. \A y \in todo : \/ y = <<Plain, head>>
                        \/ \E w \in (worktrees \ known) \ {head} : y = <<w, w>>
    BY <2>2
  <2>5. \A y \in todo : /\ y \in Wakes!Name \X Tree /\ (y[1] = Plain \/ y[1] = y[2])
                        /\ y[1] \notin known /\ y[2] \in worktrees \ known
                        /\ y[1] = Plain => y = <<Plain, head>>
                        /\ y[1] # Plain => y = <<y[2], y[2]>> /\ y[2] # head
    BY <2>1, <2>3, <2>4
  <2> QED
    BY <1>4, <2>1, <2>5
<1> DEFINE r == [wake[p] EXCEPT !.at = "spawn", !.known = known, !.todo = todo,
                                !.rehydrate = FALSE, !.reliable = reliable \/ wake[p].created]
<1>5. /\ r.at = "spawn" /\ r.session = s /\ r.sure = wake[p].sure /\ r.todo = todo
      /\ r.known = known /\ r.reliable = (reliable \/ wake[p].created)
  BY <1>a, <1>1 DEF Waking
<1>6. r \in Waking
  <2>1. todo \in SUBSET (Wakes!Name \X Tree) /\ known \in SUBSET Wakes!Name
    BY <1>3, <1>4
  <2>2. (reliable \/ wake[p].created) \in BOOLEAN
    BY <1>1 DEF Waking
  <2> QED
    BY <1>1, <2>1, <2>2 DEF Waking, Wakes!Place
<1>7. Wakes!Goes(p, r)
  BY <1>2
<1> HIDE DEF r
<1>8. wake'[p] = r
  BY <1>7, WakeTyped DEF WakeInv, Wakes!Goes
<1>9. ASSUME ~amiss, r.sure PROVE Sees(p)'
  <2>1. Sees(p) /\ Tidy
    BY <1>1, <1>5, <1>9 DEF WakeInv, Sighted
  <2>2. r.reliable => Wakes!Names(s) \subseteq known
    BY <1>a, <1>1, <1>c, <1>5, <2>1 DEF Sees
  <2>3. Wakes!Names(s)' = Wakes!Names(s)
    BY <1>1 DEF Wakes!Names, Wakes!Has
  <2>4. ASSUME r.reliable, NEW x \in todo PROVE ~Wakes!Taken(<<s, x[1]>>, x[2])
    <3>1. x[1] \notin Wakes!Names(s) /\ x[1] \in Wakes!Name
      BY <1>4, <2>2, <2>4
    <3>2. ~Wakes!Has(<<s, x[1]>>)
      BY <3>1 DEF Wakes!Names
    <3>3. ASSUME NEW n \in Wakes!Names(s) PROVE tabs[<<s, n>>].dir # x[2]
      <4>1. <<s, n>> \in Wakes!Tab /\ Wakes!Has(<<s, n>>)
        BY <1>1 DEF Wakes!Names, Wakes!Tab
      <4>2. Placed(n, tabs[<<s, n>>].dir)
        BY <2>1, <4>1 DEF Tidy
      <4>3. n # Plain /\ n # x[2] /\ x[2] \in Tree
        BY <1>4, <2>2, <2>4, <3>3
      <4> QED
        BY <4>2, <4>3, PartsConstants DEF Placed
    <3> QED
      BY <3>2, <3>3 DEF Wakes!Taken
  <2>5. \A x \in todo : Wakes!Taken(<<s, x[1]>>, x[2])' <=> Wakes!Taken(<<s, x[1]>>, x[2])
    BY <1>1 DEF Wakes!Taken, Wakes!Has, Wakes!Names
  <2> QED
    BY <1>5, <1>8, <2>2, <2>3, <2>4, <2>5 DEF Sees, Wakes!Taken
<1>10. Planned(r.todo)
  BY <1>4, <1>5 DEF Planned
<1> QED
  BY <1>a, <1>1, <1>5, <1>6, <1>7, <1>9, <1>10, QuietGoesOn

LEMMA ChooseWindowStep ==
    ASSUME WakeInv, NEW p \in Waker, Wakes!ChooseWindow(p) PROVE WakeInv'
<1> DEFINE d == Wakes!Worktree(p)
           name == IF d = 0 THEN Main ELSE Plain
           existing == Wakes!Existing(wake[p].known, name)
           chosen == [Wakes!Idle EXCEPT !.session = wake[p].session, !.dir = d, !.sure = wake[p].sure]
<1>1. /\ wake[p].at = "window" /\ Wakes!Busy(p) /\ wake[p].session \in Wakes!Session
      /\ wake[p] \in Waking /\ d \in Wakes!Dir /\ worktrees' \subseteq Tree
      /\ UNCHANGED <<crew, ends, mapped, tabs, unseen, amiss>>
  <2>1. wake[p].at = "window" /\ Wakes!Busy(p) /\ d \in Wakes!Dir
        /\ worktrees' = worktrees \cup ({d} \ {0})
        /\ UNCHANGED <<crew, ends, mapped, tabs, unseen, amiss>>
    BY DEF Wakes!ChooseWindow, Wakes!At, Wakes!Busy
  <2>2. wake[p] \in Waking /\ worktrees \subseteq Tree /\ wake[p].session \in Wakes!Session
    BY <2>1, WakeTyped DEF WakeInv, Underneath, Waking
  <2> QED
    BY <2>1, <2>2 DEF Wakes!Dir
<1>2. existing \subseteq Wakes!Name /\ name \in Wakes!Name
  BY <1>1 DEF Wakes!Existing, Waking, Wakes!Name
<1>3. ASSUME NEW here \in {"check", "room"}, NEW n \in Wakes!Name,
             Wakes!Goes(p, [chosen EXCEPT !.at = here, !.name = n]),
             here = "room" => n = name /\ existing = {} /\ wake[p].reliable
      PROVE  WakeInv'
  <2> DEFINE r == [chosen EXCEPT !.at = here, !.name = n]
  <2>1. /\ r \in Waking /\ r.at = here /\ r.session = wake[p].session /\ r.sure = wake[p].sure
        /\ r.todo = {} /\ r.dir = d /\ r.name = n
    <3>1. PICK i \in Waking : i = Wakes!Idle /\ i.todo = {}
      BY IdleTyped DEF Wakes!Idle
    <3>2. PICK s, sure, e : /\ s \in {0} \cup Wakes!Session /\ s = wake[p].session
                            /\ sure \in BOOLEAN /\ sure = wake[p].sure
                            /\ e \in Wakes!Dir /\ e = d
      BY <1>1 DEF Waking
    <3>3. r = [i EXCEPT !.session = s, !.dir = e, !.sure = sure, !.at = here, !.name = n]
      BY <3>1, <3>2
    <3> HIDE DEF r
    <3>4. here \in Wakes!Place
      BY DEF Wakes!Place
    <3>5. r \in Waking
      BY <3>2, <3>3, <3>4 DEF Waking
    <3>6. r.at = here /\ r.session = s /\ r.todo = {} /\ r.dir = e /\ r.name = n
      BY <3>1, <3>3 DEF Waking
    <3>7. r.sure = sure
      BY <3>3 DEF Waking
    <3> QED
      BY <3>2, <3>5, <3>6, <3>7
  <2> HIDE DEF r, d, name, existing
  <2>2. wake'[p] = r
    BY <1>3, WakeTyped DEF WakeInv, Wakes!Goes, r
  <2>3. here = "room" => Placed(n, d) /\ n \notin Tree
    BY <1>1, <1>3, PartsConstants DEF Placed, Wakes!Dir, name
  <2>4. ASSUME ~amiss, r.sure, here = "room" PROVE ~Wakes!Taken(<<wake[p].session, n>>, d)
    <3>1. Sees(p) /\ Tidy
      BY <1>1, <2>1, <2>4 DEF WakeInv, Sighted
    <3>2. Wakes!Names(wake[p].session) \subseteq wake[p].known
      BY <1>1, <1>3, <2>4, <3>1 DEF Sees
    <3>3. /\ n \notin wake[p].known
          /\ n = Plain => wake[p].known \cap Tree = {}
      BY <1>3, <2>4, PartsConstants DEF Wakes!Existing, existing
    <3>4. ~Wakes!Has(<<wake[p].session, n>>)
      BY <1>3, <3>2, <3>3 DEF Wakes!Names
    <3>5. ASSUME NEW m \in Wakes!Names(wake[p].session)
          PROVE  tabs[<<wake[p].session, m>>].dir # d
      <4>1. <<wake[p].session, m>> \in Wakes!Tab /\ Wakes!Has(<<wake[p].session, m>>)
        BY <1>1 DEF Wakes!Names, Wakes!Tab
      <4>2. Placed(m, tabs[<<wake[p].session, m>>].dir)
        BY <3>1, <4>1 DEF Tidy
      <4>3. m \in wake[p].known /\ m # n
        BY <3>2, <3>3
      <4>4. Placed(n, d) /\ n \notin Tree
        BY <2>3, <2>4
      <4> QED
        BY <3>3, <4>2, <4>3, <4>4, PartsConstants DEF Placed
    <3> QED
      BY <3>4, <3>5 DEF Wakes!Taken
  <2>5. tabs' = tabs
    BY <1>1
  <2>6. ASSUME ~amiss, r.sure PROVE Sees(p)'
    BY <2>1, <2>2, <2>4, <2>5, <2>6 DEF Sees, Wakes!Taken, Wakes!Has, Wakes!Names
  <2>7. Planned(r.todo)
    BY <2>1 DEF Planned
  <2> QED
    BY <1>1, <1>3, <2>1, <2>3, <2>6, <2>7, QuietGoesOn DEF r
<1>4. CASE Wakes!Over(p)
  <2>1. {unseen', amiss'} \subseteq BOOLEAN
    BY <1>1, WakeTyped DEF WakeInv
  <2> QED
    BY <1>1, <1>4, <2>1, TabsStay, OverGoesOn
<1> QED
  BY <1>2, <1>3, <1>4 DEF Wakes!ChooseWindow

LEMMA RetryStep ==
    ASSUME WakeInv, NEW p \in Waker, Wakes!Retry(p) PROVE WakeInv'
<1> DEFINE idle == IF wake[p].created THEN {}
                   ELSE {t \in {wake[p].session} \X (Wakes!Name \ wake[p].known) :
                             Wakes!Unique(t) /\ tabs[t].runs = "shell"}
           r == [wake[p] EXCEPT !.at = "window", !.created = FALSE]
<1>1. /\ wake[p].at = "spawn" /\ wake[p].todo = {} /\ Wakes!Busy(p)
      /\ tabs' = [t \in Wakes!Tab |->
                    IF t \in idle THEN [tabs[t] EXCEPT !.runs = "starting"] ELSE tabs[t]]
      /\ Wakes!Goes(p, r)
      /\ UNCHANGED <<crew, ends, mapped, worktrees, unseen, amiss>>
  BY DEF Wakes!Retry, Wakes!At, Wakes!Busy
<1>2. /\ tabs \in [Wakes!Tab -> Pane] /\ wake[p] \in Waking /\ wake[p].session # 0
      /\ {unseen', amiss'} \subseteq BOOLEAN /\ ends' \in 0..MaxEnds /\ worktrees' \subseteq Tree
  BY <1>1, WakeTyped DEF WakeInv, Underneath
<1>3. \A t \in idle : tabs[t].runs = "shell"
  OBVIOUS
<1> HIDE DEF idle
<1>4. ASSUME NEW t \in Wakes!Tab
      PROVE  /\ tabs'[t] \in Pane
             /\ tabs'[t].dir = tabs[t].dir /\ tabs'[t].twin = tabs[t].twin
             /\ tabs'[t].counted = tabs[t].counted
             /\ tabs'[t].runs = tabs[t].runs \/ (tabs[t].runs = "shell" /\ tabs'[t].runs = "starting")
  <2>1. tabs[t] \in Pane
    BY <1>2
  <2>2. CASE t \in idle
    <3>1. tabs'[t] = [tabs[t] EXCEPT !.runs = "starting"]
      BY <1>1, <2>2
    <3> QED
      BY <1>3, <2>1, <2>2, <3>1 DEF Pane
  <2>3. CASE t \notin idle
    BY <1>1, <2>1, <2>3
  <2> QED
    BY <2>2, <2>3
<1>5. tabs' \in [Wakes!Tab -> Pane]
  BY <1>1, <1>4
<1>6. CountedRuns' /\ Fewer /\ Counted' = Counted
  BY <1>4 DEF WakeInv, CountedRuns, Fewer, Counted, Wakes!Has
<1>7. \A t \in Wakes!Tab : Wakes!Has(t)' <=> Wakes!Has(t)
  BY <1>4 DEF Wakes!Has
<1>8. \A s \in Wakes!Session : Wakes!Names(s)' = Wakes!Names(s)
  BY <1>7 DEF Wakes!Names, Wakes!Tab
<1>9. Wakes!Sessions' = Wakes!Sessions
  BY <1>8 DEF Wakes!Sessions
<1>10. /\ r \in Waking /\ r.at = "window" /\ r.session = wake[p].session /\ r.sure = wake[p].sure
       /\ r.todo = {} /\ r.known = wake[p].known /\ r.reliable = wake[p].reliable
  BY <1>1, <1>2 DEF Waking, Wakes!Place
<1> HIDE DEF r
<1>11. wake'[p] = r /\ \A q \in Waker \ {p} : wake'[q] = wake[q]
  BY <1>1, WakeTyped DEF WakeInv, Wakes!Goes
<1>12. ASSUME ~amiss, r.sure PROVE Sees(p)'
  <2>1. Sees(p)
    BY <1>1, <1>10, <1>12 DEF WakeInv, Sighted
  <2>2. PICK s : s = wake[p].session /\ s \in Wakes!Session
    BY <1>2 DEF Waking
  <2>3. r.reliable => Wakes!Names(s)' \subseteq r.known
    BY <1>1, <1>8, <1>10, <2>1, <2>2 DEF Sees
  <2> QED
    BY <1>10, <1>11, <2>2, <2>3 DEF Sees, Wakes!Names, Wakes!Has
<1>13. ~amiss' /\ ~unseen' => Room'
  <2> SUFFICES ASSUME ~amiss', ~unseen' PROVE Room'
    OBVIOUS
  <2>1. Room /\ ~Past(p)'
    BY <1>1, <1>10, <1>11 DEF WakeInv, Past
  <2> QED
    BY <1>6, <1>11, <2>1, RoomStays
<1>14. Planned(r.todo) /\ (mapped => r.session \in {0, 1})
  BY <1>10 DEF Planned, WakeInv, OnlyMapped
<1> QED
  BY <1>1, <1>2, <1>5, <1>6, <1>9, <1>10, <1>12, <1>13, <1>14, TidyStays, WakerGoesOn

\* The launch of a new agent, in a session of its own ...
LEMMA LaunchStep ==
    ASSUME WakeInv, NEW p \in Waker, Wakes!Launch(p) PROVE WakeInv'
<1> DEFINE t == <<wake[p].session, Main>>
           r == [wake[p] EXCEPT !.at = "list"]
<1>1. /\ wake[p].at = "launch" /\ Wakes!Busy(p) /\ Wakes!Types(t, 0, TRUE) /\ Wakes!Goes(p, r)
      /\ UNCHANGED <<crew, ends, mapped, worktrees, unseen>>
  BY DEF Wakes!Launch, Wakes!At, Wakes!Busy, Wakes!GoesTo
<1>2. /\ wake[p] \in Waking /\ wake[p].session \in Wakes!Session /\ t \in Wakes!Tab /\ 0 \in Wakes!Dir
      /\ ends' \in 0..MaxEnds /\ worktrees' \subseteq Tree /\ unseen' \in BOOLEAN
  BY <1>1, WakeTyped DEF WakeInv, Underneath, Waking, Wakes!Tab, Wakes!Name, Wakes!Dir
<1>3. /\ tabs' \in [Wakes!Tab -> Pane] /\ CountedRuns' /\ amiss' \in BOOLEAN /\ (amiss => amiss')
      /\ (~amiss' => Fewer) /\ Wakes!Sessions' = Wakes!Sessions /\ Counted' \subseteq Counted \cup {t}
  BY <1>1, <1>2, TypesEffect
<1>4. /\ r \in Waking /\ r.at = "list" /\ r.session = wake[p].session /\ r.sure = wake[p].sure
      /\ r.todo = wake[p].todo /\ r.created = wake[p].created
  BY <1>2 DEF Waking, Wakes!Place
<1> HIDE DEF r
<1>5. wake'[p] = r /\ \A q \in Waker \ {p} : wake'[q] = wake[q]
  BY <1>1, WakeTyped DEF WakeInv, Wakes!Goes
<1>6. ASSUME ~amiss', r.sure PROVE Sees(p)'
  <2>1. Sees(p) /\ Fewer
    BY <1>1, <1>3, <1>4, <1>6 DEF WakeInv, Sighted
  <2>2. PICK s : s = wake[p].session /\ s \in Wakes!Session
    BY <1>2
  <2>3. r.created => Wakes!Names(s)' \subseteq {Main}
    BY <1>1, <1>4, <2>1, <2>2, FewerSeen DEF Sees
  <2> QED
    BY <1>4, <1>5, <2>2, <2>3 DEF Sees, Wakes!Names, Wakes!Has
<1>7. ~amiss' /\ ~unseen' => Room'
  <2> SUFFICES ASSUME ~amiss', ~unseen' PROVE Room'
    OBVIOUS
  <2>1. Room /\ Past(p) /\ ~Past(p)'
    BY <1>1, <1>3, <1>4, <1>5 DEF WakeInv, Past
  <2> QED
    BY <1>3, <1>5, <2>1, RoomFills
<1>8. Planned(r.todo) /\ (mapped => r.session \in {0, 1}) /\ r.session # 0
  BY <1>1, <1>4 DEF WakeInv, Plans, OnlyMapped, Underneath
<1> QED
  BY <1>1, <1>2, <1>3, <1>4, <1>6, <1>7, <1>8, TidyStays, WakerGoesOn

\* ... or in a window of its own, and of an agent again.
LEMMA StartStep ==
    ASSUME WakeInv, NEW p \in Waker, Wakes!Start(p) \/ Wakes!Relaunch(p) PROVE WakeInv'
<1>1. /\ Wakes!Busy(p) /\ wake[p].at \notin {"name", "number"} /\ Wakes!Over(p)
      /\ UNCHANGED <<crew, ends, mapped, worktrees, unseen>>
  BY DEF Wakes!Start, Wakes!Relaunch, Wakes!At, Wakes!Busy
<1>2. PICK c \in BOOLEAN : Wakes!Types(Wakes!Target(p), wake[p].dir, c) /\ (c => Past(p))
  BY DEF Wakes!Start, Wakes!Relaunch, Wakes!At, Past
<1>3. PICK t, d : t = Wakes!Target(p) /\ d = wake[p].dir /\ Wakes!Types(t, d, c)
  BY <1>2
<1>4. /\ t \in Wakes!Tab /\ d \in Wakes!Dir
      /\ worktrees' \subseteq Tree /\ unseen' \in BOOLEAN
  BY <1>1, <1>3, WakeTyped DEF WakeInv, Underneath, Waking, Wakes!Tab, Wakes!Target
<1>5. /\ tabs' \in [Wakes!Tab -> Pane] /\ CountedRuns' /\ amiss' \in BOOLEAN /\ (amiss => amiss')
      /\ (~amiss' => Fewer) /\ Wakes!Sessions' = Wakes!Sessions
      /\ Counted' \subseteq Counted \cup (IF c THEN {t} ELSE {})
  BY <1>3, <1>4, TypesEffect
<1>6. \/ Counted' \subseteq Counted
      \/ Past(p) /\ \E u : Counted' \subseteq Counted \cup {u}
  BY <1>2, <1>5
<1> QED
  BY <1>1, <1>4, <1>5, <1>6, OverGoesOn

\* The agents are counted, and there is room: the waker goes on to make a session, or a window.
LEMMA CountStep ==
    ASSUME WakeInv, NEW p \in Waker, NEW there \in {"number", "open"}, Wakes!Busy(p),
           NEW missed \in BOOLEAN, Wakes!Room(missed), unseen' = Wakes!Unseen(p, missed),
           Wakes!GoesTo(p, there), UNCHANGED <<crew, ends, mapped, worktrees, tabs, amiss>>,
           IF there = "number" THEN wake[p].at = "name" ELSE wake[p].at = "room"
    PROVE  WakeInv'
<1> DEFINE r == [wake[p] EXCEPT !.at = there]
<1>1. /\ wake[p] \in Waking /\ ends' \in 0..MaxEnds /\ worktrees' \subseteq Tree
      /\ unseen \in BOOLEAN /\ amiss' \in BOOLEAN
      /\ tabs' = tabs
  BY WakeTyped DEF WakeInv
<1>2. /\ r \in Waking /\ r.at = there /\ r.session = wake[p].session /\ r.sure = wake[p].sure
      /\ r.todo = wake[p].todo /\ r.name = wake[p].name /\ r.dir = wake[p].dir
  BY <1>1 DEF Waking, Wakes!Place
<1>3. Wakes!Goes(p, r)
  BY DEF Wakes!GoesTo
<1> HIDE DEF r
<1>4. wake'[p] = r /\ \A q \in Waker \ {p} : wake'[q] = wake[q]
  BY <1>3, WakeTyped DEF WakeInv, Wakes!Goes
<1>5. unseen' \in BOOLEAN /\ (~unseen' => /\ ~unseen /\ wake[p].sure
                                          /\ (missed => Wakes!Live = {})
                                          /\ ~\E t \in Wakes!Tab : tabs[t].runs = "starting")
  BY <1>1 DEF Wakes!Unseen, Waking
<1>6. /\ tabs' \in [Wakes!Tab -> Pane] /\ CountedRuns' /\ Fewer
      /\ Wakes!Sessions' = Wakes!Sessions
  BY TabsStay
<1>7. ~amiss' /\ ~unseen' => Room'
  BY <1>1, <1>4, <1>5, RoomFound
<1>8. ASSUME ~amiss, r.sure PROVE Sees(p)'
  <2>1. Sees(p)
    BY <1>2, <1>8 DEF WakeInv, Sighted
  <2>2. CASE there = "number"
    <3>1. Wakes!Sessions' = {}
      BY <1>6, <2>1, <2>2 DEF Sees
    <3> QED
      BY <1>2, <1>4, <2>2, <3>1 DEF Sees, Wakes!Sessions, Wakes!Names, Wakes!Has
  <2>3. CASE there = "open"
    <3>1. ~Wakes!Taken(<<wake[p].session, wake[p].name>>, wake[p].dir)
      BY <2>1, <2>3 DEF Sees
    <3> QED
      BY <1>1, <1>2, <1>4, <2>3, <3>1 DEF Sees, Wakes!Taken, Wakes!Names, Wakes!Has
  <2> QED
    BY <2>2, <2>3
<1>9. Planned(r.todo) /\ (r.at \in {"room", "open"} => Placed(r.name, r.dir))
  BY <1>2 DEF WakeInv, Plans
<1>10. (r.at \notin {"name", "number"} => r.session # 0) /\ (mapped => r.session \in {0, 1})
  BY <1>2 DEF WakeInv, Underneath, OnlyMapped
<1> QED
  BY <1>1, <1>2, <1>3, <1>5, <1>6, <1>7, <1>8, <1>9, <1>10, TidyStays, WakerGoesOn

LEMMA CountsStep ==
    ASSUME WakeInv, NEW p \in Waker, Wakes!CountForSession(p) \/ Wakes!CountForWindow(p)
    PROVE  WakeInv'
<1>1. PICK there \in {"number", "open"} :
        /\ Wakes!CountsFor(p, there) /\ Wakes!Busy(p)
        /\ IF there = "number" THEN wake[p].at = "name" ELSE wake[p].at = "room"
  BY DEF Wakes!CountForSession, Wakes!CountForWindow, Wakes!At, Wakes!Busy
<1>2. CASE Wakes!Fails(p)
  BY <1>1, <1>2, FailsStep
<1>3. CASE ~Wakes!Fails(p)
  <2>1. PICK missed \in BOOLEAN :
          /\ Wakes!Room(missed) /\ unseen' = Wakes!Unseen(p, missed) /\ Wakes!GoesTo(p, there)
          /\ UNCHANGED <<crew, ends, mapped, worktrees, tabs, amiss>>
    BY <1>1, <1>3 DEF Wakes!CountsFor
  <2> QED
    BY <1>1, <2>1, CountStep
<1> QED
  BY <1>2, <1>3

\* The session gets its name; one that is mapped has it already.
LEMMA ChooseNameStep ==
    ASSUME WakeInv, NEW p \in Waker, Wakes!ChooseName(p) PROVE WakeInv'
<1>1. wake[p].at = "number" /\ Wakes!Busy(p)
      /\ UNCHANGED <<crew, ends, mapped, worktrees, tabs, unseen, amiss>>
  BY DEF Wakes!ChooseName, Wakes!At, Wakes!Busy
<1>2. PICK s : /\ \E blinded \in BOOLEAN : s \in Wakes!NewName(blinded)
               /\ Wakes!Goes(p, [wake[p] EXCEPT !.at = "create", !.session = s])
  BY DEF Wakes!ChooseName
<1>3. s \in Wakes!Session /\ (mapped => s = 1)
  BY <1>2 DEF Wakes!NewName, Wakes!Session
<1> DEFINE r == [wake[p] EXCEPT !.at = "create", !.session = s]
<1>4. /\ wake[p] \in Waking /\ ends' \in 0..MaxEnds /\ worktrees' \subseteq Tree
      /\ {unseen', amiss'} \subseteq BOOLEAN
  BY <1>1, WakeTyped DEF WakeInv
<1>5. /\ r \in Waking /\ r.at = "create" /\ r.session = s /\ r.sure = wake[p].sure
      /\ r.todo = wake[p].todo
  BY <1>3, <1>4 DEF Waking, Wakes!Place
<1> HIDE DEF r
<1>6. Wakes!Goes(p, r)
  BY <1>2 DEF r
<1>7. wake'[p] = r /\ \A q \in Waker \ {p} : wake'[q] = wake[q]
  BY <1>6, WakeTyped DEF WakeInv, Wakes!Goes
<1>8. /\ tabs' \in [Wakes!Tab -> Pane] /\ CountedRuns' /\ Fewer /\ Counted' = Counted
      /\ Wakes!Sessions' = Wakes!Sessions
  BY <1>1, TabsStay
<1>9. ~amiss' /\ ~unseen' => Room'
  <2> SUFFICES ASSUME ~amiss', ~unseen' PROVE Room'
    OBVIOUS
  <2>1. Room /\ (Past(p)' => Past(p))
    BY <1>1 DEF WakeInv, Past
  <2> QED
    BY <1>7, <1>8, <2>1, RoomStays
<1>10. ASSUME ~amiss, r.sure PROVE Sees(p)'
  <2>1. Wakes!Sessions' = {}
    BY <1>1, <1>5, <1>8, <1>10 DEF WakeInv, Sighted, Sees
  <2> QED
    BY <1>5, <1>7, <2>1 DEF Sees, Wakes!Sessions, Wakes!Names, Wakes!Has
<1>11. Planned(r.todo) /\ r.session # 0 /\ (mapped => r.session \in {0, 1})
  BY <1>3, <1>5 DEF WakeInv, Plans, Wakes!Session
<1> QED
  BY <1>1, <1>4, <1>5, <1>6, <1>8, <1>9, <1>10, <1>11, TidyStays, WakerGoesOn

LEMMA CreateStep ==
    ASSUME WakeInv, NEW p \in Waker, Wakes!Create(p) PROVE WakeInv'
<1>1. wake[p].at = "create" /\ Wakes!Busy(p)
  BY DEF Wakes!Create, Wakes!At, Wakes!Busy
<1>2. CASE Wakes!Fails(p)
  BY <1>1, <1>2, FailsStep
<1>3. CASE ~Wakes!Fails(p)
  <2>1. PICK s, t : s = wake[p].session /\ t = <<s, Main>>
    OBVIOUS
  <2> DEFINE r == [wake[p] EXCEPT !.at = "launch", !.created = TRUE]
  <2>2. /\ s \notin Wakes!Sessions /\ Wakes!New(t, 0) /\ Wakes!Goes(p, r)
        /\ amiss' = (amiss \/ (Wakes!Sessions # {} /\ ~wake[p].sure))
        /\ UNCHANGED <<crew, ends, mapped, worktrees, unseen>>
    BY <1>3, <2>1 DEF Wakes!Create
  <2>3. /\ wake[p] \in Waking /\ s \in Wakes!Session /\ (mapped => s = 1)
        /\ t \in Wakes!Tab /\ 0 \in Wakes!Dir /\ t[1] = s /\ t[2] = Main
        /\ ends' \in 0..MaxEnds /\ worktrees' \subseteq Tree /\ {unseen', amiss'} \subseteq BOOLEAN
        /\ amiss \in BOOLEAN
    BY <1>1, <2>1, <2>2, WakeTyped
    DEF WakeInv, Underneath, OnlyMapped, Waking, Wakes!Tab, Wakes!Name, Wakes!Dir
  <2>4. /\ tabs' \in [Wakes!Tab -> Pane] /\ CountedRuns' /\ Counted' \subseteq Counted
        /\ Wakes!Sessions' = Wakes!Sessions \cup {s}
        /\ Wakes!Names(s)' = Wakes!Names(s) \cup {Main}
    BY <2>2, <2>3, NewEffect
  <2>5. Wakes!Names(s) = {} /\ ~Wakes!Taken(t, 0) /\ Placed(Main, 0)
    <3>1. Wakes!Names(s) = {}
      BY <2>2, <2>3 DEF Wakes!Sessions
    <3>2. ~Wakes!Has(t)
      BY <2>1, <3>1 DEF Wakes!Names, Wakes!Name
    <3> QED
      BY <2>3, <3>1, <3>2 DEF Wakes!Taken, Placed
  <2>6. ~amiss' => Tidy'
    <3> SUFFICES ASSUME ~amiss' PROVE Tidy'
      OBVIOUS
    <3>1. Tidy /\ (Wakes!Sessions # {} => wake[p].sure)
      BY <2>2, <2>3 DEF WakeInv
    <3>2. wake[p].sure => Wakes!Sessions = {}
      BY <1>1, <2>2, <2>3 DEF WakeInv, Sighted, Sees
    <3> QED
      BY <2>2, <2>3, <2>5, <3>1, <3>2, NewEffect
  <2>7. /\ r \in Waking /\ r.at = "launch" /\ r.session = s /\ r.sure = wake[p].sure
        /\ r.todo = wake[p].todo
    BY <2>1, <2>3 DEF Waking, Wakes!Place
  <2> HIDE DEF r
  <2>8. wake'[p] = r /\ \A q \in Waker \ {p} : wake'[q] = wake[q]
    BY <2>2, WakeTyped DEF WakeInv, Wakes!Goes
  <2>9. Sees(p)'
    <3>1. Wakes!Names(s)' \subseteq {Main}
      BY <2>4, <2>5
    <3> QED
      BY <2>7, <2>8, <3>1 DEF Sees, Wakes!Names, Wakes!Has
  <2>10. ~amiss' /\ ~unseen' => Room'
    <3> SUFFICES ASSUME ~amiss', ~unseen' PROVE Room'
      OBVIOUS
    <3>1. Room /\ (Past(p)' => Past(p))
      BY <1>1, <2>2, <2>3 DEF WakeInv, Past
    <3> QED
      BY <2>4, <2>8, <3>1, RoomStays
  <2>11. Planned(r.todo) /\ r.session # 0 /\ (mapped => r.session \in {0, 1} /\ Wakes!Sessions' \subseteq {1})
    BY <2>3, <2>4, <2>7 DEF WakeInv, Plans, OnlyMapped, Wakes!Session
  <2> QED
    BY <1>1, <2>2, <2>3, <2>4, <2>6, <2>7, <2>9, <2>10, <2>11, WakerGoesOn
<1> QED
  BY <1>2, <1>3

\* The window that is opened in a session there is: it is amiss, or nothing was of its name or
\* place.
LEMMA OpensWell ==
    ASSUME WakeInv, NEW s \in Wakes!Session, NEW n \in Wakes!Name, NEW d \in Wakes!Dir,
           s \in Wakes!Sessions, Wakes!New(<<s, n>>, d), mapped' = mapped, Placed(n, d),
           ~amiss' => ~amiss /\ ~Wakes!Taken(<<s, n>>, d)
    PROVE  /\ tabs' \in [Wakes!Tab -> Pane] /\ CountedRuns' /\ Counted' \subseteq Counted
           /\ ~amiss' => Tidy'
           /\ mapped => Wakes!Sessions' \subseteq {1}
           /\ Wakes!Names(s)' = Wakes!Names(s) \cup {n}
           /\ ~amiss' => tabs'[<<s, n>>].dir = d
           /\ ~amiss' => \A u \in Wakes!Tab : u # <<s, n>> => tabs'[u] = tabs[u]
<1>1. PICK t : t = <<s, n>> /\ t \in Wakes!Tab /\ t[1] = s /\ t[2] = n /\ Wakes!New(t, d)
  BY DEF Wakes!Tab
<1>2. /\ tabs' \in [Wakes!Tab -> Pane] /\ CountedRuns' /\ Counted' \subseteq Counted
      /\ Wakes!Sessions' = Wakes!Sessions \cup {s}
      /\ Wakes!Names(s)' = Wakes!Names(s) \cup {n}
  BY <1>1, NewEffect
<1>3. ASSUME ~amiss'
      PROVE  /\ Tidy' /\ tabs'[t].dir = d
             /\ \A u \in Wakes!Tab : u # t => tabs'[u] = tabs[u]
  <2>1. Tidy /\ ~Wakes!Taken(t, d)
    BY <1>1, <1>3 DEF WakeInv
  <2>2. Wakes!Sessions \subseteq {s}
    BY <2>1 DEF Tidy, Wakes!OneOfAKind
  <2> QED
    BY <1>1, <2>1, <2>2, NewEffect
<1>4. mapped => Wakes!Sessions' \subseteq {1}
  BY <1>2 DEF WakeInv, OnlyMapped
<1> QED
  BY <1>1, <1>2, <1>3, <1>4

LEMMA OpenStep ==
    ASSUME WakeInv, NEW p \in Waker, Wakes!Open(p) PROVE WakeInv'
<1> DEFINE r == [wake[p] EXCEPT !.at = "start"]
<1>1. /\ wake[p].at = "open" /\ Wakes!Busy(p)
      /\ Wakes!Goes(p, r) /\ UNCHANGED <<crew, ends, mapped, worktrees, unseen>>
  BY DEF Wakes!Open, Wakes!At, Wakes!Busy, Wakes!GoesTo
<1>2. PICK s, n, d : /\ s = wake[p].session /\ n = wake[p].name /\ d = wake[p].dir
                     /\ s \in Wakes!Sessions /\ Wakes!New(<<s, n>>, d)
                     /\ amiss' = (amiss \/ (Wakes!Taken(<<s, n>>, d) /\ ~wake[p].sure))
  BY DEF Wakes!Open, Wakes!Target
<1>3. /\ wake[p] \in Waking /\ s \in Wakes!Session /\ n \in Wakes!Name /\ d \in Wakes!Dir
      /\ Placed(n, d) /\ (mapped => s = 1)
      /\ ends' \in 0..MaxEnds /\ worktrees' \subseteq Tree /\ {unseen', amiss'} \subseteq BOOLEAN
      /\ amiss \in BOOLEAN
  BY <1>1, <1>2, WakeTyped DEF WakeInv, Underneath, OnlyMapped, Plans, Waking
<1>4. ~amiss' => ~amiss /\ ~Wakes!Taken(<<s, n>>, d)
  <2> SUFFICES ASSUME ~amiss' PROVE ~amiss /\ ~Wakes!Taken(<<s, n>>, d)
    OBVIOUS
  <2>1. ~amiss /\ (Wakes!Taken(<<s, n>>, d) => wake[p].sure)
    BY <1>2, <1>3
  <2>2. wake[p].sure => ~Wakes!Taken(<<s, n>>, d)
    BY <1>1, <1>2, <2>1 DEF WakeInv, Sighted, Sees
  <2> QED
    BY <2>1, <2>2
<1>5. /\ tabs' \in [Wakes!Tab -> Pane] /\ CountedRuns' /\ Counted' \subseteq Counted
      /\ (~amiss' => Tidy') /\ (mapped => Wakes!Sessions' \subseteq {1})
  BY <1>1, <1>2, <1>3, <1>4, OpensWell
<1>6. /\ r \in Waking /\ r.at = "start" /\ r.session = s /\ r.sure = wake[p].sure
      /\ r.todo = wake[p].todo
  BY <1>2, <1>3 DEF Waking, Wakes!Place
<1> HIDE DEF r
<1>7. wake'[p] = r /\ \A q \in Waker \ {p} : wake'[q] = wake[q]
  BY <1>1, WakeTyped DEF WakeInv, Wakes!Goes
<1>8. Sees(p)'
  BY <1>6, <1>7 DEF Sees
<1>9. ~amiss' /\ ~unseen' => Room'
  <2> SUFFICES ASSUME ~amiss', ~unseen' PROVE Room'
    OBVIOUS
  <2>1. Room /\ Past(p)
    BY <1>1, <1>4 DEF WakeInv, Past
  <2> QED
    BY <1>5, <1>7, <2>1, RoomStays
<1>10. Planned(r.todo) /\ r.session # 0 /\ (mapped => r.session \in {0, 1})
  BY <1>3, <1>6 DEF WakeInv, Plans, Wakes!Session
<1> QED
  BY <1>1, <1>3, <1>5, <1>6, <1>8, <1>9, <1>10, WakerGoesOn

LEMMA SpawnStep ==
    ASSUME WakeInv, NEW p \in Waker, NEW t \in Wakes!Name \X Tree, Wakes!Spawn(p, t) PROVE WakeInv'
<1> DEFINE r == [wake[p] EXCEPT !.at = "type", !.name = t[1], !.dir = t[2], !.todo = @ \ {t}]
<1>1. /\ wake[p].at = "spawn" /\ Wakes!Busy(p) /\ t \in wake[p].todo
      /\ Wakes!Goes(p, r) /\ UNCHANGED <<crew, ends, mapped, worktrees, unseen>>
  BY DEF Wakes!Spawn, Wakes!At, Wakes!Busy
<1>2. PICK s, n, d : /\ s = wake[p].session /\ n = t[1] /\ d = t[2]
                     /\ s \in Wakes!Sessions /\ Wakes!New(<<s, n>>, d)
                     /\ amiss' = (amiss \/ ~wake[p].reliable
                                        \/ (Wakes!Taken(<<s, n>>, d) /\ ~wake[p].sure))
  BY DEF Wakes!Spawn
<1>3. /\ wake[p] \in Waking /\ s \in Wakes!Session /\ n \in Wakes!Name /\ d \in Tree
      /\ d \in Wakes!Dir /\ (mapped => s = 1)
      /\ ends' \in 0..MaxEnds /\ worktrees' \subseteq Tree /\ {unseen', amiss'} \subseteq BOOLEAN
      /\ amiss \in BOOLEAN
  BY <1>1, <1>2, WakeTyped DEF WakeInv, Underneath, OnlyMapped, Waking, Wakes!Dir
<1>4. Planned(wake[p].todo) /\ Placed(n, d)
  BY <1>1, <1>2, <1>3 DEF WakeInv, Plans, Planned, Placed
<1>5. ASSUME ~amiss'
      PROVE  ~amiss /\ ~Wakes!Taken(<<s, n>>, d) /\ wake[p].reliable
  <2>1. ~amiss /\ wake[p].reliable /\ (Wakes!Taken(<<s, n>>, d) => wake[p].sure)
    BY <1>2, <1>3, <1>5
  <2>2. wake[p].sure => ~Wakes!Taken(<<s, n>>, d)
    BY <1>1, <1>2, <2>1 DEF WakeInv, Sighted, Sees
  <2> QED
    BY <2>1, <2>2
<1>6. /\ tabs' \in [Wakes!Tab -> Pane] /\ CountedRuns' /\ Counted' \subseteq Counted
      /\ (~amiss' => Tidy') /\ (mapped => Wakes!Sessions' \subseteq {1})
      /\ Wakes!Names(s)' = Wakes!Names(s) \cup {n}
      /\ ~amiss' => tabs'[<<s, n>>].dir = d
      /\ ~amiss' => \A u \in Wakes!Tab : u # <<s, n>> => tabs'[u] = tabs[u]
  BY <1>1, <1>2, <1>3, <1>4, <1>5, OpensWell
<1>7. /\ r \in Waking /\ r.at = "type" /\ r.session = s /\ r.sure = wake[p].sure
      /\ r.todo = wake[p].todo \ {t} /\ r.known = wake[p].known /\ r.name = n
      /\ r.reliable = wake[p].reliable
  BY <1>2, <1>3 DEF Waking, Wakes!Place
<1> HIDE DEF r
<1>8. wake'[p] = r /\ \A q \in Waker \ {p} : wake'[q] = wake[q]
  BY <1>1, WakeTyped DEF WakeInv, Wakes!Goes
<1>9. ASSUME ~amiss', r.sure PROVE Sees(p)'
  <2>1. Sees(p)
    BY <1>1, <1>5, <1>7, <1>9 DEF WakeInv, Sighted
  <2>2. Wakes!Names(s)' \subseteq r.known \cup {r.name}
    BY <1>1, <1>2, <1>5, <1>6, <1>7, <1>9, <2>1 DEF Sees
  <2>3. ASSUME NEW x \in r.todo PROVE ~Wakes!Taken(<<s, x[1]>>, x[2])'
    <3>1. /\ x \in wake[p].todo /\ x # t /\ x[1] # n /\ x[2] # d /\ x[1] \in Wakes!Name
          /\ ~Wakes!Taken(<<s, x[1]>>, x[2])
      BY <1>1, <1>2, <1>3, <1>4, <1>5, <1>7, <1>9, <2>1, <2>3 DEF Planned, Sees, Waking
    <3>2. <<s, x[1]>> \in Wakes!Tab /\ <<s, x[1]>> # <<s, n>>
      BY <1>3, <3>1 DEF Wakes!Tab
    <3>3. ~Wakes!Has(<<s, x[1]>>)'
      BY <1>6, <1>9, <3>1, <3>2 DEF Wakes!Taken, Wakes!Has
    <3>4. ASSUME NEW m \in Wakes!Names(s)' PROVE tabs'[<<s, m>>].dir # x[2]
      <4>1. CASE m = n
        BY <1>6, <1>9, <3>1, <4>1
      <4>2. CASE m # n
        <5>1. m \in Wakes!Names(s) /\ <<s, m>> \in Wakes!Tab /\ <<s, m>> # <<s, n>>
          BY <1>3, <1>6, <3>4, <4>2 DEF Wakes!Names, Wakes!Tab
        <5>2. tabs'[<<s, m>>] = tabs[<<s, m>>]
          BY <1>6, <1>9, <5>1
        <5> QED
          BY <3>1, <5>1, <5>2 DEF Wakes!Taken
      <4> QED
        BY <4>1, <4>2
    <3> QED
      BY <3>3, <3>4 DEF Wakes!Taken, Wakes!Names, Wakes!Has
  <2> QED
    BY <1>7, <1>8, <2>2, <2>3 DEF Sees, Wakes!Taken, Wakes!Names, Wakes!Has
<1>10. ~amiss' /\ ~unseen' => Room'
  <2> SUFFICES ASSUME ~amiss', ~unseen' PROVE Room'
    OBVIOUS
  <2>1. Room /\ ~Past(p)'
    BY <1>1, <1>5, <1>7, <1>8 DEF WakeInv, Past
  <2> QED
    BY <1>6, <1>8, <2>1, RoomStays
<1>11. Planned(r.todo) /\ r.session # 0 /\ (mapped => r.session \in {0, 1})
  BY <1>3, <1>4, <1>7 DEF Planned, Wakes!Session
<1> QED
  BY <1>1, <1>3, <1>6, <1>7, <1>9, <1>10, <1>11, WakerGoesOn

LEMMA TypeSpawnedStep ==
    ASSUME WakeInv, NEW p \in Waker, Wakes!TypeSpawned(p) PROVE WakeInv'
<1> DEFINE r == [wake[p] EXCEPT !.at = "spawn", !.known = @ \cup {wake[p].name},
                                !.name = Main, !.dir = 0]
<1>1. /\ wake[p].at = "type" /\ Wakes!Busy(p)
      /\ Wakes!Goes(p, r) /\ UNCHANGED <<crew, ends, mapped, worktrees, unseen>>
  BY DEF Wakes!TypeSpawned, Wakes!At, Wakes!Busy
<1>2. PICK s, t, d, c : /\ s = wake[p].session /\ t = <<s, wake[p].name>> /\ d = wake[p].dir
                        /\ c = FALSE /\ Wakes!Types(t, d, c)
  BY DEF Wakes!TypeSpawned, Wakes!Target
<1>3. /\ wake[p] \in Waking /\ s \in Wakes!Session /\ t \in Wakes!Tab /\ d \in Wakes!Dir
      /\ c \in BOOLEAN
      /\ ends' \in 0..MaxEnds /\ worktrees' \subseteq Tree /\ unseen' \in BOOLEAN
  BY <1>1, <1>2, WakeTyped DEF WakeInv, Underneath, Waking, Wakes!Tab
<1>4. /\ tabs' \in [Wakes!Tab -> Pane] /\ CountedRuns' /\ amiss' \in BOOLEAN /\ (amiss => amiss')
      /\ (~amiss' => Fewer) /\ Wakes!Sessions' = Wakes!Sessions /\ Counted' \subseteq Counted
  BY <1>2, <1>3, TypesEffect
<1>5. /\ r \in Waking /\ r.at = "spawn" /\ r.session = s /\ r.sure = wake[p].sure
      /\ r.todo = wake[p].todo /\ r.known = wake[p].known \cup {wake[p].name}
      /\ r.reliable = wake[p].reliable
  BY <1>2, <1>3 DEF Waking, Wakes!Place, Wakes!Name, Wakes!Dir
<1> HIDE DEF r
<1>6. wake'[p] = r /\ \A q \in Waker \ {p} : wake'[q] = wake[q]
  BY <1>1, WakeTyped DEF WakeInv, Wakes!Goes
<1>7. ASSUME ~amiss', r.sure PROVE Sees(p)'
  <2>1. Sees(p) /\ Fewer
    BY <1>1, <1>4, <1>5, <1>7 DEF WakeInv, Sighted
  <2>2. r.reliable => Wakes!Names(s)' \subseteq r.known
    BY <1>1, <1>2, <1>3, <1>5, <2>1, FewerSeen DEF Sees
  <2>3. ASSUME r.reliable, NEW x \in r.todo PROVE ~Wakes!Taken(<<s, x[1]>>, x[2])'
    <3>1. /\ ~Wakes!Taken(<<s, x[1]>>, x[2]) /\ x[1] \in Wakes!Name
      BY <1>1, <1>2, <1>3, <1>5, <2>1, <2>3 DEF Sees, Waking
    <3>2. <<s, x[1]>> \in Wakes!Tab
      BY <1>3, <3>1 DEF Wakes!Tab
    <3> QED
      BY <2>1, <3>1, <3>2, FewerSeen
  <2> QED
    BY <1>5, <1>6, <2>2, <2>3 DEF Sees, Wakes!Taken, Wakes!Names, Wakes!Has
<1>8. ~amiss' /\ ~unseen' => Room'
  <2> SUFFICES ASSUME ~amiss', ~unseen' PROVE Room'
    OBVIOUS
  <2>1. Room /\ ~Past(p)'
    BY <1>1, <1>4, <1>5, <1>6 DEF WakeInv, Past
  <2> QED
    BY <1>4, <1>6, <2>1, RoomStays
<1>9. Planned(r.todo) /\ r.session # 0 /\ (mapped => r.session \in {0, 1})
  BY <1>2, <1>3, <1>5 DEF WakeInv, Plans, OnlyMapped, Wakes!Session
<1> QED
  BY <1>1, <1>3, <1>4, <1>5, <1>7, <1>8, <1>9, TidyStays, WakerGoesOn

-----------------------------------------------------------------------------
LEMMA LookStep ==
    ASSUME WakeInv, NEW p \in Waker, NEW aim \in {"none", "task", "fresh"},
           NEW rehydrate \in BOOLEAN, NEW blinded \in BOOLEAN, Wakes!Look(p, aim, rehydrate, blinded)
    PROVE  WakeInv'
<1>1. /\ p \in crew /\ wake[p].at = "idle" /\ ~Wakes!Busy(p)
      /\ UNCHANGED <<crew, ends, mapped, worktrees, tabs, unseen, amiss>>
  BY DEF Wakes!Look, Wakes!At, Wakes!Busy
<1>2. PICK s \in (IF (IF blinded THEN {} ELSE Wakes!Sessions) = {} THEN {0}
                  ELSE IF blinded THEN {} ELSE Wakes!Sessions) :
        wake' = [q \in Waker |->
                   IF q = p THEN [Wakes!Idle EXCEPT !.at = IF s = 0 THEN "name" ELSE "list",
                                     !.session = s, !.task = aim,
                                     !.rehydrate = rehydrate /\ aim = "none",
                                     !.sure = {b \in crew \ {p} : Wakes!Busy(b)} = {} /\ ~blinded]
                   ELSE [wake[q] EXCEPT !.sure = ~Wakes!Busy(q)]]
  BY DEF Wakes!Look
<1>3. /\ s \in {0} \cup Wakes!Session /\ (mapped => s \in {0, 1})
      /\ s = 0 /\ ~blinded => Wakes!Sessions = {}
  <2>1. Wakes!Sessions \subseteq Wakes!Session /\ 0 \notin Wakes!Sessions
    BY DEF Wakes!Sessions, Wakes!Session
  <2>2. CASE blinded
    BY <1>2, <2>2
  <2>3. CASE ~blinded
    <3>1. s \in IF Wakes!Sessions = {} THEN {0} ELSE Wakes!Sessions
      BY <1>2, <2>3
    <3> QED
      BY <2>1, <3>1 DEF WakeInv, OnlyMapped
  <2> QED
    BY <2>2, <2>3
<1>4. PICK here, again, sure :
        /\ here = IF s = 0 THEN "name" ELSE "list"
        /\ again \in BOOLEAN /\ again = (rehydrate /\ aim = "none")
        /\ sure \in BOOLEAN /\ sure = ({b \in crew \ {p} : Wakes!Busy(b)} = {} /\ ~blinded)
  OBVIOUS
<1> DEFINE r == [Wakes!Idle EXCEPT !.at = here, !.session = s, !.task = aim,
                                   !.rehydrate = again, !.sure = sure]
<1>5. wake'[p] = r
  BY <1>2, <1>4
<1>6. sure => (\A q \in Waker : q # p => ~Wakes!Busy(q)) /\ ~blinded
  BY <1>4 DEF WakeInv, Underneath
<1>7. (here = "name" <=> s = 0) /\ here \in {"name", "list"}
  BY <1>4
<1>8. /\ r \in Waking /\ r.at = here /\ r.session = s /\ r.todo = {}
      /\ ~r.created /\ r.sure = sure
  <2>1. PICK i \in Waking : i = Wakes!Idle /\ i.todo = {} /\ ~i.created
    BY IdleTyped DEF Wakes!Idle
  <2>2. r = [i EXCEPT !.at = here, !.session = s, !.task = aim,
                      !.rehydrate = again, !.sure = sure]
    BY <2>1
  <2> HIDE DEF r
  <2>3. r \in Waking
    <3>1. /\ here \in Wakes!Place /\ s \in {0} \cup Wakes!Session
          /\ again \in BOOLEAN /\ sure \in BOOLEAN
      BY <1>3, <1>4, <1>7 DEF Wakes!Place
    <3> QED
      BY <2>2, <3>1 DEF Waking
  <2>4. r.at = here /\ r.session = s /\ r.todo = {} /\ ~r.created
    BY <2>1, <2>2 DEF Waking
  <2>5. r.sure = sure
    BY <2>2 DEF Waking
  <2> QED
    BY <2>3, <2>4, <2>5
<1> HIDE DEF r
<1>9. ASSUME NEW q \in Waker, q # p
      PROVE  /\ wake'[q] \in Waking /\ wake'[q].at = wake[q].at /\ wake'[q].session = wake[q].session
             /\ wake'[q].todo = wake[q].todo /\ wake'[q].name = wake[q].name
             /\ wake'[q].dir = wake[q].dir
             /\ Wakes!Busy(q) => ~wake'[q].sure
  <2>1. wake[q] \in Waking /\ wake'[q] = [wake[q] EXCEPT !.sure = ~Wakes!Busy(q)]
    BY <1>2, <1>9, WakeTyped DEF WakeInv
  <2>2. PICK certain \in BOOLEAN : certain = ~Wakes!Busy(q) /\ wake'[q] = [wake[q] EXCEPT !.sure = certain]
    BY <2>1
  <2> QED
    BY <2>1, <2>2 DEF Waking
<1>10. Wakes!WakeTypeOK'
  <2>1. wake' \in [Waker -> Waking]
    BY <1>2, <1>5, <1>8, <1>9
  <2> QED
    BY <1>1, <2>1 DEF WakeInv, Wakes!WakeTypeOK, Waking
<1>11. /\ wake'[p].at \notin {"idle", "over"}
       /\ \A q \in Waker : q # p => (Wakes!Busy(q)' <=> Wakes!Busy(q))
  BY <1>5, <1>7, <1>8, <1>9 DEF Wakes!Busy
<1>12. /\ tabs' \in [Wakes!Tab -> Pane] /\ CountedRuns' /\ Fewer /\ Counted' = Counted
       /\ Wakes!Sessions' = Wakes!Sessions
  BY <1>1, TabsStay
<1>13. OnlyMapped'
  BY <1>1, <1>3, <1>5, <1>8, <1>9, <1>12 DEF WakeInv, OnlyMapped
<1>14. Underneath'
  BY <1>1, <1>5, <1>7, <1>8, <1>9, <1>11 DEF WakeInv, Underneath, Wakes!Busy
<1>15. ASSUME NEW q \in Waker, Wakes!Busy(q)', wake'[q].sure PROVE q = p /\ sure
  BY <1>5, <1>8, <1>9, <1>11, <1>15
<1>16. SureAlone'
  BY <1>6, <1>11, <1>15 DEF SureAlone, Wakes!Busy
<1>17. Plans'
  <2>1. \A q \in Waker : Planned(wake'[q].todo)
    BY <1>5, <1>8, <1>9 DEF WakeInv, Plans, Planned
  <2>2. \A q \in Waker : wake'[q].at \in {"room", "open"} => Placed(wake'[q].name, wake'[q].dir)
    BY <1>5, <1>7, <1>8, <1>9 DEF WakeInv, Plans
  <2> QED
    BY <2>1, <2>2 DEF Plans, Planned, Placed
<1>18. ~amiss' => Tidy' /\ Sighted'
  <2>1. sure => Sees(p)'
    <3>1. sure /\ here = "name" => Wakes!Sessions' = {}
      BY <1>3, <1>6, <1>7, <1>12
    <3> QED
      BY <1>5, <1>7, <1>8, <3>1 DEF Sees, Wakes!Sessions, Wakes!Names, Wakes!Has
  <2>2. Sighted'
    BY <1>15, <2>1 DEF Sighted, Wakes!Busy
  <2> QED
    BY <1>1, <1>12, <2>2, FewerSeen DEF WakeInv
<1>19. ~amiss' /\ ~unseen' => Room'
  <2>1. \A q \in Waker : Past(q)' => Past(q)
    BY <1>5, <1>7, <1>8, <1>9 DEF Past
  <2> QED
    BY <1>1, <1>12, <2>1 DEF WakeInv, Room
<1> QED
  BY <1>10, <1>12, <1>13, <1>14, <1>16, <1>17, <1>18, <1>19 DEF WakeInv

\* What goes on in the windows meanwhile.
LEMMA WindowStep ==
    ASSUME WakeInv, NEW t \in Wakes!Tab, Wakes!ComesUp(t) \/ Wakes!Ends(t) \/ Wakes!Kill(t)
    PROVE  WakeInv'
<1>1. UNCHANGED <<crew, mapped, worktrees, wake, unseen, amiss>>
  BY DEF Wakes!ComesUp, Wakes!Ends, Wakes!Kill
<1>2. tabs \in [Wakes!Tab -> Pane] /\ tabs[t] \in Pane /\ Wakes!Has(t) /\ ends \in 0..MaxEnds
  BY WakeTyped DEF WakeInv, Wakes!ComesUp, Wakes!Ends, Wakes!Kill, Wakes!Unique
<1>3. PICK w \in Pane :
        /\ tabs' = [tabs EXCEPT ![t] = w]
        /\ w.dir = tabs[t].dir \/ w.runs = "none"
        /\ ~w.twin /\ (w.counted => tabs[t].counted /\ w.runs = "agent")
  <2>1. CASE Wakes!ComesUp(t)
    <3> DEFINE w == [tabs[t] EXCEPT !.runs = "agent"]
    <3>1. tabs' = [tabs EXCEPT ![t] = w] /\ ~tabs[t].twin
      BY <1>2, <2>1 DEF Wakes!ComesUp, Wakes!Unique
    <3>2. /\ w \in Pane /\ w.dir = tabs[t].dir /\ ~w.twin
          /\ w.runs = "agent" /\ w.counted = tabs[t].counted
      BY <1>2, <3>1 DEF Pane
    <3> HIDE DEF w
    <3> QED
      BY <3>1, <3>2
  <2>2. CASE Wakes!Ends(t)
    <3> DEFINE w == Wakes!Shell(tabs[t].dir)
    <3>1. tabs' = [tabs EXCEPT ![t] = w]
      BY <1>2, <2>2 DEF Wakes!Ends
    <3>2. w \in Pane /\ w.dir = tabs[t].dir /\ ~w.twin /\ ~w.counted
      BY <1>2 DEF Pane, Wakes!Shell
    <3> HIDE DEF w
    <3> QED
      BY <3>1, <3>2
  <2>3. CASE Wakes!Kill(t)
    <3> DEFINE w == Wakes!Closed
    <3>1. tabs' = [tabs EXCEPT ![t] = w]
      BY <2>3 DEF Wakes!Kill
    <3>2. w \in Pane /\ w.runs = "none" /\ ~w.twin /\ ~w.counted
      BY DEF Pane, Wakes!Closed, Wakes!Dir
    <3> HIDE DEF w
    <3> QED
      BY <3>1, <3>2
  <2> QED
    BY <2>1, <2>2, <2>3
<1>4. ends' \in 0..MaxEnds
  BY <1>2, PartsConstants DEF Wakes!ComesUp, Wakes!Ends, Wakes!Kill, Wakes!OneMore
<1>5. /\ tabs' \in [Wakes!Tab -> Pane] /\ tabs'[t] = w
      /\ \A u \in Wakes!Tab : u # t => tabs'[u] = tabs[u]
  BY <1>2, <1>3
<1>6. Fewer /\ CountedRuns' /\ Counted' \subseteq Counted
  BY <1>2, <1>3, <1>5 DEF WakeInv, CountedRuns, Counted, Fewer, Wakes!Has
<1>7. Wakes!WakeTypeOK'
  BY <1>1, <1>4, <1>5, WakeTyped DEF WakeInv, Wakes!WakeTypeOK, Pane
<1>8. OnlyMapped'
  BY <1>1, <1>6, FewerSeen DEF WakeInv, OnlyMapped
<1>9. Underneath' /\ SureAlone' /\ Plans'
  BY <1>1 DEF WakeInv, Underneath, SureAlone, Plans, Planned, Placed, Wakes!Busy
<1>10. ~amiss' => Tidy' /\ Sighted'
  <2> SUFFICES ASSUME ~amiss' PROVE Tidy' /\ Sighted'
    OBVIOUS
  <2>1. Tidy /\ Sighted
    BY <1>1 DEF WakeInv
  <2>2. \A p \in Waker : Wakes!Busy(p) /\ wake[p].sure => Sees(p)'
    BY <1>1, <1>6, <2>1, SeesStill DEF Sighted
  <2> QED
    BY <1>1, <1>6, <2>1, <2>2, FewerSeen DEF Sighted, Wakes!Busy
<1>11. ~amiss' /\ ~unseen' => Room'
  <2> SUFFICES ASSUME ~amiss', ~unseen' PROVE Room'
    OBVIOUS
  <2>1. Room /\ \A p \in Waker : Past(p)' <=> Past(p)
    BY <1>1 DEF WakeInv, Past
  <2>2. /\ Cardinality(Counted') <= Cardinality(Counted)
        /\ Cardinality(Counted') \in Nat /\ Cardinality(Counted) \in Nat
    BY <1>6, CountedTabs, TabsFinite
  <2> QED
    BY <2>1, <2>2, PartsConstants DEF Room
<1> QED
  BY <1>6, <1>7, <1>8, <1>9, <1>10, <1>11 DEF WakeInv

LEMMA WakeSteps ==
    ASSUME WakeInv, [Wakes!WakeNext]_Wakes!wakeVars PROVE WakeInv'
<1>1. ASSUME NEW p \in Waker, Wakes!Dies(p) PROVE WakeInv'
  BY <1>1, FailsStep DEF Wakes!Dies
<1>2. CASE UNCHANGED Wakes!wakeVars
  <2>1. UNCHANGED <<crew, ends, mapped, worktrees, tabs, wake, unseen, amiss>>
    BY <1>2 DEF Wakes!wakeVars
  <2>2. Wakes!WakeTypeOK'
    BY <2>1 DEF WakeInv, Wakes!WakeTypeOK
  <2>3. OnlyMapped' /\ Underneath' /\ SureAlone' /\ Plans' /\ CountedRuns'
    BY <2>1 DEF WakeInv, OnlyMapped, Underneath, SureAlone, Plans, Planned, Placed, CountedRuns,
       Wakes!Busy, Wakes!Sessions, Wakes!Names, Wakes!Has
  <2>4. ~amiss' => Tidy' /\ Sighted'
    <3>1. Fewer
      BY <2>1, TabsStay
    <3>2. ~amiss => \A p \in Waker : Wakes!Busy(p) /\ wake[p].sure => Sees(p)'
      BY <2>1, <3>1, SeesStill DEF WakeInv, Sighted
    <3> QED
      BY <2>1, <3>1, <3>2, FewerSeen DEF WakeInv, Sighted, Wakes!Busy
  <2>5. ~amiss' /\ ~unseen' => Room'
    BY <2>1 DEF WakeInv, Room, Counted, Past
  <2> QED
    BY <2>2, <2>3, <2>4, <2>5 DEF WakeInv
<1> QED
  BY <1>1, <1>2, LookStep, SpawnStep, CountsStep, ChooseNameStep, CreateStep, LaunchStep, ListStep,
     TypeSpawnedStep, RetryStep, ChooseWindowStep, WindowCheckStep, StartStep,
     OpenStep, WindowStep DEF Wakes!WakeNext

\* wake-cmd.ts and its helpers: a session that is mapped with its number is the only one,
\* whoever races and whatever fails; until something is amiss there is one session, with one
\* window of a name and none in the place of another; and no more agents than the cap were
\* launched after a count, unless one failed, went by an agent that was on its way, or was
\* another waker's as well.  For any number of wakers and worktrees and any cap but none.
THEOREM WakesKeepPromise ==
    /\ Wakes!WakeSpec => []Wakes!WakePromise
    /\ Spec => []WakePromise
<1>1. Wakes!WakeInit => WakeInv
  BY WakeStarts
<1>2. WakeInv /\ [Wakes!WakeNext]_Wakes!wakeVars => WakeInv'
  BY WakeSteps
<1>3. WakeInv => Wakes!WakePromise
  BY WakePromises
<1>4. Wakes!WakePromise => WakePromise
  BY DEF WakePromise
<1> QED
  BY <1>1, <1>2, <1>3, <1>4, OnePart, PTL DEF Wakes!WakeSpec
-----------------------------------------------------------------------------
(* Types. *)

\* What the proofs above have no need of: the histories of the scouts and of the
\* configuration, whose log is no longer than the bound, with the writes under way.
UnheardPairs == unheard \subseteq Zid \X Zid

Filling == {q \in Proc : write[q].at = "fill"}

LogFits ==
    /\ IsFiniteSet(Filling) /\ Len(log) + Cardinality(Filling) <= MaxWrites
    /\ \A p \in Proc : heard[p] <= Len(log)

LEMMA UnheardStays ==
    ASSUME UnheardPairs, [Scouts!ScoutNext]_Scouts!scoutVars PROVE UnheardPairs'
<1>1. ASSUME NEW n \in Zid, NEW m \in Zid,
             unheard' \in {unheard, unheard \cup {<<n, m>>}}
      PROVE  UnheardPairs'
  BY <1>1 DEF UnheardPairs
<1>2. ASSUME NEW n \in Zid, NEW m \in Zid,
             Scouts!Hello(n, m) \/ Scouts!Accepts(n, m) \/ Scouts!NoRecentHello(n, m)
               \/ Scouts!AcceptsLate(n, m) \/ Scouts!Paired(n, m) \/ Scouts!Prune(n, m)
               \/ Scouts!Forgets(n, m)
      PROVE  unheard' = unheard
  BY <1>2 DEF Scouts!Hello, Scouts!Accepts, Scouts!Reaches, Scouts!NoRecentHello,
              Scouts!AcceptsLate, Scouts!Paired, Scouts!Prune, Scouts!Forgets
<1>3. ASSUME NEW n \in Zid, NEW m \in Zid, Scouts!Unanswered(n, m) \/ Scouts!PairFails(n, m)
      PROVE  unheard' \in {unheard, unheard \cup {<<n, m>>}}
  BY <1>3 DEF Scouts!Unanswered, Scouts!PairFails
<1>4. CASE UNCHANGED Scouts!scoutVars
  BY <1>4 DEF Scouts!scoutVars, UnheardPairs
<1> QED
  BY <1>1, <1>2, <1>3, <1>4 DEF Scouts!ScoutNext

LEMMA LogStarts == Configs!ConfigInit => LogFits
<1> SUFFICES ASSUME Configs!ConfigInit PROVE LogFits
  OBVIOUS
<1>1. Filling = {}
  BY DEF Configs!ConfigInit, Configs!Idle, Filling
<1> QED
  BY <1>1, FS_EmptySet, PartsConstants DEF Configs!ConfigInit, LogFits

\* The module Config counts as this one does.
LEMMA CountsAlike ==
    ASSUME NEW S PROVE Configs!Cardinality(S) = Cardinality(S)
BY Zenon DEF Configs!Cardinality, Cardinality, Configs!IsFiniteSet, IsFiniteSet

\* A write that begins to fill the file finds room for it in the log.
LEMMA LogStillFits ==
    ASSUME ConfigInv, LogFits, [Configs!ConfigNext]_Configs!configVars PROVE LogFits'
<1> DEFINE N == Cardinality(Filling)
<1>1. /\ Len(log) \in Nat /\ MaxWrites \in Nat /\ heard \in [Proc -> Nat] /\ write \in [Proc -> Writes]
  BY PartsConstants DEF ConfigInv, ConfigTypes
<1>2. IsFiniteSet(Filling) /\ N \in Nat
  BY FS_CardinalityType DEF LogFits
<1>3. ASSUME \A q \in Proc : (write'[q].at = "fill") => (write[q].at = "fill"),
             Len(log') = Len(log),
             \A q \in Proc : heard'[q] \in {heard[q], Len(log)}
      PROVE  LogFits'
  <2>1. Filling' \subseteq Filling
    BY <1>3 DEF Filling
  <2>2. IsFiniteSet(Filling') /\ Cardinality(Filling') <= N /\ Cardinality(Filling') \in Nat
    BY <1>2, <2>1, FS_Subset, FS_CardinalityType
  <2>3. \A q \in Proc : heard'[q] <= Len(log')
    BY <1>1, <1>3 DEF LogFits
  <2> QED
    BY <1>1, <1>2, <1>3, <2>2, <2>3 DEF LogFits
<1>4. ASSUME NEW p \in Proc, Configs!LoadConfig(p) PROVE LogFits'
  <2>1. \A q \in Proc : write'[q].at = "fill" => write[q].at = "fill"
    BY <1>1, <1>4 DEF Configs!LoadConfig
  <2>2. \A q \in Proc : heard'[q] \in {heard[q], Len(log)}
    BY <1>1, <1>4 DEF Configs!LoadConfig
  <2> QED
    BY <1>3, <1>4, <2>1, <2>2 DEF Configs!LoadConfig
<1>5. ASSUME NEW p \in Proc, NEW A, NEW C, Configs!Save(p, A, C) PROVE LogFits'
  BY <1>1, <1>3, <1>5 DEF Configs!Save
<1>6. ASSUME NEW p \in Proc, Configs!WriteFails(p) \/ Configs!Exit(p) PROVE LogFits'
  <2>1. \A q \in Proc : write'[q].at = "fill" => write[q].at = "fill"
    BY <1>1, <1>6 DEF Configs!WriteFails, Configs!Exit, Configs!Idle
  <2>2. heard' = heard /\ log' = log
    BY <1>6 DEF Configs!WriteFails, Configs!Exit
  <2>3. Len(log') = Len(log) /\ \A q \in Proc : heard'[q] \in {heard[q], Len(log)}
    BY <2>2
  <2> QED
    BY <1>3, <2>1, <2>3
<1>7. ASSUME NEW p \in Proc, Configs!Truncate(p) PROVE LogFits'
  <2>1. Len(log) + N < MaxWrites
    BY <1>7, CountsAlike, Zenon DEF Configs!Truncate, Filling
  <2>2. p \notin Filling /\ UNCHANGED <<heard, log>>
    BY <1>7 DEF Configs!Truncate, Filling
  <2>3. Filling' = Filling \cup {p}
    BY <1>1, <1>7 DEF Configs!Truncate, Filling, Writes
  <2>4. IsFiniteSet(Filling') /\ Cardinality(Filling') = N + 1
    BY <1>2, <2>2, <2>3, FS_AddElement
  <2> QED
    BY <1>1, <1>2, <2>1, <2>2, <2>4 DEF LogFits
<1>8. ASSUME NEW p \in Proc, Configs!Fill(p) PROVE LogFits'
  <2>1. p \in Filling /\ UNCHANGED heard /\ Len(log') = Len(log) + 1
    BY <1>8 DEF Configs!Fill, Filling, ConfigInv, ConfigTypes
  <2>2. Filling' = Filling \ {p}
    BY <1>1, <1>8 DEF Configs!Fill, Configs!Idle, Filling
  <2>3. IsFiniteSet(Filling') /\ Cardinality(Filling') = N - 1
    BY <1>2, <2>1, <2>2, FS_RemoveElement
  <2> QED
    BY <1>1, <1>2, <2>1, <2>3 DEF LogFits
<1>9. CASE UNCHANGED Configs!configVars
  BY <1>1, <1>3, <1>9 DEF Configs!configVars
<1> QED
  BY <1>4, <1>5, <1>6, <1>7, <1>8, <1>9
  DEF Configs!ConfigNext, Configs!Enlist, Configs!Strike, Configs!RegisterAgent

LEMMA ScoutTyped == ScoutInv /\ UnheardPairs => Scouts!ScoutTypeOK
BY DEF ScoutInv, ScoutTypes, Attempt, UnheardPairs, Scouts!ScoutTypeOK

LEMMA ConfigTyped == ConfigInv /\ LogFits => Configs!ConfigTypeOK
<1> SUFFICES ASSUME ConfigInv, LogFits PROVE Configs!ConfigTypeOK
  OBVIOUS
<1> USE DEF ConfigInv, ConfigTypes
<1>1. \A p \in Proc : cache[p] = None \/ cache[p] \subseteq Configs!Item
  OBVIOUS
<1>2. write \in [Proc -> {Configs!Idle} \cup [for : {"save", "migrate"}, at : {"open", "fill"}]]
  BY DEF Writes
<1>3. change \in [Proc -> [add : SUBSET Configs!Item, cut : SUBSET Configs!Item]]
  <2>1. Changes \subseteq [add : SUBSET Configs!Item, cut : SUBSET Configs!Item]
    BY DEF Changes, Configs!Item
  <2> QED
    BY <2>1
<1>4. heard \in [Proc -> 0..MaxWrites]
  <2>1. Cardinality(Filling) \in Nat /\ Len(log) \in Nat /\ MaxWrites \in Nat
    BY FS_CardinalityType, PartsConstants DEF LogFits
  <2>2. \A p \in Proc : heard[p] \in 0..MaxWrites
    BY <2>1 DEF LogFits
  <2> QED
    BY <2>2
<1> QED
  BY <1>1, <1>2, <1>3, <1>4 DEF Configs!ConfigTypeOK

\* Every variable of the part at hand has its type, for every value of the constants.
THEOREM PartTypes == Spec => []TypeOK
<1>1. Spec => [](ConsentTypeOK /\ PidTypeOK /\ RegistryTypeOK)
  <2>1. ConsentInv => ConsentTypeOK
    BY DEF ConsentInv
  <2>2. PidInv => PidTypeOK
    BY DEF PidInv
  <2>3. RegistryInv => RegistryTypeOK
    BY DEF RegistryInv
  <2> QED
    BY <2>1, <2>2, <2>3, OnePart, ConsentStarts, ConsentSteps, PidStarts, PidSteps,
       RegistryStarts, RegistrySteps, PTL DEF ConsentSpec, PidSpec, RegistrySpec
<1>2. Spec => [](HubTypeOK /\ RouterTypeOK)
  <2>1. RouterInv => HubTypeOK /\ RouterTypeOK
    BY DEF RouterInv, IInv
  <2> QED
    BY <2>1, OnePart, RouterStarts, RouterSteps, PTL DEF RouterSpec
<1>3. Spec => [](Updates!UpdateTypeOK /\ Locks!UpdateLockTypeOK)
  <2>1. UpdateInv => Updates!UpdateTypeOK
    BY DEF UpdateInv
  <2>2. UpdateLockInv => Locks!UpdateLockTypeOK
    BY DEF UpdateLockInv
  <2> QED
    BY <2>1, <2>2, OnePart, UpdateStarts, UpdateSteps, UpdateLockStarts, UpdateLockStep, PTL
    DEF Updates!UpdateSpec, Locks!UpdateLockSpec
<1>4. Spec => []Scouts!ScoutTypeOK
  <2>1. Scouts!ScoutInit => UnheardPairs
    BY DEF Scouts!ScoutInit, UnheardPairs
  <2> QED
    BY <2>1, OnePart, ScoutStarts, ScoutSteps, UnheardStays, ScoutTyped, PTL DEF Scouts!ScoutSpec
<1>5. Spec => []Configs!ConfigTypeOK
  BY OnePart, ConfigStarts, ConfigSteps, LogStarts, LogStillFits, ConfigTyped, PTL
  DEF Configs!ConfigSpec
<1>6. Spec => [](Engines!EngineTypeOK /\ Wakes!WakeTypeOK)
  <2>1. EngineInv => Engines!EngineTypeOK
    BY DEF EngineInv
  <2>2. WakeInv => Wakes!WakeTypeOK
    BY DEF WakeInv
  <2> QED
    BY <2>1, <2>2, OnePart, EngineStarts, EngineSteps, WakeStarts, WakeSteps, PTL
    DEF Engines!EngineSpec, Wakes!WakeSpec
<1>7. ASSUME ConsentTypeOK, PidTypeOK, RegistryTypeOK, HubTypeOK, RouterTypeOK,
             Updates!UpdateTypeOK, Locks!UpdateLockTypeOK, Scouts!ScoutTypeOK,
             Configs!ConfigTypeOK, Engines!EngineTypeOK, Wakes!WakeTypeOK
      PROVE  TypeOK
  BY <1>7 DEF TypeOK
<1> QED
  BY <1>1, <1>2, <1>3, <1>4, <1>5, <1>6, <1>7, PTL
=============================================================================
