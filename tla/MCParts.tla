------------------------------- MODULE MCParts -------------------------------
(***************************************************************************)
(* TLC instance of ten parts that share no state, side by side: `part`    *)
(* says which of them a behaviour is one of, and the others stay in their  *)
(* initial states.  So the states of the ten add up and do not multiply.  *)
(***************************************************************************)
EXTENDS Consent, InstancePid, PluginRegistry, TransportRouter

CONSTANTS Updater,                          \* UpdateLock
          Zid,                              \* Scout
          Listed, Old, Oracle, Fleet, Marker, MaxWrites, \* Config
          MaxWindows, MaxLooks, Checker, NoEntry, \* Engine
          Waker, Main, Plain, Tree, Cap, MaxEnds \* Wake

VARIABLES part,
          bin, pkg, stash, pkgStash, step, stashed, pkgStashed, began, hitch,
          updateLock, place, holder, installers, robbed,
          seen, paired, pending, greeted, call, peers, unheard,
          disk, cache, write, change, healed, initial, heard, blind, log,
          windows, sessions, longest, state, readings, checks, unearned, excused,
          crew, ends, mapped, worktrees, tabs, wake, unseen, amiss

Updates == INSTANCE Update
Locks   == INSTANCE UpdateLock
Scouts  == INSTANCE Scout
Configs == INSTANCE Config
Engines == INSTANCE Engine
Wakes   == INSTANCE Wake

\* A zid is a number here, since the code compares them.  An entry of the configuration is
\* of one kind, and what a process keeps is not taken for no copy.
ASSUME PartsConstants ==
    /\ NoFile \notin Updater \cup [of : Updater, stamped : BOOLEAN]
    /\ Zid \subseteq Nat
    /\ Old \in Listed
    /\ Marker \notin Listed \cup Oracle \cup Fleet /\ Fleet \cap Listed = {}
    /\ \A kept \in SUBSET Configs!Item : kept # None
    /\ MaxWrites \in Nat /\ MaxWindows \in Nat /\ MaxLooks \in Nat
    /\ \A entry \in Engines!Entry : entry # NoEntry
    /\ Waker \subseteq Nat /\ \E p \in Waker : \A q \in Waker : p <= q
    /\ Tree \subseteq Nat \ {0} /\ IsFiniteSet(Tree) /\ Cap \in Nat \ {0} /\ MaxEnds \in Nat
    /\ Main # Plain /\ {Main, Plain} \cap Tree = {}

Init ==
    /\ part \in {"consent", "router", "pid", "update", "updateLock", "scout", "registry", "config",
                "engine", "wake"}
    /\ ConsentInit /\ PidInit /\ RegistryInit /\ RouterInit
    /\ Updates!UpdateInit /\ Locks!UpdateLockInit /\ Scouts!ScoutInit /\ Configs!ConfigInit
    /\ Engines!EngineInit /\ Wakes!WakeInit
    /\ part = "config" \/ initial = {}
    /\ IF part = "wake" THEN crew = Waker => worktrees # Tree \* a bound
       ELSE crew = Waker /\ ~mapped /\ worktrees = {}

\* The part at hand takes a step, and the others none.
updateVars == <<bin, pkg, stash, pkgStash, step, stashed, pkgStashed, began, hitch>>
updateLockVars == <<updateLock, place, holder, installers, robbed>>
scoutVars == <<seen, paired, pending, greeted, call, peers, unheard>>
configVars == <<disk, cache, write, change, healed, initial, heard, blind, log>>
engineVars == <<windows, sessions, longest, state, readings, checks, unearned, excused>>
wakeVars == <<crew, ends, mapped, worktrees, tabs, wake, unseen, amiss>>
byExtension == <<consentVars, pidVars, registryVars, routerVars>>
byInstance == <<updateVars, updateLockVars, scoutVars, configVars, engineVars, wakeVars>>

Next ==
    /\ UNCHANGED part
    /\ \/ /\ UNCHANGED byInstance
          /\ \/ part = "consent" /\ ConsentNext /\ UNCHANGED <<pidVars, registryVars, routerVars>>
             \/ part = "pid" /\ PidNext /\ UNCHANGED <<consentVars, registryVars, routerVars>>
             \/ part = "registry" /\ RegistryNext /\ UNCHANGED <<consentVars, pidVars, routerVars>>
             \/ part = "router" /\ RouterNext /\ UNCHANGED <<consentVars, pidVars, registryVars>>
       \/ /\ UNCHANGED byExtension
          /\ \/ part = "update" /\ Updates!UpdateNext /\ UNCHANGED <<updateLockVars, scoutVars, configVars, engineVars, wakeVars>>
             \/ part = "updateLock" /\ Locks!UpdateLockNext /\ UNCHANGED <<updateVars, scoutVars, configVars, engineVars, wakeVars>>
             \/ part = "scout" /\ Scouts!ScoutNext /\ UNCHANGED <<updateVars, updateLockVars, configVars, engineVars, wakeVars>>
             \/ part = "config" /\ Configs!ConfigNext /\ UNCHANGED <<updateVars, updateLockVars, scoutVars, engineVars, wakeVars>>
             \/ part = "engine" /\ Engines!EngineNext /\ UNCHANGED <<updateVars, updateLockVars, scoutVars, configVars, wakeVars>>
             \/ part = "wake" /\ Wakes!WakeNext /\ UNCHANGED <<updateVars, updateLockVars, scoutVars, configVars, engineVars>>

Spec == Init /\ [][Next]_<<part, byExtension, byInstance>>

-----------------------------------------------------------------------------
\* Every variable of the part at hand has its type; those of the others stay as they begin.
TypeOK ==
    /\ part = "consent" => ConsentTypeOK
    /\ part = "router" => HubTypeOK /\ RouterTypeOK
    /\ part = "pid" => PidTypeOK
    /\ part = "update" => Updates!UpdateTypeOK
    /\ part = "updateLock" => Locks!UpdateLockTypeOK
    /\ part = "scout" => Scouts!ScoutTypeOK
    /\ part = "registry" => RegistryTypeOK
    /\ part = "config" => Configs!ConfigTypeOK
    /\ part = "engine" => Engines!EngineTypeOK
    /\ part = "wake" => Wakes!WakeTypeOK

\* The properties of the parts that are instances, as their modules state them.
UpdatePromise   == part \in {"update", "updateLock"} => Updates!UpdateKeepsAMaw /\ Locks!UpdatesApart
PairingPromise  == part = "scout" => Scouts!PairingPromise
FileSaysWhatWasSaved == part = "config" => Configs!FileSaysWhatWasSaved
RestartsAreEarned == part = "engine" => Engines!RestartsAreEarned
WakePromise == part = "wake" => Wakes!WakePromise

\* What the engine is excused for it stays excused for, and what is amiss stays so: no state
\* behind either is of interest, and TLC goes on from no such state.
Unexcused == ~excused /\ ~amiss
=============================================================================
