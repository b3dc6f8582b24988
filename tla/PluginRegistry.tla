---------------------------- MODULE PluginRegistry ----------------------------
(***************************************************************************)
(* The engine plugin registry (core/engine-plugin-registry.ts): plugins    *)
(* are processes of their own that register a prefix of the API.  Health   *)
(* polls, events and proxied requests are calls to a registration that was *)
(* taken from the registry earlier, a poll's and an event's from a list    *)
(* they walk with an await at each step; polls may overlap.  A call that   *)
(* fails unbinds whatever is registered at the prefix by then.             *)
(*                                                                         *)
(* A registration is numbered; Count bounds how many there are.  Left out: *)
(* the checks of prefixes, URLs and paths, and the longest-prefix match.   *)
(***************************************************************************)
EXTENDS Naturals

CONSTANTS Plugin, Prefix, Count, Nobody

ASSUME RegistryConstants == Nobody \notin Plugin /\ Count \in Nat

VARIABLES bound,   \* per prefix, the registration there
          current, \* what each plugin has registered last and not unregistered, or 0
          made,    \* registrations so far
          flight,  \* calls under way: the prefix and the number of the registration
          sick,    \* registrations whose process has died or not answered in time
          struck,  \* history: those unbound by the failed call to another one
          ousted   \* history: those another plugin has taken the prefix from

registryVars == <<bound, current, made, flight, sick, struck, ousted>>

Unbound == [plugin |-> Nobody, id |-> 0]

RegistryInit ==
    /\ bound = [x \in Prefix |-> Unbound]
    /\ current = [p \in Plugin |-> 0]
    /\ made = 0 /\ flight = {}
    /\ sick = {} /\ struck = {} /\ ousted = {}

At(x) == IF bound[x] = Unbound THEN {} ELSE {bound[x].id}

\* Mutant: the plugin's other prefixes stay bound.
RegisterBeside(p, x) ==
    /\ made < Count
    /\ made' = made + 1
    /\ current' = [current EXCEPT ![p] = made']
    /\ bound' = [bound EXCEPT ![x] = [plugin |-> p, id |-> made']]
    /\ ousted' = IF bound[x].plugin # p THEN ousted \cup At(x) ELSE ousted
    /\ UNCHANGED <<flight, sick, struck>>

\* A plugin that registers loses its other prefixes; the prefix may have been another's.
Register(p, x) ==
    /\ made < Count
    /\ made' = made + 1
    /\ current' = [current EXCEPT ![p] = made']
    /\ bound' = [y \in Prefix |-> IF y = x THEN [plugin |-> p, id |-> made']
                                  ELSE IF bound[y].plugin = p THEN Unbound ELSE bound[y]]
    /\ ousted' = IF bound[x].plugin # p THEN ousted \cup At(x) ELSE ousted
    /\ UNCHANGED <<flight, sick, struck>>

\* By name: all of a plugin's prefixes.
Unregister(p) ==
    /\ bound' = [y \in Prefix |-> IF bound[y].plugin = p THEN Unbound ELSE bound[y]]
    /\ current' = [current EXCEPT ![p] = 0]
    /\ UNCHANGED <<made, flight, sick, struck, ousted>>

\* By prefix: whosever it is.
UnregisterPrefix(x) ==
    /\ bound[x] # Unbound
    /\ bound' = [bound EXCEPT ![x] = Unbound]
    /\ current' = [current EXCEPT ![bound[x].plugin] = 0]
    /\ UNCHANGED <<made, flight, sick, struck, ousted>>

\* A registration is taken from the registry, to be called now or further down the list.
Takes(x) ==
    /\ bound[x] # Unbound
    /\ flight' = flight \cup {<<x, bound[x].id>>}
    /\ UNCHANGED <<bound, current, made, sick, struck, ousted>>

Sickens(i) ==
    /\ i \in 1..made /\ sick' = sick \cup {i}
    /\ UNCHANGED <<bound, current, made, flight, struck, ousted>>

Returns(x, i) ==
    /\ <<x, i>> \in flight /\ flight' = flight \ {<<x, i>>}
    /\ UNCHANGED <<bound, current, made, sick, struck, ousted>>

\* registrations.delete(registration.prefix)
Fails(x, i) ==
    /\ <<x, i>> \in flight /\ flight' = flight \ {<<x, i>>}
    /\ i \in sick
    /\ bound' = [bound EXCEPT ![x] = Unbound]
    /\ struck' = struck \cup (At(x) \ {i})
    /\ UNCHANGED <<current, made, sick, ousted>>

RegistryNext ==
    \/ \E p \in Plugin, x \in Prefix : Register(p, x)
    \/ \E p \in Plugin : Unregister(p)
    \/ \E x \in Prefix : UnregisterPrefix(x) \/ Takes(x)
    \/ \E i \in 1..Count : Sickens(i)
    \/ \E x \in Prefix, i \in 1..Count : Returns(x, i) \/ Fails(x, i)

RegistrySpec == RegistryInit /\ [][RegistryNext]_registryVars

-----------------------------------------------------------------------------
\* Every variable has its type.
RegistryTypeOK ==
    /\ bound \in [Prefix -> [plugin : Plugin, id : 1..Count] \cup {Unbound}]
    /\ current \in [Plugin -> 0..Count]
    /\ made \in 0..Count
    /\ flight \subseteq Prefix \X (1..Count)
    /\ sick \subseteq 1..Count /\ struck \subseteq 1..Count /\ ousted \subseteq 1..Count

\* "One live dynamic surface per plugin ... A plugin can re-register after restart and
\* atomically replace its old binding": what is bound is what its plugin registered last,
\* and that is bound as long as its process answers, unless a call to an earlier
\* registration failed late or another plugin has taken the prefix.
RegistryFollowsPlugins ==
    /\ \A x \in Prefix : bound[x] # Unbound => current[bound[x].plugin] = bound[x].id
    /\ \A p \in Plugin :
        current[p] \in {0} \cup sick \cup struck \cup ousted
          \/ \E x \in Prefix : bound[x] = [plugin |-> p, id |-> current[p]]
=============================================================================
