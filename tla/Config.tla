-------------------------------- MODULE Config --------------------------------
(***************************************************************************)
(* maw.config.json (config/load.ts, config/fleet-merge.ts), which every    *)
(* process reads once and keeps, and writes back whole to change one thing *)
(* in it: no lock, no temporary file.  The file is the set of what it says *)
(* beyond the defaults: the plugins in disabledPlugins, the oracles in     *)
(* agents, the triggers, and the marker of a migration.  The six           *)
(* migrations of plugins have one form, and one stands for them.           *)
(*                                                                         *)
(* A process may end or be killed anywhere, and comes back without its     *)
(* cache: the next command, or the server after a restart.                 *)
(***************************************************************************)
EXTENDS Naturals, Sequences, FiniteSets

CONSTANTS Proc, None,
          Listed, Old,     \* what the file lists; a migration takes Old off disabledPlugins
          Oracle, Fleet,   \* keys of agents: oracles a wake registers, windows in fleet files
          Marker,          \* of the migration
          MaxWrites        \* bound on the writes to the file

VARIABLES disk,    \* what the file says, or Empty once truncated, or Junk
          cache,   \* per process, `cached`, or None
          write,   \* its write: for a save or a migration, opening or filling the file
          change,  \* what a save adds and takes away
          healed,  \* the processes whose cache is migrated and the file not, by them
          initial, \* what the file said at first
          heard,   \* history: how many writes had been made when a process read the file
          blind,   \* history: the processes that read it while it could not be parsed
          log      \* history: the writes, as [by, add, cut, heard, blind]

configVars == <<disk, cache, write, change, healed, initial, heard, blind, log>>

Item == Listed \cup Oracle \cup Fleet \cup {Marker}

Empty == [parsed |-> FALSE, says |-> {}]
Junk  == [parsed |-> FALSE, says |-> {Marker}]
Whole(items) == [parsed |-> TRUE, says |-> items]

Idle == [for |-> "none", at |-> "none"]
Nothing == [add |-> {}, cut |-> {}]

ConfigInit ==
    /\ initial \in {{}, {Old}}
    /\ disk = Whole(initial)
    /\ cache = [p \in Proc |-> None] /\ write = [p \in Proc |-> Idle]
    /\ change = [p \in Proc |-> Nothing] /\ healed = {}
    /\ heard = [p \in Proc |-> 0] /\ blind = {} /\ log = <<>>

\* loadFleetAgents: every window of a fleet file is a key of agents too.
WithFleet(items) == items \cup Fleet

Applied(items, c) == (items \ c.cut) \cup c.add
Migration == [add |-> {Marker}, cut |-> {Old}]

\* loadConfig without a cache: what cannot be parsed is as good as no file.  A list a
\* migration applies to is healed, here and on disk, before the fleet is merged in.
LoadConfig(p) ==
    /\ cache[p] = None
    /\ LET items == IF disk.parsed THEN disk.says ELSE {}
           heals == Old \in items /\ Marker \notin items
       IN  IF heals
             THEN /\ cache' = [cache EXCEPT ![p] = Applied(items, Migration)]
                  /\ write' = [write EXCEPT ![p] = [for |-> "migrate", at |-> "open"]]
                  /\ healed' = healed \cup {p}
             ELSE /\ cache' = [cache EXCEPT ![p] = WithFleet(items)]
                  /\ UNCHANGED <<write, healed>>
    /\ heard' = [heard EXCEPT ![p] = Len(log)]
    /\ blind' = IF disk.parsed THEN blind \ {p} ELSE blind \cup {p}
    /\ UNCHANGED <<disk, change, initial, log>>

\* saveConfig: the write begins, of what the process believes the file says, changed.
Save(p, add, cut) ==
    /\ write[p] = Idle /\ cache[p] # None
    /\ write' = [write EXCEPT ![p] = [for |-> "save", at |-> "open"]]
    /\ change' = [change EXCEPT ![p] = [add |-> add, cut |-> cut]]
    /\ UNCHANGED <<disk, cache, healed, initial, heard, blind, log>>

Has(p, x) == cache[p] # None /\ x \in cache[p]

\* A plugin is disabled, or a trigger added; a plugin enabled, or a trigger spent.
Enlist(p, x) == ~Has(p, x) /\ Save(p, {x}, {})
Strike(p, x) == Has(p, x) /\ Save(p, {}, {x})

\* cmdWake, of an oracle it has made a session for.
RegisterAgent(p, a) == ~Has(p, a) /\ Save(p, {a}, {})

\* writeFileSync opens the file, which truncates it, and then fills it.
Truncate(p) ==
    /\ write[p].at = "open"
    /\ Len(log) + Cardinality({q \in Proc : write[q].at = "fill"}) < MaxWrites
    /\ write' = [write EXCEPT ![p].at = "fill"]
    /\ disk' = Empty
    /\ UNCHANGED <<cache, change, healed, initial, heard, blind, log>>

\* What the write changes on disk: a migration that has not got there yet is part of it.
Saved(p) ==
    IF p \in healed THEN [add |-> change[p].add \cup Migration.add,
                          cut |-> change[p].cut \cup (Migration.cut \ change[p].add)]
                    ELSE change[p]

\* Mutant: saveConfig does not drop the cache.
FillKeepsCache(p) ==
    /\ write[p].at = "fill"
    /\ LET content == Applied(cache[p], change[p]) IN
         disk' \in IF disk = Empty THEN {Whole(content)} ELSE {Whole(content), Junk}
    /\ cache' = [cache EXCEPT ![p] = IF write[p].for = "save" THEN @ ELSE WithFleet(@)]
    /\ log' = Append(log, [by |-> p, add |-> Saved(p).add, cut |-> Saved(p).cut,
                           heard |-> heard[p], blind |-> p \in blind])
    /\ healed' = healed \ {p}
    /\ write' = [write EXCEPT ![p] = Idle]
    /\ change' = [change EXCEPT ![p] = Nothing]
    /\ UNCHANGED <<initial, heard, blind>>

\* Over what another has filled it with since, shorter content leaves a tail of it.
\* saveConfig then drops the cache; a load that has migrated goes on with the fleet.
Fill(p) ==
    /\ write[p].at = "fill"
    /\ LET content == Applied(cache[p], change[p]) IN
         disk' \in IF disk = Empty THEN {Whole(content)} ELSE {Whole(content), Junk}
    /\ cache' = [cache EXCEPT ![p] = IF write[p].for = "save" THEN None ELSE WithFleet(@)]
    /\ log' = Append(log, [by |-> p, add |-> Saved(p).add, cut |-> Saved(p).cut,
                           heard |-> heard[p], blind |-> p \in blind])
    /\ healed' = healed \ {p}
    /\ write' = [write EXCEPT ![p] = Idle]
    /\ change' = [change EXCEPT ![p] = Nothing]
    /\ UNCHANGED <<initial, heard, blind>>

\* The write fails, or part of it does.  saveConfig throws and keeps the cache; a
\* migration that could not be written is reported, and the load goes on.
WriteFails(p) ==
    /\ write[p] # Idle
    /\ disk' \in IF write[p].at = "fill" THEN {disk, Junk} ELSE {disk}
    /\ cache' = [cache EXCEPT ![p] = IF write[p].for = "save" THEN @ ELSE WithFleet(@)]
    /\ write' = [write EXCEPT ![p] = Idle]
    /\ change' = [change EXCEPT ![p] = Nothing]
    /\ UNCHANGED <<healed, initial, heard, blind, log>>

\* The process ends, or is killed.
Exit(p) ==
    /\ cache[p] # None
    /\ cache' = [cache EXCEPT ![p] = None]
    /\ write' = [write EXCEPT ![p] = Idle]
    /\ change' = [change EXCEPT ![p] = Nothing]
    /\ healed' = healed \ {p}
    /\ UNCHANGED <<disk, initial, heard, blind, log>>

ConfigNext ==
    \E p \in Proc :
        \/ LoadConfig(p) \/ Truncate(p) \/ Fill(p) \/ WriteFails(p) \/ Exit(p)
        \/ \E x \in Listed : Enlist(p, x) \/ Strike(p, x)
        \/ \E a \in Oracle : RegisterAgent(p, a)

ConfigSpec == ConfigInit /\ [][ConfigNext]_configVars

-----------------------------------------------------------------------------
ConfigTypeOK ==
    /\ disk \in [parsed : BOOLEAN, says : SUBSET Item]
    /\ \A p \in Proc : cache[p] = None \/ cache[p] \subseteq Item
    /\ write \in [Proc -> {Idle} \cup [for : {"save", "migrate"}, at : {"open", "fill"}]]
    /\ change \in [Proc -> [add : SUBSET Item, cut : SUBSET Item]]
    /\ healed \subseteq Proc /\ initial \subseteq Item
    /\ heard \in [Proc -> 0..MaxWrites] /\ blind \subseteq Proc

\* A write may undo the i-th one: another process made it that had read the file before
\* that, or anyone who had found the file unreadable.
MayUndo(j, i) ==
    \/ log[j].blind
    \/ log[j].by # log[i].by /\ log[j].heard < i

About(i, x) == x \in log[i].add \cup log[i].cut

\* load.ts:356, "clear cache so next loadConfig() reads fresh".  A file that can be read
\* says of every plugin, oracle and trigger what the last write about it said, whichever
\* process made it and whatever was written, failed or died since: but for writers that
\* had read the file before, or while it was unreadable, and for the fleet, which any
\* write leaves in the file.  So a process never undoes what it did itself.
FileSaysWhatWasSaved ==
    disk.parsed => \A x \in Item \ Fleet :
        \/ \E i \in DOMAIN log :
             /\ About(i, x)
             /\ \A j \in DOMAIN log : j > i => ~About(j, x)
             /\ \/ x \in disk.says <=> x \in log[i].add
                \/ \E j \in DOMAIN log : j > i /\ MayUndo(j, i)
        \/ /\ \A i \in DOMAIN log : ~About(i, x)
           /\ \/ x \in disk.says <=> x \in initial
              \/ \E j \in DOMAIN log : log[j].blind
=============================================================================
