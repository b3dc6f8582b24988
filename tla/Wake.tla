--------------------------------- MODULE Wake ---------------------------------
(***************************************************************************)
(* maw wake and maw sleep of one oracle: cmdWake of commands/shared/       *)
(* wake-cmd.ts, the plan of wake-cmd-helpers.ts, ensureSessionRunning and  *)
(* createWorktree of wake-session.ts, detectSession of                     *)
(* wake-resolve-impl.ts, the cap of wake-concurrency.ts, and doSleep of    *)
(* the plugin sleep.                                                       *)
(*                                                                         *)
(* The worktrees of one task are numbered.  The window of one is named     *)
(* after the task (Plain), or after its number when that name is taken;    *)
(* Main is the window of the repository, directory 0.  A waker is a        *)
(* process that runs cmdWake; every await of it is a point where another   *)
(* gets in, and it may die there.  A lone waker wakes again and again; of  *)
(* several, each wakes once, a bound.  Left out: foreign sessions, bring,  *)
(* snapshots, --name, prompts, a change of engine, dry runs, branches left *)
(* by removed worktrees, worktrees that are shown as tiles, which a plan   *)
(* passes over, a session that is mapped to a name that is not found by    *)
(* the oracle's, and what follows a wake on the screen.                    *)
(***************************************************************************)
EXTENDS Naturals, FiniteSets

CONSTANTS Waker,       \* processes, which are numbers: of several, the lesser begin first
          Main, Plain, \* names of windows
          Tree,        \* numbers of worktrees, not 0; a bound, too
          Cap,         \* limits.maxConcurrentAgents
          MaxEnds      \* bound: ends of agents and windows among several wakers

VARIABLES crew,      \* the wakers there are: one that wakes again and again, or each wakes once
          ends,      \* ends of agents and windows so far, if they are several
          mapped,    \* the configuration or a fleet file names the session, and by its number
          worktrees, \* the worktrees there are
          tabs,      \* the window of each name in each session: where it is, and what runs there
          wake,      \* the waker: where it is, and what it has read
          unseen,    \* history: a count went by an agent that was there or on its way
          amiss      \* history: what the promise below makes an exception of has happened

wakeVars == <<crew, ends, mapped, worktrees, tabs, wake, unseen, amiss>>

Session == 1..2 \* a bound: a third session is like a second one
Name    == {Main, Plain} \cup Tree
Dir     == {0} \cup Tree
Tab     == Session \X Name

\* There is no window of the name; or there are two, which tmux takes for none.
Closed    == [runs |-> "none", dir |-> 0, counted |-> FALSE, twin |-> FALSE]
Has(t)    == tabs[t].runs # "none"
Unique(t) == Has(t) /\ ~tabs[t].twin
Names(s) == {n \in Name : Has(<<s, n>>)}
Sessions == {s \in Session : Names(s) # {}}
Live     == {t \in Tab : Unique(t) /\ tabs[t].runs = "agent"}

Idle == [at |-> "idle", task |-> "none", rehydrate |-> FALSE, session |-> 0, created |-> FALSE,
         sure |-> TRUE, known |-> {}, reliable |-> TRUE, todo |-> {}, name |-> Main, dir |-> 0]

Least(W) == CHOOSE w \in W : \A x \in W : w <= x

WakeInit ==
    /\ crew \in {{Least(Waker)}, Waker}
    /\ ends = 0
    /\ mapped \in BOOLEAN
    /\ worktrees \in SUBSET Tree
    /\ tabs = [t \in Tab |-> Closed]
    /\ wake = [p \in Waker |-> Idle]
    /\ unseen = FALSE /\ amiss = FALSE

At(p, here) == wake[p].at = here
Busy(p) == wake[p].at \notin {"idle", "over"}
Target(p) == <<wake[p].session, wake[p].name>>
\* The waker goes on, with other fields of its own.
Goes(p, record) == wake' = [wake EXCEPT ![p] = record]
GoesTo(p, there) == Goes(p, [wake[p] EXCEPT !.at = there])

\* A window opens, with a shell.
Shell(d) == [runs |-> "shell", dir |-> d, counted |-> FALSE, twin |-> FALSE]
New(t, d) == tabs' = [tabs EXCEPT ![t] = IF Has(t) THEN [@ EXCEPT !.twin = TRUE] ELSE Shell(d)]

\* The launch command, with its cd: a shell takes it, and a program that runs reads it.
\* It is counted if a count of the agents came before it.  It is amiss if the window was
\* that of another worktree.
Types(t, d, counted) ==
    /\ Unique(t)
    /\ IF tabs[t].runs = "shell"
         THEN /\ tabs' = [tabs EXCEPT ![t] = [Shell(d) EXCEPT !.runs = "starting",
                                                             !.counted = counted]]
              /\ amiss' = (amiss \/ tabs[t].dir # d)
         ELSE UNCHANGED <<tabs, amiss>>

\* The wake is over, one way or another.
Over(p) == Goes(p, IF crew = {p} THEN Idle ELSE [Idle EXCEPT !.at = "over"])

\* There is a window of the name or in the place already.
Taken(t, d) ==
    Has(t) \/ \E n \in Names(t[1]) : tabs[<<t[1], n>>].dir = d

Fails(p) ==
    /\ Over(p)
    /\ UNCHANGED <<crew, ends, mapped, worktrees, tabs, unseen, amiss>>

-----------------------------------------------------------------------------
\* detectSession.  listSessions has no session at all when it fails for one of them.
\* With two sessions that fit, the process exits.  A waker is sure of what it has seen if
\* it could read it and has been the only one since.
Look(p, task, rehydrate, blind) ==
    LET found == IF blind THEN {} ELSE Sessions
        others == {q \in crew \ {p} : Busy(q)}
    IN
    /\ p \in crew /\ At(p, "idle") /\ \A s, r \in found : s = r
    /\ \A q \in crew : q < p => ~At(q, "idle")
    /\ blind => Sessions # {}
    /\ \E s \in IF found = {} THEN {0} ELSE found :
          wake' = [q \in Waker |->
             IF q = p THEN [Idle EXCEPT !.at = IF s = 0 THEN "name" ELSE "list",
                                        !.session = s, !.task = task,
                                        !.rehydrate = rehydrate /\ task = "none",
                                        !.sure = others = {} /\ ~blind]
             ELSE [wake[q] EXCEPT !.sure = ~Busy(q)]]
    /\ UNCHANGED <<crew, ends, mapped, worktrees, tabs, unseen, amiss>>

\* assertAgentCapacity: an agent that starts up is not counted yet, and none is when tmux
\* cannot list the panes (missed).
Room(missed) == missed \/ Cardinality(Live) < Cap
Unseen(p, missed) ==
    \/ unseen \/ ~wake[p].sure \/ \E t \in Tab : tabs[t].runs = "starting"
    \/ missed /\ Live # {}

CountsFor(p, there) ==
    \E missed \in BOOLEAN :
       \/ /\ Room(missed) /\ unseen' = Unseen(p, missed)
          /\ GoesTo(p, there)
          /\ UNCHANGED <<crew, ends, mapped, worktrees, tabs, amiss>>
       \/ ~Room(missed) /\ Fails(p)

\* A new session is a new agent, so the agents are counted.
CountForSession(p) == At(p, "name") /\ CountsFor(p, "number")

\* chooseWakeSessionName: the name that is mapped with its number, or the next number after
\* those of the sessions that are listed; it may be taken where the list fails.
NewName(blind) ==
    IF mapped \/ Sessions = {} THEN {1} ELSE IF blind THEN Session ELSE Session \ Sessions

ChooseName(p) ==
    /\ At(p, "number")
    /\ \E blind \in BOOLEAN : \E s \in NewName(blind) :
          Goes(p, [wake[p] EXCEPT !.at = "create", !.session = s])
    /\ UNCHANGED <<crew, ends, mapped, worktrees, tabs, unseen, amiss>>

\* tmux makes no second session of a name.
Create(p) ==
    LET s == wake[p].session IN
    /\ At(p, "create")
    /\ \/ /\ s \notin Sessions
          /\ New(<<s, Main>>, 0) /\ Goes(p, [wake[p] EXCEPT !.at = "launch", !.created = TRUE])
          /\ amiss' = (amiss \/ (Sessions # {} /\ ~wake[p].sure))
          /\ UNCHANGED <<crew, ends, mapped, worktrees, unseen>>
       \/ s \in Sessions /\ Fails(p)

Launch(p) ==
    LET t == <<wake[p].session, Main>> IN
    /\ At(p, "launch") /\ Types(t, 0, TRUE) /\ GoesTo(p, "list")
    /\ UNCHANGED <<crew, ends, mapped, worktrees, unseen>>

-----------------------------------------------------------------------------
\* planRehydrateWorktreeWindows: windows for the worktrees in the order they are found, one
\* by the name of the task and the others by their numbers; none while that name is taken.
Plans(existing) ==
    LET missing == worktrees \ existing IN
    IF Plain \in existing \/ missing = {} THEN {{}}
    ELSE {{<<Plain, first>>} \cup {<<w, w>> : w \in missing \ {first}} : first \in missing}

\* The windows of the session, which may fail: in a session of its own the waker goes on
\* with Main, and elsewhere it takes its list for not reliable.
List(p) ==
    /\ At(p, "list")
    /\ \E reliable \in BOOLEAN :
          LET s == wake[p].session
              listed == IF reliable THEN Names(s) ELSE {}
              known == listed \cup IF wake[p].created THEN {Main} ELSE {}
          IN \E todo \in IF wake[p].rehydrate THEN Plans(known) ELSE {{}} :
                Goes(p, [wake[p] EXCEPT !.at = "spawn", !.known = known, !.todo = todo,
                                        !.rehydrate = FALSE,
                                        !.reliable = reliable \/ wake[p].created])
    /\ UNCHANGED <<crew, ends, mapped, worktrees, tabs, unseen, amiss>>

\* The next window of the plan, and the launch of its agent: no agents are counted here.
Spawn(p, t) ==
    LET s == wake[p].session IN
    /\ At(p, "spawn") /\ t \in wake[p].todo /\ s \in Sessions
    /\ \A x \in wake[p].todo : x[1] = Plain => t = x
    /\ New(<<s, t[1]>>, t[2])
    /\ amiss' = (amiss \/ ~wake[p].reliable \/ (Taken(<<s, t[1]>>, t[2]) /\ ~wake[p].sure))
    /\ Goes(p, [wake[p] EXCEPT !.at = "type", !.name = t[1], !.dir = t[2], !.todo = @ \ {t}])
    /\ UNCHANGED <<crew, ends, mapped, worktrees, unseen>>

TypeSpawned(p) ==
    /\ At(p, "type") /\ Types(Target(p), wake[p].dir, FALSE)
    /\ Goes(p, [wake[p] EXCEPT !.at = "spawn", !.known = @ \cup {wake[p].name},
                               !.name = Main, !.dir = 0])
    /\ UNCHANGED <<crew, ends, mapped, worktrees, unseen>>

\* ensureSessionRunning, in a session there was: idle shells that the waker does not know.
Retry(p) ==
    LET s == wake[p].session
        idle == IF wake[p].created THEN {}
                ELSE {t \in {s} \X (Name \ wake[p].known) :
                          Unique(t) /\ tabs[t].runs = "shell"}
    IN
    /\ At(p, "spawn") /\ wake[p].todo = {}
    /\ tabs' = [t \in Tab |-> IF t \in idle THEN [tabs[t] EXCEPT !.runs = "starting"] ELSE tabs[t]]
    /\ Goes(p, [wake[p] EXCEPT !.at = "window", !.created = FALSE])
    /\ UNCHANGED <<crew, ends, mapped, worktrees, unseen, amiss>>

-----------------------------------------------------------------------------
NextNumber(W) == IF W = {} THEN 1 ELSE 1 + CHOOSE w \in W : \A x \in W : x <= w

\* The worktree a task is to run in: the first of those there are, or a new one, which
\* --fresh always is (createWorktree).
Worktree(p) ==
    IF wake[p].task = "none" THEN 0
    ELSE IF wake[p].task = "fresh" \/ worktrees = {} THEN NextNumber(worktrees) ELSE Least(worktrees)

\* findExistingWakeWindow: by its name, or the task's with any number.
Existing(known, name) ==
    IF name \in known THEN {name} ELSE IF name = Plain THEN known \cap Tree ELSE {}

\* Mutant: what could not be listed is not there.
ChooseWindowBlindly(p) ==
    LET dir == Worktree(p)
        name == IF dir = 0 THEN Main ELSE Plain
        existing == Existing(wake[p].known, name)
        chosen == [Idle EXCEPT !.session = wake[p].session, !.dir = dir, !.sure = wake[p].sure]
    IN
    /\ At(p, "window") /\ dir \in Dir
    /\ worktrees' = worktrees \cup ({dir} \ {0})
    /\ IF existing = {} THEN Goes(p, [chosen EXCEPT !.at = "room", !.name = name])
       ELSE \E n \in existing : Goes(p, [chosen EXCEPT !.at = "check", !.name = n])
    /\ UNCHANGED <<crew, ends, mapped, tabs, unseen, amiss>>

ChooseWindow(p) ==
    LET dir == Worktree(p)
        name == IF dir = 0 THEN Main ELSE Plain
        existing == Existing(wake[p].known, name)
        chosen == [Idle EXCEPT !.session = wake[p].session, !.dir = dir, !.sure = wake[p].sure]
    IN
    /\ At(p, "window") /\ dir \in Dir
    /\ worktrees' = worktrees \cup ({dir} \ {0})
    /\ \/ \E n \in existing :
             Goes(p, [chosen EXCEPT !.at = "check", !.name = n])
       \/ /\ existing = {} /\ wake[p].reliable
          /\ Goes(p, [chosen EXCEPT !.at = "room", !.name = name])
       \/ existing = {} /\ ~wake[p].reliable /\ Over(p)
    /\ UNCHANGED <<crew, ends, mapped, tabs, unseen, amiss>>

\* getPaneInfos: an agent runs in the window, or it is launched there; also into one that
\* runs, where tmux cannot tell.
Check(p) ==
    /\ At(p, "check")
    /\ \/ Target(p) \in Live /\ Over(p)
       \/ GoesTo(p, "relaunch")
    /\ UNCHANGED <<crew, ends, mapped, worktrees, tabs, unseen, amiss>>

\* An agent that ended is launched again, in the worktree that was asked for: the window
\* may be that of another one.
Relaunch(p) ==
    /\ At(p, "relaunch") /\ Types(Target(p), wake[p].dir, FALSE) /\ Over(p)
    /\ UNCHANGED <<crew, ends, mapped, worktrees, unseen>>

\* So is a window of a task.
CountForWindow(p) == At(p, "room") /\ CountsFor(p, "open")

Open(p) ==
    LET t == Target(p) IN
    /\ At(p, "open") /\ t[1] \in Sessions
    /\ New(t, wake[p].dir) /\ GoesTo(p, "start")
    /\ amiss' = (amiss \/ (Taken(t, wake[p].dir) /\ ~wake[p].sure))
    /\ UNCHANGED <<crew, ends, mapped, worktrees, unseen>>

Start(p) ==
    /\ At(p, "start") /\ Types(Target(p), wake[p].dir, TRUE) /\ Over(p)
    /\ UNCHANGED <<crew, ends, mapped, worktrees, unseen>>

\* A step of tmux, git or pass fails, or the process dies.
Dies(p) == Busy(p) /\ Fails(p)

-----------------------------------------------------------------------------
\* What goes on in a window: an agent comes up, or it ends.
ComesUp(t) ==
    /\ Unique(t) /\ tabs[t].runs = "starting"
    /\ tabs' = [tabs EXCEPT ![t].runs = "agent"]
    /\ UNCHANGED <<crew, ends, mapped, worktrees, wake, unseen, amiss>>

\* It is counted among several wakers only.
OneMore ==
    /\ Cardinality(crew) > 1 => ends < MaxEnds
    /\ ends' = IF Cardinality(crew) > 1 THEN ends + 1 ELSE ends

Ends(t) ==
    /\ OneMore /\ Unique(t) /\ tabs[t].runs # "shell"
    /\ tabs' = [tabs EXCEPT ![t] = Shell(@.dir)]
    /\ UNCHANGED <<crew, mapped, worktrees, wake, unseen, amiss>>

\* doSleep: /exit, of which the agent Ends if it does; and after three seconds the window
\* that has its name by then is closed.  So does whoever else closes a window.
Kill(t) ==
    /\ OneMore /\ Unique(t)
    /\ tabs' = [tabs EXCEPT ![t] = Closed]
    /\ UNCHANGED <<crew, mapped, worktrees, wake, unseen, amiss>>

WakeNext ==
    \/ \E p \in Waker :
          \/ \E task \in {"none", "task", "fresh"}, rehydrate, blind \in BOOLEAN :
                Look(p, task, rehydrate, blind)
          \/ \E t \in Name \X Tree : Spawn(p, t)
          \/ CountForSession(p) \/ ChooseName(p) \/ Create(p) \/ Launch(p) \/ List(p) \/ TypeSpawned(p) \/ Retry(p)
          \/ ChooseWindow(p) \/ Check(p) \/ Relaunch(p) \/ CountForWindow(p) \/ Open(p)
          \/ Start(p) \/ Dies(p)
    \/ \E t \in Tab : ComesUp(t) \/ Ends(t) \/ Kill(t)

WakeSpec == WakeInit /\ [][WakeNext]_wakeVars

-----------------------------------------------------------------------------
Place == {"idle", "over", "name", "number", "create", "launch", "list", "spawn", "type", "window",
          "check", "relaunch", "room", "open", "start"}

\* Every variable has its type.
WakeTypeOK ==
    /\ {mapped, unseen, amiss} \subseteq BOOLEAN
    /\ crew \subseteq Waker /\ ends \in 0..MaxEnds /\ worktrees \subseteq Tree
    /\ tabs \in [Tab -> [runs : {"none", "shell", "starting", "agent"}, dir : Dir,
                          counted : BOOLEAN, twin : BOOLEAN]]
    /\ wake \in [Waker -> [at : Place, task : {"none", "task", "fresh"}, rehydrate : BOOLEAN,
                          session : {0} \cup Session, created : BOOLEAN, sure : BOOLEAN,
                          known : SUBSET Name, reliable : BOOLEAN, todo : SUBSET (Name \X Tree),
                          name : Name, dir : Dir]]

\* The oracle has one session at most, and that has one window of a name at most, ...
OneOfAKind == (\A s, r \in Sessions : s = r) /\ \A t \in Tab : ~tabs[t].twin

\* ... and no two windows in the same place.
OwnDirectory == \A t, u \in {x \in Tab : Has(x)} : t # u => tabs[t].dir # tabs[u].dir

\* A session that is mapped with its number is the only one, whoever races and whatever fails.
MappedIsOne == mapped => Sessions \subseteq {1}

\* Of the agents that were launched after a count there are no more than the cap, ...
WithinCap == Cardinality({t \in Live : tabs[t].counted}) <= Cap

\* ... unless a count went by one that was starting up, or by one that runs since the panes
\* could not be listed, or another waker was at work.  The rest holds until something is
\* amiss: a waker that was not alone, or could not read what there is, has opened a second
\* session or window, or one of a plan; or an agent was launched in the window of another
\* worktree.
WakePromise ==
    /\ MappedIsOne
    /\ amiss \/ (OneOfAKind /\ OwnDirectory)
    /\ amiss \/ unseen \/ WithinCap
=============================================================================
