# maw-js: a verification development

maw-js (`meganechan/maw-js`) drives fleets of AI agents that live in tmux panes: a
CLI, a server (`maw serve`), a federation of peers and a set of web terminals. This
directory models the parts of it whose correctness depends on the order in which
things happen, model-checks them with TLC, and proves the central safety properties
with TLAPS. Source paths below are relative to `src/src/`.

## 1. Inventory

What the program consists of, the state each part keeps, how it interacts, what is
hard about it, and what makes it correct.

| Part | State | Operations | Hard behaviour | Correct means |
|---|---|---|---|---|
| Peers lock, `lib/peers/lock.ts` | the file `peers.json.lock` with a pid in it | `withPeersLock`: create, stamp, read the holder, poll, time out, steal, release | several `maw` processes interleave at every system call; holders are killed | exclusion, no wait for ever, no lock left behind |
| Peer store, `lib/peers/store.ts` | `peers.json`, `peers.json.tmp`, `peers.json.corrupt-*` | `loadPeers`, `mutatePeers` | loads run without the lock beside locked writers; crashes between open, write and rename | an atomic register, nothing lost, nothing truncated |
| TOFU pins, `lib/peers/tofu.ts`, `impl.ts` | `pubkey` of each entry | `cmdAdd`, `cmdProbe`, `forget`, `remove` | decisions are taken on an entry read before a network round trip and applied after it | a pin changes only when the operator says so |
| Pane lock, `core/transport/tmux-pane-lock.ts` | `paneQueue`, a chain of promises | `withPaneLock`, `splitWindowLocked` | callers arrive while others wait; `split-window` may fail | one split at a time, in order, no poisoned queue |
| Web terminals, `core/transport/pty.ts` | `sessions`, `attaching`, `creatingPtyNames`, grace timers, tmux's own sessions | attach, detach, close, sweep, the reader of the wrapper's output | every await is a gap in which clients, timers, exits and sweeps act | one pty per target, no viewed pty killed, none leaked |
| Triggers, `core/runtime/triggers-*.ts` | the `triggers` of the config, idle and cron bookkeeping | `fire`, the idle check, the cron tick, the event listener | an await inside a loop over a list that the loop edits; overlapping intervals | a once-trigger that has run is removed, nothing else is, and later fires leave it alone |
| Hub transport, `transports/hub-*.ts` | per workspace a socket, a heartbeat, a reconnect timer, a set of remote agents | connect, disconnect, publish, the socket's events | close events arrive after the state they refer to is gone | one live socket per workspace, what is called reachable has a socket, reconnection never stops |
| Transport router, `core/transport/transport.ts` | the ordered list of transports | `send`, `publish*`, `connectAll` | a transport fails after it has delivered | a message is sent by the first transport that can |
| Consent, `core/consent/*`, `api/consent.ts` | pending requests on two hosts, `trust.json` | request, approve, reject, trust, untrust, lazy expiry, the gate | a lost answer, two verdicts at once, a crash between two writes | the trust file says what the node was told, an approval takes effect |
| Trust list, `lib/trust-store.ts` | the same `trust.json`, in another shape | add, remove, list | two modules rewrite one file | neither drops what the other recorded |
| Scout and pairing, `transports/scout*.ts`, `api/pair.ts`, `lib/pair-codes.ts` | discovered peers, pending connections, recent hellos, pair codes | hello, scout, auto-pair, accept, prune | UDP loss and duplication, an answer that comes too late, codes consumed before the work is done | who has stored the other is stored by it, and nothing is pending for ever |
| Engine, `engine/*` | the cached list of windows, a status per window index, intervals | listing, capture, status detection, crash check with restart | overlapping async ticks over shared snapshots; indices that tmux gives to other windows | an agent is restarted when one has ended there, and only then |
| Sending, `commands/shared/comm-send.ts`, `queue-store.ts`, `receiver-inbox.ts`, `scope-acl.ts`, `api/sessions.ts` | queued messages, inbox files | send, fan-out, hold, approve, reject, inbox fallback | lost answers, an exit that does not exit, a message approved and not sent; inbox file names collide | the sender is told what became of the message |
| Instance pid and update, `cli/instance-pid.ts`, `cli/update-lock.ts`, `cli/cmd-update.ts` | pid files, a binary and a package with their stashes | acquire, force take-over, status, stop, clean-up, update with roll-back | as the peers lock; an update killed half-way, and the one after it | one server; a working `maw` within reach whatever fails |
| Engine plugin registry, `core/engine-plugin-registry.ts` | the prefix each plugin is registered at | register, unregister, health polls, events, proxied requests | a call that fails late unbinds what is registered by then | what is bound is what its plugin registered last |
| Configuration, `config/load.ts`, `fleet-merge.ts` | `maw.config.json`, a cached copy in every process | load with migration and merge of the fleet, save | every process writes back the whole of a copy that may be old, without a lock or a tmp file | the file says what was saved last, and nobody undoes what it did itself |
| Wake and sleep, `commands/shared/wake-*.ts`, `vendor/mpr-plugins/sleep` | tmux sessions and windows, worktrees on disk | detect, create, rehydrate, retry, relaunch, open; the cap on agents; sleep | every step is an await in a process of its own; what was listed is used many steps later, and a list may fail | one session per oracle, one window and one worktree per task, no more agents than the cap |
| Plugin lifecycle, keys, auto-restore, ssh and http transports, views, CLI commands | files, tmux | many | mostly straight-line input and output | not a question of order |

### Interaction

`maw peers add` and `probe` call the store, which runs its read-mutate-write as `fn` of
the lock; every other command only loads. The pane lock serves the commands that
split tmux windows (teams, tile, swarm, the layout manager). The web server owns the
pty handlers and runs their sweep periodically. The engine's state changes feed the
trigger engine; the router sends through the hub transport among others; the scopes and
consent gate what `comm-send` puts on the wire, the one into the approval queue, the
other into a request that the human at the other end approves. Both keep what they
trust in one file.

Two processes never share memory: what they share is files (peers, locks, trust, inbox)
and tmux. Inside the server everything runs on one JavaScript thread, so the unit of
atomicity is the code between two awaits; that is what one action stands for in
`PaneLock`, `PtySessions`, `Triggers`, `HubTransport`, `TransportRouter`, `Scout`,
`PluginRegistry` and `Engine`. In `PeersLock`, `PeerStore`, `Consent`, `InstancePid`, `UpdateLock`, `Update`, `Config` and
`Approval` the actors are processes, and an action ends at the next use of a file that others see (what is read
only to be written in the same breath, as the record of a mark, goes with the write); in `Wake` it is one command to tmux.

## 2. Modules

Order of writing, most important behaviour first, and how the modules compose:

| Module | Builds on | Promises what | Proofs |
|---|---|---|---|
| `PeersLock` | | exclusion until a live lock is stolen | `PeerStoreProofs` |
| `PeerStore` | EXTENDS `PeersLock` | implements `PeerRegister`, an atomic read-modify-write | `PeerStoreProofs` |
| `PeerTofu` | an atomic store, as `PeerStore` shows it to be | pins change by the operator only | `PeerTofuProofs` |
| `PaneLock` | | implements `PaneQueue`, callers in a line | `PaneLockProofs` |
| `PtySessions` | | one pty per target, none lost, none leaked | `PtySessionsProofs` |
| `Triggers` | | spent triggers go and nothing else does | `TriggersProofs` |
| `HubTransport` | | one connection attempt per workspace, for ever | `HubTransportProofs` |
| `SendApi` | | every outcome of `POST /api/send` | |
| `Hey` | EXTENDS `SendApi` | an honest report of one send | `ApprovalProofs` |
| `Approval` | EXTENDS `Hey` | what the gate held waits for a verdict and is not lost | `ApprovalProofs` |
| `Consent` | | the trust file is as granted, verdicts take effect | `PartsProofs` |
| `TransportRouter` | EXTENDS `HubTransport` | a true answer for a delivery, the hub not passed over | `HubTransportProofs` |
| `InstancePid` | | one server, and it is named | `PartsProofs` |
| `UpdateLock` | | updates apart until a live lock is taken over | `PartsProofs` |
| `Update` | one update at a time, as `UpdateLock` promises | a working `maw` within reach | `PartsProofs` |
| `Scout` | | pairings known at both ends | `PartsProofs` |
| `PluginRegistry` | | the registry follows its plugins | `PartsProofs` |
| `Config` | | the file says what was saved last | `PartsProofs` |
| `Engine` | | a restart only where an agent has ended | `PartsProofs` |
| `Wake` | | one session, one window per worktree, no more agents than the cap | `PartsProofs` |

`MCParts` puts the last ten side by side. They share no state, and a variable `part` says
which of them a behaviour is one of, so their state spaces add up and do not multiply;
`Consent`, `InstancePid`, `PluginRegistry` and `TransportRouter` come in by EXTENDS, `UpdateLock`, `Update`, `Scout`, `Config`, `Engine` and `Wake` as instances. Every other
`MC...` module only gives names to the values a configuration needs. An
operator with a name like `CreateWithoutExcl` or `PairFailsPending` beside an action is
that action with one plausible bug. It is no part of a specification; it records a bug
that a property was seen to catch (`mutants` in `PROJECT.json`).

### PeersLock and PeerStore: `lib/peers/lock.ts`, `store.ts`

`lockFile` is the file at `peers.json.lock`: who created it and whether a pid is in it
yet, since creating and stamping are two calls (`CreateLock`, `StampPid`). A contender
goes `FindLocked`, `ReadHolder`, then `Poll`, `TimeOut`, or `FindStale` and
`StealLock`; the last is a decision taken on `seen` and an unlink of the *name*, two
steps. An owner leaves `fn` (`LeaveFn`), and removes whatever is at the path
(`CheckOwnLock`, `ReleaseLock`). `Die` kills a process anywhere. `kill(pid, 0)` is
`IsAlive`. `liveSteal` is a history variable: a lock was removed whose creator was
alive. The algorithm has two windows for that: the empty file between create and stamp
reads as a stale lock, and a slow stealer unlinks by name the lock that a faster one has
created since. A write of the pid that fails (`StampFails`) ends the call and leaves the empty file behind,
which the next contender takes for stale; that is the one lock a live process leaves. Everything else is stated and proved up to the first live steal; what
happens after one is a finding.

`PeerStore` adds the files: `disk`, `tmp` with its inode (a rename moves the file a
writer opened, or another's), `aside`. `ClearStaleTmp`, `LoadLive`, `MoveAside` are
`loadPeers`, run without the lock by anybody at any time; `ReadUnlocked` to `RenameTmp` and
`RenameFails` are `mutatePeers` as `fn` of the lock. Every action carries what the
lock does in the same step, so the store's specification is the lock's with more
variables (theorem `ImplementsLock`). `Register` is `PeerRegister` with the
value that `disk` reads as.

### PeerTofu: `lib/peers/impl.ts`, `tofu.ts`

A command is `AddCall`/`ProbeCall`, an awaited probe (`AddAnswer`, `ProbeAnswer`: key,
no key or failure), then the load, the decision and the write: `AddLoad` and
`AddWrite` for `cmdAdd`, `ProbeWrite` and `ApplyTofu` for `cmdProbe`, each a step since
other commands get between them. `Evaluate` is `evaluatePeerIdentity`. `Rotate` is
the environment: a peer is given another key. The store is atomic here because
`StoreIsRegister` shows it is; the residue of live steals stays in `PeerStore`. Two histories say what a pin
may come from: `heard`, the key in a command's answer that it does not refuse, and `accepted`, the keys that the commands
on an alias went on with since the operator last cleared its entry.

### PaneLock: `core/transport/tmux-pane-lock.ts`

The variable `paneQueue` is a promise; promises are numbered as they are created, and
a call waits for the one it found (`Enter`, `Start`); then `Split` or `SplitFails`, the
settle delay (`Settle`), and `Release` in the `finally`.
`PaneQueue` is the abstract line of callers and the one of them that is served: join, be served at
its head, leave.

### PtySessions: `core/transport/pty.ts`

A pty has a number (`nextPtyId`) and a stage; its `viewers`, `timer`, `proc` and
`tmuxAlive` are sets of numbers and clients. `sessions` maps a target to the pty that is tracked for
it. An attach detaches first and then joins (`Join`), is ignored (`Ignore`) or
creates (`Create`: the sweep included). `GroupMade`, `GroupFails`, `Spawn`,
`SpawnThrows` are the awaits of a creation; `StreamEnds` the reader of the
wrapper; `Grace` the timer; `Reap` the periodic sweep. Three history variables record what the
client wanted (`wants`), that a pty was handed to a client which had moved on
(`ghost`), and that the end of one pty took another out of `sessions` (`evicted`).

### Triggers: `core/runtime/triggers-engine.ts`, `triggers-idle.ts`, `trigger-listener.ts`

`config` is the list of triggers as the configuration has it now; a task is a `fire` or
an idle check in flight, with its own copy of the list and position. `Fire`
picks the first matching trigger (`Matching`, `Skips`), `ActionEnds` is what follows the await:
result, removal of a one-time trigger *by index*, the next match. `begun` is the set of one-time triggers that
had succeeded when a fire was called. `CheckIdle` and
`BackInCheck` are the loop of `checkIdleTriggers` with its awaited fires. `Activity`
is `markAgentActive`; `Tick` lets time pass. `outdated` records that an
index was used that no longer meant the same trigger; what goes wrong from then on is bounded too, by `Displaced`: a
trigger of which one before it in the list is gone.

### HubTransport: `transports/hub-transport.ts`, `hub-connection.ts`

Per workspace: the sockets in two slots (`sock`; a socket that is closing may live
beside a new one if anything allowed it, which is what `OneAttempt` denies), `up`,
`beat`, `timer`, `agents`. `Connect`, `TimesOut`, `ConnectReturns` and `Disconnect`
are the transport; `Opened`, `AuthOk`, `Presence`, `NodeLeft`,
`Closing`, `Closed`, `Reopen`, `ReopenThrows` the events. An open socket that starts to close tells nobody: until its
close event `conn.connected` holds, and what is sent is dropped without a word. Delays are not modelled: a
timer that is armed may fire at any time, which covers every back-off.

### SendApi, Hey and Approval: `comm-send.ts`, `api/sessions.ts`, `queue-store.ts`

A call is one run of `cmdSend`, of `maw inbox approve` or of `maw inbox reject`. `Hey` takes it through
`Resolve`, the scope gate (`Hold`, `PassGate`), the consent gate (`Consented`, `Denied`)
and its delivery: into a pane (`TypeLocal`), to a peer (`PostPeer`), to a discovered one
(`Discover`) or to the inbox (`FileLocal`, `LastResort`). `Exits` is `process.exit`, which a fan-out to
a team has replaced by a function that returns; so a member's call goes on behind it.
`SendApi` is the other end: `ServeLive`, `ServeQueued`, `ServeWoken`, `ServeForward`; a
request whose sender has given up is served all the same. `Approval` adds the record
of a held message (`pending`): read, marked, sent again past the gate, deleted, each a
step of its own between which others act and processes are killed. A mark is the read of the record with the tmp file
beside it (`ApproveDraft`, `RejectDraft`), whose name all marks of a record share (`draft`), and its rename (`ApproveMark`,
`RejectMark`), which moves what the file holds by then or throws. An unlink that fails is swallowed and leaves the record,
as a kill before it does. `ResolveFails` goes on behind the exit in a fan-out, and throws. The tally of a
fan-out, which counts a held or a queued member as delivered (`comm-send.ts:355`), is not modelled: an outcome is that of a member.

### Consent: `core/consent/*`, `api/consent.ts`, `lib/trust-store.ts`

Per node one `trust.json`, which consent writes as an object and the trust list of the
scopes as an array; `As` is either's reading, for which the other's shape is empty. A command
is a process: `ReadRequest` and `Mark` for a verdict, `Command` for the rest, then
`Load`, `WriteTmp`, `Rename`. A request is made by the gate (`Asks`), posted and stored at
the other node (`Stored`), and its answer comes or is lost (`Answered`). `granted` records
what a node was told, `clash` where two writers overlapped or the two shapes
met, `contested` where two verdicts on one request did.

### TransportRouter: `core/transport/transport.ts`

A message goes through `Order`; `Hub` asks and sends in one step over the state of
`HubTransport`, which takes all its own steps beside it. It may answer true for a message that a closing socket drops (`lost`). The others may deliver
(`Delivers`) before they answer, fail, or throw, and a request that nobody waits for
any more still arrives (`DeliversLate`). The order is that of `transports/index.ts` for
a server without zenoh, whose optional transports register themselves behind nanoclaw when
their import completes, and without LoRa, which reaches nothing.

### InstancePid, UpdateLock and Update: `cli/instance-pid.ts`, `update-lock.ts`, `cmd-update.ts`

A process runs `serve`, `serve --force-takeover`, `serve status` or `serve stop`, one use
of the pid file a step (`Clears` is what `serveStatus` makes of a dead pid). The empty file between open and write reads as NaN, hence stale, and
every removal is by name. `met` records that two processes were busy with the file at once.
`UpdateLock` is like `PeersLock` in how a lock is created, stamped, read and taken over, and unlike it
in what is under it: an update takes minutes and waits for installers, children that a signal to `maw` alone does
not reach (`Interrupted`, `Perishes`); its handlers release the lock all the same, while a failed update
exits past the `finally` block and may leave it (`Releases`). `robbed` records that a live owner's lock was taken
over by a process that had not read that owner's pid, so a takeover on the word of a live pid is not excused.
`Update` has the binary, the package, and where each has been renamed to. It may be killed at every
step, and the next update finds what is left; `bun` and `curl` are the environment, of which it is assumed that a
first `bun add` that fails or is killed changes nothing.

### Scout: `transports/scout*.ts`, `api/pair.ts`

A node is its zid. `Hello` may come at any time and more than once; the first one of a peer starts a
pairing if the own zid is greater. `Accepts`, `NoRecentHello` and `AcceptsLate` are the
acceptor, `Unanswered` a time-out or a 5xx that is tried again, `Paired` and `PairFails` the end. The acceptor awaits `cmdAdd` between
its check of the hello and the deletion of it; the model takes both at once, since a second request that passes by the same hello
does what one does by a hello that was repeated.

### PluginRegistry: `core/engine-plugin-registry.ts`

Registrations are numbered. A call in flight (`flight`) holds the registration that it was begun
with; `Fails` unbinds whatever is at its prefix when it fails. `struck` and `ousted` record the two
ways in which a plugin loses a registration that answers.

### Config: `config/load.ts`, `config/fleet-merge.ts`

`disk` is what the file says beyond the defaults, as a set; `cache` is `cached` of every process.
`LoadConfig` reads, migrates in memory and merges the fleet in (`WithFleet`); what cannot be parsed
reads as the defaults. A save (`Enlist`, `Strike`: plugins and triggers; `RegisterAgent`: a wake)
and the write of a migration are an open that truncates (`Truncate`) and a `Fill`, between which
others load, open and fill; what two fills leave of one file may be junk. `WriteFails` is the
exception of `writeFileSync`, `Exit` the end of a process anywhere. `log` is the history of writes
with what each writer had read before (`heard`, `blind`): a write may undo only what its writer
had not seen. Six migrations of lists have one form, and one stands for them.

### Engine: `engine/engine-intervals.ts`, `status.ts`, `engine-crash.ts`

`windows` is tmux: what the pane of each window runs, and whether an agent has ended there since
the last restart. The engine has the length of its list (`sessions`) and an entry per index
(`state`). Answers to `list-windows` may be of any age when they reach the cache, since intervals overlap, so
`CacheSessions` puts any length there that the session has had. A detection is `Detect`, with what tmux
answers, and `Apply`, the statuses made of it. A crash
check (`Check`) takes its agents at once and types into one after another (`Restart`, or
`RestartFails`), each followed by `Clear`, unless tmux fails an Enter that is sent again
(`SubmitFails`). An interval that comes round while the last one still waits is one more
detection or check. `unearned` records a restart where no agent had ended,
`excused` each of the ways in which the code comes to it: the index is another window's, two
checks overlap, a reading is older than a restart or than what has been applied, an Enter failed.

### Wake: `wake-cmd.ts`, `wake-session.ts`, `wake-concurrency.ts`, `wake-resolve-impl.ts`

`tabs` is tmux: for each name of a window in each session whether there is one (or two, which tmux
refuses as a target), its directory and what runs there. `wake` holds where each waker is and what it has read. `Look` is
`detectSession`, over a list of sessions that is empty when any part of it fails; then a new session (`ChooseName`
behind `CountForSession`, `Create`, `Launch`), or the one there is; then `List`, the windows of the worktrees
that have none (`Spawn`, `TypeSpawned`), `ensureSessionRunning` (`Retry`), the worktree and the window of the task
(`ChooseWindow`), and at last either a running agent, or one launched again (`Check`, `Relaunch`), or a new window
(`CountForWindow`, `Open`, `Start`). `Dies` ends a waker anywhere; `Ends`, `ComesUp` and `Kill` are the agents,
and `maw sleep`, which closes by name three seconds after it asked the agent to exit. `amiss` records that a waker which was not alone, or could
not read what there was, opened a second session or window, or one of a plan, or that an agent was
launched in the window of another worktree; `unseen` that agents were counted
while one was starting up or another waker was at work, or that tmux failed to list the panes, which `listPanes` answers with
none (`tmux-class.ts:261`), so that the count is zero. `mapped` is a name with its number: one without is numbered
like any other (`wake-cmd.ts:559`). A wake that cannot read what runs in a pane launches an agent there once more (`Check`).

## 3. Runs

| Run | Instance | Question |
|---|---|---|
| `PeerStore_safety` | 3 processes, readable start file, updates over {a, b} | what lock and store keep until a live lock is stolen |
| `PeerStore_live` | 2 processes, every start file, fair | nobody waits for ever, no committed update vanishes, why a mutation fails |
| `PeerTofu_safety` | 2 commands, 2 aliases, 2 keys, symmetric | where pins come from, what changes one |
| `PaneLock_queue` | 4 callers, fair | refinement of the line (exclusion and order in one), service |
| `Hub_reconnect` | 2 workspaces, 2 slots, 1 agent, fair | reconnection, status, reachability |
| `Pty_lifecycle` | 2 clients, 2 targets, 2 ptys, fair | all interleavings of attach, creation, timers, exits, sweeps |
| `Pty_sweep` (violation) | 2 clients, 2 targets, 2 ptys | a terminal somebody views is killed |
| `Triggers_engine` | 2 tasks, 1 agent, 3 triggers, age to 2, fair | removal, idleness, noticing |
| `Hey_approval` | 3 calls: a `maw hey` and 2 verdicts | what a sender is told, and what becomes of a held message |
| `Parts` | 2 nodes, 1 request, 2 processes; 1 message, 1 workspace, 2 slots; 3 servers; 3 updaters; 2 zids; 2 plugins, 2 prefixes, 4 registrations; 2 processes, 3 writes of the configuration; 2 windows, 1 crash check; 2 wakers, 2 worktrees, a cap of 1 | what the ten parts of `MCParts` promise |
| `Consent_rerun` (violation) | the consent of `Parts` | an approved request is asked for again |
| `Scout_zid` (violation) | 2 zids | a greeted initiator is refused |

The passing runs are exhaustive. Distinct states: 2,288,759 (`PeerStore_safety`), 25,642
(`PeerStore_live`), 71,641 (`PeerTofu_safety`, up to symmetry), 3,473 (`PaneLock_queue`),
29,326 (`Hub_reconnect`), 101,144 (`Pty_lifecycle`), 177,072 (`Triggers_engine`), 421,163
(`Hey_approval`) and 1,302,711 (`Parts`);
the longest takes three minutes. `PROJECT.json` names for every property of a passing run a
mutant of the code's model that the property catches under the same configuration.
`Hey_approval` checks no types: of the outcomes and stages every one is told apart by what it checks.
In `Parts` the type invariant is that of the part at hand. The types of the store, the pins, the pane lock, the terminals and the hub, and
`BeatsWhileUp`, `OneSplitAtATime`, `PanesInOrder` and `GraceHitsNoViewer`, are theorems (section 4) and in no
run of their own.

Why the bounds are enough. *Lock*: every bad case needs a holder, a stealer and a third
that creates in between; three processes give it, two suffice for the liveness. A
killed process stays dead, so processes are also the bound on crashes; a process that
is alive calls as often as it likes. *Store*: two elements tell apart a lost update, a
doubled one and an old file. *TOFU*: two keys give agree, differ and absent; two
aliases show that a command on one leaves the other. *Pane lock*: four callers give a
predecessor, two successors and one that arrives when the line is empty. *PTY*: an
old and a new pty for one target is what every hazard needs, `MaxPty` caps the
creations. *Triggers*: two overlapping tasks over a list in which a one-time trigger
precedes another; `MaxAge` caps the clock one above the smaller timeout. *Hub*: two
slots are one more socket than there ought to be; two workspaces make `_connected` a disjunction.
*Sending*: a call makes one send and at most two requests, so one `hey` and two verdicts on what it
was held as give every overlap there is between verdicts, kills and expiry. *Consent*: two
processes let one die and leave its tmp file to the other, overlap, or meet with the two
shapes; two nodes are the two ends of a request. *Router*: one message, since sends do not
touch each other, beside a hub whose one workspace opens, closes and reconnects.
*Pid*: three servers are a server, the one that takes it over and a third that comes between.
*Update lock*: a holder, one that takes over and a third that judged
earlier, as for the peers' lock. *Update*: no bound, one update after another. *Scout*: two nodes
are all that a pairing involves. *Registry*: `Count` bounds the registrations; four let
each of two plugins register again while a call to its first registration is under way.
*Config*: a change, one that undoes it and one more are what `FileSaysWhatWasSaved` relates, so three
writes (`MaxWrites`) by two processes; one plugin, one oracle and one window of the fleet have each
kind of entry once, and entries of a kind do not touch each other. *Engine*: two windows let the list be pruned to one
that is left, and the second index be given out again. What is excused stays excused, so TLC is told not to
go on from such states (`CONSTRAINT Unexcused`). One detection at a time (`MaxLooks`) keeps the
instance small; with two, in sessions of one window, the property holds as well. One check runs again and again: two
that overlap are excused. The theorem is for any number of windows, detections and checks. *Wake*: a lone waker wakes again and again, while of two each wakes once and one agent or window ends (`MaxEnds`),
in the order of their numbers, since they are alike; two worktrees are the one a task has and another of the same
task; a third session is like a second. The cap of one is the one that two windows of one wake exceed.

`CHECK_DEADLOCK FALSE` stands where the system really may stop: all processes
dead or done, all ptys used, every caller served, no task running; a message sent, a
call of `maw hey` finished, or the registrations used up.

Symmetry is used in `PeerTofu_safety` only, which has no liveness property.

### Fairness and what justifies it

* `PeersLock`, `PeerStore`: weak fairness of a live process's own steps. The code is
  synchronous, its polls end at a deadline, and a process that is never scheduled
  again is a dead one. Death is never fair.
* `PaneLock`: weak fairness of each caller's steps: microtasks and `setTimeout` run,
  and tmux ends its command, well or badly.
* `PtySessions`: weak fairness of timers, tmux answers, spawns, the end of a stream
  whose process is gone, and the sweep interval; the wrapper of a killed tmux session
  ends. Clients owe nothing.
* `Triggers`: weak fairness of the clock and of each task (an action has an end);
  strong fairness of the idle check, since the model has finitely many tasks and the
  interval of the code would find one free for ever only by the model's bound.
* `HubTransport`: strong fairness of `Reopen` (the constructor does not throw every
  time) and of `Opened` (the hub accepts in the end), which is an assumption on the
  hub; without it nothing can promise a connection. The close event of a socket that did
  not open, or that is closing, comes (weak fairness).
* `Hey`, `Approval` and the parts of `MCParts`: none. What they promise is safety; their processes may die,
  their messages may be lost, and nothing in the code tries again for ever.

## 4. Proofs

Every theorem is for all values of the constants, under the `ASSUME`s of its module
(which the runs evaluate). Each proof module gives an inductive invariant `IInv` or a
family of them, one step per action, one lemma where an action disturbs several
conjuncts.

* **PeerStoreProofs.** Of the lock: `LockTypeOK`, `LockFileIsNotLeftBehind` and
  `OwnLockUnlessLiveSteal` are each inductive together with the types. Exclusion
  follows from the third: two owners would both find their own file at one path. It
  holds for every number of processes and any steals of the dead.
  Of the store: `ImplementsLock` lifts the lock's theorems. The strengthening
  says that until a live steal an owner's tmp file is its own or was removed by a load, and
  that what it read is still what is on disk (`StoreInv`); from it each step is a register step or a stutter
  (`StoreIsRegister`) and the file is never truncated (`Untruncated`). Both assume that the
  file is not corrupt to begin with. `TmpInv` says whose the tmp file is, from any start file and with `clobber`
  for the sweeps beside it, and gives `FailureExplained`; `KeepInv` adds that a file on its way to `peers.json`
  has what was committed, and gives `UpdatesKept`. That one assumes `Additive`: a mutation has what it
  did in what it returns, and no other takes it away, as for updates that add an entry each; commands that
  remove what another added are meant to undo it.
* **PeerTofuProofs.** `Accepted`: every pin was accepted for its alias, by a command that had checked it against the
  entry, and `Settled`: so is what a command is about to write; `PinAccepted` is `PinWasAccepted`, that no key of a failed or
  refused answer is pinned. `PinKept` is an action property, by cases on the writers.
* **PaneLockProofs.** `Numbering` (each promise has one maker, who waits for the one
  before), `InOrder`, `PaneInv`; with `Consecutive` (the resolved
  promises are the first ones, and each of the others belongs to a call) `Line` is a sequence that grows at the end
  and shrinks at its head, and every step is one of `PaneQueue` or a stutter (`PaneLockIsALine`).
* **PtySessionsProofs.** `Creating` ties `attaching`, `creating` and the stages
  together; `Tracking` says a tracked pty is running and belongs to the target that
  tracks it;
  `Timers` that a timer belongs to a viewerless pty.
* **TriggersProofs.** `Lists` (the configuration repeats no trigger, and a task that
  awaits an action has an index of its own list), `Idling`, and `Orders`: the configuration is the first list, and what a fire
  holds an older one, with some triggers left out, in the same order; where one has moved forward, one before it has gone. From
  them the two properties of one-time triggers, also once indices have gone wrong; `RemoveFacts` states what
  removing an index does to the range of a list.
* **HubTransportProofs.** `OneAttempt`, `BeatsWhileUp`, `PendingOnlyIfReconnected`
  with `Current` (the socket of `conn.ws`), `Firsts` and `Fresh`. `RouterInv` adds the router
  over it: a status that denies a connection is one `connect()` has overwritten
  (`WrongIfOverwritten`), and what a message was handed to lies among the transports so far, of which
  the hub ends the walk, by delivery or by a loss (`SentSoFar`); from them `RouterPromise`. The router takes no step of the hub's
  but its own (`RouterLeavesHub`), so what is proved of `HubSpec` holds inside the router, and beside the other parts.
* **ApprovalProofs.** Beside the types `ApprovalInv` says, of each call (`CallInv`): which places its kind has
  (`Roles`), that it has sent nothing before it delivers (`NotYet`), what one without a team has sent at each place
  (`Single`), and that its answers and its outcome are so (`Truthful`). Of each message (`QueueInv`): until verdicts
  overlap, the first one marked is the only one that goes on; and what is in its tmp file (`DraftInv`) was put there by a verdict
  that is about to rename it, or died before. From it
  `ReportHonest`, `HeldWaits`, `ApprovedInHand` and, as an action property, `HeldNotLost`: for any number of
  senders, verdicts and records, where whoever gives a verdict may die at any step. TLC checked `ApprovalInv` on the
  instance of `Hey_approval` before it was proved.
* **PartsProofs.** A behaviour of `MCParts` is one of every part (`OnePart`, from `StepsByExtension` and
  `StepsByInstance`), so what is proved of a part's own specification holds of the parts side by side. Nine parts
  are proved here, each with an invariant of its own. *Registry*: no registration is
  bound twice (`BoundOnce`), without which removing a prefix would leave its plugin's
  other one bound to nothing current. *Pid*: until two processes meet at the pid file, the one that is
  busy finds there what it created or read, and there is no server when it removes the file
  (`Undisturbed`), so its second attempt succeeds and the loop never falls through without
  a lock. *Update lock*: until a live owner is robbed the file at the path is its own, and who is about to
  take over has read no live one's pid (`UpdateLockInv`), so `UpdatesStayApart`. *Update*: of an update that began with a maw that ran
  and failed in no rename, `UpdateInv` says for each step which of the binary, the package and the two stashes run
  together, so `UpdatesKeepAMaw`. *Consent*: until writers overlap or shapes meet, a writer's copy is what it makes of
  the file as it still is, and what it renames is what it wrote (`OneWriter`), so a
  tmp file left by a dead process never reaches `trust.json`; on top of it, a verdict under way alone
  is on a request still pending or is the one that marked it (`VerdictInv`), so `VerdictsStand`. *Scout*: `PairStands` says of
  two nodes what an attempt under way, a peer once pending and a pairing stored at either end
  have to do with each other. *Configuration*: every copy in a process says of an item what
  the writes up to its reading made of it (`Copied`), of which the process itself wrote since at most a
  migration, and so does what is about to be written (`Unwritten`) and the file between two
  writes (`OnDisk`). *Engine*: in a pane whose status or last readings know of an agent one runs or has
  ended (`Met`), and one has ended where the status says crashed, where a shell was read after an agent
  (`ReadingsMet`), and in every pane that a check is still to restart (`TodoEnded`); what is just being restarted is
  taken out until it is cleared (`Underway`). *Waking*: a waker that is sure is alone (`SureAlone`),
  what it has seen is still so (`Sees`), windows are where their names say (`Placed`), and a waker
  past a count alone has the room it counted (`Room`); from them `WakesKeepPromise`. `PartTypes` collects the types,
  with `LogFits` for the bound on the configuration's log, which counts the writes under way. The last four and the update lock use
  `PartsConstants`, which asks that no process or lock file be `NoFile`, the names in the configuration be different, the ids of scouts
  and the bounds of the configuration and the engine be numbers, no entry be none, some waker be the least and the worktrees
  be finitely many.

Only model-checked: liveness (`EveryCallEnds`,
`EveryCallServed`, `NoTerminalLeaks`, `IdleIsNoticed`, `ComesBack`), since TLAPS proves neither
liveness under fairness nor ENABLED. Every invariant and every action property of a passing run is a theorem.
What is out of the prover's reach for good:
liveness under fairness, ENABLED, induction over data through theorems with an operator parameter,
and modules with RECURSIVE operators, of which there are none.

## 5. Where code and documentation disagree

Three are runs that must end in a violation, and quote their line in `PROJECT.json`:

1. *A viewed terminal is swept* (`Pty_sweep`): `sessions.delete(safe)` goes by
   target, not by pty.
2. *An approved request is asked for again* (`Consent_rerun`): `approveConsent` writes
   the trust entry on the node it runs on, the target's, and the initiator's gate reads its own
   file. `docs/federation/consent-design.md:82` has both written.
3. *A greeted initiator is refused* (`Scout_zid`): the pairing carries the acceptor's zid
   instead of the initiator's (`scout-pair.ts:66`), so `/pair/auto` looks for a hello of its own.

Four are stated in the modules and refuted by the same specifications, but are no run now;
the property that holds in their place is:

4. *Lost update*: `AtomicReadModifyWrite` of `PeerStore`. The lock file is empty between
   `open` and `write`, and a contender takes it for stale. Holds: `RegisterUnlessLiveSteal`.
5. *Pin overwritten*: `PinIsKeptUntilForgotten` of `PeerTofu`. `cmdAdd` decides on an entry
   loaded outside the lock. Holds: `PinIsKeptUnlessStaleAdd`.
6. *The wrong trigger removed*: `OnlyTheFiredIsRemoved` of `Triggers`. An index outlives its list.
   Holds: `OnlySpentTriggersGo`.
   Fires that overlap may each run a one-time trigger (`NoLaterFireRepeats` is about the later ones).
7. *An active agent treated as idle*: `IdleLongEnough` of `Triggers`. `idleSec` outlives its timer.

Seen while modelling, with no run of their own: `clearStaleTmp` (`store.ts:216`) may
remove a live writer's tmp file, whose rename then fails (`FailureNeedsClobber` is the exact
condition); a mutation of a corrupt store overwrites the
corrupt bytes (`store.ts:201`); a load that failed to parse may move a file aside
that has been replaced by a good one (`store.ts:146`). `disconnect()` does not stop
reconnects whose close event is still to come (`hub-transport.ts:77`), `connected`
can be wrong until the next event (`OnlyTheseFalsifyStatus` names the two ways), a message that is sent while the socket closes is lost and reported as sent
(`hub-connection.ts:193`; `ReachableCanBeSent` and `OkIsDelivered` say that nothing else is), and
`connect()` may never return (`PendingOnlyIfReconnected` says when). `remoteAgents` outlives the
socket it was heard on (`hub-connection.ts:59`); a `spawn` that throws leaves its entries in `attaching` and
`creatingPtyNames` (`pty.ts:305`).

Sending: an approved message whose send fails is left "so the operator can retry"
(`inbox/impl.ts:767`), but as `approved`, which the next approval refuses
(`ApprovedIsInHand`). In a fan-out a member that consent refuses is sent to all the same, since the
exit only takes a note (`OnceUnlessFanOut`, `FailureIsTrueUnless`). The wake of a target swallows
errors behind the keys it has sent; inbox files of alike messages replace each other.

Pid and update: after two attempts `serve` goes on without the lock; the victim of a take-over
unlinks its successor's pid file on its way out (`OneNamedServer` holds until two meet). An
update that begins without a working `maw` drops the package stash of the crashed one before it, to
which the `.crash.` link still points. The update lock has the same empty-file window as the peers lock.

Scout: only the first hello of a peer starts a pairing, so one that fails is tried again only
when the peer has been pruned; `loadExistingPeers()` does nothing at connect; pair codes are
consumed before the peer is stored.

Configuration: `fleet-merge.ts:21` says of the merge "Pure in-memory: does NOT write to
maw.config.json", but the copy it is merged into is the one that the next `saveConfig` writes back
(`load.ts:353-355`), so windows of the fleet stay in the file when their fleet files are gone;
`FileSaysWhatWasSaved` leaves them out for that reason. A server keeps its copy for as long as it
runs, and every one-time trigger it removes takes with it what a command has changed meanwhile.

Engine: `status.ts:52-58` promises "busy" or "ready" for a pane that runs claude, but such a pane keeps the
status it had (line 99), so an agent that somebody starts again by hand after a crash stays "crashed", and the
next crash check types a launch command into it; `RestartsAreEarned` counts that one as earned, since an agent
had ended there. Statuses go by window index, and sessions are made with `renumber-windows`
on (`tmux-class.ts:144`). The list is refreshed only while clients are connected (`capture.ts:63`).

Update lock: "run fn() while holding an exclusive update lock" (`update-lock.ts:30`), but an empty lock is taken for
stale between its creation and its pid, as in `PeersLock`, and the signal handlers release it while the `bun add` they leave
behind goes on, so that the next update meets it; `UpdatesApart` names both.

Wake: where `cmdWake` cannot list the windows of a session it refuses to create one (`wake-cmd.ts:1067`), but it has
by then opened the windows of all the worktrees (`wake-cmd.ts:868-881`), there or not. Those windows, and agents that are launched again, are
started without a look at `maxConcurrentAgents`, and an agent that is still a shell's child starting up is
not counted (`wake-concurrency.ts:41`); where tmux fails to list the panes nobody is, and the cap is passed (`tmux-class.ts:261`).
`WithinCap` counts the others. A mapped session name without its number is numbered anew (`wake-cmd.ts:559`), so it may be opened twice. A worktree that is asked for by its task may be given the window
of another worktree of the same task (`wake-cmd.ts:574`), whose agent is then launched in a directory that is not the window's.

## 6. Not modelled, and the plan

Left out for good: parsing, formatting, views, argument handling, the thin
transports and key files, which are straight-line code. Abstracted in what is
modelled: payloads, times (except ages), window sizes, keystrokes, logs, the text of actions.

In the parts that are modelled in part: `savePeers` and the display commands of the peers; how
`maw hey` resolves its target and evaluates scopes (either outcome is allowed whenever it is asked),
`hey plugin:` and the hooks; the pairing by code; the choice of a
version to update to; broadcasts of the router, and its optional transports; the engine's captures, previews, teams and presence; validation of the configuration, the
migration of its `host`, and copies of it that a client of the web API holds and posts back.

Not yet, in this order:

1. `Cron`: fields and the next-match scan as operators against a reference definition.
2. More of `Wake`: foreign sessions, `--name` and `--pick`, prompts, a change of engine, snapshots, the save and restore of the tab order.
3. `PairCodes`: generation, consumption and expiry beside `cmdAdd`.
4. Installers that outlive a killed update, composed with the next `Update`.
5. Target resolution and scopes, as operators over a fleet.

Proofs to come: the invariants of these modules, each with its module.
