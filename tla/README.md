# A formal model of NetFather

NetFather discovers the devices of a home network, keeps a registry of them in
SQLite, decides for each of them whether it may use the network, and enforces
the decision with nftables. A GTK application discovers and edits; a separate
root daemon enforces. The modules here model that program, as it is in `src/`,
and say what must hold of it. TLC checks the models on small instances; TLAPS
proves some of the properties for every value of the constants.

`PROJECT.json` maps every definition that stands for code to the lines it was
translated from, and lists components, runs, mutants, findings, hazards and
theorems.

Contents: 1 Inventory · 2 Modules · 3 Runs · 4 Fairness · 5 Proofs ·
6 Disagreements found · 7 What is only model-checked · 8 What is not modelled ·
9 Plan

## 1 Inventory

### Processes and threads

    GTK application (user)                          daemon (root, systemd)
    ----------------------                          ----------------------
    main loop: pages, listeners                     RuleScheduler.start
    BackgroundTasks: 2 worker threads                 loop: FirewallEngine.sync
    timer threads (debounce, safety scan)                |
    monitor thread (`ip monitor neigh`)                  | nft commands
    NetworkManager signals (main loop)                   v
              \                                     kernel: table inet netfather
               \-->  SQLite database  <-----------------/

The two processes meet only in the database: the application writes devices,
profiles and rules, the daemon reads the decision for each device and writes
events. SQLite gives the write lock to one session at a time; a session reads
before it has that lock.

### Components

| Component (under `src/`) | State | Operations | Interacts through | Hard about it | What makes it correct |
|---|---|---|---|---|---|
| Firewall engine and nftables backend (`firewall/`) | none of its own; the kernel's two sets | `sync`, `detect_drift`, `rollback` | database reads, `ip` probes, `nft` commands, events | any command may fail, time out after having worked, or be preceded by a change; recovery inside an exception handler | a reported sync is what the kernel holds; a failed one restored or confessed; no gap in between; protected addresses stay open |
| Enforcement daemon (`scheduler/`, `core/service.py`) | the loop; its configuration | start, loop, exit, restart | systemd | dies by any exception and must converge after restart | the kernel ends up as the policy says |
| Policy engine and schedules (`manager/policy_engine.py`, `manager/schedules.py`) | none | decision, reason, next transition, overlap report | database rows | DST, overnight windows, precedence, search over rule changes | decision and next change against their definitions |
| Policy store (`manager/rule_manager.py`, `group_manager.py`, `profile_manager.py`) | rules, reusable profiles, assignments | save, assign, unassign, delete a profile; create, change, delete a rule; `conflicts` | sessions of two pages, `delete_device` | a check in one session, its write under a lock taken later; ids of deleted rows come back | every row has its owner; no used profile changes unasked; an assignment changes only as the user said |
| Device registry (`manager/device_manager.py`) | devices, aliases, flags | `reconcile_discovery`, `update_presence`, `update_device`, `add_device`, `delete_device` | sessions of scans, neighbour reader and user | a session writes on the ground of rows read before its lock | identity per MAC, conflict flags, grace period, following the network |
| Identity manager (`manager/identity_manager.py`) | aliases | merge, split, `resolve_conflict` | sessions | user decides on data that may have changed | no MAC in two identities, no policy lost, no unreviewed flag cleared |
| Live presence (`network/live_presence.py`, `network/presence.py`) | two locks, two timers, a monitor thread and its child | start, stop, debounce, reconcile | timers, joins, `NetworkManager`, discovery service | orphaned timers, stop during a scan, restart after stop | one scan at a time, silence after stop, no hint lost, never stops by itself |
| Discovery service (`network/discovery_service.py`) | running and committing flags, token, resolver | `scan`, `cancel` | discovery page, sources, device registry, resolver | cancel at the commit boundary; failure behind the commit | all of a scan or nothing of it; what is shown is what was stored |
| Discovery sources (`network/discovery.py`, `deep_scan.py`, `enrichment.py`) | the report under construction | `scan_report`, `run_deep_scan`, merge, overlay | subprocesses, discovery service | some sources fail, several cards claim one address | every answer is in the report; absence only when every source answered |
| Discovery page (`gui/discovery_page.py`) | `state.discovery`, shared with live presence | start, cancel, deliver, close | task scope, discovery service | cancel and close while the worker runs | the page is freed by every end of a scan |
| Identity resolver (`network/identity.py`) | aggregated identities, a copy of the links | observe, reconcile, `replace_alias_links`, prefer an address | discovery service | its copy of the links ages while the user merges and splits | one identity per device, as in the table |
| NetworkManager observer (`network/network_manager.py`) | client, generation | start, stop | GLib callbacks | its client arrives later | signals only while the application runs |
| Application lifecycle (`gui/app.py`) | presence request counter, shutdown flag | activate, switch, shutdown | pool, live presence, database | requests handled by two workers in any order | the last request wins; the database is closed last |
| Background tasks and scopes (`gui/tasks.py`) | queue, futures, closed flags | submit, complete, close | pool threads, main loop | results in any order, late results | no page left waiting, no callback after close |
| Database sessions and events (`core/database.py`, `core/events.py`) | captured events, listeners | flush, commit, roll back, publish, subscribe | `GLib.idle_add` | events in flight at unsubscription or roll-back | only committed changes are announced |
| Workspace pages (`gui/*_page.py`, `gui/window.py`) | `_busy`, what is shown | refresh, change, select, close | task scope, events | overlapping loads, refresh dropped while busy | newer data is never replaced by older |

The rest — topology rendering, preferences, diagnostics, traffic counters,
device and policy service facades, packaging — keeps no state that others
depend on; section 8 says why each is left out.

## 2 Modules

    FirewallPromise  <--- FirewallEngine <--- MCFirewallEngine
                              ^----------- FirewallEngineProofs
    PolicyDecision   <--- MCPolicyDecision
                ^-------- PolicyDecisionProofs
    PolicyStore      <--- MCPolicyStore
                ^-------- PolicyStoreProofs
    DeviceRegistry   <--- MCDeviceRegistry
                ^-------- DeviceRegistryProofs
    LivePresence     <--- LivePresenceProofs
    ScanPromise      <--- Discovery <--- MCDiscovery
    ScanReport       <------'  ^-------- DiscoveryProofs
                ^-------- ScanReportProofs <---'
    Workspaces       <--- MCWorkspaces
                ^-------- WorkspacesProofs

The components are stated separately, each with the others as its environment:
`FirewallEngine.EditPolicy` is what `PolicyDecision`, `PolicyStore` and
`DeviceRegistry` can make of `blocked_ips()`; `DeviceRegistry` takes from
`LivePresence` that sessions of one scanner do not overlap; the `Scan` of
`Workspaces` is the transaction a `LivePresence` reconciliation commits; the
`LiveWrites`, `UserMerges` and `UserSplits` of `Discovery` are what the actions
of `DeviceRegistry` do to its table; `DeleteDevice` of `DeviceRegistry` is
`BeginRemoval` and `EndRemoval` of `PolicyStore`. `LivePresence` keeps four
states of the discovery service; `Discovery` is the service in full.

### FirewallEngine

One step is one database read, one probe of the host's addresses, one nft
command, or one recorded event. `pc` is the place in the code, `purpose` says
which of the five reads of the kernel sets is meant: the snapshot before a
write, the verification after it, the first and the second read of the
recovery, and the drift check.

| Model | Code |
|---|---|
| `BeginSync`, `ReadPolicy`, `ReadProtected` | `engine.py:55-62`, `topology` check 32-53, `_protected_ips` 22-30 |
| `Read4`, `Read6`, `ReadFailed`, `ReadSucceeded` | `backends.py:19-60` and the five callers in `engine.py` |
| `StartApply` … `UpdateSets` | `backends.py:107-169`: normalise, `nft -c`, list, then create, or upgrade and update |
| `Transaction` | `backends.py:66-67`: a failing command changes nothing; one that times out may have committed, and raises |
| `HandleFailure`, `RecordRecovery` | the exception handler of `sync`, `engine.py:87-138` |
| `BeginRollback`, `CheckFlush`, `FlushSets` | `engine.py:192-199`, `backends.py:171-188` |
| `Return`, `Exit`, `Start` | `scheduler.py:16-46`, `service.py:17-25` |

`detect_drift` and `FirewallEngine.rollback` have no caller in the program
other than the tests; they are public operations and modelled with `sync`.
Each failure, crash and change by somebody else spends a unit of `budget`.
The kernel is one set plus the layout of its table (`none`, `legacy` without
IPv6 set, `current`); addresses are IPv4 or IPv6 by membership in `V4`; a
device record holds a *spelling* and `Canonical` is what `ipaddress` makes of it.

**FirewallPromise** is the view from outside: the kernel's set and how each sync
ended. A sync moves the set only within {old, wanted, old ∪ wanted}; it says
"installed" or "restored" only when that is so. `FirewallEngine!KeepsPromise`
is the refinement, with `phase`, `old` and `wanted` computed from `pc`,
`purpose`, `before` and `Wanted`.

### PolicyDecision

One device while the clock moves from minute to minute. A rule is windows,
weekdays, zone, action, priority, and whether it belongs to the device or to
its reusable profile; `windows = {}` is a schedule that does not parse (a row
edited by hand), which the code treats as inactive. A zone is the shift of its
wall clock at every instant, so that a wall time can be skipped or repeated.
`Active`, `NextChange` and `Overlaps` translate `schedules.py:81-135`;
`Allowed`, `Reason`, `First` translate `policy_engine.py:36-67`; `Search` is the
loop of lines 99-117, a recursive function, not an operator.

### PolicyStore

The tables of profiles, assignments and rules under the requests of two pages
and the deletion of devices. A request is three steps: what its session checks
when it reads (`Allowed`), what the commit still refuses (`Accepted`: foreign
keys, unique names, an UPDATE of a row that is gone), and what it writes
(`Apply`); sessions of the other pages commit between the first and the second.

| Model | Code |
|---|---|
| `SaveAllowed`, `SaveProfile`, `Assign…`, `Unassign…`, `Delete…` | `group_manager.py:33-88` |
| `CreateRule`, `ChangeRule`, `DeleteRule` | `rule_manager.py:54-200` |
| `BeginRemoval`, `EndRemoval` | `delete_device`: loads the rules with the device, deletes those and relies on the foreign keys for the rest |
| `Click`, `Respond`, `Mutate`, `Asks` | `profiles_page.py`: which requests open a dialog, decided by what the page shows |
| `Read`, `Loaded`, `Saved`, `Failed`, `Refresh` | its `_load`, `_loaded`, `_saved`, `_failed`, `refresh` |

The profiles page is modelled with what it *shows*, because it decides by that
whether to ask. The rules page is an arbitrary session for any row: what it
shows may be as old as its user likes. `unsure` remembers that the page's last
load failed. Ids are reused (`NextId`), as SQLite does.

### DeviceRegistry

A session is two steps: what it *saw* when it read, and what it commits, with
sessions of the other actors in between, because SQLAlchemy reads before SQLite
hands out the write lock. `Flushed` writes only the columns in which the
session's object differs from what it was loaded with: that is what SQLAlchemy
does, and it matters: a session that sets `online` to what it loaded writes
nothing, even when another session has changed the column since.
`Reconciled` is the whole of `reconcile_discovery` (`device_manager.py:480-551`),
ending with the conflict check; `Upserts` is its loop over the groups; `Present` is the neighbour reader's
`update_presence(online=True)`; `Merge`, `Split`, `ResolveConflict` are
`identity_manager.py:51-123`; `UpdateDevice`, `AddDevice`, `DeleteDevice` and
`AssignPolicy` are the user's. Ids of deleted rows are reused, as SQLite does
without AUTOINCREMENT. Every request of the user carries what the page showed
when it was opened (`Decisions`). The resolver's order of groups and its choice
of the last path are `\E` in `EndScan`.

### LivePresence

One step is what a thread does between two points where another thread can see
it: a block under `_lock`, the acquisition of `_reconcile_lock`, a join, a
database transaction. Timers are threads, and `thread[t]` says where each is,
so that a timer that cleared its own reference and is not joined by `stop()`
any more is still there. `control` is the holder of `_presence_control_lock`
in the middle of `start()` or `stop()`; `reader` and `process` are the monitor
thread and its child. The discovery service is reduced to `idle`, `probing`,
`cancelled`, `committing`; what it does in them is `Discovery`. `unserved`, `wanted` and `failed` are history
variables for the properties.

### ScanReport, Discovery and ScanPromise

**ScanReport** is the algorithm: a host is an address, an interface, a MAC and
whether the answer was fresh. `Dedupe`, `Merge`, `Overlay`, `Observed` are
`_dedupe`, `_merge_discovery`, `_apply_deep_scan`, `observations_from_hosts`,
written as folds over the sequence the code iterates over, with one operator for
the body of each loop (`Replacing`, `Merging`, `Inventoried`); order matters in
each of them and is kept.

**Discovery** is one worker that runs scan after scan, each stage a step, while
the main loop starts, cancels, delivers and closes, and other sessions write the
device table.

| Model | Code |
|---|---|
| `StartScan`, `CancelScan`, `CloseWindow`, `Deliver` | `discovery_page.py:43-159` |
| `Acquire`, `Abandon`, `BeginCommit`, `Conclude` | `discovery_service.py:78-237`: its lock, the token checks, the boundary, the snapshot |
| `AskNeighbours`, `AskSubnet`, `Sweep`, `Inventory`, `Enrich`, `Report` | `discovery.py:236-317`, `deep_scan.py`: an answer, a failure, or a warning that leaves the report incomplete |
| `Persist` | `reconcile_discovery` as seen from here |
| `ReadAliases`, `Resolve`, `ReadDevices` | `replace_alias_links`, `IdentityResolver.reconcile`, the overlay of the table's flags |
| `Raise` | any exception behind `BeginCommit` |

A device or identity is `"on"`, `"off"` or `"none"`. Who of the unseen devices
is *overdue* is any set of them: the table and the resolver have clocks of their
own. `heard` is history: what was claimed, which sources answered, and whether a
cancel came in time.

**ScanPromise** is what somebody sees who watches the cancel button, the first
write, the identities in memory and the end: a scan whose cancel came before the
commit ends cancelled and has changed nothing; one that has written never says
"cancelled"; one that has not written leaves the identities alone.
`Discovery!KeepsScanPromise` is the refinement.

### Workspaces

Pages, the pool of workers, sessions that publish their events after the commit,
the dispatcher to the main loop, and the `_busy` protocol. What a page shows is
a *version*: the number of committed transactions its last load had seen. Loads
that open several sessions count as their first. `CloseWindow` is one step
because the scopes are closed and the listeners removed in one main-loop
callback. A page's periodic refresh is the same action as a click of the user.

## 3 Runs

Every passing run explores its whole state space. "Shows" is what a failure of
the property would mean in the program.

| Run | Instance | Properties and what they show |
|---|---|---|
| `firewall_safety` | 3 addresses (IPv4, IPv6, public), 6 configurations, all operations, all faults but a change of the table by others, 2 disturbances | `SyncMeansInstalled`: `firewall_sync` is recorded only when the kernel holds the wanted set. `AtomicReplacement`: no gap, nothing extra. `FailedSyncIsAccountedFor`: restored, or a recorded recovery error. `NoDriftMissed`. `KeepsPromise`: the refinement |
| `firewall_convergence` | 2 addresses, one of them stored in two spellings, gateway topology, sync only, failing commands, probes and database, timeouts, crashes, policy, host, forwarding and table changes, 3 of them | `Convergence`: after the last disturbance the kernel comes to hold policy minus protected, and keeps it |
| `firewall_recovery_protected` | deployed configuration | counterexample to `ProtectedNeverInstalled` (section 6) |
| `policy_decision` | weeks of 2 days × 4 minutes, 9 rules of which at most 3 apply, 3 clocks | `StartsOnItsWeekday`, `TransitionIsNext`, `ConflictsAreForeseen`, `BlocksOnlyClose` |
| `policy_store` | 2 devices, 2 names, up to 2 profiles and a rule to begin with, 2 requests to the profiles page, 1 session of the rules page, deletions of devices, failing sessions | `TablesLinked`: every row has its owner and names are unique, whatever overlaps. `ConfirmedWhenAssigned`: a profile in use changes only after the user was asked. `AssignmentChangesAsAsked`: which profile a device has changes only by the confirmed request |
| `device_registry` | 2 cards, 2 addresses, 1 move, 2 user requests of any kind, 1 neighbour event, sessions in turn | `OneIdentityPerMac`, `SharersAreFlagged`, `FlagAwaitsReview` |
| `registry_overlap` | one device known of two, up to 3 sessions open at once, hosts with two addresses, 1 move, and a merge, a deletion, an addition or a neighbour event | `FollowsNetwork`: after all stale writes and roll-backs the table follows the network again |
| `registry_grace` | two sessions at once | counterexample to `GraceHonoured` |
| `presence_safety` | 4 timer threads, 1 hint, 2 uses of the switch, failing start, scan, `Popen`, reader | `SingleFlight`, `QuietAfterStop`, `ClosedLast`, `SafetyChain`, `LastRequestWins` |
| `presence_liveness` | 4 timer threads, 2 hints, failing scans, shutdown | `HintsAreServed`, `KeepsScanning`, `StopReturns` |
| `discovery` | 2 cards, 2 addresses, 2 interfaces, a scan in any mode and an active one after it, with and without registration, 3 × 4 × 2 answers of the sources, each of which may fail or warn, cancel and close at any step, 1 foreign write | `ReportAccountsForAnswers`: nobody who answered is missing from a report, but for answers that another one of the same source and path or the inventory overrules (`Overruled`, section 6), and nobody else is confirmed by it. `AbsenceNeedsEvidence`: a device leaves only on the word of every source, overruled answers excepted. `IdentitiesAgree`: what is shown is what was stored. `KeepsScanPromise`: all or nothing. `ScanEnds`: every scan ends and frees the page |
| `workspaces` | 3 pages (one edits and shows details, one edits, one listens), 2 workers, one change, one scan, one click, one failure | `NeverStuck`, `SavedIsOnItsWay`, `NothingAfterClose`, `NeverGoesBack` |

Each passing run also has a type invariant where its module is first checked
(in `policy_store` it is a part of `TablesLinked`).
For every property there is a seeded fault in the module (a definition marked
"Seeded fault", listed under "mutants") that TLC finds with the same instance.

### Bounds

- *FirewallEngine.* Two disturbances reach: a write that times out followed by a
  failing recovery; `nft list` failing (so that the create script is loaded over
  a table) followed by a failing verification; a change of the host during a
  failing sync. Three addresses are needed for "in the old set only", "in the
  wanted set only" and "refused by normalisation". The initial kernel, policy
  and host addresses are every set of them. `firewall_convergence` has a third
  disturbance for the table that changes between the reads of its two sets while
  a command and the record of its failure fail as well.
- *PolicyDecision.* Two days distinguish "today" and "yesterday" with
  wrap-around; four minutes hold disjoint, adjacent, overnight and whole-day
  windows; three rules hold a block, an allow and one that changes in between.
  `MaxSteps` (2048 in the code) is 4, so that searches are cut off as well:
  `TransitionIsNext` says that a search without a result found no change or met
  more than `MaxSteps` changes of single rules.
- *PolicyStore.* Two requests of the profiles page make a change of an
  assignment followed by one of a profile, with a stale page in between; one
  session of the rules page and any deletion fall into every gap. Devices and
  names are interchangeable, hence the symmetry.
- *Discovery.* Two cards and two addresses are the smallest with one address
  claimed twice and one card at two addresses; the sampled answers hold stale,
  fresh and nameless neighbours, one address on two interfaces, an entry that
  goes stale between the two listings of the table, two ARP replies for one
  address, one of them without a valid MAC, and an inventory with and without MAC. The second scan meets
  what the first one left in memory and in the table, also when that one failed
  behind its commit; one foreign write in between is enough to make the
  resolver's links stale.
- *DeviceRegistry.* Two cards and two addresses are the smallest with a shared
  address; two requests allow merge-then-split, resolve after a move, delete and
  re-add with a reused id. Where sessions overlap (`Together = 3`),
  `Interruptions` allows one request or one neighbour event, so that the reader's
  session or the user's falls into every gap of the scanner's; only one of the two
  cards is registered to begin with (`Given`), so that a scan's INSERT can fail
  because the user has added the other card meanwhile.
- *LivePresence.* Four threads: the two registered timers, an orphan of an
  earlier `start()`, and one that a reconciliation schedules. When none is free,
  an action that needs one is disabled in the model; this needs more than one
  orphan at a time.
- *Workspaces.* One change, scan, click and failure each fall into any gap of
  the others, also after the window has closed.

## 4 Fairness

- `FirewallEngine!FairSpec`: weak fairness of the daemon's own steps. The loop
  has no exit of its own; after an exception systemd starts the daemon again
  (`Restart=on-failure`, `RestartSec=3`, below the default start limit). No
  fairness of failures, crashes or the environment.
- `LivePresence!FairSpec`: weak fairness of each timer thread, the monitor
  thread, the holder of the control lock and the application's own steps:
  threads run, timers expire, a lock that stays free is taken. The user and the
  network never have to do anything.
- `DeviceRegistry!FairSpec`: no session stays open for ever and now and then
  none is open; complete scans recur; time passes. The first is SQLite's
  single-writer rule with short sessions, the second the safety timer that
  `LivePresence!KeepsScanning` establishes. Scans and time need strong fairness
  since a session of another actor disables them again and again.
- `Discovery!Spec`: weak fairness of the worker and of `Deliver`. Each source
  and subprocess has a timeout, the pool's thread runs until its task returns,
  and the main loop runs every callback. Nobody has to start, cancel or write.
- The others state safety only and assume no fairness.

## 5 Proofs

Eight modules hold proofs, each for every value of the constants of its
component.

| Module | Theorem | Statement |
|---|---|---|
| `FirewallEngineProofs` | `TypeCorrect` | `Spec => []TypeOK` |
| | `SyncInstalls` | `Spec => []SyncMeansInstalled` |
| | `ReplacementIsAtomic` | `Spec => []AtomicReplacement` |
| | `FailureIsAccountedFor` | `Spec => []FailedSyncIsAccountedFor` |
| | `DriftIsSeen` | `Spec => []NoDriftMissed` |
| | `EngineImplementsPromise` | `Undisturbed` implies `Spec => KeepsPromise` |
| `PolicyDecisionProofs` | `TypeCorrect` | `Spec => []TypeOK` |
| | `WindowsStartOnTheirWeekday` | `Spec => []StartsOnItsWeekday` |
| | `AnnouncedChangeIsNext` | `Spec => []TransitionIsNext` |
| | `ContradictionsAreReported` | `Spec => []ConflictsAreForeseen` |
| | `BlocksNeverOpen` | `Spec => BlocksOnlyClose` |
| `PolicyStoreProofs` | `TablesStayLinked` | `Spec => []TablesLinked` |
| | `AssignmentsFollowTheUser` | `Spec => AssignmentChangesAsAsked` |
| | `SharedProfilesAreConfirmed` | `Spec => ConfirmedWhenAssigned` |
| `DeviceRegistryProofs` | `TypeCorrect` | `Spec => []TypeOK`, however sessions overlap |
| | `IdentitiesStayWhole` | `Together = 1` implies `Spec => []OneIdentityPerMac` |
| | `SharersFlaggedInTurn` | `Together = 1` implies `Spec => SharersAreFlagged` |
| | `FlagsAwaitReview` | `Together = 1` implies `Spec => FlagAwaitsReview` |
| | `GraceIsHonouredInTurn` | `Together = 1` implies `Spec => GraceHonoured` |
| `LivePresenceProofs` | `TypeCorrect` | `Spec => []TypeOK` |
| | `ReconcilesOneAtATime` | `Spec => []SingleFlight` |
| | `StopLeavesQuiet` | `Spec => []QuietAfterStop` |
| | `DatabaseClosesLast` | `Spec => []ClosedLast` |
| | `SafetyScansGoOn` | `Spec => []SafetyChain` |
| | `SwitchIsObeyed` | `Spec => []LastRequestWins` |
| | `HintsHaveAScanToCome` | `Spec => []HintsAreServed` |
| `DiscoveryProofs` | `TypeCorrect` | `Spec => []TypeOK` |
| | `ScanIsAllOrNothing` | `Spec => KeepsScanPromise` |
| | `ReportIsFaithful` | `Spec => []ReportAccountsForAnswers` |
| | `AbsenceIsProven` | `Spec => AbsenceNeedsEvidence` |
| | `PageShowsTheTable` | `Spec => []IdentitiesAgree` |
| `WorkspacesProofs` | `TypeCorrect` | `Spec => []TypeOK` |
| | `PagesAreFreedAgain` | `Spec => []NeverStuck` |
| | `ChangesReachTheirPage` | `Spec => []SavedIsOnItsWay` |
| | `ClosedWindowStaysQuiet` | `Spec => NothingAfterClose` |
| | `PagesMoveForward` | `Spec => NeverGoesBack` |

The assumptions are the `ASSUME`s of the modules, nothing else; TLC evaluates
them on every run. They give the constants their kinds; where one says more, the
section below names it.

### The firewall engine

Assumptions: `AddressAssumption` (addresses are their own spelling, every
spelling normalises to an address) and `RunAssumption` (constants have their
types). The four safety properties say `Undisturbed => …`: with `"external"`
among the faults they are vacuous, since nobody can promise the kernel's content
while an administrator edits it; all other failures and changes are covered.

None of the four invariants is inductive: that a finished recovery leaves what
the sync found depends on what the snapshot holds, and which read returns to
which caller depends on `purpose`. `Inductive` adds

- `Shape`: `pc` and `purpose` are in step (a verification only happens after an
  apply, a recovery only with a purpose of its own, …);
- `SnapshotIsBefore`: a snapshot, once taken, is the set the sync found; the
  recovery runs only with a snapshot and after `firewall_error` is on record; a
  sync that does not install never reaches a writing command; between the reads
  of the two families, the first answer is still true.

`TypeStep`, `ShapeStep` and `InductiveStep` have one step per action;
`InductiveInvariant` combines them, and each safety theorem is a conjunct of it.

The refinement has `Undisturbed` as an assumption, since `FirewallPromise` has
no step for an editor. `EngineMoves` sorts every action, under the invariant in
both its states, into one of six moves as an observer sees them (nothing, a sync
begins, writes, ends, is laid to rest, a clear), and `PromisedMoves` maps each of
these to a step of `FirewallPromise` or a stutter. One more invariant is needed,
`CleanSlate`: what `recorded` says at the end of an operation was written by that
operation.

### Discovery

`ScanPromise` allows one write per scan, none after a cancel that came before
it, and an outcome that fits. `Inductive` has four parts: `Form` (as much of the
types as matters), `InStep` (the page's flag, the service's flags and the task
are in step; this is where `service` is used, so that a second scan cannot start
behind a busy one), `Accounted` (`scan.written` and the outcome follow from how
far the task is) and `DoomedIsSeen` (a cancel that came in time is still to be
seen by a checkpoint, or was). `PromiseStep` maps each action.

The other four theorems have one more invariant, `Invariant`, on top of it, and
the assumptions `ReportAssumption` and `DiscoveryAssumption`, which give the
constants their kinds: nothing is assumed about what the sources answer, how
often they repeat themselves or in what order.

- *The report.* `ScanReportProofs` is about the operators alone. `Dedupe`,
  `Merge` and `Overlay` are left folds of the community modules, which recurse
  over the sets of a sequence's indices. `FoldExists` shows that such a recursion
  has a solution, by extending one for `1 .. k - 1` to `1 .. k`; `DedupeChain`,
  `MergeChain` and `OverlayChain` turn it into one value per prefix, and
  `DedupeKeeps`, `MergeKeeps` and `OverlayKeeps` say by induction on the prefix
  what the report keeps of what it was given. `SourceAccounts` and
  `InventoryAccounts` carry `Accounts` - the report and the claims account for
  each other - through one more source; `Reported` is that at every stage.
- *Absence.* `Asked`: the report is complete only if what the mode asks for up to
  this stage was answered. With `Reported`, a card that was heard is among those
  seen when `Persist` decides who is overdue.
- *Identities.* `Linked`: a linked MAC has no device of its own, and what it is
  linked to has one, so that a device has one name only (`RegisteredOnce`).
  `Agreeing` says behind each stage of the commit how far the two views agree
  already, while nobody else has written; links read before the observations
  are folded are what makes it hold.

### Live presence

From `BoundAssumption` (there is a timer thread, the bounds are numbers), for any
number of threads, hints and requests. Each clause of `Inductive` is a
fact about one mechanism, and has a lemma of its own for its preservation:

- `LockIsHeld` and `ServiceIsOwned`: a thread is past `Enter` exactly when it
  owns `_reconcile_lock`, and the discovery service is busy only for it. This is
  `SingleFlight`.
- `TimersArePending`, `StopOwnsTimers`, `ControlInStep`: a timer that the service
  refers to has not run yet; `stop()` has taken both references before it joins,
  and no new one appears behind it.
- `ReaderInStep`, `ShutdownInStep`, `RequestsInStep`: the monitor's child outlives
  its thread nowhere but inside `stop()`; nothing starts the service after the
  shutdown's `stop()`; the last request was carried out or is on its way.
- `StoppedMeansQuiet`: after `stop()` a thread that still takes the lock finds
  `_stopped` set. The drain at the end of `stop()` is what makes it inductive.

`SafetyChain` and `HintsAreServed` are inductive together with these.

### Workspaces

From `WorkspacesAssumption`. A page outside `Detailed` has at most one job
anywhere - in the queue, with a worker, or as a result on the main loop - and
none while it is free (`OneJob`). With `OneWriter` (the thread that has flushed
commits the next version, nobody has seen a later one) it follows that a load
that has read is as new as all that its page shows or has saved (`LoadsAreNewer`)
and that a page that does not show its change yet is busy with a task that will
(`SavedIsPending`). The pages with details are excluded for the reason in
section 6: there the failure of a details task frees a page that is still busy.

### Policy decision

`SizeAssumption`, `ShiftAssumption` (a zone's shift is a whole number of minutes
at every instant the search may look at) and `RuleAssumption` (rules are finitely
many and have unique ids). The state says little, so nearly all of the work is
about the operators:

- *Schedules.* `Division` and `OneQuotient` give days and minutes of a wall clock
  for any length of day and week; `OpenHasBegun` and `BegunIsOpen` show that a
  window is open exactly when it began on one of its weekdays and has not ended.
- *Next change.* `NoChangeBefore` and `QuietBetween`: between two announced
  changes of a single rule, no rule changes. `Search` is a recursive function:
  `SearchUnfolds` shows by least counterexample that its equation has a solution,
  and `SearchStep` that one step of the loop either finds the flip or leaves fewer
  changes ahead.
- *Precedence.* `PrecedesIsTotal` and `FirstExists`: every non-empty set of rules
  has a first, by least cardinality.

### The device registry

From `RegistryAssumption` (finitely many cards and scanners, a device
to begin with, `Grace` above 0).
`StoreOK` - one row per MAC, no alias and no policy without its device - holds of
the table and of what every open session *saw*; this makes it inductive under any
overlap. `UpsertsUnfold` opens the recursion over the groups of a scan, and
`AccOK` is what each group keeps: rows keep their MAC and their flag, and go
online but not offline (`Follows`). `UserStep` says the same of every request.

What sessions decide about each other's rows needs `Together = 1`; then
`InTurn` says that the one session that is open saw the table as it still is.
From it `InStep` follows, group after group: the group's MAC is registered to
itself or unknown, and never an alias (`GroupsAlone`); its row is as it was when
the scan began, so that a flush writes the session's object (`FlushedSelf`); new
rows are not aliases of others. `SharersCaught` is the conflict check. The
premise `Together = 1` cannot be dropped from three of the four: `registry_grace`
refutes `GraceHonoured` with two sessions, and section 6 says the same of
the flags; of `OneIdentityPerMac` see section 8.

### The policy store

From `PolicyStoreAssumption` alone. `Inductive` has three parts:

- `Linked`: the tables refer to each other's rows, and the ids in use lie in
  `1 .. clicks + 2`, less one while a request that may take a new id is on its way
  (rules likewise). SQLite takes the largest id in use plus one;
  `MaxOfBounded` and `NextIdIsNew` show, by well-founded induction on the numbers
  below the bound, that this is a new id and at most one more than the bound.
- `Formed`: a request keeps its kind on the way from the button to the worker,
  and whatever is not a save was confirmed before it became a task.
- `StillSo`: what `assign` and `unassign` read before they hold the write lock and
  the commit does not check again is still so when they write. It needs that no
  other session creates an assignment or touches a profile
  (`EditKeepsProfiles`, `RemovalTakesItsOwn`).

- `Aware`, on top of these: while the page is idle, or a request of it is on its
  way, every profile in use is one that the page shows to be in use (`Knows`).
  What a change of its own made newer is read back before the page is free again,
  other sessions only take assignments away (`LessInUse`), and when the read-back
  fails the page is `unsure`. A save that begins without a confirmation is
  therefore one of a profile that nobody uses, and still is when it is written,
  since the page takes no request in between (`AwareStart`).

`AssignmentsFollowTheUser` and `SharedProfilesAreConfirmed` are action properties
of steps from a state of these invariants. Both rest on there being one profiles
page: with a second one, an assignment could be taken away and made anew between
the read and the delete of `unassign`, and a profile could come into use behind
the page that saves it.

## 6 Disagreements found

1. `engine.py:111`: the recovery of a failed sync re-applies the snapshot without
   the protected filter. An address that was blocked, became one of the host's
   own or the gateway, and was about to be dropped by this sync, is put back,
   although `engine.py:24` calls it one that "must never be blocked".
   Run `firewall_recovery_protected`.
2. `device_manager.py:545`: a complete scan that saw no host reads who is overdue
   before its session holds the write lock; a neighbour event that commits in
   between is overwritten, and the device goes offline in the moment it was
   seen, although the docstring at 485 promises the grace period. Run
   `registry_grace`.

Met while modelling, without a run of their own:

- `engine.py:61`: the filter compares texts with canonical addresses, and
  normalisation comes after it, so that a protected IPv6 address stored in
  another spelling is installed. `FirewallRecoveryProtected.cfg` shows it with
  `Spelling = {phone, router, shouted}`, `Canonical <- Lowered` and no faults.
- `schedules.py:107-109`: "Eight days include the next weekly transition across
  DST" — not for a window that lies wholly in the hour DST skips; its next change
  is up to thirteen days away and reported as none. `TransitionIsNext` speaks of the
  eight days the code searches, and holds of such a window as well.
- `discovery.py`, `_scan_scapy`: `_dedupe` keys a reply by address and interface,
  and an ARP reply has no interface, so that of two cards answering for one
  address only the last is in the report; `_merge_discovery` behind it would have
  kept both. `docs/PHASES-I-III.md:17` says "Conflicting address claims remain
  separate". `_apply_deep_scan` keys by address as well: the inventory's MAC
  replaces the one found before, and an inventory without a MAC confirms a cached
  one, although `device_manager.py:490` takes only confirmed observations for
  presence. `ReportAccountsForAnswers` excludes these answers (`Overruled`, and
  its last disjunct). `_scan_linux` lists both families with `ip neigh` and the
  second once more with `ip -6 neigh`; where an entry went stale in between, the
  earlier, fresh one is dropped, and the device counts as not seen.
- `discovery_page.py:101-106`, `app.py:65-78`: a cancelled or failed scan of the
  page delivers the identities of the page's own resolver, which live presence
  does not feed, over the newer ones of live presence.
- `discovery_page.py:161-167`: loads of the scan history are not ordered; an older
  one may be shown last.
- `rule_manager.py:182`, `rules_page.py:93`: rows are addressed by id only, or a
  device by its name; after a deletion and a new row a page that shows the old
  one changes the new one. Only `delete_device` compares an expected identity.
- `profiles_page.py:142`: when the load behind a successful assignment fails, the
  page keeps the old assignments and does not ask before the next change of that
  profile. `ConfirmedWhenAssigned` excludes such a page (`unsure`).
- `presence.py:92`: when the reader's thread cannot be started, `_thread` keeps
  it, and the join of the next `stop()` raises before the child is ended.
- `events_page.py:35`: an event delivered while the page loads is dropped; when
  that load had read before the commit, the page shows the older history until
  the next event. `docs/PHASES-I-III.md` says events refresh from committed
  transitions. Every page ignores a refresh while it is busy; only the dashboard,
  the topology and the monitoring page also refresh periodically.
- `devices_page.py:204`: the failure of a *details* task clears `_busy`, which
  that task never set. The properties of `Workspaces` about overlapping loads
  exclude pages with details for this reason.
- `SharersAreFlagged` and `FlagAwaitsReview` hold with sessions in turn and not
  with sessions that overlap; a later scan repairs the flags.

## 7 What is only model-checked

- All liveness (`Convergence`, `KeepsScanning`, `StopReturns`, `FollowsNetwork`,
  `ScanEnds`): outside the reach of the proof system.
- What sessions of the device registry do when they overlap, beyond the
  constraints of the tables.

## 8 What is not modelled

- *Parsing and I/O*: `ip`, Scapy, Nmap, NetworkManager's answers, nft's JSON and
  scripts, schedule texts, preferences, diagnostics, logging, rendering. Their
  results are inputs. Nothing the properties speak of depends on their wording.
- *Schema creation and migrations* (`core/database.py`): run once, before any
  other access.
- *Names, vendors, hostnames, evidence texts, audit rows* of the registry and the
  resolver: no property here tells them apart. Of the evidence only what merge
  and split check is kept.
- `update_last_seen`, `sync_discovered_hosts`, `update_presence(online=False)`,
  `DeviceTracker`, the listeners of `DeviceService` and `DiscoveryService`: no
  caller or subscriber in the program.
- *Profiles bound to one device* (`profile_manager.py`): nothing in the
  application creates them any more. Their part in a decision is in
  `PolicyDecision`; their update and deletion are left out.
- *The page's and live presence's resolver together*: each has its own, and both
  write the state that the pages show. `Discovery` has the page's only.
- *The profiles page with other pages of its kind*: there is one window, hence
  one profiles page.
- *Two scanners and a user's merge all within one read/write window*: the
  instances have one scanner where sessions overlap. A scan that read before a
  merge and inserts after another scan did could break `OneIdentityPerMac`
  there.
- *A merge's policy check against a session of the policy pages*
  (`identity_manager.py:57`): `PolicyStore` has no merges, `DeviceRegistry` has
  one page that changes devices.
- *Time within a session* (`Tick` waits until none is open): sessions last
  milliseconds, the grace period minutes.
- *The observer's generation counter*: the program starts the observer once and
  stops it when the main loop has ended; two starts never meet.
- *Saving preferences* (`core/config.py`, `gui/settings_page.py`): one writer, on
  the main loop, and a file that is replaced as a whole.
- *`RuleScheduler.stop`, `max_iterations`, dry runs by another caller in the
  daemon's process*: not used by the unit.

## 9 Plan

Every module planned is written, and section 7 lists what has no proof. Left is a
second resolver in `Discovery`, shared with live presence: the page and the live
service each keep one, and both write what the pages show.
