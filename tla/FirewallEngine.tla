--------------------------- MODULE FirewallEngine ---------------------------
(***************************************************************************)
(* The policy-to-kernel synchroniser (firewall/engine.py), its nftables    *)
(* backend (firewall/backends.py) and the daemon loop that runs it         *)
(* (scheduler/scheduler.py, restarted by the unit of core/service.py).     *)
(*                                                                         *)
(* One step is one database read, one probe of the host's own addresses,   *)
(* one nft command or one recorded event, so that a failing command, the   *)
(* death of the daemon or a change made by somebody else falls between any *)
(* two of them.  The GUI's edits of the policy, the host's addresses, the  *)
(* kernel's forwarding switch and the administrator's own nft commands are *)
(* the environment.  Every fault and every environment step spends one     *)
(* unit of budget, at most MaxDisturbances in a behaviour.                 *)
(***************************************************************************)
EXTENDS Naturals

CONSTANTS
    Address,          \* canonical IP addresses
    V4,               \* those of them that live in the set blocked4
    Local,            \* those of them that are private or link-local
    Spelling,         \* the texts a device record may hold for an address
    Canonical,        \* Canonical[s]: str(ipaddress.ip_address(s))
    Configs,          \* the configurations a daemon may find when it starts
    Operations,       \* the engine operations its process calls
    Faults,           \* which kinds of disturbance may happen
    MaxDisturbances   \* how many of them, in all

Operation == {"sync", "drift", "rollback"}
Fault == {"command", "timeout", "store", "probe", "crash",
          "policy", "host", "forwarding", "external"}
Config == [backend : {"nftables", "none"}, apply : BOOLEAN, rollback : BOOLEAN,
           topology : {"unverified", "host", "gateway", "inline"}]

ASSUME AddressAssumption ==
    /\ V4 \subseteq Address
    /\ Local \subseteq Address
    /\ Address \subseteq Spelling
    /\ Canonical \in [Spelling -> Address]
    /\ \A a \in Address : Canonical[a] = a

ASSUME RunAssumption ==
    /\ Configs \subseteq Config
    /\ Operations \subseteq Operation
    /\ Faults \subseteq Fault
    /\ MaxDisturbances \in Nat

VARIABLES
    kernel,      \* table inet netfather: its layout and the elements of its sets
    policy,      \* what PolicyEngine.blocked_ips() would return now
    host,        \* local addresses and gateway that the host has now
    forwarding,  \* is IP forwarding enabled for both families?
    budget,      \* disturbances left
    pc,          \* next step of the process that runs the engine
    config,      \* the configuration it loaded when it started
    purpose,     \* what the next read of the kernel sets is for
    requested,   \* blocked_ips() as read by the running operation
    protected,   \* _protected_ips() as read by the running operation
    previous,    \* previous_blocked: the snapshot to restore, if there is one
    seen,        \* elements of blocked4 while blocked6 is still to be read
    recorded,    \* events the running operation recorded; "lost" if one failed
    before       \* history: kernel set when the running operation began

world == <<policy, host, forwarding>>
inputs == <<requested, protected>>
vars == <<kernel, policy, host, forwarding, budget, pc, config, purpose,
          requested, protected, previous, seen, recorded, before>>

Layout == {"none", "legacy", "current"}
Kernel == [table : Layout, set : SUBSET Address]
NoSnapshot == [known |-> FALSE, set |-> {}]
Snapshot(s) == [known |-> TRUE, set |-> s]

Steps == {"down", "idle", "policy", "protect", "apply", "read4", "read6",
          "check", "list", "create", "upgradeCheck", "upgrade", "updateCheck",
          "update", "failed", "recordRecovery", "recordSync", "recordDrift",
          "flushCheck", "flush", "recordRollback", "returned", "raised"}
Purposes == {"none", "snapshot", "verify", "current", "restored", "drift", "rollback"}
Events == {"firewall_sync", "firewall_error", "firewall_recovery_error",
           "firewall_drift", "firewall_rollback", "lost"}

(* What sync wants in the kernel: the protected texts are dropped before   *)
(* the remaining ones are normalised.                                      *)
Blocked == requested \ protected
Wanted == {Canonical[s] : s \in Blocked}
AllLocal(addresses) == addresses \subseteq Local

(* What backend.apply is asked to install, first by sync and then, with    *)
(* purpose "restored", by its recovery.                                    *)
Target == IF purpose = "restored" THEN previous.set ELSE Wanted

(* Seeded faults, each put in the place of the definition that follows it  *)
(* to see that a property notices.                                         *)
TrustApply(all) == TRUE
CompareIPv4(all) == all \cap V4 = Wanted \cap V4
TrustRestore(all) == TRUE
DropIPv6(k) == [k EXCEPT !.set = Target \cap V4]

(* What the kernel was read to hold is what sync asked for. *)
Verified(all) == all = Wanted

(* detect_drift compares the same way. *)
AsExpected(all) == all = Wanted

(* What the kernel was read to hold is the snapshot. *)
Restored(all) == all = previous.set

(* One transaction flushes both sets and adds the elements. *)
Updated(k) == [k EXCEPT !.set = Target]

(* The create script, loaded over a table that exists, adds to its sets. *)
Created(k) == [table |-> "current", set |-> k.set \cup Target]

Fails(kind) == kind \in Faults /\ budget > 0 /\ budget' = budget - 1
Works == UNCHANGED budget

Goto(next) == pc' = next
-----------------------------------------------------------------------------
(* The locals of an operation die with it. *)
EndOperation(next) ==
    /\ Goto(next)
    /\ purpose' = "none"
    /\ requested' = {} /\ protected' = {}
    /\ previous' = NoSnapshot
    /\ seen' = {}
    /\ recorded' = {}
    /\ before' = {}

BeginOperation(why) ==
    /\ pc = "idle"
    /\ purpose' = why
    /\ before' = kernel.set
    /\ UNCHANGED <<kernel, world, budget, config, inputs, previous, seen, recorded>>

TopologyValid ==
    \/ config.topology = "inline"
    \/ config.topology = "gateway" /\ forwarding

BeginSync ==
    /\ "sync" \in Operations
    /\ BeginOperation(IF config.apply /\ config.rollback THEN "snapshot" ELSE "verify")
    /\ Goto(IF config.apply /\ ~TopologyValid THEN "raised" ELSE "policy")

BeginDrift ==
    /\ "drift" \in Operations
    /\ BeginOperation("drift")
    /\ Goto("policy")

(* One BEGIN ... SELECT transaction, outside every handler. *)
ReadPolicy ==
    /\ pc = "policy"
    /\ \/ Works /\ requested' = policy /\ Goto("protect")
       \/ Fails("store") /\ UNCHANGED requested /\ Goto("raised")
    /\ UNCHANGED <<kernel, world, config, purpose, protected, previous,
                   seen, recorded, before>>

(* An ip command that fails answers nothing, so any part of the host's     *)
(* addresses may be missing from what the probes return.                   *)
PartialAnswers(addresses) == SUBSET addresses

(* detect_drift normalises its expectation at once; sync leaves that to    *)
(* backend.apply.                                                          *)
ReadProtected ==
    /\ pc = "protect"
    /\ \/ Works /\ protected' = host
       \/ Fails("probe") /\ protected' \in PartialAnswers(host)
    /\ \/ purpose = "verify" /\ Goto("apply")
       \/ purpose = "snapshot" /\ Goto("read4")
       \/ /\ purpose = "drift"
          /\ Goto(IF AllLocal({Canonical[s] : s \in requested \ protected'})
                  THEN "read4" ELSE "raised")
    /\ UNCHANGED <<kernel, world, config, purpose, requested, previous, seen,
                   recorded, before>>
-----------------------------------------------------------------------------
(* read_blocked_ips: one nft command for each of the two sets. *)
ReadFailed ==
    /\ \/ purpose = "snapshot" /\ Goto("apply")
       \/ purpose = "verify" /\ Goto("failed")
       \/ purpose \in {"current", "restored"} /\ Goto("recordRecovery")
       \/ purpose = "drift" /\ Goto("recordDrift")
    /\ purpose' = IF purpose = "snapshot" THEN "verify" ELSE purpose
    /\ seen' = {}
    /\ UNCHANGED previous

ReadSucceeded(all) ==
    /\ seen' = {}
    /\ \/ /\ purpose = "snapshot"
          /\ previous' = Snapshot(all)
          /\ purpose' = "verify" /\ Goto("apply")
       \/ /\ purpose = "verify"
          /\ Goto(IF Verified(all) THEN "recordSync" ELSE "failed")
          /\ UNCHANGED <<previous, purpose>>
       \/ /\ purpose = "current"
          /\ purpose' = "restored"
          /\ Goto(IF Restored(all) THEN "raised" ELSE "apply")
          /\ UNCHANGED previous
       \/ /\ purpose = "restored"
          /\ Goto(IF Restored(all) THEN "raised" ELSE "recordRecovery")
          /\ UNCHANGED <<previous, purpose>>
       \/ /\ purpose = "drift"
          /\ Goto(IF AsExpected(all) THEN "returned" ELSE "recordDrift")
          /\ UNCHANGED <<previous, purpose>>

Readable == config.backend = "nftables" /\ kernel.table # "none"

Read4 ==
    /\ pc = "read4"
    /\ \/ /\ Readable /\ Works
          /\ seen' = kernel.set \cap V4
          /\ Goto("read6")
          /\ UNCHANGED <<previous, purpose>>
       \/ ~Readable /\ Works /\ ReadFailed
       \/ Fails("command") /\ ReadFailed
    /\ UNCHANGED <<kernel, world, config, inputs, recorded, before>>

Read6 ==
    /\ pc = "read6"
    /\ LET all == seen \cup (kernel.set \ V4)
           readable == kernel.table = "current" /\ AllLocal(all)
       IN \/ readable /\ Works /\ ReadSucceeded(all)
          \/ ~readable /\ Works /\ ReadFailed
          \/ Fails("command") /\ ReadFailed
    /\ UNCHANGED <<kernel, world, config, inputs, recorded, before>>
-----------------------------------------------------------------------------
(* NftablesBackend.apply(Target).  An exception goes to the handler of     *)
(* whoever called: sync, or the recovery of sync.                          *)
frame == <<world, config, purpose, inputs, previous, seen, recorded, before>>

ApplyFails == Goto(IF purpose = "restored" THEN "recordRecovery" ELSE "failed")

(* Normalisation, then the dry run and the null backend, which install     *)
(* nothing and are not verified.                                           *)
StartApply ==
    /\ pc = "apply"
    /\ \/ ~AllLocal(Target) /\ ApplyFails
       \/ /\ AllLocal(Target)
          /\ Goto(IF purpose = "verify" /\ (~config.apply \/ config.backend = "none")
                  THEN "recordSync" ELSE "check")
    /\ UNCHANGED <<kernel, budget, frame>>

(* nft -c on the whole table under another name. *)
CheckScript ==
    /\ pc = "check"
    /\ \/ Works /\ Goto("list")
       \/ Fails("command") /\ ApplyFails
    /\ UNCHANGED <<kernel, frame>>

(* Every failure of nft list is taken for a missing table. *)
ListTable ==
    /\ pc = "list"
    /\ \/ Works /\ kernel.table = "none" /\ Goto("create")
       \/ Works /\ kernel.table = "legacy" /\ Goto("upgradeCheck")
       \/ Works /\ kernel.table = "current" /\ Goto("updateCheck")
       \/ Fails("command") /\ Goto("create")
       \/ Fails("timeout") /\ ApplyFails
    /\ UNCHANGED <<kernel, frame>>

(* A transaction commits or fails as a whole; when its command times out   *)
(* it may have committed, and apply raises.                                *)
Transaction(possible, result, next) ==
    \/ possible /\ Works /\ kernel' = result /\ Goto(next)
    \/ ~possible /\ Works /\ UNCHANGED kernel /\ ApplyFails
    \/ Fails("command") /\ UNCHANGED kernel /\ ApplyFails
    \/ possible /\ Fails("timeout") /\ kernel' = result /\ ApplyFails

CreateTable ==
    /\ pc = "create"
    /\ Transaction(TRUE, Created(kernel), "read4")
    /\ UNCHANGED frame

CheckUpgrade ==
    /\ pc = "upgradeCheck"
    /\ \/ kernel.table # "none" /\ Works /\ Goto("upgrade")
       \/ kernel.table = "none" /\ Works /\ ApplyFails
       \/ Fails("command") /\ ApplyFails
    /\ UNCHANGED <<kernel, frame>>

UpgradeTable ==
    /\ pc = "upgrade"
    /\ Transaction(kernel.table # "none", [kernel EXCEPT !.table = "current"], "updateCheck")
    /\ UNCHANGED frame

CheckUpdate ==
    /\ pc = "updateCheck"
    /\ \/ kernel.table = "current" /\ Works /\ Goto("update")
       \/ kernel.table # "current" /\ Works /\ ApplyFails
       \/ Fails("command") /\ ApplyFails
    /\ UNCHANGED <<kernel, frame>>

UpdateSets ==
    /\ pc = "update"
    /\ Transaction(kernel.table = "current", Updated(kernel), "read4")
    /\ UNCHANGED frame
-----------------------------------------------------------------------------
(* EventManager.record is a transaction of its own: when it fails, its     *)
(* exception replaces whatever was going on.                               *)
Record(type, next) ==
    /\ \/ Works /\ recorded' = recorded \cup {type} /\ Goto(next)
       \/ Fails("store") /\ recorded' = recorded \cup {"lost"} /\ Goto("raised")
    /\ UNCHANGED <<kernel, world, config, inputs, previous, seen, before>>

(* except Exception: record firewall_error, then try to restore. *)
HandleFailure ==
    /\ pc = "failed"
    /\ LET recovering == config.apply /\ config.rollback
       IN /\ Record("firewall_error",
                    IF ~recovering THEN "raised"
                    ELSE IF previous.known THEN "read4" ELSE "recordRecovery")
          /\ purpose' = IF pc' = "read4" THEN "current" ELSE purpose

RecordRecovery ==
    /\ pc = "recordRecovery"
    /\ Record("firewall_recovery_error", "raised")
    /\ UNCHANGED purpose

RecordSync ==
    /\ pc = "recordSync"
    /\ Record("firewall_sync", "returned")
    /\ UNCHANGED purpose

RecordDrift ==
    /\ pc = "recordDrift"
    /\ Record("firewall_drift", "returned")
    /\ UNCHANGED purpose
-----------------------------------------------------------------------------
(* FirewallEngine.rollback: clear both sets, in one transaction. *)
BeginRollback ==
    /\ "rollback" \in Operations
    /\ BeginOperation("rollback")
    /\ Goto(IF config.apply /\ config.backend = "nftables"
            THEN "flushCheck" ELSE "recordRollback")

CheckFlush ==
    /\ pc = "flushCheck"
    /\ \/ kernel.table = "current" /\ Works /\ Goto("flush")
       \/ kernel.table # "current" /\ Works /\ Goto("raised")
       \/ Fails("command") /\ Goto("raised")
    /\ UNCHANGED <<kernel, frame>>

FlushSets ==
    /\ pc = "flush"
    /\ LET flushed == [kernel EXCEPT !.set = {}]
       IN \/ kernel.table = "current" /\ Works /\ kernel' = flushed /\ Goto("recordRollback")
          \/ kernel.table # "current" /\ Works /\ UNCHANGED kernel /\ Goto("raised")
          \/ Fails("command") /\ UNCHANGED kernel /\ Goto("raised")
          \/ kernel.table = "current" /\ Fails("timeout") /\ kernel' = flushed /\ Goto("raised")
    /\ UNCHANGED frame

RecordRollback ==
    /\ pc = "recordRollback"
    /\ Record("firewall_rollback", "returned")
    /\ UNCHANGED purpose
-----------------------------------------------------------------------------
(* The loop of RuleScheduler.start goes on after an operation that         *)
(* returned; an exception leaves main(), and systemd starts the daemon     *)
(* again, which reads its configuration afresh.                            *)
(* Seeded fault: the loop is left after its first operation. *)
LeaveLoop ==
    /\ pc = "returned"
    /\ EndOperation("left")
    /\ UNCHANGED <<kernel, world, budget, config>>

Return ==
    /\ pc = "returned"
    /\ EndOperation("idle")
    /\ UNCHANGED <<kernel, world, budget, config>>

Exit ==
    /\ pc = "raised"
    /\ EndOperation("down")
    /\ UNCHANGED <<kernel, world, budget, config>>

Start ==
    /\ pc = "down"
    /\ config' \in Configs
    /\ Goto("idle")
    /\ UNCHANGED <<kernel, world, budget, purpose, inputs, previous, seen, recorded, before>>

Crash ==
    /\ pc # "down" /\ Fails("crash")
    /\ EndOperation("down")
    /\ UNCHANGED <<kernel, world, config>>
-----------------------------------------------------------------------------
(* The environment. *)
Toggle(S, x) == (S \ {x}) \cup ({x} \ S)
process == <<pc, config, purpose, inputs, previous, seen, recorded, before>>

EditPolicy ==
    /\ Fails("policy")
    /\ \E s \in Spelling : policy' = Toggle(policy, s)
    /\ UNCHANGED <<kernel, host, forwarding, process>>

ChangeHost ==
    /\ Fails("host")
    /\ \E a \in Address : host' = Toggle(host, a)
    /\ UNCHANGED <<kernel, policy, forwarding, process>>

SwitchForwarding ==
    /\ Fails("forwarding")
    /\ forwarding' = ~forwarding
    /\ UNCHANGED <<kernel, policy, host, process>>

(* The administrator edits the sets, or deletes the table. *)
EditKernel ==
    /\ Fails("external")
    /\ \/ /\ kernel.table = "current"
          /\ \E a \in Address : kernel' = [kernel EXCEPT !.set = Toggle(kernel.set, a)]
       \/ /\ kernel.table # "none"
          /\ kernel' = [table |-> "none", set |-> {}]
    /\ UNCHANGED <<world, process>>
-----------------------------------------------------------------------------
(* A table that was never installed is empty, one of an older release has  *)
(* no IPv6 set.                                                            *)
WellFormed(k) ==
    /\ k.table = "none" => k.set = {}
    /\ k.table = "legacy" => k.set \subseteq V4

Init ==
    /\ kernel \in {k \in Kernel : WellFormed(k) /\ AllLocal(k.set)}
    /\ policy \in SUBSET Spelling
    /\ host \in SUBSET Address
    /\ forwarding = TRUE
    /\ budget = MaxDisturbances
    /\ config \in Configs
    /\ pc = "down" /\ purpose = "none"
    /\ requested = {} /\ protected = {}
    /\ previous = NoSnapshot /\ seen = {}
    /\ recorded = {} /\ before = {}

Apply == StartApply \/ CheckScript \/ ListTable \/ CreateTable \/ CheckUpgrade
            \/ UpgradeTable \/ CheckUpdate \/ UpdateSets
Engine == BeginSync \/ BeginDrift \/ BeginRollback \/ ReadPolicy \/ ReadProtected
            \/ Read4 \/ Read6 \/ Apply \/ HandleFailure \/ RecordRecovery
            \/ RecordSync \/ RecordDrift \/ CheckFlush \/ FlushSets \/ RecordRollback
            \/ Return \/ Exit \/ Start
Environment == Crash \/ EditPolicy \/ ChangeHost \/ SwitchForwarding \/ EditKernel

Next == Engine \/ Environment

Spec == Init /\ [][Next]_vars

(* The daemon's thread keeps running, and Restart=on-failure starts it     *)
(* again: RestartSec=3 stays below systemd's default start limit.          *)
FairSpec == Spec /\ WF_vars(Engine)
-----------------------------------------------------------------------------
TypeOK ==
    /\ kernel \in Kernel
    /\ policy \subseteq Spelling /\ host \subseteq Address
    /\ forwarding \in BOOLEAN
    /\ budget \in Nat
    /\ pc \in Steps /\ purpose \in Purposes
    /\ config \in Configs
    /\ requested \subseteq Spelling /\ protected \subseteq Address
    /\ previous \in [known : BOOLEAN, set : SUBSET Address]
    /\ seen \subseteq Address
    /\ recorded \subseteq Events
    /\ before \subseteq Address

Installing == config.apply /\ config.backend = "nftables"
SyncRunning == purpose \in {"snapshot", "verify", "current", "restored"}
Undisturbed == "external" \notin Faults

(* Nobody but the engine writes the table, then a sync that is about to    *)
(* report firewall_sync has its blocked set in the kernel, whatever        *)
(* commands failed, timed out or took an existing table for a missing one. *)
SyncMeansInstalled ==
    Undisturbed /\ pc = "recordSync" /\ Installing
        => kernel.table = "current" /\ kernel.set = Wanted

(* While a sync runs the kernel holds the set it found, the set it wants,  *)
(* or (create script over an existing table) both together: no command,    *)
(* failure or recovery ever opens a gap for an address that was blocked    *)
(* and stays blocked, and nothing else gets blocked.                       *)
AtomicReplacement ==
    Undisturbed /\ SyncRunning
        => \/ kernel.set = before
           \/ /\ pc \notin {"policy", "protect"}
              /\ kernel.set \in {Wanted, before \cup Wanted}

(* A sync that ends with an exception has left the kernel as it found it,  *)
(* or has recorded why not: firewall_error, and with rollback_on_error     *)
(* firewall_recovery_error too.  Only a failing event store hides it.      *)
FailedSyncIsAccountedFor ==
    Undisturbed /\ pc = "raised" /\ SyncRunning
        => \/ kernel.set = before
           \/ "lost" \in recorded
           \/ /\ "firewall_error" \in recorded
              /\ config.rollback => "firewall_recovery_error" \in recorded

(* A drift check that answers "no drift" compared the whole kernel set     *)
(* with the policy it read, across both families.                          *)
NoDriftMissed ==
    Undisturbed /\ pc = "returned" /\ purpose = "drift"
                /\ "firewall_drift" \notin recorded
        => kernel.set = Wanted

(* "local management-path addresses that must never be blocked": no step   *)
(* of the engine adds to the kernel an address that the running operation  *)
(* knows to be protected.                                                  *)
ProtectedNeverInstalled ==
    [][(kernel'.set \ kernel.set) \cap protected = {}]_vars

(* A daemon with a valid topology, on a host that forwards, with policy    *)
(* addresses the backend accepts: once disturbances are used up the kernel *)
(* comes to hold exactly the policy minus the protected addresses, through *)
(* any number of failed syncs and restarts, and keeps it.                  *)
Desired == {Canonical[s] : s \in policy \ host}
Convergence ==
    <>[](forwarding /\ AllLocal(Desired)) => <>[](kernel.set = Desired)
-----------------------------------------------------------------------------
(* The engine implements its promise: a sync is "busy" from the moment it  *)
(* knows what it wants, ends "installed" when it records firewall_sync,    *)
(* and "restored" when it raises with nothing but firewall_error recorded  *)
(* under rollback_on_error.                                                *)
SyncPhase ==
    IF ~SyncRunning \/ pc \in {"policy", "protect"} THEN "idle"
    ELSE IF pc = "returned" THEN IF Installing THEN "installed" ELSE "idle"
    ELSE IF pc = "raised"
         THEN IF recorded = {"firewall_error"} /\ config.rollback THEN "restored" ELSE "idle"
    ELSE "busy"

Promise == INSTANCE FirewallPromise WITH
    installed <- kernel.set,
    phase     <- SyncPhase,
    old       <- IF SyncPhase = "busy" THEN before ELSE {},
    wanted    <- IF SyncPhase = "busy" THEN Wanted ELSE {}

(* Seen from outside, with nobody else writing the table, every behaviour  *)
(* of the daemon is one that FirewallPromise allows.                       *)
KeepsPromise == Promise!Spec
-----------------------------------------------------------------------------
(* The inductive strengthening behind the invariants above.  Where the     *)
(* process is tells what the next read is for; ...                         *)
Writing == {"check", "list", "create", "upgradeCheck", "upgrade", "updateCheck", "update"}
Shape ==
    /\ purpose = "none" <=> pc \in {"down", "idle"}
    /\ pc \in {"policy", "protect"} => purpose \in {"snapshot", "verify", "drift"}
    /\ pc = "apply" \/ pc \in Writing => purpose \in {"verify", "restored"}
    /\ pc \in {"failed", "recordSync"} => purpose = "verify"
    /\ pc = "recordRecovery" => purpose \in {"verify", "current", "restored"}
    /\ pc = "recordDrift" => purpose = "drift"
    /\ pc \in {"flushCheck", "flush", "recordRollback"} => purpose = "rollback"
    /\ previous.known => purpose \in {"verify", "current", "restored"}

(* ... a snapshot, once taken, is the set the sync found; recovery runs    *)
(* only with one and only after firewall_error is on record; and a sync    *)
(* that is not to install anything never reaches a writing command.        *)
SnapshotIsBefore ==
    /\ previous.known => /\ previous.set = before
                         /\ Installing /\ config.rollback
    /\ purpose = "snapshot" => kernel.set = before /\ config.apply /\ config.rollback
    /\ purpose \in {"current", "restored"} => previous.known /\ "firewall_error" \in recorded
    /\ pc = "recordRecovery" => "firewall_error" \in recorded
    /\ pc \in Writing => Installing
    /\ SyncRunning /\ ~Installing => kernel.set = before
    /\ pc = "read6" => seen = kernel.set \cap V4 /\ config.backend = "nftables"

Inductive ==
    /\ Shape
    /\ Undisturbed => SnapshotIsBefore
    /\ SyncMeansInstalled /\ AtomicReplacement /\ FailedSyncIsAccountedFor /\ NoDriftMissed
=============================================================================
