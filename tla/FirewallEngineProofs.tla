------------------------ MODULE FirewallEngineProofs ------------------------
(***************************************************************************)
(* Proofs about FirewallEngine, for every set of addresses, spellings,     *)
(* configurations, operations and faults, and any number of disturbances.  *)
(***************************************************************************)
EXTENDS FirewallEngine, TLAPS

(* Normalising texts that a device record may hold gives addresses. *)
LEMMA WantedIsAddresses ==
    ASSUME NEW R \in SUBSET Spelling, NEW P
    PROVE  {Canonical[s] : s \in R \ P} \subseteq Address
BY AddressAssumption

LEMMA TypeInit == Init => TypeOK
BY AddressAssumption, RunAssumption
   DEF Init, TypeOK, Kernel, Layout, Steps, Purposes, Events, NoSnapshot

(* Recording an event keeps the types, whether it succeeds or not. *)
LEMMA RecordType ==
    ASSUME TypeOK, NEW type \in Events, NEW next \in Steps, Record(type, next)
    PROVE  /\ pc' \in Steps /\ recorded' \subseteq Events /\ budget' \in Nat
           /\ UNCHANGED <<kernel, policy, host, forwarding, config, requested, protected,
                          previous, seen, before>>
<1>1. "lost" \in Events /\ "raised" \in Steps
  BY DEF Events, Steps
<1> QED
  BY <1>1 DEF TypeOK, Record, Fails, Works, Goto, world, inputs

LEMMA TypeStep == TypeOK /\ [Next]_vars => TypeOK'
<1> SUFFICES ASSUME TypeOK, [Next]_vars PROVE TypeOK'
  OBVIOUS
<1> USE RunAssumption DEF TypeOK, Kernel, Layout, Steps, Purposes, Events, Goto,
        Fails, Works, frame, world, inputs
<1>1. CASE BeginSync
  BY <1>1 DEF BeginSync, BeginOperation
<1>2. CASE BeginDrift
  BY <1>2 DEF BeginDrift, BeginOperation
<1>3. CASE BeginRollback
  BY <1>3 DEF BeginRollback, BeginOperation
<1>4. CASE ReadPolicy
  BY <1>4 DEF ReadPolicy
<1>5. CASE ReadProtected
  BY <1>5 DEF ReadProtected, PartialAnswers
<1>6. CASE Read4
  BY <1>6 DEF Read4, ReadFailed
<1>7. CASE Read6
  <2> DEFINE all == seen \cup (kernel.set \ V4)
  <2>1. all \subseteq Address
    OBVIOUS
  <2>2. budget' \in Nat /\ UNCHANGED <<kernel, policy, host, forwarding, config, requested,
                                      protected, recorded, before>>
    BY <1>7 DEF Read6
  <2>3. ReadFailed \/ ReadSucceeded(all)
    BY <1>7 DEF Read6
  <2>4. /\ previous' \in [known : BOOLEAN, set : SUBSET Address]
        /\ purpose' \in Purposes /\ pc' \in Steps /\ seen' = {}
    <3> HIDE DEF all
    <3>1. CASE ReadFailed
      BY <3>1 DEF ReadFailed
    <3>2. CASE ReadSucceeded(all)
      <4>1. seen' = {} /\ previous' \in {previous, Snapshot(all)}
        BY <3>2 DEF ReadSucceeded
      <4>2. purpose' \in Purposes /\ pc' \in Steps
        BY <3>2 DEF ReadSucceeded
      <4>3. Snapshot(all) \in [known : BOOLEAN, set : SUBSET Address]
        BY <2>1 DEF Snapshot
      <4> QED
        BY <4>1, <4>2, <4>3
    <3> QED
      BY <2>3, <3>1, <3>2
  <2> QED
    BY <2>2, <2>4
<1>8. CASE Apply
  <2> Target \subseteq Address
    BY WantedIsAddresses DEF Target, Wanted, Blocked
  <2>1. CASE StartApply
    BY <2>1 DEF StartApply, ApplyFails
  <2>2. CASE CheckScript
    BY <2>2 DEF CheckScript, ApplyFails
  <2>3. CASE ListTable
    BY <2>3 DEF ListTable, ApplyFails
  <2>4. CASE CreateTable
    BY <2>4 DEF CreateTable, Transaction, Created, ApplyFails
  <2>5. CASE CheckUpgrade
    BY <2>5 DEF CheckUpgrade, ApplyFails
  <2>6. CASE UpgradeTable
    BY <2>6 DEF UpgradeTable, Transaction, ApplyFails
  <2>7. CASE CheckUpdate
    BY <2>7 DEF CheckUpdate, ApplyFails
  <2>8. CASE UpdateSets
    BY <2>8 DEF UpdateSets, Transaction, Updated, ApplyFails
  <2> QED
    BY <1>8, <2>1, <2>2, <2>3, <2>4, <2>5, <2>6, <2>7, <2>8 DEF Apply
<1>9. CASE HandleFailure
  <2> DEFINE next == IF ~(config.apply /\ config.rollback) THEN "raised"
                     ELSE IF previous.known THEN "read4" ELSE "recordRecovery"
  <2>1. next \in Steps /\ "firewall_error" \in Events
    OBVIOUS
  <2>2. Record("firewall_error", next) /\ purpose' \in Purposes
    BY <1>9 DEF HandleFailure
  <2> HIDE DEF next
  <2> QED
    BY <2>1, <2>2, RecordType
<1>10. CASE RecordRecovery
  BY <1>10, RecordType DEF RecordRecovery
<1>11. CASE RecordSync
  BY <1>11, RecordType DEF RecordSync
<1>12. CASE RecordDrift
  BY <1>12, RecordType DEF RecordDrift
<1>13. CASE RecordRollback
  BY <1>13, RecordType DEF RecordRollback
<1>14. CASE CheckFlush
  BY <1>14 DEF CheckFlush
<1>15. CASE FlushSets
  BY <1>15 DEF FlushSets
<1>16. CASE Return
  BY <1>16 DEF Return, EndOperation, NoSnapshot
<1>17. CASE Exit
  BY <1>17 DEF Exit, EndOperation, NoSnapshot
<1>18. CASE Start
  BY <1>18 DEF Start
<1>19. CASE Crash
  BY <1>19 DEF Crash, EndOperation, NoSnapshot
<1>20. CASE EditPolicy
  BY <1>20 DEF EditPolicy, Toggle, process
<1>21. CASE ChangeHost
  BY <1>21 DEF ChangeHost, Toggle, process
<1>22. CASE SwitchForwarding
  BY <1>22 DEF SwitchForwarding, process
<1>23. CASE EditKernel
  BY <1>23 DEF EditKernel, Toggle, process
<1>24. CASE UNCHANGED vars
  BY <1>24 DEF vars
<1> QED
  BY <1>1, <1>2, <1>3, <1>4, <1>5, <1>6, <1>7, <1>8, <1>9, <1>10, <1>11, <1>12, <1>13, <1>14, <1>15, <1>16, <1>17, <1>18, <1>19, <1>20, <1>21, <1>22, <1>23, <1>24
     DEF Next, Engine, Environment

(* Every variable keeps its type, for all constants. *)
THEOREM TypeCorrect == Spec => []TypeOK
BY TypeInit, TypeStep, PTL DEF Spec
-----------------------------------------------------------------------------
LEMMA InductiveInit == Init => Inductive
BY DEF Init, Inductive, Shape, SnapshotIsBefore, SyncMeansInstalled, AtomicReplacement,
       FailedSyncIsAccountedFor, NoDriftMissed, SyncRunning, Writing, NoSnapshot

(* The place of the process and its purpose stay in step. *)
LEMMA ShapeStep == Shape /\ [Next]_vars => Shape'
<1> SUFFICES ASSUME Shape, [Next]_vars PROVE Shape'
  OBVIOUS
<1> USE DEF Shape, Writing, Goto, inputs, frame, world
<1>1. CASE BeginSync
  BY <1>1 DEF BeginSync, BeginOperation
<1>2. CASE BeginDrift
  BY <1>2 DEF BeginDrift, BeginOperation
<1>3. CASE BeginRollback
  BY <1>3 DEF BeginRollback, BeginOperation
<1>4. CASE ReadPolicy
  BY <1>4 DEF ReadPolicy
<1>5. CASE ReadProtected
  BY <1>5 DEF ReadProtected, PartialAnswers
<1>6. CASE Read4
  BY <1>6 DEF Read4, ReadFailed
<1>7. CASE Read6
  BY <1>7 DEF Read6, ReadFailed, ReadSucceeded, Snapshot
<1>8. CASE StartApply
  BY <1>8 DEF StartApply, ApplyFails
<1>9. CASE CheckScript
  BY <1>9 DEF CheckScript, ApplyFails
<1>10. CASE ListTable
  BY <1>10 DEF ListTable, ApplyFails
<1>11. CASE CreateTable
  BY <1>11 DEF CreateTable, Transaction, ApplyFails
<1>12. CASE CheckUpgrade
  BY <1>12 DEF CheckUpgrade, ApplyFails
<1>13. CASE UpgradeTable
  BY <1>13 DEF UpgradeTable, Transaction, ApplyFails
<1>14. CASE CheckUpdate
  BY <1>14 DEF CheckUpdate, ApplyFails
<1>15. CASE UpdateSets
  BY <1>15 DEF UpdateSets, Transaction, ApplyFails
<1>16. CASE HandleFailure
  BY <1>16 DEF HandleFailure, Record
<1>17. CASE RecordRecovery
  BY <1>17 DEF RecordRecovery, Record
<1>18. CASE RecordSync
  BY <1>18 DEF RecordSync, Record
<1>19. CASE RecordDrift
  BY <1>19 DEF RecordDrift, Record
<1>20. CASE RecordRollback
  BY <1>20 DEF RecordRollback, Record
<1>21. CASE CheckFlush
  BY <1>21 DEF CheckFlush
<1>22. CASE FlushSets
  BY <1>22 DEF FlushSets
<1>23. CASE Return
  BY <1>23 DEF Return, EndOperation, NoSnapshot
<1>24. CASE Exit
  BY <1>24 DEF Exit, EndOperation, NoSnapshot
<1>25. CASE Start
  BY <1>25 DEF Start
<1>26. CASE Crash
  BY <1>26 DEF Crash, EndOperation, NoSnapshot
<1>27. CASE EditPolicy
  BY <1>27 DEF EditPolicy, process
<1>28. CASE ChangeHost
  BY <1>28 DEF ChangeHost, process
<1>29. CASE SwitchForwarding
  BY <1>29 DEF SwitchForwarding, process
<1>30. CASE EditKernel
  BY <1>30 DEF EditKernel, process
<1>31. CASE UNCHANGED vars
  BY <1>31 DEF vars
<1> QED
  BY <1>1, <1>2, <1>3, <1>4, <1>5, <1>6, <1>7, <1>8, <1>9, <1>10, <1>11, <1>12, <1>13, <1>14, <1>15, <1>16, <1>17, <1>18, <1>19, <1>20, <1>21, <1>22, <1>23, <1>24, <1>25, <1>26, <1>27, <1>28, <1>29, <1>30, <1>31
     DEF Next, Engine, Apply, Environment
(* Wanted depends on what the operation read, and on nothing else. *)
LEMMA WantedStable == requested' = requested /\ protected' = protected => Wanted' = Wanted
BY DEF Wanted, Blocked

LEMMA InductiveStep ==
    ASSUME TypeOK, Inductive, [Next]_vars, Undisturbed
    PROVE  /\ SnapshotIsBefore' /\ SyncMeansInstalled' /\ AtomicReplacement'
           /\ FailedSyncIsAccountedFor' /\ NoDriftMissed'
<1> USE DEF Inductive, Shape, SnapshotIsBefore, SyncMeansInstalled, AtomicReplacement,
        FailedSyncIsAccountedFor, NoDriftMissed, SyncRunning, Installing, Writing, Goto,
        inputs, frame, world
<1>1. CASE BeginSync
  BY <1>1, WantedStable DEF BeginSync, BeginOperation
<1>2. CASE BeginDrift
  BY <1>2, WantedStable DEF BeginDrift, BeginOperation
<1>3. CASE BeginRollback
  BY <1>3, WantedStable DEF BeginRollback, BeginOperation
<1>4. CASE ReadPolicy
  BY <1>4, WantedStable DEF ReadPolicy
<1>5. CASE ReadProtected
  BY <1>5, WantedStable DEF ReadProtected
<1>6. CASE Read4
  BY <1>6, WantedStable DEF Read4, ReadFailed, Readable
<1>7. CASE Read6
  <2> DEFINE all == seen \cup (kernel.set \ V4)
  <2>1. all = kernel.set
    BY <1>7 DEF Read6, TypeOK, Kernel
  <2>2. Wanted' = Wanted /\ UNCHANGED <<kernel, config, recorded, before>>
    BY <1>7, WantedStable DEF Read6
  <2>3. \/ ReadFailed
        \/ ReadSucceeded(all) /\ kernel.table = "current"
    BY <1>7 DEF Read6
  <2> HIDE DEF all
  <2>4. CASE ReadFailed
    BY <1>7, <2>2, <2>4 DEF Read6, ReadFailed
  <2>5. CASE ReadSucceeded(all) /\ kernel.table = "current" /\ purpose = "snapshot"
    BY <2>1, <2>2, <2>5, <1>7 DEF Read6, ReadSucceeded, Snapshot
  <2>6. CASE ReadSucceeded(all) /\ kernel.table = "current" /\ purpose # "snapshot"
    <3> USE <2>1, <2>2, <2>6
    <3>1. purpose' # "none" /\ pc' \in {"recordSync", "failed", "raised", "apply", "recordRecovery",
                                      "returned", "recordDrift"}
          /\ previous' = previous
      BY DEF ReadSucceeded
    <3>2. CASE purpose = "verify"
      BY <3>1, <3>2, <1>7 DEF ReadSucceeded, Verified, Read6
    <3>3. CASE purpose \in {"current", "restored"}
      BY <3>1, <3>3, <1>7 DEF ReadSucceeded, Restored, Read6
    <3>4. CASE purpose = "drift"
      BY <3>1, <3>4, <1>7 DEF ReadSucceeded, AsExpected, Read6
    <3> QED
      BY <3>2, <3>3, <3>4 DEF ReadSucceeded
  <2> QED
    BY <2>3, <2>4, <2>5, <2>6
<1>8. CASE StartApply
  <2>1. Wanted' = Wanted /\ UNCHANGED <<kernel, config, purpose, previous, seen, recorded, before>>
    BY <1>8, WantedStable DEF StartApply
  <2> config.backend \in {"nftables", "none"}
    BY RunAssumption DEF TypeOK, Config
  <2>2. CASE purpose = "verify"
    BY <1>8, <2>1, <2>2 DEF StartApply, ApplyFails
  <2>3. CASE purpose = "restored"
    BY <1>8, <2>1, <2>3 DEF StartApply, ApplyFails
  <2> QED
    BY <1>8, <2>2, <2>3 DEF StartApply
<1>9. CASE CheckScript
  BY <1>9, WantedStable DEF CheckScript, ApplyFails
<1>10. CASE ListTable
  BY <1>10, WantedStable DEF ListTable, ApplyFails
<1>11. CASE CreateTable
  BY <1>11, WantedStable DEF CreateTable, Transaction, ApplyFails, Created, Target, Kernel
<1>12. CASE CheckUpgrade
  BY <1>12, WantedStable DEF CheckUpgrade, ApplyFails
<1>13. CASE UpgradeTable
  BY <1>13, WantedStable DEF UpgradeTable, Transaction, ApplyFails, TypeOK, Kernel
<1>14. CASE CheckUpdate
  BY <1>14, WantedStable DEF CheckUpdate, ApplyFails
<1>15. CASE UpdateSets
  BY <1>15, WantedStable DEF UpdateSets, Transaction, ApplyFails, Updated, Target, TypeOK, Kernel
<1>16. CASE HandleFailure
  BY <1>16, WantedStable DEF HandleFailure, Record
<1>17. CASE RecordRecovery
  BY <1>17, WantedStable DEF RecordRecovery, Record
<1>18. CASE RecordSync
  BY <1>18, WantedStable DEF RecordSync, Record
<1>19. CASE RecordDrift
  BY <1>19, WantedStable DEF RecordDrift, Record
<1>20. CASE RecordRollback
  BY <1>20, WantedStable DEF RecordRollback, Record
<1>21. CASE CheckFlush
  BY <1>21, WantedStable DEF CheckFlush
<1>22. CASE FlushSets
  BY <1>22, WantedStable DEF FlushSets
<1>23. CASE Return
  BY <1>23, WantedStable DEF Return, EndOperation, NoSnapshot
<1>24. CASE Exit
  BY <1>24, WantedStable DEF Exit, EndOperation, NoSnapshot
<1>25. CASE Start
  BY <1>25, WantedStable DEF Start
<1>26. CASE Crash
  BY <1>26, WantedStable DEF Crash, EndOperation, NoSnapshot
<1>27. CASE EditPolicy
  BY <1>27, WantedStable DEF EditPolicy, process
<1>28. CASE ChangeHost
  BY <1>28, WantedStable DEF ChangeHost, process
<1>29. CASE SwitchForwarding
  BY <1>29, WantedStable DEF SwitchForwarding, process
<1>30. CASE EditKernel
  BY <1>30 DEF EditKernel, Fails, Undisturbed
<1>31. CASE UNCHANGED vars
  BY <1>31, WantedStable DEF vars
<1> QED
  BY <1>1, <1>2, <1>3, <1>4, <1>5, <1>6, <1>7, <1>8, <1>9, <1>10, <1>11, <1>12, <1>13, <1>14, <1>15, <1>16, <1>17, <1>18, <1>19, <1>20, <1>21, <1>22, <1>23, <1>24, <1>25, <1>26, <1>27, <1>28, <1>29, <1>30, <1>31
     DEF Next, Engine, Apply, Environment

LEMMA InductiveInvariant == Spec => [](TypeOK /\ Inductive)
<1>1. Init => TypeOK /\ Inductive
  BY TypeInit, InductiveInit
<1>2. TypeOK /\ Inductive /\ [Next]_vars => (TypeOK /\ Inductive)'
  <2> SUFFICES ASSUME TypeOK, Inductive, [Next]_vars PROVE Inductive'
    BY TypeStep
  <2>1. Shape'
    BY ShapeStep DEF Inductive
  <2>2. CASE Undisturbed
    BY <2>1, <2>2, InductiveStep DEF Inductive
  <2>3. CASE ~Undisturbed
    BY <2>1, <2>3 DEF Inductive, SyncMeansInstalled, AtomicReplacement,
                      FailedSyncIsAccountedFor, NoDriftMissed, Undisturbed
  <2> QED
    BY <2>2, <2>3
<1> QED
  BY <1>1, <1>2, PTL DEF Spec

(* With nobody else writing the table, a sync reports success only when    *)
(* the kernel holds exactly the set it was to install (engine.py:84-92).   *)
THEOREM SyncInstalls == Spec => []SyncMeansInstalled
BY InductiveInvariant, PTL DEF Inductive

(* A running sync never opens a gap: the kernel goes from the old set to   *)
(* the wanted one, or their union, in single transactions.                 *)
THEOREM ReplacementIsAtomic == Spec => []AtomicReplacement
BY InductiveInvariant, PTL DEF Inductive

(* A sync that raises has restored what it found or recorded that it did   *)
(* not (engine.py:93-143), unless the event store itself failed.           *)
THEOREM FailureIsAccountedFor == Spec => []FailedSyncIsAccountedFor
BY InductiveInvariant, PTL DEF Inductive

(* detect_drift answers False only when the kernel held what the policy    *)
(* it read asks for.                                                       *)
THEOREM DriftIsSeen == Spec => []NoDriftMissed
BY InductiveInvariant, PTL DEF Inductive
-----------------------------------------------------------------------------
(* The refinement.  What an operation has recorded was recorded by it: the *)
(* slate is clean before it begins.                                        *)
CleanSlate == pc \in {"down", "idle", "policy", "protect"} => recorded = {}

LEMMA CleanSlateStep == CleanSlate /\ [Next]_vars => CleanSlate'
<1> SUFFICES ASSUME CleanSlate, [Next]_vars PROVE CleanSlate'
  OBVIOUS
<1> USE DEF CleanSlate, Goto, inputs, frame, world
<1>1. CASE BeginSync \/ BeginDrift \/ BeginRollback
  BY <1>1 DEF BeginSync, BeginDrift, BeginRollback, BeginOperation
<1>2. CASE ReadPolicy \/ ReadProtected
  BY <1>2 DEF ReadPolicy, ReadProtected
<1>3. CASE Read4
  BY <1>3 DEF Read4, ReadFailed
<1>4. CASE Read6
  BY <1>4 DEF Read6, ReadFailed, ReadSucceeded
<1>5. CASE Apply
  BY <1>5 DEF Apply, StartApply, CheckScript, ListTable, CreateTable, CheckUpgrade, UpgradeTable,
              CheckUpdate, UpdateSets, Transaction, ApplyFails
<1>6. CASE HandleFailure \/ RecordRecovery \/ RecordSync \/ RecordDrift \/ RecordRollback
  BY <1>6 DEF HandleFailure, RecordRecovery, RecordSync, RecordDrift, RecordRollback, Record
<1>7. CASE CheckFlush \/ FlushSets
  BY <1>7 DEF CheckFlush, FlushSets
<1>8. CASE Return \/ Exit \/ Crash
  BY <1>8 DEF Return, Exit, Crash, EndOperation
<1>9. CASE Start
  BY <1>9 DEF Start
<1>10. CASE EditPolicy \/ ChangeHost \/ SwitchForwarding \/ EditKernel
  BY <1>10 DEF EditPolicy, ChangeHost, SwitchForwarding, EditKernel, process
<1>11. CASE UNCHANGED vars
  BY <1>11 DEF vars
<1> QED
  BY <1>1, <1>2, <1>3, <1>4, <1>5, <1>6, <1>7, <1>8, <1>9, <1>10, <1>11
     DEF Next, Engine, Environment

(* What a step may look like to the promise.                               *)
Unseen ==
    /\ kernel'.set = kernel.set /\ SyncPhase' = SyncPhase
    /\ SyncPhase = "busy" => before' = before /\ Wanted' = Wanted
Begins ==
    /\ SyncPhase = "idle" /\ SyncPhase' = "busy"
    /\ kernel'.set = kernel.set /\ before' = kernel.set
Writes ==
    /\ SyncPhase = "busy" /\ SyncPhase' = "busy"
    /\ before' = before /\ Wanted' = Wanted
    /\ kernel'.set \in {before, Wanted, before \cup Wanted}
Ends ==
    /\ SyncPhase = "busy" /\ kernel'.set = kernel.set
    /\ \/ SyncPhase' = "installed" /\ kernel.set = Wanted
       \/ SyncPhase' = "restored" /\ kernel.set = before
       \/ SyncPhase' = "idle"
Rests ==
    /\ SyncPhase \in {"installed", "restored"} /\ SyncPhase' = "idle"
    /\ kernel'.set = kernel.set
Clears == SyncPhase = "idle" /\ SyncPhase' = "idle" /\ kernel'.set = {}

(* Each kind of move below is a step of FirewallPromise or none.           *)
LEMMA PromisedMoves ==
    ASSUME TypeOK', Unseen \/ Begins \/ Writes \/ Ends \/ Rests \/ Clears
    PROVE  [Promise!Next]_(Promise!vars)
<1>1. Wanted' \in SUBSET Address
  BY WantedIsAddresses DEF TypeOK, Wanted, Blocked
<1>2. CASE Unseen
  BY <1>2 DEF Unseen, Promise!vars
<1>3. CASE Begins
  BY <1>1, <1>3 DEF Begins, Promise!Next, Promise!Begin
<1>4. CASE Writes
  BY <1>4 DEF Writes, Promise!Next, Promise!Write
<1>5. CASE Ends
  BY <1>5 DEF Ends, Promise!Next, Promise!Finish
<1>6. CASE Rests
  BY <1>6 DEF Rests, Promise!Next, Promise!Rest
<1>7. CASE Clears
  BY <1>7 DEF Clears, Promise!Next, Promise!Clear
<1> QED
  BY <1>2, <1>3, <1>4, <1>5, <1>6, <1>7

(* Each action of the engine is one of these moves.                        *)
LEMMA EngineMoves ==
    ASSUME TypeOK, Inductive, Inductive', CleanSlate, [Next]_vars, Undisturbed
    PROVE  Unseen \/ Begins \/ Writes \/ Ends \/ Rests \/ Clears
<1> USE DEF CleanSlate, Inductive, Shape, SyncPhase, SyncRunning, Writing, Goto, inputs, frame, world
<1>1. CASE BeginSync \/ BeginDrift \/ BeginRollback
  BY <1>1 DEF BeginSync, BeginDrift, BeginRollback, BeginOperation, Unseen
<1>2. CASE ReadPolicy
  BY <1>2 DEF ReadPolicy, Unseen
<1>3. CASE ReadProtected
  BY <1>3 DEF ReadProtected, AtomicReplacement, Unseen, Begins
<1>4. CASE Read4
  BY <1>4, WantedStable DEF Read4, ReadFailed, Unseen
<1>5. CASE Read6
  <2> DEFINE all == seen \cup (kernel.set \ V4)
  <2>1. Wanted' = Wanted /\ UNCHANGED <<kernel, config, recorded, before>> /\ pc = "read6"
    BY <1>5, WantedStable DEF Read6
  <2>2. ReadFailed \/ ReadSucceeded(all)
    BY <1>5 DEF Read6
  <2> HIDE DEF all
  <2>3. CASE ReadFailed
    BY <2>1, <2>3 DEF ReadFailed, Unseen
  <2>4. CASE ReadSucceeded(all)
    <3>1. CASE pc' = "raised"
      BY <2>1, <2>4, <3>1 DEF ReadSucceeded, FailedSyncIsAccountedFor, Ends, Unseen
    <3>2. CASE pc' # "raised"
      BY <2>1, <2>4, <3>2 DEF ReadSucceeded, Unseen
    <3> QED
      BY <3>1, <3>2
  <2> QED
    BY <2>2, <2>3, <2>4
<1>6. CASE Apply
  <2>1. /\ UNCHANGED <<purpose, before, requested, protected, recorded, config>>
        /\ pc \in {"apply"} \cup Writing
        /\ pc' \in Writing \cup {"failed", "recordRecovery", "recordSync", "read4"}
    BY <1>6 DEF Apply, StartApply, CheckScript, ListTable, CreateTable, CheckUpgrade, UpgradeTable,
                CheckUpdate, UpdateSets, Transaction, ApplyFails
  <2>2. Wanted' = Wanted
    BY <2>1, WantedStable
  <2> QED
    BY <2>1, <2>2 DEF AtomicReplacement, Writes
<1>7. CASE HandleFailure \/ RecordRecovery
  <2>1. /\ UNCHANGED <<kernel, config, before, requested, protected>> /\ SyncRunning /\ SyncRunning'
        /\ pc \in {"failed", "recordRecovery"} /\ pc' \in {"raised", "read4", "recordRecovery"}
    BY <1>7 DEF HandleFailure, RecordRecovery, Record
  <2>2. Wanted' = Wanted
    BY <2>1, WantedStable
  <2>3. CASE pc' = "raised"
    BY <2>1, <2>3 DEF FailedSyncIsAccountedFor, Ends
  <2>4. CASE pc' # "raised"
    BY <2>1, <2>2, <2>4 DEF Unseen
  <2> QED
    BY <2>3, <2>4
<1>8. CASE RecordSync
  <2>1. /\ UNCHANGED <<kernel, config, purpose>> /\ pc = "recordSync" /\ purpose = "verify"
        /\ \/ pc' = "returned"
           \/ pc' = "raised" /\ "lost" \in recorded'
    BY <1>8 DEF RecordSync, Record
  <2> QED
    BY <2>1 DEF SyncMeansInstalled, Installing, Ends
<1>9. CASE RecordDrift \/ RecordRollback
  BY <1>9 DEF RecordDrift, RecordRollback, Record, Unseen
<1>10. CASE CheckFlush
  BY <1>10 DEF CheckFlush, Unseen
<1>11. CASE FlushSets
  BY <1>11 DEF FlushSets, Unseen, Clears, TypeOK, Kernel
<1>12. CASE Return \/ Exit \/ Crash
  BY <1>12 DEF Return, Exit, Crash, EndOperation, Unseen, Ends, Rests
<1>13. CASE Start
  BY <1>13 DEF Start, Unseen
<1>14. CASE EditPolicy \/ ChangeHost \/ SwitchForwarding
  BY <1>14, WantedStable DEF EditPolicy, ChangeHost, SwitchForwarding, process, Installing, Unseen
<1>15. CASE EditKernel
  BY <1>15 DEF EditKernel, Fails, Undisturbed
<1>16. CASE UNCHANGED vars
  BY <1>16, WantedStable DEF vars, Installing, Unseen
<1> QED
  BY <1>1, <1>2, <1>3, <1>4, <1>5, <1>6, <1>7, <1>8, <1>9, <1>10, <1>11, <1>12, <1>13, <1>14,
     <1>15, <1>16 DEF Next, Engine, Environment

(* With nobody else writing the table, whoever watches only its set and    *)
(* the ends of syncs sees what FirewallPromise allows: no set but the old, *)
(* the wanted or both, and no claim that is not true (sync of engine.py).  *)
THEOREM EngineImplementsPromise ==
    ASSUME Undisturbed
    PROVE  Spec => KeepsPromise
<1>1. Init => Promise!Init /\ CleanSlate
  BY DEF Init, Kernel, Promise!Init, SyncPhase, SyncRunning, CleanSlate
<1>2. /\ TypeOK /\ TypeOK' /\ Inductive /\ Inductive' /\ CleanSlate /\ [Next]_vars
      => [Promise!Next]_(Promise!vars)
  BY EngineMoves, PromisedMoves
<1> QED
  BY <1>1, <1>2, CleanSlateStep, InductiveInvariant, PTL DEF Spec, KeepsPromise, Promise!Spec
=============================================================================
