--------------------------- MODULE DiscoveryProofs ---------------------------
(***************************************************************************)
(* Proofs about Discovery, for every set of cards, addresses and           *)
(* interfaces, every answer of the sources, and any number of scans and of *)
(* writes by other sessions.  First, that a scan happens whole or not at   *)
(* all; then what a report accounts for, which absences it proves, and     *)
(* what the page shows of it.                                              *)
(***************************************************************************)
EXTENDS Discovery, ScanReportProofs, SequenceTheorems, TLAPS

(* The places in the code before the service is busy committing, and those *)
(* behind the first write.                                                 *)
Before == {"queued"} \cup Checkpoints
Behind == {"aliases", "resolve", "overlay"}
Resting == {"none", "ended"}

(* As much of the types as the proof needs.                                *)
Form ==
    /\ DOMAIN scan = DOMAIN NoScan
    /\ DOMAIN heard = DOMAIN Silence
    /\ scan.pc \in Resting \cup Before \cup {"persist", "conclude"} \cup Behind
    /\ scan.outcome \in {"none", "done", "cancelled", "error"}
    /\ scan.written \in BOOLEAN
    /\ heard.doomed \in BOOLEAN
    /\ running \in BOOLEAN
    /\ cancelled \in BOOLEAN

(* The page says running for as long as it has a task, and the service's   *)
(* flags are in step with that task: it never asks a busy service, and     *)
(* probing has ended where writing begins.                                 *)
InStep ==
    /\ scan.pc # "none" => running
    /\ scan.pc \in Resting \cup {"queued"} => service = "idle"
    /\ scan.pc \in Checkpoints => service = "probing"
    /\ scan.pc \in {"persist"} \cup Behind => service = "committing"

(* Written is what lies behind the first write, and the outcome is decided *)
(* only when the scan concludes, in accordance with it.                    *)
Accounted ==
    /\ scan.pc \in Before \cup {"persist"} => ~scan.written /\ scan.outcome = "none"
    /\ scan.pc \in Behind => scan.written /\ scan.outcome = "none"
    /\ scan.pc = "conclude" =>
          \/ scan.outcome = "cancelled" /\ ~scan.written
          \/ scan.outcome = "done" /\ scan.written
          \/ scan.outcome = "error"

(* A cancel that came in time is still to be seen, or was.                 *)
DoomedIsSeen ==
    heard.doomed /\ scan.pc \notin Resting =>
        \/ scan.pc \in Before /\ cancelled
        \/ scan.pc = "conclude" /\ scan.outcome = "cancelled"

Inductive == Form /\ InStep /\ Accounted /\ DoomedIsSeen

(* The service starts idle, with no scan to account for.                   *)
LEMMA InductiveInit == Init => Inductive
<1> SUFFICES ASSUME Init PROVE Inductive
  OBVIOUS
<1>1. /\ scan = NoScan /\ heard = Silence /\ service = "idle"
      /\ running = FALSE /\ cancelled = FALSE
  BY DEF Init
<1>2. scan.pc = "none" /\ scan.outcome = "none" /\ scan.written = FALSE /\ heard.doomed = FALSE
  BY <1>1 DEF NoScan, Silence
<1>3. Form
  BY <1>1, <1>2 DEF Form, Resting
<1> QED
  BY <1>1, <1>2, <1>3
     DEF Inductive, InStep, Accounted, DoomedIsSeen, Before, Behind, Resting, Checkpoints

(* Every step keeps the task, the service and the page in step.            *)
LEMMA InductiveStep == Inductive /\ [Next]_vars => Inductive'
<1> SUFFICES ASSUME Inductive, [Next]_vars PROVE Inductive'
  OBVIOUS
<1> USE DEF Inductive, Form, InStep, Accounted, DoomedIsSeen, NoScan, Silence, Before, Behind,
        Resting, Checkpoints, page
<1>1. ASSUME NEW mode \in AllModes, NEW auto \in AutoRegister, StartScan(mode, auto)
      PROVE  Inductive'
  BY <1>1 DEF StartScan
<1>2. CASE CancelScan
  BY <1>2 DEF CancelScan, Cancelling, Undecided
<1>3. CASE CloseWindow
  BY <1>3 DEF CloseWindow, Cancelling, Undecided
<1>4. CASE Deliver
  BY <1>4 DEF Deliver
<1>5. CASE Acquire
  BY <1>5 DEF Acquire
<1>6. CASE Abandon
  BY <1>6 DEF Abandon, Probing
<1>7. CASE AskNeighbours
  <2>1. scan.pc = "neighbours" /\ ~cancelled
        /\ UNCHANGED <<running, cancelled, service>>
    BY <1>7 DEF AskNeighbours, Proceeds, Probing
  <2>2. /\ DOMAIN scan' = DOMAIN scan /\ scan'.pc \in {"enrichment", "subnet"}
        /\ scan'.outcome = scan.outcome /\ scan'.written = scan.written
    BY <1>7 DEF AskNeighbours, Fails
  <2>3. DOMAIN heard' = DOMAIN heard /\ heard'.doomed = heard.doomed
    BY <1>7 DEF AskNeighbours, Fails, Answers
  <2> QED
    BY <2>1, <2>2, <2>3
<1>8. CASE AskSubnet
  BY <1>8 DEF AskSubnet, Proceeds, Probing, Answers, Fails
<1>9. CASE Sweep
  BY <1>9 DEF Sweep, Proceeds, Probing, Fails
<1>10. CASE Inventory
  BY <1>10 DEF Inventory, Proceeds, Probing, Answers, Fails
<1>11. CASE Enrich
  BY <1>11 DEF Enrich, Proceeds, Probing
<1>12. CASE Report
  BY <1>12 DEF Report, Proceeds, Probing
<1>13. CASE BeginCommit
  BY <1>13 DEF BeginCommit
<1>14. CASE Raise
  BY <1>14 DEF Raise
<1>15. CASE Persist
  BY <1>15 DEF Persist
<1>16. CASE ReadAliases
  BY <1>16 DEF ReadAliases, Committed
<1>17. CASE Resolve
  BY <1>17 DEF Resolve, Committed
<1>18. CASE ReadDevices
  BY <1>18 DEF ReadDevices
<1>19. CASE Conclude
  BY <1>19 DEF Conclude
<1>20. ASSUME Writing PROVE Inductive'
  BY <1>20 DEF Writing
<1>21. CASE UNCHANGED vars
  BY <1>21 DEF vars
<1> QED
  BY <1>1, <1>2, <1>3, <1>4, <1>5, <1>6, <1>7, <1>8, <1>9, <1>10, <1>11, <1>12, <1>13, <1>14,
     <1>15, <1>16, <1>17, <1>18, <1>19, <1>20, <1>21
     DEF Next, Work, LiveWrites, UserMerges, UserSplits

(* Nothing runs at first, and nothing is promised yet.                     *)
LEMMA PromiseInit == Init => Promise!Init
BY DEF Init, NoScan, Promise!Init, Phase, Outcome

(* Every step of the scan is a step of the promise, or one it does not see. *)
LEMMA PromiseStep == Inductive /\ [Next]_vars => [Promise!Next]_(Promise!vars)
<1> SUFFICES ASSUME Inductive, [Next]_vars
             PROVE  Promise!Next \/ UNCHANGED Promise!vars
  OBVIOUS
<1> USE DEF Inductive, Form, InStep, Accounted, DoomedIsSeen, NoScan, Silence, Before, Behind,
        Resting, Checkpoints, page, Phase, Outcome, Promise!vars
(* Where only the place in the code moves, before the first write and      *)
(* without a look at the cancel button.                                    *)
<1>a. ASSUME scan.pc \in Before \cup {"persist"}, scan'.pc \in Before \cup {"persist", "conclude"},
             scan'.written = scan.written, heard'.doomed = heard.doomed, UNCHANGED <<view, folded>>
      PROVE  UNCHANGED Promise!vars
  BY <1>a
<1>1. ASSUME NEW mode \in AllModes, NEW auto \in AutoRegister, StartScan(mode, auto)
      PROVE  Promise!Begin
  BY <1>1 DEF StartScan, Promise!Begin
<1>2. CASE CancelScan
  <2>1. CASE scan.pc \in Before
    BY <1>2, <2>1 DEF CancelScan, Cancelling, Undecided, Promise!Next, Promise!AcceptCancel
  <2>2. CASE scan.pc \notin Before
    BY <1>2, <2>2 DEF CancelScan, Cancelling, Undecided
  <2> QED
    BY <2>1, <2>2
<1>3. CASE CloseWindow
  <2>1. CASE scan.pc = "queued"
    BY <1>3, <2>1 DEF CloseWindow, Cancelling, Undecided, Promise!Next, Promise!End
  <2>2. CASE scan.pc \in Checkpoints
    BY <1>3, <2>2 DEF CloseWindow, Cancelling, Undecided, Promise!Next, Promise!AcceptCancel
  <2>3. CASE scan.pc \notin Before
    BY <1>3, <2>3 DEF CloseWindow, Cancelling, Undecided
  <2> QED
    BY <2>1, <2>2, <2>3
<1>4. CASE Deliver
  BY <1>4 DEF Deliver
<1>5. CASE Acquire
  BY <1>5, <1>a DEF Acquire
<1>6. CASE Abandon
  BY <1>6, <1>a DEF Abandon, Probing
<1>7. CASE AskNeighbours
  <2>1. scan.pc = "neighbours" /\ UNCHANGED <<view, folded>>
    BY <1>7 DEF AskNeighbours, Proceeds, Probing
  <2>2. /\ scan'.pc \in {"enrichment", "subnet"}
        /\ scan'.written = scan.written
    BY <1>7 DEF AskNeighbours, Fails
  <2>3. heard'.doomed = heard.doomed
    BY <1>7 DEF AskNeighbours, Fails, Answers
  <2> QED
    BY <2>1, <2>2, <2>3, <1>a
<1>8. CASE AskSubnet
  BY <1>8, <1>a DEF AskSubnet, Proceeds, Probing, Answers, Fails
<1>9. CASE Sweep
  BY <1>9, <1>a DEF Sweep, Proceeds, Probing, Fails
<1>10. CASE Inventory
  BY <1>10, <1>a DEF Inventory, Proceeds, Probing, Answers, Fails
<1>11. CASE Enrich
  BY <1>11, <1>a DEF Enrich, Proceeds, Probing
<1>12. CASE Report
  BY <1>12, <1>a DEF Report, Proceeds, Probing
<1>13. CASE BeginCommit
  BY <1>13, <1>a DEF BeginCommit
<1>14. CASE Raise
  BY <1>14 DEF Raise
<1>15. CASE Persist
  BY <1>15 DEF Persist, Promise!Next, Promise!Write
<1>16. CASE ReadAliases
  BY <1>16 DEF ReadAliases, Committed, Promise!Next, Promise!Adopt
<1>17. CASE Resolve
  BY <1>17 DEF Resolve, Committed, Promise!Next, Promise!Adopt
<1>18. CASE ReadDevices
  BY <1>18 DEF ReadDevices, Promise!Next, Promise!Adopt
<1>19. CASE Conclude
  BY <1>19 DEF Conclude, Promise!Next, Promise!End
<1>20. ASSUME Writing PROVE UNCHANGED Promise!vars
  BY <1>20 DEF Writing
<1>21. CASE UNCHANGED vars
  BY <1>21 DEF vars
<1> QED
  BY <1>1, <1>2, <1>3, <1>4, <1>5, <1>6, <1>7, <1>8, <1>9, <1>10, <1>11, <1>12, <1>13, <1>14,
     <1>15, <1>16, <1>17, <1>18, <1>19, <1>20, <1>21
     DEF Next, Work, LiveWrites, UserMerges, UserSplits, Promise!Next

(* The invariant holds at every moment of every run.                       *)
LEMMA InductiveInvariant == Spec => []Inductive
BY InductiveInit, InductiveStep, PTL DEF Spec

(* A scan happens whole or not at all, whatever fails and whenever it is   *)
(* cancelled: a cancel that came before the commit leaves the devices and  *)
(* the identities as they were, a scan that has written never says that it *)
(* was cancelled (scan and cancel of the discovery service).               *)
THEOREM ScanIsAllOrNothing == Spec => KeepsScanPromise
<1>1. Init => Promise!Init
  BY PromiseInit
<1>2. Inductive /\ [Next]_vars => [Promise!Next]_(Promise!vars)
  BY PromiseStep
<1> QED
  BY <1>1, <1>2, InductiveInvariant, PTL DEF Spec, KeepsScanPromise, Promise!Spec
-----------------------------------------------------------------------------
(* The types of everything.                                                *)
Typed ==
    /\ scan \in Scan
    /\ closed \in BOOLEAN /\ service \in {"idle", "probing", "committing"}
    /\ store \in [Mac -> Known] /\ view \in [Mac -> Known]
    /\ alias \in [Mac -> Mac \cup {NoMac}] /\ folded \in [Mac -> Mac \cup {NoMac}]
    /\ heard.answered \subseteq {"passive", "active", "deep"}
    /\ spent \in [scans : 0 .. Len(Modes), writes : 0 .. Writes]

(* The service starts with an empty scan and the devices of the table.     *)
LEMMA TypedInit == Init => Typed
<1> SUFFICES ASSUME Init PROVE Typed
  OBVIOUS
<1>1. Len(Modes) \in Nat /\ Writes \in Nat
  BY DiscoveryAssumption
<1>2. scan \in Scan
  <2>1. NoScan.hosts = << >> /\ << >> \in Seq(Host)
    BY DEF NoScan
  <2>2. NoScan \in Scan
    BY <2>1 DEF NoScan, Scan, AllModes
  <2> QED
    BY <2>2 DEF Init
<1>3. heard.answered = {}
  BY DEF Init, Silence
<1>4. spent \in [scans : 0 .. Len(Modes), writes : 0 .. Writes]
  BY <1>1 DEF Init
<1>5. folded \in [Mac -> Mac \cup {NoMac}] /\ alias \in [Mac -> Mac \cup {NoMac}]
  BY DEF Init
<1>6. store \in [Mac -> Known] /\ view \in [Mac -> Known]
  BY DEF Init
<1>7. closed \in BOOLEAN /\ service = "idle"
  BY DEF Init
<1> QED
  BY <1>2, <1>3, <1>4, <1>5, <1>6, <1>7 DEF Typed

(* What the stages make of the answers are hosts.                          *)
LEMMA ReportsAreHosts ==
    ASSUME NEW hosts \in Seq(Host)
    PROVE  /\ \A said \in PassiveAnswers : Merge(Dedupe(said)) \in Seq(Host)
           /\ \A said \in ActiveAnswers : Merge(hosts \o Dedupe(said)) \in Seq(Host)
           /\ \A said \in DeepAnswers : Overlay(hosts, said) \in Seq(Host)
<1>1. /\ \A said \in PassiveAnswers : Dedupe(said) \in Seq(Host)
      /\ \A said \in ActiveAnswers : Dedupe(said) \in Seq(Host)
  BY DedupeKeeps, DiscoveryAssumption
<1>2. \A said \in ActiveAnswers : hosts \o Dedupe(said) \in Seq(Host)
  BY <1>1
<1>3. \A said \in DeepAnswers : said \in Seq(UpHost)
  BY DiscoveryAssumption
<1> QED
  BY <1>1, <1>2, <1>3, MergeKeeps, OverlayKeeps

(* A stage moves the scan on and may change its hosts or their             *)
(* completeness.                                                           *)
LEMMA ScanMoves ==
    ASSUME NEW s \in Scan, NEW b \in BOOLEAN, NEW hosts \in Seq(Host),
           NEW pc \in {"subnet", "sweep", "inventory", "enrichment"}
    PROVE  /\ [s EXCEPT !.pc = pc] \in Scan
           /\ [s EXCEPT !.pc = pc, !.complete = b] \in Scan
           /\ [s EXCEPT !.pc = pc, !.hosts = hosts] \in Scan
           /\ [s EXCEPT !.pc = pc, !.hosts = hosts, !.complete = b] \in Scan
BY DEF Scan, Checkpoints

(* An answer adds to what was heard and takes nothing away.                *)
LEMMA AnswersTyped ==
    ASSUME DOMAIN heard = DOMAIN Silence, heard.answered \subseteq {"passive", "active", "deep"},
           NEW source \in {"passive", "active", "deep"}, NEW said, Answers(source, said)
    PROVE  /\ heard'.answered = heard.answered \cup {source}
           /\ heard'.answered \subseteq {"passive", "active", "deep"}
           /\ heard'.claims = heard.claims \cup {Claim(source, said[i]) : i \in DOMAIN said}
BY DEF Answers, Silence

(* No step leaves the types.                                               *)
LEMMA TypedStep == Inductive /\ Typed /\ [Next]_vars => Typed'
<1> SUFFICES ASSUME Inductive, Typed, [Next]_vars PROVE Typed'
  OBVIOUS
<1> USE DEF Typed, Scan, page, Checkpoints
<1>0. /\ Len(Modes) \in Nat /\ Writes \in Nat /\ AutoRegister \subseteq BOOLEAN
      /\ << >> \in Seq(Host)
  BY DiscoveryAssumption
<1>25. heard.answered \subseteq {"passive", "active", "deep"} /\ DOMAIN heard = DOMAIN Silence
  BY DEF Inductive, Form
<1>1. ASSUME NEW mode \in AllModes, NEW auto \in AutoRegister, StartScan(mode, auto)
      PROVE  Typed'
  <2>1. scan' \in Scan
    BY <1>0, <1>1 DEF StartScan, NoScan
  <2>2. spent' \in [scans : 0 .. Len(Modes), writes : 0 .. Writes]
    BY <1>0, <1>1 DEF StartScan
  <2>3. heard'.answered = {}
    BY <1>1 DEF StartScan, Silence
  <2>4. UNCHANGED <<closed, service, store, alias, view, folded>>
    BY <1>1 DEF StartScan
  <2> QED
    BY <2>1, <2>2, <2>3, <2>4
<1>2. CASE CancelScan
  BY <1>2, <1>25 DEF CancelScan, Cancelling, Silence
<1>3. CASE CloseWindow
  <2>1. scan' \in Scan
    BY <1>0, <1>3 DEF CloseWindow, NoScan, AllModes
  <2> QED
    BY <1>3, <1>25, <2>1 DEF CloseWindow, Cancelling, Silence
<1>4. CASE Deliver
  <2>1. scan' \in Scan
    BY <1>0, <1>4 DEF Deliver, NoScan, AllModes
  <2> QED
    BY <1>4, <2>1 DEF Deliver
<1>5. CASE Acquire
  <2>1. /\ scan' \in {[scan EXCEPT !.pc = "neighbours"], [scan EXCEPT !.pc = "ended", !.outcome = "error"]}
        /\ service' \in {service, "probing"}
        /\ UNCHANGED <<closed, heard, store, alias, view, folded, spent>>
    BY <1>5 DEF Acquire
  <2>2. /\ [scan EXCEPT !.pc = "neighbours"] \in Scan
        /\ [scan EXCEPT !.pc = "ended", !.outcome = "error"] \in Scan
    OBVIOUS
  <2>3. scan' \in Scan
    <3> HIDE DEF Scan
    <3> QED
      BY <2>1, <2>2
  <2>4. service' \in {"idle", "probing", "committing"} /\ UNCHANGED <<closed, heard, store, alias, view, folded, spent>>
    BY <2>1
  <2> QED
    BY <2>3, <2>4
<1>6. CASE Abandon
  BY <1>0, <1>6 DEF Abandon, Probing
<1>7. CASE AskNeighbours
  <2> DEFINE next == IF scan.mode = "passive" THEN "enrichment" ELSE "subnet"
  <2>1. next \in {"subnet", "sweep", "inventory", "enrichment"} /\ scan \in Scan /\ scan.mode \in AllModes
    OBVIOUS
  <2>2. \/ scan' = [scan EXCEPT !.pc = next] /\ UNCHANGED heard
        \/ \E said \in PassiveAnswers :
              Answers("passive", said) /\ scan' = [scan EXCEPT !.pc = next, !.hosts = Merge(Dedupe(said))]
        \/ scan' = [scan EXCEPT !.pc = next, !.complete = FALSE] /\ UNCHANGED heard
    BY <1>7 DEF AskNeighbours, Fails
  <2> HIDE DEF next, Scan
  <2>3. scan' \in Scan
    <3>1. ASSUME NEW said \in PassiveAnswers
          PROVE  [scan EXCEPT !.pc = next, !.hosts = Merge(Dedupe(said))] \in Scan
      <4>1. Merge(Dedupe(said)) \in Seq(Host)
        BY <1>0, ReportsAreHosts
      <4> QED
        BY <2>1, <4>1, ScanMoves
    <3>2. [scan EXCEPT !.pc = next] \in Scan /\ [scan EXCEPT !.pc = next, !.complete = FALSE] \in Scan
      BY <1>0, <2>1, ScanMoves
    <3> QED
      BY <2>2, <3>1, <3>2
  <2>4. heard'.answered \subseteq {"passive", "active", "deep"}
    BY <1>25, <2>2, AnswersTyped
  <2> QED
    BY <1>7, <2>3, <2>4 DEF AskNeighbours, Proceeds, Probing
<1>8. CASE AskSubnet
  <2> DEFINE next == IF scan.mode = "deep" THEN "sweep" ELSE "enrichment"
  <2>1. next \in {"subnet", "sweep", "inventory", "enrichment"} /\ scan \in Scan
        /\ scan.hosts \in Seq(Host)
    OBVIOUS
  <2>2. \/ \E said \in ActiveAnswers :
              /\ Answers("active", said)
              /\ scan' = [scan EXCEPT !.pc = next, !.hosts = Merge(scan.hosts \o Dedupe(said))]
        \/ scan' = [scan EXCEPT !.pc = next, !.complete = FALSE] /\ UNCHANGED heard
        \/ scan' = [scan EXCEPT !.pc = "enrichment", !.complete = FALSE] /\ UNCHANGED heard
    BY <1>8 DEF AskSubnet, Fails
  <2> HIDE DEF next, Scan
  <2>3. scan' \in Scan
    <3>1. ASSUME NEW said \in ActiveAnswers
          PROVE  [scan EXCEPT !.pc = next, !.hosts = Merge(scan.hosts \o Dedupe(said))] \in Scan
      <4>1. Merge(scan.hosts \o Dedupe(said)) \in Seq(Host)
        BY <2>1, ReportsAreHosts
      <4> QED
        BY <2>1, <4>1, ScanMoves
    <3>2. /\ [scan EXCEPT !.pc = next, !.complete = FALSE] \in Scan
          /\ [scan EXCEPT !.pc = "enrichment", !.complete = FALSE] \in Scan
      BY <2>1, ScanMoves
    <3> QED
      BY <2>2, <3>1, <3>2
  <2>4. heard'.answered \subseteq {"passive", "active", "deep"}
    BY <1>25, <2>2, AnswersTyped
  <2> QED
    BY <1>8, <2>3, <2>4 DEF AskSubnet, Proceeds, Probing
<1>9. CASE Sweep
  BY <1>9 DEF Sweep, Proceeds, Probing, Fails
<1>10. CASE Inventory
  <2>1. scan \in Scan /\ scan.hosts \in Seq(Host) /\ scan.complete \in BOOLEAN
    OBVIOUS
  <2>2. \/ \E said \in DeepAnswers, warned \in BOOLEAN :
              /\ Answers("deep", said)
              /\ scan' = [scan EXCEPT !.pc = "enrichment", !.hosts = Overlay(scan.hosts, said),
                                      !.complete = scan.complete /\ ~warned]
        \/ scan' = [scan EXCEPT !.pc = "enrichment", !.complete = FALSE] /\ UNCHANGED heard
    BY <1>10 DEF Inventory, Fails
  <2> HIDE DEF Scan
  <2>3. scan' \in Scan
    <3>1. ASSUME NEW said \in DeepAnswers, NEW warned \in BOOLEAN
          PROVE  [scan EXCEPT !.pc = "enrichment", !.hosts = Overlay(scan.hosts, said),
                              !.complete = scan.complete /\ ~warned] \in Scan
      <4>1. (scan.complete /\ ~warned) \in BOOLEAN /\ Overlay(scan.hosts, said) \in Seq(Host)
        BY <2>1, ReportsAreHosts
      <4> QED
        BY <2>1, <4>1, ScanMoves
    <3> QED
      BY <2>1, <2>2, <3>1, ScanMoves
  <2>4. heard'.answered \subseteq {"passive", "active", "deep"}
    BY <1>25, <2>2, AnswersTyped
  <2> QED
    BY <1>10, <2>3, <2>4 DEF Inventory, Proceeds, Probing
<1>11. CASE Enrich
  BY <1>11 DEF Enrich, Proceeds, Probing
<1>12. CASE Report
  BY <1>12 DEF Report, Proceeds, Probing
<1>13. CASE BeginCommit
  BY <1>13 DEF BeginCommit
<1>14. CASE Raise
  BY <1>14 DEF Raise
<1>15. CASE Persist
  <2>1. store' \in [Mac -> Known]
    BY <1>15 DEF Persist, Known
  <2>2. scan' \in Scan
    BY <1>15 DEF Persist
  <2> QED
    BY <1>15, <2>1, <2>2 DEF Persist
<1>16. CASE ReadAliases
  <2>1. view' \in [Mac -> Known]
    BY <1>16 DEF ReadAliases, Known
  <2>2. scan' \in Scan
    BY <1>16 DEF ReadAliases, Committed
  <2> QED
    BY <1>16, <2>1, <2>2 DEF ReadAliases, Committed
<1>17. CASE Resolve
  <2>1. view' \in [Mac -> Known]
    BY <1>17 DEF Resolve, Known
  <2>2. scan' \in Scan
    BY <1>17 DEF Resolve, Committed
  <2> QED
    BY <1>17, <2>1, <2>2 DEF Resolve, Committed
<1>18. CASE ReadDevices
  <2>1. view' \in [Mac -> Known]
    BY <1>18 DEF ReadDevices, Known
  <2>2. scan' \in Scan
    BY <1>18 DEF ReadDevices
  <2> QED
    BY <1>18, <2>1, <2>2 DEF ReadDevices
<1>19. CASE Conclude
  BY <1>19 DEF Conclude
<1>20. ASSUME Writing
       PROVE  /\ scan' \in Scan
              /\ UNCHANGED <<closed, service, view, folded, heard>>
              /\ spent' \in [scans : 0 .. Len(Modes), writes : 0 .. Writes]
  <2>1. scan' \in Scan
    BY <1>20 DEF Writing
  <2>2. spent' \in [scans : 0 .. Len(Modes), writes : 0 .. Writes]
    <3>1. spent'.writes = spent.writes + 1 /\ spent.writes < Writes /\ spent.writes \in 0 .. Writes
      BY <1>20 DEF Writing
    <3>2. spent' = [spent EXCEPT !.writes = spent'.writes]
      BY <1>20 DEF Writing
    <3>3. spent'.writes \in 0 .. Writes
      BY <1>0, <3>1
    <3> DEFINE w == spent'.writes
    <3> HIDE DEF w
    <3>4. spent' = [spent EXCEPT !.writes = w] /\ w \in 0 .. Writes
      BY <3>2, <3>3 DEF w
    <3> QED
      BY <3>4
  <2>3. UNCHANGED <<closed, service, view, folded, heard>>
    BY <1>20 DEF Writing
  <2> QED
    BY <2>1, <2>2, <2>3
<1>21. ASSUME NEW m \in Mac, LiveWrites(m)
       PROVE  Typed'
  <2>1. store' \in [Mac -> Known] /\ alias' = alias
    BY <1>21 DEF LiveWrites, Known
  <2> QED
    BY <1>20, <1>21, <2>1 DEF LiveWrites
<1>22. ASSUME NEW m \in Mac, UserSplits(m)
       PROVE  Typed'
  <2>1. store' \in [Mac -> Known] /\ alias' \in [Mac -> Mac \cup {NoMac}]
    BY <1>22 DEF UserSplits, Known
  <2> QED
    BY <1>20, <1>22, <2>1 DEF UserSplits
<1>23. ASSUME NEW retained \in Mac, NEW candidate \in Mac, UserMerges(retained, candidate)
       PROVE  Typed'
  <2>1. store' \in [Mac -> Known] /\ alias' \in [Mac -> Mac \cup {NoMac}]
    BY <1>23 DEF UserMerges, Known
  <2> QED
    BY <1>20, <1>23, <2>1 DEF UserMerges
<1>24. CASE UNCHANGED vars
  BY <1>24 DEF vars
<1> QED
  BY <1>1, <1>2, <1>3, <1>4, <1>5, <1>6, <1>7, <1>8, <1>9, <1>10, <1>11, <1>12, <1>13, <1>14,
     <1>15, <1>16, <1>17, <1>18, <1>19, <1>21, <1>22, <1>23, <1>24 DEF Next, Work
-----------------------------------------------------------------------------
(* A report accounts for the claims: every card that claimed an address    *)
(* and was not overruled is named, and nobody is confirmed who was not     *)
(* heard.                                                                  *)
Beaten(claims, c) ==
    \E d \in claims :
        /\ d.ip = c.ip
        /\ \/ d.source = "deep" /\ d.mac \notin {c.mac, NoMac}
           \/ /\ d.source = c.source /\ c.source # "deep" /\ d.interface = c.interface
              /\ d.mac # c.mac \/ (c.confirmed /\ ~d.confirmed)

Backed(claims, ip, mac) ==
    \E c \in claims :
        c.confirmed /\ c.ip = ip /\ (c.mac = mac \/ (c.source = "deep" /\ c.mac = NoMac))

Accounts(claims, hosts) ==
    /\ \A c \in claims : c.mac # NoMac /\ ~Beaten(claims, c) => Names(hosts, c.ip, c.mac, c.confirmed)
    /\ \A i \in DOMAIN hosts : hosts[i].confirmed => Backed(claims, hosts[i].ip, hosts[i].mac)

(* What is in two sequences is in their concatenation, and nothing else.   *)
LEMMA Joins ==
    ASSUME NEW s \in Seq(Host), NEW t \in Seq(Host)
    PROVE  /\ s \o t \in Seq(Host)
           /\ \A i \in DOMAIN s : \E k \in DOMAIN (s \o t) : (s \o t)[k] = s[i]
           /\ \A i \in DOMAIN t : \E k \in DOMAIN (s \o t) : (s \o t)[k] = t[i]
           /\ \A k \in DOMAIN (s \o t) : \/ \E i \in DOMAIN s : (s \o t)[k] = s[i]
                                         \/ \E i \in DOMAIN t : (s \o t)[k] = t[i]
<1> DEFINE m == Len(s)
           n == Len(t)
           u == s \o t
<1>1. m \in Nat /\ n \in Nat /\ DOMAIN s = 1 .. m /\ DOMAIN t = 1 .. n
  OBVIOUS
<1>2. u \in Seq(Host) /\ Len(u) = m + n /\ DOMAIN u = 1 .. m + n
  OBVIOUS
<1>3. \A k \in 1 .. m + n : u[k] = IF k <= m THEN s[k] ELSE t[k - m]
  OBVIOUS
<1> HIDE DEF u, m, n
<1>4. ASSUME NEW i \in 1 .. m PROVE \E k \in 1 .. m + n : u[k] = s[i]
  <2>1. i \in 1 .. m + n /\ i <= m
    BY <1>1
  <2> QED
    BY <1>3, <2>1
<1>5. ASSUME NEW i \in 1 .. n PROVE \E k \in 1 .. m + n : u[k] = t[i]
  <2>1. i + m \in 1 .. m + n /\ ~(i + m <= m) /\ (i + m) - m = i
    BY <1>1
  <2>2. u[i + m] = t[i]
    BY <1>3, <2>1
  <2> QED
    BY <2>1, <2>2
<1>6. ASSUME NEW k \in 1 .. m + n
      PROVE  (\E i \in 1 .. m : u[k] = s[i]) \/ (\E i \in 1 .. n : u[k] = t[i])
  <2>1. CASE k <= m
    BY <1>1, <1>3, <2>1
  <2>2. CASE ~(k <= m)
    <3>1. k - m \in 1 .. n
      BY <1>1, <2>2
    <3> QED
      BY <1>3, <2>2, <3>1
  <2> QED
    BY <2>1, <2>2
<1> QED
  BY <1>1, <1>2, <1>4, <1>5, <1>6 DEF u

(* _merge_discovery, with the answers of one more source.                  *)
LEMMA SourceAccounts ==
    ASSUME NEW claims, NEW hosts \in Seq(Host), Accounts(claims, hosts),
           NEW source \in {"passive", "active"}, NEW said \in Seq(Host)
    PROVE  Accounts(claims \cup {Claim(source, said[i]) : i \in DOMAIN said},
                    Merge(hosts \o Dedupe(said)))
<1> DEFINE new == claims \cup {Claim(source, said[i]) : i \in DOMAIN said}
           distinct == Dedupe(said)
           all == hosts \o distinct
           report == Merge(all)
<1>1. /\ distinct \in Seq(Host)
      /\ \A i \in DOMAIN distinct : \E j \in DOMAIN said : distinct[i] = said[j]
      /\ \A j \in DOMAIN said : \E i \in DOMAIN distinct :
            distinct[i].ip = said[j].ip /\ distinct[i].interface = said[j].interface
  BY DedupeKeeps
<1> HIDE DEF distinct
<1>2. /\ all \in Seq(Host)
      /\ \A i \in DOMAIN hosts : \E k \in DOMAIN all : all[k] = hosts[i]
      /\ \A i \in DOMAIN distinct : \E k \in DOMAIN all : all[k] = distinct[i]
      /\ \A k \in DOMAIN all : \/ \E i \in DOMAIN hosts : all[k] = hosts[i]
                               \/ \E i \in DOMAIN distinct : all[k] = distinct[i]
  BY <1>1, Joins
<1> HIDE DEF all
<1>3. /\ \A i \in DOMAIN report : report[i].confirmed =>
            Names(all, report[i].ip, report[i].mac, TRUE)
      /\ \A k \in DOMAIN all : Names(report, all[k].ip, all[k].mac, all[k].confirmed)
  BY <1>2, MergeKeeps
<1> HIDE DEF report
<1>4. \A h : /\ Claim(source, h).ip = h.ip /\ Claim(source, h).mac = h.mac
             /\ Claim(source, h).interface = h.interface /\ Claim(source, h).source = source
             /\ Claim(source, h).confirmed = (source = "deep" \/ h.confirmed)
  BY DEF Claim
<1>5. claims \subseteq new /\ \A j \in DOMAIN said : Claim(source, said[j]) \in new
  OBVIOUS
<1>6. ASSUME NEW c \in new, c.mac # NoMac, ~Beaten(new, c)
      PROVE  Names(report, c.ip, c.mac, c.confirmed)
  <2>1. \E k \in DOMAIN all : /\ all[k].ip = c.ip /\ all[k].mac = c.mac
                              /\ c.confirmed => all[k].confirmed
    <3>1. CASE c \in claims
      <4>1. ~Beaten(claims, c)
        BY <1>5, <1>6 DEF Beaten
      <4>2. Names(hosts, c.ip, c.mac, c.confirmed)
        BY <1>6, <3>1, <4>1 DEF Accounts
      <4>3. PICK i \in DOMAIN hosts : /\ hosts[i].ip = c.ip /\ hosts[i].mac = c.mac
                                      /\ c.confirmed => hosts[i].confirmed
        BY <4>2 DEF Names
      <4> QED
        BY <1>2, <4>3
    <3>2. CASE c \notin claims
      <4>1. PICK j \in DOMAIN said : c = Claim(source, said[j])
        BY <3>2
      <4>2. PICK i \in DOMAIN distinct :
               distinct[i].ip = said[j].ip /\ distinct[i].interface = said[j].interface
        BY <1>1
      <4>3. PICK l \in DOMAIN said : distinct[i] = said[l]
        BY <1>1
      <4> DEFINE d == Claim(source, said[l])
      <4>4. d \in new /\ d.ip = c.ip /\ d.source = c.source /\ c.source # "deep" /\ d.interface = c.interface
        BY <1>4, <1>5, <4>1, <4>2, <4>3
      <4>5. d.mac = distinct[i].mac /\ (d.confirmed => distinct[i].confirmed)
        BY <1>4, <4>3
      <4> HIDE DEF d, new
      <4>6. d.mac = c.mac /\ (c.confirmed => d.confirmed)
        BY <1>6, <4>4 DEF Beaten
      <4>7. distinct[i].ip = c.ip /\ distinct[i].mac = c.mac /\ (c.confirmed => distinct[i].confirmed)
        BY <1>4, <4>1, <4>2, <4>5, <4>6
      <4> QED
        BY <1>2, <4>7
    <3> QED
      BY <3>1, <3>2
  <2>2. PICK k \in DOMAIN all : /\ all[k].ip = c.ip /\ all[k].mac = c.mac
                                /\ c.confirmed => all[k].confirmed
    BY <2>1
  <2>3. Names(report, all[k].ip, all[k].mac, all[k].confirmed)
    BY <1>3
  <2> QED
    BY <2>2, <2>3 DEF Names
<1>7. ASSUME NEW i \in DOMAIN report, report[i].confirmed
      PROVE  Backed(new, report[i].ip, report[i].mac)
  <2>1. PICK k \in DOMAIN all : /\ all[k].ip = report[i].ip /\ all[k].mac = report[i].mac
                                /\ all[k].confirmed
    BY <1>3, <1>7 DEF Names
  <2>2. CASE \E j \in DOMAIN hosts : all[k] = hosts[j]
    <3>1. Backed(claims, all[k].ip, all[k].mac)
      BY <2>1, <2>2 DEF Accounts
    <3> QED
      BY <1>5, <2>1, <3>1 DEF Backed
  <2>3. CASE \E j \in DOMAIN distinct : all[k] = distinct[j]
    <3>1. PICK l \in DOMAIN said : all[k] = said[l]
      BY <1>1, <2>3
    <3> DEFINE d == Claim(source, said[l])
    <3>2. d \in new /\ d.confirmed /\ d.ip = report[i].ip /\ d.mac = report[i].mac
      BY <1>4, <1>5, <2>1, <3>1
    <3> HIDE DEF d, new
    <3> QED
      BY <3>2 DEF Backed
  <2> QED
    BY <1>2, <2>2, <2>3
<1> HIDE DEF new
<1>8. Accounts(new, report)
  BY <1>6, <1>7 DEF Accounts
<1> QED
  BY <1>8 DEF new, report, all, distinct

(* _apply_deep_scan                                                        *)
LEMMA InventoryAccounts ==
    ASSUME NEW claims, NEW hosts \in Seq(Host), Accounts(claims, hosts),
           NEW said \in Seq(UpHost)
    PROVE  Accounts(claims \cup {Claim("deep", said[i]) : i \in DOMAIN said}, Overlay(hosts, said))
<1> DEFINE new == claims \cup {Claim("deep", said[i]) : i \in DOMAIN said}
           report == Overlay(hosts, said)
<1>1. /\ \A i \in DOMAIN report : report[i].confirmed =>
            \/ Names(hosts, report[i].ip, report[i].mac, TRUE)
            \/ \E j \in DOMAIN said : said[j].ip = report[i].ip /\ said[j].mac \in {report[i].mac, NoMac}
      /\ \A ip, mac, fresh : Names(hosts, ip, mac, fresh) =>
            Names(report, ip, mac, fresh) \/ Corrects(said, ip, mac)
      /\ \A j \in DOMAIN said : said[j].mac # NoMac =>
            Names(report, said[j].ip, said[j].mac, TRUE) \/ Corrects(said, said[j].ip, said[j].mac)
  BY OverlayKeeps
<1> HIDE DEF report
<1>2. \A h : /\ Claim("deep", h).ip = h.ip /\ Claim("deep", h).mac = h.mac
             /\ Claim("deep", h).source = "deep" /\ Claim("deep", h).confirmed = TRUE
  BY DEF Claim
<1>3. claims \subseteq new /\ \A j \in DOMAIN said : Claim("deep", said[j]) \in new
  OBVIOUS
<1>4. ASSUME NEW c, Corrects(said, c.ip, c.mac)
      PROVE  Beaten(new, c)
  <2>1. PICK j \in DOMAIN said : said[j].ip = c.ip /\ said[j].mac \notin {c.mac, NoMac}
    BY <1>4 DEF Corrects
  <2> DEFINE d == Claim("deep", said[j])
  <2>2. d \in new /\ d.ip = c.ip /\ d.source = "deep" /\ d.mac \notin {c.mac, NoMac}
    BY <1>2, <1>3, <2>1
  <2> HIDE DEF d, new
  <2> QED
    BY <2>2 DEF Beaten
<1>5. ASSUME NEW c \in new, c.mac # NoMac, ~Beaten(new, c)
      PROVE  Names(report, c.ip, c.mac, c.confirmed)
  <2>1. ~Corrects(said, c.ip, c.mac)
    BY <1>4, <1>5
  <2>2. CASE c \in claims
    <3>1. ~Beaten(claims, c)
      BY <1>3, <1>5 DEF Beaten
    <3>2. Names(hosts, c.ip, c.mac, c.confirmed)
      BY <1>5, <2>2, <3>1 DEF Accounts
    <3> QED
      BY <1>1, <2>1, <3>2
  <2>3. CASE c \notin claims
    <3>1. PICK j \in DOMAIN said : c = Claim("deep", said[j])
      BY <2>3
    <3>2. said[j].ip = c.ip /\ said[j].mac = c.mac /\ c.confirmed = TRUE
      BY <1>2, <3>1
    <3>3. Names(report, c.ip, c.mac, TRUE)
      BY <1>1, <1>5, <2>1, <3>2
    <3> QED
      BY <3>2, <3>3
  <2> QED
    BY <2>2, <2>3
<1>6. ASSUME NEW i \in DOMAIN report, report[i].confirmed
      PROVE  Backed(new, report[i].ip, report[i].mac)
  <2>1. CASE Names(hosts, report[i].ip, report[i].mac, TRUE)
    <3>1. PICK j \in DOMAIN hosts : /\ hosts[j].ip = report[i].ip /\ hosts[j].mac = report[i].mac
                                    /\ hosts[j].confirmed
      BY <2>1 DEF Names
    <3>2. Backed(claims, report[i].ip, report[i].mac)
      BY <3>1 DEF Accounts
    <3> QED
      BY <1>3, <3>2 DEF Backed
  <2>2. CASE \E j \in DOMAIN said : said[j].ip = report[i].ip /\ said[j].mac \in {report[i].mac, NoMac}
    <3>1. PICK j \in DOMAIN said : said[j].ip = report[i].ip /\ said[j].mac \in {report[i].mac, NoMac}
      BY <2>2
    <3> DEFINE d == Claim("deep", said[j])
    <3>2. /\ d \in new /\ d.ip = report[i].ip /\ d.source = "deep" /\ d.confirmed
          /\ d.mac \in {report[i].mac, NoMac}
      BY <1>2, <1>3, <3>1
    <3> HIDE DEF d, new
    <3> QED
      BY <3>2 DEF Backed
  <2> QED
    BY <1>1, <1>6, <2>1, <2>2
<1> HIDE DEF new
<1>7. Accounts(new, report)
  BY <1>5, <1>6 DEF Accounts
<1> QED
  BY <1>7 DEF new, report
-----------------------------------------------------------------------------
(* Until a scan is delivered its hosts account for what was heard, unless  *)
(* it was cancelled or has failed.                                         *)
Reported ==
    /\ scan.pc \in {"queued", "neighbours"} => scan.hosts = << >> /\ heard.claims = {}
    /\ scan.outcome \in {"none", "done"} /\ scan.pc # "none" => Accounts(heard.claims, scan.hosts)

(* What the mode asks of the sources was answered by the time that the     *)
(* code is past them, or the report is not complete.                       *)
Asked ==
    scan.complete =>
        /\ scan.pc = "subnet" =>
              scan.mode # "passive" /\ (scan.mode # "active" => "passive" \in heard.answered)
        /\ scan.pc \in {"sweep", "inventory"} =>
              scan.mode = "deep" /\ {"passive", "active"} \subseteq heard.answered
        /\ scan.pc \in {"enrichment", "complete", "boundary", "persist"} =>
              Requested(scan.mode) \subseteq heard.answered

(* Nothing heard, nothing to account for.                                  *)
LEMMA NothingAccounts == Accounts({}, << >>)
BY DEF Accounts

(* No scan has heard anything yet.                                         *)
LEMMA HeardInit == Init => Reported /\ Asked
BY DEF Init, NoScan, Reported, Asked

(* What each source says goes to the claims, what it was heard to say.     *)
Told(source, said) ==
    /\ heard'.claims = heard.claims \cup {Claim(source, said[i]) : i \in DOMAIN said}
    /\ heard'.answered = heard.answered \cup {source}

(* Each source's stage, one disjunct for each way it may go.               *)
LEMMA NeighboursStage ==
    ASSUME Inductive, Typed, AskNeighbours
    PROVE  /\ scan.pc = "neighbours" /\ scan'.pc \in {"enrichment", "subnet"}
           /\ scan'.pc = "enrichment" <=> scan.mode = "passive"
           /\ scan'.mode = scan.mode /\ scan'.outcome = scan.outcome
           /\ \/ scan.mode = "active" /\ scan'.complete = scan.complete
                 /\ scan'.hosts = scan.hosts /\ UNCHANGED heard
              \/ scan'.complete = FALSE /\ scan'.hosts = scan.hosts /\ UNCHANGED heard
              \/ \E said \in PassiveAnswers :
                    /\ scan'.complete = scan.complete /\ scan'.hosts = Merge(Dedupe(said))
                    /\ Told("passive", said)
<1>1. /\ scan \in Scan /\ DOMAIN heard = DOMAIN Silence
      /\ heard.answered \subseteq {"passive", "active", "deep"}
  BY DEF Inductive, Form, Typed
<1>2. /\ scan.pc = "neighbours" /\ scan'.pc \in {"enrichment", "subnet"}
      /\ scan'.pc = "enrichment" <=> scan.mode = "passive"
      /\ scan'.mode = scan.mode /\ scan'.outcome = scan.outcome
  BY <1>1 DEF AskNeighbours, Proceeds, Fails, Scan
<1>3. \/ scan.mode = "active" /\ scan'.complete = scan.complete
         /\ scan'.hosts = scan.hosts /\ UNCHANGED heard
      \/ scan'.complete = FALSE /\ scan'.hosts = scan.hosts /\ UNCHANGED heard
      \/ \E said \in PassiveAnswers :
            /\ scan'.complete = scan.complete /\ scan'.hosts = Merge(Dedupe(said))
            /\ Answers("passive", said)
  BY <1>1 DEF AskNeighbours, Fails, Scan
<1>4. \A said : Answers("passive", said) => Told("passive", said)
  BY <1>1, AnswersTyped DEF Told
<1> QED
  BY <1>2, <1>3, <1>4

LEMMA SubnetStage ==
    ASSUME Inductive, Typed, AskSubnet
    PROVE  /\ scan.pc = "subnet" /\ scan'.pc \in {"enrichment", "sweep"}
           /\ scan'.mode = scan.mode /\ scan'.outcome = scan.outcome
           /\ \/ scan'.complete = FALSE /\ scan'.hosts = scan.hosts /\ UNCHANGED heard
              \/ \E said \in ActiveAnswers :
                    /\ scan'.pc = "sweep" <=> scan.mode = "deep"
                    /\ scan'.complete = scan.complete
                    /\ scan'.hosts = Merge(scan.hosts \o Dedupe(said))
                    /\ Told("active", said)
<1>1. /\ scan \in Scan /\ DOMAIN heard = DOMAIN Silence
      /\ heard.answered \subseteq {"passive", "active", "deep"}
  BY DEF Inductive, Form, Typed
<1>2. /\ scan.pc = "subnet" /\ scan'.pc \in {"enrichment", "sweep"}
      /\ scan'.mode = scan.mode /\ scan'.outcome = scan.outcome
  BY <1>1 DEF AskSubnet, Proceeds, Fails, Scan
<1>3. \/ scan'.complete = FALSE /\ scan'.hosts = scan.hosts /\ UNCHANGED heard
      \/ \E said \in ActiveAnswers :
            /\ scan'.pc = "sweep" <=> scan.mode = "deep"
            /\ scan'.complete = scan.complete
            /\ scan'.hosts = Merge(scan.hosts \o Dedupe(said))
            /\ Answers("active", said)
  BY <1>1 DEF AskSubnet, Fails, Scan
<1>4. \A said : Answers("active", said) => Told("active", said)
  BY <1>1, AnswersTyped DEF Told
<1> QED
  BY <1>2, <1>3, <1>4

LEMMA InventoryStage ==
    ASSUME Inductive, Typed, Inventory
    PROVE  /\ scan.pc = "inventory" /\ scan'.pc = "enrichment"
           /\ scan'.mode = scan.mode /\ scan'.outcome = scan.outcome
           /\ \/ scan'.complete = FALSE /\ scan'.hosts = scan.hosts /\ UNCHANGED heard
              \/ \E said \in DeepAnswers :
                    /\ scan'.complete => scan.complete
                    /\ scan'.hosts = Overlay(scan.hosts, said)
                    /\ Told("deep", said)
<1>1. /\ scan \in Scan /\ DOMAIN heard = DOMAIN Silence
      /\ heard.answered \subseteq {"passive", "active", "deep"}
  BY DEF Inductive, Form, Typed
<1>2. /\ scan.pc = "inventory" /\ scan'.pc = "enrichment"
      /\ scan'.mode = scan.mode /\ scan'.outcome = scan.outcome
  BY <1>1 DEF Inventory, Proceeds, Fails, Scan
<1>3. \/ scan'.complete = FALSE /\ scan'.hosts = scan.hosts /\ UNCHANGED heard
      \/ \E said \in DeepAnswers :
            /\ scan'.complete => scan.complete
            /\ scan'.hosts = Overlay(scan.hosts, said)
            /\ Answers("deep", said)
  BY <1>1 DEF Inventory, Fails, Scan
<1>4. \A said : Answers("deep", said) => Told("deep", said)
  BY <1>1, AnswersTyped DEF Told
<1> QED
  BY <1>2, <1>3, <1>4

(* The sources extend the report and the claims together; all other steps  *)
(* leave both alone or end the scan.                                       *)
LEMMA ReportedStep == Inductive /\ Typed /\ Reported /\ [Next]_vars => Reported'
<1> SUFFICES ASSUME Inductive, Typed, Reported, [Next]_vars PROVE Reported'
  OBVIOUS
<1>0. /\ scan \in Scan /\ DOMAIN heard = DOMAIN Silence /\ scan.hosts \in Seq(Host)
      /\ scan.pc \in Before \cup {"persist"} => scan.outcome = "none"
      /\ scan.pc \in Behind => scan.outcome = "none"
      /\ scan.pc # "none" => running
  BY DEF Inductive, Form, InStep, Accounted, Typed, Scan
(* Where neither the hosts nor the claims change.                          *)
<1>a. ASSUME scan'.hosts = scan.hosts, heard'.claims = heard.claims,
             scan'.pc \in {"queued", "neighbours"} => scan.pc \in {"queued", "neighbours"},
             scan'.outcome \in {"none", "done"} /\ scan'.pc # "none" =>
                scan.outcome \in {"none", "done"} /\ scan.pc # "none"
      PROVE  Reported'
  BY <1>a DEF Reported
<1>1. ASSUME NEW mode \in AllModes, NEW auto \in AutoRegister, StartScan(mode, auto)
      PROVE  Reported'
  <2>1. scan'.hosts = << >> /\ heard'.claims = {}
    BY <1>1 DEF StartScan, NoScan, Silence
  <2> QED
    BY <2>1, NothingAccounts DEF Reported
<1>2. CASE CancelScan
  BY <1>0, <1>a, <1>2 DEF CancelScan, Cancelling, Silence
<1>3. CASE CloseWindow
  <2>1. heard'.claims = heard.claims
    BY <1>0, <1>3 DEF CloseWindow, Cancelling, Silence
  <2>2. CASE scan.pc = "queued"
    BY <1>3, <2>2 DEF CloseWindow, NoScan, Reported
  <2>3. CASE scan.pc # "queued"
    BY <1>3, <1>a, <2>1, <2>3 DEF CloseWindow
  <2> QED
    BY <2>2, <2>3
<1>4. CASE Deliver
  BY <1>4 DEF Deliver, NoScan, Reported
<1>5. CASE Acquire
  <2>1. \/ scan' = [scan EXCEPT !.pc = "neighbours"]
        \/ scan' = [scan EXCEPT !.pc = "ended", !.outcome = "error"]
    BY <1>5 DEF Acquire
  <2>2. scan.pc = "queued" /\ UNCHANGED heard
    BY <1>5 DEF Acquire
  <2> QED
    BY <1>0, <1>a, <2>1, <2>2 DEF Scan
<1>6. CASE Abandon
  BY <1>0, <1>6 DEF Abandon, Scan, Reported
<1>7. CASE AskNeighbours
  <2>1. /\ scan.pc = "neighbours" /\ scan'.pc \in {"enrichment", "subnet"}
        /\ scan'.outcome = scan.outcome /\ scan.outcome = "none"
    BY <1>0, <1>7, NeighboursStage DEF Before, Checkpoints
  <2>2. CASE UNCHANGED heard /\ scan'.hosts = scan.hosts
    BY <1>a, <2>1, <2>2
  <2>3. ASSUME NEW said \in PassiveAnswers, Told("passive", said), scan'.hosts = Merge(Dedupe(said))
        PROVE  Reported'
    <3>1. said \in Seq(Host) /\ << >> \in Seq(Host)
      BY DiscoveryAssumption
    <3> DEFINE none == << >>
    <3>2. none \in Seq(Host) /\ Accounts({}, none)
      BY <3>1, NothingAccounts
    <3>3. none \o Dedupe(said) = Dedupe(said)
      BY <3>1, DedupeKeeps, ConcatEmptySeq
    <3> HIDE DEF none
    <3>4. Accounts({} \cup {Claim("passive", said[i]) : i \in DOMAIN said}, Merge(Dedupe(said)))
      BY <3>1, <3>2, <3>3, SourceAccounts
    <3>5. heard'.claims = {} \cup {Claim("passive", said[i]) : i \in DOMAIN said}
      BY <2>1, <2>3 DEF Told, Reported
    <3> QED
      BY <2>1, <2>3, <3>4, <3>5 DEF Reported
  <2> QED
    BY <1>7, <2>2, <2>3, NeighboursStage
<1>8. CASE AskSubnet
  <2>1. /\ scan.pc = "subnet" /\ scan'.pc \in {"enrichment", "sweep"}
        /\ scan'.outcome = scan.outcome /\ scan.outcome = "none"
    BY <1>0, <1>8, SubnetStage DEF Before, Checkpoints
  <2>2. CASE UNCHANGED heard /\ scan'.hosts = scan.hosts
    BY <1>a, <2>1, <2>2
  <2>3. ASSUME NEW said \in ActiveAnswers, Told("active", said),
               scan'.hosts = Merge(scan.hosts \o Dedupe(said))
        PROVE  Reported'
    <3>1. said \in Seq(Host)
      BY DiscoveryAssumption
    <3>2. Accounts(heard.claims, scan.hosts)
      BY <2>1 DEF Reported
    <3>3. Accounts(heard'.claims, scan'.hosts)
      BY <1>0, <2>3, <3>1, <3>2, SourceAccounts DEF Told
    <3> QED
      BY <2>1, <3>3 DEF Reported
  <2> QED
    BY <1>8, <2>2, <2>3, SubnetStage
<1>9. CASE Sweep
  BY <1>0, <1>9, <1>a DEF Sweep, Proceeds, Fails, Scan
<1>10. CASE Inventory
  <2>1. /\ scan.pc = "inventory" /\ scan'.pc = "enrichment"
        /\ scan'.outcome = scan.outcome /\ scan.outcome = "none"
    BY <1>0, <1>10, InventoryStage DEF Before, Checkpoints
  <2>2. CASE UNCHANGED heard /\ scan'.hosts = scan.hosts
    BY <1>a, <2>1, <2>2
  <2>3. ASSUME NEW said \in DeepAnswers, Told("deep", said), scan'.hosts = Overlay(scan.hosts, said)
        PROVE  Reported'
    <3>1. said \in Seq(UpHost)
      BY DiscoveryAssumption
    <3>2. Accounts(heard.claims, scan.hosts)
      BY <2>1 DEF Reported
    <3>3. Accounts(heard'.claims, scan'.hosts)
      BY <1>0, <2>3, <3>1, <3>2, InventoryAccounts DEF Told
    <3> QED
      BY <2>1, <3>3 DEF Reported
  <2> QED
    BY <1>10, <2>2, <2>3, InventoryStage
<1>11. CASE Enrich
  BY <1>0, <1>11, <1>a DEF Enrich, Proceeds, Scan
<1>12. CASE Report
  BY <1>0, <1>12, <1>a DEF Report, Proceeds, Scan
<1>13. CASE BeginCommit
  BY <1>0, <1>13, <1>a DEF BeginCommit, Scan
<1>14. CASE Raise
  BY <1>0, <1>14, <1>a DEF Raise, Scan
<1>15. CASE Persist
  BY <1>0, <1>15, <1>a DEF Persist, Scan
<1>16. CASE ReadAliases
  BY <1>0, <1>16, <1>a DEF ReadAliases, Committed, Scan
<1>17. CASE Resolve
  BY <1>0, <1>17, <1>a DEF Resolve, Committed, Scan
<1>18. CASE ReadDevices
  BY <1>0, <1>18, <1>a DEF ReadDevices, Scan, Behind
<1>19. CASE Conclude
  BY <1>0, <1>19, <1>a DEF Conclude, Scan
<1>20. ASSUME Writing PROVE Reported'
  BY <1>0, <1>20, <1>a DEF Writing, Scan
<1>21. CASE UNCHANGED vars
  BY <1>21, <1>a DEF vars
<1> QED
  BY <1>1, <1>2, <1>3, <1>4, <1>5, <1>6, <1>7, <1>8, <1>9, <1>10, <1>11, <1>12, <1>13, <1>14,
     <1>15, <1>16, <1>17, <1>18, <1>19, <1>20, <1>21
     DEF Next, Work, LiveWrites, UserMerges, UserSplits

(* A source that fails leaves the report incomplete; one that answers is   *)
(* on record before the code goes on.                                      *)
LEMMA AskedStep == Inductive /\ Typed /\ Asked /\ [Next]_vars => Asked'
<1> SUFFICES ASSUME Inductive, Typed, Asked, [Next]_vars PROVE Asked'
  OBVIOUS
<1>0. /\ scan \in Scan /\ DOMAIN heard = DOMAIN Silence /\ scan.mode \in AllModes
  BY DEF Inductive, Form, Typed, Scan
(* Where the scan goes on with what it has heard, or is over.              *)
<1>a. ASSUME scan'.complete => scan.complete, scan'.mode = scan.mode,
             heard'.answered = heard.answered,
             \/ scan'.pc = scan.pc
             \/ scan'.pc \notin Checkpoints \cup {"persist"}
             \/ /\ scan.pc \in {"enrichment", "complete", "boundary"}
                /\ scan'.pc \in {"enrichment", "complete", "boundary", "persist"}
      PROVE  Asked'
  BY <1>a DEF Asked, Checkpoints
(* Where it has nothing to account for yet.                                *)
<1>b. ASSUME scan'.pc \in Resting \cup {"queued", "neighbours"}
      PROVE  Asked'
  BY <1>b DEF Asked, Resting
<1>1. ASSUME NEW mode \in AllModes, NEW auto \in AutoRegister, StartScan(mode, auto)
      PROVE  Asked'
  BY <1>1, <1>b DEF StartScan, NoScan
<1>2. CASE CancelScan
  BY <1>0, <1>a, <1>2 DEF CancelScan, Cancelling, Silence
<1>3. CASE CloseWindow
  <2>1. heard'.answered = heard.answered
    BY <1>0, <1>3 DEF CloseWindow, Cancelling, Silence
  <2>2. CASE scan.pc = "queued"
    BY <1>3, <1>b, <2>2 DEF CloseWindow, NoScan, Resting
  <2>3. CASE scan.pc # "queued"
    BY <1>3, <1>a, <2>1, <2>3 DEF CloseWindow
  <2> QED
    BY <2>2, <2>3
<1>4. CASE Deliver
  BY <1>4, <1>b DEF Deliver, NoScan, Resting
<1>5. CASE Acquire
  <2>1. \/ scan' = [scan EXCEPT !.pc = "neighbours"]
        \/ scan' = [scan EXCEPT !.pc = "ended", !.outcome = "error"]
    BY <1>5 DEF Acquire
  <2> QED
    BY <1>0, <1>b, <2>1 DEF Scan, Resting
<1>6. CASE Abandon
  BY <1>0, <1>6, <1>a DEF Abandon, Scan, Checkpoints
<1>7. CASE AskNeighbours
  <2>1. /\ scan'.pc \in {"enrichment", "subnet"} /\ scan'.mode = scan.mode
        /\ scan'.pc = "enrichment" <=> scan.mode = "passive"
        /\ \/ scan.mode = "active" \/ scan'.complete = FALSE
           \/ heard'.answered = heard.answered \cup {"passive"}
    BY <1>7, NeighboursStage DEF Told
  <2> QED
    BY <1>0, <2>1 DEF Asked, Requested, AllModes
<1>8. CASE AskSubnet
  <2>1. /\ scan.pc = "subnet" /\ scan'.pc \in {"enrichment", "sweep"} /\ scan'.mode = scan.mode
        /\ \/ scan'.complete = FALSE
           \/ /\ scan'.complete = scan.complete
              /\ scan'.pc = "sweep" <=> scan.mode = "deep"
              /\ heard'.answered = heard.answered \cup {"active"}
    BY <1>8, SubnetStage DEF Told
  <2> QED
    BY <1>0, <2>1 DEF Asked, Requested, AllModes
<1>9. CASE Sweep
  <2>1. /\ scan.pc = "sweep" /\ scan'.mode = scan.mode /\ UNCHANGED heard
        /\ \/ scan'.pc = "inventory" /\ scan'.complete = scan.complete
           \/ scan'.complete = FALSE
    BY <1>0, <1>9 DEF Sweep, Proceeds, Fails, Scan
  <2> QED
    BY <2>1 DEF Asked
<1>10. CASE Inventory
  <2>1. /\ scan.pc = "inventory" /\ scan'.pc = "enrichment" /\ scan'.mode = scan.mode
        /\ \/ scan'.complete = FALSE
           \/ /\ scan'.complete => scan.complete
              /\ heard'.answered = heard.answered \cup {"deep"}
    BY <1>10, InventoryStage DEF Told
  <2> QED
    BY <1>0, <2>1 DEF Asked, Requested
<1>11. CASE Enrich
  BY <1>0, <1>11, <1>a DEF Enrich, Proceeds, Scan
<1>12. CASE Report
  BY <1>0, <1>12, <1>a DEF Report, Proceeds, Scan
<1>13. CASE BeginCommit
  BY <1>0, <1>13, <1>a DEF BeginCommit, Scan
<1>14. CASE Raise
  BY <1>0, <1>14, <1>a DEF Raise, Scan, Checkpoints
<1>15. CASE Persist
  BY <1>0, <1>15, <1>a DEF Persist, Scan, Checkpoints
<1>16. CASE ReadAliases
  BY <1>0, <1>16, <1>a DEF ReadAliases, Committed, Scan, Checkpoints
<1>17. CASE Resolve
  BY <1>0, <1>17, <1>a DEF Resolve, Committed, Scan, Checkpoints
<1>18. CASE ReadDevices
  BY <1>0, <1>18, <1>a DEF ReadDevices, Scan, Checkpoints
<1>19. CASE Conclude
  BY <1>0, <1>19, <1>b DEF Conclude, Scan, Resting
<1>20. ASSUME Writing PROVE Asked'
  BY <1>0, <1>20, <1>a DEF Writing, Scan
<1>21. CASE UNCHANGED vars
  BY <1>21, <1>a DEF vars
<1> QED
  BY <1>1, <1>2, <1>3, <1>4, <1>5, <1>6, <1>7, <1>8, <1>9, <1>10, <1>11, <1>12, <1>13, <1>14,
     <1>15, <1>16, <1>17, <1>18, <1>19, <1>20, <1>21
     DEF Next, Work, LiveWrites, UserMerges, UserSplits
-----------------------------------------------------------------------------
(* A linked MAC has no device of its own, and is linked to one that has.   *)
Linked ==
    \A m \in Mac : alias[m] # NoMac => store[m] = "none" /\ alias[m] \in Mac /\ store[alias[m]] # "none"

(* How far the two views of the devices agree behind the commit of a scan, *)
(* while nobody else has written.                                          *)
Agreeing ==
    scan.alone =>
        /\ scan.pc \in Behind => \A m \in Observed(scan.hosts) : store[Registered(m)] \in {"none", "on"}
        /\ scan.pc \in {"resolve", "overlay"} =>
              folded = alias /\ \A m \in Mac : alias[m] # NoMac => view[m] = "none"
        /\ scan.pc = "overlay" => \A m \in Observed(scan.hosts) : view[Registered(m)] = "on"

(* The page is built with the devices of the table, before any scan.       *)
LEMMA AgreeInit == Init => Linked /\ Agreeing /\ IdentitiesAgree
<1> SUFFICES ASSUME Init PROVE Linked /\ Agreeing /\ IdentitiesAgree
  OBVIOUS
<1>1. scan.outcome = "none" /\ scan.alone = FALSE
  BY DEF Init, NoScan
<1>2. Linked
  <2> SUFFICES ASSUME NEW m \in Mac, alias[m] # NoMac
               PROVE  store[m] = "none" /\ alias[m] \in Mac /\ store[alias[m]] # "none"
    BY DEF Linked
  <2>1. alias \in [Mac -> Mac \cup {NoMac}]
    BY DEF Init
  <2> QED
    BY <2>1 DEF Init
<1> QED
  BY <1>1, <1>2 DEF Agreeing, IdentitiesAgree

(* Who is observed is a card.                                              *)
LEMMA ObservedIsMac ==
    ASSUME NEW hosts \in Seq(Host)
    PROVE  Observed(hosts) \subseteq Mac
<1>1. \A i \in DOMAIN hosts : hosts[i] \in Host
  OBVIOUS
<1>2. \A i \in DOMAIN hosts : hosts[i].mac \in Mac \cup {NoMac}
  BY <1>1 DEF Host
<1> QED
  BY <1>2 DEF Observed

(* The device of a MAC has no other name.                                  *)
LEMMA RegisteredOnce ==
    ASSUME Typed, Linked, NEW m \in Mac
    PROVE  /\ Registered(m) \in Mac /\ alias[Registered(m)] = NoMac
           /\ Registered(m) = IF alias[m] # NoMac THEN alias[m] ELSE m
<1>1. alias \in [Mac -> Mac \cup {NoMac}] /\ NoMac \notin Mac
  BY ReportAssumption DEF Typed
<1> QED
  BY <1>1 DEF Registered, Linked

(* Each stage of the commit brings the views together by its share, and no *)
(* step leaves a link without its device.                                  *)
LEMMA AgreeStep ==
    Inductive /\ Typed /\ Linked /\ Agreeing /\ IdentitiesAgree /\ [Next]_vars
        => Linked' /\ Agreeing' /\ IdentitiesAgree'
<1> SUFFICES ASSUME Inductive, Typed, Linked, Agreeing, IdentitiesAgree, [Next]_vars
             PROVE  Linked' /\ Agreeing' /\ IdentitiesAgree'
  OBVIOUS
<1>0. /\ scan \in Scan /\ DOMAIN heard = DOMAIN Silence /\ scan.hosts \in Seq(Host)
      /\ Observed(scan.hosts) \subseteq Mac
      /\ store \in [Mac -> Known] /\ view \in [Mac -> Known]
      /\ alias \in [Mac -> Mac \cup {NoMac}] /\ NoMac \notin Mac
      /\ scan.pc \in Before \cup {"persist"} => scan.outcome = "none"
      /\ scan.pc \in Behind => scan.outcome = "none"
      /\ scan.pc # "none" => running
  BY ReportAssumption, ObservedIsMac DEF Inductive, Form, InStep, Accounted, Typed, Scan
(* Where nothing is written and the scan is not in the commit.             *)
<1>a. ASSUME UNCHANGED <<store, alias>> PROVE Linked'
  BY <1>a DEF Linked
<1>b. ASSUME UNCHANGED <<store, alias, view, folded>>, scan'.hosts = scan.hosts,
             scan'.alone = scan.alone, scan'.outcome = scan.outcome,
             scan'.pc = scan.pc \/ scan'.pc \notin Behind
      PROVE  Linked' /\ Agreeing' /\ IdentitiesAgree'
  <2>1. Linked'
    BY <1>a, <1>b
  <2>2. Agreeing'
    BY <1>b DEF Agreeing, Registered, Behind
  <2>3. IdentitiesAgree'
    BY <1>b DEF IdentitiesAgree, Registered
  <2> QED
    BY <2>1, <2>2, <2>3
<1>c. ASSUME UNCHANGED <<store, alias>>, scan'.pc \notin Behind, scan'.outcome # "done" \/ scan'.alone = FALSE
      PROVE  Linked' /\ Agreeing' /\ IdentitiesAgree'
  BY <1>a, <1>c DEF Agreeing, IdentitiesAgree, Behind
<1>1. ASSUME NEW mode \in AllModes, NEW auto \in AutoRegister, StartScan(mode, auto)
      PROVE  Linked' /\ Agreeing' /\ IdentitiesAgree'
  BY <1>1, <1>c DEF StartScan, NoScan, Behind
<1>2. CASE CancelScan
  BY <1>2, <1>b DEF CancelScan
<1>3. CASE CloseWindow
  <2>1. CASE scan.pc = "queued"
    BY <1>3, <1>c, <2>1 DEF CloseWindow, NoScan, Behind
  <2>2. CASE scan.pc # "queued"
    BY <1>3, <1>b, <2>2 DEF CloseWindow
  <2> QED
    BY <2>1, <2>2
<1>4. CASE Deliver
  BY <1>4, <1>c DEF Deliver, NoScan, Behind
<1>5. CASE Acquire
  <2>1. \/ scan' = [scan EXCEPT !.pc = "neighbours"]
        \/ scan' = [scan EXCEPT !.pc = "ended", !.outcome = "error"]
    BY <1>5 DEF Acquire
  <2>2. scan.outcome = "none" /\ UNCHANGED <<store, alias>>
    BY <1>0, <1>5 DEF Acquire, Before
  <2> QED
    BY <1>0, <1>c, <2>1, <2>2 DEF Scan, Behind
<1>6. CASE Abandon
  BY <1>0, <1>6, <1>c DEF Abandon, Scan, Behind, Probing
<1>7. ASSUME AskNeighbours \/ AskSubnet \/ Inventory
      PROVE  Linked' /\ Agreeing' /\ IdentitiesAgree'
  <2>1. scan.pc \in Before /\ scan'.outcome = scan.outcome /\ scan'.pc \notin Behind
    BY <1>7, NeighboursStage, SubnetStage, InventoryStage DEF Before, Checkpoints, Behind
  <2>2. UNCHANGED <<store, alias>>
    BY <1>7 DEF AskNeighbours, AskSubnet, Inventory, Proceeds, Probing
  <2> QED
    BY <1>0, <1>c, <2>1, <2>2
<1>8. CASE Sweep
  BY <1>0, <1>8, <1>c DEF Sweep, Proceeds, Probing, Fails, Scan, Before, Checkpoints, Behind
<1>9. CASE Enrich
  BY <1>0, <1>9, <1>b DEF Enrich, Proceeds, Probing, Scan, Behind
<1>10. CASE Report
  BY <1>0, <1>10, <1>b DEF Report, Proceeds, Probing, Scan, Behind
<1>11. CASE BeginCommit
  BY <1>0, <1>11, <1>b DEF BeginCommit, Scan, Behind
<1>12. CASE Raise
  BY <1>0, <1>12, <1>c DEF Raise, Scan, Behind
<1>13. CASE Conclude
  BY <1>0, <1>13, <1>b DEF Conclude, Scan, Behind
<1>14. CASE UNCHANGED vars
  BY <1>14, <1>b DEF vars
(* The devices that were seen are those of the MACs that answered.         *)
<1>15. CASE Persist
  <2> DEFINE seen == {Registered(m) : m \in Observed(scan.hosts)}
  <2>1. /\ scan.pc = "persist" /\ UNCHANGED <<alias, view, folded>>
        /\ scan'.pc = "aliases" /\ scan'.outcome = "none" /\ scan'.hosts = scan.hosts
    BY <1>0, <1>15 DEF Persist, Scan
  <2>2. PICK overdue \in SUBSET {m \in Mac \ seen : scan.complete /\ store[m] = "on"} :
           store' = [m \in Mac |->
                        IF m \in overdue THEN "off"
                        ELSE IF m \in seen /\ (scan.auto \/ store[m] # "none") THEN "on"
                        ELSE store[m]]
    BY <1>15 DEF Persist
  <2>3. \A m \in seen : m \in Mac /\ alias[m] = NoMac /\ m \notin overdue
    BY <1>0, <2>2, RegisteredOnce
  <2>4. \A m \in Observed(scan.hosts) : Registered(m) \in seen
    OBVIOUS
  <2> HIDE DEF seen
  <2>5. \A m \in Mac : /\ store[m] # "none" => store'[m] # "none"
                       /\ m \notin seen /\ store[m] = "none" => store'[m] = "none"
                       /\ m \in seen => store'[m] \in {"none", "on"}
    BY <1>0, <2>2, <2>3
  <2>6. Linked'
    BY <1>0, <2>1, <2>3, <2>5 DEF Linked
  <2>7. \A m \in Mac : Registered(m)' = Registered(m)
    <3> TAKE m \in Mac
    <3>1. CASE alias[m] = NoMac
      BY <2>1, <3>1 DEF Registered
    <3>2. CASE alias[m] # NoMac
      <4>1. store[m] = "none" /\ store'[m] = "none"
        BY <2>1, <2>6, <3>2 DEF Linked
      <4> QED
        BY <2>1, <3>2, <4>1 DEF Registered
    <3> QED
      BY <3>1, <3>2
  <2>8. \A m \in Observed(scan.hosts) : store'[Registered(m)'] \in {"none", "on"}
    BY <1>0, <2>3, <2>4, <2>5, <2>7
  <2>9. Agreeing'
    BY <2>1, <2>8 DEF Agreeing
  <2>10. IdentitiesAgree'
    BY <2>1 DEF IdentitiesAgree
  <2> QED
    BY <2>6, <2>9, <2>10
<1>16. CASE ReadAliases
  <2>1. /\ scan.pc = "aliases" /\ UNCHANGED <<store, alias>>
        /\ scan'.pc = "resolve" /\ scan'.outcome = "none"
        /\ scan'.hosts = scan.hosts /\ scan'.alone = scan.alone
    BY <1>0, <1>16 DEF ReadAliases, Committed, Scan, Behind
  <2>2. folded' = alias /\ \A m \in Mac : alias[m] # NoMac => view'[m] = "none"
    BY <1>16 DEF ReadAliases
  <2>3. Agreeing'
    BY <2>1, <2>2 DEF Agreeing, Behind, Registered
  <2>4. IdentitiesAgree'
    BY <2>1 DEF IdentitiesAgree
  <2> QED
    BY <1>a, <2>1, <2>3, <2>4
<1>17. CASE Resolve
  <2> DEFINE seen == {Resolved(m) : m \in Observed(scan.hosts)}
  <2>1. /\ scan.pc = "resolve" /\ UNCHANGED <<store, alias, folded>>
        /\ scan'.pc = "overlay" /\ scan'.outcome = "none"
        /\ scan'.hosts = scan.hosts /\ scan'.alone = scan.alone
    BY <1>0, <1>17 DEF Resolve, Committed, Scan, Behind
  <2>2. PICK overdue \in SUBSET {m \in Mac \ seen : scan.complete /\ view[m] = "on"} :
           view' = [m \in Mac |-> IF m \in seen THEN "on" ELSE IF m \in overdue THEN "off" ELSE view[m]]
    BY <1>17 DEF Resolve
  <2>3. ASSUME scan.alone
        PROVE  /\ \A m \in Observed(scan.hosts) : Registered(m) \in seen
               /\ \A m \in seen : alias[m] = NoMac
    <3>1. folded = alias
      BY <2>1, <2>3 DEF Agreeing
    <3>2. \A m \in Observed(scan.hosts) : Resolved(m) = Registered(m)
      BY <1>0, <3>1, RegisteredOnce DEF Resolved
    <3> QED
      BY <1>0, <3>2, RegisteredOnce
  <2>4. \A m \in Observed(scan.hosts) : Registered(m) \in Mac
    BY <1>0, RegisteredOnce
  <2> HIDE DEF seen
  <2>5. ASSUME scan.alone
        PROVE  /\ \A m \in Mac : alias[m] # NoMac => view'[m] = "none"
               /\ \A m \in Observed(scan.hosts) : view'[Registered(m)] = "on"
    <3>1. \A m \in Mac : alias[m] # NoMac => view[m] = "none"
      BY <2>1, <2>5 DEF Agreeing
    <3> QED
      BY <1>0, <2>2, <2>3, <2>4, <2>5, <3>1
  <2>6. Agreeing'
    BY <2>1, <2>5 DEF Agreeing, Behind, Registered
  <2>7. IdentitiesAgree'
    BY <2>1 DEF IdentitiesAgree
  <2> QED
    BY <1>a, <2>1, <2>6, <2>7
<1>18. CASE ReadDevices
  <2>1. /\ scan.pc = "overlay" /\ UNCHANGED <<store, alias, folded>>
        /\ scan'.pc = "conclude"
        /\ scan'.hosts = scan.hosts /\ scan'.alone = scan.alone
    BY <1>0, <1>18 DEF ReadDevices, Scan
  <2>2. view' = [m \in Mac |-> IF "none" \in {view[m], store[m]} THEN view[m] ELSE store[m]]
    BY <1>18 DEF ReadDevices
  <2>3. \A m \in Observed(scan.hosts) : Registered(m) \in Mac
    BY <1>0, RegisteredOnce
  <2>4. ASSUME scan.alone, NEW m \in Mac
        PROVE  /\ alias[m] # NoMac => view'[m] = "none"
               /\ store[m] # "none" => view'[m] \in {"none", store[m]}
               /\ m \in Observed(scan.hosts) =>
                     view'[Registered(m)] = "on" /\ store[Registered(m)] \in {"none", "on"}
    <3>1. /\ alias[m] # NoMac => view[m] = "none"
          /\ m \in Observed(scan.hosts) =>
                view[Registered(m)] = "on" /\ store[Registered(m)] \in {"none", "on"}
      BY <2>1, <2>4 DEF Agreeing, Behind
    <3> QED
      BY <2>2, <2>3, <3>1
  <2>5. IdentitiesAgree'
    BY <2>1, <2>4 DEF IdentitiesAgree, Registered
  <2>6. Agreeing'
    BY <2>1 DEF Agreeing, Behind
  <2> QED
    BY <1>a, <2>1, <2>5, <2>6
(* Another session's write ends what this scan could promise.              *)
<1>19. ASSUME Writing PROVE Agreeing' /\ IdentitiesAgree'
  <2>1. scan'.alone = FALSE
    BY <1>0, <1>19 DEF Writing, Scan
  <2> QED
    BY <2>1 DEF Agreeing, IdentitiesAgree
<1>20. ASSUME NEW m \in Mac, LiveWrites(m) PROVE Linked'
  BY <1>0, <1>20 DEF LiveWrites, Linked
<1>21. ASSUME NEW m \in Mac, UserSplits(m) PROVE Linked'
  BY <1>0, <1>21 DEF UserSplits, Linked
<1>22. ASSUME NEW retained \in Mac, NEW candidate \in Mac, UserMerges(retained, candidate)
       PROVE  Linked'
  BY <1>0, <1>22 DEF UserMerges, Linked
<1> QED
  BY <1>1, <1>2, <1>3, <1>4, <1>5, <1>6, <1>7, <1>8, <1>9, <1>10, <1>11, <1>12, <1>13, <1>14,
     <1>15, <1>16, <1>17, <1>18, <1>19, <1>20, <1>21, <1>22
     DEF Next, Work, LiveWrites, UserMerges, UserSplits
-----------------------------------------------------------------------------
Invariant == Inductive /\ Typed /\ Reported /\ Asked /\ Linked /\ Agreeing /\ IdentitiesAgree

(* All of this holds at every moment of every run.                         *)
LEMMA InvariantHolds == Spec => []Invariant
<1>1. Init => Invariant
  BY InductiveInit, TypedInit, HeardInit, AgreeInit DEF Invariant
<1>2. Invariant /\ [Next]_vars => Invariant'
  BY InductiveStep, TypedStep, ReportedStep, AskedStep, AgreeStep DEF Invariant
<1> QED
  BY <1>1, <1>2, PTL DEF Spec

(* The state keeps its types, the page never has a second task, and the    *)
(* service says that it commits whenever a scan writes (_start_scan of the *)
(* page, scan of the service).                                             *)
THEOREM TypeCorrect == Spec => []TypeOK
<1>1. Invariant => TypeOK
  <2> SUFFICES ASSUME Invariant PROVE TypeOK
    OBVIOUS
  <2>1. running \in BOOLEAN /\ cancelled \in BOOLEAN /\ heard.doomed \in BOOLEAN
    BY DEF Invariant, Inductive, Form
  <2>2. /\ ~running => scan.pc = "none"
        /\ scan.pc \in {"persist", "aliases", "resolve", "overlay"} => service = "committing"
    BY DEF Invariant, Inductive, Form, InStep, Behind
  <2>3. spent.scans \in 0 .. Len(Modes) /\ spent.writes \in 0 .. Writes
    BY DEF Invariant, Typed
  <2> QED
    BY <2>1, <2>2, <2>3 DEF TypeOK, Invariant, Typed
<1> QED
  BY <1>1, InvariantHolds, PTL

(* Whatever the sources answer, in whatever order and however many there   *)
(* are, the report names every card that claimed an address and was not    *)
(* overruled, as present if it answered, and confirms nobody who was not   *)
(* heard (_dedupe, _merge_discovery and _apply_deep_scan).                 *)
THEOREM ReportIsFaithful == Spec => []ReportAccountsForAnswers
<1>1. Invariant => ReportAccountsForAnswers
  <2> SUFFICES ASSUME Invariant, scan.outcome \in {"none", "done"}, scan.pc # "none"
               PROVE  /\ \A c \in heard.claims : c.mac # NoMac /\ ~Overruled(c) =>
                            \E i \in DOMAIN scan.hosts :
                                /\ scan.hosts[i].ip = c.ip /\ scan.hosts[i].mac = c.mac
                                /\ c.confirmed => scan.hosts[i].confirmed
                      /\ \A i \in DOMAIN scan.hosts : scan.hosts[i].confirmed =>
                            \E c \in heard.claims :
                                /\ c.confirmed /\ c.ip = scan.hosts[i].ip
                                /\ c.mac = scan.hosts[i].mac \/ (c.source = "deep" /\ c.mac = NoMac)
    BY DEF ReportAccountsForAnswers
  <2>1. Accounts(heard.claims, scan.hosts)
    BY DEF Invariant, Reported
  <2>2. \A c : Overruled(c) <=> Beaten(heard.claims, c)
    BY DEF Overruled, Beaten
  <2> QED
    BY <2>1, <2>2 DEF Accounts, Names, Backed
<1> QED
  BY <1>1, InvariantHolds, PTL

(* A scan lets a device leave only if every source that its mode asks had  *)
(* answered and none of its cards was heard, not even under a MAC that was *)
(* linked to it (reconcile_discovery: mark_missing_offline).               *)
THEOREM AbsenceIsProven == Spec => AbsenceNeedsEvidence
<1>1. ASSUME Invariant, [Next]_vars, NEW m \in Mac, scan.pc = "persist", scan'.pc = "aliases",
             store[m] = "on", store'[m] = "off"
      PROVE  /\ Requested(scan.mode) \subseteq heard.answered
             /\ \A c \in {d \in heard.claims : d.confirmed /\ d.mac # NoMac} :
                    Registered(c.mac) = m => Overruled(c)
  <2>0. scan \in Scan
    BY <1>1 DEF Invariant, Typed
  <2>1. Persist
    <3>1. ~Writing /\ ~CancelScan /\ ~CloseWindow
      BY <1>1, <2>0 DEF Writing, CancelScan, CloseWindow, Scan
    <3>2. \A mode \in AllModes, auto \in AutoRegister : ~StartScan(mode, auto)
      BY <1>1 DEF StartScan, Invariant, Inductive, InStep
    <3>3. ~Deliver /\ ~(UNCHANGED vars)
      BY <1>1 DEF Deliver, vars
    <3>4. /\ ~Acquire /\ ~Abandon /\ ~AskNeighbours /\ ~AskSubnet /\ ~Sweep /\ ~Inventory
          /\ ~Enrich /\ ~Report /\ ~BeginCommit
      BY <1>1 DEF Acquire, Abandon, Checkpoints, AskNeighbours, AskSubnet, Sweep, Inventory, Enrich,
                  Report, BeginCommit, Proceeds
    <3>5. ~Raise /\ ~ReadAliases /\ ~Resolve /\ ~ReadDevices /\ ~Conclude
      BY <1>1, <2>0 DEF Raise, ReadAliases, Resolve, ReadDevices, Conclude, Scan
    <3> QED
      BY <1>1, <3>1, <3>2, <3>3, <3>4, <3>5
         DEF Next, Work, LiveWrites, UserMerges, UserSplits
  <2> DEFINE seen == {Registered(x) : x \in Observed(scan.hosts)}
  <2>2. m \notin seen /\ scan.complete
    BY <1>1, <2>1 DEF Persist
  <2>3. Requested(scan.mode) \subseteq heard.answered
    BY <1>1, <2>2 DEF Invariant, Asked
  <2>4. Accounts(heard.claims, scan.hosts)
    BY <1>1 DEF Invariant, Reported, Inductive, Accounted
  <2>5. ASSUME NEW c \in heard.claims, c.confirmed, c.mac # NoMac, Registered(c.mac) = m,
               ~Overruled(c)
        PROVE  FALSE
    <3>1. Names(scan.hosts, c.ip, c.mac, c.confirmed)
      BY <2>4, <2>5 DEF Accounts, Overruled, Beaten
    <3>2. c.mac \in Observed(scan.hosts)
      BY <2>5, <3>1 DEF Names, Observed
    <3> QED
      BY <2>2, <2>5, <3>2
  <2> QED
    BY <2>3, <2>5
<1>2. Invariant /\ [Next]_vars =>
         [\A m \in Mac :
             scan.pc = "persist" /\ scan'.pc = "aliases" /\ store[m] = "on" /\ store'[m] = "off" =>
                 /\ Requested(scan.mode) \subseteq heard.answered
                 /\ \A c \in {d \in heard.claims : d.confirmed /\ d.mac # NoMac} :
                        Registered(c.mac) = m => Overruled(c)]_vars
  BY <1>1
<1> QED
  BY <1>2, InvariantHolds, PTL DEF Spec, AbsenceNeedsEvidence

(* After a scan, and until somebody else writes, the page shows what was   *)
(* stored: linked MACs are no identities of their own, registered devices  *)
(* are as in the table, and who answered is online in both (scan of the    *)
(* service, behind reconcile_discovery).                                   *)
THEOREM PageShowsTheTable == Spec => []IdentitiesAgree
<1>1. Invariant => IdentitiesAgree
  BY DEF Invariant
<1> QED
  BY <1>1, InvariantHolds, PTL
=============================================================================
