----------------------------- MODULE Discovery -----------------------------
(***************************************************************************)
(* The manual scan: the page that starts, cancels and shows it             *)
(* (gui/discovery_page.py), the service that runs it on a worker thread    *)
(* (network/discovery_service.py), the sources it asks one after another   *)
(* (network/discovery.py, network/deep_scan.py), the devices it writes     *)
(* (manager/device_manager.py) and the identities that the service keeps   *)
(* in memory (network/identity.py).                                        *)
(*                                                                         *)
(* Cancelling sets a token that the worker looks at between the sources,   *)
(* until it holds the service's lock and marks the scan as committing.     *)
(* Every device is one of "on", "off" and, when there is no such row or    *)
(* identity, "none".  Clocks are left out: which of the devices that were  *)
(* not seen are overdue is any set of them.                                *)
(***************************************************************************)
EXTENDS ScanReport

CONSTANTS
    Modes,           \* scan modes the user chooses from in one scan after another (a bound)
    AutoRegister,    \* values of the preference auto_register (a bound)
    PassiveAnswers, ActiveAnswers, DeepAnswers,   \* what a source may say (a bound)
    Writes           \* how many other sessions write the devices (a bound)

AllModes == {"passive", "active", "hybrid", "deep"}

ASSUME DiscoveryAssumption ==
    /\ Modes \in Seq(SUBSET AllModes)
    /\ PassiveAnswers \cup ActiveAnswers \subseteq Seq(Host)
    /\ DeepAnswers \subseteq Seq(UpHost)
    /\ AutoRegister \subseteq BOOLEAN /\ Writes \in Nat

VARIABLES
    running,   \* state.discovery.running: the page may not start another scan
    closed,    \* the window was closed
    cancelled, \* the token of the latest scan
    service,   \* _running and _committing of the service
    scan,      \* the task in the worker pool
    heard,     \* what the sources claimed, which answered, and whether the
               \* cancel button came before the commit (history)
    store,     \* the device table
    alias,     \* MAC -> the MAC of the device it was linked to, or NoMac
    view,      \* the identities of the page's resolver
    folded,    \* its copy of alias
    spent      \* scans started and foreign writes done

page == <<running, closed>>
vars == <<page, cancelled, service, scan, heard, store, alias, view, folded, spent>>

Known == {"none", "on", "off"}
NoScan == [pc |-> "none", mode |-> "passive", auto |-> TRUE, hosts |-> << >>,
           complete |-> TRUE, outcome |-> "none", written |-> FALSE, alone |-> FALSE]
Silence == [claims |-> {}, answered |-> {}, doomed |-> FALSE]

(* _find_by_mac: the device of a MAC, or of the identity it was linked to. *)
Registered(m) == IF store[m] = "none" /\ alias[m] # NoMac THEN alias[m] ELSE m
(* IdentityResolver.observe knows only its own copy of the links.          *)
Resolved(m) == IF folded[m] # NoMac THEN folded[m] ELSE m

(* The service loads the known devices when the page is built, no links.   *)
Init ==
    /\ running = FALSE /\ closed = FALSE /\ cancelled = FALSE
    /\ service = "idle" /\ scan = NoScan /\ heard = Silence
    /\ alias \in {l \in [Mac -> Mac \cup {NoMac}] :
                    \A m \in Mac : l[m] # NoMac => l[m] # m /\ l[l[m]] = NoMac}
    /\ store \in {s \in [Mac -> Known] :
                    \A m \in Mac : alias[m] # NoMac => s[m] = "none" /\ s[alias[m]] # "none"}
    /\ view = store
    /\ folded = [m \in Mac |-> NoMac]
    /\ spent = [scans |-> 0, writes |-> 0]
-----------------------------------------------------------------------------
(* The page, on the main loop.                                             *)

(* _start_scan: the options are read here, the worker never asks a widget. *)
StartScan(mode, auto) ==
    /\ ~running /\ ~closed
    /\ spent.scans < Len(Modes) /\ mode \in Modes[spent.scans + 1]
    /\ spent' = [spent EXCEPT !.scans = @ + 1]
    /\ running' = TRUE
    /\ cancelled' = FALSE
    /\ scan' = [NoScan EXCEPT !.pc = "queued", !.mode = mode, !.auto = auto]
    /\ heard' = Silence
    /\ UNCHANGED <<closed, service, store, alias, view, folded>>

Undecided == scan.pc \notin {"none", "ended"} /\ service # "committing" /\ scan.outcome = "none"

(* The token is set whatever the service answers. *)
Cancelling ==
    /\ cancelled' = TRUE
    /\ heard' = [heard EXCEPT !.doomed = @ \/ Undecided]

(* Seeded fault: the page does not wait for the cancelled scan. *)
CancelAndForget ==
    /\ running
    /\ Cancelling
    /\ running' = FALSE
    /\ UNCHANGED <<closed, service, scan, store, alias, view, folded, spent>>

CancelScan ==
    /\ running
    /\ Cancelling
    /\ UNCHANGED <<page, service, scan, store, alias, view, folded, spent>>

(* The scope drops a task that no worker has taken, then cleanup() cancels *)
(* the rest.                                                               *)
CloseWindow ==
    /\ ~closed /\ closed' = TRUE
    /\ Cancelling
    /\ scan' = IF scan.pc = "queued" THEN [NoScan EXCEPT !.outcome = "cancelled"] ELSE scan
    /\ UNCHANGED <<running, service, store, alias, view, folded, spent>>

(* Seeded fault: only a scan that is done frees the page. *)
DeliverDone ==
    /\ scan.pc = "ended"
    /\ scan' = [NoScan EXCEPT !.outcome = scan.outcome]
    /\ running' = (running /\ (closed \/ scan.outcome # "done"))
    /\ UNCHANGED <<closed, cancelled, service, heard, store, alias, view, folded, spent>>

(* _scan_finished and _scan_failed; a closed scope drops the result.       *)
Deliver ==
    /\ scan.pc = "ended"
    /\ scan' = [NoScan EXCEPT !.outcome = scan.outcome]
    /\ running' = (running /\ closed)
    /\ UNCHANGED <<closed, cancelled, service, heard, store, alias, view, folded, spent>>
-----------------------------------------------------------------------------
(* The worker: DiscoveryService.scan.                                      *)
Probing == <<page, cancelled, service, store, alias, view, folded, spent>>

Acquire ==
    /\ scan.pc = "queued"
    /\ IF service = "idle"
       THEN service' = "probing" /\ scan' = [scan EXCEPT !.pc = "neighbours"]
       ELSE scan' = [scan EXCEPT !.pc = "ended", !.outcome = "error"] /\ UNCHANGED service
    /\ UNCHANGED <<page, cancelled, heard, store, alias, view, folded, spent>>

(* Every stage begins with a look at the token, and so does the commit.    *)
Checkpoints == {"neighbours", "subnet", "sweep", "inventory", "enrichment", "complete", "boundary"}

Abandon ==
    /\ scan.pc \in Checkpoints /\ cancelled
    /\ scan' = [scan EXCEPT !.pc = "conclude", !.outcome = "cancelled", !.hosts = << >>]
    /\ UNCHANGED <<Probing, heard>>

Proceeds(stage) == scan.pc = stage /\ ~cancelled /\ UNCHANGED Probing

(* A source answers, or fails and leaves the report incomplete.            *)
Claim(source, h) ==
    [source |-> source, ip |-> h.ip, mac |-> h.mac,
     interface |-> IF source = "deep" THEN NoInterface ELSE h.interface,
     confirmed |-> source = "deep" \/ h.confirmed]
Answers(source, said) ==
    heard' = [heard EXCEPT
        !.answered = @ \cup {source},
        !.claims = @ \cup {Claim(source, said[i]) : i \in DOMAIN said}]
Fails(stage) ==
    /\ scan' = [scan EXCEPT !.pc = stage, !.complete = FALSE]
    /\ UNCHANGED heard

(* _scan_linux: the kernel's neighbour table, one host per address and     *)
(* interface.                                                              *)
AskNeighbours ==
    /\ Proceeds("neighbours")
    /\ LET next == IF scan.mode = "passive" THEN "enrichment" ELSE "subnet"
       IN IF scan.mode = "active"
          THEN scan' = [scan EXCEPT !.pc = next] /\ UNCHANGED heard
          ELSE \/ \E said \in PassiveAnswers :
                     /\ Answers("passive", said)
                     /\ scan' = [scan EXCEPT !.pc = next, !.hosts = Merge(Dedupe(said))]
               \/ Fails(next)

(* Seeded fault: a source that fails has seen nobody. *)
AskSubnetLeniently ==
    /\ Proceeds("subnet")
    /\ LET next == IF scan.mode = "deep" THEN "sweep" ELSE "enrichment"
       IN \/ \E said \in ActiveAnswers :
                /\ Answers("active", said)
                /\ scan' = [scan EXCEPT !.pc = next, !.hosts = Merge(@ \o Dedupe(said))]
          \/ scan' = [scan EXCEPT !.pc = next] /\ UNCHANGED heard

(* _scan_scapy; without a subnet there is nothing to inventory either.     *)
AskSubnet ==
    /\ Proceeds("subnet")
    /\ LET next == IF scan.mode = "deep" THEN "sweep" ELSE "enrichment"
       IN \/ \E said \in ActiveAnswers :
                /\ Answers("active", said)
                /\ scan' = [scan EXCEPT !.pc = next, !.hosts = Merge(@ \o Dedupe(said))]
          \/ Fails(next)
          \/ Fails("enrichment")

(* run_deep_scan, first pass: which addresses are up.                      *)
Sweep ==
    /\ Proceeds("sweep")
    /\ \/ scan' = [scan EXCEPT !.pc = "inventory"] /\ UNCHANGED heard
       \/ Fails("enrichment")

(* Second pass.  A warning, be it only for missing privileges, comes with  *)
(* the hosts and still leaves the report incomplete.                       *)
Inventory ==
    /\ Proceeds("inventory")
    /\ \/ \E said \in DeepAnswers, warned \in BOOLEAN :
             /\ Answers("deep", said)
             /\ scan' = [scan EXCEPT !.pc = "enrichment", !.hosts = Overlay(@, said),
                                     !.complete = @ /\ ~warned]
       \/ Fails("enrichment")

(* Leases, names and vendors; their warnings leave the report complete.    *)
Enrich ==
    /\ Proceeds("enrichment")
    /\ scan' = [scan EXCEPT !.pc = "complete"]
    /\ UNCHANGED heard

Report ==
    /\ Proceeds("complete")
    /\ scan' = [scan EXCEPT !.pc = "boundary"]
    /\ UNCHANGED heard

(* Seeded fault: the token is not looked at again under the lock. *)
BeginCommitAnyway ==
    /\ scan.pc = "boundary"
    /\ service' = "committing"
    /\ scan' = [scan EXCEPT !.pc = "persist"]
    /\ UNCHANGED <<page, cancelled, heard, store, alias, view, folded, spent>>

(* Under the service's lock: from here on cancel() refuses.                *)
BeginCommit ==
    /\ scan.pc = "boundary" /\ ~cancelled
    /\ service' = "committing"
    /\ scan' = [scan EXCEPT !.pc = "persist"]
    /\ UNCHANGED <<page, cancelled, heard, store, alias, view, folded, spent>>
-----------------------------------------------------------------------------
Committed(next) ==
    /\ scan' = [scan EXCEPT !.pc = next]
    /\ UNCHANGED <<page, cancelled, service, heard, alias, spent>>

(* An exception ends the scan with what has been done so far.              *)
Raise ==
    /\ scan.pc \in {"persist", "aliases", "overlay"}
    /\ scan' = [scan EXCEPT !.pc = "conclude", !.outcome = "error"]
    /\ UNCHANGED <<page, cancelled, service, heard, store, alias, view, folded, spent>>

(* reconcile_discovery commits the devices seen and, if the report is      *)
(* complete, the departure of some that were not.                          *)
Persist ==
    /\ scan.pc = "persist"
    /\ LET seen == {Registered(m) : m \in Observed(scan.hosts)}
           missing == {m \in Mac \ seen : scan.complete /\ store[m] = "on"}
       IN \E overdue \in SUBSET missing :
             store' = [m \in Mac |->
                          IF m \in overdue THEN "off"
                          ELSE IF m \in seen /\ (scan.auto \/ store[m] # "none") THEN "on"
                          ELSE store[m]]
    /\ scan' = [scan EXCEPT !.pc = "aliases", !.written = TRUE, !.alone = TRUE]
    /\ UNCHANGED <<page, cancelled, service, heard, alias, view, folded, spent>>

(* Seeded fault: links made since the page was built are not read. *)
SkipAliases ==
    /\ scan.pc = "aliases"
    /\ Committed("resolve")
    /\ UNCHANGED <<store, view, folded>>

(* The links of the table replace the resolver's; linked MACs lose the     *)
(* identity they had.                                                      *)
ReadAliases ==
    /\ scan.pc = "aliases"
    /\ folded' = alias
    /\ view' = [m \in Mac |-> IF alias[m] # NoMac THEN "none" ELSE view[m]]
    /\ Committed("resolve")
    /\ UNCHANGED store

(* IdentityResolver.reconcile, with a clock of its own for who is overdue. *)
Resolve ==
    /\ scan.pc = "resolve"
    /\ LET seen == {Resolved(m) : m \in Observed(scan.hosts)}
           missing == {m \in Mac \ seen : scan.complete /\ view[m] = "on"}
       IN \E overdue \in SUBSET missing :
             view' = [m \in Mac |-> IF m \in seen THEN "on" ELSE IF m \in overdue THEN "off" ELSE view[m]]
    /\ Committed("overlay")
    /\ UNCHANGED <<store, folded>>

(* What the table says of a registered device goes over the resolver's.    *)
ReadDevices ==
    /\ scan.pc = "overlay"
    /\ view' = [m \in Mac |-> IF "none" \in {view[m], store[m]} THEN view[m] ELSE store[m]]
    /\ scan' = [scan EXCEPT !.pc = "conclude", !.outcome = "done"]
    /\ UNCHANGED <<page, cancelled, service, heard, store, alias, folded, spent>>

(* The snapshot and its history row; then the service is free again.       *)
Conclude ==
    /\ scan.pc = "conclude"
    /\ service' = "idle"
    /\ scan' = [scan EXCEPT !.pc = "ended"]
    /\ UNCHANGED <<page, cancelled, heard, store, alias, view, folded, spent>>
-----------------------------------------------------------------------------
(* Other sessions on the same table.                                       *)
Writing ==
    /\ spent.writes < Writes
    /\ spent' = [spent EXCEPT !.writes = @ + 1]
    /\ scan' = [scan EXCEPT !.alone = FALSE]
    /\ UNCHANGED <<page, cancelled, service, heard, view, folded>>

(* Live presence registers a device, brings one back or sees one leave.    *)
LiveWrites(m) ==
    /\ alias[m] = NoMac
    /\ store' = [store EXCEPT ![m] = IF @ = "on" THEN "off" ELSE "on"]
    /\ UNCHANGED alias
    /\ Writing

(* The user links two devices that are not both online, or separates them. *)
UserMerges(retained, candidate) ==
    /\ retained # candidate
    /\ "none" \notin {store[retained], store[candidate]}
    /\ "off" \in {store[retained], store[candidate]}
    /\ store' = [store EXCEPT ![candidate] = "none"]
    /\ alias' = [m \in Mac |-> IF m = candidate \/ alias[m] = candidate THEN retained ELSE alias[m]]
    /\ Writing

UserSplits(m) ==
    /\ alias[m] # NoMac
    /\ store' = [store EXCEPT ![m] = "off"]
    /\ alias' = [alias EXCEPT ![m] = NoMac]
    /\ Writing
-----------------------------------------------------------------------------
Work ==
    \/ Acquire \/ Abandon \/ AskNeighbours \/ AskSubnet \/ Sweep \/ Inventory \/ Enrich \/ Report
    \/ BeginCommit \/ Raise \/ Persist \/ ReadAliases \/ Resolve \/ ReadDevices \/ Conclude

Next ==
    \/ \E mode \in AllModes, auto \in AutoRegister : StartScan(mode, auto)
    \/ CancelScan
    \/ CloseWindow
    \/ Deliver
    \/ Work
    \/ \E m \in Mac : LiveWrites(m) \/ UserSplits(m)
    \/ \E retained, candidate \in Mac : UserMerges(retained, candidate)

(* The pool's thread runs until its task returns, every source and process *)
(* has a timeout, and the main loop runs every callback; the user and the  *)
(* other sessions do what they like.                                       *)
Spec == Init /\ [][Next]_vars /\ WF_vars(Work) /\ WF_vars(Deliver)
-----------------------------------------------------------------------------
Scan == [pc : {"none", "queued", "persist", "aliases", "resolve", "overlay", "conclude", "ended"}
              \cup Checkpoints,
         mode : AllModes, auto : BOOLEAN, hosts : Seq(Host), complete : BOOLEAN,
         outcome : {"none", "done", "cancelled", "error"}, written : BOOLEAN, alone : BOOLEAN]

(* The types of the state, with two facts every part of it relies on: the  *)
(* page says running for as long as its task exists, so that the service   *)
(* is never asked for two scans at once, and the commit flag is up exactly *)
(* while a scan that will not look at its token again is under way.        *)
TypeOK ==
    /\ running \in BOOLEAN /\ closed \in BOOLEAN /\ cancelled \in BOOLEAN
    /\ service \in {"idle", "probing", "committing"}
    /\ scan \in Scan
    /\ store \in [Mac -> Known] /\ view \in [Mac -> Known]
    /\ alias \in [Mac -> Mac \cup {NoMac}] /\ folded \in [Mac -> Mac \cup {NoMac}]
    /\ heard.answered \subseteq {"passive", "active", "deep"} /\ heard.doomed \in BOOLEAN
    /\ spent.scans \in 0 .. Len(Modes) /\ spent.writes \in 0 .. Writes
    /\ ~running => scan.pc = "none"
    /\ scan.pc \in {"persist", "aliases", "resolve", "overlay"} => service = "committing"

(* All of a scan or nothing of it: a scan whose cancellation came before   *)
(* the commit writes nothing, one that could not write leaves the          *)
(* identities in memory alone, and one that has written never says that it *)
(* was cancelled (cancel and scan of the service).                         *)
Phase ==
    IF scan.pc \in {"none", "ended"} THEN "idle"
    ELSE IF scan.written THEN "written"
    ELSE IF heard.doomed THEN "doomed" ELSE "probing"
Outcome == IF Phase = "idle" THEN scan.outcome ELSE "none"
Promise == INSTANCE ScanPromise WITH phase <- Phase, outcome <- Outcome, identities <- <<view, folded>>
KeepsScanPromise == Promise!Spec

(* A later answer may have taken the place of this one: the source gave    *)
(* another for the same path, or the inventory names another MAC.          *)
Overruled(c) ==
    \E d \in heard.claims :
        /\ d.ip = c.ip
        /\ \/ d.source = "deep" /\ d.mac \notin {c.mac, NoMac}
           \/ /\ d.source = c.source /\ c.source # "deep" /\ d.interface = c.interface
              /\ d.mac # c.mac \/ (c.confirmed /\ ~d.confirmed)

(* Whatever the sources and their order, a report names every card that    *)
(* claimed an address, as present if it answered, although several cards   *)
(* may claim one address, and confirms nobody who did not answer           *)
(* (_merge_discovery: different MAC claims are never merged merely because *)
(* their IP matches).                                                      *)
ReportAccountsForAnswers ==
    scan.outcome \in {"none", "done"} /\ scan.pc # "none" =>
        /\ \A c \in heard.claims : c.mac # NoMac /\ ~Overruled(c) =>
               \E i \in DOMAIN scan.hosts :
                   /\ scan.hosts[i].ip = c.ip /\ scan.hosts[i].mac = c.mac
                   /\ c.confirmed => scan.hosts[i].confirmed
        /\ \A i \in DOMAIN scan.hosts : scan.hosts[i].confirmed =>
               \E c \in heard.claims :
                   /\ c.confirmed /\ c.ip = scan.hosts[i].ip
                   /\ c.mac = scan.hosts[i].mac \/ (c.source = "deep" /\ c.mac = NoMac)

(* Absence needs evidence: a scan lets a device leave only if every source *)
(* that its mode asks had answered and none of the device's cards was      *)
(* heard, not even under a MAC that was linked to it                       *)
(* (mark_missing_offline of reconcile_discovery).                          *)
AbsenceNeedsEvidence ==
    [][\A m \in Mac :
          scan.pc = "persist" /\ scan'.pc = "aliases" /\ store[m] = "on" /\ store'[m] = "off" =>
              /\ Requested(scan.mode) \subseteq heard.answered
              /\ \A c \in {d \in heard.claims : d.confirmed /\ d.mac # NoMac} :
                     Registered(c.mac) = m => Overruled(c)]_vars

(* What the page shows is what was stored, unless somebody else wrote      *)
(* after the scan: linked MACs are no identities of their own, registered  *)
(* devices are as in the table, and who answered is online in both.        *)
IdentitiesAgree ==
    scan.outcome = "done" /\ scan.alone =>
        \A m \in Mac :
            /\ alias[m] # NoMac => view[m] = "none"
            /\ store[m] # "none" => view[m] \in {"none", store[m]}
            /\ m \in Observed(scan.hosts) => view[Registered(m)] = "on" /\ store[Registered(m)] \in {"none", "on"}

(* Every scan ends, cancelled, failed or done, and frees the page.         *)
ScanEnds == running \/ scan.pc # "none" ~> scan.pc = "none" /\ (running => closed)
=============================================================================
