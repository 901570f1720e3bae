---------------------------- MODULE LivePresence ----------------------------
(***************************************************************************)
(* Continuous presence reconciliation in the GTK application:              *)
(* LivePresenceService (network/live_presence.py) with the DiscoveryService *)
(* it owns (network/discovery_service.py), the thread that reads           *)
(* `ip monitor neigh` (network/presence.py), and the application that      *)
(* starts, stops and finally shuts them down (gui/app.py).                 *)
(*                                                                         *)
(* One step is what a thread does between two points where another one     *)
(* can see it: a block under `_lock`, the acquisition of `_reconcile_lock`, *)
(* a join, a database transaction.  Timers are threads: thread[t] is where *)
(* the timer thread t is, "free" when it was never started or has ended.   *)
(***************************************************************************)
EXTENDS Naturals, Sequences

CONSTANTS
    Threads,       \* how many timer threads may be alive at once (a bound)
    MaxHints,      \* neighbour events and NetworkManager signals (a bound)
    MaxRequests,   \* uses of the preference's switch (a bound)
    Faults         \* which failures may happen

Fault == {"start", "scan", "popen", "reader"}

ASSUME BoundAssumption ==
    /\ Threads \in Nat \ {0} /\ MaxHints \in Nat /\ MaxRequests \in Nat
    /\ Faults \subseteq Fault

VARIABLES
    stopped,      \* LivePresenceService._stopped
    owner,        \* the thread that holds _reconcile_lock, or None
    eventTimer,   \* _event_timer, or None
    safetyTimer,  \* _safety_timer, or None
    thread,       \* where each timer thread is
    discovery,    \* DiscoveryService: "idle", or running: its token and _committing
    reader,       \* where the monitor's thread is; "none" when _thread is None
    process,      \* the `ip monitor` child
    owned,        \* is PresenceMonitor._process set?
    quit,         \* PresenceMonitor._stop
    control,      \* where the holder of _presence_control_lock is in start/stop
    joining,      \* timers that stop() has still to cancel and join
    tasks,        \* set_live_presence work handed to the pool: <<request, enabled>>
    request,      \* _presence_request
    app,          \* the GTK main thread
    hints,        \* hints left
    unserved,     \* history: a hint was accepted and no scan has begun since
    wanted,       \* history: what the switch was last set to
    failed        \* history: the last start() raised

timers == <<eventTimer, safetyTimer, thread>>
monitor == <<reader, process, owned, quit>>
switch == <<tasks, request, wanted>>
history == <<hints, unserved, failed>>
vars == <<stopped, owner, timers, discovery, monitor, control, joining, switch, app, history>>

Thread == 1 .. Threads
None == 0

Scanning == {"begin", "probing", "writing", "recording"}
Reconciling == Scanning \cup {"entered", "deciding", "notifying", "rescheduling", "leaving"}
ThreadSteps == Reconciling \cup
    {"free", "eventArmed", "safetyArmed", "eventFired", "safetyFired", "waiting"}
ReaderSteps == {"none", "unstarted", "started", "spawned", "owning", "reading", "confirmed",
                "unconfirmed", "updating", "requesting", "closing", "dead"}
ControlSteps == {"idle", "startMonitor", "schedule", "cancel", "timers", "join",
                 "signal", "terminate", "reap", "drain"}

Nobody == [event |-> None, safety |-> None]
Alive(t) == t # None /\ thread[t] # "free"
Free == {t \in Thread : thread[t] = "free"}
Fresh == CHOOSE t \in Free : \A u \in Free : t <= u
Move(t, from, to) == thread[t] = from /\ thread' = [thread EXCEPT ![t] = to]
MayFail(fault) == fault \in Faults
-----------------------------------------------------------------------------
(* request_reconcile: one debounce timer at a time. *)
RequestReconcile ==
    \/ stopped /\ UNCHANGED <<timers, unserved>>
    \/ /\ ~stopped
       /\ unserved' = TRUE
       /\ \/ Alive(eventTimer) /\ UNCHANGED timers
          \/ /\ ~Alive(eventTimer) /\ Free # {}
             /\ eventTimer' = Fresh
             /\ thread' = [thread EXCEPT ![Fresh] = "eventArmed"]
             /\ UNCHANGED safetyTimer

(* _schedule_periodic_safety_scan by thread t, which goes on at next;      *)
(* start() calls it from the controlling thread, with t = None.            *)
ScheduleSafety(t, next) ==
    LET moved == [u \in Thread |-> IF u = t THEN next ELSE thread[u]]
    IN \/ /\ stopped \/ Alive(safetyTimer)
          /\ thread' = moved
          /\ UNCHANGED <<eventTimer, safetyTimer>>
       \/ /\ ~stopped /\ ~Alive(safetyTimer) /\ Free # {}
          /\ safetyTimer' = Fresh
          /\ thread' = [moved EXCEPT ![Fresh] = "safetyArmed"]
          /\ UNCHANGED eventTimer

(* A timer's interval has passed before anybody cancelled it. *)
Expire(t) ==
    /\ \/ Move(t, "eventArmed", "eventFired")
       \/ Move(t, "safetyArmed", "safetyFired")
    /\ UNCHANGED <<stopped, owner, eventTimer, safetyTimer, discovery, monitor,
                   control, joining, switch, app, history>>

(* Seeded fault: the reference is kept while the reconciliation runs. *)
KeepReference(t) ==
    /\ Move(t, "eventFired", "waiting")
    /\ UNCHANGED <<stopped, owner, eventTimer, safetyTimer, discovery, monitor, control,
                   joining, switch, app, history>>

(* The head of _event_reconcile and _safety_reconcile. *)
EventFires(t) ==
    /\ Move(t, "eventFired", "waiting")
    /\ eventTimer' = None
    /\ UNCHANGED <<stopped, owner, safetyTimer, discovery, monitor, control,
                   joining, switch, app, history>>

SafetyFires(t) ==
    /\ Move(t, "safetyFired", IF stopped THEN "free" ELSE "waiting")
    /\ safetyTimer' = None
    /\ UNCHANGED <<stopped, owner, eventTimer, discovery, monitor, control,
                   joining, switch, app, history>>
-----------------------------------------------------------------------------
(* _reconcile. *)
rest == <<eventTimer, safetyTimer, monitor, control, joining, switch, app, hints, failed>>

(* Seeded fault: the lock is not waited for. *)
EnterUnlocked(t) ==
    /\ Move(t, "waiting", "entered")
    /\ owner' = t
    /\ UNCHANGED <<stopped, discovery, unserved, rest>>

Enter(t) ==
    /\ owner = None
    /\ Move(t, "waiting", "entered")
    /\ owner' = t
    /\ UNCHANGED <<stopped, discovery, unserved, rest>>

(* Seeded fault: only the head of the timer function checks _stopped. *)
SkipCheck(t) ==
    /\ Move(t, "entered", "begin")
    /\ UNCHANGED <<stopped, owner, discovery, unserved, rest>>

(* The stopped check comes after the lock; an early return releases it. *)
CheckStopped(t) ==
    /\ \/ ~stopped /\ Move(t, "entered", "begin") /\ UNCHANGED owner
       \/ stopped /\ Move(t, "entered", "free") /\ owner' = None
    /\ UNCHANGED <<stopped, discovery, unserved, rest>>

BeginScan(t) ==
    /\ \/ /\ discovery = "idle"
          /\ Move(t, "begin", "probing")
          /\ discovery' = "probing" /\ unserved' = FALSE
       \/ /\ discovery # "idle"
          /\ Move(t, "begin", "rescheduling")
          /\ UNCHANGED <<discovery, unserved>>
    /\ UNCHANGED <<stopped, owner, rest>>

(* scan_network_report, then the cancellation check and _committing in one *)
(* block: a cancelled scan, like a failed one, writes only its history.    *)
Probe(t) ==
    /\ \/ /\ discovery = "probing"
          /\ Move(t, "probing", "writing") /\ discovery' = "committing"
       \/ /\ discovery = "cancelled" \/ MayFail("scan")
          /\ Move(t, "probing", "recording") /\ UNCHANGED discovery
    /\ UNCHANGED <<stopped, owner, unserved, rest>>

(* reconcile_discovery and what follows it, committed or rolled back. *)
Write(t) ==
    /\ Move(t, "writing", "recording")
    /\ UNCHANGED <<stopped, owner, discovery, unserved, rest>>

(* The ScanRecord and its event; then _running is cleared. *)
EndScan(t) ==
    /\ Move(t, "recording", "deciding")
    /\ discovery' = "idle"
    /\ UNCHANGED <<stopped, owner, unserved, rest>>

Decide(t) ==
    /\ Move(t, "deciding", IF stopped THEN "rescheduling" ELSE "notifying")
    /\ UNCHANGED <<stopped, owner, discovery, unserved, rest>>

(* on_reconciled; its exceptions are logged. *)
Notify(t) ==
    /\ Move(t, "notifying", "rescheduling")
    /\ UNCHANGED <<stopped, owner, discovery, unserved, rest>>

(* Seeded fault: a reconciliation leaves scheduling to somebody else. *)
LeaveUnscheduled(t) ==
    /\ Move(t, "rescheduling", "leaving")
    /\ UNCHANGED <<stopped, owner, discovery, unserved, rest>>

(* finally: the next safety scan. *)
Reschedule(t) ==
    /\ thread[t] = "rescheduling"
    /\ ScheduleSafety(t, "leaving")
    /\ UNCHANGED <<stopped, owner, discovery, monitor, control, joining, switch, app, history>>

Leave(t) ==
    /\ Move(t, "leaving", "free")
    /\ owner' = None
    /\ UNCHANGED <<stopped, discovery, unserved, rest>>
-----------------------------------------------------------------------------
(* PresenceMonitor._run. *)
apart == <<owner, discovery, control, joining, switch, app, failed>>

Spawn ==
    /\ reader = "started"
    /\ \/ quit /\ reader' = "dead" /\ UNCHANGED process
       \/ ~quit /\ reader' = "spawned" /\ process' = "alive"
       \/ ~quit /\ MayFail("popen") /\ reader' = "dead" /\ UNCHANGED process
    /\ UNCHANGED <<owned, quit, stopped, timers, hints, unserved, apart>>

Own ==
    /\ reader = "spawned"
    /\ reader' = "owning" /\ owned' = TRUE
    /\ UNCHANGED <<process, quit, stopped, timers, hints, unserved, apart>>

(* Seeded fault: the flag is not read again after Popen. *)
OwnUnchecked ==
    /\ reader = "owning"
    /\ reader' = "reading"
    /\ UNCHANGED <<process, owned, quit, stopped, timers, hints, unserved, apart>>

(* stop() may have raced with Popen. *)
HonorStop ==
    /\ reader = "owning"
    /\ reader' = "reading"
    /\ process' = IF quit THEN "ended" ELSE process
    /\ UNCHANGED <<owned, quit, stopped, timers, hints, unserved, apart>>

(* One more line: REACHABLE with a MAC is "confirmed", anything else that  *)
(* parses is only a hint.                                                  *)
ReadLine ==
    /\ reader = "reading" /\ hints > 0
    /\ hints' = hints - 1
    /\ \/ quit /\ reader' = "closing"
       \/ ~quit /\ reader' \in {"confirmed", "unconfirmed"}
    /\ UNCHANGED <<process, owned, quit, stopped, timers, unserved, apart>>

(* End of file once the child has ended. *)
ReadEnd ==
    /\ reader = "reading" /\ process = "ended"
    /\ reader' = "closing"
    /\ UNCHANGED <<process, owned, quit, stopped, timers, hints, unserved, apart>>

(* _on_presence_event. *)
OnPresenceEvent ==
    /\ reader \in {"confirmed", "unconfirmed"}
    /\ reader' = IF stopped THEN "reading"
                 ELSE IF reader = "confirmed" THEN "updating" ELSE "requesting"
    /\ UNCHANGED <<process, owned, quit, stopped, timers, hints, unserved, apart>>

(* update_presence, whose failure is logged. *)
UpdatePresence ==
    /\ reader = "updating"
    /\ reader' = "requesting"
    /\ UNCHANGED <<process, owned, quit, stopped, timers, hints, unserved, apart>>

ReaderRequests ==
    /\ reader = "requesting"
    /\ reader' = "reading"
    /\ RequestReconcile
    /\ UNCHANGED <<process, owned, quit, stopped, hints, apart>>

(* finally: reap the child. *)
CloseReader ==
    /\ reader = "closing"
    /\ reader' = "dead" /\ process' = "ended" /\ owned' = FALSE
    /\ UNCHANGED <<quit, stopped, timers, hints, unserved, apart>>

(* The child ends by itself: nothing starts it again. *)
ChildDies ==
    /\ MayFail("reader") /\ process = "alive"
    /\ process' = "ended"
    /\ UNCHANGED <<reader, owned, quit, stopped, timers, hints, unserved, apart>>
-----------------------------------------------------------------------------
(* start() and stop(), by the one thread that holds                        *)
(* _presence_control_lock, or by the main thread before there is another.  *)
Controls(from, to) == control = from /\ control' = to

BeginStart ==
    /\ Controls("idle", IF stopped THEN "startMonitor" ELSE "idle")
    /\ stopped' = FALSE /\ failed' = FALSE
    /\ UNCHANGED <<owner, timers, discovery, monitor, joining, hints, unserved>>

(* monitor.start(), for a monitor that has no live thread.  When the new   *)
(* one cannot be started _thread holds it all the same.                    *)
StartMonitor ==
    /\ \/ /\ Controls("startMonitor", "schedule")
          /\ \/ /\ reader \in {"none", "unstarted", "dead"}
                /\ reader' = "started" /\ quit' = FALSE
                /\ process' = "none" /\ UNCHANGED owned
             \/ /\ reader \notin {"none", "unstarted", "dead"}
                /\ UNCHANGED monitor
          /\ UNCHANGED <<stopped, failed, unserved>>
       \/ /\ MayFail("start") /\ Controls("startMonitor", "idle")
          /\ reader \in {"none", "unstarted", "dead"} /\ reader' = "unstarted"
          /\ quit' = FALSE /\ stopped' = TRUE /\ failed' = TRUE /\ unserved' = FALSE
          /\ UNCHANGED <<process, owned>>
    /\ UNCHANGED <<owner, timers, discovery, joining, switch, app, hints>>

StartSafety ==
    /\ Controls("schedule", "idle")
    /\ ScheduleSafety(None, "free")
    /\ UNCHANGED <<stopped, owner, discovery, monitor, joining, switch, app, history>>

(* A second stop() joins nothing, but still synchronizes at the end.       *)
BeginStop ==
    /\ Controls("idle", "cancel")
    /\ stopped' = TRUE
    /\ \/ stopped /\ UNCHANGED <<joining, timers>>
       \/ /\ ~stopped
          /\ joining' = [event |-> eventTimer, safety |-> safetyTimer]
          /\ eventTimer' = None /\ safetyTimer' = None
          /\ UNCHANGED thread
    /\ unserved' = FALSE
    /\ UNCHANGED <<owner, discovery, monitor, hints>>

(* DiscoveryService.cancel: never once it is committing. *)
CancelScan ==
    /\ Controls("cancel", "timers")
    /\ discovery' = IF discovery = "probing" THEN "cancelled" ELSE discovery
    /\ UNCHANGED <<stopped, owner, timers, monitor, joining, switch, app, history>>

(* Seeded fault: a cancelled timer's thread is not woken. *)
CancelSilently(steps, t) ==
    IF steps[t] \in {"eventArmed", "safetyArmed"} THEN [steps EXCEPT ![t] = "cancelled"] ELSE steps

(* timer.cancel() ends a timer whose interval has not passed. *)
Cancel(steps, t) ==
    IF steps[t] \in {"eventArmed", "safetyArmed"} THEN [steps EXCEPT ![t] = "free"] ELSE steps

NextJoined == IF joining.event # None THEN joining.event ELSE joining.safety

CancelTimer ==
    /\ \/ joining = Nobody /\ Controls("timers", "signal") /\ UNCHANGED thread
       \/ joining # Nobody /\ Controls("timers", "join") /\ thread' = Cancel(thread, NextJoined)
    /\ UNCHANGED <<stopped, owner, eventTimer, safetyTimer, discovery, monitor,
                   joining, switch, app, history>>

JoinTimer ==
    /\ Controls("join", "timers")
    /\ ~Alive(NextJoined)
    /\ joining' = IF joining.event # None THEN [joining EXCEPT !.event = None] ELSE Nobody
    /\ UNCHANGED <<stopped, owner, timers, discovery, monitor, switch, app, history>>

(* monitor.stop(): set the flag, end the child if it is known by then,     *)
(* join the reader.                                                        *)
SignalReader ==
    /\ Controls("signal", "terminate")
    /\ quit' = TRUE
    /\ UNCHANGED <<stopped, owner, timers, discovery, reader, process, owned,
                   joining, switch, app, history>>

TerminateChild ==
    /\ Controls("terminate", "reap")
    /\ process' = IF owned THEN "ended" ELSE process
    /\ UNCHANGED <<stopped, owner, timers, discovery, reader, owned, quit,
                   joining, switch, app, history>>

(* Seeded fault: stop() does not wait for the reader. *)
SkipReader ==
    /\ Controls("reap", "drain")
    /\ owned' = FALSE
    /\ UNCHANGED <<stopped, owner, timers, discovery, reader, process, quit,
                   joining, switch, app, history>>

JoinReader ==
    /\ Controls("reap", "drain")
    /\ reader \in {"none", "dead"}
    /\ reader' = "none" /\ owned' = FALSE
    /\ UNCHANGED <<stopped, owner, timers, discovery, process, quit,
                   joining, switch, app, history>>

(* Joining a thread that was never started raises: stop() and, if it was   *)
(* the caller, shutdown end there.                                         *)
JoinRaises ==
    /\ Controls("reap", "idle")
    /\ reader = "unstarted"
    /\ app' = IF app = "draining" THEN "aborted" ELSE app
    /\ UNCHANGED <<stopped, owner, timers, discovery, monitor, joining, switch, history>>

(* with self._reconcile_lock: pass *)
Drain ==
    /\ Controls("drain", "idle")
    /\ owner = None
    /\ UNCHANGED <<stopped, owner, timers, discovery, monitor, joining, switch, app, history>>
-----------------------------------------------------------------------------
(* The application.  do_activate starts the service itself when the        *)
(* preference is on, before anything can use the switch.                   *)
Activate ==
    /\ app = "activating" /\ control = "idle"
    /\ app' = "running"
    /\ \/ wanted /\ BeginStart
       \/ ~wanted /\ UNCHANGED <<stopped, control, failed, owner, timers, discovery,
                                monitor, joining, hints, unserved>>
    /\ UNCHANGED switch

(* A NetworkManager signal, on the main thread, once start() has returned  *)
(* to it.                                                                  *)
NetworkChanged ==
    /\ app = "running" /\ hints > 0
    /\ request = 0 => control = "idle"
    /\ hints' = hints - 1
    /\ RequestReconcile
    /\ UNCHANGED <<stopped, owner, discovery, monitor, control, joining, switch, app, failed>>

(* set_live_presence *)
SetLivePresence ==
    /\ app = "running" /\ request < MaxRequests
    /\ request = 0 => control = "idle"
    /\ request' = request + 1
    /\ \E enabled \in BOOLEAN :
          /\ wanted' = enabled
          /\ tasks' = Append(tasks, <<request', enabled>>)
    /\ UNCHANGED <<stopped, owner, timers, discovery, monitor, control, joining, app, history>>

(* Seeded fault: a request is carried out although a later one was made. *)
NeverOutdated(task) == app # "running"

(* Shut down, or overtaken by a later request. *)
Outdated(task) == app # "running" \/ task[1] # request
Current(task) == ~Outdated(task)

(* work(), by one of the pool's two workers: whichever gets the lock. *)
Without(s, i) == SubSeq(s, 1, i - 1) \o SubSeq(s, i + 1, Len(s))

RunTask ==
    \E i \in 1 .. 2 :
        /\ i <= Len(tasks) /\ control = "idle"
        /\ tasks' = Without(tasks, i)
        /\ \/ /\ Current(tasks[i]) /\ tasks[i][2]
              /\ BeginStart
           \/ /\ Current(tasks[i]) /\ ~tasks[i][2]
              /\ BeginStop /\ UNCHANGED failed
           \/ /\ ~Current(tasks[i])
              /\ UNCHANGED <<stopped, control, joining, owner, timers, discovery,
                             monitor, history>>
        /\ UNCHANGED <<request, wanted, app>>

(* _on_shutdown: the flag first, then the service, the pool, the database. *)
Shutdown ==
    /\ app = "running"
    /\ request = 0 => control = "idle"
    /\ app' = "stopping"
    /\ UNCHANGED <<stopped, owner, timers, discovery, monitor, control, joining, switch, history>>

ShutdownStops ==
    /\ app = "stopping" /\ app' = "draining"
    /\ BeginStop
    /\ UNCHANGED <<switch, failed>>

CloseDatabase ==
    /\ app = "draining" /\ control = "idle" /\ tasks = <<>>
    /\ app' = "closed"
    /\ UNCHANGED <<stopped, owner, timers, discovery, monitor, control, joining, switch, history>>
-----------------------------------------------------------------------------
Init ==
    /\ stopped = TRUE /\ owner = None
    /\ eventTimer = None /\ safetyTimer = None
    /\ thread = [t \in Thread |-> "free"]
    /\ discovery = "idle"
    /\ reader = "none" /\ process = "none" /\ owned = FALSE /\ quit = FALSE
    /\ control = "idle" /\ joining = Nobody
    /\ tasks = <<>> /\ request = 0
    /\ app = "activating"
    /\ hints = MaxHints
    /\ unserved = FALSE /\ failed = FALSE
    /\ wanted \in BOOLEAN

Reconcile(t) == Enter(t) \/ CheckStopped(t) \/ BeginScan(t) \/ Probe(t) \/ Write(t)
                 \/ EndScan(t) \/ Decide(t) \/ Notify(t)
                 \/ Reschedule(t) \/ Leave(t)
TimerThread(t) == Expire(t) \/ EventFires(t) \/ SafetyFires(t) \/ Reconcile(t)
ReaderRuns == Spawn \/ Own \/ HonorStop \/ ReadEnd \/ OnPresenceEvent
                \/ UpdatePresence \/ ReaderRequests \/ CloseReader
Control == StartMonitor \/ StartSafety \/ CancelScan \/ CancelTimer \/ JoinTimer
             \/ SignalReader \/ TerminateChild \/ JoinReader \/ JoinRaises \/ Drain
Application == Activate \/ RunTask \/ ShutdownStops \/ CloseDatabase
User == SetLivePresence \/ Shutdown
Network == ReadLine \/ NetworkChanged \/ ChildDies

(* A closed application stays closed. *)
Closed == app \in {"closed", "aborted"} /\ UNCHANGED vars

Next == \/ \E t \in Thread : TimerThread(t)
        \/ ReaderRuns \/ Control \/ Application \/ User \/ Network \/ Closed

Spec == Init /\ [][Next]_vars

(* Threads run, timers expire, and a lock that stays free is taken.        *)
(* Nothing makes the user or the network act.                              *)
FairSpec ==
    /\ Spec
    /\ \A t \in Thread : WF_vars(TimerThread(t))
    /\ WF_vars(ReaderRuns) /\ WF_vars(Control) /\ WF_vars(Application)
-----------------------------------------------------------------------------
TypeOK ==
    /\ stopped \in BOOLEAN /\ owner \in Thread \cup {None}
    /\ eventTimer \in Thread \cup {None} /\ safetyTimer \in Thread \cup {None}
    /\ thread \in [Thread -> ThreadSteps]
    /\ discovery \in {"idle", "probing", "cancelled", "committing"}
    /\ reader \in ReaderSteps /\ process \in {"none", "alive", "ended"}
    /\ owned \in BOOLEAN /\ quit \in BOOLEAN
    /\ control \in ControlSteps
    /\ joining \in [event : Thread \cup {None}, safety : Thread \cup {None}]
    /\ tasks \in Seq(Nat \X BOOLEAN) /\ request \in 0 .. MaxRequests
    /\ app \in {"activating", "running", "stopping", "draining", "closed", "aborted"}
    /\ hints \in 0 .. MaxHints
    /\ unserved \in BOOLEAN /\ wanted \in BOOLEAN /\ failed \in BOOLEAN

(* "Reconciliation is single-flight": of all the timer threads, orphans of *)
(* an earlier start() included, one at a time scans, and no reconciliation *)
(* finds its own discovery service busy and swallows the hint.             *)
SingleFlight ==
    /\ \A t, u \in Thread :
          thread[t] \in Scanning /\ thread[u] \in Scanning => t = u
    /\ \A t \in Thread : thread[t] = "begin" => discovery = "idle"

UsingDatabase ==
    \/ reader = "updating"
    \/ \E t \in Thread : thread[t] \in Scanning \cup {"deciding", "notifying"}

(* "wait until no reconciliation can use the DB": from the moment stop()   *)
(* has returned until the next start(), no thread scans, writes or         *)
(* notifies, whatever timers and neighbour events were under way.          *)
QuietAfterStop ==
    stopped /\ control = "idle" /\ ~failed => ~UsingDatabase

(* The database is closed after the last use of it, even when a failing    *)
(* start() left a scan behind.                                             *)
ClosedLast == app = "closed" => ~UsingDatabase /\ process # "alive"

(* While the service is on there is always a thread that will scan and     *)
(* then schedule the next one, through every failure of a scan, every      *)
(* restart, and the death of the neighbour monitor.                        *)
SafetyChain ==
    ~stopped /\ control \notin {"startMonitor", "schedule"}
        => \/ Alive(safetyTimer)
           \/ \E t \in Thread : thread[t] \in {"eventFired", "safetyFired", "waiting"}
                                              \cup (Reconciling \ {"leaving"})

(* Once the pool is done with the switch, the service is what the switch   *)
(* was last set to, in whatever order the workers took the requests.       *)
LastRequestWins ==
    app = "running" /\ control = "idle" /\ tasks = <<>> /\ ~failed
        => stopped = ~wanted

(* A hint accepted while the service is on, even one that arrives in the   *)
(* middle of a scan or finds a debounce timer about to fire, always has a  *)
(* reconciliation on its way that has yet to begin its scan: it never      *)
(* waits for the safety interval.                                          *)
HintsAreServed ==
    unserved => \E t \in Thread :
        thread[t] \in {"eventArmed", "eventFired", "waiting", "entered", "begin"}

(* Periodic discovery goes on for as long as the service is on. *)
KeepsScanning == []<>(stopped \/ \E t \in Thread : thread[t] = "probing")

(* stop() returns, and so does shutdown. *)
StopReturns ==
    /\ control # "idle" ~> control = "idle"
    /\ app = "stopping" ~> app = "closed"
=============================================================================
