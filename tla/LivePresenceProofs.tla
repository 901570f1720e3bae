-------------------------- MODULE LivePresenceProofs --------------------------
(***************************************************************************)
(* Proofs about LivePresence, for any number of timer threads, hints and   *)
(* uses of the switch, and every combination of faults.                    *)
(***************************************************************************)
EXTENDS LivePresence, SequenceTheorems, WellFoundedInduction, TLAPS

(* What the thread with _reconcile_lock may do between its check of        *)
(* _stopped and its release of the lock.                                   *)
Unchecked == {"entered"}
Committed == Reconciling \ Unchecked
Stopping == {"cancel", "timers", "join", "signal", "terminate", "reap", "drain"}
Starting == {"startMonitor", "schedule"}
Awaiting == {"eventArmed", "eventFired", "waiting", "entered", "begin"}
Chained == {"eventFired", "safetyFired", "waiting"} \cup (Reconciling \ {"leaving"})

(* The lock is held by the one thread that reconciles.                     *)
LockIsHeld == \A t \in Thread : thread[t] \in Reconciling <=> owner = t

(* The discovery service runs for the thread that holds the lock.          *)
ServiceIsOwned ==
    discovery # "idle" => \E t \in Thread : thread[t] \in {"probing", "writing", "recording"}

(* A timer that is referred to has yet to run its function.                *)
TimersArePending ==
    /\ eventTimer # None => thread[eventTimer] \in {"eventArmed", "eventFired"}
    /\ safetyTimer # None => thread[safetyTimer] \in {"safetyArmed", "safetyFired"}

(* stop() owns the timers it has taken down, and no new one appears.       *)
StopOwnsTimers ==
    joining # Nobody =>
        stopped /\ control \in {"cancel", "timers", "join"} /\ eventTimer = None /\ safetyTimer = None

(* _stopped tells which of start() and stop() is under way.                *)
ControlInStep ==
    /\ control \in Stopping => stopped
    /\ control \in Starting => ~stopped
    /\ failed => stopped
    /\ unserved => ~stopped

(* The child lives no longer than the thread that reads it; a thread that  *)
(* could not be started is left by a start() that failed.                  *)
ReaderInStep ==
    /\ reader \in {"none", "unstarted", "started", "dead"} => process # "alive"
    /\ reader = "unstarted" => failed \/ control = "startMonitor"
    /\ control = "drain" => reader = "none"

(* From the shutdown's stop() on nothing starts the service again.         *)
ShutdownInStep ==
    /\ app \in {"draining", "closed", "aborted"} => stopped
    /\ app = "closed" => control = "idle"

(* Once stop() has returned, a thread that still takes the lock is one     *)
(* that will find _stopped set.                                            *)
StoppedMeansQuiet ==
    stopped /\ control = "idle" /\ (~failed \/ app \in {"draining", "closed"}) =>
        /\ reader = "none"
        /\ \A t \in Thread : thread[t] \notin Committed

(* The last request is still to be carried out, or was.                    *)
RequestsInStep ==
    /\ \A i \in 1 .. Len(tasks) :
          tasks[i][1] <= request /\ (tasks[i][1] = request => tasks[i][2] = wanted)
    /\ app = "activating" => stopped /\ request = 0 /\ tasks = << >>
    /\ app = "running" =>
          \/ \E i \in 1 .. Len(tasks) : tasks[i][1] = request
          \/ failed
          \/ stopped = ~wanted

Inductive ==
    /\ LockIsHeld
    /\ ServiceIsOwned
    /\ TimersArePending
    /\ StopOwnsTimers
    /\ ControlInStep
    /\ ReaderInStep
    /\ ShutdownInStep
    /\ StoppedMeansQuiet
    /\ RequestsInStep
    /\ SafetyChain
    /\ HintsAreServed
-----------------------------------------------------------------------------
(* A thread that is free can be picked: the numbers of threads are         *)
(* well-founded, so that there is a least one.                             *)
LEMMA FreshIsFree ==
    ASSUME Free # {}
    PROVE  Fresh \in Thread /\ thread[Fresh] = "free"
<1>1. Free \subseteq Nat
  BY BoundAssumption DEF Free, Thread
<1>2. \E t \in Free : \A u \in Free : ~ (<<u, t>> \in OpToRel(<, Nat))
  BY <1>1, WFMin, NatLessThanWellFounded
<1>3. \E t \in Free : \A u \in Free : t <= u
  <2>1. PICK t \in Free : \A u \in Free : ~ (<<u, t>> \in OpToRel(<, Nat))
    BY <1>2
  <2>2. \A u \in Free : ~ (u < t)
    BY <1>1, <2>1 DEF OpToRel
  <2> QED
    BY <1>1, <2>2
<1> QED
  BY <1>3 DEF Fresh, Free

(* What request_reconcile may do to the timers.                            *)
Requested ==
    \/ UNCHANGED timers /\ UNCHANGED unserved /\ stopped
    \/ UNCHANGED timers /\ unserved' = TRUE /\ ~stopped /\ Alive(eventTimer)
    \/ /\ ~stopped /\ unserved' = TRUE /\ safetyTimer' = safetyTimer
       /\ \E f \in Thread :
             thread[f] = "free" /\ eventTimer' = f /\ thread' = [thread EXCEPT ![f] = "eventArmed"]

LEMMA RequestArmsOne == RequestReconcile => Requested
BY FreshIsFree DEF RequestReconcile, Requested, timers

(* What _schedule_periodic_safety_scan may do to them, for a thread t and  *)
(* for the controlling thread.                                             *)
Scheduled(before) ==
    /\ eventTimer' = eventTimer
    /\ \/ safetyTimer' = safetyTimer /\ thread' = before /\ (stopped \/ Alive(safetyTimer))
       \/ /\ ~stopped
          /\ \E f \in Thread :
                /\ thread[f] = "free" /\ safetyTimer' = f
                /\ thread' = [before EXCEPT ![f] = "safetyArmed"]

LEMMA ScheduleArmsOne ==
    ASSUME TypeOK
    PROVE  /\ ScheduleSafety(None, "free") => Scheduled(thread)
           /\ \A t \in Thread :
                 ScheduleSafety(t, "leaving") => Scheduled([thread EXCEPT ![t] = "leaving"])
<1>1. thread = [u \in Thread |-> thread[u]]
  BY DEF TypeOK
<1>2. [u \in Thread |-> IF u = None THEN "free" ELSE thread[u]] = thread
  BY <1>1 DEF Thread, None
<1>3. \A t \in Thread :
         [u \in Thread |-> IF u = t THEN "leaving" ELSE thread[u]] = [thread EXCEPT ![t] = "leaving"]
  BY <1>1
<1> QED
  BY <1>2, <1>3, FreshIsFree DEF ScheduleSafety, Scheduled

(* What a pool worker takes out of the queue leaves the others in it.      *)
LEMMA WithoutKeepsOthers ==
    ASSUME NEW S, NEW s \in Seq(S), NEW i \in 1 .. Len(s)
    PROVE  /\ Without(s, i) \in Seq(S)
           /\ \A j \in 1 .. Len(s) :
                 j # i => \E k \in 1 .. Len(Without(s, i)) : Without(s, i)[k] = s[j]
           /\ \A k \in 1 .. Len(Without(s, i)) : \E j \in 1 .. Len(s) : Without(s, i)[k] = s[j]
<1> DEFINE a == SubSeq(s, 1, i - 1)
           b == SubSeq(s, i + 1, Len(s))
<1>1. a \in Seq(S) /\ Len(a) = i - 1 /\ \A k \in 1 .. i - 1 : a[k] = s[k]
  OBVIOUS
<1>2. b \in Seq(S) /\ Len(b) = Len(s) - i /\ \A k \in 1 .. Len(s) - i : b[k] = s[k + i]
  OBVIOUS
<1>3. Without(s, i) = a \o b
  BY DEF Without
<1> HIDE DEF a, b
<1>a. Len(s) \in Nat /\ i \in Nat
  OBVIOUS
<1>b. /\ a \o b \in Seq(S) /\ Len(a \o b) = Len(a) + Len(b)
      /\ \A k \in 1 .. Len(a) + Len(b) :
            (a \o b)[k] = IF k <= Len(a) THEN a[k] ELSE b[k - Len(a)]
  BY <1>1, <1>2, ConcatProperties
<1>4. /\ a \o b \in Seq(S) /\ Len(a \o b) = Len(s) - 1
      /\ \A k \in 1 .. i - 1 : (a \o b)[k] = s[k]
      /\ \A k \in i .. Len(s) - 1 : (a \o b)[k] = s[k + 1]
  <2>1. Len(a \o b) = Len(s) - 1
    BY <1>1, <1>2, <1>a, <1>b
  <2>2. \A k \in 1 .. i - 1 : (a \o b)[k] = s[k]
    BY <1>1, <1>2, <1>a, <1>b
  <2>3. ASSUME NEW k \in i .. Len(s) - 1
        PROVE  (a \o b)[k] = s[k + 1]
    <3>1. k - Len(a) \in 1 .. Len(s) - i /\ (k - Len(a)) + i = k + 1
      BY <1>1, <1>a
    <3>2. (a \o b)[k] = b[k - Len(a)]
      BY <1>1, <1>2, <1>a, <1>b
    <3> QED
      BY <1>2, <3>1, <3>2
  <2> QED
    BY <1>b, <2>1, <2>2, <2>3
<1>5. \A j \in 1 .. Len(s) : j # i => \E k \in 1 .. Len(s) - 1 : (a \o b)[k] = s[j]
  <2> SUFFICES ASSUME NEW j \in 1 .. Len(s), j # i
               PROVE  \E k \in 1 .. Len(s) - 1 : (a \o b)[k] = s[j]
    OBVIOUS
  <2>0. j < i \/ j > i
    BY <1>a
  <2>1. CASE j < i
    <3>1. j \in 1 .. i - 1 /\ j \in 1 .. Len(s) - 1
      BY <1>a, <2>1
    <3> QED
      BY <1>4, <3>1
  <2>2. CASE j > i
    <3>1. j - 1 \in i .. Len(s) - 1 /\ (j - 1) + 1 = j /\ j - 1 \in 1 .. Len(s) - 1
      BY <1>a, <2>2
    <3> QED
      BY <1>4, <3>1
  <2> QED
    BY <2>0, <2>1, <2>2
<1>6. \A k \in 1 .. Len(s) - 1 : \E j \in 1 .. Len(s) : (a \o b)[k] = s[j]
  <2> SUFFICES ASSUME NEW k \in 1 .. Len(s) - 1
               PROVE  \E j \in 1 .. Len(s) : (a \o b)[k] = s[j]
    OBVIOUS
  <2>0. k < i \/ k >= i
    BY <1>a
  <2>1. CASE k < i
    <3>1. k \in 1 .. i - 1 /\ k \in 1 .. Len(s)
      BY <1>a, <2>1
    <3> QED
      BY <1>4, <3>1
  <2>2. CASE k >= i
    <3>1. k \in i .. Len(s) - 1 /\ k + 1 \in 1 .. Len(s)
      BY <1>a, <2>2
    <3> QED
      BY <1>4, <3>1
  <2> QED
    BY <2>0, <2>1, <2>2
<1> QED
  BY <1>3, <1>4, <1>5, <1>6
-----------------------------------------------------------------------------
LEMMA TypeInit == Init => TypeOK
<1> SUFFICES ASSUME Init PROVE TypeOK
  OBVIOUS
<1>1. /\ thread \in [Thread -> ThreadSteps] /\ owner = None
      /\ eventTimer = None /\ safetyTimer = None /\ control \in ControlSteps
      /\ joining \in [event : Thread \cup {None}, safety : Thread \cup {None}]
  BY DEF Init, ThreadSteps, ControlSteps, Nobody
<1>2. hints \in 0 .. MaxHints /\ request \in 0 .. MaxRequests /\ tasks \in Seq(Nat \X BOOLEAN)
  BY BoundAssumption DEF Init
<1>3. /\ discovery = "idle" /\ reader = "none" /\ process = "none" /\ app = "activating"
      /\ stopped = TRUE /\ owned = FALSE /\ quit = FALSE /\ unserved = FALSE
      /\ failed = FALSE /\ wanted \in BOOLEAN
  BY DEF Init
<1> QED
  BY <1>1, <1>2, <1>3 DEF TypeOK, ReaderSteps

(* Every action keeps the types.                                           *)
LEMMA TypeStep == TypeOK /\ [Next]_vars => TypeOK'
<1> SUFFICES ASSUME TypeOK, [Next]_vars PROVE TypeOK'
  OBVIOUS
<1> USE DEF timers, monitor, switch, history, rest, apart
<1>1. ASSUME NEW t \in Thread, Expire(t) \/ EventFires(t) \/ SafetyFires(t)
      PROVE  TypeOK'
  <2>1. /\ thread' \in [Thread -> ThreadSteps]
        /\ eventTimer' \in {eventTimer, None} /\ safetyTimer' \in {safetyTimer, None}
        /\ UNCHANGED <<stopped, owner, discovery, monitor, control, joining, switch, app, history>>
    BY <1>1 DEF TypeOK, Expire, EventFires, SafetyFires, Move, ThreadSteps, Reconciling
  <2> QED
    BY <2>1 DEF TypeOK
<1>2. ASSUME NEW t \in Thread,
             Enter(t) \/ CheckStopped(t) \/ BeginScan(t) \/ Probe(t) \/ Write(t)
      PROVE  TypeOK'
  <2>1. /\ thread' \in [Thread -> ThreadSteps] /\ owner' \in {t, None, owner}
        /\ discovery' \in {"probing", "committing", discovery}
        /\ UNCHANGED <<stopped, rest>>
    BY <1>2 DEF TypeOK, Enter, CheckStopped, BeginScan, Probe, Write, Move, ThreadSteps,
                Reconciling, Scanning
  <2>2. unserved' \in BOOLEAN
    BY <1>2 DEF TypeOK, Enter, CheckStopped, BeginScan, Probe, Write
  <2> QED
    BY <2>1, <2>2 DEF TypeOK
<1>3. ASSUME NEW t \in Thread, EndScan(t) \/ Decide(t) \/ Notify(t) \/ Leave(t)
      PROVE  TypeOK'
  BY <1>3 DEF TypeOK, EndScan, Decide, Notify, Leave, Move, ThreadSteps, Reconciling, Scanning
<1>4. ASSUME NEW t \in Thread, Reschedule(t)
      PROVE  TypeOK'
  <2>1. Scheduled([thread EXCEPT ![t] = "leaving"])
    BY <1>4, ScheduleArmsOne DEF Reschedule
  <2>2. /\ thread' \in [Thread -> ThreadSteps] /\ eventTimer' = eventTimer
        /\ safetyTimer' \in Thread \cup {None}
    BY <2>1 DEF Scheduled, TypeOK, ThreadSteps, Reconciling
  <2> QED
    BY <1>4, <2>2 DEF Reschedule, TypeOK
<1>5. CASE Spawn \/ Own \/ HonorStop \/ ReadEnd \/ OnPresenceEvent \/ UpdatePresence \/ CloseReader
  <2>1. /\ reader' \in ReaderSteps /\ process' \in {"alive", "ended", process}
        /\ UNCHANGED <<quit, stopped, timers, hints, unserved, apart>>
    BY <1>5 DEF TypeOK, Spawn, Own, HonorStop, ReadEnd, OnPresenceEvent, UpdatePresence,
                CloseReader, ReaderSteps
  <2>2. owned' \in BOOLEAN
    BY <1>5 DEF TypeOK, Spawn, Own, HonorStop, ReadEnd, OnPresenceEvent, UpdatePresence, CloseReader
  <2> QED
    BY <2>1, <2>2 DEF TypeOK
<1>6. ASSUME RequestReconcile
      PROVE  /\ thread' \in [Thread -> ThreadSteps] /\ safetyTimer' = safetyTimer
             /\ eventTimer' \in Thread \cup {None} /\ unserved' \in BOOLEAN
  BY <1>6, RequestArmsOne DEF Requested, TypeOK, ThreadSteps
<1>7. CASE ReaderRequests
  BY <1>6, <1>7 DEF ReaderRequests, TypeOK, ReaderSteps
<1>8. CASE NetworkChanged
  <2>1. hints' \in 0 .. MaxHints
    BY <1>8, BoundAssumption DEF NetworkChanged, TypeOK
  <2> QED
    BY <1>6, <1>8, <2>1 DEF NetworkChanged, TypeOK
<1>9. CASE ReadLine \/ ChildDies
  <2>1. hints' \in 0 .. MaxHints
    BY <1>9, BoundAssumption DEF ReadLine, ChildDies, TypeOK
  <2>2. /\ reader' \in ReaderSteps /\ process' \in {process, "ended"}
        /\ UNCHANGED <<owned, quit, stopped, timers, unserved, apart>>
    BY <1>9 DEF ReadLine, ChildDies, TypeOK, ReaderSteps
  <2> QED
    BY <2>1, <2>2 DEF TypeOK
<1>10. CASE StartMonitor
  <2>1. /\ reader' \in {reader, "started", "unstarted"} /\ process' \in {process, "none"}
        /\ control' \in ControlSteps
        /\ UNCHANGED <<owned, hints, owner, timers, discovery, joining, switch, app>>
    BY <1>10 DEF StartMonitor, Controls, ControlSteps
  <2>2. stopped' \in BOOLEAN /\ failed' \in BOOLEAN /\ unserved' \in BOOLEAN /\ quit' \in BOOLEAN
    BY <1>10 DEF StartMonitor, TypeOK
  <2> QED
    BY <2>1, <2>2 DEF TypeOK, ReaderSteps
<1>11. CASE StartSafety
  <2>1. Scheduled(thread)
    BY <1>11, ScheduleArmsOne DEF StartSafety
  <2>2. /\ thread' \in [Thread -> ThreadSteps] /\ eventTimer' = eventTimer
        /\ safetyTimer' \in Thread \cup {None}
    BY <2>1 DEF Scheduled, TypeOK, ThreadSteps
  <2> QED
    BY <1>11, <2>2 DEF StartSafety, Controls, TypeOK, ControlSteps
<1>12. CASE CancelScan \/ SignalReader \/ TerminateChild \/ JoinReader \/ JoinRaises \/ Drain
  <2>1. /\ control' \in ControlSteps /\ discovery' \in {discovery, "cancelled"}
        /\ reader' \in {reader, "none"} /\ process' \in {process, "ended"}
        /\ app' \in {app, "aborted"}
        /\ UNCHANGED <<stopped, owner, timers, joining, switch, history>>
    BY <1>12 DEF CancelScan, SignalReader, TerminateChild, JoinReader, JoinRaises, Drain, Controls,
                 ControlSteps
  <2>2. owned' \in BOOLEAN /\ quit' \in BOOLEAN
    BY <1>12 DEF CancelScan, SignalReader, TerminateChild, JoinReader, JoinRaises, Drain, TypeOK
  <2> QED
    BY <2>1, <2>2 DEF TypeOK, ReaderSteps
<1>13. CASE CancelTimer
  <2>1. NextJoined \in Thread \/ joining = Nobody
    BY DEF TypeOK, NextJoined, Nobody, None
  <2>2. thread' \in [Thread -> ThreadSteps]
    BY <1>13, <2>1 DEF CancelTimer, Cancel, TypeOK, ThreadSteps
  <2> QED
    BY <1>13, <2>2 DEF CancelTimer, Controls, TypeOK, ControlSteps
<1>14. CASE JoinTimer
  BY <1>14 DEF JoinTimer, Controls, TypeOK, ControlSteps, Nobody, None
<1>15. ASSUME BeginStart
       PROVE  /\ stopped' = FALSE /\ failed' = FALSE /\ control' \in ControlSteps
              /\ UNCHANGED <<owner, timers, discovery, monitor, joining, hints, unserved>>
  BY <1>15 DEF BeginStart, Controls, ControlSteps
<1>16. ASSUME BeginStop
       PROVE  /\ stopped' = TRUE /\ control' \in ControlSteps /\ unserved' = FALSE
              /\ joining' \in [event : Thread \cup {None}, safety : Thread \cup {None}]
              /\ eventTimer' \in Thread \cup {None} /\ safetyTimer' \in Thread \cup {None}
              /\ UNCHANGED <<thread, owner, discovery, monitor, hints>>
  BY <1>16 DEF BeginStop, Controls, ControlSteps, TypeOK
<1>17. CASE Activate
  BY <1>15, <1>17 DEF Activate, TypeOK
<1>18. CASE RunTask
  <2>1. PICK i \in 1 .. 2 : RunTask!(i)
    BY <1>18 DEF RunTask
  <2>2. tasks' \in Seq(Nat \X BOOLEAN)
    <3>1. i \in 1 .. Len(tasks)
      BY <2>1 DEF TypeOK
    <3> QED
      BY <2>1, <3>1, WithoutKeepsOthers DEF TypeOK
  <2>3. UNCHANGED <<request, wanted, app>>
    BY <2>1
  <2>4. CASE BeginStart
    BY <1>15, <2>2, <2>3, <2>4 DEF TypeOK
  <2>5. CASE BeginStop /\ UNCHANGED failed
    BY <1>16, <2>2, <2>3, <2>5 DEF TypeOK
  <2>6. CASE UNCHANGED <<stopped, control, joining, owner, timers, discovery, monitor, history>>
    BY <2>2, <2>3, <2>6 DEF TypeOK
  <2> QED
    BY <2>1, <2>4, <2>5, <2>6
<1>19. CASE ShutdownStops
  BY <1>16, <1>19 DEF ShutdownStops, TypeOK
<1>20. CASE CloseDatabase \/ Shutdown
  BY <1>20 DEF CloseDatabase, Shutdown, TypeOK
<1>21. CASE SetLivePresence
  <2>1. request' \in 0 .. MaxRequests /\ request' \in Nat /\ request' = request + 1
    BY <1>21, BoundAssumption DEF SetLivePresence, TypeOK
  <2>2. PICK enabled \in BOOLEAN : wanted' = enabled /\ tasks' = Append(tasks, <<request', enabled>>)
    BY <1>21 DEF SetLivePresence
  <2>3. tasks' \in Seq(Nat \X BOOLEAN)
    BY <2>1, <2>2 DEF TypeOK
  <2> QED
    BY <1>21, <2>1, <2>2, <2>3 DEF SetLivePresence, TypeOK
<1>22. CASE UNCHANGED vars
  BY <1>22 DEF vars, TypeOK
<1> QED
  BY <1>1, <1>2, <1>3, <1>4, <1>5, <1>7, <1>8, <1>9, <1>10, <1>11, <1>12, <1>13, <1>14, <1>17,
     <1>18, <1>19, <1>20, <1>21, <1>22
     DEF Next, TimerThread, Reconcile, ReaderRuns, Control, Application, User, Network, Closed
-----------------------------------------------------------------------------
(* What kinds of steps leave alone.                                        *)
service == <<stopped, owner, timers, discovery, monitor, control, joining, history>>

LEMMA TimersLeaveControl ==
    ASSUME NEW t \in Thread, TimerThread(t)
    PROVE  /\ UNCHANGED <<stopped, monitor, control, joining, switch, app, hints, failed>>
           /\ unserved' # unserved => unserved' = FALSE
BY DEF TimerThread, Reconcile, Expire, EventFires, SafetyFires, Enter, CheckStopped, BeginScan, Probe,
       Write, EndScan, Decide, Notify, Reschedule, Leave, rest, history

LEMMA ReaderLeavesControl ==
    ASSUME ReaderRuns \/ ReadLine \/ ChildDies
    PROVE  /\ UNCHANGED <<stopped, apart>>
           /\ (Requested /\ ReaderRequests) \/ UNCHANGED <<timers, unserved>>
BY RequestArmsOne
   DEF ReaderRuns, Spawn, Own, HonorStop, ReadEnd, OnPresenceEvent, UpdatePresence, CloseReader,
       ReaderRequests, ReadLine, ChildDies, apart

LEMMA UserLeavesService ==
    ASSUME User \/ Closed \/ CloseDatabase \/ UNCHANGED vars
    PROVE  UNCHANGED service
BY DEF User, SetLivePresence, Shutdown, Closed, CloseDatabase, service, vars, history

LEMMA NetworkHints ==
    ASSUME NetworkChanged
    PROVE  /\ Requested
           /\ UNCHANGED <<stopped, owner, discovery, monitor, control, joining, switch, app, failed>>
BY RequestArmsOne DEF NetworkChanged

(* The application starts or stops the service, or leaves it alone.        *)
Starts == BeginStart
Stops == BeginStop /\ UNCHANGED failed
LEMMA ApplicationCalls ==
    ASSUME Activate \/ RunTask \/ ShutdownStops
    PROVE  Starts \/ Stops \/ UNCHANGED service
BY DEF Activate, RunTask, ShutdownStops, Starts, Stops, service, timers, monitor, history

(* Every step is one of these.                                             *)
LEMMA StepKinds ==
    ASSUME [Next]_vars
    PROVE  \/ \E t \in Thread : TimerThread(t)
           \/ (ReaderRuns \/ ReadLine \/ ChildDies) /\ UNCHANGED <<stopped, apart>>
           \/ NetworkChanged
           \/ Control
           \/ Starts \/ Stops
           \/ UNCHANGED service
BY ReaderLeavesControl, UserLeavesService, ApplicationCalls DEF Next, Network, Application, User

(* The steps of the other threads that may touch a timer thread.           *)
LEMMA OthersLeaveThreads ==
    ASSUME [Next]_vars
    PROVE  \/ \E t \in Thread : TimerThread(t)
           \/ Requested /\ UNCHANGED <<stopped, owner, discovery, control, joining, failed>>
           \/ StartSafety \/ CancelTimer
           \/ UNCHANGED <<thread, owner>>
<1>1. CASE ReaderRuns \/ ReadLine \/ ChildDies
  BY <1>1, ReaderLeavesControl DEF timers, apart
<1>2. CASE NetworkChanged
  BY <1>2, NetworkHints
<1>3. CASE Control
  BY <1>3 DEF Control, StartMonitor, CancelScan, JoinTimer, SignalReader, TerminateChild, JoinReader,
              JoinRaises, Drain, timers
<1>4. CASE Starts \/ Stops
  BY <1>4 DEF Starts, Stops, BeginStart, BeginStop, timers
<1>5. CASE UNCHANGED service
  BY <1>5 DEF service, timers
<1> QED
  BY <1>1, <1>2, <1>3, <1>4, <1>5, StepKinds
-----------------------------------------------------------------------------
(* One lemma per conjunct of the invariant.                                *)
LEMMA LockStep ==
    ASSUME TypeOK, LockIsHeld, [Next]_vars
    PROVE  LockIsHeld'
<1> USE DEF LockIsHeld, Reconciling, Scanning
<1>1. ASSUME NEW t \in Thread, TimerThread(t)
      PROVE  LockIsHeld'
  <2>1. CASE Expire(t) \/ EventFires(t) \/ SafetyFires(t)
    BY <2>1 DEF TypeOK, Expire, EventFires, SafetyFires, Move
  <2>2. CASE Enter(t)
    <3>1. owner = None /\ owner' = t /\ Move(t, "waiting", "entered")
      BY <2>2 DEF Enter
    <3>2. \A u \in Thread : u # None
      BY DEF Thread, None
    <3> QED
      BY <3>1, <3>2 DEF TypeOK, Move
  <2>3. CASE CheckStopped(t) \/ Leave(t)
    <3>1. \/ thread' = [thread EXCEPT ![t] = "begin"] /\ owner' = owner
          \/ thread' = [thread EXCEPT ![t] = "free"] /\ owner' = None
      BY <2>3 DEF CheckStopped, Leave, Move
    <3>2. owner = t /\ \A u \in Thread : u # None
      BY <2>3 DEF CheckStopped, Leave, Move, Thread, None
    <3> QED
      BY <3>1, <3>2 DEF TypeOK
  <2>4. CASE BeginScan(t) \/ Probe(t) \/ Write(t) \/ EndScan(t) \/ Decide(t) \/ Notify(t)
    <3>1. /\ owner' = owner /\ owner = t
          /\ thread' \in {[thread EXCEPT ![t] = to] : to \in Reconciling}
      BY <2>4 DEF BeginScan, Probe, Write, EndScan, Decide, Notify, Move
    <3> QED
      BY <3>1 DEF TypeOK
  <2>5. CASE Reschedule(t)
    <3>1. Scheduled([thread EXCEPT ![t] = "leaving"]) /\ owner' = owner /\ owner = t
      BY <2>5, ScheduleArmsOne DEF Reschedule
    <3> QED
      BY <3>1 DEF Scheduled, TypeOK
  <2> QED
    BY <1>1, <2>1, <2>2, <2>3, <2>4, <2>5 DEF TimerThread, Reconcile
<1>2. CASE Requested /\ owner' = owner
  BY <1>2 DEF Requested, timers, TypeOK
<1>3. CASE StartSafety
  <2>1. Scheduled(thread) /\ owner' = owner
    BY <1>3, ScheduleArmsOne DEF StartSafety
  <2> QED
    BY <2>1 DEF Scheduled, TypeOK
<1>4. CASE CancelTimer
  BY <1>4 DEF CancelTimer, Cancel, TypeOK
<1>5. CASE UNCHANGED <<thread, owner>>
  BY <1>5
<1> QED
  BY <1>1, <1>2, <1>3, <1>4, <1>5, OthersLeaveThreads

LEMMA ServiceStep ==
    ASSUME TypeOK, LockIsHeld, ServiceIsOwned, [Next]_vars
    PROVE  ServiceIsOwned'
<1> DEFINE Uses == {"probing", "writing", "recording"}
<1> USE DEF ServiceIsOwned
<1>1. ASSUME NEW t \in Thread, TimerThread(t)
      PROVE  ServiceIsOwned'
  <2>1. CASE \/ Expire(t) \/ EventFires(t) \/ SafetyFires(t) \/ Enter(t) \/ CheckStopped(t)
             \/ Decide(t) \/ Notify(t) \/ Leave(t)
    <3>1. /\ discovery' = discovery /\ thread[t] \notin Uses
          /\ \E to \in ThreadSteps : thread' = [thread EXCEPT ![t] = to]
      BY <2>1 DEF Expire, EventFires, SafetyFires, Enter, CheckStopped, Decide, Notify, Leave, Move,
                  ThreadSteps, Reconciling, Scanning
    <3> QED
      BY <3>1 DEF TypeOK
  <2>2. CASE BeginScan(t)
    BY <2>2 DEF BeginScan, Move, TypeOK
  <2>3. CASE Probe(t) \/ Write(t)
    BY <2>3 DEF Probe, Write, Move, TypeOK
  <2>4. CASE EndScan(t)
    BY <2>4 DEF EndScan
  <2>5. CASE Reschedule(t)
    <3>1. Scheduled([thread EXCEPT ![t] = "leaving"]) /\ discovery' = discovery
          /\ thread[t] \notin Uses
      BY <2>5, ScheduleArmsOne DEF Reschedule
    <3> QED
      BY <3>1 DEF Scheduled, TypeOK
  <2> QED
    BY <1>1, <2>1, <2>2, <2>3, <2>4, <2>5 DEF TimerThread, Reconcile
<1>2. CASE Requested /\ discovery' = discovery
  BY <1>2 DEF Requested, timers, TypeOK
<1>3. CASE StartSafety
  <2>1. Scheduled(thread) /\ discovery' = discovery
    BY <1>3, ScheduleArmsOne DEF StartSafety
  <2> QED
    BY <2>1 DEF Scheduled, TypeOK
<1>4. CASE CancelTimer
  BY <1>4 DEF CancelTimer, Cancel, TypeOK
<1>5. CASE \/ (ReaderRuns \/ ReadLine \/ ChildDies) /\ UNCHANGED <<stopped, apart>>
           \/ NetworkChanged
  BY <1>2, <1>5, ReaderLeavesControl, NetworkHints DEF apart, timers
<1>6. CASE Control
  <2>1. CASE CancelScan
    BY <2>1 DEF CancelScan, timers
  <2>2. CASE \/ StartMonitor \/ JoinTimer \/ SignalReader \/ TerminateChild \/ JoinReader
             \/ JoinRaises \/ Drain
    BY <2>2 DEF StartMonitor, JoinTimer, SignalReader, TerminateChild, JoinReader, JoinRaises, Drain,
                timers
  <2> QED
    BY <1>3, <1>4, <1>6, <2>1, <2>2 DEF Control
<1>7. CASE Starts \/ Stops \/ UNCHANGED service
  BY <1>7 DEF Starts, Stops, BeginStart, BeginStop, service, timers
<1> QED
  BY <1>1, <1>5, <1>6, <1>7, StepKinds

LEMMA TimersStep ==
    ASSUME TypeOK, StopOwnsTimers, TimersArePending, [Next]_vars
    PROVE  TimersArePending'
<1> USE DEF TimersArePending
<1>1. ASSUME NEW t \in Thread, TimerThread(t)
      PROVE  TimersArePending'
  <2>1. CASE Expire(t) \/ EventFires(t) \/ SafetyFires(t)
    BY <2>1 DEF Expire, EventFires, SafetyFires, Move, TypeOK
  <2>2. CASE Reschedule(t)
    <3>1. Scheduled([thread EXCEPT ![t] = "leaving"]) /\ thread[t] = "rescheduling"
      BY <2>2, ScheduleArmsOne DEF Reschedule
    <3> QED
      BY <3>1 DEF Scheduled, TypeOK
  <2>3. CASE Reconcile(t) /\ ~Reschedule(t)
    <3>1. /\ UNCHANGED <<eventTimer, safetyTimer>> /\ thread[t] \in Reconciling \cup {"waiting"}
          /\ \E to \in ThreadSteps : thread' = [thread EXCEPT ![t] = to]
      BY <2>3 DEF Reconcile, Enter, CheckStopped, BeginScan, Probe, Write, EndScan, Decide, Notify,
                  Leave, Move, rest, ThreadSteps, Reconciling, Scanning
    <3> QED
      BY <3>1 DEF TypeOK, Reconciling, Scanning
  <2> QED
    BY <1>1, <2>1, <2>2, <2>3 DEF TimerThread
<1>2. CASE Requested
  BY <1>2 DEF Requested, timers, TypeOK
<1>3. CASE StartSafety
  <2>1. Scheduled(thread)
    BY <1>3, ScheduleArmsOne DEF StartSafety
  <2> QED
    BY <2>1 DEF Scheduled, TypeOK
<1>4. CASE CancelTimer
  BY <1>4 DEF CancelTimer, StopOwnsTimers, timers
<1>5. CASE \/ (ReaderRuns \/ ReadLine \/ ChildDies) /\ UNCHANGED <<stopped, apart>>
           \/ NetworkChanged
  BY <1>2, <1>5, ReaderLeavesControl, NetworkHints DEF timers
<1>6. CASE Control
  <2>1. CASE \/ StartMonitor \/ CancelScan \/ JoinTimer \/ SignalReader \/ TerminateChild
             \/ JoinReader \/ JoinRaises \/ Drain
    BY <2>1 DEF StartMonitor, CancelScan, JoinTimer, SignalReader, TerminateChild, JoinReader,
                JoinRaises, Drain, timers
  <2> QED
    BY <1>3, <1>4, <1>6, <2>1 DEF Control
<1>7. CASE Starts \/ Stops \/ UNCHANGED service
  BY <1>7 DEF Starts, Stops, BeginStart, BeginStop, service, timers
<1> QED
  BY <1>1, <1>5, <1>6, <1>7, StepKinds

LEMMA StopTimersStep ==
    ASSUME TypeOK, ControlInStep, StopOwnsTimers, [Next]_vars
    PROVE  StopOwnsTimers'
<1> USE DEF StopOwnsTimers, ControlInStep, Stopping, Starting
<1>1. ASSUME NEW t \in Thread, TimerThread(t)
      PROVE  StopOwnsTimers'
  <2>1. UNCHANGED <<stopped, control, joining>>
    BY <1>1, TimersLeaveControl
  <2>2. joining # Nobody => eventTimer' = None /\ safetyTimer' = None
    <3>1. CASE Expire(t) \/ EventFires(t) \/ SafetyFires(t)
      BY <3>1 DEF Expire, EventFires, SafetyFires
    <3>2. CASE Reschedule(t)
      <4>1. Scheduled([thread EXCEPT ![t] = "leaving"])
        BY <3>2, ScheduleArmsOne DEF Reschedule
      <4> QED
        BY <4>1 DEF Scheduled
    <3>3. CASE Reconcile(t) /\ ~Reschedule(t)
      BY <3>3 DEF Reconcile, Enter, CheckStopped, BeginScan, Probe, Write, EndScan, Decide, Notify,
                  Leave, rest
    <3> QED
      BY <1>1, <3>1, <3>2, <3>3 DEF TimerThread
  <2> QED
    BY <2>1, <2>2
<1>2. CASE Requested /\ UNCHANGED <<stopped, control, joining>>
  BY <1>2 DEF Requested, timers
<1>3. CASE \/ (ReaderRuns \/ ReadLine \/ ChildDies) /\ UNCHANGED <<stopped, apart>>
           \/ NetworkChanged
  BY <1>2, <1>3, ReaderLeavesControl, NetworkHints DEF timers, apart
<1>4. CASE Control
  <2>1. CASE StartMonitor \/ CancelScan
    BY <2>1 DEF StartMonitor, CancelScan, Controls, timers
  <2>5. CASE JoinTimer
    <3>1. /\ UNCHANGED <<stopped, timers>> /\ control = "join" /\ control' = "timers"
          /\ \/ joining.event # None
             \/ joining' = Nobody
      BY <2>5 DEF JoinTimer, Controls
    <3>2. joining.event # None => joining # Nobody
      BY DEF Nobody
    <3> QED
      BY <3>1, <3>2 DEF timers
  <2>2. CASE SignalReader \/ TerminateChild \/ JoinReader \/ JoinRaises \/ Drain
    BY <2>2 DEF SignalReader, TerminateChild, JoinReader, JoinRaises, Drain, Controls, timers
  <2>3. CASE StartSafety
    BY <2>3 DEF StartSafety, Controls
  <2>4. CASE CancelTimer
    BY <2>4 DEF CancelTimer, Controls
  <2> QED
    BY <1>4, <2>1, <2>2, <2>3, <2>4, <2>5 DEF Control
<1>5. CASE Starts \/ Stops \/ UNCHANGED service
  BY <1>5 DEF Starts, Stops, BeginStart, BeginStop, Controls, service, timers
<1> QED
  BY <1>1, <1>3, <1>4, <1>5, StepKinds

LEMMA ControlStep ==
    ASSUME TypeOK, ControlInStep, [Next]_vars
    PROVE  ControlInStep'
<1> USE DEF ControlInStep, Stopping, Starting
<1>1. ASSUME NEW t \in Thread, TimerThread(t)
      PROVE  ControlInStep'
  BY <1>1, TimersLeaveControl
<1>2. CASE Requested /\ UNCHANGED <<stopped, control, failed>>
  BY <1>2 DEF Requested
<1>3. CASE \/ (ReaderRuns \/ ReadLine \/ ChildDies) /\ UNCHANGED <<stopped, apart>>
           \/ NetworkChanged
  BY <1>2, <1>3, ReaderLeavesControl, NetworkHints DEF apart
<1>4. CASE Control
  <2>1. CASE StartMonitor
    BY <2>1 DEF StartMonitor, Controls
  <2>2. CASE \/ StartSafety \/ CancelScan \/ CancelTimer \/ JoinTimer
             \/ SignalReader \/ TerminateChild \/ JoinReader \/ JoinRaises \/ Drain
    BY <2>2 DEF StartSafety, CancelScan, CancelTimer, JoinTimer, SignalReader, TerminateChild,
                JoinReader, JoinRaises, Drain, Controls, history
  <2> QED
    BY <1>4, <2>1, <2>2 DEF Control
<1>5. CASE Starts
  BY <1>5 DEF Starts, BeginStart, Controls
<1>6. CASE Stops
  BY <1>6 DEF Stops, BeginStop, Controls
<1>7. CASE UNCHANGED service
  BY <1>7 DEF service, history
<1> QED
  BY <1>1, <1>3, <1>4, <1>5, <1>6, <1>7, StepKinds

LEMMA ReaderStep ==
    ASSUME TypeOK, ControlInStep, ReaderInStep, [Next]_vars
    PROVE  ReaderInStep'
<1> USE DEF ReaderInStep
<1>1. ASSUME NEW t \in Thread, TimerThread(t)
      PROVE  ReaderInStep'
  BY <1>1, TimersLeaveControl DEF monitor
<1>2. CASE (ReaderRuns \/ ReadLine \/ ChildDies) /\ UNCHANGED <<stopped, apart>>
  BY <1>2 DEF ReaderRuns, Spawn, Own, HonorStop, ReadEnd, OnPresenceEvent, UpdatePresence,
              CloseReader, ReaderRequests, ReadLine, ChildDies, apart, monitor, TypeOK
<1>3. CASE NetworkChanged
  BY <1>3, NetworkHints DEF monitor
<1>4. CASE Control
  <2>1. CASE StartMonitor
    BY <2>1 DEF StartMonitor, Controls, monitor
  <2>2. CASE StartSafety \/ CancelScan \/ CancelTimer \/ JoinTimer
    BY <2>2 DEF StartSafety, CancelScan, CancelTimer, JoinTimer, Controls, monitor, history
  <2>3. CASE SignalReader \/ TerminateChild \/ JoinReader \/ JoinRaises \/ Drain
    BY <2>3 DEF SignalReader, TerminateChild, JoinReader, JoinRaises, Drain, Controls, monitor, history
  <2> QED
    BY <1>4, <2>1, <2>2, <2>3 DEF Control
<1>5. CASE Starts \/ Stops
  BY <1>5 DEF Starts, Stops, BeginStart, BeginStop, Controls, monitor, ControlInStep
<1>6. CASE UNCHANGED service
  BY <1>6 DEF service, history, monitor
<1> QED
  BY <1>1, <1>2, <1>3, <1>4, <1>5, <1>6, StepKinds

(* A pool worker's task: only the last request of a running application    *)
(* reaches the service.                                                    *)
LEMMA TaskCalls ==
    ASSUME TypeOK, RunTask
    PROVE  /\ UNCHANGED <<request, wanted, app>>
           /\ \E i \in 1 .. Len(tasks) :
                 /\ tasks' = Without(tasks, i)
                 /\ \/ app = "running" /\ tasks[i][1] = request /\ tasks[i][2] /\ Starts
                    \/ app = "running" /\ tasks[i][1] = request /\ ~tasks[i][2] /\ Stops
                    \/ app # "running" /\ UNCHANGED service
                    \/ tasks[i][1] # request /\ UNCHANGED service
<1>1. PICK i \in 1 .. 2 : RunTask!(i)
  BY DEF RunTask
<1>2. i \in 1 .. Len(tasks)
  BY <1>1 DEF TypeOK
<1>3. \/ app = "running" /\ tasks[i][1] = request /\ tasks[i][2] /\ Starts
      \/ app = "running" /\ tasks[i][1] = request /\ ~tasks[i][2] /\ Stops
      \/ app # "running" /\ UNCHANGED service
      \/ tasks[i][1] # request /\ UNCHANGED service
  BY <1>1 DEF Current, Outdated, Starts, Stops, service
<1> QED
  BY <1>1, <1>2, <1>3

LEMMA ShutdownStep ==
    ASSUME TypeOK, ControlInStep, ShutdownInStep, [Next]_vars
    PROVE  ShutdownInStep'
<1> USE DEF ShutdownInStep, ControlInStep, Stopping, Starting
<1>1. ASSUME NEW t \in Thread, TimerThread(t)
      PROVE  ShutdownInStep'
  BY <1>1, TimersLeaveControl
<1>2. CASE ReaderRuns \/ ReadLine \/ ChildDies
  BY <1>2, ReaderLeavesControl DEF apart
<1>3. CASE NetworkChanged
  BY <1>3, NetworkHints
<1>4. CASE Control
  <2>1. CASE StartMonitor \/ JoinRaises
    BY <2>1 DEF StartMonitor, JoinRaises, Controls
  <2>2. CASE \/ StartSafety \/ CancelScan \/ CancelTimer \/ JoinTimer
             \/ SignalReader \/ TerminateChild \/ JoinReader \/ Drain
    BY <2>2 DEF StartSafety, CancelScan, CancelTimer, JoinTimer, SignalReader, TerminateChild,
                JoinReader, Drain, Controls
  <2> QED
    BY <1>4, <2>1, <2>2 DEF Control
<1>5. CASE Activate
  BY <1>5 DEF Activate
<1>6. CASE RunTask
  BY <1>6, TaskCalls DEF service
<1>7. CASE ShutdownStops
  BY <1>7 DEF ShutdownStops, BeginStop
<1>8. CASE CloseDatabase \/ Shutdown \/ SetLivePresence
  BY <1>8 DEF CloseDatabase, Shutdown, SetLivePresence
<1>9. CASE UNCHANGED vars
  BY <1>9 DEF vars
<1> QED
  BY <1>1, <1>2, <1>3, <1>4, <1>5, <1>6, <1>7, <1>8, <1>9 DEF Next, Application, User, Network, Closed

LEMMA QuietStep ==
    ASSUME TypeOK, Inductive, [Next]_vars
    PROVE  StoppedMeansQuiet'
<1> DEFINE Still == stopped /\ control = "idle" /\ (~failed \/ app \in {"draining", "closed"})
           Silent == reader = "none" /\ \A t \in Thread : thread[t] \notin Committed
<1> USE DEF Inductive, StoppedMeansQuiet
<1>1. ASSUME NEW t \in Thread, TimerThread(t)
      PROVE  StoppedMeansQuiet'
  <2>1. UNCHANGED <<stopped, control, failed, app, reader>>
    BY <1>1, TimersLeaveControl DEF monitor
  <2>2. SUFFICES ASSUME Still PROVE \A u \in Thread : thread'[u] \notin Committed
    BY <2>1
  <2>3. stopped /\ thread[t] \notin Committed
    BY <2>2
  <2>4. thread[t] \in {"eventArmed", "safetyArmed", "eventFired", "safetyFired", "waiting", "entered"}
    BY <1>1, <2>3 DEF TimerThread, Reconcile, Expire, EventFires, SafetyFires, Enter, CheckStopped,
                      BeginScan, Probe, Write, EndScan, Decide, Notify, Reschedule, Leave, Move,
                      Committed, Unchecked, Reconciling, Scanning
  <2>5. \E to \in {"eventFired", "safetyFired", "waiting", "entered", "free"} :
           thread' = [thread EXCEPT ![t] = to]
    BY <1>1, <2>3, <2>4
       DEF TimerThread, Reconcile, Expire, EventFires, SafetyFires, Enter, CheckStopped,
           BeginScan, Probe, Write, EndScan, Decide, Notify, Reschedule, Leave, Move
  <2> QED
    BY <2>2, <2>5 DEF TypeOK, Committed, Unchecked, Reconciling, Scanning
<1>2. CASE ReaderRuns \/ ReadLine \/ ChildDies
  <2>1. UNCHANGED <<stopped, control, failed, app>>
    BY <1>2, ReaderLeavesControl DEF apart
  <2>2. reader = "none" => UNCHANGED <<reader, thread>>
    BY <1>2 DEF ReaderRuns, Spawn, Own, HonorStop, ReadEnd, OnPresenceEvent, UpdatePresence,
                CloseReader, ReaderRequests, ReadLine, ChildDies, timers
  <2> QED
    BY <2>1, <2>2
<1>3. CASE NetworkChanged
  BY <1>3, NetworkHints DEF Requested, monitor, timers
<1>4. CASE Control
  <2>1. CASE StartMonitor
    BY <2>1 DEF StartMonitor, Controls, ControlInStep, ShutdownInStep, Starting
  <2>2. CASE StartSafety
    BY <2>2 DEF StartSafety, Controls, ControlInStep, Starting
  <2>3. CASE JoinRaises
    BY <2>3 DEF JoinRaises, Controls, ReaderInStep, ShutdownInStep, history
  <2>4. CASE Drain
    <3>1. \A t \in Thread : thread[t] \notin Committed
      BY <2>4 DEF Drain, LockIsHeld, Committed, Thread, None
    <3> QED
      BY <2>4, <3>1 DEF Drain, Controls, ReaderInStep, monitor, timers
  <2>5. CASE CancelScan \/ CancelTimer \/ JoinTimer \/ SignalReader \/ TerminateChild \/ JoinReader
    BY <2>5 DEF CancelScan, CancelTimer, JoinTimer, SignalReader, TerminateChild, JoinReader, Controls
  <2> QED
    BY <1>4, <2>1, <2>2, <2>3, <2>4, <2>5 DEF Control
<1>5. CASE Starts \/ Stops
  BY <1>5 DEF Starts, Stops, BeginStart, BeginStop, Controls
<1>6. CASE UNCHANGED service /\ (app' \in {"draining", "closed"} => app \in {"draining", "closed"})
  BY <1>6 DEF service, timers, monitor, history
<1>7. CASE Activate
  <2>1. app' = "running" /\ (Starts \/ UNCHANGED service)
    BY <1>7 DEF Activate, Starts, BeginStart, service, timers, monitor, history
  <2> QED
    BY <1>5, <1>6, <2>1
<1>8. CASE RunTask
  BY <1>5, <1>6, <1>8, TaskCalls
<1>9. CASE ShutdownStops
  BY <1>5, <1>9 DEF ShutdownStops, Stops
<1>10. CASE User \/ CloseDatabase \/ Closed \/ UNCHANGED vars
  <2>1. UNCHANGED service
    BY <1>10, UserLeavesService
  <2>2. app' \in {"draining", "closed"} => app \in {"draining", "closed"}
    BY <1>10 DEF User, SetLivePresence, Shutdown, CloseDatabase, Closed, vars
  <2> QED
    BY <1>6, <2>1, <2>2
<1> QED
  BY <1>1, <1>2, <1>3, <1>4, <1>7, <1>8, <1>9, <1>10 DEF Next, Application, Network

LEMMA RequestsStep ==
    ASSUME TypeOK, ControlInStep, RequestsInStep, [Next]_vars
    PROVE  RequestsInStep'
<1> USE DEF RequestsInStep
<1>0. request \in Nat /\ Len(tasks) \in Nat
  BY DEF TypeOK
<1>1. CASE UNCHANGED <<stopped, failed, switch, app>>
  BY <1>1 DEF switch
<1>2. ASSUME NEW t \in Thread, TimerThread(t)
      PROVE  RequestsInStep'
  BY <1>1, <1>2, TimersLeaveControl
<1>3. CASE ReaderRuns \/ ReadLine \/ ChildDies
  BY <1>1, <1>3, ReaderLeavesControl DEF apart
<1>4. CASE NetworkChanged
  BY <1>1, <1>4, NetworkHints
<1>5. CASE Control
  <2>1. CASE StartMonitor
    <3>1. CASE UNCHANGED <<stopped, failed>>
      BY <1>1, <2>1, <3>1 DEF StartMonitor
    <3>2. CASE stopped' = TRUE /\ failed' = TRUE
      <4>1. UNCHANGED <<switch, app>> /\ ~stopped
        BY <2>1 DEF StartMonitor, Controls, ControlInStep, Starting
      <4> QED
        BY <3>2, <4>1 DEF switch
    <3> QED
      BY <2>1, <3>1, <3>2 DEF StartMonitor
  <2>2. CASE JoinRaises
    BY <2>2 DEF JoinRaises, switch, history
  <2>3. CASE \/ StartSafety \/ CancelScan \/ CancelTimer \/ JoinTimer
             \/ SignalReader \/ TerminateChild \/ JoinReader \/ Drain
    BY <1>1, <2>3 DEF StartSafety, CancelScan, CancelTimer, JoinTimer, SignalReader, TerminateChild,
                JoinReader, Drain, history
  <2> QED
    BY <1>5, <2>1, <2>2, <2>3 DEF Control
<1>6. CASE Activate
  <2>1. app = "activating" /\ app' = "running" /\ UNCHANGED switch
    BY <1>6 DEF Activate
  <2>2. stopped' = ~wanted'
    <3>1. wanted \in BOOLEAN /\ wanted' = wanted /\ stopped
      BY <2>1 DEF switch, TypeOK
    <3>2. CASE wanted /\ BeginStart
      BY <3>1, <3>2 DEF BeginStart
    <3>3. CASE ~wanted /\ stopped' = stopped
      BY <3>1, <3>3
    <3> QED
      BY <1>6, <3>2, <3>3 DEF Activate
  <2> QED
    BY <2>1, <2>2 DEF switch
<1>7. CASE RunTask
  <2>1. PICK i \in 1 .. Len(tasks) :
           /\ tasks' = Without(tasks, i)
           /\ \/ app = "running" /\ tasks[i][1] = request /\ tasks[i][2] /\ Starts
              \/ app = "running" /\ tasks[i][1] = request /\ ~tasks[i][2] /\ Stops
              \/ app # "running" /\ UNCHANGED service
              \/ tasks[i][1] # request /\ UNCHANGED service
    BY <1>7, TaskCalls
  <2>2. UNCHANGED <<request, wanted, app>>
    BY <1>7, TaskCalls
  <2>3. /\ \A j \in 1 .. Len(tasks) :
              j # i => \E k \in 1 .. Len(tasks') : tasks'[k] = tasks[j]
        /\ \A k \in 1 .. Len(tasks') : \E j \in 1 .. Len(tasks) : tasks'[k] = tasks[j]
    <3>1. tasks \in Seq(Nat \X BOOLEAN)
      BY DEF TypeOK
    <3>2. tasks' = Without(tasks, i)
      BY <2>1
    <3> QED
      BY <3>1, <3>2, WithoutKeepsOthers
  <2>4. \A k \in 1 .. Len(tasks') :
           tasks'[k][1] <= request' /\ (tasks'[k][1] = request' => tasks'[k][2] = wanted')
    BY <2>2, <2>3
  <2>5. app # "activating"
    BY <2>1 DEF TypeOK
  <2>6. app = "running" =>
           \/ \E k \in 1 .. Len(tasks') : tasks'[k][1] = request'
           \/ failed'
           \/ stopped' = ~wanted'
    <3>1. CASE tasks[i][1] = request /\ tasks[i][2] /\ Starts
      BY <2>2, <3>1 DEF Starts, BeginStart, TypeOK
    <3>2. CASE tasks[i][1] = request /\ ~tasks[i][2] /\ Stops
      BY <2>2, <3>2 DEF Stops, BeginStop, TypeOK
    <3>3. CASE tasks[i][1] # request /\ UNCHANGED service
      BY <2>2, <2>3, <3>3 DEF service, history
    <3> QED
      BY <2>1, <3>1, <3>2, <3>3
  <2> QED
    BY <2>2, <2>4, <2>5, <2>6
<1>8. CASE SetLivePresence
  <2>1. /\ request' = request + 1 /\ app = "running" /\ app' = app
        /\ \E enabled \in BOOLEAN : wanted' = enabled /\ tasks' = Append(tasks, <<request', enabled>>)
    BY <1>8 DEF SetLivePresence
  <2>2. tasks' = Append(tasks, <<request', wanted'>>)
    BY <2>1
  <2>3. /\ Len(tasks') = Len(tasks) + 1
        /\ tasks'[Len(tasks) + 1] = <<request', wanted'>>
        /\ \A j \in 1 .. Len(tasks) : tasks'[j] = tasks[j]
    BY <2>2 DEF TypeOK
  <2>4. \A j \in 1 .. Len(tasks) : tasks[j][1] \in Nat
    BY DEF TypeOK
  <2>5. \A j \in 1 .. Len(tasks') : j \in 1 .. Len(tasks) \/ j = Len(tasks) + 1
    BY <1>0, <2>3
  <2>6. \A j \in 1 .. Len(tasks') :
           tasks'[j][1] <= request' /\ (tasks'[j][1] = request' => tasks'[j][2] = wanted')
    BY <1>0, <2>1, <2>3, <2>4, <2>5
  <2>7. Len(tasks) + 1 \in 1 .. Len(tasks') /\ tasks'[Len(tasks) + 1][1] = request'
    BY <1>0, <2>3
  <2> QED
    BY <2>1, <2>6, <2>7
<1>9. CASE ShutdownStops \/ CloseDatabase \/ Shutdown
  BY <1>9 DEF ShutdownStops, CloseDatabase, Shutdown, switch
<1>10. CASE UNCHANGED vars
  BY <1>1, <1>10 DEF vars, history
<1> QED
  BY <1>2, <1>3, <1>4, <1>5, <1>6, <1>7, <1>8, <1>9, <1>10 DEF Next, Application, User, Network, Closed

LEMMA ChainStep ==
    ASSUME TypeOK, Inductive, [Next]_vars
    PROVE  SafetyChain'
<1> DEFINE On == ~stopped /\ control \notin Starting
           Links == Alive(safetyTimer) \/ \E t \in Thread : thread[t] \in Chained
<1>0. SafetyChain <=> (On => Links)
  BY DEF SafetyChain, Starting, Chained
<1>00. SafetyChain' <=> (On' => Links')
  BY DEF SafetyChain, Starting, Chained
<1> USE DEF Inductive, Alive
<1>1. ASSUME NEW t \in Thread, TimerThread(t)
      PROVE  SafetyChain'
  <2>1. UNCHANGED <<stopped, control>>
    BY <1>1, TimersLeaveControl
  <2>2. SUFFICES ASSUME On, Links PROVE Links'
    BY <1>0, <1>00, <2>1
  <2>3. CASE Expire(t)
    BY <2>2, <2>3 DEF Expire, Move, TypeOK, Chained
  <2>4. CASE EventFires(t) \/ SafetyFires(t)
    BY <2>2, <2>4 DEF EventFires, SafetyFires, Move, TypeOK, Chained
  <2>5. CASE \/ Enter(t) \/ BeginScan(t) \/ Probe(t) \/ Write(t) \/ EndScan(t) \/ Decide(t)
             \/ Notify(t) \/ CheckStopped(t)
    <3>1. \E to \in Chained : thread' = [thread EXCEPT ![t] = to]
      BY <2>2, <2>5 DEF Enter, BeginScan, Probe, Write, EndScan, Decide, Notify, CheckStopped, Move,
                        Chained, Reconciling, Scanning
    <3> QED
      BY <3>1 DEF TypeOK
  <2>6. CASE Reschedule(t)
    <3>1. Scheduled([thread EXCEPT ![t] = "leaving"]) /\ thread[t] = "rescheduling"
      BY <2>6, ScheduleArmsOne DEF Reschedule
    <3>2. \A f \in Thread : f # None
      BY DEF Thread, None
    <3>3. safetyTimer # t
      BY <3>1, <3>2 DEF TimersArePending
    <3> QED
      BY <2>2, <3>1, <3>2, <3>3 DEF Scheduled, TypeOK
  <2>7. CASE Leave(t)
    <3>1. thread[t] = "leaving" /\ thread' = [thread EXCEPT ![t] = "free"] /\ safetyTimer' = safetyTimer
      BY <2>7 DEF Leave, Move, rest
    <3> QED
      BY <2>2, <3>1 DEF TypeOK, TimersArePending, Chained, Reconciling, Scanning
  <2> QED
    BY <1>1, <2>3, <2>4, <2>5, <2>6, <2>7 DEF TimerThread, Reconcile
<1>2. CASE Requested /\ UNCHANGED <<stopped, control>>
  <2>1. SUFFICES ASSUME On, Links PROVE Links'
    BY <1>0, <1>00, <1>2
  <2> QED
    BY <1>2, <2>1 DEF Requested, timers, TypeOK, Chained, Reconciling, Scanning
<1>3. CASE \/ ReaderRuns \/ ReadLine \/ ChildDies
           \/ NetworkChanged
  <2>1. CASE UNCHANGED timers /\ UNCHANGED <<stopped, control>>
    BY <1>0, <1>00, <2>1 DEF timers
  <2> QED
    BY <1>2, <1>3, <2>1, ReaderLeavesControl, NetworkHints DEF apart
<1>4. CASE Control
  <2>1. CASE StartSafety
    <3>1. Scheduled(thread) /\ stopped' = stopped /\ control = "schedule"
      BY <2>1, ScheduleArmsOne DEF StartSafety, Controls
    <3>2. ~stopped
      BY <3>1 DEF ControlInStep, Starting
    <3>3. \A f \in Thread : f # None
      BY DEF Thread, None
    <3>4. Links'
      BY <3>1, <3>2, <3>3 DEF Scheduled, TypeOK
    <3> QED
      BY <1>00, <3>4
  <2>2. CASE StartMonitor
    BY <1>00, <2>2 DEF StartMonitor, Controls, Starting
  <2>3. CASE \/ CancelScan \/ CancelTimer \/ JoinTimer
             \/ SignalReader \/ TerminateChild \/ JoinReader \/ JoinRaises \/ Drain
    <3>1. control \in Stopping /\ stopped' = stopped
      BY <2>3 DEF CancelScan, CancelTimer, JoinTimer, SignalReader, TerminateChild, JoinReader,
                  JoinRaises, Drain, Controls, Stopping
    <3> QED
      BY <1>00, <3>1 DEF ControlInStep
  <2> QED
    BY <1>4, <2>1, <2>2, <2>3 DEF Control
<1>5. CASE Starts
  BY <1>0, <1>00, <1>5 DEF Starts, BeginStart, Controls, timers, Starting
<1>6. CASE Stops
  BY <1>00, <1>6 DEF Stops, BeginStop
<1>7. CASE UNCHANGED service
  BY <1>0, <1>00, <1>7 DEF service, timers
<1> QED
  BY <1>1, <1>3, <1>4, <1>5, <1>6, <1>7, StepKinds

LEMMA HintsStep ==
    ASSUME TypeOK, Inductive, [Next]_vars
    PROVE  HintsAreServed'
<1>0. HintsAreServed <=> (unserved => \E t \in Thread : thread[t] \in Awaiting)
  BY DEF HintsAreServed, Awaiting
<1>00. HintsAreServed' <=> (unserved' => \E t \in Thread : thread'[t] \in Awaiting)
  BY DEF HintsAreServed, Awaiting
<1> USE DEF Inductive
<1>1. ASSUME NEW t \in Thread, TimerThread(t)
      PROVE  HintsAreServed'
  <2>1. SUFFICES ASSUME unserved, unserved' PROVE \E u \in Thread : thread'[u] \in Awaiting
    BY <1>00, <1>1, TimersLeaveControl
  <2>2. PICK w \in Thread : thread[w] \in Awaiting
    BY <1>0, <2>1
  <2>3. ~stopped
    BY <2>1 DEF ControlInStep
  <2>4. CASE Expire(t) \/ EventFires(t) \/ SafetyFires(t) \/ Enter(t) \/ CheckStopped(t)
    BY <2>2, <2>3, <2>4 DEF Expire, EventFires, SafetyFires, Enter, CheckStopped, Move, TypeOK, Awaiting
  <2>5. CASE BeginScan(t)
    <3>1. discovery # "idle"
      BY <2>1, <2>5 DEF BeginScan
    <3>2. thread[t] = "begin"
      BY <2>5 DEF BeginScan, Move
    <3> QED
      BY <3>1, <3>2 DEF ServiceIsOwned, LockIsHeld, Reconciling, Scanning
  <2>6. CASE Probe(t) \/ Write(t) \/ EndScan(t) \/ Decide(t) \/ Notify(t) \/ Leave(t)
    <3>1. thread[t] \notin Awaiting /\ \E to \in ThreadSteps : thread' = [thread EXCEPT ![t] = to]
      BY <2>6 DEF Probe, Write, EndScan, Decide, Notify, Leave, Move, Awaiting, ThreadSteps,
                  Reconciling, Scanning
    <3> QED
      BY <2>2, <3>1 DEF TypeOK
  <2>7. CASE Reschedule(t)
    <3>1. Scheduled([thread EXCEPT ![t] = "leaving"]) /\ thread[t] = "rescheduling"
      BY <2>7, ScheduleArmsOne DEF Reschedule
    <3> QED
      BY <2>2, <3>1 DEF Scheduled, TypeOK, Awaiting
  <2> QED
    BY <1>1, <2>4, <2>5, <2>6, <2>7 DEF TimerThread, Reconcile
<1>2. CASE Requested
  <2>1. CASE UNCHANGED timers /\ UNCHANGED unserved
    BY <1>0, <1>00, <2>1 DEF timers
  <2>2. CASE UNCHANGED timers /\ Alive(eventTimer)
    <3>1. eventTimer \in Thread /\ thread[eventTimer] \in {"eventArmed", "eventFired"}
      BY <2>2 DEF Alive, TimersArePending, TypeOK
    <3> QED
      BY <1>00, <2>2, <3>1 DEF timers, Awaiting
  <2>3. CASE \E f \in Thread : thread' = [thread EXCEPT ![f] = "eventArmed"]
    BY <1>00, <2>3 DEF TypeOK, Awaiting
  <2> QED
    BY <1>2, <2>1, <2>2, <2>3 DEF Requested
<1>3. CASE \/ ReaderRuns \/ ReadLine \/ ChildDies
           \/ NetworkChanged
  <2>1. CASE UNCHANGED <<timers, unserved>>
    BY <1>0, <1>00, <2>1 DEF timers
  <2> QED
    BY <1>2, <1>3, <2>1, ReaderLeavesControl, NetworkHints
<1>4. CASE Control
  <2>1. CASE StartSafety
    <3>1. Scheduled(thread) /\ unserved' = unserved
      BY <2>1, ScheduleArmsOne DEF StartSafety, history
    <3> QED
      BY <1>0, <1>00, <3>1 DEF Scheduled, TypeOK, Awaiting
  <2>2. CASE StartMonitor
    BY <1>0, <1>00, <2>2 DEF StartMonitor, timers
  <2>3. CASE CancelTimer
    BY <1>00, <2>3 DEF CancelTimer, Controls, ControlInStep, Stopping, history
  <2>4. CASE CancelScan \/ JoinTimer \/ SignalReader \/ TerminateChild \/ JoinReader \/ JoinRaises \/ Drain
    BY <1>0, <1>00, <2>4 DEF CancelScan, JoinTimer, SignalReader, TerminateChild, JoinReader,
                             JoinRaises, Drain, timers, history
  <2> QED
    BY <1>4, <2>1, <2>2, <2>3, <2>4 DEF Control
<1>5. CASE Starts \/ Stops
  BY <1>0, <1>00, <1>5 DEF Starts, Stops, BeginStart, BeginStop, timers
<1>6. CASE UNCHANGED service
  BY <1>0, <1>00, <1>6 DEF service, timers, history
<1> QED
  BY <1>1, <1>3, <1>4, <1>5, <1>6, StepKinds
-----------------------------------------------------------------------------
(* Nothing runs before the window is built.                                *)
LEMMA InductiveInit == Init => Inductive
<1> SUFFICES ASSUME Init PROVE Inductive
  OBVIOUS
<1>1. \A t \in Thread : thread[t] = "free" /\ t # None
  BY DEF Init, Thread, None
<1>2. LockIsHeld /\ ServiceIsOwned /\ TimersArePending /\ StopOwnsTimers
  BY <1>1 DEF Init, LockIsHeld, ServiceIsOwned, TimersArePending, StopOwnsTimers, Reconciling, Scanning
<1>3. ControlInStep /\ ReaderInStep /\ ShutdownInStep
  BY DEF Init, ControlInStep, ReaderInStep, ShutdownInStep, Stopping, Starting
<1>4. StoppedMeansQuiet
  BY <1>1 DEF Init, StoppedMeansQuiet, Committed, Reconciling, Scanning
<1>5. RequestsInStep
  <2>1. stopped /\ app = "activating" /\ request = 0 /\ tasks = << >>
    BY DEF Init
  <2>2. \A i \in 1 .. Len(tasks) : FALSE
    BY <2>1
  <2> QED
    BY <2>1, <2>2 DEF RequestsInStep
<1>6. SafetyChain /\ HintsAreServed
  BY DEF Init, SafetyChain, HintsAreServed
<1> QED
  BY <1>2, <1>3, <1>4, <1>5, <1>6 DEF Inductive

(* The invariant holds at every moment of every run.                       *)
LEMMA InductiveInvariant == Spec => [](TypeOK /\ Inductive)
<1>1. Init => TypeOK /\ Inductive
  BY TypeInit, InductiveInit
<1>2. TypeOK /\ Inductive /\ [Next]_vars => (TypeOK /\ Inductive)'
  <2> SUFFICES ASSUME TypeOK, Inductive, [Next]_vars
               PROVE  TypeOK' /\ Inductive'
    OBVIOUS
  <2>1. TypeOK'
    BY TypeStep
  <2>2. LockIsHeld' /\ ServiceIsOwned' /\ TimersArePending' /\ StopOwnsTimers'
    BY LockStep, ServiceStep, TimersStep, StopTimersStep DEF Inductive
  <2>3. ControlInStep' /\ ReaderInStep' /\ ShutdownInStep' /\ StoppedMeansQuiet' /\ RequestsInStep'
    BY ControlStep, ReaderStep, ShutdownStep, QuietStep, RequestsStep DEF Inductive
  <2>4. SafetyChain' /\ HintsAreServed'
    BY ChainStep, HintsStep
  <2> QED
    BY <2>1, <2>2, <2>3, <2>4 DEF Inductive
<1> QED
  BY <1>1, <1>2, PTL DEF Spec

(* Every variable of the service, its timers, the monitor and the          *)
(* application keeps its type, and tasks name requests that were made.     *)
THEOREM TypeCorrect == Spec => []TypeOK
BY InductiveInvariant, PTL

(* "Reconciliation is single-flight" (live_presence.py): whatever timers   *)
(* are left of earlier starts, one thread at a time scans, and none finds  *)
(* its own discovery service busy.                                         *)
THEOREM ReconcilesOneAtATime == Spec => []SingleFlight
<1>1. Inductive => SingleFlight
  BY DEF Inductive, LockIsHeld, ServiceIsOwned, SingleFlight, Reconciling, Scanning
<1> QED
  BY <1>1, InductiveInvariant, PTL

(* stop() of live_presence.py returns only when no reconciliation and no   *)
(* neighbour event can use the database any more, until the next start().  *)
THEOREM StopLeavesQuiet == Spec => []QuietAfterStop
<1>1. Inductive => QuietAfterStop
  BY DEF Inductive, StoppedMeansQuiet, QuietAfterStop, UsingDatabase, Committed, Unchecked,
         Reconciling, Scanning
<1> QED
  BY <1>1, InductiveInvariant, PTL

(* _on_shutdown of app.py closes the database after its last use, and the  *)
(* child is gone by then, even when a start() had failed before.           *)
THEOREM DatabaseClosesLast == Spec => []ClosedLast
<1>1. Inductive => ClosedLast
  BY DEF Inductive, ShutdownInStep, StoppedMeansQuiet, ReaderInStep, ClosedLast, UsingDatabase,
         Committed, Unchecked, Reconciling, Scanning
<1> QED
  BY <1>1, InductiveInvariant, PTL

(* While the service is on, the chain of safety scans is never broken: its *)
(* timer is set, or a thread is on its way to set it.                      *)
THEOREM SafetyScansGoOn == Spec => []SafetyChain
BY InductiveInvariant, PTL DEF Inductive

(* Once the pool is done, the service is what the switch was last set to   *)
(* (set_live_presence of app.py), in whatever order the workers ran.       *)
THEOREM SwitchIsObeyed == Spec => []LastRequestWins
<1>1. Inductive => LastRequestWins
  <2> SUFFICES ASSUME Inductive, app = "running", tasks = << >>, ~failed
               PROVE  stopped = ~wanted
    BY DEF LastRequestWins
  <2>1. \A i \in 1 .. Len(tasks) : FALSE
    OBVIOUS
  <2> QED
    BY <2>1 DEF Inductive, RequestsInStep
<1> QED
  BY <1>1, InductiveInvariant, PTL

(* A hint that request_reconcile accepted always has a reconciliation on   *)
(* its way that has yet to begin its scan.                                 *)
THEOREM HintsHaveAScanToCome == Spec => []HintsAreServed
BY InductiveInvariant, PTL DEF Inductive
=============================================================================
