---------------------------- MODULE WorkspacesProofs ----------------------------
(***************************************************************************)
(* Theorems about Workspaces, for every window, pool of workers and bound  *)
(* on what happens.  The argument is one inductive invariant: a page       *)
(* outside Detailed has at most one job under way, a load that has read    *)
(* saw all its page shows or has saved, and the thread that flushed is the *)
(* only one and will commit the next version.                              *)
(***************************************************************************)
EXTENDS Workspaces, SequenceTheorems, FiniteSetTheorems, TLAPS

-----------------------------------------------------------------------------
(* The inductive invariant.                                                *)

(* A worker that is not idle works for a page.                              *)
WorkersServePages == \A t \in Workers : thread[t] # Idle => thread[t].page \in Pages

(* The one thread that has flushed will commit the next version; no other  *)
(* has seen more than what is committed.                                   *)
OneWriter ==
    /\ \A t, u \in Threads : At(t, "flushed") /\ At(u, "flushed") => t = u
    /\ \A t \in Threads :
        IF At(t, "flushed") THEN thread[t].version = committed + 1
                            ELSE thread[t].version <= committed

(* Only a change writes: loads and details never hold the write lock.       *)
OnlySavesWrite ==
    \A t \in Threads : At(t, "flushed") \/ At(t, "committed") => Working(t, {"save"})

(* The pages drop their listeners when the window closes.                   *)
ClosedIsDeaf == window # "open" => subscribed = << >>

Queued(p, i) == queue[i].page = p
Worked(p, t) == thread[t] # Idle /\ thread[t].page = p
Answered(p, i) == mainloop[i].page = p /\ mainloop[i].kind # "event"

(* Page p has no job: none in the queue, with a worker or with its result   *)
(* on the way.                                                             *)
NoJob(p) ==
    /\ \A i \in DOMAIN queue : ~Queued(p, i)
    /\ \A t \in Workers : ~Worked(p, t)
    /\ \A i \in DOMAIN mainloop : ~Answered(p, i)

(* Page p has at most one job anywhere, and none when it is free.           *)
OneJobOf(p) ==
    /\ \A i, j \in DOMAIN queue : Queued(p, i) /\ Queued(p, j) => i = j
    /\ \A t, u \in Workers : Worked(p, t) /\ Worked(p, u) => t = u
    /\ \A i, j \in DOMAIN mainloop : Answered(p, i) /\ Answered(p, j) => i = j
    /\ \A i \in DOMAIN queue, t \in Workers : ~(Queued(p, i) /\ Worked(p, t))
    /\ \A i \in DOMAIN queue, j \in DOMAIN mainloop : ~(Queued(p, i) /\ Answered(p, j))
    /\ \A t \in Workers, j \in DOMAIN mainloop : ~(Worked(p, t) /\ Answered(p, j))
    /\ ~busy[p] => NoJob(p)

(* So has every page that does not load details, until the window closes.   *)
OneJob == window = "open" => \A p \in Pages \ Detailed : OneJobOf(p)

(* A load that has read saw everything its page shows or has saved.         *)
LoadsAreNewer ==
    window = "open" => \A p \in Pages \ Detailed :
        /\ \A t \in Workers :
            LoadOf(p, thread[t]) /\ At(t, "end") =>
                thread[t].version >= shown[p] /\ thread[t].version >= saved[p]
        /\ \A i \in DOMAIN mainloop :
            LoadOf(p, mainloop[i]) =>
                mainloop[i].version >= shown[p] /\ mainloop[i].version >= saved[p]

(* A page that has yet to show its change is busy, and with no other change. *)
SavedIsPending ==
    window = "open" => \A p \in Pages \ Detailed :
        ~failure[p] /\ shown[p] < saved[p] =>
            busy[p] /\ \A i \in DOMAIN queue : ~SaveOf(p, queue[i])

Inductive ==
    /\ TypeOK
    /\ WorkersServePages
    /\ OneWriter
    /\ OnlySavesWrite
    /\ ClosedIsDeaf
    /\ OneJob
    /\ NeverStuck
    /\ LoadsAreNewer
    /\ SavedIsPending

-----------------------------------------------------------------------------
(* Sequences.                                                              *)

(* Append keeps every entry in its place and adds one behind them.          *)
LEMMA Appended ==
    ASSUME NEW S, NEW s \in Seq(S), NEW x \in S
    PROVE  LET n == Append(s, x)
           IN  /\ n \in Seq(S) /\ Len(n) = Len(s) + 1
               /\ \A i \in DOMAIN s : i \in DOMAIN n /\ n[i] = s[i]
               /\ Len(s) + 1 \in DOMAIN n /\ n[Len(s) + 1] = x
               /\ \A j \in DOMAIN n : j \in DOMAIN s \/ (j = Len(s) + 1 /\ n[j] = x)
               /\ Len(s) + 1 \notin DOMAIN s
  <1> DEFINE n == Append(s, x)
  <1>1. /\ n \in Seq(S) /\ Len(n) = Len(s) + 1
        /\ \A i \in 1..Len(s) : n[i] = s[i]
        /\ n[Len(s) + 1] = x
    BY AppendProperties
  <1>2. DOMAIN s = 1..Len(s) /\ DOMAIN n = 1..(Len(s) + 1) /\ Len(s) \in Nat
    BY <1>1, LenProperties
  <1> HIDE DEF n
  <1>3. QED
    BY <1>1, <1>2 DEF n

(* Tail moves every entry but the first one place forward.                  *)
LEMMA Shifted ==
    ASSUME NEW S, NEW s \in Seq(S), s # << >>
    PROVE  LET n == Tail(s)
           IN  /\ n \in Seq(S) /\ Len(n) <= Len(s) /\ DOMAIN n \subseteq Nat
               /\ 1 \in DOMAIN s /\ Head(s) = s[1] /\ Head(s) \in S
               /\ \A i \in DOMAIN s : i = 1 \/ (i - 1 \in DOMAIN n /\ n[i - 1] = s[i])
               /\ \A j \in DOMAIN n : j + 1 \in DOMAIN s /\ n[j] = s[j + 1] /\ j + 1 # 1
  <1> DEFINE n == Tail(s)
  <1>1. /\ Head(s) \in S /\ n \in Seq(S) /\ Len(n) = Len(s) - 1
        /\ \A i \in 1..Len(n) : n[i] = s[i + 1]
    BY HeadTailProperties
  <1>2. /\ Head(s) = s[1] /\ Len(s) \in Nat /\ Len(s) # 0
        /\ DOMAIN s = 1..Len(s) /\ DOMAIN n = 1..(Len(s) - 1)
    BY <1>1, LenProperties, EmptySeq
  <1> HIDE DEF n
  <1>3. QED
    BY <1>1, <1>2 DEF n

(* Publishing adds events of the committed version behind what the main    *)
(* loop has yet to run, one for every listener.                             *)
LEMMA Published ==
    ASSUME NEW s \in Seq(Callback), NEW version \in Nat, subscribed \in Seq(Pages)
    PROVE  LET n == s \o EventsOf(version)
           IN  /\ n \in Seq(Callback)
               /\ \A i \in DOMAIN s : i \in DOMAIN n /\ n[i] = s[i]
               /\ \A j \in DOMAIN n :
                    \/ j \in DOMAIN s /\ n[j] = s[j]
                    \/ n[j].kind = "event" /\ n[j].version = version
  <1> DEFINE e == EventsOf(version)
             n == s \o e
  <1>1. DOMAIN subscribed = 1..Len(subscribed) /\ Len(subscribed) \in Nat
    BY LenProperties
  <1>2. \A i \in DOMAIN subscribed : subscribed[i] \in Pages
    BY <1>1, ElementOfSeq
  <1>3. /\ DOMAIN e = DOMAIN subscribed
        /\ \A i \in DOMAIN e :
            e[i] \in Callback /\ e[i].kind = "event" /\ e[i].version = version
    BY <1>2 DEF EventsOf, Callback
  <1>4. e \in Seq(Callback) /\ Len(e) = Len(subscribed)
    <2>1. e \in [1..Len(subscribed) -> Callback]
      BY <1>1, <1>3 DEF EventsOf
    <2>2. QED
      BY <1>1, <2>1, IsASeq, LenProperties
  <1> HIDE DEF e
  <1>5. /\ n \in Seq(Callback) /\ Len(n) = Len(s) + Len(e)
        /\ \A i \in 1..(Len(s) + Len(e)) :
            n[i] = IF i <= Len(s) THEN s[i] ELSE e[i - Len(s)]
    BY <1>4, ConcatProperties
  <1>6. /\ DOMAIN s = 1..Len(s) /\ Len(s) \in Nat
        /\ DOMAIN e = 1..Len(e) /\ Len(e) \in Nat
        /\ DOMAIN n = 1..(Len(s) + Len(e))
    BY <1>4, <1>5, LenProperties
  <1> HIDE DEF n
  <1>7. \A j \in DOMAIN n : ~(j <= Len(s)) => j - Len(s) \in DOMAIN e
    BY <1>6
  <1>8. QED
    BY <1>3, <1>5, <1>6, <1>7 DEF e, n

-----------------------------------------------------------------------------
(* What a step does to the threads.                                        *)

Stages == {"begin", "flushed", "committed", "end", "failed"}

(* Thread t becomes r, and no other thread changes.                         *)
Moves(t, r) ==
    /\ r \in Running \cup {Idle}
    /\ thread' \in [Threads -> Running \cup {Idle}]
    /\ thread'[t] = r
    /\ \A u \in Threads : u # t => thread'[u] = thread[u]

(* A thread that is at some stage of its work is not idle.                  *)
LEMMA AtWork ==
    ASSUME TypeOK, NEW t \in Threads
    PROVE  /\ thread[t] \in Running \/ thread[t] = Idle
           /\ Idle \notin Running /\ Idle.stage = "idle" /\ Idle.kind = "none"
           /\ \A stage \in Stages : At(t, stage) => thread[t] \in Running /\ thread[t] # Idle
           /\ thread[t] \in Running =>
                /\ thread[t].page \in Pages \cup {Scanner}
                /\ thread[t].kind \in {"load", "save", "details"}
                /\ thread[t].stage \in Stages
                /\ thread[t].version \in Nat
  BY DEF TypeOK, Running, Idle, At, Stages

LEMMA ThreadMoves ==
    ASSUME TypeOK, NEW t \in Threads, NEW r \in Running \cup {Idle},
           thread' = [thread EXCEPT ![t] = r]
    PROVE  Moves(t, r)
  BY DEF TypeOK, Moves

(* Advance changes the stage and the version of one busy thread.            *)
LEMMA AdvanceMoves ==
    ASSUME TypeOK, NEW t \in Threads, thread[t] \in Running,
           NEW stage \in Stages, NEW version \in Nat, Advance(t, stage, version)
    PROVE  Moves(t, As(t, stage, version))
  <1>1. As(t, stage, version) \in Running
    BY AtWork DEF As, Running, Stages
  <1>2. QED
    BY <1>1, ThreadMoves DEF Advance

(* A worker that takes a task begins with the oldest one.                   *)
LEMMA TakeMoves ==
    ASSUME TypeOK, NEW t \in Threads, Take(t)
    PROVE  /\ queue[1] \in Task /\ 1 \in DOMAIN queue /\ queue # << >> /\ queue' = Tail(queue)
           /\ t \in Workers /\ thread[t] = Idle
           /\ Moves(t, [page |-> queue[1].page, kind |-> queue[1].kind,
                        stage |-> "begin", version |-> 0])
  <1>1. /\ Head(queue) = queue[1] /\ queue[1] \in Task /\ 1 \in DOMAIN queue
    BY Shifted DEF Take, TypeOK
  <1>2. [page |-> queue[1].page, kind |-> queue[1].kind,
         stage |-> "begin", version |-> 0] \in Running
    BY <1>1 DEF Task, Running
  <1>3. QED
    BY <1>1, <1>2, ThreadMoves DEF Take

(* Every other step of a thread, by the stage it leaves and the one it      *)
(* reaches.                                                                 *)
LEMMA ReadMoves ==
    ASSUME TypeOK, NEW t \in Threads, Read(t)
    PROVE  At(t, "begin") /\ ~Working(t, {"save"}) /\ Moves(t, As(t, "end", committed))
  BY AtWork, AdvanceMoves DEF Read, Stages, TypeOK, Working

LEMMA FlushMoves ==
    ASSUME TypeOK, NEW t \in Threads, Flush(t)
    PROVE  /\ At(t, "begin") /\ Working(t, {"save"}) /\ Unlocked
           /\ Moves(t, As(t, "flushed", committed + 1))
  BY AtWork, AdvanceMoves DEF Flush, Stages, TypeOK

LEMMA CommitMoves ==
    ASSUME TypeOK, NEW t \in Threads, Commit(t)
    PROVE  At(t, "flushed") /\ Moves(t, As(t, "committed", thread[t].version))
  BY AtWork, AdvanceMoves DEF Commit, Stages, TypeOK

LEMMA PublishMoves ==
    ASSUME TypeOK, NEW t \in Threads, Publish(t)
    PROVE  /\ At(t, "committed")
           /\ t = Scanner => Moves(t, Idle)
           /\ t # Scanner => Moves(t, As(t, "end", thread[t].version))
  <1>1. At(t, "committed") /\ thread[t] \in Running /\ thread[t].version \in Nat
    BY AtWork DEF Publish, Stages
  <1>2. CASE t = Scanner
    BY <1>1, <1>2, ThreadMoves DEF Publish
  <1>3. CASE t # Scanner
    BY <1>1, <1>3, AdvanceMoves DEF Publish, Stages
  <1>4. QED
    BY <1>1, <1>2, <1>3

LEMMA FailMoves ==
    ASSUME TypeOK, NEW t \in Threads, Fail(t)
    PROVE  (At(t, "begin") \/ At(t, "flushed")) /\ Moves(t, As(t, "failed", 0))
  BY AtWork, AdvanceMoves DEF Fail, Stages

LEMMA FinishMoves ==
    ASSUME TypeOK, NEW t \in Threads, Finish(t)
    PROVE  (At(t, "end") \/ At(t, "failed")) /\ Moves(t, Idle)
  BY ThreadMoves DEF Finish

LEMMA ScanMoves ==
    ASSUME TypeOK, Scan
    PROVE  /\ thread[Scanner] = Idle /\ Unlocked /\ Scanner \in Threads
           /\ Moves(Scanner, [page |-> Scanner, kind |-> "save", stage |-> "flushed",
                              version |-> committed + 1])
  <1>1. [page |-> Scanner, kind |-> "save", stage |-> "flushed",
         version |-> committed + 1] \in Running
    BY DEF TypeOK, Running
  <1>2. QED
    BY <1>1, ThreadMoves DEF Scan, Threads

-----------------------------------------------------------------------------
(* Types.                                                                  *)

(* What the assumption says of the pages and the threads.                   *)
LEMMA Window ==
    /\ Order \in Seq(Pages) /\ DOMAIN Order = 1..Len(Order) /\ Len(Order) \in Nat
    /\ Subscribers \in Seq(Pages)
    /\ Editors \subseteq Pages /\ Detailed \subseteq Pages
    /\ Workers \subseteq Threads /\ Scanner \in Threads /\ Scanner \notin Workers
    /\ \A t \in Threads : t # Scanner => t \in Workers
    /\ DOMAIN Limit = {"save", "scan", "click", "fault"}
  BY WorkspacesAssumption, LenProperties DEF Pages, Threads

(* The window starts with one load for every page.                          *)
LEMMA InitInductive == Init => Inductive
  <1> SUFFICES ASSUME Init PROVE Inductive
    OBVIOUS
  <1>1. /\ queue \in Seq(Task) /\ DOMAIN queue = DOMAIN Order
        /\ \A i \in DOMAIN queue : queue[i].page = Order[i] /\ queue[i].kind = "load"
    <2>1. /\ DOMAIN queue = 1..Len(Order)
          /\ \A i \in DOMAIN queue : /\ queue[i] = [page |-> Order[i], kind |-> "load"]
                                     /\ Order[i] \in Pages
      BY Window, ElementOfSeq DEF Init
    <2>2. queue \in [1..Len(Order) -> Task]
      BY <2>1 DEF Init, Task
    <2>3. QED
      BY <2>1, <2>2, Window, IsASeq
  <1>2. /\ \A t \in Threads : thread[t] = Idle /\ ~At(t, "flushed") /\ thread[t].version = 0
        /\ \A t \in Threads : ~At(t, "end") /\ thread[t].kind = "none"
        /\ thread \in [Threads -> Running \cup {Idle}]
    BY DEF Init, At, Idle
  <1>3. mainloop = << >> /\ DOMAIN mainloop = {} /\ mainloop \in Seq(Callback)
    BY EmptySeq, LenProperties DEF Init
  <1>4. /\ committed = 0 /\ 0 \in 0..committed /\ 0 \in Nat
        /\ shown \in [Pages -> 0..committed] /\ saved \in [Pages -> 0..committed]
        /\ \A p \in Pages : shown[p] = 0 /\ saved[p] = 0
    BY DEF Init
  <1>5. /\ busy \in [Pages -> BOOLEAN] /\ failure \in [Pages -> BOOLEAN]
        /\ \A p \in Pages : busy[p]
    BY DEF Init
  <1>6. /\ spent \in [DOMAIN Limit -> Nat]
        /\ \A kind \in DOMAIN Limit : spent[kind] <= Limit[kind]
    BY WorkspacesAssumption, Window DEF Init
  <1>7. Cardinality({t \in Threads : At(t, "flushed")}) <= 1
    <2>1. {t \in Threads : At(t, "flushed")} = {}
      BY <1>2
    <2>2. QED
      BY <2>1, FS_EmptySet
  <1>8. TypeOK
    BY <1>1, <1>2, <1>3, <1>4, <1>5, <1>6, <1>7 DEF TypeOK, Init
  <1>9. WorkersServePages /\ OneWriter /\ OnlySavesWrite /\ ClosedIsDeaf
    BY <1>2, <1>4, Window
    DEF WorkersServePages, OneWriter, OnlySavesWrite, ClosedIsDeaf, Init, At, Idle
  <1>10. OneJob
    BY <1>1, <1>2, <1>3, <1>5, Window, WorkspacesAssumption
    DEF OneJob, OneJobOf, NoJob, Queued, Worked, Answered, IsInjective
  <1>11. NeverStuck
    BY <1>1 DEF NeverStuck, Pages, ToSet
  <1>12. LoadsAreNewer
    BY <1>2, <1>3, Window DEF LoadsAreNewer
  <1>13. SavedIsPending
    BY <1>4 DEF SavedIsPending
  <1>14. QED
    BY <1>8, <1>9, <1>10, <1>11, <1>12, <1>13 DEF Inductive

(* What a step does to the queue.                                           *)
LEMMA QueueSteps ==
    ASSUME Inductive, Next
    PROVE  \/ queue' = queue
           \/ queue # << >> /\ queue' = Tail(queue)
           \/ \E p \in Pages, kind \in {"load", "save", "details"} :
                queue' = Append(queue, [page |-> p, kind |-> kind])
           \/ queue' = << >>
  <1>1. ASSUME NEW p \in Pages, UserRefreshes(p) \/ UserSaves(p) \/ UserSelects(p)
        PROVE  \/ queue' = queue
               \/ \E kind \in {"load", "save", "details"} :
                    queue' = Append(queue, [page |-> p, kind |-> kind])
    BY <1>1 DEF UserRefreshes, UserSaves, UserSelects, Refresh, Submit
  <1>2. ASSUME NEW t \in Threads, ThreadStep(t) \/ Fail(t)
        PROVE  queue' = queue \/ (queue # << >> /\ queue' = Tail(queue))
    BY <1>2 DEF ThreadStep, Take, Read, Flush, Commit, Publish, Finish, Fail
  <1>3. CASE DeliverEvent \/ DeliverResult
    <2>1. mainloop # << >> /\ Head(mainloop) \in Callback
      BY <1>3, Shifted DEF DeliverEvent, DeliverResult, Pop, Inductive, TypeOK
    <2>2. Head(mainloop).page \in Pages
      BY <2>1 DEF Callback
    <2>3. QED
      BY <1>3, <2>2
      DEF DeliverEvent, DeliverResult, Refresh, Submit, Loaded, Saved, Failed
  <1>4. CASE Scan \/ CloseWindow \/ Shutdown
    BY <1>4 DEF Scan, CloseWindow, Shutdown
  <1>5. QED
    BY <1>1, <1>2, <1>3, <1>4 DEF Next

LEMMA QueueTyped == ASSUME Inductive, Next PROVE queue' \in Seq(Task)
  <1>1. queue \in Seq(Task)
    BY DEF Inductive, TypeOK
  <1>2. \A p \in Pages, kind \in {"load", "save", "details"} :
          [page |-> p, kind |-> kind] \in Task
    BY DEF Task
  <1>3. CASE queue' = queue \/ queue' = << >>
    BY <1>1, <1>3, EmptySeq
  <1>4. CASE queue # << >> /\ queue' = Tail(queue)
    BY <1>1, <1>4, Shifted
  <1>5. ASSUME NEW p \in Pages, NEW kind \in {"load", "save", "details"},
               queue' = Append(queue, [page |-> p, kind |-> kind])
        PROVE  queue' \in Seq(Task)
    BY <1>1, <1>2, <1>5, AppendProperties
  <1>6. QED
    BY <1>3, <1>4, <1>5, QueueSteps

(* A busy thread's work, as the types and the writer's discipline say.      *)
LEMMA AtStage ==
    ASSUME Inductive, NEW t \in Threads
    PROVE  /\ At(t, "flushed") => thread[t].version = committed + 1
           /\ ~At(t, "flushed") => thread[t].version <= committed
           /\ \A stage \in Stages : At(t, stage) =>
                /\ thread[t] # Idle
                /\ thread[t].version \in Nat
                /\ t \in Workers => thread[t].page \in Pages
  BY AtWork DEF Inductive, OneWriter, WorkersServePages

(* One version follows the other: only a commit makes a new one.            *)
LEMMA CommitsCount ==
    ASSUME Inductive, Next
    PROVE  /\ committed' \in Nat
           /\ \/ committed' = committed
              \/ \E t \in Threads : Commit(t) /\ committed' = committed + 1
  <1>1. committed \in Nat
    BY DEF Inductive, TypeOK
  <1>2. ASSUME NEW t \in Threads, Commit(t) PROVE committed' = committed + 1
    BY <1>2, AtStage DEF Commit
  <1>3. ASSUME NEW t \in Threads,
               Take(t) \/ Read(t) \/ Flush(t) \/ Publish(t) \/ Finish(t) \/ Fail(t)
        PROVE  committed' = committed
    BY <1>3 DEF Take, Read, Flush, Publish, Finish, Fail
  <1>4. ASSUME NEW p \in Pages, UserRefreshes(p) \/ UserSaves(p) \/ UserSelects(p)
        PROVE  committed' = committed
    BY <1>4 DEF UserRefreshes, UserSaves, UserSelects
  <1>5. CASE Scan
    BY <1>1, <1>5 DEF Scan
  <1>6. CASE DeliverEvent \/ DeliverResult \/ CloseWindow \/ Shutdown
    BY <1>1, <1>6 DEF DeliverEvent, DeliverResult, CloseWindow, Shutdown
  <1>7. QED
    BY <1>1, <1>2, <1>3, <1>4, <1>5, <1>6 DEF Next, ThreadStep

(* What a step does to the threads: at most one moves.                      *)
LEMMA ThreadSteps ==
    ASSUME Inductive, Next
    PROVE  thread' = thread \/ \E t \in Threads, r \in Running \cup {Idle} : Moves(t, r)
  <1>1. TypeOK
    BY DEF Inductive
  <1>2. ASSUME NEW t \in Threads, ThreadStep(t) \/ Fail(t)
        PROVE  \E r \in Running \cup {Idle} : Moves(t, r)
    <2>1. ASSUME NEW r, Moves(t, r) PROVE \E q \in Running \cup {Idle} : Moves(t, q)
      BY <2>1 DEF Moves
    <2>2. CASE Take(t)
      BY <1>1, <2>1, <2>2, TakeMoves
    <2>3. CASE Read(t)
      BY <1>1, <2>1, <2>3, ReadMoves
    <2>4. CASE Flush(t)
      BY <1>1, <2>1, <2>4, FlushMoves
    <2>5. CASE Commit(t)
      BY <1>1, <2>1, <2>5, CommitMoves
    <2>6. CASE Publish(t)
      BY <1>1, <2>1, <2>6, PublishMoves
    <2>7. CASE Finish(t)
      BY <1>1, <2>1, <2>7, FinishMoves
    <2>8. CASE Fail(t)
      BY <1>1, <2>1, <2>8, FailMoves
    <2>9. QED
      BY <1>2, <2>2, <2>3, <2>4, <2>5, <2>6, <2>7, <2>8 DEF ThreadStep
  <1>3. CASE Scan
    <2> DEFINE r == [page |-> Scanner, kind |-> "save", stage |-> "flushed",
                     version |-> committed + 1]
    <2>1. Scanner \in Threads /\ Moves(Scanner, r)
      BY <1>1, <1>3, ScanMoves
    <2>2. r \in Running \cup {Idle}
      BY <2>1 DEF Moves
    <2> HIDE DEF r
    <2>3. QED
      BY <2>1, <2>2
  <1>4. ASSUME NEW p \in Pages, UserRefreshes(p) \/ UserSaves(p) \/ UserSelects(p)
        PROVE  thread' = thread
    BY <1>4 DEF UserRefreshes, UserSaves, UserSelects
  <1>5. CASE DeliverEvent \/ DeliverResult \/ CloseWindow \/ Shutdown
    BY <1>5 DEF DeliverEvent, DeliverResult, CloseWindow, Shutdown
  <1>6. QED
    BY <1>2, <1>3, <1>4, <1>5 DEF Next

LEMMA ThreadTyped ==
    ASSUME Inductive, Next PROVE thread' \in [Threads -> Running \cup {Idle}]
  <1>1. thread \in [Threads -> Running \cup {Idle}]
    BY DEF Inductive, TypeOK
  <1>2. QED
    BY <1>1, ThreadSteps DEF Moves

(* The listeners of the bus are pages.                                      *)
LEMMA ListenersTyped == ASSUME TypeOK PROVE subscribed \in Seq(Pages)
  <1>1. << >> \in Seq(Pages)
    BY EmptySeq
  <1>2. QED
    BY <1>1, Window DEF TypeOK

(* What a step does to the callbacks of the main loop.                      *)
LEMMA MainloopSteps ==
    ASSUME Inductive, Next
    PROVE  \/ mainloop' = mainloop
           \/ mainloop # << >> /\ mainloop' = Tail(mainloop)
           \/ \E t \in Workers : /\ At(t, "end") \/ At(t, "failed")
                                 /\ mainloop' = Append(mainloop, Result(t))
           \/ \E t \in Threads : /\ At(t, "committed")
                                 /\ mainloop' = mainloop \o EventsOf(thread[t].version)
           \/ mainloop' = << >>
  <1>1. ASSUME NEW t \in Threads, Publish(t)
        PROVE  At(t, "committed") /\ mainloop' = mainloop \o EventsOf(thread[t].version)
    BY <1>1 DEF Publish
  <1>2. ASSUME NEW t \in Threads, Finish(t)
        PROVE  \/ mainloop' = mainloop
               \/ /\ t \in Workers
                  /\ At(t, "end") \/ At(t, "failed")
                  /\ mainloop' = Append(mainloop, Result(t))
    BY <1>2 DEF Finish
  <1>3. ASSUME NEW t \in Threads, Take(t) \/ Read(t) \/ Flush(t) \/ Commit(t) \/ Fail(t)
        PROVE  mainloop' = mainloop
    BY <1>3 DEF Take, Read, Flush, Commit, Fail
  <1>4. ASSUME NEW p \in Pages, UserRefreshes(p) \/ UserSaves(p) \/ UserSelects(p)
        PROVE  mainloop' = mainloop
    BY <1>4 DEF UserRefreshes, UserSaves, UserSelects
  <1>5. CASE DeliverEvent \/ DeliverResult
    BY <1>5 DEF DeliverEvent, DeliverResult, Pop
  <1>6. CASE Scan \/ CloseWindow \/ Shutdown
    BY <1>6 DEF Scan, CloseWindow, Shutdown
  <1>7. QED
    BY <1>1, <1>2, <1>3, <1>4, <1>5, <1>6 DEF Next, ThreadStep

(* A worker's result is a callback for its page, with a committed version.  *)
LEMMA ResultTyped ==
    ASSUME Inductive, NEW t \in Workers, At(t, "end") \/ At(t, "failed")
    PROVE  /\ Result(t) \in Callback
           /\ Result(t).page = thread[t].page
           /\ Result(t).version = thread[t].version /\ Result(t).version <= committed
           /\ Result(t).kind = IF At(t, "failed") THEN "error" ELSE thread[t].kind
           /\ Result(t).kind # "event"
  <1>1. /\ thread[t].kind \in {"load", "save", "details"}
        /\ thread[t].page \in Pages
        /\ thread[t].version \in Nat /\ thread[t].version <= committed
    BY AtWork, AtStage, Window DEF Inductive, Stages, At
  <1>2. QED
    BY <1>1 DEF Result, Callback, At

(* Every callback carries a version that is committed by then.              *)
LEMMA MainloopTyped ==
    ASSUME Inductive, Next
    PROVE  /\ mainloop' \in Seq(Callback)
           /\ \A i \in DOMAIN mainloop' : mainloop'[i].version <= committed'
  <1>1. /\ mainloop \in Seq(Callback) /\ committed \in Nat
        /\ \A i \in DOMAIN mainloop : mainloop[i] \in Callback /\ mainloop[i].version \in Nat
        /\ \A i \in DOMAIN mainloop : mainloop[i].version <= committed
    <2>1. \A i \in DOMAIN mainloop : mainloop[i] \in Callback
      BY LenProperties, ElementOfSeq DEF Inductive, TypeOK
    <2>2. QED
      BY <2>1 DEF Inductive, TypeOK, Callback
  <1>2. committed' \in Nat /\ committed <= committed'
    BY <1>1, CommitsCount
  <1>3. \A v \in Nat : v <= committed => v <= committed'
    BY <1>1, <1>2
  <1>4. CASE mainloop' = mainloop
    BY <1>1, <1>3, <1>4
  <1>5. CASE mainloop' = << >>
    BY <1>5, EmptySeq
  <1>6. CASE mainloop # << >> /\ mainloop' = Tail(mainloop)
    BY <1>1, <1>3, <1>6, Shifted
  <1>7. ASSUME NEW t \in Workers, At(t, "end") \/ At(t, "failed"),
               mainloop' = Append(mainloop, Result(t))
        PROVE  /\ mainloop' \in Seq(Callback)
               /\ \A i \in DOMAIN mainloop' : mainloop'[i].version <= committed'
    <2>1. Result(t) \in Callback /\ Result(t).version <= committed /\ Result(t).version \in Nat
      BY <1>7, ResultTyped DEF Callback
    <2> DEFINE r == Result(t)
    <2> HIDE DEF r
    <2>2. /\ mainloop' \in Seq(Callback)
          /\ \A j \in DOMAIN mainloop' :
                \/ j \in DOMAIN mainloop /\ mainloop'[j] = mainloop[j]
                \/ mainloop'[j] = r
      BY <1>1, <1>7, <2>1, Appended DEF r
    <2>3. QED
      BY <1>1, <1>3, <2>1, <2>2 DEF r
  <1>8. ASSUME NEW t \in Threads, At(t, "committed"),
               mainloop' = mainloop \o EventsOf(thread[t].version)
        PROVE  /\ mainloop' \in Seq(Callback)
               /\ \A i \in DOMAIN mainloop' : mainloop'[i].version <= committed'
    <2>1. thread[t].version \in Nat /\ thread[t].version <= committed
      BY <1>8, AtStage DEF At, Stages
    <2>2. subscribed \in Seq(Pages)
      BY ListenersTyped DEF Inductive
    <2> DEFINE v == thread[t].version
    <2> HIDE DEF v
    <2>3. /\ mainloop' \in Seq(Callback)
          /\ \A j \in DOMAIN mainloop' :
                \/ j \in DOMAIN mainloop /\ mainloop'[j] = mainloop[j]
                \/ mainloop'[j].version = v
      BY <1>1, <1>8, <2>1, <2>2, Published DEF v
    <2>4. QED
      BY <1>1, <1>3, <2>1, <2>3 DEF v
  <1>9. QED
    BY <1>4, <1>5, <1>6, <1>7, <1>8, MainloopSteps

(* A callback the main loop runs is one of those it held.                   *)
LEMMA FirstCallback ==
    ASSUME TypeOK, mainloop # << >>
    PROVE  /\ 1 \in DOMAIN mainloop /\ Head(mainloop) = mainloop[1]
           /\ mainloop[1].page \in Pages
           /\ mainloop[1].version \in 0..committed
  <1>1. 1 \in DOMAIN mainloop /\ Head(mainloop) = mainloop[1] /\ mainloop[1] \in Callback
    BY Shifted DEF TypeOK
  <1>2. mainloop[1].page \in Pages /\ mainloop[1].version \in Nat
    BY <1>1 DEF Callback
  <1>3. mainloop[1].version <= committed /\ committed \in Nat
    BY <1>1 DEF TypeOK
  <1>4. QED
    BY <1>1, <1>2, <1>3

(* What a step does to what a page shows: only the result of its own load  *)
(* changes it, and only while the window is open.                           *)
LEMMA ShownSteps ==
    ASSUME Inductive, Next
    PROVE  \/ shown' = shown
           \/ /\ window = "open" /\ mainloop # << >> /\ mainloop[1].kind = "load"
              /\ mainloop[1].page \in Pages
              /\ mainloop[1].version \in 0..committed
              /\ DeliverResult /\ Loaded(mainloop[1].page, mainloop[1].version)
  <1>1. CASE DeliverResult
    <2>1. mainloop # << >>
      BY <1>1 DEF DeliverResult, Pop
    <2>2. QED
      BY <1>1, <2>1, FirstCallback
      DEF DeliverResult, Accepts, Saved, Failed, pageVars, Inductive
  <1>2. ASSUME NEW t \in Threads, ThreadStep(t) \/ Fail(t) PROVE shown' = shown
    BY <1>2 DEF ThreadStep, Take, Read, Flush, Commit, Publish, Finish, Fail, pageVars
  <1>3. ASSUME NEW p \in Pages, UserRefreshes(p) \/ UserSaves(p) \/ UserSelects(p)
        PROVE  shown' = shown
    BY <1>3 DEF UserRefreshes, UserSaves, UserSelects
  <1>4. CASE Scan \/ DeliverEvent \/ CloseWindow \/ Shutdown
    BY <1>4 DEF Scan, DeliverEvent, CloseWindow, Shutdown, pageVars
  <1>5. QED
    BY <1>1, <1>2, <1>3, <1>4 DEF Next

(* What a step does to what a page has saved: only its own commit.          *)
LEMMA SavedSteps ==
    ASSUME Inductive, Next
    PROVE  \/ saved' = saved
           \/ \E t \in Workers :
                /\ Commit(t) /\ thread[t].version = committed + 1
                /\ committed' = committed + 1
                /\ thread[t].page \in Pages
                /\ saved' = [saved EXCEPT ![thread[t].page] = committed + 1]
  <1>1. ASSUME NEW t \in Threads, Commit(t)
        PROVE  \/ saved' = saved
               \/ /\ t \in Workers
                  /\ thread[t].version = committed + 1 /\ committed' = committed + 1
                  /\ thread[t].page \in Pages
                  /\ saved' = [saved EXCEPT ![thread[t].page] = committed + 1]
    BY <1>1, AtStage DEF Commit, Stages
  <1>2. ASSUME NEW t \in Threads,
               Take(t) \/ Read(t) \/ Flush(t) \/ Publish(t) \/ Finish(t) \/ Fail(t)
        PROVE  saved' = saved
    BY <1>2 DEF Take, Read, Flush, Publish, Finish, Fail
  <1>3. ASSUME NEW p \in Pages, UserRefreshes(p) \/ UserSaves(p) \/ UserSelects(p)
        PROVE  saved' = saved
    BY <1>3 DEF UserRefreshes, UserSaves, UserSelects
  <1>4. CASE Scan \/ DeliverEvent \/ DeliverResult \/ CloseWindow \/ Shutdown
    BY <1>4 DEF Scan, DeliverEvent, DeliverResult, CloseWindow, Shutdown
  <1>5. QED
    BY <1>1, <1>2, <1>3, <1>4 DEF Next, ThreadStep

(* Neither is ever ahead of what is committed.                              *)
LEMMA VersionsTyped ==
    ASSUME Inductive, Next
    PROVE  shown' \in [Pages -> 0..committed'] /\ saved' \in [Pages -> 0..committed']
  <1>1. /\ shown \in [Pages -> 0..committed] /\ saved \in [Pages -> 0..committed]
        /\ committed \in Nat /\ committed' \in Nat /\ committed <= committed'
    BY CommitsCount DEF Inductive, TypeOK
  <1>2. 0..committed \subseteq 0..committed'
    BY <1>1
  <1>3. shown \in [Pages -> 0..committed'] /\ saved \in [Pages -> 0..committed']
    BY <1>1, <1>2
  <1>4. shown' \in [Pages -> 0..committed']
    BY <1>2, <1>3, ShownSteps DEF Loaded
  <1>5. saved' \in [Pages -> 0..committed']
    <2>1. committed' = committed + 1 => committed + 1 \in 0..committed'
      BY <1>1
    <2>2. QED
      BY <1>3, <2>1, SavedSteps
  <1>6. QED
    BY <1>4, <1>5

(* A page's flags stay booleans.                                            *)
LEMMA FlagsTyped ==
    ASSUME Inductive, Next
    PROVE  busy' \in [Pages -> BOOLEAN] /\ failure' \in [Pages -> BOOLEAN]
  <1>1. busy \in [Pages -> BOOLEAN] /\ failure \in [Pages -> BOOLEAN] /\ TypeOK
    BY DEF Inductive, TypeOK
  <1>2. ASSUME NEW p \in Pages, NEW b \in BOOLEAN
        PROVE  /\ [busy EXCEPT ![p] = b] \in [Pages -> BOOLEAN]
               /\ [failure EXCEPT ![p] = b] \in [Pages -> BOOLEAN]
    BY <1>1
  <1>3. \A p \in Pages : /\ [busy EXCEPT ![p] = TRUE] \in [Pages -> BOOLEAN]
                         /\ [busy EXCEPT ![p] = FALSE] \in [Pages -> BOOLEAN]
                         /\ [failure EXCEPT ![p] = TRUE] \in [Pages -> BOOLEAN]
                         /\ [failure EXCEPT ![p] = FALSE] \in [Pages -> BOOLEAN]
    BY <1>2
  <1>4. ASSUME NEW p \in Pages, UserRefreshes(p) \/ UserSaves(p) \/ UserSelects(p)
        PROVE  busy' \in [Pages -> BOOLEAN] /\ failure' \in [Pages -> BOOLEAN]
    BY <1>1, <1>3, <1>4 DEF UserRefreshes, UserSaves, UserSelects, Refresh, Submit
  <1>5. ASSUME NEW t \in Threads, ThreadStep(t) \/ Fail(t)
        PROVE  busy' \in [Pages -> BOOLEAN] /\ failure' \in [Pages -> BOOLEAN]
    BY <1>1, <1>5
    DEF ThreadStep, Take, Read, Flush, Commit, Publish, Finish, Fail, pageVars
  <1>6. CASE DeliverEvent
    <2>1. Head(mainloop).page \in Pages
      BY <1>1, <1>6, FirstCallback DEF DeliverEvent, Pop
    <2>2. QED
      BY <1>1, <1>3, <1>6, <2>1 DEF DeliverEvent, Refresh, Submit
  <1>7. CASE DeliverResult
    <2>1. Head(mainloop).page \in Pages
      BY <1>1, <1>7, FirstCallback DEF DeliverResult, Pop
    <2>2. QED
      BY <1>1, <1>3, <1>7, <2>1 DEF DeliverResult, Loaded, Saved, Failed, Submit, pageVars
  <1>8. CASE Scan \/ CloseWindow \/ Shutdown
    BY <1>1, <1>8 DEF Scan, CloseWindow, Shutdown, pageVars
  <1>9. QED
    BY <1>4, <1>5, <1>6, <1>7, <1>8 DEF Next

(* The window only goes from open to closed to quit, and the listeners with *)
(* it.                                                                     *)
LEMMA WindowSteps ==
    ASSUME Inductive, Next
    PROVE  \/ UNCHANGED <<window, subscribed>>
           \/ window = "open" /\ window' = "closed" /\ subscribed' = << >>
           \/ window = "closed" /\ window' = "quit" /\ UNCHANGED subscribed
  <1>1. ASSUME NEW p \in Pages, UserRefreshes(p) \/ UserSaves(p) \/ UserSelects(p)
        PROVE  UNCHANGED <<window, subscribed>>
    BY <1>1 DEF UserRefreshes, UserSaves, UserSelects
  <1>2. ASSUME NEW t \in Threads, ThreadStep(t) \/ Fail(t)
        PROVE  UNCHANGED <<window, subscribed>>
    BY <1>2 DEF ThreadStep, Take, Read, Flush, Commit, Publish, Finish, Fail
  <1>3. CASE Scan \/ DeliverEvent \/ DeliverResult
    BY <1>3 DEF Scan, DeliverEvent, DeliverResult
  <1>4. CASE CloseWindow \/ Shutdown
    BY <1>4 DEF CloseWindow, Shutdown
  <1>5. QED
    BY <1>1, <1>2, <1>3, <1>4 DEF Next

(* Nothing happens more often than Limit says.                              *)
LEMMA SpentTyped ==
    ASSUME Inductive, Next
    PROVE  /\ spent' \in [DOMAIN Limit -> Nat]
           /\ \A kind \in DOMAIN Limit : spent'[kind] <= Limit[kind]
  <1>1. /\ spent \in [DOMAIN Limit -> Nat] /\ Limit \in [DOMAIN Limit -> Nat]
        /\ \A kind \in DOMAIN Limit : spent[kind] <= Limit[kind]
    BY WorkspacesAssumption, Window DEF Inductive, TypeOK
  <1>2. \A kind \in {"save", "scan", "click", "fault"} : Spend(kind) =>
            /\ spent' \in [DOMAIN Limit -> Nat]
            /\ \A other \in DOMAIN Limit : spent'[other] <= Limit[other]
    BY <1>1, Window DEF Spend
  <1>3. ASSUME NEW p \in Pages, UserRefreshes(p) \/ UserSaves(p) \/ UserSelects(p)
        PROVE  Spend("click") \/ Spend("save")
    BY <1>3 DEF UserRefreshes, UserSaves, UserSelects
  <1>4. ASSUME NEW t \in Threads, ThreadStep(t) \/ Fail(t)
        PROVE  UNCHANGED spent \/ Spend("fault")
    BY <1>4 DEF ThreadStep, Take, Read, Flush, Commit, Publish, Finish, Fail
  <1>5. CASE Scan
    BY <1>2, <1>5 DEF Scan
  <1>6. ASSUME DeliverResult PROVE UNCHANGED spent \/ Spend("click")
    BY <1>6 DEF DeliverResult, Loaded, Saved, Failed
  <1>7. ASSUME DeliverEvent \/ CloseWindow \/ Shutdown PROVE UNCHANGED spent
    BY <1>7 DEF DeliverEvent, CloseWindow, Shutdown
  <1>8. UNCHANGED spent \/ \E kind \in {"save", "scan", "click", "fault"} : Spend(kind)
    BY <1>3, <1>4, <1>5, <1>6, <1>7 DEF Next, Scan
  <1>9. QED
    BY <1>1, <1>2, <1>8

(* What the user and the main loop do leaves the threads, and what they     *)
(* have committed, alone.                                                  *)
LEMMA InterfaceLeavesThreads ==
    ASSUME Next
    PROVE  \/ \E t \in Threads : ThreadStep(t) \/ Fail(t)
           \/ Scan
           \/ UNCHANGED <<thread, committed, saved>>
  <1>1. ASSUME NEW p \in Pages, UserRefreshes(p) \/ UserSaves(p) \/ UserSelects(p)
        PROVE  UNCHANGED <<thread, committed, saved>>
    BY <1>1 DEF UserRefreshes, UserSaves, UserSelects
  <1>2. ASSUME DeliverEvent \/ DeliverResult \/ CloseWindow \/ Shutdown
        PROVE  UNCHANGED <<thread, committed, saved>>
    BY <1>2 DEF DeliverEvent, DeliverResult, CloseWindow, Shutdown
  <1>3. QED
    BY <1>1, <1>2 DEF Next

(* A worker that is not idle goes on working for a page.                    *)
LEMMA PagesServed == ASSUME Inductive, Next PROVE WorkersServePages'
  <1>1. /\ TypeOK /\ WorkersServePages
        /\ \A t \in Workers : thread[t] # Idle => thread[t].page \in Pages
    BY DEF Inductive, WorkersServePages
  <1>2. ASSUME NEW t \in Threads, NEW r, Moves(t, r),
               t \in Workers /\ r # Idle => r.page \in Pages
        PROVE  WorkersServePages'
    BY <1>1, <1>2, Window DEF Moves, WorkersServePages
  <1>3. ASSUME NEW t \in Threads, ThreadStep(t) \/ Fail(t) PROVE WorkersServePages'
    <2>1. \A stage, v : As(t, stage, v).page = thread[t].page
      BY DEF As
    <2>2. \A stage \in Stages : At(t, stage) /\ t \in Workers => thread[t].page \in Pages
      BY AtStage
    <2>3. CASE Take(t)
      <3>1. queue[1].page \in Pages
        BY <1>1, <2>3, TakeMoves DEF Task
      <3>2. QED
        BY <1>1, <1>2, <2>3, <3>1, TakeMoves
    <2>4. CASE Read(t)
      BY <1>1, <1>2, <2>1, <2>2, <2>4, ReadMoves DEF Stages
    <2>5. CASE Flush(t)
      BY <1>1, <1>2, <2>1, <2>2, <2>5, FlushMoves DEF Stages
    <2>6. CASE Commit(t)
      BY <1>1, <1>2, <2>1, <2>2, <2>6, CommitMoves DEF Stages
    <2>7. CASE Publish(t)
      BY <1>1, <1>2, <2>1, <2>2, <2>7, PublishMoves DEF Stages
    <2>8. CASE Finish(t)
      BY <1>1, <1>2, <2>8, FinishMoves
    <2>9. CASE Fail(t)
      BY <1>1, <1>2, <2>1, <2>2, <2>9, FailMoves DEF Stages
    <2>10. QED
      BY <1>3, <2>3, <2>4, <2>5, <2>6, <2>7, <2>8, <2>9 DEF ThreadStep
  <1>4. CASE Scan
    BY <1>1, <1>2, <1>4, ScanMoves, Window
  <1>5. ASSUME thread' = thread PROVE WorkersServePages'
    BY <1>1, <1>5 DEF WorkersServePages
  <1>6. QED
    BY <1>3, <1>4, <1>5, InterfaceLeavesThreads

(* The database has one writer, whose version is the next, and no thread    *)
(* has seen what is not committed.                                          *)
LEMMA WritesOneAtATime == ASSUME Inductive, Next PROVE OneWriter'
  <1>1. /\ TypeOK /\ committed \in Nat
        /\ \A t, u \in Threads : At(t, "flushed") /\ At(u, "flushed") => t = u
        /\ \A t \in Threads :
            IF At(t, "flushed") THEN thread[t].version = committed + 1
                                ELSE thread[t].version <= committed
        /\ \A t \in Threads : thread[t].version \in Nat
    <2>1. \A t \in Threads : thread[t].version \in Nat
      BY DEF Inductive, TypeOK, Running, Idle
    <2>2. QED
      BY <2>1 DEF Inductive, OneWriter, TypeOK
  <1>2. ASSUME NEW t \in Threads, NEW r, Moves(t, r), committed' = committed,
               r.stage = "flushed" => Unlocked \/ At(t, "flushed"),
               r.stage = "flushed" => r.version = committed + 1,
               r.stage # "flushed" => r.version <= committed
        PROVE  OneWriter'
    <2>1. \A u \in Threads : thread'[u] = IF u = t THEN r ELSE thread[u]
      BY <1>2 DEF Moves
    <2>2. \A u \in Threads :
            IF thread'[u].stage = "flushed" THEN thread'[u].version = committed + 1
                                            ELSE thread'[u].version <= committed
      BY <1>1, <1>2, <2>1 DEF At
    <2>3. \A u, v \in Threads :
            thread'[u].stage = "flushed" /\ thread'[v].stage = "flushed" => u = v
      BY <1>1, <1>2, <2>1 DEF At, Unlocked
    <2>4. QED
      BY <1>2, <2>2, <2>3 DEF OneWriter, At
  <1>3. ASSUME NEW t \in Threads, ThreadStep(t) \/ Fail(t) PROVE OneWriter'
    <2>1. \A stage, v : As(t, stage, v).stage = stage /\ As(t, stage, v).version = v
      BY DEF As
    <2>2. Idle.stage # "flushed" /\ Idle.version <= committed /\ 0 <= committed
      BY <1>1 DEF Idle
    <2>3. CASE Take(t)
      <3> DEFINE r == [page |-> queue[1].page, kind |-> queue[1].kind,
                       stage |-> "begin", version |-> 0]
      <3>1. Moves(t, r) /\ r.stage # "flushed" /\ r.version <= committed
        BY <1>1, <2>3, TakeMoves
      <3> HIDE DEF r
      <3>2. committed' = committed
        BY <2>3 DEF Take
      <3>3. QED
        BY <1>2, <3>1, <3>2
    <2>4. CASE Read(t)
      <3>1. committed' = committed
        BY <2>4 DEF Read
      <3>2. QED
        BY <1>1, <1>2, <2>1, <2>4, <3>1, ReadMoves
    <2>5. CASE Flush(t)
      <3>1. committed' = committed
        BY <2>5 DEF Flush
      <3>2. QED
        BY <1>1, <1>2, <2>1, <2>5, <3>1, FlushMoves
    <2>6. CASE Commit(t)
      <3>1. At(t, "flushed") /\ thread[t].version = committed + 1 /\ committed' = committed + 1
        BY <1>1, <2>6, CommitMoves DEF Commit
      <3>2. \A u \in Threads : thread'[u] = IF u = t THEN As(t, "committed", committed + 1)
                                                     ELSE thread[u]
        BY <1>1, <2>6, <3>1, CommitMoves DEF Moves
      <3>3. \A u \in Threads : thread'[u].stage # "flushed"
        BY <1>1, <2>1, <3>1, <3>2 DEF At
      <3>4. \A u \in Threads : thread'[u].version <= committed + 1
        BY <1>1, <2>1, <3>1, <3>2 DEF At
      <3>5. QED
        BY <3>1, <3>3, <3>4 DEF OneWriter, At
    <2>7. CASE Publish(t)
      <3>1. committed' = committed /\ thread[t].version <= committed
        BY <1>1, <2>7, PublishMoves DEF Publish, At
      <3>2. QED
        BY <1>1, <1>2, <2>1, <2>2, <2>7, <3>1, PublishMoves
    <2>8. CASE Finish(t)
      <3>1. committed' = committed
        BY <2>8 DEF Finish
      <3>2. QED
        BY <1>1, <1>2, <2>2, <2>8, <3>1, FinishMoves
    <2>9. CASE Fail(t)
      <3>1. committed' = committed
        BY <2>9 DEF Fail
      <3>2. QED
        BY <1>1, <1>2, <2>1, <2>2, <2>9, <3>1, FailMoves
    <2>10. QED
      BY <1>3, <2>3, <2>4, <2>5, <2>6, <2>7, <2>8, <2>9 DEF ThreadStep
  <1>4. CASE Scan
    <2> DEFINE r == [page |-> Scanner, kind |-> "save", stage |-> "flushed",
                     version |-> committed + 1]
    <2>1. Moves(Scanner, r) /\ Unlocked /\ Scanner \in Threads
      BY <1>1, <1>4, ScanMoves
    <2>2. r.stage = "flushed" /\ r.version = committed + 1
      OBVIOUS
    <2> HIDE DEF r
    <2>3. committed' = committed
      BY <1>4 DEF Scan
    <2>4. QED
      BY <1>2, <2>1, <2>2, <2>3
  <1>5. CASE UNCHANGED <<thread, committed, saved>>
    BY <1>1, <1>5 DEF OneWriter, At
  <1>6. QED
    BY <1>3, <1>4, <1>5, InterfaceLeavesThreads

(* A thread that has written works on a change.                             *)
LEMMA SavesWrite == ASSUME Inductive, Next PROVE OnlySavesWrite'
  <1>1. /\ TypeOK
        /\ \A t \in Threads : At(t, "flushed") \/ At(t, "committed") => thread[t].kind = "save"
    BY DEF Inductive, OnlySavesWrite, Working
  <1>2. ASSUME NEW t \in Threads, NEW r, Moves(t, r),
               r.stage \in {"flushed", "committed"} => r.kind = "save"
        PROVE  OnlySavesWrite'
    BY <1>1, <1>2 DEF Moves, OnlySavesWrite, At, Working
  <1>3. ASSUME NEW t \in Threads, ThreadStep(t) \/ Fail(t) PROVE OnlySavesWrite'
    <2>1. \A stage, v : As(t, stage, v).stage = stage /\ As(t, stage, v).kind = thread[t].kind
      BY DEF As
    <2>2. CASE Take(t)
      BY <1>1, <1>2, <2>2, TakeMoves
    <2>3. CASE Read(t)
      BY <1>1, <1>2, <2>1, <2>3, ReadMoves
    <2>4. CASE Flush(t)
      BY <1>1, <1>2, <2>1, <2>4, FlushMoves DEF Working
    <2>5. CASE Commit(t)
      BY <1>1, <1>2, <2>1, <2>5, CommitMoves
    <2>6. CASE Publish(t)
      BY <1>1, <1>2, <2>1, <2>6, PublishMoves DEF Idle
    <2>7. CASE Finish(t)
      BY <1>1, <1>2, <2>7, FinishMoves DEF Idle
    <2>8. CASE Fail(t)
      BY <1>1, <1>2, <2>1, <2>8, FailMoves
    <2>9. QED
      BY <1>3, <2>2, <2>3, <2>4, <2>5, <2>6, <2>7, <2>8 DEF ThreadStep
  <1>4. CASE Scan
    BY <1>1, <1>2, <1>4, ScanMoves
  <1>5. CASE UNCHANGED <<thread, committed, saved>>
    BY <1>1, <1>5 DEF OnlySavesWrite, At, Working
  <1>6. QED
    BY <1>3, <1>4, <1>5, InterfaceLeavesThreads

(* Once the window has closed the bus holds no listener of a page.          *)
LEMMA StaysDeaf == ASSUME Inductive, Next PROVE ClosedIsDeaf'
  BY WindowSteps DEF Inductive, ClosedIsDeaf

(* The types are kept.                                                      *)
LEMMA TypeNext == ASSUME Inductive, Next PROVE TypeOK'
  <1>1. /\ committed' \in Nat
        /\ queue' \in Seq(Task)
        /\ thread' \in [Threads -> Running \cup {Idle}]
        /\ mainloop' \in Seq(Callback)
        /\ \A i \in DOMAIN mainloop' : mainloop'[i].version <= committed'
    BY CommitsCount, QueueTyped, ThreadTyped, MainloopTyped
  <1>2. /\ busy' \in [Pages -> BOOLEAN] /\ failure' \in [Pages -> BOOLEAN]
        /\ shown' \in [Pages -> 0..committed'] /\ saved' \in [Pages -> 0..committed']
    BY FlagsTyped, VersionsTyped
  <1>3. /\ window' \in {"open", "closed", "quit"} /\ subscribed' \in {Subscribers, << >>}
        /\ spent' \in [DOMAIN Limit -> Nat]
        /\ \A kind \in DOMAIN Limit : spent'[kind] <= Limit[kind]
    BY WindowSteps, SpentTyped DEF Inductive, TypeOK
  <1>4. Cardinality({t \in Threads : At(t, "flushed")'}) <= 1
    <2> DEFINE W == {t \in Threads : At(t, "flushed")'}
    <2>1. \A t, u \in W : t = u
      BY WritesOneAtATime DEF OneWriter
    <2>2. W = {} \/ \E t \in W : W = {t}
      BY <2>1
    <2>3. QED
      BY <2>2, FS_EmptySet, FS_Singleton
  <1>5. QED
    BY <1>1, <1>2, <1>3, <1>4 DEF TypeOK

-----------------------------------------------------------------------------
(* One job at a time.                                                      *)

(* The sequence n is s without its first k entries, as far as the entries   *)
(* tell.                                                                   *)
Drops(n, s, k) == \A j \in DOMAIN n : j \in Nat /\ j + k \in DOMAIN s /\ n[j] = s[j + k]

LEMMA DropsNone == ASSUME NEW S, NEW s \in Seq(S) PROVE Drops(s, s, 0)
  <1>1. DOMAIN s = 1..Len(s) /\ Len(s) \in Nat
    BY LenProperties
  <1>2. QED
    BY <1>1 DEF Drops

LEMMA DropsHead ==
    ASSUME NEW S, NEW s \in Seq(S), s # << >> PROVE Drops(Tail(s), s, 1)
  <1>1. QED
    BY Shifted DEF Drops

(* A job that leaves the main loop leaves at most the others.               *)
LEMMA JobLeaves ==
    ASSUME NEW q, OneJobOf(q), NEW k \in {0, 1},
           queue' = queue, thread' = thread, Drops(mainloop', mainloop, k),
           ~busy'[q] => ~busy[q] \/ NoJob(q)'
    PROVE  OneJobOf(q)'
  <1>1. \A j \in DOMAIN mainloop' :
          /\ j \in Nat /\ j + k \in DOMAIN mainloop
          /\ Answered(q, j)' => Answered(q, j + k)
    BY DEF Drops, Answered
  <1>2. \A i \in DOMAIN queue : Queued(q, i)' <=> Queued(q, i)
    BY DEF Queued
  <1>3. \A t \in Workers : Worked(q, t)' <=> Worked(q, t)
    BY DEF Worked
  <1>4. \A i, j \in DOMAIN mainloop' : Answered(q, i)' /\ Answered(q, j)' => i = j
    <2>1. \A i, j \in DOMAIN mainloop' : Answered(q, i)' /\ Answered(q, j)' => i + k = j + k
      BY <1>1 DEF OneJobOf
    <2>2. QED
      BY <1>1, <2>1
  <1>5. /\ \A i \in DOMAIN queue, j \in DOMAIN mainloop' : ~(Queued(q, i)' /\ Answered(q, j)')
        /\ \A t \in Workers, j \in DOMAIN mainloop' : ~(Worked(q, t)' /\ Answered(q, j)')
    BY <1>1, <1>2, <1>3 DEF OneJobOf
  <1>6. NoJob(q) => NoJob(q)'
    BY <1>1, <1>2, <1>3 DEF NoJob
  <1>7. ~busy'[q] => NoJob(q)'
    BY <1>6 DEF OneJobOf
  <1>8. /\ \A i, j \in DOMAIN queue : Queued(q, i)' /\ Queued(q, j)' => i = j
        /\ \A t, u \in Workers : Worked(q, t)' /\ Worked(q, u)' => t = u
        /\ \A i \in DOMAIN queue, t \in Workers : ~(Queued(q, i)' /\ Worked(q, t)')
    BY <1>2, <1>3 DEF OneJobOf
  <1>9. QED
    BY <1>4, <1>5, <1>7, <1>8 DEF OneJobOf

(* A job that joins the queue is another page's, or the page had none.      *)
LEMMA JobJoins ==
    ASSUME TypeOK, NEW q, OneJobOf(q), NEW k \in {0, 1},
           NEW p \in Pages, NEW kind \in {"load", "save", "details"},
           queue' = Append(queue, [page |-> p, kind |-> kind]),
           thread' = thread, Drops(mainloop', mainloop, k),
           p # q => busy'[q] = busy[q],
           p = q => /\ busy'[q]
                    /\ \A i \in DOMAIN queue : ~Queued(q, i)
                    /\ \A t \in Workers : ~Worked(q, t)
                    /\ \A i \in DOMAIN mainloop' : ~Answered(q, i)'
    PROVE  OneJobOf(q)'
  <1> DEFINE task == [page |-> p, kind |-> kind]
  <1>1. task \in Task /\ task.page = p
    BY DEF Task
  <1> HIDE DEF task
  <1>2. \A i \in DOMAIN queue' :
          \/ i \in DOMAIN queue /\ queue'[i] = queue[i]
          \/ i = Len(queue) + 1 /\ queue'[i] = task
    BY <1>1, Appended DEF TypeOK, task
  <1>3. \A i \in DOMAIN queue' :
          Queued(q, i)' => \/ i \in DOMAIN queue /\ Queued(q, i)
                           \/ i = Len(queue) + 1 /\ p = q
    BY <1>1, <1>2 DEF Queued
  <1>4. \A j \in DOMAIN mainloop' :
          /\ j \in Nat /\ j + k \in DOMAIN mainloop
          /\ Answered(q, j)' => Answered(q, j + k)
    BY DEF Drops, Answered
  <1>5. \A t \in Workers : Worked(q, t)' <=> Worked(q, t)
    BY DEF Worked
  <1>6. \A i, j \in DOMAIN mainloop' : Answered(q, i)' /\ Answered(q, j)' => i = j
    <2>1. \A i, j \in DOMAIN mainloop' : Answered(q, i)' /\ Answered(q, j)' => i + k = j + k
      BY <1>4 DEF OneJobOf
    <2>2. QED
      BY <1>4, <2>1
  <1>7. CASE p = q
    <2>1. \A i \in DOMAIN queue' : Queued(q, i)' => i = Len(queue) + 1
      BY <1>3, <1>7
    <2>2. /\ \A t \in Workers : ~Worked(q, t)'
          /\ \A i \in DOMAIN mainloop' : ~Answered(q, i)'
      BY <1>5, <1>7
    <2>3. QED
      BY <1>7, <2>1, <2>2 DEF OneJobOf
  <1>8. CASE p # q
    <2>1. \A i \in DOMAIN queue' : Queued(q, i)' => i \in DOMAIN queue /\ Queued(q, i)
      BY <1>3, <1>8
    <2>2. NoJob(q) => NoJob(q)'
      BY <1>4, <1>5, <2>1 DEF NoJob
    <2>3. \A i, j \in DOMAIN queue' : Queued(q, i)' /\ Queued(q, j)' => i = j
      BY <2>1 DEF OneJobOf
    <2>4. \A t, u \in Workers : Worked(q, t)' /\ Worked(q, u)' => t = u
      BY <1>5 DEF OneJobOf
    <2>5. /\ \A i \in DOMAIN queue', t \in Workers : ~(Queued(q, i)' /\ Worked(q, t)')
          /\ \A i \in DOMAIN queue', j \in DOMAIN mainloop' : ~(Queued(q, i)' /\ Answered(q, j)')
          /\ \A t \in Workers, j \in DOMAIN mainloop' : ~(Worked(q, t)' /\ Answered(q, j)')
      BY <1>4, <1>5, <2>1 DEF OneJobOf
    <2>6. ~busy'[q] => NoJob(q)'
      BY <1>8, <2>2 DEF OneJobOf
    <2>7. QED
      BY <1>6, <2>3, <2>4, <2>5, <2>6 DEF OneJobOf
  <1>9. QED
    BY <1>7, <1>8

(* A job that goes on in its thread stays where it is; what the thread      *)
(* publishes are no jobs.                                                   *)
LEMMA JobGoesOn ==
    ASSUME TypeOK, NEW q, OneJobOf(q), NEW t \in Threads, NEW r, Moves(t, r),
           t \in Workers => r # Idle /\ thread[t] # Idle /\ r.page = thread[t].page,
           queue' = queue, busy' = busy,
           \A j \in DOMAIN mainloop' : \/ j \in DOMAIN mainloop /\ mainloop'[j] = mainloop[j]
                                       \/ mainloop'[j].kind = "event"
    PROVE  OneJobOf(q)'
  <1>1. \A u \in Workers : Worked(q, u)' <=> Worked(q, u)
    BY Window DEF Worked, Moves
  <1>2. \A j \in DOMAIN mainloop' : Answered(q, j)' => j \in DOMAIN mainloop /\ Answered(q, j)
    BY DEF Answered
  <1>3. \A i \in DOMAIN queue : Queued(q, i)' <=> Queued(q, i)
    BY DEF Queued
  <1>4. NoJob(q) => NoJob(q)'
    BY <1>1, <1>2, <1>3 DEF NoJob
  <1>5. /\ \A i, j \in DOMAIN queue : Queued(q, i)' /\ Queued(q, j)' => i = j
        /\ \A u, v \in Workers : Worked(q, u)' /\ Worked(q, v)' => u = v
        /\ \A i, j \in DOMAIN mainloop' : Answered(q, i)' /\ Answered(q, j)' => i = j
    BY <1>1, <1>2, <1>3 DEF OneJobOf
  <1>6. /\ \A i \in DOMAIN queue, u \in Workers : ~(Queued(q, i)' /\ Worked(q, u)')
        /\ \A i \in DOMAIN queue, j \in DOMAIN mainloop' : ~(Queued(q, i)' /\ Answered(q, j)')
        /\ \A u \in Workers, j \in DOMAIN mainloop' : ~(Worked(q, u)' /\ Answered(q, j)')
    BY <1>1, <1>2, <1>3 DEF OneJobOf
  <1>7. QED
    BY <1>4, <1>5, <1>6 DEF OneJobOf

(* A job that a worker takes leaves the queue for that worker.              *)
LEMMA JobIsTaken ==
    ASSUME TypeOK, NEW q, OneJobOf(q), NEW t \in Threads, Take(t)
    PROVE  OneJobOf(q)'
  <1> DEFINE r == [page |-> queue[1].page, kind |-> queue[1].kind,
                   stage |-> "begin", version |-> 0]
  <1>1. /\ Moves(t, r) /\ r.page = queue[1].page /\ t \in Workers /\ thread[t] = Idle
        /\ queue # << >> /\ queue' = Tail(queue) /\ 1 \in DOMAIN queue
    BY TakeMoves
  <1>2. r # Idle
    BY DEF Idle
  <1> HIDE DEF r
  <1>3. mainloop' = mainloop /\ busy' = busy
    BY DEF Take
  <1>4. \A j \in DOMAIN queue' :
          /\ j \in Nat /\ j + 1 \in DOMAIN queue /\ j + 1 # 1
          /\ Queued(q, j)' => Queued(q, j + 1)
    BY <1>1, Shifted DEF Queued, TypeOK
  <1>5. \A u \in Workers : Worked(q, u)' => \/ u # t /\ Worked(q, u)
                                            \/ u = t /\ Queued(q, 1)
    BY <1>1, Window DEF Worked, Moves, Queued
  <1>6. \A j \in DOMAIN mainloop : Answered(q, j)' <=> Answered(q, j)
    BY <1>3 DEF Answered
  <1>7. \A i, j \in DOMAIN queue' : Queued(q, i)' /\ Queued(q, j)' => i = j
    <2>1. \A i, j \in DOMAIN queue' : Queued(q, i)' /\ Queued(q, j)' => i + 1 = j + 1
      BY <1>4 DEF OneJobOf
    <2>2. QED
      BY <1>4, <2>1
  <1>8. \A u, v \in Workers : Worked(q, u)' /\ Worked(q, v)' => u = v
    BY <1>1, <1>5 DEF OneJobOf
  <1>9. \A i \in DOMAIN queue', u \in Workers : ~(Queued(q, i)' /\ Worked(q, u)')
    <2>1. \A i \in DOMAIN queue' : ~(Queued(q, i)' /\ Queued(q, 1))
      BY <1>1, <1>4 DEF OneJobOf
    <2>2. \A i \in DOMAIN queue', u \in Workers : ~(Queued(q, i)' /\ Worked(q, u))
      BY <1>4 DEF OneJobOf
    <2>3. QED
      BY <1>5, <2>1, <2>2
  <1>10. /\ \A i, j \in DOMAIN mainloop : Answered(q, i)' /\ Answered(q, j)' => i = j
         /\ \A i \in DOMAIN queue', j \in DOMAIN mainloop : ~(Queued(q, i)' /\ Answered(q, j)')
         /\ \A u \in Workers, j \in DOMAIN mainloop : ~(Worked(q, u)' /\ Answered(q, j)')
    BY <1>1, <1>4, <1>5, <1>6 DEF OneJobOf
  <1>11. NoJob(q) => NoJob(q)'
    BY <1>1, <1>3, <1>4, <1>5, <1>6 DEF NoJob
  <1>12. QED
    BY <1>3, <1>7, <1>8, <1>9, <1>10, <1>11 DEF OneJobOf

(* A job that a worker finishes leaves the worker for the main loop.        *)
LEMMA JobIsFinished ==
    ASSUME Inductive, NEW q, OneJobOf(q), NEW t \in Workers, Finish(t), window = "open"
    PROVE  OneJobOf(q)'
  <1>1. /\ At(t, "end") \/ At(t, "failed")
        /\ t \in Threads /\ Moves(t, Idle) /\ thread[t] # Idle
        /\ mainloop' = Append(mainloop, Result(t))
        /\ queue' = queue /\ busy' = busy
    BY FinishMoves, AtStage, Window DEF Finish, pageVars, Stages, Inductive
  <1>2. Result(t).page = thread[t].page /\ Result(t) \in Callback
    BY <1>1, ResultTyped
  <1>3. \A j \in DOMAIN mainloop' :
          Answered(q, j)' => \/ j \in DOMAIN mainloop /\ Answered(q, j)
                             \/ j = Len(mainloop) + 1 /\ Worked(q, t)
    <2> DEFINE res == Result(t)
    <2>1. res \in Callback /\ res.page = thread[t].page /\ mainloop' = Append(mainloop, res)
      BY <1>1, <1>2
    <2> HIDE DEF res
    <2>2. \A j \in DOMAIN mainloop' :
            \/ j \in DOMAIN mainloop /\ mainloop'[j] = mainloop[j]
            \/ j = Len(mainloop) + 1 /\ mainloop'[j] = res
      BY <2>1, Appended DEF Inductive, TypeOK
    <2>3. QED
      BY <1>1, <2>1, <2>2 DEF Answered, Worked
  <1>4. \A u \in Workers : Worked(q, u)' => u # t /\ Worked(q, u)
    BY <1>1, Window DEF Worked, Moves
  <1>5. \A i \in DOMAIN queue : Queued(q, i)' <=> Queued(q, i)
    BY <1>1 DEF Queued
  <1>6. \A i, j \in DOMAIN mainloop' : Answered(q, i)' /\ Answered(q, j)' => i = j
    BY <1>3 DEF OneJobOf
  <1>7. /\ \A i, j \in DOMAIN queue : Queued(q, i)' /\ Queued(q, j)' => i = j
        /\ \A u, v \in Workers : Worked(q, u)' /\ Worked(q, v)' => u = v
        /\ \A i \in DOMAIN queue, u \in Workers : ~(Queued(q, i)' /\ Worked(q, u)')
    BY <1>4, <1>5 DEF OneJobOf
  <1>8. \A i \in DOMAIN queue, j \in DOMAIN mainloop' : ~(Queued(q, i)' /\ Answered(q, j)')
    BY <1>3, <1>5 DEF OneJobOf
  <1>9. \A u \in Workers, j \in DOMAIN mainloop' : ~(Worked(q, u)' /\ Answered(q, j)')
    BY <1>3, <1>4 DEF OneJobOf
  <1>10. NoJob(q) => NoJob(q)'
    BY <1>1, <1>3, <1>4, <1>5 DEF NoJob
  <1>11. QED
    BY <1>1, <1>6, <1>7, <1>8, <1>9, <1>10 DEF OneJobOf

(* When a page's result is delivered, the page has no other job.            *)
LEMMA DeliveredJobWasAlone ==
    ASSUME TypeOK, NEW q, OneJobOf(q), mainloop # << >>, mainloop' = Tail(mainloop),
           Answered(q, 1)
    PROVE  /\ \A i \in DOMAIN queue : ~Queued(q, i)
           /\ \A t \in Workers : ~Worked(q, t)
           /\ \A i \in DOMAIN mainloop' : ~Answered(q, i)'
  <1>1. /\ 1 \in DOMAIN mainloop
        /\ \A j \in DOMAIN mainloop' :
            j + 1 \in DOMAIN mainloop /\ mainloop'[j] = mainloop[j + 1] /\ j + 1 # 1
    BY Shifted DEF TypeOK
  <1>2. \A j \in DOMAIN mainloop' : Answered(q, j)' => Answered(q, j + 1)
    BY <1>1 DEF Answered
  <1>3. QED
    BY <1>1, <1>2 DEF OneJobOf

(* The result of a page's job ends that job, and may begin its next load.   *)
LEMMA JobIsDelivered ==
    ASSUME TypeOK, NEW q \in Pages \ Detailed, OneJobOf(q), DeliverResult
    PROVE  OneJobOf(q)'
  <1> DEFINE p == mainloop[1].page
  <1>1. /\ mainloop # << >> /\ mainloop' = Tail(mainloop)
        /\ Head(mainloop) = mainloop[1] /\ p \in Pages
        /\ mainloop[1].kind # "event" /\ thread' = thread
        /\ busy \in [Pages -> BOOLEAN]
    BY FirstCallback DEF DeliverResult, Pop, TypeOK
  <1>2. Drops(mainloop', mainloop, 1)
    BY <1>1, DropsHead DEF TypeOK
  <1>3. p = q => /\ \A i \in DOMAIN queue : ~Queued(q, i)
                 /\ \A t \in Workers : ~Worked(q, t)
                 /\ \A i \in DOMAIN mainloop' : ~Answered(q, i)'
    BY <1>1, DeliveredJobWasAlone DEF Answered
  <1>4. (p = q /\ queue' = queue) => NoJob(q)'
    BY <1>1, <1>3 DEF NoJob, Queued, Worked
  <1>5. \/ UNCHANGED <<queue, busy>>
        \/ busy' = [busy EXCEPT ![p] = FALSE] /\ UNCHANGED queue
        \/ /\ busy' = [busy EXCEPT ![p] = FALSE] /\ p \in Detailed
           /\ queue' = Append(queue, [page |-> p, kind |-> "details"])
        \/ /\ busy' = [busy EXCEPT ![p] = TRUE]
           /\ queue' = Append(queue, [page |-> p, kind |-> "load"])
    BY <1>1 DEF DeliverResult, Loaded, Saved, Failed, Submit, pageVars
  <1> HIDE DEF p
  <1>6. CASE queue' = queue
    <2>1. ~busy'[q] => ~busy[q] \/ NoJob(q)'
      BY <1>1, <1>4, <1>5, <1>6
    <2>2. QED
      BY <1>1, <1>2, <1>6, <2>1, JobLeaves
  <1>7. CASE /\ busy' = [busy EXCEPT ![p] = FALSE] /\ p \in Detailed
             /\ queue' = Append(queue, [page |-> p, kind |-> "details"])
    <2>1. p # q /\ busy'[q] = busy[q]
      BY <1>1, <1>7
    <2>2. QED
      BY <1>1, <1>2, <1>7, <2>1, JobJoins
  <1>8. CASE /\ busy' = [busy EXCEPT ![p] = TRUE]
             /\ queue' = Append(queue, [page |-> p, kind |-> "load"])
    <2>1. (p # q => busy'[q] = busy[q]) /\ (p = q => busy'[q])
      BY <1>1, <1>8
    <2>2. QED
      BY <1>1, <1>2, <1>3, <1>8, <2>1, JobJoins
  <1>9. QED
    BY <1>5, <1>6, <1>7, <1>8

(* A page that submits a job, on its own behalf, was free.                  *)
LEMMA JobIsSubmitted ==
    ASSUME TypeOK, NEW q \in Pages, OneJobOf(q), NEW p \in Pages, NEW k \in {0, 1},
           NEW kind \in {"load", "save"}, ~busy[p], Submit(p, kind),
           thread' = thread, Drops(mainloop', mainloop, k)
    PROVE  OneJobOf(q)'
  <1>1. busy' = [busy EXCEPT ![p] = TRUE] /\ busy \in [Pages -> BOOLEAN]
    BY DEF Submit, TypeOK
  <1>2. p = q => NoJob(q)
    BY DEF OneJobOf
  <1>3. \A j \in DOMAIN mainloop' :
          /\ j + k \in DOMAIN mainloop
          /\ Answered(q, j)' => Answered(q, j + k)
    BY DEF Drops, Answered
  <1>4. p = q => /\ \A i \in DOMAIN queue : ~Queued(q, i)
                 /\ \A t \in Workers : ~Worked(q, t)
                 /\ \A i \in DOMAIN mainloop' : ~Answered(q, i)'
    BY <1>2, <1>3 DEF NoJob
  <1>5. (p # q => busy'[q] = busy[q]) /\ (p = q => busy'[q])
    BY <1>1
  <1>6. queue' = Append(queue, [page |-> p, kind |-> kind])
    BY DEF Submit
  <1>7. QED
    BY <1>4, <1>5, <1>6, JobJoins

(* Every step keeps a page without details to one job.                      *)
LEMMA OneJobKept == ASSUME Inductive, Next PROVE OneJob'
  <1>1. SUFFICES ASSUME window' = "open", NEW q \in Pages \ Detailed PROVE OneJobOf(q)'
    BY DEF OneJob
  <1>2. window = "open" /\ OneJobOf(q) /\ TypeOK
    BY <1>1, WindowSteps DEF Inductive, OneJob
  <1>3. Drops(mainloop, mainloop, 0)
    BY <1>2, DropsNone DEF TypeOK
  <1>4. \A j \in DOMAIN mainloop : j \in DOMAIN mainloop /\ mainloop[j] = mainloop[j]
    OBVIOUS
  <1>5. CASE queue' = queue /\ thread' = thread /\ mainloop' = mainloop /\ busy' = busy
    BY <1>2, <1>3, <1>5, JobLeaves
  <1>6. ASSUME NEW p \in Pages, UserRefreshes(p) \/ UserSaves(p) \/ UserSelects(p)
        PROVE  OneJobOf(q)'
    <2>1. thread' = thread /\ mainloop' = mainloop
      BY <1>6 DEF UserRefreshes, UserSaves, UserSelects
    <2>2. CASE UserRefreshes(p)
      <3>1. UNCHANGED <<queue, busy>> \/ (~busy[p] /\ Submit(p, "load"))
        BY <2>2 DEF UserRefreshes, Refresh
      <3>2. QED
        BY <1>2, <1>3, <1>5, <2>1, <3>1, JobIsSubmitted
    <2>3. CASE UserSaves(p)
      <3>1. ~busy[p] /\ Submit(p, "save")
        BY <2>3 DEF UserSaves
      <3>2. QED
        BY <1>2, <1>3, <2>1, <3>1, JobIsSubmitted
    <2>4. CASE UserSelects(p)
      <3>1. /\ p # q /\ busy' = busy
            /\ queue' = Append(queue, [page |-> p, kind |-> "details"])
        BY <2>4 DEF UserSelects
      <3>2. QED
        BY <1>2, <1>3, <2>1, <3>1, JobJoins
    <2>5. QED
      BY <1>6, <2>2, <2>3, <2>4
  <1>7. ASSUME NEW t \in Threads, ThreadStep(t) \/ Fail(t) PROVE OneJobOf(q)'
    <2>1. \A stage, v : As(t, stage, v).page = thread[t].page /\ As(t, stage, v).stage = stage
      BY DEF As
    <2>2. ASSUME NEW stage \in Stages, NEW v, Moves(t, As(t, stage, v)), thread[t] # Idle,
                 queue' = queue, busy' = busy,
                 \A j \in DOMAIN mainloop' :
                    \/ j \in DOMAIN mainloop /\ mainloop'[j] = mainloop[j]
                    \/ mainloop'[j].kind = "event"
          PROVE  OneJobOf(q)'
      <3> DEFINE r == As(t, stage, v)
      <3>1. Moves(t, r) /\ r.page = thread[t].page /\ r # Idle
        BY <2>1, <2>2 DEF Idle, Stages
      <3> HIDE DEF r
      <3>2. QED
        BY <1>2, <2>2, <3>1, JobGoesOn
    <2>3. \A stage \in Stages : At(t, stage) => thread[t] # Idle
      BY AtStage
    <2>4. CASE Take(t)
      BY <1>2, <2>4, JobIsTaken
    <2>5. CASE Read(t)
      <3>1. queue' = queue /\ busy' = busy /\ mainloop' = mainloop
        BY <2>5 DEF Read, pageVars
      <3>2. QED
        BY <1>2, <2>2, <2>3, <2>5, <3>1, ReadMoves DEF Stages
    <2>6. CASE Flush(t)
      <3>1. queue' = queue /\ busy' = busy /\ mainloop' = mainloop
        BY <2>6 DEF Flush, pageVars
      <3>2. QED
        BY <1>2, <2>2, <2>3, <2>6, <3>1, FlushMoves DEF Stages
    <2>7. CASE Commit(t)
      <3>1. queue' = queue /\ busy' = busy /\ mainloop' = mainloop
        BY <2>7 DEF Commit, pageVars
      <3>2. QED
        BY <1>2, <2>2, <2>3, <2>7, <3>1, CommitMoves DEF Stages
    <2>8. CASE Publish(t)
      <3>1. queue' = queue /\ busy' = busy
        BY <2>8 DEF Publish, pageVars
      <3>2. thread[t].version \in Nat /\ thread[t] # Idle
        BY <1>2, <2>8, AtStage, PublishMoves DEF Stages
      <3>3. \A j \in DOMAIN mainloop' :
              \/ j \in DOMAIN mainloop /\ mainloop'[j] = mainloop[j]
              \/ mainloop'[j].kind = "event"
        <4> DEFINE v == thread[t].version
        <4>1. v \in Nat /\ mainloop' = mainloop \o EventsOf(v)
          BY <2>8, <3>2 DEF Publish
        <4>2. mainloop \in Seq(Callback) /\ subscribed \in Seq(Pages)
          BY <1>2, ListenersTyped DEF TypeOK
        <4> HIDE DEF v
        <4> DEFINE n == mainloop \o EventsOf(v)
        <4>3. \A j \in DOMAIN n :
                \/ j \in DOMAIN mainloop /\ n[j] = mainloop[j]
                \/ n[j].kind = "event" /\ n[j].version = v
          BY <4>1, <4>2, Published
        <4> HIDE DEF n
        <4>4. QED
          BY <4>1, <4>3 DEF n
      <3>4. CASE t = Scanner
        BY <1>2, <2>8, <3>1, <3>3, <3>4, JobGoesOn, PublishMoves, Window
      <3>5. CASE t # Scanner
        BY <1>2, <2>2, <2>8, <3>1, <3>2, <3>3, <3>5, PublishMoves DEF Stages
      <3>6. QED
        BY <3>4, <3>5
    <2>9. CASE Finish(t)
      <3>1. CASE t \in Workers
        BY <1>2, <2>9, <3>1, JobIsFinished
      <3>2. CASE t \notin Workers
        <4>1. queue' = queue /\ busy' = busy /\ mainloop' = mainloop /\ Moves(t, Idle)
          BY <1>2, <2>9, <3>2, FinishMoves DEF Finish, pageVars
        <4>2. QED
          BY <1>2, <1>4, <3>2, <4>1, JobGoesOn
      <3>3. QED
        BY <3>1, <3>2
    <2>10. CASE Fail(t)
      <3>1. queue' = queue /\ busy' = busy /\ mainloop' = mainloop
        BY <2>10 DEF Fail, pageVars
      <3>2. QED
        BY <1>2, <2>2, <2>3, <2>10, <3>1, FailMoves DEF Stages
    <2>11. QED
      BY <1>7, <2>4, <2>5, <2>6, <2>7, <2>8, <2>9, <2>10 DEF ThreadStep
  <1>8. CASE Scan
    <2> DEFINE r == [page |-> Scanner, kind |-> "save", stage |-> "flushed",
                     version |-> committed + 1]
    <2>1. Moves(Scanner, r) /\ Scanner \in Threads /\ Scanner \notin Workers
      BY <1>2, <1>8, ScanMoves, Window
    <2> HIDE DEF r
    <2>2. queue' = queue /\ busy' = busy /\ mainloop' = mainloop
      BY <1>8 DEF Scan, pageVars
    <2>3. QED
      BY <1>2, <2>1, <2>2, JobGoesOn
  <1>9. CASE DeliverEvent
    <2> DEFINE p == Head(mainloop).page
    <2>1. /\ thread' = thread /\ Drops(mainloop', mainloop, 1) /\ p \in Pages
          /\ UNCHANGED <<queue, busy>> \/ (~busy[p] /\ Submit(p, "load"))
      BY <1>2, <1>9, DropsHead, FirstCallback DEF DeliverEvent, Pop, Refresh, TypeOK
    <2> HIDE DEF p
    <2>2. CASE UNCHANGED <<queue, busy>>
      BY <1>2, <2>1, <2>2, JobLeaves
    <2>3. CASE ~busy[p] /\ Submit(p, "load")
      BY <1>2, <2>1, <2>3, JobIsSubmitted
    <2>4. QED
      BY <2>1, <2>2, <2>3
  <1>10. CASE DeliverResult
    BY <1>2, <1>10, JobIsDelivered
  <1>11. CASE CloseWindow \/ Shutdown
    BY <1>1, <1>11 DEF CloseWindow, Shutdown
  <1>12. QED
    BY <1>6, <1>7, <1>8, <1>9, <1>10, <1>11 DEF Next

-----------------------------------------------------------------------------
(* No page is stuck.                                                       *)

QueuedJob(p, i) == queue[i].page = p /\ queue[i].kind # "details"
WorkedJob(p, t) == Working(t, {"load", "save"}) /\ thread[t].page = p
AnsweredJob(p, i) == mainloop[i].page = p /\ mainloop[i].kind \in {"load", "save", "error"}

(* Somewhere there is a job that will free page p.                          *)
Awaited(p) ==
    \/ \E i \in DOMAIN queue : QueuedJob(p, i)
    \/ \E t \in Workers : WorkedJob(p, t)
    \/ \E i \in DOMAIN mainloop : AnsweredJob(p, i)

LEMMA StuckWithoutJob == NeverStuck <=> \A p \in Pages : window = "open" /\ busy[p] => Awaited(p)
  BY DEF NeverStuck, Awaited, QueuedJob, WorkedJob, AnsweredJob

(* The job still is somewhere when the queue and the main loop lose nothing *)
(* of the page's, and its thread goes on.                                   *)
LEMMA AwaitedStays ==
    ASSUME NEW q, Awaited(q),
           \A i \in DOMAIN queue : QueuedJob(q, i) =>
                \E j \in DOMAIN queue' : QueuedJob(q, j)',
           \A t \in Workers : WorkedJob(q, t) => WorkedJob(q, t)',
           \A i \in DOMAIN mainloop : AnsweredJob(q, i) =>
                \E j \in DOMAIN mainloop' : AnsweredJob(q, j)'
    PROVE  Awaited(q)'
  BY DEF Awaited

(* A submitted job will free its page.                                      *)
LEMMA SubmittedIsAwaited ==
    ASSUME TypeOK, NEW p \in Pages, NEW kind \in {"load", "save"}, Submit(p, kind)
    PROVE  Awaited(p)'
  <1> DEFINE task == [page |-> p, kind |-> kind]
  <1>1. task \in Task /\ task.page = p /\ task.kind # "details"
    BY DEF Task
  <1> HIDE DEF task
  <1>2. queue' = Append(queue, task) /\ queue \in Seq(Task)
    BY DEF Submit, TypeOK, task
  <1>3. Len(queue) + 1 \in DOMAIN queue' /\ queue'[Len(queue) + 1] = task
    BY <1>1, <1>2, Appended
  <1>4. QED
    BY <1>1, <1>3 DEF Awaited, QueuedJob

(* Submitting another task loses none.                                      *)
LEMMA QueueGrows ==
    ASSUME TypeOK, NEW q, NEW p \in Pages, NEW kind \in {"load", "save", "details"},
           queue' = Append(queue, [page |-> p, kind |-> kind])
    PROVE  \A i \in DOMAIN queue : i \in DOMAIN queue' /\ queue'[i] = queue[i]
  <1> DEFINE task == [page |-> p, kind |-> kind]
  <1>1. task \in Task
    BY DEF Task
  <1>2. queue' = Append(queue, task) /\ queue \in Seq(Task)
    BY DEF TypeOK
  <1> HIDE DEF task
  <1>3. QED
    BY <1>1, <1>2, Appended

(* The job in a thread is the page's until it is finished.                  *)
LEMMA WorkGoesOn ==
    ASSUME TypeOK, NEW q, NEW t \in Threads, NEW r, Moves(t, r),
           t \in Workers => r.page = thread[t].page /\ r.kind = thread[t].kind
    PROVE  \A u \in Workers : WorkedJob(q, u) => WorkedJob(q, u)'
  BY Window DEF WorkedJob, Working, Moves

(* No step of a thread loses a job.                                         *)
LEMMA ThreadsKeepAwaited ==
    ASSUME Inductive, NEW q, Awaited(q), window = "open",
           NEW t \in Threads, ThreadStep(t) \/ Fail(t)
    PROVE  Awaited(q)'
  <1>1. TypeOK
    BY DEF Inductive
  <1>2. \A stage, v : As(t, stage, v).page = thread[t].page /\ As(t, stage, v).kind = thread[t].kind
    BY DEF As
  <1>3. ASSUME NEW stage, NEW v, Moves(t, As(t, stage, v)), queue' = queue,
               \A i \in DOMAIN mainloop : i \in DOMAIN mainloop' /\ mainloop'[i] = mainloop[i]
        PROVE  Awaited(q)'
    <2>1. \A u \in Workers : WorkedJob(q, u) => WorkedJob(q, u)'
      BY <1>1, <1>2, <1>3, WorkGoesOn
    <2>2. QED
      BY <1>3, <2>1, AwaitedStays DEF QueuedJob, AnsweredJob
  <1>4. CASE Take(t)
    <2> DEFINE r == [page |-> queue[1].page, kind |-> queue[1].kind,
                     stage |-> "begin", version |-> 0]
    <2>1. /\ Moves(t, r) /\ r.page = queue[1].page /\ r.kind = queue[1].kind
          /\ t \in Workers /\ thread[t] = Idle /\ queue[1] \in Task
          /\ queue # << >> /\ queue' = Tail(queue)
      BY <1>1, <1>4, TakeMoves
    <2> HIDE DEF r
    <2>2. /\ mainloop' = mainloop
          /\ \A i \in DOMAIN queue : i = 1 \/ (i - 1 \in DOMAIN queue' /\ queue'[i - 1] = queue[i])
      BY <1>1, <1>4, <2>1, Shifted DEF Take, TypeOK
    <2>3. \A u \in Workers : WorkedJob(q, u) => WorkedJob(q, u)'
      <3>1. ~Working(t, {"load", "save"})
        BY <2>1 DEF Working, Idle
      <3>2. QED
        BY <2>1, <3>1, Window DEF WorkedJob, Working, Moves
    <2>4. \A i \in DOMAIN queue : QueuedJob(q, i) =>
            (\E j \in DOMAIN queue' : QueuedJob(q, j)') \/ WorkedJob(q, t)'
      <3>1. QueuedJob(q, 1) => WorkedJob(q, t)'
        BY <2>1 DEF QueuedJob, WorkedJob, Working, Moves, Task
      <3>2. \A i \in DOMAIN queue : i # 1 /\ QueuedJob(q, i) => QueuedJob(q, i - 1)'
        BY <2>2 DEF QueuedJob
      <3>3. QED
        BY <2>2, <3>1, <3>2
    <2>5. QED
      BY <2>1, <2>2, <2>3, <2>4 DEF Awaited, AnsweredJob
  <1>5. CASE Finish(t)
    <2>1. queue' = queue /\ Moves(t, Idle) /\ (At(t, "end") \/ At(t, "failed"))
      BY <1>1, <1>5, FinishMoves DEF Finish
    <2>2. CASE t \notin Workers
      <3>1. mainloop' = mainloop
        BY <1>5, <2>2 DEF Finish
      <3>2. \A u \in Workers : WorkedJob(q, u) => WorkedJob(q, u)'
        BY <1>1, <2>1, <2>2, WorkGoesOn
      <3>3. QED
        BY <2>1, <3>1, <3>2, AwaitedStays DEF QueuedJob, AnsweredJob
    <2>3. CASE t \in Workers
      <3> DEFINE res == Result(t)
      <3>1. /\ res \in Callback /\ res.page = thread[t].page
            /\ res.kind \in {"error", thread[t].kind}
            /\ mainloop' = Append(mainloop, res) /\ mainloop \in Seq(Callback)
        BY <1>1, <1>5, <2>1, <2>3, ResultTyped DEF Finish, TypeOK
      <3> HIDE DEF res
      <3>2. /\ \A i \in DOMAIN mainloop : i \in DOMAIN mainloop' /\ mainloop'[i] = mainloop[i]
            /\ Len(mainloop) + 1 \in DOMAIN mainloop' /\ mainloop'[Len(mainloop) + 1] = res
        BY <3>1, Appended
      <3>3. \A u \in Workers : WorkedJob(q, u) =>
                \/ WorkedJob(q, u)'
                \/ \E j \in DOMAIN mainloop' : AnsweredJob(q, j)'
        <4>1. WorkedJob(q, t) => \E j \in DOMAIN mainloop' : AnsweredJob(q, j)'
          <5>1. PICK j \in DOMAIN mainloop' : mainloop'[j] = res
            BY <3>2
          <5>2. WorkedJob(q, t) => AnsweredJob(q, j)'
            BY <3>1, <5>1 DEF WorkedJob, Working, AnsweredJob
          <5>3. QED
            BY <5>2
        <4>2. \A u \in Workers : u # t /\ WorkedJob(q, u) => WorkedJob(q, u)'
          BY <2>1, Window DEF WorkedJob, Working, Moves
        <4>3. QED
          BY <4>1, <4>2
      <3>4. QED
        BY <2>1, <3>2, <3>3 DEF Awaited, QueuedJob, AnsweredJob
    <2>4. QED
      BY <2>2, <2>3
  <1>6. CASE Publish(t)
    <2> DEFINE v == thread[t].version
               n == mainloop \o EventsOf(v)
    <2>1. v \in Nat /\ mainloop \in Seq(Callback) /\ subscribed \in Seq(Pages)
      BY <1>1, <1>6, AtStage, PublishMoves, ListenersTyped DEF Stages, TypeOK
    <2>2. mainloop' = n /\ queue' = queue
      BY <1>6 DEF Publish
    <2> HIDE DEF v
    <2>3. \A i \in DOMAIN mainloop : i \in DOMAIN n /\ n[i] = mainloop[i]
      BY <2>1, Published
    <2> HIDE DEF n
    <2>4. \A u \in Workers : WorkedJob(q, u) => WorkedJob(q, u)'
      BY <1>1, <1>2, <1>6, PublishMoves, WorkGoesOn, Window
    <2>5. QED
      BY <2>2, <2>3, <2>4, AwaitedStays DEF QueuedJob, AnsweredJob
  <1>7. CASE Read(t)
    <2>1. queue' = queue /\ mainloop' = mainloop
      BY <1>7 DEF Read
    <2>2. QED
      BY <1>1, <1>3, <1>7, <2>1, ReadMoves
  <1>8. CASE Flush(t)
    <2>1. queue' = queue /\ mainloop' = mainloop
      BY <1>8 DEF Flush
    <2>2. QED
      BY <1>1, <1>3, <1>8, <2>1, FlushMoves
  <1>9. CASE Commit(t)
    <2>1. queue' = queue /\ mainloop' = mainloop
      BY <1>9 DEF Commit
    <2>2. QED
      BY <1>1, <1>3, <1>9, <2>1, CommitMoves
  <1>10. CASE Fail(t)
    <2>1. queue' = queue /\ mainloop' = mainloop
      BY <1>10 DEF Fail
    <2>2. QED
      BY <1>1, <1>3, <1>10, <2>1, FailMoves
  <1>11. QED
    BY <1>4, <1>5, <1>6, <1>7, <1>8, <1>9, <1>10 DEF ThreadStep

(* Every page that is busy afterwards has a job that will free it.          *)
LEMMA NeverStuckKept == ASSUME Inductive, Next PROVE NeverStuck'
  <1> USE DEF Inductive
  <1>1. SUFFICES ASSUME window' = "open", NEW q \in Pages, busy'[q] PROVE Awaited(q)'
    <2>1. NeverStuck' <=> \A p \in Pages : window' = "open" /\ busy'[p] => Awaited(p)'
      BY DEF NeverStuck, Awaited, QueuedJob, WorkedJob, AnsweredJob
    <2>2. QED
      BY <1>1, <2>1
  <1>2. window = "open" /\ TypeOK /\ (busy[q] => Awaited(q))
    BY <1>1, WindowSteps, StuckWithoutJob
  <1>3. ASSUME Awaited(q), thread' = thread,
               \A i \in DOMAIN queue : i \in DOMAIN queue' /\ queue'[i] = queue[i],
               \A i \in DOMAIN mainloop : AnsweredJob(q, i) =>
                    \E j \in DOMAIN mainloop' : AnsweredJob(q, j)'
        PROVE  Awaited(q)'
    BY <1>3, AwaitedStays DEF QueuedJob, WorkedJob, Working
  <1>4. ASSUME NEW p \in Pages, UserRefreshes(p) \/ UserSaves(p) \/ UserSelects(p)
        PROVE  Awaited(q)'
    <2>1. thread' = thread /\ mainloop' = mainloop
      BY <1>4 DEF UserRefreshes, UserSaves, UserSelects
    <2>2. \/ UNCHANGED <<queue, busy>>
          \/ \E kind \in {"load", "save"} : Submit(p, kind)
          \/ busy' = busy /\ queue' = Append(queue, [page |-> p, kind |-> "details"])
      BY <1>4 DEF UserRefreshes, UserSaves, UserSelects, Refresh
    <2>3. CASE UNCHANGED <<queue, busy>>
      BY <1>1, <1>2, <1>3, <2>1, <2>3 DEF AnsweredJob
    <2>4. CASE \E kind \in {"load", "save"} : Submit(p, kind)
      <3>1. PICK kind \in {"load", "save"} : Submit(p, kind)
        BY <2>4
      <3>2. CASE p = q
        BY <1>2, <3>1, <3>2, SubmittedIsAwaited
      <3>3. CASE p # q
        <4>1. busy[q] /\ queue' = Append(queue, [page |-> p, kind |-> kind])
          BY <1>1, <1>2, <3>1, <3>3 DEF Submit, TypeOK
        <4>2. \A i \in DOMAIN queue : i \in DOMAIN queue' /\ queue'[i] = queue[i]
          BY <1>2, <4>1, QueueGrows
        <4>3. QED
          BY <1>2, <1>3, <2>1, <4>1, <4>2 DEF AnsweredJob
      <3>4. QED
        BY <3>2, <3>3
    <2>5. CASE busy' = busy /\ queue' = Append(queue, [page |-> p, kind |-> "details"])
      <3>1. \A i \in DOMAIN queue : i \in DOMAIN queue' /\ queue'[i] = queue[i]
        BY <1>2, <2>5, QueueGrows
      <3>2. QED
        BY <1>1, <1>2, <1>3, <2>1, <2>5, <3>1 DEF AnsweredJob
    <2>6. QED
      BY <2>2, <2>3, <2>4, <2>5
  <1>5. ASSUME NEW t \in Threads, ThreadStep(t) \/ Fail(t) PROVE Awaited(q)'
    <2>1. busy' = busy
      BY <1>5 DEF ThreadStep, Take, Read, Flush, Commit, Publish, Finish, Fail, pageVars
    <2>2. QED
      BY <1>1, <1>2, <1>5, <2>1, ThreadsKeepAwaited
  <1>6. CASE Scan
    <2>1. UNCHANGED <<queue, busy, mainloop>>
      BY <1>6 DEF Scan, pageVars
    <2>2. \A u \in Workers : WorkedJob(q, u) => WorkedJob(q, u)'
      BY <1>2, <1>6, ScanMoves, WorkGoesOn, Window
    <2>3. QED
      BY <1>1, <1>2, <2>1, <2>2, AwaitedStays DEF QueuedJob, AnsweredJob
  <1>7. ASSUME mainloop # << >>, mainloop' = Tail(mainloop), ~AnsweredJob(q, 1)
        PROVE  \A i \in DOMAIN mainloop : AnsweredJob(q, i) =>
                    \E j \in DOMAIN mainloop' : AnsweredJob(q, j)'
    <2>1. SUFFICES ASSUME NEW i \in DOMAIN mainloop, AnsweredJob(q, i)
                   PROVE  \E j \in DOMAIN mainloop' : AnsweredJob(q, j)'
      OBVIOUS
    <2>2. \A k \in DOMAIN mainloop :
            k = 1 \/ (k - 1 \in DOMAIN mainloop' /\ mainloop'[k - 1] = mainloop[k])
      BY <1>2, <1>7, Shifted DEF TypeOK
    <2>3. PICK j \in DOMAIN mainloop' : mainloop'[j] = mainloop[i]
      BY <1>7, <2>1, <2>2
    <2>4. QED
      BY <2>1, <2>3 DEF AnsweredJob
  <1>8. CASE DeliverEvent
    <2> DEFINE p == mainloop[1].page
    <2>1. /\ mainloop # << >> /\ mainloop' = Tail(mainloop) /\ mainloop[1].kind = "event"
          /\ thread' = thread /\ p \in Pages
          /\ UNCHANGED <<queue, busy>> \/ Submit(p, "load")
      BY <1>2, <1>8, FirstCallback DEF DeliverEvent, Pop, Refresh
    <2>2. ~AnsweredJob(q, 1)
      BY <2>1 DEF AnsweredJob
    <2> HIDE DEF p
    <2>3. CASE UNCHANGED <<queue, busy>>
      BY <1>1, <1>2, <1>3, <1>7, <2>1, <2>2, <2>3
    <2>4. CASE Submit(p, "load") /\ p = q
      BY <1>2, <2>4, SubmittedIsAwaited
    <2>5. CASE Submit(p, "load") /\ p # q
      <3>1. busy[q] /\ queue' = Append(queue, [page |-> p, kind |-> "load"])
        BY <1>1, <1>2, <2>1, <2>5 DEF Submit, TypeOK
      <3>2. \A i \in DOMAIN queue : i \in DOMAIN queue' /\ queue'[i] = queue[i]
        BY <1>2, <2>1, <3>1, QueueGrows
      <3>3. QED
        BY <1>2, <1>3, <1>7, <2>1, <2>2, <3>1, <3>2
    <2>6. QED
      BY <2>1, <2>3, <2>4, <2>5
  <1>9. CASE DeliverResult
    <2> DEFINE p == mainloop[1].page
    <2>1. /\ mainloop # << >> /\ mainloop' = Tail(mainloop) /\ thread' = thread
          /\ Head(mainloop) = mainloop[1] /\ p \in Pages
          /\ mainloop[1].kind \in {"load", "save", "details", "error"}
          /\ busy \in [Pages -> BOOLEAN]
      BY <1>2, <1>9, FirstCallback DEF DeliverResult, Pop, TypeOK
    <2>2. \/ mainloop[1].kind = "details" /\ UNCHANGED <<queue, busy>>
          \/ busy' = [busy EXCEPT ![p] = FALSE] /\ UNCHANGED queue
          \/ /\ busy' = [busy EXCEPT ![p] = FALSE]
             /\ queue' = Append(queue, [page |-> p, kind |-> "details"])
          \/ Submit(p, "load")
      BY <1>2, <1>9, <2>1 DEF DeliverResult, Accepts, Loaded, Saved, Failed, pageVars
    <2>3. p # q => ~AnsweredJob(q, 1)
      BY DEF AnsweredJob
    <2>4. mainloop[1].kind = "details" => ~AnsweredJob(q, 1)
      BY DEF AnsweredJob
    <2> HIDE DEF p
    <2>5. CASE mainloop[1].kind = "details" /\ UNCHANGED <<queue, busy>>
      BY <1>1, <1>2, <1>3, <1>7, <2>1, <2>4, <2>5
    <2>6. CASE Submit(p, "load") /\ p = q
      BY <1>2, <2>6, SubmittedIsAwaited
    <2>7. CASE /\ p # q /\ busy[q]
               /\ \/ UNCHANGED queue
                  \/ \E kind \in {"load", "details"} :
                        queue' = Append(queue, [page |-> p, kind |-> kind])
      <3>1. \A i \in DOMAIN queue : i \in DOMAIN queue' /\ queue'[i] = queue[i]
        BY <1>2, <2>1, <2>7, QueueGrows
      <3>2. QED
        BY <1>2, <1>3, <1>7, <2>1, <2>3, <2>7, <3>1
    <2>8. busy' = [busy EXCEPT ![p] = FALSE] => p # q /\ busy[q]
      BY <1>1, <2>1
    <2>9. Submit(p, "load") /\ p # q =>
            busy[q] /\ queue' = Append(queue, [page |-> p, kind |-> "load"])
      BY <1>1, <2>1 DEF Submit
    <2>10. QED
      BY <2>2, <2>5, <2>6, <2>7, <2>8, <2>9
  <1>10. CASE CloseWindow \/ Shutdown
    BY <1>1, <1>10 DEF CloseWindow, Shutdown
  <1>11. QED
    BY <1>4, <1>5, <1>6, <1>8, <1>9, <1>10 DEF Next

-----------------------------------------------------------------------------
(* Loads come back newer.                                                  *)

(* Version v is as new as what page p shows and what it saved.              *)
Fresh(p, v) == v >= shown[p] /\ v >= saved[p]

(* The threads' part: what is shown and saved of page q stays, and the      *)
(* loads it has are those it had, or one that reads now.                    *)
LEMMA FreshWork ==
    ASSUME Inductive, NEW q \in Pages, Next,
           \A u \in Workers : LoadOf(q, thread[u]) /\ At(u, "end") => Fresh(q, thread[u].version)
    PROVE  \A u \in Workers : LoadOf(q, thread'[u]) /\ At(u, "end")' =>
                thread'[u].version >= shown[q] /\ thread'[u].version >= saved[q]
  <1>1. /\ TypeOK /\ committed \in Nat /\ shown[q] \in 0..committed /\ saved[q] \in 0..committed
        /\ \A t \in Threads : At(t, "committed") => thread[t].kind = "save"
    BY DEF Inductive, TypeOK, OnlySavesWrite, Working
  <1>2. ASSUME NEW t \in Threads, NEW r, Moves(t, r),
               r.stage = "end" /\ r.kind = "load" => r.version = committed
        PROVE  \A u \in Workers : LoadOf(q, thread'[u]) /\ At(u, "end")' =>
                thread'[u].version >= shown[q] /\ thread'[u].version >= saved[q]
    <2>1. \A u \in Workers : u # t => thread'[u] = thread[u]
      BY <1>2, Window DEF Moves
    <2>2. thread'[t] = r
      BY <1>2 DEF Moves
    <2>3. SUFFICES ASSUME NEW u \in Workers, LoadOf(q, thread'[u]), At(u, "end")'
                   PROVE  thread'[u].version >= shown[q] /\ thread'[u].version >= saved[q]
      OBVIOUS
    <2>4. CASE u = t
      BY <1>1, <1>2, <2>2, <2>3, <2>4 DEF LoadOf, At
    <2>5. CASE u # t
      BY <2>1, <2>3, <2>5 DEF LoadOf, At, Fresh
    <2>6. QED
      BY <2>4, <2>5
  <1>3. ASSUME NEW t \in Threads, ThreadStep(t) \/ Fail(t)
        PROVE  \A u \in Workers : LoadOf(q, thread'[u]) /\ At(u, "end")' =>
                thread'[u].version >= shown[q] /\ thread'[u].version >= saved[q]
    <2>1. \A stage, v : /\ As(t, stage, v).stage = stage
                        /\ As(t, stage, v).kind = thread[t].kind
                        /\ As(t, stage, v).version = v
      BY DEF As
    <2>2. CASE Take(t)
      BY <1>1, <1>2, <2>2, TakeMoves
    <2>3. CASE Read(t)
      BY <1>1, <1>2, <2>1, <2>3, ReadMoves
    <2>4. CASE Flush(t)
      BY <1>1, <1>2, <2>1, <2>4, FlushMoves
    <2>5. CASE Commit(t)
      BY <1>1, <1>2, <2>1, <2>5, CommitMoves
    <2>6. CASE Publish(t)
      BY <1>1, <1>2, <2>1, <2>6, PublishMoves DEF Idle
    <2>7. CASE Finish(t)
      BY <1>1, <1>2, <2>7, FinishMoves DEF Idle
    <2>8. CASE Fail(t)
      BY <1>1, <1>2, <2>1, <2>8, FailMoves
    <2>9. QED
      BY <1>3, <2>2, <2>3, <2>4, <2>5, <2>6, <2>7, <2>8 DEF ThreadStep
  <1>4. CASE Scan
    BY <1>1, <1>2, <1>4, ScanMoves
  <1>5. CASE UNCHANGED <<thread, committed, saved>>
    BY <1>5 DEF LoadOf, At, Fresh
  <1>6. QED
    BY <1>3, <1>4, <1>5, InterfaceLeavesThreads

(* The main loop's part: a load among the callbacks was one before, or is   *)
(* the result of a thread that had read.                                    *)
LEMMA FreshAnswers ==
    ASSUME Inductive, NEW q \in Pages, Next,
           \A u \in Workers : LoadOf(q, thread[u]) /\ At(u, "end") => Fresh(q, thread[u].version),
           \A i \in DOMAIN mainloop : LoadOf(q, mainloop[i]) => Fresh(q, mainloop[i].version)
    PROVE  \A j \in DOMAIN mainloop' : LoadOf(q, mainloop'[j]) =>
                mainloop'[j].version >= shown[q] /\ mainloop'[j].version >= saved[q]
  <1>1. TypeOK /\ mainloop \in Seq(Callback) /\ subscribed \in Seq(Pages)
    BY ListenersTyped DEF Inductive, TypeOK
  <1>2. ASSUME \A j \in DOMAIN mainloop' :
                  \/ \E i \in DOMAIN mainloop : mainloop'[j] = mainloop[i]
                  \/ mainloop'[j].kind # "load"
                  \/ \E u \in Workers : /\ At(u, "end")
                                        /\ thread[u].kind = mainloop'[j].kind
                                        /\ thread[u].page = mainloop'[j].page
                                        /\ thread[u].version = mainloop'[j].version
        PROVE  \A j \in DOMAIN mainloop' : LoadOf(q, mainloop'[j]) =>
                mainloop'[j].version >= shown[q] /\ mainloop'[j].version >= saved[q]
    BY <1>2 DEF LoadOf, Fresh
  <1>3. CASE mainloop' = mainloop
    BY <1>2, <1>3
  <1>4. CASE mainloop # << >> /\ mainloop' = Tail(mainloop)
    <2>1. \A j \in DOMAIN mainloop' : j + 1 \in DOMAIN mainloop /\ mainloop'[j] = mainloop[j + 1]
      BY <1>1, <1>4, Shifted
    <2>2. QED
      BY <1>2, <2>1
  <1>5. CASE \E t \in Workers : /\ At(t, "end") \/ At(t, "failed")
                                /\ mainloop' = Append(mainloop, Result(t))
    <2>1. PICK t \in Workers : /\ At(t, "end") \/ At(t, "failed")
                               /\ mainloop' = Append(mainloop, Result(t))
      BY <1>5
    <2> DEFINE res == Result(t)
    <2>2. /\ res \in Callback /\ res.page = thread[t].page /\ res.version = thread[t].version
          /\ res.kind = IF At(t, "failed") THEN "error" ELSE thread[t].kind
      BY <2>1, ResultTyped
    <2>3. mainloop' = Append(mainloop, res)
      BY <2>1
    <2> HIDE DEF res
    <2>4. \A j \in DOMAIN mainloop' :
            (j \in DOMAIN mainloop /\ mainloop'[j] = mainloop[j]) \/ mainloop'[j] = res
      BY <1>1, <2>2, <2>3, Appended
    <2>5. res.kind # "load" \/ (At(t, "end") /\ res.kind = thread[t].kind)
      BY <2>1, <2>2
    <2>6. QED
      BY <1>2, <2>2, <2>4, <2>5
  <1>6. CASE \E t \in Threads : /\ At(t, "committed")
                                /\ mainloop' = mainloop \o EventsOf(thread[t].version)
    <2>1. PICK t \in Threads : /\ At(t, "committed")
                               /\ mainloop' = mainloop \o EventsOf(thread[t].version)
      BY <1>6
    <2> DEFINE v == thread[t].version
               n == mainloop \o EventsOf(v)
    <2>2. v \in Nat /\ mainloop' = n
      BY <2>1, AtStage DEF Stages
    <2> HIDE DEF v
    <2>3. \A j \in DOMAIN n : \/ j \in DOMAIN mainloop /\ n[j] = mainloop[j]
                              \/ n[j].kind = "event"
      BY <1>1, <2>2, Published
    <2> HIDE DEF n
    <2>4. QED
      BY <1>2, <2>2, <2>3
  <1>7. CASE mainloop' = << >>
    BY <1>7
  <1>8. QED
    BY <1>3, <1>4, <1>5, <1>6, <1>7, MainloopSteps

(* A load that has read stays as new as its page, because a page without    *)
(* details has no other load to show and no change to commit meanwhile.     *)
LEMMA LoadsStayNewer == ASSUME Inductive, Next PROVE LoadsAreNewer'
  <1>1. SUFFICES ASSUME window' = "open", NEW q \in Pages \ Detailed
        PROVE  /\ \A u \in Workers : LoadOf(q, thread'[u]) /\ At(u, "end")' =>
                    thread'[u].version >= shown'[q] /\ thread'[u].version >= saved'[q]
               /\ \A j \in DOMAIN mainloop' : LoadOf(q, mainloop'[j]) =>
                    mainloop'[j].version >= shown'[q] /\ mainloop'[j].version >= saved'[q]
    BY DEF LoadsAreNewer
  <1>2. /\ window = "open" /\ OneJobOf(q) /\ TypeOK
        /\ \A u \in Workers : LoadOf(q, thread[u]) /\ At(u, "end") => Fresh(q, thread[u].version)
        /\ \A i \in DOMAIN mainloop : LoadOf(q, mainloop[i]) => Fresh(q, mainloop[i].version)
    BY <1>1, WindowSteps DEF Inductive, OneJob, LoadsAreNewer, Fresh
  <1>3. /\ \A u \in Workers : LoadOf(q, thread'[u]) /\ At(u, "end")' =>
            thread'[u].version >= shown[q] /\ thread'[u].version >= saved[q]
        /\ \A j \in DOMAIN mainloop' : LoadOf(q, mainloop'[j]) =>
            mainloop'[j].version >= shown[q] /\ mainloop'[j].version >= saved[q]
    BY <1>2, FreshWork, FreshAnswers
  <1>4. CASE shown'[q] = shown[q] /\ saved'[q] = saved[q]
    BY <1>3, <1>4
  <1>5. CASE shown'[q] # shown[q]
    <2>1. /\ mainloop # << >> /\ mainloop[1].kind = "load" /\ DeliverResult
          /\ shown' = [shown EXCEPT ![mainloop[1].page] = mainloop[1].version]
      BY <1>5, ShownSteps DEF Loaded
    <2>2. mainloop[1].page = q /\ mainloop' = Tail(mainloop) /\ thread' = thread
      BY <1>2, <1>5, <2>1 DEF TypeOK, DeliverResult, Pop
    <2>3. /\ \A t \in Workers : ~Worked(q, t)
          /\ \A i \in DOMAIN mainloop' : ~Answered(q, i)'
      BY <1>2, <2>1, <2>2, DeliveredJobWasAlone DEF Answered
    <2>4. QED
      BY <2>2, <2>3 DEF Worked, Answered, LoadOf, Idle
  <1>6. CASE saved'[q] # saved[q]
    <2>1. PICK t \in Workers : /\ Commit(t) /\ thread[t].page \in Pages
                               /\ saved' = [saved EXCEPT ![thread[t].page] = committed + 1]
      BY <1>6, SavedSteps
    <2>2. thread[t].page = q /\ mainloop' = mainloop
      BY <1>2, <1>6, <2>1 DEF TypeOK, Commit
    <2>3. At(t, "flushed") /\ Moves(t, As(t, "committed", thread[t].version)) /\ thread[t] # Idle
      BY <1>2, <2>1, CommitMoves, AtWork, Window DEF Stages
    <2>4. Worked(q, t)
      BY <2>2, <2>3 DEF Worked
    <2>5. /\ \A u \in Workers : u # t => ~Worked(q, u)
          /\ \A i \in DOMAIN mainloop : ~Answered(q, i)
      BY <1>2, <2>4 DEF OneJobOf
    <2>6. /\ thread'[t].stage = "committed"
          /\ \A u \in Workers : u # t => thread'[u] = thread[u]
      BY <2>3, Window DEF Moves, As
    <2>7. QED
      BY <2>2, <2>5, <2>6 DEF Worked, Answered, LoadOf, Idle, At
  <1>7. QED
    BY <1>4, <1>5, <1>6

-----------------------------------------------------------------------------
(* A change reaches what its page shows.                                   *)

(* The result of a page's job shows the change, makes it load again, or     *)
(* fails.                                                                  *)
LEMMA DeliveryKeepsPending ==
    ASSUME Inductive, NEW q \in Pages \ Detailed, window = "open", DeliverResult,
           ~failure'[q], shown'[q] < saved[q]
    PROVE  busy'[q] /\ \A i \in DOMAIN queue' : ~SaveOf(q, queue'[i])
  <1> DEFINE p == mainloop[1].page
  <1>1. /\ TypeOK /\ OneJobOf(q)
        /\ ~failure[q] /\ shown[q] < saved[q] =>
                busy[q] /\ \A i \in DOMAIN queue : ~SaveOf(q, queue[i])
        /\ \A i \in DOMAIN mainloop : LoadOf(q, mainloop[i]) => mainloop[i].version >= saved[q]
    BY DEF Inductive, OneJob, SavedIsPending, LoadsAreNewer
  <1>2. /\ mainloop # << >> /\ mainloop' = Tail(mainloop) /\ Head(mainloop) = mainloop[1]
        /\ 1 \in DOMAIN mainloop /\ p \in Pages /\ mainloop[1].version \in 0..committed
        /\ mainloop[1].kind # "event"
        /\ mainloop[1].kind \in {"load", "save", "details", "error"}
    BY <1>1, FirstCallback DEF DeliverResult, Pop
  <1>3. /\ busy \in [Pages -> BOOLEAN] /\ failure \in [Pages -> BOOLEAN]
        /\ shown \in [Pages -> 0..committed] /\ saved \in [Pages -> 0..committed]
        /\ committed \in Nat
    BY <1>1 DEF TypeOK
  <1>4. p = q => \A i \in DOMAIN queue : ~Queued(q, i)
    BY <1>1, <1>2, DeliveredJobWasAlone DEF Answered
  <1>5. \/ /\ mainloop[1].kind = "load" /\ UNCHANGED queue
           /\ shown' = [shown EXCEPT ![p] = mainloop[1].version]
           /\ failure' = [failure EXCEPT ![p] = FALSE]
           /\ busy' = [busy EXCEPT ![p] = FALSE]
        \/ /\ mainloop[1].kind = "load" /\ p \in Detailed
           /\ shown' = [shown EXCEPT ![p] = mainloop[1].version]
           /\ failure' = [failure EXCEPT ![p] = FALSE]
           /\ busy' = [busy EXCEPT ![p] = FALSE]
           /\ queue' = Append(queue, [page |-> p, kind |-> "details"])
        \/ /\ Submit(p, "load") /\ failure' = [failure EXCEPT ![p] = FALSE] /\ shown' = shown
        \/ /\ busy' = [busy EXCEPT ![p] = FALSE] /\ UNCHANGED <<queue, shown>>
           /\ failure' = [failure EXCEPT ![p] = TRUE]
        \/ UNCHANGED <<queue, busy, shown, failure>>
    BY <1>2 DEF DeliverResult, Accepts, Loaded, Saved, Failed, pageVars
  <1>6. ASSUME NEW kind \in {"load", "details"},
               queue' = Append(queue, [page |-> p, kind |-> kind])
        PROVE  \A i \in DOMAIN queue' :
                    SaveOf(q, queue'[i]) => i \in DOMAIN queue /\ SaveOf(q, queue[i])
    <2> DEFINE task == [page |-> p, kind |-> kind]
    <2>1. task \in Task /\ task.kind # "save"
      BY <1>2 DEF Task
    <2>2. queue' = Append(queue, task) /\ queue \in Seq(Task)
      BY <1>1, <1>6 DEF TypeOK
    <2> HIDE DEF task
    <2>3. \A i \in DOMAIN queue' :
            (i \in DOMAIN queue /\ queue'[i] = queue[i]) \/ queue'[i] = task
      BY <2>1, <2>2, Appended
    <2>4. QED
      BY <2>1, <2>3 DEF SaveOf
  <1>7. mainloop[1].kind = "load" /\ p = q => mainloop[1].version >= saved[q]
    BY <1>1, <1>2 DEF LoadOf
  <1> HIDE DEF p
  <1>8. CASE /\ mainloop[1].kind = "load"
             /\ shown' = [shown EXCEPT ![p] = mainloop[1].version]
             /\ failure' = [failure EXCEPT ![p] = FALSE]
             /\ busy' = [busy EXCEPT ![p] = FALSE]
             /\ \/ UNCHANGED queue
                \/ queue' = Append(queue, [page |-> p, kind |-> "details"])
    <2>1. p # q
      BY <1>2, <1>3, <1>7, <1>8
    <2>2. ~failure[q] /\ shown[q] < saved[q] /\ busy'[q] = busy[q]
      BY <1>2, <1>3, <1>8, <2>1
    <2>3. QED
      BY <1>1, <1>6, <1>8, <2>2
  <1>9. CASE Submit(p, "load") /\ failure' = [failure EXCEPT ![p] = FALSE] /\ shown' = shown
    <2>1. busy' = [busy EXCEPT ![p] = TRUE] /\ queue' = Append(queue, [page |-> p, kind |-> "load"])
      BY <1>9 DEF Submit
    <2>2. CASE p = q
      BY <1>2, <1>3, <1>4, <1>6, <2>1, <2>2 DEF Queued, SaveOf
    <2>3. CASE p # q
      <3>1. ~failure[q] /\ shown[q] < saved[q] /\ busy'[q] = busy[q]
        BY <1>2, <1>3, <1>9, <2>1, <2>3
      <3>2. QED
        BY <1>1, <1>6, <2>1, <3>1
    <2>4. QED
      BY <2>2, <2>3
  <1>10. CASE /\ busy' = [busy EXCEPT ![p] = FALSE] /\ UNCHANGED <<queue, shown>>
              /\ failure' = [failure EXCEPT ![p] = TRUE]
    <2>1. p # q
      BY <1>2, <1>3, <1>10
    <2>2. ~failure[q] /\ shown[q] < saved[q] /\ busy'[q] = busy[q]
      BY <1>2, <1>3, <1>10, <2>1
    <2>3. QED
      BY <1>1, <1>10, <2>2
  <1>11. CASE UNCHANGED <<queue, busy, shown, failure>>
    BY <1>1, <1>11
  <1>12. QED
    BY <1>5, <1>8, <1>9, <1>10, <1>11

(* Every other step leaves the page busy with what it has under way.        *)
LEMMA PendingKept == ASSUME Inductive, Next PROVE SavedIsPending'
  <1>1. SUFFICES ASSUME window' = "open", NEW q \in Pages \ Detailed,
                        ~failure'[q], shown'[q] < saved'[q]
                 PROVE  busy'[q] /\ \A i \in DOMAIN queue' : ~SaveOf(q, queue'[i])
    BY DEF SavedIsPending
  <1>2. /\ window = "open" /\ OneJobOf(q) /\ TypeOK /\ q \in Pages
        /\ ~failure[q] /\ shown[q] < saved[q] =>
                busy[q] /\ \A i \in DOMAIN queue : ~SaveOf(q, queue[i])
    BY <1>1, WindowSteps DEF Inductive, OneJob, SavedIsPending
  <1>3. ASSUME NEW p \in Pages, NEW kind \in {"load", "save", "details"},
               queue' = Append(queue, [page |-> p, kind |-> kind]),
               kind = "save" => p # q
        PROVE  \A i \in DOMAIN queue' :
                    SaveOf(q, queue'[i]) => i \in DOMAIN queue /\ SaveOf(q, queue[i])
    <2> DEFINE task == [page |-> p, kind |-> kind]
    <2>1. task \in Task /\ ~SaveOf(q, task)
      BY <1>3 DEF Task, SaveOf
    <2>2. queue' = Append(queue, task) /\ queue \in Seq(Task)
      BY <1>2, <1>3 DEF TypeOK
    <2> HIDE DEF task
    <2>3. \A i \in DOMAIN queue' :
            (i \in DOMAIN queue /\ queue'[i] = queue[i]) \/ queue'[i] = task
      BY <2>1, <2>2, Appended
    <2>4. QED
      BY <2>1, <2>3
  <1>4. ASSUME NEW p \in Pages, UserRefreshes(p) \/ UserSaves(p) \/ UserSelects(p)
        PROVE  busy'[q] /\ \A i \in DOMAIN queue' : ~SaveOf(q, queue'[i])
    <2>1. UNCHANGED <<shown, saved, failure>>
      BY <1>4 DEF UserRefreshes, UserSaves, UserSelects
    <2>2. busy[q] /\ \A i \in DOMAIN queue : ~SaveOf(q, queue[i])
      BY <1>1, <1>2, <2>1
    <2>3. \/ UNCHANGED <<queue, busy>>
          \/ Submit(p, "load")
          \/ Submit(p, "save") /\ ~busy[p]
          \/ busy' = busy /\ queue' = Append(queue, [page |-> p, kind |-> "details"])
      BY <1>4 DEF UserRefreshes, UserSaves, UserSelects, Refresh
    <2>4. busy'[q]
      BY <1>2, <2>2, <2>3 DEF Submit, TypeOK
    <2>5. \A i \in DOMAIN queue' : ~SaveOf(q, queue'[i])
      BY <1>3, <2>2, <2>3 DEF Submit
    <2>6. QED
      BY <2>4, <2>5
  <1>5. ASSUME NEW t \in Threads, Commit(t)
        PROVE  busy'[q] /\ \A i \in DOMAIN queue' : ~SaveOf(q, queue'[i])
    <2>1. UNCHANGED <<queue, busy, shown, failure>>
      BY <1>5 DEF Commit, pageVars
    <2>2. CASE saved'[q] = saved[q]
      BY <1>1, <1>2, <2>1, <2>2
    <2>3. CASE saved'[q] # saved[q]
      <3>1. t \in Workers /\ thread[t].page = q
        BY <1>2, <1>5, <2>3 DEF Commit, TypeOK
      <3>2. Worked(q, t)
        BY <1>5, <3>1, AtStage DEF Worked, Commit, Stages
      <3>3. busy[q] /\ \A i \in DOMAIN queue : ~Queued(q, i)
        BY <1>2, <3>1, <3>2 DEF OneJobOf, NoJob
      <3>4. QED
        BY <2>1, <3>3 DEF Queued, SaveOf
    <2>4. QED
      BY <2>2, <2>3
  <1>6. ASSUME NEW t \in Threads, Take(t)
        PROVE  busy'[q] /\ \A i \in DOMAIN queue' : ~SaveOf(q, queue'[i])
    <2>1. UNCHANGED <<busy, shown, saved, failure>>
      BY <1>6 DEF Take
    <2>2. \A j \in DOMAIN queue' : j + 1 \in DOMAIN queue /\ queue'[j] = queue[j + 1]
      BY <1>2, <1>6, Shifted DEF Take, TypeOK
    <2>3. QED
      BY <1>1, <1>2, <2>1, <2>2
  <1>7. ASSUME NEW t \in Threads,
               Read(t) \/ Flush(t) \/ Publish(t) \/ Finish(t) \/ Fail(t)
        PROVE  busy'[q] /\ \A i \in DOMAIN queue' : ~SaveOf(q, queue'[i])
    <2>1. UNCHANGED <<queue, busy, shown, saved, failure>>
      BY <1>7 DEF Read, Flush, Publish, Finish, Fail, pageVars
    <2>2. QED
      BY <1>1, <1>2, <2>1
  <1>8. CASE Scan
    <2>1. UNCHANGED <<queue, busy, shown, saved, failure>>
      BY <1>8 DEF Scan, pageVars
    <2>2. QED
      BY <1>1, <1>2, <2>1
  <1>9. CASE DeliverEvent
    <2> DEFINE p == mainloop[1].page
    <2>1. /\ UNCHANGED <<shown, saved, failure>> /\ p \in Pages
          /\ UNCHANGED <<queue, busy>> \/ Submit(p, "load")
      BY <1>2, <1>9, FirstCallback DEF DeliverEvent, Pop, Refresh
    <2> HIDE DEF p
    <2>2. busy[q] /\ \A i \in DOMAIN queue : ~SaveOf(q, queue[i])
      BY <1>1, <1>2, <2>1
    <2>3. busy'[q]
      BY <1>2, <2>1, <2>2 DEF Submit, TypeOK
    <2>4. \A i \in DOMAIN queue' : ~SaveOf(q, queue'[i])
      BY <1>3, <2>1, <2>2 DEF Submit
    <2>5. QED
      BY <2>3, <2>4
  <1>10. CASE DeliverResult
    <2>1. saved' = saved
      BY <1>10 DEF DeliverResult
    <2>2. QED
      BY <1>1, <1>2, <1>10, <2>1, DeliveryKeepsPending
  <1>11. CASE CloseWindow \/ Shutdown
    BY <1>1, <1>11 DEF CloseWindow, Shutdown
  <1>12. QED
    BY <1>4, <1>5, <1>6, <1>7, <1>8, <1>9, <1>10, <1>11 DEF Next, ThreadStep

-----------------------------------------------------------------------------
(* Theorems.                                                               *)

(* The invariant holds at every moment of every run.                        *)
LEMMA InductiveInvariant == Spec => []Inductive
<1>1. Init => Inductive
  BY InitInductive
<1>2. Inductive /\ [Next]_vars => Inductive'
  <2> SUFFICES ASSUME Inductive, [Next]_vars PROVE Inductive'
    OBVIOUS
  <2>1. CASE Next
    <3>1. TypeOK' /\ WorkersServePages' /\ OneWriter' /\ OnlySavesWrite' /\ ClosedIsDeaf'
      BY <2>1, TypeNext, PagesServed, WritesOneAtATime, SavesWrite, StaysDeaf
    <3>2. OneJob' /\ NeverStuck' /\ LoadsAreNewer' /\ SavedIsPending'
      BY <2>1, OneJobKept, NeverStuckKept, LoadsStayNewer, PendingKept
    <3>3. QED
      BY <3>1, <3>2 DEF Inductive
  <2>2. CASE UNCHANGED vars
    <3>1. /\ TypeOK' /\ WorkersServePages' /\ OneWriter' /\ OnlySavesWrite' /\ ClosedIsDeaf'
      BY <2>2
      DEF Inductive, vars, pageVars, TypeOK, WorkersServePages, OneWriter, OnlySavesWrite,
          ClosedIsDeaf, At, Working
    <3>2. OneJob' /\ NeverStuck'
      BY <2>2
      DEF Inductive, vars, pageVars, OneJob, OneJobOf, NoJob, Queued, Worked, Answered,
          NeverStuck, Working
    <3>3. LoadsAreNewer' /\ SavedIsPending'
      BY <2>2
      DEF Inductive, vars, pageVars, LoadsAreNewer, SavedIsPending, LoadOf, SaveOf, At
    <3>4. QED
      BY <3>1, <3>2, <3>3 DEF Inductive
  <2>3. QED
    BY <2>1, <2>2
<1>3. QED
  BY <1>1, <1>2, PTL DEF Spec

(* However the workers, the presence thread and the main loop interleave,  *)
(* every variable keeps its type, what a callback carries or a page shows  *)
(* has been committed, and one transaction writes at a time.               *)
THEOREM TypeCorrect == Spec => []TypeOK
<1>1. Inductive => TypeOK
  BY DEF Inductive
<1>2. QED
  BY <1>1, InductiveInvariant, PTL

(* A busy page always has a task that will free it, in whatever order the  *)
(* tasks, their failures and the details of a row come back (the _busy     *)
(* flag of every page, and BackgroundTaskRunner's results).                *)
THEOREM PagesAreFreedAgain == Spec => []NeverStuck
<1>1. Inductive => NeverStuck
  BY DEF Inductive
<1>2. QED
  BY <1>1, InductiveInvariant, PTL

(* A change that a page has committed is on its way into what it shows,    *)
(* until a failure is reported or the window closes (_mutate and _saved of *)
(* the pages that edit).                                                   *)
THEOREM ChangesReachTheirPage == Spec => []SavedIsOnItsWay
<1>1. Inductive => SavedIsOnItsWay
  <2> SUFFICES ASSUME Inductive, NEW p \in Editors \ Detailed,
                      window = "open", ~failure[p], shown[p] < saved[p]
               PROVE  \/ \E i \in DOMAIN queue : LoadOf(p, queue[i])
                      \/ \E t \in Workers :
                            \/ SaveOf(p, thread[t])
                            \/ /\ LoadOf(p, thread[t])
                               /\ \/ At(t, "begin") \/ At(t, "failed")
                                  \/ thread[t].version >= saved[p]
                      \/ \E i \in DOMAIN mainloop :
                            \/ SaveOf(p, mainloop[i])
                            \/ LoadOf(p, mainloop[i]) /\ mainloop[i].version >= saved[p]
                            \/ mainloop[i].page = p /\ mainloop[i].kind = "error"
    BY DEF SavedIsOnItsWay
  <2>1. /\ p \in Pages \ Detailed /\ TypeOK
        /\ busy[p] /\ \A i \in DOMAIN queue : ~SaveOf(p, queue[i])
    BY Window DEF Inductive, SavedIsPending
  <2>2. Awaited(p)
    BY <2>1, StuckWithoutJob DEF Inductive
  <2>3. CASE \E i \in DOMAIN queue : QueuedJob(p, i)
    <3>1. \A i \in DOMAIN queue : queue[i] \in Task
      BY <2>1, ElementOfSeq, LenProperties DEF TypeOK
    <3>2. QED
      BY <2>1, <2>3, <3>1 DEF QueuedJob, Task, LoadOf, SaveOf
  <2>4. ASSUME NEW t \in Workers, WorkedJob(p, t)
        PROVE  \/ SaveOf(p, thread[t])
               \/ /\ LoadOf(p, thread[t])
                  /\ At(t, "begin") \/ At(t, "failed") \/ thread[t].version >= saved[p]
    <3>1. /\ thread[t].kind \in {"load", "save"} /\ thread[t].page = p
          /\ t \in Threads
      BY <2>4, Window DEF WorkedJob, Working
    <3>2. thread[t].stage \in {"begin", "flushed", "committed", "end", "failed"}
      BY <2>1, <3>1, AtWork DEF Stages
    <3>3. At(t, "flushed") \/ At(t, "committed") => thread[t].kind = "save"
      BY <3>1 DEF Inductive, OnlySavesWrite, Working
    <3>4. LoadOf(p, thread[t]) /\ At(t, "end") => thread[t].version >= saved[p]
      BY <2>1 DEF Inductive, LoadsAreNewer
    <3>5. QED
      BY <3>1, <3>2, <3>3, <3>4 DEF LoadOf, SaveOf, At
  <2>5. ASSUME NEW i \in DOMAIN mainloop, AnsweredJob(p, i)
        PROVE  \/ SaveOf(p, mainloop[i])
               \/ LoadOf(p, mainloop[i]) /\ mainloop[i].version >= saved[p]
               \/ mainloop[i].page = p /\ mainloop[i].kind = "error"
    <3>1. LoadOf(p, mainloop[i]) => mainloop[i].version >= saved[p]
      BY <2>1 DEF Inductive, LoadsAreNewer
    <3>2. QED
      BY <2>5, <3>1 DEF AnsweredJob, LoadOf, SaveOf
  <2>6. QED
    BY <2>2, <2>3, <2>4, <2>5 DEF Awaited
<1>2. QED
  BY <1>1, InductiveInvariant, PTL

(* Once the window has closed no result that comes late and no event still *)
(* on its way changes a page or submits work (TaskScope's closed flag, and *)
(* the second look EventBus.publish takes at its listeners).               *)
THEOREM ClosedWindowStaysQuiet == Spec => NothingAfterClose
<1>1. Inductive /\ [Next]_vars => [LeavesPagesAlone]_vars
  <2> SUFFICES ASSUME Inductive, Next, window # "open" PROVE LeavesPagesAlone
    BY DEF LeavesPagesAlone
  <2>1. /\ TypeOK /\ subscribed = << >> /\ Len(queue) \in Nat
        /\ \A p : p \notin ToSet(subscribed)
    BY LenProperties, EmptySeq DEF Inductive, ClosedIsDeaf, TypeOK, ToSet
  <2>2. ASSUME NEW p \in Pages, UserRefreshes(p) \/ UserSaves(p) \/ UserSelects(p) PROVE FALSE
    BY <2>2 DEF UserRefreshes, UserSaves, UserSelects
  <2>3. ASSUME NEW t \in Threads, ThreadStep(t) \/ Fail(t) PROVE LeavesPagesAlone
    <3>1. CASE Take(t)
      BY <2>1, <3>1, Shifted DEF Take, pageVars, LeavesPagesAlone, TypeOK
    <3>2. CASE Read(t) \/ Flush(t) \/ Commit(t) \/ Publish(t) \/ Finish(t) \/ Fail(t)
      BY <2>1, <3>2 DEF Read, Flush, Commit, Publish, Finish, Fail, LeavesPagesAlone
    <3>3. QED
      BY <2>3, <3>1, <3>2 DEF ThreadStep
  <2>4. CASE Scan \/ Shutdown
    BY <2>1, <2>4 DEF Scan, Shutdown, LeavesPagesAlone
  <2>5. CASE DeliverEvent
    BY <2>1, <2>5 DEF DeliverEvent, Heard, LeavesPagesAlone, pageVars
  <2>6. CASE DeliverResult
    BY <2>1, <2>6 DEF DeliverResult, Accepts, LeavesPagesAlone
  <2>7. CASE CloseWindow
    BY <2>7 DEF CloseWindow
  <2>8. QED
    BY <2>2, <2>3, <2>4, <2>5, <2>6, <2>7 DEF Next
<1>2. QED
  BY <1>1, InductiveInvariant, PTL DEF Spec, NothingAfterClose

(* What a page without details shows never goes back to an earlier version *)
(* of the database, in whatever order the workers finish.                  *)
THEOREM PagesMoveForward == Spec => NeverGoesBack
<1>1. Inductive /\ [Next]_vars => [ShowsNothingOlder]_vars
  <2> SUFFICES ASSUME Inductive, Next, NEW p \in Pages \ Detailed
               PROVE  shown'[p] >= shown[p]
    BY DEF ShowsNothingOlder
  <2>1. /\ shown \in [Pages -> 0..committed] /\ TypeOK /\ shown[p] \in Nat
    BY DEF Inductive, TypeOK
  <2>2. CASE shown' = shown
    BY <2>1, <2>2
  <2>3. CASE /\ window = "open" /\ mainloop # << >> /\ mainloop[1].kind = "load"
             /\ Loaded(mainloop[1].page, mainloop[1].version)
    <3>1. 1 \in DOMAIN mainloop
      BY <2>1, <2>3, FirstCallback
    <3>2. mainloop[1].page = p => mainloop[1].version >= shown[p]
      BY <2>3, <3>1 DEF Inductive, LoadsAreNewer, LoadOf
    <3>3. QED
      BY <2>1, <2>3, <3>2 DEF Loaded
  <2>4. QED
    BY <2>2, <2>3, ShownSteps
<1>2. QED
  BY <1>1, InductiveInvariant, PTL DEF Spec, NeverGoesBack
=============================================================================
