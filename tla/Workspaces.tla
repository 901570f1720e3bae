------------------------------ MODULE Workspaces ------------------------------
(***************************************************************************)
(* The workspaces of the GTK window and what keeps them up to date: the    *)
(* pool of worker threads and the page-owned task scopes of gui/tasks.py,  *)
(* the database sessions that publish their events once they are committed *)
(* (core/database.py), the event bus that marshals them to the main loop   *)
(* (core/events.py), and the busy protocol every page follows.  The main   *)
(* loop runs one callback at a time; workers and the presence thread run   *)
(* between any two of them.                                                *)
(*                                                                         *)
(* What a page shows is abstracted to a version: the number of committed   *)
(* transactions its last load had seen.                                    *)
(***************************************************************************)
EXTENDS Naturals, Sequences, FiniteSets, SequencesExt

CONSTANTS
    Order,        \* the pages, in the order the window builds them
    Editors,      \* pages that change the database
    Subscribers,  \* pages that refresh on events, in the order they register
    Detailed,     \* pages that load the details of the selected row
    Workers,      \* the threads of the pool
    Scanner,      \* the live presence thread
    Limit         \* how often each of "save", "scan", "click", "fault" may happen

ASSUME WorkspacesAssumption ==
    /\ Order \in Seq(ToSet(Order)) /\ IsInjective(Order)
    /\ Subscribers \in Seq(ToSet(Order))
    /\ Editors \cup Detailed \subseteq ToSet(Order)
    /\ Scanner \notin Workers
    /\ Limit \in [{"save", "scan", "click", "fault"} -> Nat]

VARIABLES
    committed,   \* transactions committed so far
    queue,       \* submitted tasks no worker has taken
    thread,      \* what each thread works on
    mainloop,    \* idle callbacks the main loop has yet to run
    subscribed,  \* the pages whose listeners the bus holds, in its order
    busy,        \* each page's _busy
    shown,       \* the version each page shows
    saved,       \* the last version each page committed itself (history)
    failure,     \* whether the page's last result was an error
    window,      \* "open", "closed", or "quit" once the application shut down
    spent        \* what has been used of Limit

pageVars == <<busy, shown, failure>>
vars == <<committed, queue, thread, mainloop, subscribed, pageVars, saved,
          window, spent>>

Pages == ToSet(Order)
Threads == Workers \cup {Scanner}
Task == [page : Pages, kind : {"load", "save", "details"}]
Running == [page : Pages \cup {Scanner}, kind : {"load", "save", "details"},
            stage : {"begin", "flushed", "committed", "end", "failed"},
            version : Nat]
Idle == [page |-> Scanner, kind |-> "none", stage |-> "idle", version |-> 0]
Callback == [page : Pages, kind : {"event", "load", "save", "details", "error"},
             version : Nat]

At(t, stage) == thread[t].stage = stage
Working(t, kinds) == thread[t].kind \in kinds

(* A listener's dispatcher: GLib.idle_add, whose callbacks run in order.    *)
EventsOf(version) ==
    [i \in DOMAIN subscribed |->
        [page |-> subscribed[i], kind |-> "event", version |-> version]]

Spend(kind) ==
    /\ spent[kind] < Limit[kind]
    /\ spent' = [spent EXCEPT ![kind] = @ + 1]

-----------------------------------------------------------------------------
(* Building the window builds every page, and every page refreshes at once. *)
Init ==
    /\ committed = 0
    /\ queue = [i \in DOMAIN Order |-> [page |-> Order[i], kind |-> "load"]]
    /\ thread = [t \in Threads |-> Idle]
    /\ mainloop = << >>
    /\ subscribed = Subscribers
    /\ busy = [p \in Pages |-> TRUE]
    /\ shown = [p \in Pages |-> 0]
    /\ saved = [p \in Pages |-> 0]
    /\ failure = [p \in Pages |-> FALSE]
    /\ window = "open"
    /\ spent = [kind \in DOMAIN Limit |-> 0]

(* TaskScope.submit of an open scope, and the page's _busy flag with it.    *)
Submit(p, kind) ==
    /\ queue' = Append(queue, [page |-> p, kind |-> kind])
    /\ busy' = [busy EXCEPT ![p] = TRUE]

(* Seeded fault: refresh() without the busy flag.          *)
RefreshAlways(p) == Submit(p, "load")

(* refresh(): a page with a task under way ignores the request.             *)
Refresh(p) ==
    IF busy[p] THEN UNCHANGED <<queue, busy>> ELSE Submit(p, "load")

UserRefreshes(p) ==
    /\ window = "open"
    /\ Spend("click")
    /\ Refresh(p)
    /\ UNCHANGED <<committed, saved, thread, mainloop, subscribed, shown, failure, window>>

(* _mutate(): a confirmed change, refused while the page is busy.           *)
UserSaves(p) ==
    /\ window = "open"
    /\ p \in Editors
    /\ ~busy[p]
    /\ Spend("save")
    /\ Submit(p, "save")
    /\ UNCHANGED <<committed, saved, thread, mainloop, subscribed, shown, failure, window>>

(* DevicesPage._selected(): its details are loaded whether it is busy or not. *)
UserSelects(p) ==
    /\ window = "open"
    /\ p \in Detailed
    /\ Spend("click")
    /\ queue' = Append(queue, [page |-> p, kind |-> "details"])
    /\ UNCHANGED <<committed, saved, thread, mainloop, subscribed, busy, shown, failure, window>>

-----------------------------------------------------------------------------
(* Threads.                                                                *)

Take(t) ==
    /\ t \in Workers
    /\ thread[t] = Idle
    /\ queue # << >>
    /\ queue' = Tail(queue)
    /\ thread' = [thread EXCEPT ![t] =
                    [page |-> Head(queue).page, kind |-> Head(queue).kind,
                     stage |-> "begin", version |-> 0]]
    /\ UNCHANGED <<committed, saved, mainloop, subscribed, busy, shown, failure, window, spent>>

(* Thread t's work at a later stage.                                        *)
As(t, stage, version) ==
    [page |-> thread[t].page, kind |-> thread[t].kind, stage |-> stage, version |-> version]
Advance(t, stage, version) == thread' = [thread EXCEPT ![t] = As(t, stage, version)]

(* SQLite lets one transaction write at a time.                            *)
Unlocked == \A t \in Threads : ~At(t, "flushed")

(* Seeded fault: a reader that sees an open transaction.   *)
ReadUncommitted(t) ==
    /\ Working(t, {"load", "details"})
    /\ At(t, "begin")
    /\ Advance(t, "end", IF Unlocked THEN committed ELSE committed + 1)
    /\ UNCHANGED <<committed, saved, queue, mainloop, subscribed, pageVars, window, spent>>

(* A load sees at least what is committed when its first session reads; the *)
(* further sessions some pages open can only see more.                     *)
Read(t) ==
    /\ Working(t, {"load", "details"})
    /\ At(t, "begin")
    /\ Advance(t, "end", committed)
    /\ UNCHANGED <<committed, saved, queue, mainloop, subscribed, pageVars, window, spent>>

(* The flush of a writing session takes the database's write lock, and     *)
(* after_flush captures the events it wrote.                               *)
Flush(t) ==
    /\ Working(t, {"save"})
    /\ At(t, "begin")
    /\ Unlocked
    /\ Advance(t, "flushed", committed + 1)
    /\ UNCHANGED <<committed, saved, queue, mainloop, subscribed, pageVars, window, spent>>

(* The presence thread writes what it found; it has no reads to overlap.    *)
Scan ==
    /\ window # "quit"
    /\ thread[Scanner] = Idle
    /\ Unlocked
    /\ Spend("scan")
    /\ thread' = [thread EXCEPT ![Scanner] =
                    [page |-> Scanner, kind |-> "save", stage |-> "flushed",
                     version |-> committed + 1]]
    /\ UNCHANGED <<committed, saved, queue, mainloop, subscribed, pageVars, window>>

Commit(t) ==
    /\ At(t, "flushed")
    /\ committed' = thread[t].version
    /\ saved' = IF t \in Workers
                THEN [saved EXCEPT ![thread[t].page] = thread[t].version] ELSE saved
    /\ Advance(t, "committed", thread[t].version)
    /\ UNCHANGED <<queue, mainloop, subscribed, pageVars, window, spent>>

(* publish(): the captured events go to every listener registered by now.   *)
Publish(t) ==
    /\ At(t, "committed")
    /\ mainloop' = mainloop \o EventsOf(thread[t].version)
    /\ IF t = Scanner THEN thread' = [thread EXCEPT ![t] = Idle]
       ELSE Advance(t, "end", thread[t].version)
    /\ UNCHANGED <<committed, saved, queue, subscribed, pageVars, window, spent>>

(* The work raises: a rejected change, a device that is gone, a database   *)
(* error.  A rollback discards the captured events.                        *)
Fail(t) ==
    /\ At(t, "begin") \/ At(t, "flushed")
    /\ Spend("fault")
    /\ Advance(t, "failed", 0)
    /\ UNCHANGED <<committed, saved, queue, mainloop, subscribed, pageVars, window>>

(* complete(): the future's done callback, on the worker's thread.          *)
Result(t) ==
    [page |-> thread[t].page,
     kind |-> IF thread[t].stage = "failed" THEN "error" ELSE thread[t].kind,
     version |-> thread[t].version]

(* Seeded fault: only results are marshalled, not errors.  *)
FinishSuccess(t) ==
    /\ At(t, "end") \/ At(t, "failed")
    /\ thread' = [thread EXCEPT ![t] = Idle]
    /\ mainloop' = IF t \in Workers /\ At(t, "end")
                   THEN Append(mainloop, Result(t)) ELSE mainloop
    /\ UNCHANGED <<committed, saved, queue, subscribed, pageVars, window, spent>>

Finish(t) ==
    /\ At(t, "end") \/ At(t, "failed")
    /\ thread' = [thread EXCEPT ![t] = Idle]
    /\ mainloop' = IF t \in Workers /\ window # "quit"
                   THEN Append(mainloop, Result(t)) ELSE mainloop
    /\ UNCHANGED <<committed, saved, queue, subscribed, pageVars, window, spent>>

-----------------------------------------------------------------------------
(* The main loop.                                                          *)

Pop(kinds) ==
    /\ mainloop # << >>
    /\ Head(mainloop).kind \in kinds
    /\ mainloop' = Tail(mainloop)

(* Seeded fault: registered when published is enough.      *)
HeardOnce(p) == TRUE

(* The listener is looked up again when the callback runs.                  *)
Heard(p) == p \in ToSet(subscribed)

DeliverEvent ==
    /\ Pop({"event"})
    /\ LET p == Head(mainloop).page
       IN  IF Heard(p) THEN Refresh(p) ELSE UNCHANGED <<queue, busy>>
    /\ UNCHANGED <<committed, saved, thread, subscribed, shown, failure, window, spent>>

(* TaskScope delivers nothing once its page was closed.                     *)
Accepts(p) == window = "open"

(* _loaded().  A page with details selects its row again, which loads them. *)
Loaded(p, version) ==
    /\ busy' = [busy EXCEPT ![p] = FALSE]
    /\ shown' = [shown EXCEPT ![p] = version]
    /\ failure' = [failure EXCEPT ![p] = FALSE]
    /\ \/ UNCHANGED <<queue, spent>>
       \/ /\ p \in Detailed
          /\ Spend("click")
          /\ queue' = Append(queue, [page |-> p, kind |-> "details"])

(* Seeded fault: refresh() while the page is still busy.   *)
SavedStillBusy(p) ==
    /\ busy' = [busy EXCEPT ![p] = FALSE]
    /\ failure' = [failure EXCEPT ![p] = FALSE]
    /\ UNCHANGED <<queue, shown, spent>>

(* _saved(): the page is free again, and refreshes.                         *)
Saved(p) ==
    /\ Submit(p, "load")
    /\ failure' = [failure EXCEPT ![p] = FALSE]
    /\ UNCHANGED <<shown, spent>>

(* _failed(): of a load, a change or the details alike.                     *)
Failed(p) ==
    /\ busy' = [busy EXCEPT ![p] = FALSE]
    /\ failure' = [failure EXCEPT ![p] = TRUE]
    /\ UNCHANGED <<queue, shown, spent>>

DeliverResult ==
    /\ Pop({"load", "save", "details", "error"})
    /\ LET done == Head(mainloop)
       IN  \/ /\ Accepts(done.page)
              /\ \/ done.kind = "load" /\ Loaded(done.page, done.version)
                 \/ done.kind = "save" /\ Saved(done.page)
                 \/ done.kind = "error" /\ Failed(done.page)
                 \/ done.kind = "details" /\ UNCHANGED <<queue, pageVars, spent>>
           \/ ~Accepts(done.page) /\ UNCHANGED <<queue, pageVars, spent>>
    /\ UNCHANGED <<committed, saved, thread, subscribed, window>>

(* The window closes: every scope cancels what no worker has taken, and    *)
(* every page drops its listeners.                                         *)
CloseWindow ==
    /\ window = "open"
    /\ window' = "closed"
    /\ queue' = << >>
    /\ subscribed' = << >>
    /\ UNCHANGED <<committed, saved, thread, mainloop, pageVars, spent>>

(* The main loop has ended and runs no more callbacks; live presence has    *)
(* stopped, and the pool drops the results of what it still runs.          *)
Shutdown ==
    /\ window = "closed"
    /\ thread[Scanner] = Idle
    /\ window' = "quit"
    /\ mainloop' = << >>
    /\ UNCHANGED <<committed, saved, queue, thread, subscribed, pageVars, spent>>

ThreadStep(t) ==
    Take(t) \/ Read(t) \/ Flush(t) \/ Commit(t) \/ Publish(t) \/ Finish(t)

Next ==
    \/ \E p \in Pages : UserRefreshes(p) \/ UserSaves(p) \/ UserSelects(p)
    \/ \E t \in Threads : ThreadStep(t) \/ Fail(t)
    \/ Scan
    \/ DeliverEvent
    \/ DeliverResult
    \/ CloseWindow
    \/ Shutdown

Spec == Init /\ [][Next]_vars

-----------------------------------------------------------------------------
(* Properties.                                                             *)

(* Every variable has its type, whatever is delivered or shown has been    *)
(* committed, and the database has one write transaction at a time.        *)
TypeOK ==
    /\ committed \in Nat
    /\ queue \in Seq(Task)
    /\ thread \in [Threads -> Running \cup {Idle}]
    /\ mainloop \in Seq(Callback)
    /\ \A i \in DOMAIN mainloop : mainloop[i].version <= committed
    /\ subscribed \in {Subscribers, << >>}
    /\ busy \in [Pages -> BOOLEAN]
    /\ shown \in [Pages -> 0..committed]
    /\ saved \in [Pages -> 0..committed]
    /\ failure \in [Pages -> BOOLEAN]
    /\ window \in {"open", "closed", "quit"}
    /\ spent \in [DOMAIN Limit -> Nat]
    /\ \A kind \in DOMAIN Limit : spent[kind] <= Limit[kind]
    /\ Cardinality({t \in Threads : At(t, "flushed")}) <= 1

(* A page that is busy has a task that will free it again: queued, with a  *)
(* thread, or with its result on the way to the main loop.  Otherwise the  *)
(* page would ignore every refresh and every change from then on.          *)
NeverStuck ==
    \A p \in Pages : window = "open" /\ busy[p] =>
        \/ \E i \in DOMAIN queue : queue[i].page = p /\ queue[i].kind # "details"
        \/ \E t \in Workers : Working(t, {"load", "save"}) /\ thread[t].page = p
        \/ \E i \in DOMAIN mainloop :
               mainloop[i].page = p /\ mainloop[i].kind \in {"load", "save", "error"}

(* Once the window has closed no late result and no late event touches a   *)
(* page or submits work for it.                                            *)
LeavesPagesAlone ==
    window # "open" => UNCHANGED pageVars /\ Len(queue') <= Len(queue)

NothingAfterClose == [][LeavesPagesAlone]_vars

(* The busy protocol keeps a page from overlapping its own loads: what it  *)
(* shows never goes back to an earlier version, although the pool's workers *)
(* finish in any order.  A page with details is not covered: the failure of *)
(* its details clears _busy while a load or a change is still under way.   *)
ShowsNothingOlder == \A p \in Pages \ Detailed : shown'[p] >= shown[p]

NeverGoesBack == [][ShowsNothingOlder]_vars

LoadOf(p, job) == job.page = p /\ job.kind = "load"
SaveOf(p, job) == job.page = p /\ job.kind = "save"

(* A change a page has committed is on its way into what the page shows:   *)
(* its result will make the page load again, or that load is queued or has *)
(* already seen the change.  Only a failure, or closing the window, ends   *)
(* the wait.  A page with details is not covered: an older load may arrive *)
(* after the newer one there.                                              *)
SavedIsOnItsWay ==
    \A p \in Editors \ Detailed :
        window = "open" /\ ~failure[p] /\ shown[p] < saved[p] =>
            \/ \E i \in DOMAIN queue : LoadOf(p, queue[i])
            \/ \E t \in Workers :
                   \/ SaveOf(p, thread[t])
                   \/ /\ LoadOf(p, thread[t])
                      /\ At(t, "begin") \/ At(t, "failed") \/ thread[t].version >= saved[p]
            \/ \E i \in DOMAIN mainloop :
                   \/ SaveOf(p, mainloop[i])
                   \/ LoadOf(p, mainloop[i]) /\ mainloop[i].version >= saved[p]
                   \/ mainloop[i].page = p /\ mainloop[i].kind = "error"
=============================================================================
