---------------------------- MODULE ServerQueue ----------------------------
(***************************************************************************)
(* server_queue (tools/server/server-queue.h and .cpp): the task queue of  *)
(* the HTTP server, the thread that runs start_loop(), the worker thread   *)
(* that serves yield_to_queue(), and the HTTP threads that pass the sleep  *)
(* gate, post a task and may cancel it.                                    *)
(*                                                                         *)
(* Every action is one critical section of mutex_tasks, or the code        *)
(* between two of them.  What the two callbacks do to the queue is left    *)
(* open within what process_single_task() and update_slots() can do        *)
(* (server-context.cpp); module Server closes that choice with the slots.  *)
(*                                                                         *)
(* condition_tasks is one condition variable that the loop, the worker and *)
(* the gated HTTP threads share; notify_one() wakes any one of them.       *)
(***************************************************************************)
EXTENDS Integers, Sequences, SequencesExt

CONSTANTS
    Tasks,         \* task ids; each one is posted by an HTTP thread of its own
    Slots,         \* slot ids
    NoSlot,        \* id_slot = -1: any slot will do
    NoTask,        \* the id of a NEXT_RESPONSE task, which nobody waits for
    Kind,          \* Tasks -> task type
    IdSlot,        \* Tasks -> the slot the request asks for
    SleepEnabled   \* idle_sleep_ms >= 0

Kinds == {"completion", "slot_action", "slot_get", "metrics"}

ASSUME QueueAssumption ==
    /\ Kind \in [Tasks -> Kinds]
    /\ IdSlot \in [Tasks -> Slots \cup {NoSlot}]
    /\ SleepEnabled \in BOOLEAN
    /\ NoSlot \notin Slots
    /\ NoTask \notin Tasks
    /\ {"main", "worker"} \cap Tasks = {}

Main   == "main"
Worker == "worker"
Threads == Tasks \cup {Main, Worker}

\* The tasks that only read the server state: METRICS and SLOT_GET.
IsReadonly(t) == Kind[t] \in {"slot_get", "metrics"}

TaskItem(t)   == [type |-> "task",   id |-> t]
CancelItem(t) == [type |-> "cancel", id |-> t]
NextItem      == [type |-> "next",   id |-> NoTask]

TaskItems == {TaskItem(t) : t \in Tasks}
Item == TaskItems \cup {CancelItem(t) : t \in Tasks} \cup {NextItem}

VARIABLES
    queue_tasks, queue_tasks_deferred, queue_tasks_unhandled,
    running, stopped, sleeping, req_stop_sleeping,
    worker,      \* the fields stop, busy, yielding and exception of worker_t
    waiters,     \* threads blocked on condition_tasks
    parked,      \* the worker is blocked on worker.cv
    pcM, handM,  \* start_loop() thread: where it is, the task it popped
    raised,      \* an exception is propagating out of work() or the yield
    pcW, handW,  \* worker thread
    client       \* HTTP threads

queues == <<queue_tasks, queue_tasks_deferred, queue_tasks_unhandled>>
flags  == <<running, stopped, sleeping, req_stop_sleeping>>
loop   == <<pcM, handM, raised>>
wthread == <<pcW, handW, parked, worker>>
qvars  == <<queues, flags, loop, wthread, waiters, client>>

MainPcs == {"init", "drain", "callback", "update", "active", "abort", "signal",
            "work", "join", "recheck", "idle", "asleep", "stop", "stopping", "joining", "done"}
WorkerPcs == {"off", "wait", "drain", "callback", "check", "cwait", "finish",
              "notify", "exit"}
ClientPcs == {"new", "gated", "open", "posted", "cancelled", "done"}

-----------------------------------------------------------------------------
(* Helpers on the deques and on condition_tasks *)

\* condition_tasks.notify_one(): any one of the blocked threads wakes up.
Notified  == IF waiters = {} THEN {{}} ELSE {waiters \ {x} : x \in waiters}
NotifyOne == waiters' \in Notified

NotifyAll == waiters' = {}

Positions(q, t) == {i \in DOMAIN q : q[i] = TaskItem(t)}

\* erase(remove_if(id == id_target)) on one deque.  A task is never twice in a
\* deque (NoTaskTwice), so at most one position is removed.
Erase(q, t) ==
    IF Positions(q, t) = {} THEN q
    ELSE RemoveAt(q, CHOOSE i \in Positions(q, t) : TRUE)

\* cleanup_pending_task(): forget a pending task in all three deques.
CleanupPendingTask(t) ==
    /\ queue_tasks' = <<CancelItem(t)>> \o Erase(queue_tasks, t)
    /\ queue_tasks_deferred' = Erase(queue_tasks_deferred, t)
    /\ queue_tasks_unhandled' = Erase(queue_tasks_unhandled, t)

\* The deferred task pop_deferred_task() picks: the first that asked for this
\* slot, otherwise the first.
DeferredPick(s) ==
    LET asks == {i \in DOMAIN queue_tasks_deferred :
                    IdSlot[queue_tasks_deferred[i].id] = s}
    IN  IF asks = {} THEN 1 ELSE CHOOSE i \in asks : \A j \in asks : i <= j

\* Mutant: the task is moved to the front of the queue but not erased.
PopDeferredTaskKept(s) ==
    /\ IF queue_tasks_deferred = <<>>
       THEN UNCHANGED queues
       ELSE /\ queue_tasks' =
                 <<queue_tasks_deferred[DeferredPick(s)]>> \o queue_tasks
            /\ UNCHANGED <<queue_tasks_deferred, queue_tasks_unhandled>>
    /\ NotifyOne

\* Mutant: a released slot gives nothing back.
PopDeferredTaskNever(s) == UNCHANGED queues /\ NotifyOne

\* pop_deferred_task(id_slot), called when a slot is released.
PopDeferredTask(s) ==
    /\ IF queue_tasks_deferred = <<>>
       THEN UNCHANGED queues
       ELSE /\ queue_tasks' =
                 <<queue_tasks_deferred[DeferredPick(s)]>> \o queue_tasks
            /\ queue_tasks_deferred' =
                 RemoveAt(queue_tasks_deferred, DeferredPick(s))
            /\ UNCHANGED queue_tasks_unhandled
    /\ NotifyOne

-----------------------------------------------------------------------------
(* HTTP threads *)

\* wait_until_no_sleep() up to the wait (the metrics endpoint bypasses it and
\* looks at is_sleeping() instead).
EnterGate(t) ==
    /\ client[t] = "new"
    /\ Kind[t] # "metrics"
    /\ IF sleeping
       THEN /\ client' = [client EXCEPT ![t] = "gated"]
            /\ req_stop_sleeping' = TRUE
            /\ IF req_stop_sleeping
               THEN waiters' = waiters \cup {t}
               ELSE \E w \in Notified : waiters' = w \cup {t}
       ELSE /\ client' = [client EXCEPT ![t] = "open"]
            /\ UNCHANGED <<req_stop_sleeping, waiters>>
    /\ UNCHANGED <<queues, running, stopped, sleeping, loop, wthread>>

\* get_metrics: cached values while sleeping, a task otherwise.
CheckSleeping(t) ==
    /\ client[t] = "new"
    /\ Kind[t] = "metrics"
    /\ client' = [client EXCEPT ![t] = IF sleeping THEN "done" ELSE "open"]
    /\ UNCHANGED <<queues, flags, loop, wthread, waiters>>

\* A thread woken in wait_until_no_sleep() looks at its predicate again.
LeaveGate(t) ==
    /\ client[t] = "gated"
    /\ t \notin waiters
    /\ IF sleeping
       THEN waiters' = waiters \cup {t} /\ UNCHANGED client
       ELSE client' = [client EXCEPT ![t] = "open"] /\ UNCHANGED waiters
    /\ UNCHANGED <<queues, flags, loop, wthread>>

\* Mutant: the task is queued and nobody is notified.
PostTaskSilently(t) ==
    /\ client[t] = "open"
    /\ client' = [client EXCEPT ![t] = "posted"]
    /\ queue_tasks' = Append(queue_tasks, TaskItem(t))
    /\ UNCHANGED <<queue_tasks_deferred, queue_tasks_unhandled, flags, loop, wthread, waiters>>

\* post() of a task; the readonly ones go to the front.
PostTask(t) ==
    /\ client[t] = "open"
    /\ client' = [client EXCEPT ![t] = "posted"]
    /\ queue_tasks' = IF IsReadonly(t) THEN <<TaskItem(t)>> \o queue_tasks
                                       ELSE Append(queue_tasks, TaskItem(t))
    /\ NotifyOne
    /\ UNCHANGED <<queue_tasks_deferred, queue_tasks_unhandled, flags, loop, wthread>>

\* post() of a CANCEL task, to the front, from server_response_reader::stop().
PostCancel(t) ==
    /\ client[t] = "posted"
    /\ client' = [client EXCEPT ![t] = "cancelled"]
    /\ CleanupPendingTask(t)
    /\ NotifyOne
    /\ UNCHANGED <<flags, loop, wthread>>

\* The HTTP thread got its last result and leaves.
Finish(t) ==
    /\ client[t] = "posted"
    /\ client' = [client EXCEPT ![t] = "done"]
    /\ UNCHANGED <<queues, flags, loop, wthread, waiters>>

\* terminate(), from the signal handler or the router's monitor thread; a
\* second signal ends the process.
Terminate ==
    /\ ~stopped
    /\ running' = FALSE
    /\ stopped' = TRUE
    /\ NotifyAll
    /\ UNCHANGED <<queues, sleeping, req_stop_sleeping, loop, wthread, client>>

-----------------------------------------------------------------------------
(* The start_loop() thread *)

\* start_loop() up to its loop; running is set without the lock.
StartLoop ==
    /\ pcM = "init"
    /\ pcM' = "drain"
    /\ running' = TRUE
    /\ worker' = [worker EXCEPT !.stop = FALSE, !.busy = FALSE, !.yielding = FALSE]
    /\ pcW' = "wait"
    /\ UNCHANGED <<queues, stopped, sleeping, req_stop_sleeping, handM, raised,
                   handW, parked, waiters, client>>

\* process_new_tasks(false): pop a task, stop, or go on to update_slots().
MainDrain ==
    /\ pcM = "drain"
    /\ IF ~running
       THEN pcM' = "stop" /\ UNCHANGED <<handM, queue_tasks>>
       ELSE IF queue_tasks = <<>>
            THEN pcM' = "update" /\ UNCHANGED <<handM, queue_tasks>>
            ELSE /\ pcM' = "callback"
                 /\ handM' = Head(queue_tasks)
                 /\ queue_tasks' = Tail(queue_tasks)
    /\ UNCHANGED <<queue_tasks_deferred, queue_tasks_unhandled, flags, raised,
                   wthread, waiters, client>>

\* callback_new_task() calls defer(): no slot is available for the task.
MainDefer ==
    /\ pcM = "callback"
    /\ handM.type = "task" /\ ~IsReadonly(handM.id)
    /\ pcM' = "drain"
    /\ queue_tasks_deferred' = Append(queue_tasks_deferred, handM)
    /\ handM' = NextItem
    /\ NotifyOne
    /\ UNCHANGED <<queue_tasks, queue_tasks_unhandled, flags, raised, wthread, client>>

\* callback_new_task() returns true: the task was launched, answered or dropped.
MainHandled ==
    /\ pcM = "callback"
    /\ pcM' = "drain"
    /\ handM' = NextItem
    /\ UNCHANGED <<queues, flags, raised, wthread, waiters, client>>

\* slot.release() inside a callback: the deferred queue gives one task back.
MainRelease(s) ==
    /\ pcM \in {"callback", "active", "abort"}
    /\ PopDeferredTask(s)
    /\ UNCHANGED <<flags, loop, wthread, client>>

\* update_slots() with every slot idle returns at once.
MainAllIdle ==
    /\ pcM = "update"
    /\ pcM' = "recheck"
    /\ UNCHANGED <<queues, flags, handM, raised, wthread, waiters, client>>

\* Mutant: the NEXT_RESPONSE task is not posted.
MainPostNothing ==
    /\ pcM = "update"
    /\ pcM' = "active"
    /\ UNCHANGED <<queues, flags, handM, raised, wthread, waiters, client>>

\* Otherwise it first posts a NEXT_RESPONSE task.
MainPostNext ==
    /\ pcM = "update"
    /\ pcM' = "active"
    /\ queue_tasks' = Append(queue_tasks, NextItem)
    /\ NotifyOne
    /\ UNCHANGED <<queue_tasks_deferred, queue_tasks_unhandled, flags, handM,
                   raised, wthread, client>>

\* yield_to_queue(): hand the queue to the worker ...
MainYield ==
    /\ pcM = "active" /\ ~raised
    /\ pcM' = "signal"
    /\ worker' = [worker EXCEPT !.busy = TRUE, !.yielding = TRUE]
    /\ UNCHANGED <<queues, flags, handM, raised, pcW, handW, parked, waiters, client>>

\* ... worker.cv.notify_one(), after the lock is released ...
MainSignal ==
    /\ pcM = "signal"
    /\ pcM' = "work"
    /\ parked' = FALSE
    /\ UNCHANGED <<queues, flags, handM, raised, pcW, handW, worker, waiters, client>>

\* Mutant: the declined tasks are put back but stay in their own deque.
YieldEndKeeps(exc) ==
    /\ pcM' = "active"
    /\ queue_tasks' = queue_tasks_unhandled \o queue_tasks
    /\ raised' = (exc \/ worker.exception)
    /\ UNCHANGED queue_tasks_unhandled

\* Mutant: the declined tasks are dropped.
YieldEndDrops(exc) ==
    /\ pcM' = "active"
    /\ queue_tasks_unhandled' = <<>>
    /\ raised' = (exc \/ worker.exception)
    /\ UNCHANGED queue_tasks

\* ... and, the worker being done: put the declined tasks back in front, in
\* their order, and let an exception out.
YieldEnd(exc) ==
    /\ pcM' = "active"
    /\ queue_tasks' = queue_tasks_unhandled \o queue_tasks
    /\ queue_tasks_unhandled' = <<>>
    /\ raised' = (exc \/ worker.exception)

\* work() returned or threw: end the yield; wait while the worker is busy.
MainWorkDone(exc) ==
    /\ pcM = "work"
    /\ IF worker.busy
       THEN /\ pcM' = "join"
            /\ raised' = exc
            /\ worker' = [worker EXCEPT !.yielding = FALSE]
            /\ waiters' = {Main}
            /\ UNCHANGED queues
       ELSE /\ YieldEnd(exc)
            /\ worker' = [worker EXCEPT !.yielding = FALSE, !.exception = FALSE]
            /\ NotifyAll
            /\ UNCHANGED queue_tasks_deferred
    /\ UNCHANGED <<flags, handM, pcW, handW, parked, client>>

\* Mutant: any wakeup ends the wait for the worker.
MainJoinEarly ==
    /\ pcM = "join" /\ Main \notin waiters
    /\ YieldEnd(raised)
    /\ worker' = [worker EXCEPT !.exception = FALSE]
    /\ UNCHANGED <<queue_tasks_deferred, waiters, flags, handM, pcW, handW, parked, client>>

\* Woken while waiting for the worker.
MainJoin ==
    /\ pcM = "join" /\ Main \notin waiters
    /\ IF worker.busy
       THEN waiters' = waiters \cup {Main} /\ UNCHANGED <<queues, pcM, raised, worker>>
       ELSE /\ YieldEnd(raised)
            /\ worker' = [worker EXCEPT !.exception = FALSE]
            /\ UNCHANGED <<queue_tasks_deferred, waiters>>
    /\ UNCHANGED <<flags, handM, pcW, handW, parked, client>>

\* The exception is caught: by iterate(), which drops one slot and goes on, or
\* by update_slots(), which aborts them all.
MainCatch ==
    /\ pcM = "active" /\ raised
    /\ raised' = FALSE
    /\ pcM' \in {"active", "abort"}
    /\ UNCHANGED <<queues, flags, handM, wthread, waiters, client>>

\* update_slots() returns.
MainUpdateDone ==
    /\ pcM \in {"active", "abort"} /\ ~raised
    /\ pcM' = "recheck"
    /\ UNCHANGED <<queues, flags, handM, raised, wthread, waiters, client>>

\* The inner loop of start_loop(): nothing to do, so wait, or fall asleep.
\* Elapsed time is not modelled: the idle timer may have run out whenever this
\* point is reached, because any time can pass between two steps.
MainRecheck ==
    /\ pcM = "recheck"
    /\ IF ~running \/ queue_tasks # <<>>
       THEN pcM' = "drain" /\ UNCHANGED waiters
       ELSE pcM' = "idle" /\ waiters' = waiters \cup {Main}
    /\ UNCHANGED <<queues, flags, handM, raised, wthread, client>>

MainSleep ==
    /\ pcM = "recheck"
    /\ running /\ queue_tasks = <<>>
    /\ SleepEnabled
    /\ pcM' = "asleep"
    /\ sleeping' = TRUE
    /\ req_stop_sleeping' = FALSE
    /\ waiters' = waiters \cup {Main}
    /\ UNCHANGED <<queues, running, stopped, handM, raised, wthread, client>>

\* wait_for() of one second: notified, or timed out and round the loop again.
MainIdle ==
    /\ pcM = "idle"
    /\ IF ~running \/ queue_tasks # <<>>
       THEN pcM' = "drain" /\ waiters' = waiters \ {Main}
       ELSE \/ /\ Main \notin waiters
               /\ waiters' = waiters \cup {Main} /\ UNCHANGED pcM
            \/ /\ Main \in waiters
               /\ waiters' = waiters \ {Main} /\ pcM' = "recheck"
    /\ UNCHANGED <<queues, flags, handM, raised, wthread, client>>

\* The wait inside the sleeping state has no timeout.
MainWake ==
    /\ pcM = "asleep" /\ Main \notin waiters
    /\ IF ~running
       THEN /\ pcM' = "drain"
            /\ UNCHANGED <<waiters, sleeping, req_stop_sleeping>>
       ELSE IF req_stop_sleeping
            THEN /\ pcM' = "drain"
                 /\ sleeping' = FALSE
                 /\ req_stop_sleeping' = FALSE
                 /\ NotifyAll
            ELSE /\ waiters' = waiters \cup {Main}
                 /\ UNCHANGED <<pcM, sleeping, req_stop_sleeping>>
    /\ UNCHANGED <<queues, running, stopped, handM, raised, wthread, client>>

\* worker_stop(): set the flag, then notify both condition variables, then join.
MainStop ==
    /\ pcM = "stop"
    /\ pcM' = "stopping"
    /\ worker' = [worker EXCEPT !.stop = TRUE]
    /\ UNCHANGED <<queues, flags, handM, raised, pcW, handW, parked, waiters, client>>

\* Mutant: worker.cv is not notified.
MainStopNotifyOne ==
    /\ pcM = "stopping"
    /\ pcM' = "joining"
    /\ NotifyAll
    /\ UNCHANGED <<queues, flags, handM, raised, pcW, handW, parked, worker, client>>

MainStopNotify ==
    /\ pcM = "stopping"
    /\ pcM' = "joining"
    /\ parked' = FALSE
    /\ NotifyAll
    /\ UNCHANGED <<queues, flags, handM, raised, pcW, handW, worker, client>>

MainJoined ==
    /\ pcM = "joining" /\ pcW = "exit"
    /\ pcM' = "done"
    /\ UNCHANGED <<queues, flags, handM, raised, wthread, waiters, client>>

-----------------------------------------------------------------------------
(* The worker thread: worker_loop() *)

\* The wait on worker.cv, for a yield to serve or for the end.
WorkerWait ==
    /\ pcW = "wait" /\ ~parked
    /\ IF worker.stop THEN pcW' = "exit" /\ UNCHANGED parked
       ELSE IF worker.busy THEN pcW' = "drain" /\ UNCHANGED parked
       ELSE parked' = TRUE /\ UNCHANGED pcW
    /\ UNCHANGED <<queues, flags, loop, handW, worker, waiters, client>>

\* process_new_tasks(true): pop a task, or see that there is none or that the
\* queue is terminated.
WorkerDrain ==
    /\ pcW = "drain"
    /\ IF ~running
       THEN pcW' = "finish" /\ UNCHANGED <<handW, queue_tasks>>
       ELSE IF queue_tasks = <<>>
            THEN pcW' = "check" /\ UNCHANGED <<handW, queue_tasks>>
            ELSE /\ pcW' = "callback"
                 /\ handW' = Head(queue_tasks)
                 /\ queue_tasks' = Tail(queue_tasks)
    /\ UNCHANGED <<queue_tasks_deferred, queue_tasks_unhandled, flags, loop, parked,
                   worker, waiters, client>>

\* The worker runs only the tasks that read; it sets the others aside.
RunsWhileYielding(item) == item.type = "task" /\ IsReadonly(item.id)

WorkerDecline ==
    /\ pcW = "callback" /\ ~RunsWhileYielding(handW)
    /\ pcW' = "drain"
    /\ queue_tasks_unhandled' = Append(queue_tasks_unhandled, handW)
    /\ handW' = NextItem
    /\ UNCHANGED <<queue_tasks, queue_tasks_deferred, flags, loop, parked, worker,
                   waiters, client>>

WorkerHandled ==
    /\ pcW = "callback" /\ RunsWhileYielding(handW)
    /\ pcW' = "drain"
    /\ handW' = NextItem
    /\ UNCHANGED <<queues, flags, loop, parked, worker, waiters, client>>

\* The callback throws: the exception is kept for yield_to_queue().
WorkerThrow ==
    /\ pcW = "callback" /\ RunsWhileYielding(handW)
    /\ pcW' = "finish"
    /\ handW' = NextItem
    /\ worker' = [worker EXCEPT !.exception = TRUE]
    /\ UNCHANGED <<queues, flags, loop, parked, waiters, client>>

\* The queue is empty: leave if the yield is over, otherwise wait for a task.
WorkerCheck ==
    /\ pcW = "check"
    /\ IF worker.stop \/ ~worker.yielding THEN pcW' = "finish" /\ UNCHANGED waiters
       ELSE IF queue_tasks # <<>> \/ ~running THEN pcW' = "drain" /\ UNCHANGED waiters
       ELSE pcW' = "cwait" /\ waiters' = waiters \cup {Worker}
    /\ UNCHANGED <<queues, flags, loop, handW, parked, worker, client>>

WorkerWake ==
    /\ pcW = "cwait" /\ Worker \notin waiters
    /\ IF worker.stop \/ ~running \/ ~worker.yielding \/ queue_tasks # <<>>
       THEN pcW' = "drain" /\ UNCHANGED waiters
       ELSE waiters' = waiters \cup {Worker} /\ UNCHANGED pcW
    /\ UNCHANGED <<queues, flags, loop, handW, parked, worker, client>>

\* busy is cleared under the lock, the notification follows without it.
WorkerFinish ==
    /\ pcW = "finish"
    /\ pcW' = "notify"
    /\ worker' = [worker EXCEPT !.busy = FALSE]
    /\ UNCHANGED <<queues, flags, loop, handW, parked, waiters, client>>

WorkerNotify ==
    /\ pcW = "notify"
    /\ pcW' = "wait"
    /\ NotifyAll
    /\ UNCHANGED <<queues, flags, loop, handW, parked, worker, client>>

-----------------------------------------------------------------------------

QInit ==
    /\ queue_tasks = <<>> /\ queue_tasks_deferred = <<>> /\ queue_tasks_unhandled = <<>>
    /\ running = FALSE /\ stopped = FALSE
    /\ sleeping = FALSE /\ req_stop_sleeping = FALSE
    /\ worker = [stop |-> FALSE, busy |-> FALSE, yielding |-> FALSE, exception |-> FALSE]
    /\ waiters = {} /\ parked = FALSE
    /\ pcM = "init" /\ handM = NextItem /\ raised = FALSE
    /\ pcW = "off" /\ handW = NextItem
    /\ client = [t \in Tasks |-> "new"]

QClient(t) == EnterGate(t) \/ CheckSleeping(t) \/ LeaveGate(t) \/ PostTask(t)
              \/ PostCancel(t) \/ Finish(t)

QMain == StartLoop \/ MainDrain \/ MainDefer \/ MainHandled
         \/ (\E s \in Slots : MainRelease(s))
         \/ MainAllIdle \/ MainPostNext \/ MainYield \/ MainSignal
         \/ (\E exc \in BOOLEAN : MainWorkDone(exc))
         \/ MainJoin \/ MainCatch \/ MainUpdateDone \/ MainRecheck \/ MainSleep
         \/ MainIdle \/ MainWake \/ MainStop \/ MainStopNotify \/ MainJoined

QWorker == WorkerWait \/ WorkerDrain \/ WorkerDecline \/ WorkerHandled \/ WorkerThrow
           \/ WorkerCheck \/ WorkerWake \/ WorkerFinish \/ WorkerNotify

QNext == (\E t \in Tasks : QClient(t)) \/ Terminate \/ QMain \/ QWorker

QSpec == QInit /\ [][QNext]_qvars

-----------------------------------------------------------------------------
(* Invariants *)

\* Every variable keeps its type; the deques hold tasks, CANCELs and
\* NEXT_RESPONSEs, and only tasks are deferred (server-queue.h, the members).
QTypeOK ==
    /\ queue_tasks \in Seq(Item)
    /\ queue_tasks_deferred \in Seq(TaskItems)
    /\ queue_tasks_unhandled \in Seq(Item)
    /\ running \in BOOLEAN /\ stopped \in BOOLEAN
    /\ sleeping \in BOOLEAN /\ req_stop_sleeping \in BOOLEAN
    /\ worker \in [stop : BOOLEAN, busy : BOOLEAN, yielding : BOOLEAN, exception : BOOLEAN]
    /\ waiters \subseteq Threads /\ parked \in BOOLEAN
    /\ pcM \in MainPcs /\ handM \in Item /\ raised \in BOOLEAN
    /\ pcW \in WorkerPcs /\ handW \in Item
    /\ client \in [Tasks -> ClientPcs]

\* Where the worker is between taking up a yield and reporting its end.
WorkerActive == pcW \in {"drain", "callback", "check", "cwait", "finish"}

\* Where the loop is inside yield_to_queue().
InYield == pcM \in {"signal", "work", "join"}

\* The slots are protected by no lock: the worker may run callback_new_task()
\* only while the loop thread is inside yield_to_queue(), never while that
\* thread is itself in a callback (server-queue.cpp, worker.busy).
WorkerOnlyInYield == WorkerActive => InYield

\* Outside a yield nothing is left over from the last one: no declined task
\* that nobody would put back, no pending exception, no busy flag (the assertion
\* "yield_to_queue() cannot be nested").
YieldLeavesNothing ==
    ~InYield => /\ queue_tasks_unhandled = <<>>
                /\ ~worker.busy /\ ~worker.yielding /\ ~worker.exception

\* No lost wakeup: a thread blocked on a condition variable still has to wait,
\* or the notification it needs is about to be sent.  One clause per wait:
\* worker.cv, the worker's wait for tasks, the loop's wait for the worker, and
\* wait_until_no_sleep().
NoLostWakeup ==
    /\ parked => /\ worker.busy => pcM = "signal"
                 /\ worker.stop => pcM = "stopping"
    /\ Worker \in waiters => /\ running /\ queue_tasks = <<>>
                             /\ worker.yielding /\ ~worker.stop
    /\ (pcM = "join" /\ Main \in waiters) => (worker.busy \/ pcW = "notify")
    /\ \A t \in Tasks : t \in waiters => sleeping

\* A task is in one place at most: a deque, or the hands of one of the threads
\* (a task offered twice would be launched and answered twice).
NoTaskTwice ==
    \A t \in Tasks :
          Cardinality(Positions(queue_tasks, t))
        + Cardinality(Positions(queue_tasks_deferred, t))
        + Cardinality(Positions(queue_tasks_unhandled, t))
        + Cardinality({x \in {Main, Worker} : TaskItem(t) = IF x = Main THEN handM ELSE handW})
        <= 1
=============================================================================
