------------------------------- MODULE Server -------------------------------
(***************************************************************************)
(* The server core: the task queue (ServerQueue), the result queue and its *)
(* readers (ServerResponse, one task per request) and the slots            *)
(* (tools/server/server-context.cpp: process_single_task, update_slots,    *)
(* launch_slot_with_task, slot.release).                                   *)
(*                                                                         *)
(* Each action is a step of ServerQueue joined with what the callback does *)
(* to the slots and to the result queue, or a step of a reader.  What a    *)
(* decode computes is abstracted to its outcome for a slot: more tokens,   *)
(* the last token, or an error.  Answering METRICS and SLOT_GET does not   *)
(* throw here; ServerQueue has the exceptions of the worker too.           *)
(***************************************************************************)
EXTENDS ServerQueue, FiniteSets

CONSTANTS
    Target,          \* Tasks -> the slot a slot_action saves, restores or erases
    LaunchMayFail,   \* launch_slot_with_task() may refuse a request
    MayDisconnect,   \* the tasks whose clients may close their connection
    MayTerminate,    \* the server may be asked to shut down
    MayThrow,        \* pre_decode(), decode() and post_decode() may throw
    MaxPartials      \* bound on the partial results of one task in the queue

ASSUME ServerAssumption ==
    /\ Target \in [Tasks -> Slots]
    /\ {LaunchMayFail, MayTerminate, MayThrow} \subseteq BOOLEAN
    /\ MayDisconnect \subseteq Tasks
    /\ MaxPartials \in Nat

VARIABLES
    slot,      \* Slots -> the task a slot is processing, NoTask when it is idle
    ending,    \* the slot whose last result is sent and whose release() is next
    waiting_task_ids, queue_results, received, topurge, rpc

R == INSTANCE ServerResponse WITH Readers <- Tasks, IdTasks <- [t \in Tasks |-> {t}],
                                  terminated <- stopped

rvars == <<waiting_task_ids, queue_results, received, topurge, rpc>>
readers == <<received, topurge, rpc>>
svars == <<slot, ending>>
vars  == <<qvars, rvars, svars>>

IsIdle(s) == slot[s] = NoTask
AllIdle   == \A s \in Slots : IsIdle(s)

\* The slots get_available_slot() may return: the one the request names, or an
\* idle one (the prompt similarity and LRU choice is left open).
Available(t) == {s \in Slots : IsIdle(s) /\ IdSlot[t] \in {NoSlot, s}}

-----------------------------------------------------------------------------
(* HTTP threads *)

Gate(t) == (EnterGate(t) \/ CheckSleeping(t) \/ LeaveGate(t)) /\ UNCHANGED <<rvars, svars>>

\* post_task(): register the id, then post the task.
RegisterTask(t) ==
    /\ client[t] = "open"
    /\ R!Register(t)
    /\ UNCHANGED <<qvars, svars>>

SendTask(t) == PostTask(t) /\ R!Posted(t) /\ UNCHANGED svars

\* next() returns a result, or an error because the server shuts down.
ReadResult(t) == (R!Receive(t) \/ R!ShuttingDown(t)) /\ UNCHANGED <<qvars, svars>>

\* next() returns nothing: the client is gone.
Disconnect(t) == t \in MayDisconnect /\ R!GiveUp(t) /\ UNCHANGED <<qvars, svars>>

\* The metrics endpoint does not wait for a task the sleeping loop will not take.
SkipMetrics(t) ==
    /\ Kind[t] = "metrics" /\ sleeping
    /\ R!GiveUp(t)
    /\ UNCHANGED <<qvars, svars>>

\* stop(): every task finished, so only the waiting ids are removed ...
LeaveDone(t) == R!StopRemove(t) /\ rpc'[t] = "left" /\ Finish(t) /\ UNCHANGED svars

\* ... or the task is removed with its results and cancelled.
StopReading(t) ==
    /\ \/ R!StopRemove(t) /\ rpc'[t] = "purging"
       \/ R!StopPurge(t, t)
    /\ UNCHANGED <<qvars, svars>>

LeaveCancel(t) == R!StopPost(t) /\ PostCancel(t) /\ UNCHANGED svars

Shutdown == MayTerminate /\ Terminate /\ UNCHANGED <<rvars, svars>>

-----------------------------------------------------------------------------
(* process_single_task(), on the start_loop() thread *)

Handling(kind) == pcM = "callback" /\ handM.type = "task" /\ Kind[handM.id] = kind

\* COMPLETION: the slot takes the task ...
LaunchSlot(s) ==
    /\ Handling("completion")
    /\ s \in Available(handM.id)
    /\ MainHandled
    /\ slot' = [slot EXCEPT ![s] = handM.id]
    /\ UNCHANGED <<rvars, ending>>

\* Mutant: the slot keeps the task it has refused.
LaunchFailsKept ==
    /\ LaunchMayFail
    /\ Handling("completion")
    /\ MainHandled
    /\ R!Send(handM.id, "error")
    /\ \E s \in Available(handM.id) : slot' = [slot EXCEPT ![s] = handM.id]
    /\ UNCHANGED <<readers, ending>>

\* ... or refuses it and stays idle ...
LaunchFails ==
    /\ LaunchMayFail
    /\ Handling("completion")
    /\ Available(handM.id) # {}
    /\ MainHandled
    /\ R!Send(handM.id, "error")
    /\ UNCHANGED <<readers, svars>>

\* ... or no slot is available.
DeferCompletion ==
    /\ Handling("completion")
    /\ Available(handM.id) = {}
    /\ MainDefer
    /\ UNCHANGED <<rvars, svars>>

\* SLOT_SAVE, SLOT_RESTORE, SLOT_ERASE: done at once on an idle slot, which stays
\* idle, and deferred otherwise.
RunSlotAction ==
    /\ Handling("slot_action")
    /\ IsIdle(Target[handM.id])
    /\ MainHandled
    /\ R!Send(handM.id, "final")
    /\ UNCHANGED <<readers, svars>>

DeferSlotAction ==
    /\ Handling("slot_action")
    /\ ~IsIdle(Target[handM.id])
    /\ MainDefer
    /\ UNCHANGED <<rvars, svars>>

\* METRICS and SLOT_GET.
ReportMain ==
    /\ pcM = "callback" /\ handM.type = "task" /\ IsReadonly(handM.id)
    /\ MainHandled
    /\ R!Send(handM.id, "final")
    /\ UNCHANGED <<readers, svars>>

\* CANCEL: release the slot that has the task, if there is one.
CancelRelease(s) ==
    /\ pcM = "callback" /\ handM.type = "cancel"
    /\ slot[s] = handM.id
    /\ MainRelease(s)
    /\ slot' = [slot EXCEPT ![s] = NoTask]
    /\ UNCHANGED <<rvars, ending>>

CancelDone ==
    /\ pcM = "callback" /\ handM.type = "cancel"
    /\ \A s \in Slots : slot[s] # handM.id
    /\ MainHandled
    /\ UNCHANGED <<rvars, svars>>

\* NEXT_RESPONSE: nothing, its arrival keeps the loop going.
NextResponse ==
    /\ pcM = "callback" /\ handM.type = "next"
    /\ MainHandled
    /\ UNCHANGED <<rvars, svars>>

-----------------------------------------------------------------------------
(* update_slots() *)

UpdateIdle   == AllIdle  /\ MainAllIdle  /\ UNCHANGED <<rvars, svars>>
UpdateActive == ~AllIdle /\ MainPostNext /\ UNCHANGED <<rvars, svars>>

\* pre_decode(), decode() and post_decode() yield while they compute.
Yield == ending = NoSlot /\ MainYield /\ UNCHANGED <<rvars, svars>>

Compute == /\ MainSignal \/ MainJoin \/ \E exc \in {FALSE, MayThrow} : MainWorkDone(exc)
           /\ UNCHANGED <<rvars, svars>>

\* send_partial_response() of a streamed completion.
SendPartial(s) ==
    /\ pcM = "active" /\ ~raised /\ ending = NoSlot /\ ~IsIdle(s)
    /\ Cardinality(R!ResultsFor({slot[s]})) < MaxPartials
    /\ R!Send(slot[s], "partial")
    /\ UNCHANGED <<qvars, readers, svars>>

\* The last result: send_final_response(), or send_error() ...
SendLast(s) ==
    /\ pcM = "active" /\ ~raised /\ ending = NoSlot /\ ~IsIdle(s)
    /\ \E kind \in {"final", "error"} : R!Send(slot[s], kind)
    /\ ending' = s
    /\ UNCHANGED <<qvars, readers, slot>>

\* Mutant: the slot keeps a slot id where its task id was.
ReleaseSlotWrongId ==
    /\ ending # NoSlot
    /\ MainRelease(ending)
    /\ slot' = [slot EXCEPT ![ending] = NoSlot]
    /\ ending' = NoSlot
    /\ UNCHANGED rvars

\* ... followed by release(), which wakes a deferred task.
ReleaseSlot ==
    /\ ending # NoSlot
    /\ MainRelease(ending)
    /\ slot' = [slot EXCEPT ![ending] = NoTask]
    /\ ending' = NoSlot
    /\ UNCHANGED rvars

\* An exception inside iterate() drops the slot at hand ...
CatchOne(s) ==
    /\ MainCatch /\ pcM' = "active"
    /\ ~IsIdle(s)
    /\ R!Send(slot[s], "error")
    /\ ending' = s
    /\ UNCHANGED <<readers, slot>>

\* ... elsewhere abort_all_slots() drops them all.
CatchAll == MainCatch /\ pcM' = "abort" /\ UNCHANGED <<rvars, svars>>

AbortSlot(s) ==
    /\ pcM = "abort" /\ ending = NoSlot /\ ~IsIdle(s)
    /\ R!Send(slot[s], "error")
    /\ ending' = s
    /\ UNCHANGED <<qvars, readers, slot>>

UpdateDone ==
    /\ ending = NoSlot
    /\ pcM = "abort" => AllIdle
    /\ MainUpdateDone
    /\ UNCHANGED <<rvars, svars>>

-----------------------------------------------------------------------------
(* The rest of the two loops *)

MainLoop == /\ \/ StartLoop \/ MainDrain \/ MainRecheck \/ MainSleep
               \/ MainIdle \/ MainWake \/ MainStop \/ MainStopNotify \/ MainJoined
            /\ UNCHANGED <<rvars, svars>>

\* METRICS and SLOT_GET on the worker, while the loop thread computes.
ReportWorker ==
    /\ WorkerHandled
    /\ R!Send(handW.id, "final")
    /\ UNCHANGED <<readers, svars>>

WorkerLoop == /\ \/ WorkerWait \/ WorkerDrain \/ WorkerDecline
                 \/ WorkerCheck \/ WorkerWake \/ WorkerFinish \/ WorkerNotify
              /\ UNCHANGED <<rvars, svars>>

Init == QInit /\ R!RInit /\ slot = [s \in Slots |-> NoTask] /\ ending = NoSlot

ClientStep(t) == Gate(t) \/ RegisterTask(t) \/ SendTask(t) \/ ReadResult(t)
                 \/ SkipMetrics(t) \/ LeaveDone(t) \/ StopReading(t) \/ LeaveCancel(t)

TaskStep == LaunchFails \/ DeferCompletion \/ RunSlotAction \/ DeferSlotAction
            \/ ReportMain \/ CancelDone \/ NextResponse
            \/ \E s \in Slots : LaunchSlot(s) \/ CancelRelease(s)

UpdateStep == UpdateIdle \/ UpdateActive \/ Yield \/ Compute \/ ReleaseSlot
              \/ CatchAll \/ UpdateDone
              \/ \E s \in Slots : SendPartial(s) \/ SendLast(s) \/ CatchOne(s) \/ AbortSlot(s)

Next == \/ \E t \in Tasks : ClientStep(t) \/ Disconnect(t)
        \/ Shutdown
        \/ TaskStep \/ UpdateStep \/ MainLoop \/ ReportWorker \/ WorkerLoop

\* Every thread is scheduled, a call of update_slots() returns and, its slot
\* being decoded over and over, a task's generation comes to an end (n_predict or
\* the context bounds it).  Nobody has to disconnect, shut the server down, or
\* let the idle timer run out.
Fairness ==
    /\ \A t \in Tasks : WF_vars(ClientStep(t))
    /\ WF_vars(TaskStep) /\ WF_vars(MainLoop)
    /\ WF_vars(UpdateIdle \/ UpdateActive \/ Compute \/ ReleaseSlot \/ CatchAll)
    /\ SF_vars(UpdateDone) /\ \A s \in Slots : SF_vars(SendLast(s)) /\ WF_vars(AbortSlot(s))
    /\ WF_vars(ReportWorker) /\ WF_vars(WorkerLoop)

Spec == Init /\ [][Next]_vars

FairSpec == Spec /\ Fairness

-----------------------------------------------------------------------------
(* Properties *)

\* Every variable of the slots keeps its type.
STypeOK ==
    /\ slot \in [Slots -> Tasks \cup {NoTask}]
    /\ ending \in Slots \cup {NoSlot}
    /\ waiting_task_ids \subseteq Tasks
    /\ queue_results \in Seq(R!Result)
    /\ received \in [Tasks -> [count : Nat, ids : SUBSET Tasks]]
    /\ topurge \in [Tasks -> SUBSET Tasks]
    /\ rpc \in [Tasks -> R!ReaderPcs]

InDeque(q, t) == \E i \in DOMAIN q : q[i] = TaskItem(t)

Pending(t) == \/ InDeque(queue_tasks, t) \/ InDeque(queue_tasks_deferred, t)
              \/ InDeque(queue_tasks_unhandled, t)
              \/ handM = TaskItem(t) \/ handW = TaskItem(t)

Running(t) == \E s \in Slots : slot[s] = t

\* What ResponseLife calls the life of a task, in terms of the queue and the slots.
TaskLife(t) ==
    CASE rpc[t] \in {"new", "registered"} -> "none"
      [] rpc[t] \notin {"new", "registered"} /\ Pending(t) -> "pending"
      [] OTHER -> IF \E s \in Slots \ {ending} : slot[s] = t THEN "running" ELSE "over"

L == INSTANCE ResponseLife WITH
        Readers <- Tasks, IdTasks <- [t \in Tasks |-> {t}], terminated <- stopped,
        life <- [t \in Tasks |-> TaskLife(t)],
        halted <- pcM \in {"stop", "stopping", "joining", "done"}

\* The queue, the worker and the slots keep the life of a task that ResponseLife
\* assumes: each posted task is launched or answered once, sends its results while
\* it runs and nothing after the last one, is ended without a result only after its
\* reader cancelled it, and nothing is sent once start_loop() is on its way out.
\* (L!LSafe with the stutter named first: TLC then looks at no other disjunct.)
ImplementsResponseLife == L!LInit /\ [][UNCHANGED L!lvars \/ L!LNext]_(L!lvars)

\* A task is launched once: it has one slot at most, and is not also queued
\* (process_single_task, pop_deferred_task, yield_to_queue).
LaunchedOnce ==
    \A t \in Tasks : /\ Running(t) => ~Pending(t)
                     /\ \A s, z \in Slots : (slot[s] = t /\ slot[z] = t) => s = z

\* No request is forgotten: while its client reads, its task is queued, in a
\* slot, or answered (yield_to_queue puts declined tasks back "so they are not
\* lost").
NoRequestForgotten ==
    \A t \in Tasks : rpc[t] = "reading" =>
        Pending(t) \/ Running(t) \/ \E i \in DOMAIN queue_results : queue_results[i].id = t

\* The model is unloaded only when no slot is processing (handle_sleeping_state
\* destroys the contexts): an active slot leaves a NEXT_RESPONSE in the queue,
\* through every yield, so start_loop() does not get to sleep.
SleepOnlyWhenIdle == sleeping => AllIdle

\* The result queue holds results of live readers only (ServerResponse).
NoResultLeftBehind ==
    \A i \in DOMAIN queue_results :
        queue_results[i].id \in waiting_task_ids \/ topurge[queue_results[i].id] # {}

\* Every posted request is answered, with an error if need be, or ends with the
\* shutdown: no HTTP thread waits for ever (each waits once).
EveryRequestEnds == \A t \in Tasks : <>[](rpc[t] # "reading")

\* Once started, start_loop() returns after a shutdown request, wherever its two
\* threads are.
ShutdownEndsLoop == <>[](pcM \in {"init", "done"} \/ running)

\* "Add a new task, but defer until one slot is available" (server-queue.h:64):
\* the loop does not wait for new tasks while a deferred one could have a slot.
DeferredUntilSlotAvailable ==
    ~(/\ pcM = "idle" /\ running /\ queue_tasks = <<>>
      /\ AllIdle /\ queue_tasks_deferred # <<>>)

\* "Any inference request will wake the server up" (README-dev.md:301).
EveryPostedRequestIsTaken ==
    \A t \in Tasks : (client[t] = "posted") ~> ~InDeque(queue_tasks, t)
=============================================================================
