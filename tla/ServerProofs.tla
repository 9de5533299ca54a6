---------------------------- MODULE ServerProofs -----------------------------
(***************************************************************************)
(* Proofs about Server, for any number of requests and slots.              *)
(*                                                                         *)
(* The queue side (QInv) comes from ServerQueueProofs: every step of the   *)
(* server is a step of the queue.  SlotsOK says who is in a slot, NextOK   *)
(* that a busy slot has its NEXT_RESPONSE in the queue, ReadersOK and      *)
(* CancelsOK how far the HTTP thread of a task is.  With them every step   *)
(* is a step of ResponseLife or leaves it alone, and what ResponseProofs   *)
(* shows of the result queue holds of the server.                          *)
(***************************************************************************)
EXTENDS Server, ServerQueueProofs

-----------------------------------------------------------------------------
(* The invariant *)

QInv == QTypeOK /\ Handshake /\ HandsOK /\ PlacesOK

SlotTypeOK == slot \in [Slots -> Tasks \cup {NoTask}] /\ ending \in Slots \cup {NoSlot}

\* A slot whose last result is sent is released before the loop goes on.
EndingOK == ending # NoSlot => ~IsIdle(ending) /\ pcM \in {"active", "abort"} /\ ~raised

\* An exception is on its way out of yield_to_queue() only.
RaisedOK == raised => pcM \in {"join", "active"}

\* A task that has a slot was posted, is in no queue, and has one slot only.
SlotsOK ==
    \A t \in Tasks : \A s \in Slots : slot[s] = t =>
        /\ Places(TaskItem(t)) = 0
        /\ client[t] \notin {"new", "gated", "open"}
        /\ \A z \in Slots : slot[z] = t => z = s

SlotInv == SlotTypeOK /\ RaisedOK /\ EndingOK /\ SlotsOK

-----------------------------------------------------------------------------
(* The steps of the server and the steps of the queue *)

\* Every step of the server is a step of the queue or leaves it alone.
LEMMA StepOfQueue ==
    ASSUME SlotTypeOK, [Next]_vars
    PROVE  [QNext]_qvars
  <1>1. ASSUME NEW t \in Tasks, ClientStep(t) \/ Disconnect(t) PROVE [QNext]_qvars
    BY <1>1 DEF ClientStep, Gate, RegisterTask, SendTask, ReadResult, SkipMetrics, LeaveDone,
       StopReading, LeaveCancel, Disconnect, QNext, QClient
  <1>2. ASSUME Shutdown \/ MainLoop \/ ReportWorker \/ WorkerLoop \/ UNCHANGED vars
        PROVE  [QNext]_qvars
    BY <1>2 DEF Shutdown, MainLoop, ReportWorker, WorkerLoop, vars, QNext, QMain, QWorker
  <1>3. ASSUME TaskStep PROVE [QNext]_qvars
    BY <1>3 DEF TaskStep, LaunchFails, DeferCompletion, RunSlotAction, DeferSlotAction,
       ReportMain, CancelDone, NextResponse, LaunchSlot, CancelRelease, QNext, QMain
  <1>4. ASSUME UpdateStep PROVE [QNext]_qvars
    <2>1. CASE ReleaseSlot
      <3>1. ending \in Slots /\ MainRelease(ending)
        BY <2>1 DEF ReleaseSlot, SlotTypeOK
      <3> QED
        BY <3>1 DEF QNext, QMain
    <2>2. CASE Compute
      <3>1. CASE MainSignal \/ MainJoin
        BY <3>1 DEF QNext, QMain
      <3>2. CASE \E exc \in {FALSE, MayThrow} : MainWorkDone(exc)
        <4>1. {FALSE, MayThrow} \subseteq BOOLEAN
          BY ServerAssumption
        <4> QED
          BY <3>2, <4>1 DEF QNext, QMain
      <3> QED
        BY <2>2, <3>1, <3>2 DEF Compute
    <2>3. CASE UpdateIdle \/ UpdateActive \/ Yield \/ CatchAll \/ UpdateDone
      BY <2>3 DEF UpdateIdle, UpdateActive, Yield, CatchAll, UpdateDone, QNext, QMain
    <2>4. CASE \E s \in Slots : SendPartial(s) \/ SendLast(s) \/ CatchOne(s) \/ AbortSlot(s)
      BY <2>4 DEF SendPartial, SendLast, CatchOne, AbortSlot, QNext, QMain
    <2> QED
      BY <1>4, <2>1, <2>2, <2>3, <2>4 DEF UpdateStep
  <1> QED
    BY <1>1, <1>2, <1>3, <1>4 DEF Next

\* The queue keeps its invariant.
LEMMA QueueStep ==
    ASSUME QInv, [QNext]_qvars
    PROVE  QInv'
  BY TypeStep, HandshakeStep, HandsStep, SinglesStep DEF QInv

\* The steps that take or give back a slot, or send the last result of one.
LEMMA SlotMoves ==
    ASSUME [Next]_vars
    PROVE  \/ UNCHANGED svars
           \/ ReleaseSlot
           \/ \E s \in Slots : LaunchSlot(s) \/ CancelRelease(s) \/ SendLast(s)
                               \/ CatchOne(s) \/ AbortSlot(s)
  <1>1. ASSUME NEW t \in Tasks, ClientStep(t) \/ Disconnect(t) PROVE UNCHANGED svars
    BY <1>1 DEF ClientStep, Gate, RegisterTask, SendTask, ReadResult, SkipMetrics, LeaveDone,
       StopReading, LeaveCancel, Disconnect
  <1>2. ASSUME Shutdown \/ MainLoop \/ ReportWorker \/ WorkerLoop \/ UNCHANGED vars
        PROVE  UNCHANGED svars
    BY <1>2 DEF Shutdown, MainLoop, ReportWorker, WorkerLoop, vars
  <1>3. ASSUME TaskStep
        PROVE  UNCHANGED svars \/ \E s \in Slots : LaunchSlot(s) \/ CancelRelease(s)
    BY <1>3 DEF TaskStep, LaunchFails, DeferCompletion, RunSlotAction, DeferSlotAction,
       ReportMain, CancelDone, NextResponse
  <1>4. ASSUME UpdateStep
        PROVE  \/ UNCHANGED svars \/ ReleaseSlot
               \/ \E s \in Slots : SendLast(s) \/ CatchOne(s) \/ AbortSlot(s)
    BY <1>4 DEF UpdateStep, UpdateIdle, UpdateActive, Yield, Compute, CatchAll, UpdateDone,
       SendPartial, svars
  <1> QED
    BY <1>1, <1>2, <1>3, <1>4 DEF Next

\* The places of an item after a step, too, are a natural number.
LEMMA PlacesNatNext ==
    ASSUME QTypeOK', NEW CONSTANT x
    PROVE  Places(x)' \in Nat
  <1>1. /\ Occ(queue_tasks', x) \in Nat
        /\ Occ(queue_tasks_deferred', x) \in Nat
        /\ Occ(queue_tasks_unhandled', x) \in Nat
        /\ Held(handM', x) \in Nat /\ Held(handW', x) \in Nat
    BY OccNat DEF QTypeOK, Held
  <1> QED
    BY <1>1 DEF Places

\* A task is pending while it is in a deque or in the hands of a thread.
LEMMA PendingPlaces ==
    ASSUME QTypeOK, NEW t
    PROVE  Pending(t) <=> Places(TaskItem(t)) # 0
  <1> DEFINE x == TaskItem(t)
  <1>1. /\ InDeque(queue_tasks, t) <=> Occ(queue_tasks, x) # 0
        /\ InDeque(queue_tasks_deferred, t) <=> Occ(queue_tasks_deferred, x) # 0
        /\ InDeque(queue_tasks_unhandled, t) <=> Occ(queue_tasks_unhandled, x) # 0
    BY OccNat DEF QTypeOK, InDeque
  <1>2. /\ (handM = x) <=> Held(handM, x) # 0
        /\ (handW = x) <=> Held(handW, x) # 0
    BY DEF Held
  <1>3. /\ Occ(queue_tasks, x) \in Nat /\ Occ(queue_tasks_deferred, x) \in Nat
        /\ Occ(queue_tasks_unhandled, x) \in Nat
        /\ Held(handM, x) \in Nat /\ Held(handW, x) \in Nat
    BY PlacesNat
  <1> HIDE DEF x
  <1>4. Places(x) # 0 <=> \/ Occ(queue_tasks, x) # 0 \/ Occ(queue_tasks_deferred, x) # 0
                          \/ Occ(queue_tasks_unhandled, x) # 0
                          \/ Held(handM, x) # 0 \/ Held(handW, x) # 0
    BY <1>3 DEF Places
  <1> QED
    BY <1>1, <1>2, <1>4 DEF Pending, x

\* The task a callback works on: it is pending, and in no other place.
LEMMA HandTask ==
    ASSUME QInv, NEW hand \in {handM, handW}, hand.type = "task"
    PROVE  \E t \in Tasks : /\ hand = TaskItem(t) /\ hand.id = t
                            /\ Places(TaskItem(t)) = 1
                            /\ client[t] \notin {"new", "gated", "open"}
  <1>1. PICK t \in Tasks : hand = TaskItem(t)
    BY DEF QInv, QTypeOK, Item, TaskItems, TaskItem, CancelItem, NextItem
  <1>2. hand.id = t
    BY <1>1 DEF TaskItem
  <1>3. /\ Occ(queue_tasks, TaskItem(t)) \in Nat /\ Occ(queue_tasks_deferred, TaskItem(t)) \in Nat
        /\ Occ(queue_tasks_unhandled, TaskItem(t)) \in Nat
        /\ Held(handM, TaskItem(t)) \in Nat /\ Held(handW, TaskItem(t)) \in Nat
    BY PlacesNat DEF QInv
  <1>4. Held(handM, TaskItem(t)) = 1 \/ Held(handW, TaskItem(t)) = 1
    BY <1>1 DEF Held
  <1>5. Places(TaskItem(t)) >= 1 /\ Places(TaskItem(t)) \in Nat
    BY <1>3, <1>4 DEF Places
  <1>6. Places(TaskItem(t)) <= IF client[t] \in {"new", "gated", "open"} THEN 0 ELSE 1
    BY DEF QInv, PlacesOK
  <1> QED
    BY <1>1, <1>2, <1>5, <1>6

\* A task that is nowhere, and was posted, does not come back.
LEMMA GoneStaysGone ==
    ASSUME QInv, [QNext]_qvars, NEW t \in Tasks,
           Places(TaskItem(t)) = 0, client[t] \notin {"new", "gated", "open"}
    PROVE  Places(TaskItem(t))' = 0 /\ client'[t] \notin {"new", "gated", "open"}
  <1>1. QTypeOK'
    BY QueueStep DEF QInv
  <1>2. Places(TaskItem(t))' \in Nat
    BY <1>1, PlacesNatNext DEF TaskItem
  <1>3. Places(TaskItem(t))' <= Places(TaskItem(t))
    BY PlacesStep DEF QInv, PostTask
  <1>4. client'[t] \notin {"new", "gated", "open"}
    BY ClientMoves DEF QInv
  <1> QED
    BY <1>2, <1>3, <1>4

-----------------------------------------------------------------------------
(* The slots *)

\* While a slot is being ended, the loop stays where it is.
LEMMA EndingStays ==
    ASSUME EndingOK, ending # NoSlot, [Next]_vars, ~ReleaseSlot
    PROVE  pcM' = pcM /\ raised' = raised
  <1> USE DEF EndingOK, loop, wthread
  <1>1. ASSUME NEW t \in Tasks, ClientStep(t) \/ Disconnect(t) PROVE UNCHANGED <<pcM, raised>>
    BY <1>1 DEF ClientStep, Gate, RegisterTask, SendTask, ReadResult, SkipMetrics, LeaveDone,
       StopReading, LeaveCancel, Disconnect, EnterGate, CheckSleeping, LeaveGate, PostTask,
       PostCancel, Finish, qvars
  <1>2. ASSUME Shutdown \/ MainLoop \/ UNCHANGED vars PROVE UNCHANGED <<pcM, raised>>
    BY <1>2 DEF Shutdown, Terminate, MainLoop, StartLoop, MainDrain, MainRecheck, MainSleep,
       MainIdle, MainWake, MainStop, MainStopNotify, MainJoined, vars, qvars
  <1>3. ASSUME ReportWorker \/ WorkerLoop PROVE UNCHANGED <<pcM, raised>>
    BY <1>3 DEF ReportWorker, WorkerHandled, WorkerLoop, WorkerWait, WorkerDrain, WorkerDecline,
       WorkerCheck, WorkerWake, WorkerFinish, WorkerNotify
  <1>4. ASSUME TaskStep PROVE FALSE
    BY <1>4 DEF TaskStep, LaunchFails, DeferCompletion, RunSlotAction, DeferSlotAction,
       ReportMain, CancelDone, NextResponse, LaunchSlot, CancelRelease, Handling
  <1>5. ASSUME UpdateStep PROVE UNCHANGED <<pcM, raised>>
    BY <1>5 DEF UpdateStep, UpdateIdle, UpdateActive, Yield, Compute, CatchAll, UpdateDone,
       SendPartial, SendLast, CatchOne, AbortSlot, MainAllIdle, MainPostNext, MainSignal,
       MainJoin, MainWorkDone, MainCatch
  <1> QED
    BY <1>1, <1>2, <1>3, <1>4, <1>5 DEF Next

\* An exception is raised at the end of work() and caught by update_slots().
LEMMA RaisedStep ==
    ASSUME RaisedOK, [QNext]_qvars
    PROVE  RaisedOK'
  <1> USE DEF RaisedOK, loop, wthread
  <1>1. ASSUME NEW t \in Tasks, QClient(t) PROVE RaisedOK'
    BY <1>1 DEF QClient, EnterGate, CheckSleeping, LeaveGate, PostTask, PostCancel, Finish
  <1>2. ASSUME Terminate \/ UNCHANGED qvars PROVE RaisedOK'
    BY <1>2 DEF Terminate, qvars
  <1>3. ASSUME \/ StartLoop \/ MainDrain \/ MainDefer \/ MainHandled \/ MainAllIdle
               \/ MainPostNext \/ MainYield \/ MainSignal \/ \E s \in Slots : MainRelease(s)
        PROVE  RaisedOK'
    BY <1>3 DEF StartLoop, MainDrain, MainDefer, MainHandled, MainAllIdle, MainPostNext,
       MainYield, MainSignal, MainRelease
  <1>4. ASSUME \/ MainJoin \/ MainCatch \/ MainUpdateDone \/ \E exc \in BOOLEAN : MainWorkDone(exc)
        PROVE  RaisedOK'
    BY <1>4 DEF MainJoin, MainCatch, MainUpdateDone, MainWorkDone, YieldEnd
  <1>5. ASSUME \/ MainRecheck \/ MainSleep \/ MainIdle \/ MainWake \/ MainStop
               \/ MainStopNotify \/ MainJoined
        PROVE  RaisedOK'
    BY <1>5 DEF MainRecheck, MainSleep, MainIdle, MainWake, MainStop, MainStopNotify, MainJoined
  <1>6. ASSUME QWorker PROVE RaisedOK'
    BY <1>6 DEF QWorker, WorkerWait, WorkerDrain, WorkerDecline, WorkerHandled, WorkerThrow,
       WorkerCheck, WorkerWake, WorkerFinish, WorkerNotify
  <1> QED
    BY <1>1, <1>2, <1>3, <1>4, <1>5, <1>6 DEF QNext, QMain

\* Every step keeps what the slots say.
LEMMA SlotStep ==
    ASSUME QInv, SlotInv, [Next]_vars
    PROVE  QInv' /\ SlotInv'
  <1>1. [QNext]_qvars /\ QInv' /\ RaisedOK'
    BY StepOfQueue, QueueStep, RaisedStep DEF SlotInv
  <1>2. NoTask \notin Tasks
    BY QueueAssumption
  <1>3. \A t \in Tasks : Places(TaskItem(t)) = 0 /\ client[t] \notin {"new", "gated", "open"}
            => Places(TaskItem(t))' = 0 /\ client'[t] \notin {"new", "gated", "open"}
    BY <1>1, GoneStaysGone
  <1>4. ASSUME slot' \in [Slots -> Tasks \cup {NoTask}],
               \A s \in Slots : slot'[s] \in {slot[s], NoTask}
        PROVE  SlotsOK'
    <2>1. ASSUME NEW t \in Tasks, NEW s \in Slots, slot'[s] = t
          PROVE  /\ Places(TaskItem(t))' = 0 /\ client'[t] \notin {"new", "gated", "open"}
                 /\ \A z \in Slots : slot'[z] = t => z = s
      <3>1. slot[s] = t /\ \A z \in Slots : slot'[z] = t => slot[z] = t
        BY <1>2, <1>4, <2>1
      <3>2. /\ Places(TaskItem(t)) = 0 /\ client[t] \notin {"new", "gated", "open"}
            /\ \A z \in Slots : slot[z] = t => z = s
        BY <3>1 DEF SlotInv, SlotsOK
      <3> QED
        BY <1>3, <3>1, <3>2
    <2> QED
      BY <2>1 DEF SlotsOK
  <1>5. CASE UNCHANGED svars
    <2>1. SlotTypeOK' /\ SlotsOK'
      BY <1>4, <1>5 DEF SlotInv, SlotTypeOK, svars
    <2>2. EndingOK'
      <3>1. CASE ending = NoSlot
        BY <1>5, <3>1 DEF EndingOK, svars
      <3>2. CASE ending # NoSlot
        <4>1. ~ReleaseSlot
          BY <1>5, <3>2 DEF ReleaseSlot, svars
        <4>2. pcM' = pcM /\ raised' = raised
          BY <3>2, <4>1, EndingStays DEF SlotInv
        <4> QED
          BY <1>5, <4>2 DEF SlotInv, EndingOK, IsIdle, svars
      <3> QED
        BY <3>1, <3>2
    <2> QED
      BY <1>1, <2>1, <2>2 DEF SlotInv
  <1>6. CASE ReleaseSlot
    <2>1. slot' = [slot EXCEPT ![ending] = NoTask] /\ ending' = NoSlot
      BY <1>6 DEF ReleaseSlot
    <2>2. SlotTypeOK' /\ SlotsOK'
      BY <1>4, <2>1 DEF SlotInv, SlotTypeOK
    <2> QED
      BY <1>1, <2>1, <2>2 DEF SlotInv, EndingOK
  <1>7. ASSUME NEW s \in Slots, CancelRelease(s) PROVE SlotInv'
    <2>1. /\ slot' = [slot EXCEPT ![s] = NoTask] /\ ending' = ending
          /\ pcM = "callback"
      BY <1>7 DEF CancelRelease
    <2>2. SlotTypeOK' /\ SlotsOK'
      BY <1>4, <2>1 DEF SlotInv, SlotTypeOK
    <2> QED
      BY <1>1, <2>1, <2>2 DEF SlotInv, EndingOK
  <1>8. ASSUME NEW s \in Slots, SendLast(s) \/ CatchOne(s) \/ AbortSlot(s) PROVE SlotInv'
    <2>1. slot' = slot /\ ending' = s /\ slot[s] # NoTask
      BY <1>8 DEF SendLast, CatchOne, AbortSlot, IsIdle
    <2>2. pcM' \in {"active", "abort"} /\ ~raised'
      <3>1. CASE SendLast(s)
        BY <3>1 DEF SendLast, qvars, loop
      <3>2. CASE CatchOne(s)
        BY <3>2 DEF CatchOne, MainCatch
      <3>3. CASE AbortSlot(s)
        <4>1. /\ pcM = "abort" /\ pcM' = pcM /\ raised' = raised
          BY <3>3 DEF AbortSlot, qvars, loop
        <4> QED
          BY <4>1 DEF SlotInv, RaisedOK
      <3> QED
        BY <1>8, <3>1, <3>2, <3>3
    <2>3. SlotTypeOK' /\ SlotsOK'
      BY <1>4, <2>1 DEF SlotInv, SlotTypeOK
    <2> QED
      BY <1>1, <2>1, <2>2, <2>3 DEF SlotInv, EndingOK, IsIdle
  <1>9. ASSUME NEW s \in Slots, LaunchSlot(s) PROVE SlotInv'
    <2>1. /\ MainHandled /\ pcM = "callback" /\ handM.type = "task"
          /\ slot' = [slot EXCEPT ![s] = handM.id] /\ ending' = ending
      BY <1>9 DEF LaunchSlot, Handling
    <2>2. PICK t \in Tasks : /\ handM = TaskItem(t) /\ handM.id = t
                             /\ Places(TaskItem(t)) = 1
                             /\ client[t] \notin {"new", "gated", "open"}
      BY <2>1, HandTask
    <2>3. Places(TaskItem(t))' = 0 /\ client'[t] \notin {"new", "gated", "open"}
      <3>1. Places(TaskItem(t))' = Places(TaskItem(t)) - Held(handM, TaskItem(t))
        BY <2>1, PlacesHandled, ItemsDiffer DEF QInv
      <3>2. Held(handM, TaskItem(t)) = 1
        BY <2>2 DEF Held
      <3>3. client' = client
        BY <2>1 DEF MainHandled
      <3> QED
        BY <2>2, <3>1, <3>2, <3>3
    <2>4. \A z \in Slots : slot[z] # t
      BY <2>2 DEF SlotInv, SlotsOK
    <2>5. \A z \in Slots : slot'[z] = IF z = s THEN t ELSE slot[z]
      BY <2>1, <2>2 DEF SlotInv, SlotTypeOK
    <2>6. SlotsOK'
      <3>1. ASSUME NEW u \in Tasks, NEW y \in Slots, slot'[y] = u
            PROVE  /\ Places(TaskItem(u))' = 0 /\ client'[u] \notin {"new", "gated", "open"}
                   /\ \A z \in Slots : slot'[z] = u => z = y
        <4>1. CASE u = t
          BY <2>3, <2>4, <2>5, <3>1, <4>1
        <4>2. CASE u # t
          <5>1. slot[y] = u /\ \A z \in Slots : slot'[z] = u => slot[z] = u
            BY <2>5, <3>1, <4>2
          <5>2. /\ Places(TaskItem(u)) = 0 /\ client[u] \notin {"new", "gated", "open"}
                /\ \A z \in Slots : slot[z] = u => z = y
            BY <5>1 DEF SlotInv, SlotsOK
          <5> QED
            BY <1>3, <5>1, <5>2
        <4> QED
          BY <4>1, <4>2
      <3> QED
        BY <3>1 DEF SlotsOK
    <2>7. SlotTypeOK'
      BY <2>1, <2>2 DEF SlotInv, SlotTypeOK
    <2>8. EndingOK'
      BY <2>1 DEF SlotInv, EndingOK
    <2> QED
      BY <1>1, <2>6, <2>7, <2>8 DEF SlotInv
  <1> QED
    BY <1>1, <1>5, <1>6, <1>7, <1>8, <1>9, SlotMoves DEF SlotInv

\* Spec keeps the queue and the slots in order.
LEMMA QueueAndSlots == Spec => [](QInv /\ SlotInv)
  <1>1. Init => QInv /\ SlotInv
    <2> SUFFICES ASSUME Init PROVE QInv /\ SlotInv
      OBVIOUS
    <2>1. QInit /\ slot = [s \in Slots |-> NoTask] /\ ending = NoSlot
      BY DEF Init
    <2>2. QInv
      BY <2>1, QueueStarts DEF QInv
    <2>3. NoTask \notin Tasks /\ raised = FALSE
      BY <2>1, QueueAssumption DEF QInit
    <2>4. SlotInv
      BY <2>1, <2>3 DEF SlotInv, SlotTypeOK, RaisedOK, EndingOK, SlotsOK
    <2> QED
      BY <2>2, <2>4
  <1>2. QInv /\ SlotInv /\ [Next]_vars => QInv' /\ SlotInv'
    BY SlotStep
  <1> QED
    BY <1>1, <1>2, PTL DEF Spec

\* A task is launched once: it has one slot at most, and is not queued at the same
\* time (process_single_task, pop_deferred_task, yield_to_queue).
THEOREM TasksLaunchedOnce == Spec => []LaunchedOnce
  <1>1. QInv /\ SlotInv => LaunchedOnce
    <2> SUFFICES ASSUME QInv, SlotInv, NEW t \in Tasks
                 PROVE  /\ Running(t) => ~Pending(t)
                        /\ \A s, z \in Slots : (slot[s] = t /\ slot[z] = t) => s = z
      BY DEF LaunchedOnce
    <2>1. t # NoTask
      BY QueueAssumption
    <2>2. Running(t) => Places(TaskItem(t)) = 0
      BY <2>1 DEF Running, SlotInv, SlotsOK
    <2>3. Pending(t) <=> Places(TaskItem(t)) # 0
      BY PendingPlaces DEF QInv
    <2> QED
      BY <2>1, <2>2, <2>3 DEF SlotInv, SlotsOK
  <1> QED
    BY <1>1, QueueAndSlots, PTL

-----------------------------------------------------------------------------
(* A busy slot keeps the loop going *)

\* update_slots() was entered with a busy slot and has not been left for the wait.
Updating == pcM \in {"active", "abort", "signal", "work", "join", "recheck"}

\* The NEXT_RESPONSE is queued, declined by the worker, or in the worker's hand.
NextThere ==
    \/ Occ(queue_tasks, NextItem) # 0
    \/ Occ(queue_tasks_unhandled, NextItem) # 0
    \/ pcW = "callback" /\ handW = NextItem

\* With a busy slot the loop neither waits nor sleeps, and finds its NEXT_RESPONSE.
NextOK ==
    ~AllIdle => /\ pcM \notin {"init", "idle", "asleep"} /\ ~sleeping
                /\ Updating => NextThere

\* What the queue keeps of its NEXT_RESPONSE, whoever works on the deques.
LEMMA NextKept ==
    ASSUME QInv, QTypeOK', Updating, Updating', NextThere, [QNext]_qvars
    PROVE  NextThere'
  <1> USE DEF QInv
  <1>1. /\ Occ(queue_tasks, NextItem) \in Nat /\ Occ(queue_tasks_unhandled, NextItem) \in Nat
        /\ NextItem \in Item
    BY PlacesNat, NextItemType
  <1>2. ASSUME UNCHANGED <<queue_tasks, queue_tasks_unhandled, pcW, handW>> PROVE NextThere'
    BY <1>2 DEF NextThere
  <1>3. ASSUME NEW t \in Tasks, PostTask(t) PROVE NextThere'
    <2>1. /\ Occ(<<TaskItem(t)>> \o queue_tasks, NextItem)
             = Held(TaskItem(t), NextItem) + Occ(queue_tasks, NextItem)
          /\ Occ(Append(queue_tasks, TaskItem(t)), NextItem)
             = Occ(queue_tasks, NextItem) + Held(TaskItem(t), NextItem)
      BY ItemTypes, OccPush DEF QTypeOK
    <2>2. Held(TaskItem(t), NextItem) = 0
      BY ItemsDiffer DEF Held
    <2>3. Occ(queue_tasks', NextItem) = Occ(queue_tasks, NextItem)
      BY <1>1, <1>3, <2>1, <2>2 DEF PostTask
    <2> QED
      BY <1>3, <2>3 DEF NextThere, PostTask, wthread
  <1>4. ASSUME NEW t \in Tasks, PostCancel(t) PROVE NextThere'
    <2>1. /\ queue_tasks' = <<CancelItem(t)>> \o Erase(queue_tasks, t)
          /\ queue_tasks_unhandled' = Erase(queue_tasks_unhandled, t)
          /\ UNCHANGED <<pcW, handW>>
      BY <1>4 DEF PostCancel, CleanupPendingTask, wthread
    <2>2. /\ Occ(Erase(queue_tasks, t), NextItem) = Occ(queue_tasks, NextItem)
          /\ Occ(Erase(queue_tasks_unhandled, t), NextItem) = Occ(queue_tasks_unhandled, NextItem)
      BY OccErase, ItemsDiffer DEF QTypeOK
    <2>3. Occ(queue_tasks', NextItem)
          = Held(CancelItem(t), NextItem) + Occ(Erase(queue_tasks, t), NextItem)
      BY <2>1, EraseType, ItemTypes, OccPush DEF QTypeOK
    <2>4. Held(CancelItem(t), NextItem) = 0
      BY ItemsDiffer DEF Held
    <2>5. Occ(queue_tasks', NextItem) = Occ(queue_tasks, NextItem)
      BY <1>1, <2>2, <2>3, <2>4
    <2> QED
      BY <2>1, <2>2, <2>5 DEF NextThere
  <1>5. ASSUME NEW s \in Slots, MainRelease(s) PROVE NextThere'
    <2>1. UNCHANGED <<queue_tasks_unhandled, pcW, handW>>
      BY <1>5 DEF MainRelease, PopDeferredTask, queues, wthread
    <2>2. CASE queue_tasks_deferred = <<>>
      BY <1>2, <1>5, <2>1, <2>2 DEF MainRelease, PopDeferredTask, queues
    <2>3. CASE queue_tasks_deferred # <<>>
      <3> DEFINE x == queue_tasks_deferred[DeferredPick(s)]
      <3>1. x \in Item
        BY <2>3, PickInDeferred, ElementOfSeq DEF QTypeOK, Item
      <3>2. queue_tasks' = <<x>> \o queue_tasks
        BY <1>5, <2>3 DEF MainRelease, PopDeferredTask
      <3> HIDE DEF x
      <3>3. Occ(queue_tasks', NextItem) = Held(x, NextItem) + Occ(queue_tasks, NextItem)
        BY <3>1, <3>2, OccPush DEF QTypeOK
      <3>4. Held(x, NextItem) \in Nat
        BY DEF Held
      <3>5. Occ(queue_tasks, NextItem) # 0 => Occ(queue_tasks', NextItem) # 0
        BY <1>1, <3>3, <3>4
      <3> QED
        BY <2>1, <3>5 DEF NextThere
    <2> QED
      BY <2>2, <2>3
  <1>6. ASSUME NEW exc, YieldEnd(exc), UNCHANGED <<pcW, handW>>, ~worker.busy PROVE NextThere'
    <2>1. pcW # "callback"
      BY <1>6 DEF Handshake, FlagsOK, WorkerActive
    <2>2. Occ(queue_tasks', NextItem)
          = Occ(queue_tasks_unhandled, NextItem) + Occ(queue_tasks, NextItem)
      BY <1>6, OccConcat DEF QTypeOK, YieldEnd
    <2>3. Occ(queue_tasks', NextItem) # 0
      BY <1>1, <2>1, <2>2 DEF NextThere
    <2> QED
      BY <2>3 DEF NextThere
  <1>7. ASSUME NEW exc \in BOOLEAN, MainWorkDone(exc) PROVE NextThere'
    BY <1>2, <1>6, <1>7 DEF MainWorkDone, queues
  <1>8. ASSUME MainJoin PROVE NextThere'
    BY <1>2, <1>6, <1>8 DEF MainJoin, queues
  <1>9. ASSUME WorkerDrain PROVE NextThere'
    <2>1. pcW = "drain" /\ UNCHANGED queue_tasks_unhandled
      BY <1>9 DEF WorkerDrain
    <2>2. CASE UNCHANGED queue_tasks
      BY <2>1, <2>2 DEF NextThere
    <2>3. CASE /\ queue_tasks # <<>> /\ pcW' = "callback"
               /\ handW' = Head(queue_tasks) /\ queue_tasks' = Tail(queue_tasks)
      <3>1. Occ(queue_tasks, NextItem) = Held(handW', NextItem) + Occ(queue_tasks', NextItem)
        BY <2>3, OccPop DEF QTypeOK
      <3>2. Occ(queue_tasks', NextItem) \in Nat
        BY OccNat DEF QTypeOK
      <3>3. Occ(queue_tasks, NextItem) # 0 => \/ handW' = NextItem
                                              \/ Occ(queue_tasks', NextItem) # 0
        BY <3>1, <3>2 DEF Held
      <3> QED
        BY <2>1, <2>3, <3>3 DEF NextThere
    <2> QED
      BY <1>9, <2>2, <2>3 DEF WorkerDrain
  <1>10. ASSUME WorkerDecline PROVE NextThere'
    <2>1. /\ queue_tasks_unhandled' = Append(queue_tasks_unhandled, handW)
          /\ UNCHANGED queue_tasks
      BY <1>10 DEF WorkerDecline
    <2>2. Occ(queue_tasks_unhandled', NextItem)
          = Occ(queue_tasks_unhandled, NextItem) + Held(handW, NextItem)
      BY <2>1, OccPush DEF QTypeOK
    <2>3. /\ Occ(queue_tasks_unhandled, NextItem) # 0 => Occ(queue_tasks_unhandled', NextItem) # 0
          /\ handW = NextItem => Occ(queue_tasks_unhandled', NextItem) # 0
      BY <1>1, <2>2 DEF Held
    <2> QED
      BY <2>1, <2>3 DEF NextThere
  <1>11. ASSUME WorkerHandled \/ WorkerThrow PROVE NextThere'
    <2>1. handW.type = "task" /\ UNCHANGED <<queue_tasks, queue_tasks_unhandled>>
      BY <1>11 DEF WorkerHandled, WorkerThrow, RunsWhileYielding, queues
    <2>2. handW # NextItem
      BY <2>1 DEF NextItem
    <2> QED
      BY <2>1, <2>2 DEF NextThere
  <1>12. ASSUME WorkerWait \/ WorkerCheck \/ WorkerWake \/ WorkerFinish \/ WorkerNotify
         PROVE  NextThere'
    <2>1. UNCHANGED <<queue_tasks, queue_tasks_unhandled>> /\ pcW # "callback"
      BY <1>12 DEF WorkerWait, WorkerCheck, WorkerWake, WorkerFinish, WorkerNotify, queues
    <2> QED
      BY <2>1 DEF NextThere
  <1>13. ASSUME \/ \E t \in Tasks : EnterGate(t) \/ CheckSleeping(t) \/ LeaveGate(t) \/ Finish(t)
                \/ Terminate \/ UNCHANGED qvars
         PROVE  NextThere'
    BY <1>2, <1>13 DEF EnterGate, CheckSleeping, LeaveGate, Finish, Terminate, qvars, queues, wthread
  <1>14. ASSUME StartLoop \/ MainDrain \/ MainDefer \/ MainHandled \/ MainAllIdle \/ MainPostNext
         PROVE  FALSE
    BY <1>14 DEF Updating, StartLoop, MainDrain, MainDefer, MainHandled, MainAllIdle, MainPostNext
  <1>15. ASSUME \/ MainYield \/ MainSignal \/ MainCatch \/ MainUpdateDone \/ MainRecheck
                \/ MainSleep \/ MainIdle \/ MainWake \/ MainStop \/ MainStopNotify \/ MainJoined
         PROVE  NextThere'
    BY <1>2, <1>15 DEF MainYield, MainSignal, MainCatch, MainUpdateDone, MainRecheck, MainSleep,
       MainIdle, MainWake, MainStop, MainStopNotify, MainJoined, queues, wthread
  <1> QED
    BY <1>3, <1>4, <1>5, <1>7, <1>8, <1>9, <1>10, <1>11, <1>12, <1>13, <1>14, <1>15
       DEF QNext, QClient, QMain, QWorker

\* At the end of update_slots() it is in the queue: the yields are over.
LEMMA NextQueued ==
    ASSUME QInv, pcM = "recheck", NextThere
    PROVE  queue_tasks # <<>>
  <1>1. queue_tasks_unhandled = <<>> /\ pcW # "callback"
    BY DEF QInv, Handshake, FlagsOK, InYield, WorkerActive
  <1>2. Occ(<<>>, NextItem) = 0
    BY OccSmall
  <1> QED
    BY <1>1, <1>2 DEF NextThere

\* How the loop gets to the points that NextOK speaks of.
LEMMA WhereLoopGoes ==
    ASSUME [QNext]_qvars
    PROVE  /\ sleeping' => sleeping \/ MainSleep
           /\ pcM' = "asleep" => pcM = "asleep" \/ MainSleep
           /\ pcM' = "init" => pcM = "init"
           /\ pcM' = "idle" => pcM = "idle" \/ MainRecheck
           /\ Updating' => Updating \/ pcM = "idle" \/ MainAllIdle \/ MainPostNext
  <1> USE DEF Updating, loop, wthread, flags
  <1>1. ASSUME NEW t \in Tasks, QClient(t) PROVE UNCHANGED <<pcM, sleeping>>
    BY <1>1 DEF QClient, EnterGate, CheckSleeping, LeaveGate, PostTask, PostCancel, Finish
  <1>2. ASSUME Terminate \/ QWorker \/ UNCHANGED qvars PROVE UNCHANGED <<pcM, sleeping>>
    BY <1>2 DEF Terminate, qvars, QWorker, WorkerWait, WorkerDrain, WorkerDecline, WorkerHandled,
       WorkerThrow, WorkerCheck, WorkerWake, WorkerFinish, WorkerNotify
  <1>3. ASSUME \/ StartLoop \/ MainDrain \/ MainDefer \/ MainHandled \/ MainAllIdle
               \/ MainPostNext \/ MainYield \/ MainSignal \/ \E s \in Slots : MainRelease(s)
        PROVE  /\ sleeping' = sleeping
               /\ pcM' = pcM \/ pcM' \notin {"init", "asleep", "idle"}
               /\ Updating' => Updating \/ MainAllIdle \/ MainPostNext
    BY <1>3 DEF StartLoop, MainDrain, MainDefer, MainHandled, MainAllIdle, MainPostNext,
       MainYield, MainSignal, MainRelease
  <1>4. ASSUME \/ MainJoin \/ MainCatch \/ MainUpdateDone \/ \E exc \in BOOLEAN : MainWorkDone(exc)
        PROVE  /\ sleeping' = sleeping /\ Updating
               /\ pcM' = pcM \/ pcM' \notin {"init", "asleep", "idle"}
    BY <1>4 DEF MainJoin, MainCatch, MainUpdateDone, MainWorkDone, YieldEnd
  <1>5. ASSUME \/ MainRecheck \/ MainIdle \/ MainWake \/ MainStop
               \/ MainStopNotify \/ MainJoined
        PROVE  /\ sleeping' => sleeping
               /\ pcM' = pcM \/ pcM' \notin {"init", "asleep"}
               /\ pcM' = "idle" => pcM = "idle" \/ MainRecheck
               /\ Updating' => pcM = "idle"
    BY <1>5 DEF MainRecheck, MainIdle, MainWake, MainStop, MainStopNotify, MainJoined
  <1>6. ASSUME MainSleep PROVE pcM' = "asleep"
    BY <1>6 DEF MainSleep
  <1>7. CASE (\E t \in Tasks : QClient(t)) \/ Terminate \/ QWorker \/ UNCHANGED qvars
    BY <1>1, <1>2, <1>7
  <1>8. CASE QMain
    <2> HIDE DEF Updating
    <2> QED
      BY <1>3, <1>4, <1>5, <1>6, <1>8 DEF QMain, Updating
  <1> QED
    BY <1>7, <1>8 DEF QNext

\* update_slots() goes straight to the wait only when every slot is idle.
LEMMA OnlyIdleSkips ==
    ASSUME pcM = "update", pcM' = "recheck", [Next]_vars
    PROVE  UpdateIdle
  <1> USE DEF loop, wthread
  <1>1. ASSUME NEW t \in Tasks, ClientStep(t) \/ Disconnect(t) PROVE pcM' = pcM
    BY <1>1 DEF ClientStep, Gate, RegisterTask, SendTask, ReadResult, SkipMetrics, LeaveDone,
       StopReading, LeaveCancel, Disconnect, EnterGate, CheckSleeping, LeaveGate, PostTask,
       PostCancel, Finish, qvars
  <1>2. ASSUME Shutdown \/ MainLoop \/ UNCHANGED vars PROVE FALSE
    BY <1>2 DEF Shutdown, Terminate, MainLoop, StartLoop, MainDrain, MainRecheck, MainSleep,
       MainIdle, MainWake, MainStop, MainStopNotify, MainJoined, vars, qvars
  <1>3. ASSUME ReportWorker \/ WorkerLoop PROVE pcM' = pcM
    BY <1>3 DEF ReportWorker, WorkerHandled, WorkerLoop, WorkerWait, WorkerDrain, WorkerDecline,
       WorkerCheck, WorkerWake, WorkerFinish, WorkerNotify
  <1>4. ASSUME TaskStep PROVE FALSE
    BY <1>4 DEF TaskStep, LaunchFails, DeferCompletion, RunSlotAction, DeferSlotAction,
       ReportMain, CancelDone, NextResponse, LaunchSlot, CancelRelease, Handling, MainHandled,
       MainDefer
  <1>5. ASSUME UpdateStep, ~UpdateIdle PROVE FALSE
    BY <1>5 DEF UpdateStep, UpdateActive, Yield, Compute, ReleaseSlot, CatchAll, UpdateDone,
       SendPartial, SendLast, CatchOne, AbortSlot, MainPostNext, MainYield, MainSignal,
       MainJoin, MainWorkDone, MainCatch, MainRelease, MainUpdateDone, qvars
  <1> QED
    BY <1>1, <1>2, <1>3, <1>4, <1>5 DEF Next

\* Every step keeps the loop going while a slot is busy.
LEMMA NextStep ==
    ASSUME QInv, SlotInv, NextOK, [Next]_vars
    PROVE  NextOK'
  <1>1. [QNext]_qvars /\ QInv' /\ QTypeOK'
    BY StepOfQueue, SlotStep DEF SlotInv, QInv
  <1>2. SUFFICES ASSUME ~AllIdle'
                 PROVE  /\ pcM' \notin {"init", "idle", "asleep"} /\ ~sleeping'
                        /\ Updating' => NextThere'
    BY DEF NextOK
  <1>3. CASE AllIdle
    <2>1. PICK s \in Slots : LaunchSlot(s)
      <3>2. UNCHANGED svars => AllIdle'
        BY <1>3 DEF svars, AllIdle, IsIdle
      <3>3. ReleaseSlot => AllIdle'
        BY <1>3 DEF ReleaseSlot, AllIdle, IsIdle, SlotInv, SlotTypeOK
      <3>4. ASSUME NEW s \in Slots, CancelRelease(s) PROVE AllIdle'
        BY <1>3, <3>4 DEF CancelRelease, AllIdle, IsIdle, SlotInv, SlotTypeOK
      <3>5. ASSUME NEW s \in Slots, SendLast(s) \/ CatchOne(s) \/ AbortSlot(s) PROVE AllIdle'
        BY <1>3, <3>5 DEF SendLast, CatchOne, AbortSlot, AllIdle, IsIdle
      <3> QED
        BY <1>2, <3>2, <3>3, <3>4, <3>5, SlotMoves
    <2>2. pcM = "callback" /\ pcM' = "drain" /\ sleeping' = sleeping
      BY <2>1 DEF LaunchSlot, Handling, MainHandled, flags
    <2>3. ~sleeping
      BY <2>2 DEF QInv, Handshake, BlockedOK
    <2> QED
      BY <2>2, <2>3 DEF Updating
  <1>4. CASE ~AllIdle
    <2>1. /\ pcM \notin {"init", "idle", "asleep"} /\ ~sleeping
          /\ Updating => NextThere
      BY <1>4 DEF NextOK
    <2>2. ~MainSleep /\ ~(MainRecheck /\ pcM' = "idle")
      <3>1. pcM = "recheck" => queue_tasks # <<>>
        BY <2>1, NextQueued DEF Updating
      <3> QED
        BY <3>1 DEF MainSleep, MainRecheck
    <2>3. pcM' \notin {"init", "idle", "asleep"} /\ ~sleeping'
      BY <1>1, <2>1, <2>2, WhereLoopGoes
    <2>4. ASSUME Updating' PROVE NextThere'
      <3>1. CASE Updating
        BY <1>1, <2>1, <2>4, <3>1, NextKept
      <3>2. CASE MainPostNext
        <4>1. queue_tasks' = Append(queue_tasks, NextItem)
          BY <3>2 DEF MainPostNext
        <4>2. Occ(queue_tasks', NextItem) = Occ(queue_tasks, NextItem) + Held(NextItem, NextItem)
          BY <4>1, NextItemType, OccPush DEF QInv, QTypeOK
        <4>3. Occ(queue_tasks, NextItem) \in Nat /\ Held(NextItem, NextItem) = 1
          BY PlacesNat DEF QInv, Held
        <4>4. Occ(queue_tasks', NextItem) # 0
          BY <4>2, <4>3
        <4> QED
          BY <4>4 DEF NextThere
      <3>3. CASE MainAllIdle
        <4>1. pcM = "update" /\ pcM' = "recheck" /\ queue_tasks' = queue_tasks
          BY <3>3 DEF MainAllIdle, queues
        <4>2. ~UpdateIdle
          BY <1>4 DEF UpdateIdle
        <4> QED
          BY <4>1, <4>2, OnlyIdleSkips
      <3> QED
        BY <1>1, <2>1, <2>4, <3>1, <3>2, <3>3, WhereLoopGoes
    <2> QED
      BY <2>3, <2>4
  <1> QED
    BY <1>3, <1>4

\* Spec keeps the loop going while a slot is busy.
LEMMA NextIsThere == Spec => [](QInv /\ SlotInv /\ NextOK)
  <1>1. Init => NextOK
    BY DEF Init, NextOK, AllIdle, IsIdle
  <1>2. QInv /\ SlotInv /\ NextOK /\ [Next]_vars => NextOK'
    BY NextStep
  <1> QED
    BY <1>1, <1>2, QueueAndSlots, PTL DEF Spec

\* The model is unloaded only when no slot is processing: an active slot leaves a
\* NEXT_RESPONSE in the queue, through every yield, so start_loop() does not sleep
\* (handle_sleeping_state destroys the contexts).
THEOREM SleepsOnlyWhenIdle == Spec => []SleepOnlyWhenIdle
  <1>1. NextOK => SleepOnlyWhenIdle
    BY DEF NextOK, SleepOnlyWhenIdle
  <1> QED
    BY <1>1, NextIsThere, PTL

-----------------------------------------------------------------------------
(* The HTTP threads *)

ReaderTypeOK == rpc \in [Tasks -> R!ReaderPcs] /\ DOMAIN received = Tasks

\* How far the reader of a task is, how far its client is, and where the task is.
ReadersOK ==
    \A t \in Tasks :
        /\ rpc[t] = "new" => /\ client[t] \in {"new", "gated", "open", "done"}
                             /\ Places(TaskItem(t)) = 0
                             /\ \A s \in Slots : slot[s] # t
        /\ rpc[t] = "registered" => client[t] = "open"
        /\ rpc[t] \in {"reading", "stopping", "purging", "posting"} => client[t] = "posted"
        /\ rpc[t] = "left" => client[t] \in {"done", "cancelled"}
        /\ rpc[t] \in {"purging", "posting"} => R!HasNext(t)

\* Only a reader that left before its last result has a CANCEL on its way.
CancelsOK ==
    \A t \in Tasks : Places(CancelItem(t)) # 0 => rpc[t] = "left" /\ R!HasNext(t)

\* Once started, the loop runs until terminate().
StopOK == ~running => stopped \/ pcM = "init"

ReaderInv == ReaderTypeOK /\ ReadersOK /\ CancelsOK /\ StopOK

\* The server itself does not touch the readers.
LEMMA ServerLeavesReaders ==
    ASSUME Shutdown \/ TaskStep \/ UpdateStep \/ MainLoop \/ ReportWorker \/ WorkerLoop
           \/ UNCHANGED vars
    PROVE  UNCHANGED <<readers, client>>
  <1> USE DEF readers, rvars, qvars
  <1>1. ASSUME Shutdown \/ MainLoop \/ UNCHANGED vars PROVE UNCHANGED <<readers, client>>
    BY <1>1 DEF Shutdown, Terminate, MainLoop, StartLoop, MainDrain, MainRecheck, MainSleep,
       MainIdle, MainWake, MainStop, MainStopNotify, MainJoined, vars
  <1>2. ASSUME ReportWorker \/ WorkerLoop PROVE UNCHANGED <<readers, client>>
    BY <1>2 DEF ReportWorker, WorkerHandled, WorkerLoop, WorkerWait, WorkerDrain, WorkerDecline,
       WorkerCheck, WorkerWake, WorkerFinish, WorkerNotify
  <1>3. ASSUME TaskStep PROVE UNCHANGED <<readers, client>>
    BY <1>3 DEF TaskStep, LaunchFails, DeferCompletion, RunSlotAction, DeferSlotAction,
       ReportMain, CancelDone, NextResponse, LaunchSlot, CancelRelease, MainHandled, MainDefer,
       MainRelease
  <1>4. ASSUME UpdateStep PROVE UNCHANGED <<readers, client>>
    BY <1>4 DEF UpdateStep, UpdateIdle, UpdateActive, Yield, Compute, ReleaseSlot, CatchAll,
       UpdateDone, SendPartial, SendLast, CatchOne, AbortSlot, MainAllIdle, MainPostNext,
       MainYield, MainSignal, MainJoin, MainWorkDone, MainCatch, MainRelease, MainUpdateDone
  <1> QED
    BY <1>1, <1>2, <1>3, <1>4

\* An HTTP thread touches its own reader and client only.
LEMMA OthersStay ==
    ASSUME QTypeOK, ReaderTypeOK, NEW u \in Tasks, ClientStep(u) \/ Disconnect(u),
           NEW t \in Tasks, t # u
    PROVE  client'[t] = client[t] /\ rpc'[t] = rpc[t] /\ received'[t] = received[t]
  <1> USE DEF QTypeOK, ReaderTypeOK, rvars, qvars
  <1>1. client'[t] = client[t]
    BY DEF ClientStep, Gate, RegisterTask, SendTask, ReadResult, SkipMetrics, LeaveDone,
       StopReading, LeaveCancel, Disconnect, EnterGate, CheckSleeping, LeaveGate, PostTask,
       PostCancel, Finish
  <1>2. CASE Gate(u)
    BY <1>1, <1>2 DEF Gate
  <1>3. CASE \/ RegisterTask(u) \/ SendTask(u) \/ LeaveDone(u) \/ StopReading(u)
             \/ LeaveCancel(u) \/ SkipMetrics(u) \/ Disconnect(u)
    BY <1>1, <1>3 DEF RegisterTask, SendTask, LeaveDone, StopReading, LeaveCancel, SkipMetrics,
       Disconnect, R!Register, R!Posted, R!StopRemove, R!StopPurge, R!StopPost, R!GiveUp
  <1>4. CASE ReadResult(u)
    <2>1. CASE R!ShuttingDown(u)
      BY <1>1, <2>1 DEF R!ShuttingDown
    <2>2. CASE R!Receive(u)
      <3>1. /\ \E rcv : received' = [received EXCEPT ![u] = rcv]
            /\ \E pc : rpc' = [rpc EXCEPT ![u] = pc]
        BY <2>2 DEF R!Receive
      <3> QED
        BY <1>1, <3>1
    <2> QED
      BY <1>4, <2>1, <2>2 DEF ReadResult
  <1> QED
    BY <1>1, <1>2, <1>3, <1>4 DEF ClientStep

\* A slot holds a task that it held before, or one that was pending.
LEMMA SlotOrigin ==
    ASSUME QInv, SlotInv, [Next]_vars, NEW s \in Slots, NEW t \in Tasks, slot'[s] = t
    PROVE  slot[s] = t \/ Places(TaskItem(t)) # 0
  <1>1. t # NoTask
    BY QueueAssumption
  <1>2. CASE \E z \in Slots : LaunchSlot(z)
    <2>1. PICK z \in Slots : LaunchSlot(z)
      BY <1>2
    <2>2. handM.type = "task" /\ slot' = [slot EXCEPT ![z] = handM.id]
      BY <2>1 DEF LaunchSlot, Handling
    <2>3. PICK u \in Tasks : handM.id = u /\ Places(TaskItem(u)) = 1
      BY <2>2, HandTask
    <2> QED
      BY <2>2, <2>3 DEF SlotInv, SlotTypeOK
  <1>3. CASE UNCHANGED svars
    BY <1>3 DEF svars
  <1>4. CASE ReleaseSlot
    BY <1>1, <1>4 DEF ReleaseSlot, SlotInv, SlotTypeOK
  <1>5. ASSUME NEW z \in Slots, CancelRelease(z) \/ SendLast(z) \/ CatchOne(z) \/ AbortSlot(z)
        PROVE  slot[s] = t
    BY <1>1, <1>5 DEF CancelRelease, SendLast, CatchOne, AbortSlot, SlotInv, SlotTypeOK
  <1> QED
    BY <1>2, <1>3, <1>4, <1>5, SlotMoves

\* No step but stop() adds a place of a CANCEL.
LEMMA CancelPlaces ==
    ASSUME QInv, [QNext]_qvars, NEW t \in Tasks, ~PostCancel(t)
    PROVE  Places(CancelItem(t))' <= Places(CancelItem(t))
  <1> DEFINE x == CancelItem(t)
  <1>1. /\ QTypeOK' /\ x # NextItem /\ \A u : TaskItem(u) # x
        /\ \A u : CancelItem(u) = x => u = t
    BY QueueStep, ItemsDiffer DEF QInv
  <1>2. Places(x) \in Nat /\ Held(handM, x) \in Nat /\ Held(handW, x) \in Nat
    BY PlacesNat DEF QInv
  <1> HIDE DEF x
  <1>3. ASSUME NEW u \in Tasks, PostTask(u) PROVE Places(x)' <= Places(x)
    <2>1. Places(x)' = Places(x) + Held(TaskItem(u), x)
      BY <1>3, PlacesPost DEF QInv
    <2>2. Held(TaskItem(u), x) = 0
      BY <1>1 DEF Held
    <2> QED
      BY <1>2, <2>1, <2>2
  <1>4. ASSUME NEW u \in Tasks, PostCancel(u) PROVE Places(x)' <= Places(x)
    <2>1. x \notin {TaskItem(u), CancelItem(u)}
      BY <1>1, <1>4
    <2>2. Places(x)' = Places(x)
      BY <1>4, <2>1, PlacesCancel DEF QInv
    <2> QED
      BY <1>2, <2>2
  <1>5. ASSUME MainHandled \/ WorkerHandled \/ WorkerThrow PROVE Places(x)' <= Places(x)
    BY <1>1, <1>2, <1>5, PlacesHandled DEF QInv
  <1>6. ASSUME Moves PROVE Places(x)' <= Places(x)
    BY <1>1, <1>2, <1>6, PlacesSame DEF QInv
  <1>7. ASSUME UNCHANGED qvars PROVE Places(x)' <= Places(x)
    BY <1>2, <1>7 DEF qvars, queues, loop, wthread, Places
  <1>8. Places(x)' <= Places(x)
    BY <1>3, <1>4, <1>5, <1>6, <1>7, QueueSteps
  <1> QED
    BY <1>8 DEF x

\* Where one step of its HTTP thread takes a reader and its client.
LEMMA OwnStep ==
    ASSUME QTypeOK, ReaderTypeOK, NEW t \in Tasks, ClientStep(t) \/ Disconnect(t)
    PROVE  /\ rpc'[t] \in R!ReaderPcs
           /\ \/ /\ rpc[t] = rpc'[t] /\ received'[t] = received[t]
                 /\ client[t] \in {"new", "gated"} /\ client'[t] \in {"gated", "open", "done"}
              \/ /\ rpc[t] = "new" /\ rpc'[t] = "registered" /\ client[t] = "open"
                 /\ client'[t] = "open"
              \/ rpc[t] = "registered" /\ rpc'[t] = "reading" /\ client'[t] = "posted"
              \/ rpc[t] = "reading" /\ rpc'[t] \in {"reading", "stopping"} /\ client'[t] = client[t]
              \/ /\ rpc[t] = "stopping" /\ rpc'[t] = "purging" /\ client'[t] = client[t]
                 /\ R!HasNext(t) /\ received'[t] = received[t]
              \/ rpc[t] = "stopping" /\ rpc'[t] = "left" /\ client'[t] = "done"
              \/ /\ rpc[t] = "purging" /\ rpc'[t] \in {"purging", "posting"}
                 /\ client'[t] = client[t] /\ received'[t] = received[t]
              \/ /\ rpc[t] = "posting" /\ rpc'[t] = "left" /\ client'[t] = "cancelled"
                 /\ received'[t] = received[t]
  <1> USE DEF QTypeOK, ReaderTypeOK, rvars, qvars, R!ReaderPcs
  <1>1. CASE Gate(t)
    BY <1>1 DEF Gate, EnterGate, CheckSleeping, LeaveGate
  <1>2. CASE RegisterTask(t)
    BY <1>2 DEF RegisterTask, R!Register
  <1>3. CASE SendTask(t)
    BY <1>3 DEF SendTask, R!Posted, PostTask
  <1>4. CASE ReadResult(t)
    <2>1. client' = client /\ rpc[t] = "reading"
      BY <1>4 DEF ReadResult, R!Receive, R!ShuttingDown
    <2>2. \E pc \in {"reading", "stopping"} : rpc' = [rpc EXCEPT ![t] = pc]
      BY <1>4 DEF ReadResult, R!Receive, R!ShuttingDown
    <2> QED
      BY <2>1, <2>2
  <1>5. CASE SkipMetrics(t) \/ Disconnect(t)
    BY <1>5 DEF SkipMetrics, Disconnect, R!GiveUp
  <1>6. CASE LeaveDone(t)
    BY <1>6 DEF LeaveDone, Finish, R!StopRemove
  <1>7. CASE StopReading(t)
    <2>1. client' = client /\ received' = received
      BY <1>7 DEF StopReading, R!StopRemove, R!StopPurge
    <2>2. CASE R!StopRemove(t) /\ rpc'[t] = "purging"
      BY <2>1, <2>2 DEF R!StopRemove
    <2>3. CASE R!StopPurge(t, t)
      BY <2>1, <2>3 DEF R!StopPurge
    <2> QED
      BY <1>7, <2>2, <2>3 DEF StopReading
  <1>8. CASE LeaveCancel(t)
    BY <1>8 DEF LeaveCancel, R!StopPost, PostCancel
  <1> QED
    BY <1>1, <1>2, <1>3, <1>4, <1>5, <1>6, <1>7, <1>8 DEF ClientStep

\* Every step keeps the types of the readers.
LEMMA ReaderTypeStep ==
    ASSUME QTypeOK, ReaderTypeOK, [Next]_vars
    PROVE  ReaderTypeOK'
  <1>1. CASE UNCHANGED <<readers, client>>
    BY <1>1 DEF ReaderTypeOK, readers
  <1>2. ASSUME NEW u \in Tasks, ClientStep(u) \/ Disconnect(u) PROVE ReaderTypeOK'
    <2> USE DEF ReaderTypeOK, R!ReaderPcs
    <2>1. CASE Gate(u)
      BY <2>1 DEF Gate, rvars
    <2>2. CASE \/ RegisterTask(u) \/ SendTask(u) \/ LeaveDone(u) \/ StopReading(u)
               \/ LeaveCancel(u) \/ SkipMetrics(u) \/ Disconnect(u)
      BY <2>2 DEF RegisterTask, SendTask, LeaveDone, StopReading, LeaveCancel, SkipMetrics,
         Disconnect, R!Register, R!Posted, R!StopRemove, R!StopPurge, R!StopPost, R!GiveUp
    <2>3. CASE ReadResult(u)
      <3>1. \/ received' = received
            \/ \E rcv : received' = [received EXCEPT ![u] = rcv]
        BY <2>3 DEF ReadResult, R!Receive, R!ShuttingDown
      <3>2. \E pc \in {"reading", "stopping"} : rpc' = [rpc EXCEPT ![u] = pc]
        BY <2>3 DEF ReadResult, R!Receive, R!ShuttingDown
      <3> QED
        BY <3>1, <3>2
    <2> QED
      BY <1>2, <2>1, <2>2, <2>3 DEF ClientStep
  <1> QED
    BY <1>1, <1>2, ServerLeavesReaders DEF Next

\* Only terminate() ends the running state.
LEMMA StopStep ==
    ASSUME StopOK, [QNext]_qvars
    PROVE  StopOK'
  <1> USE DEF StopOK, flags, loop, wthread
  <1>1. ASSUME NEW t \in Tasks, QClient(t) PROVE StopOK'
    BY <1>1 DEF QClient, EnterGate, CheckSleeping, LeaveGate, PostTask, PostCancel, Finish
  <1>2. ASSUME Terminate \/ QWorker \/ UNCHANGED qvars PROVE StopOK'
    BY <1>2 DEF Terminate, qvars, QWorker, WorkerWait, WorkerDrain, WorkerDecline, WorkerHandled,
       WorkerThrow, WorkerCheck, WorkerWake, WorkerFinish, WorkerNotify
  <1>3. ASSUME \/ StartLoop \/ MainDrain \/ MainDefer \/ MainHandled \/ MainAllIdle
               \/ MainPostNext \/ MainYield \/ MainSignal \/ \E s \in Slots : MainRelease(s)
        PROVE  StopOK'
    BY <1>3 DEF StartLoop, MainDrain, MainDefer, MainHandled, MainAllIdle, MainPostNext,
       MainYield, MainSignal, MainRelease
  <1>4. ASSUME \/ MainJoin \/ MainCatch \/ MainUpdateDone \/ \E exc \in BOOLEAN : MainWorkDone(exc)
               \/ MainRecheck \/ MainSleep \/ MainIdle \/ MainWake \/ MainStop
               \/ MainStopNotify \/ MainJoined
        PROVE  StopOK'
    BY <1>4 DEF MainJoin, MainCatch, MainUpdateDone, MainWorkDone, YieldEnd, MainRecheck,
       MainSleep, MainIdle, MainWake, MainStop, MainStopNotify, MainJoined
  <1> QED
    BY <1>1, <1>2, <1>3, <1>4 DEF QNext, QMain

\* Every step keeps readers, clients and tasks in agreement.
LEMMA ReaderStep ==
    ASSUME QInv, SlotInv, ReaderInv, [Next]_vars
    PROVE  ReaderInv'
  <1>1. [QNext]_qvars /\ QInv' /\ QTypeOK /\ QTypeOK'
    BY StepOfQueue, SlotStep DEF SlotInv, QInv
  <1>2. ReaderTypeOK' /\ StopOK'
    BY <1>1, ReaderTypeStep, StopStep DEF ReaderInv
  <1>3. ASSUME NEW t \in Tasks
        PROVE  \/ UNCHANGED <<client[t], rpc[t], received[t]>>
               \/ ClientStep(t) \/ Disconnect(t)
    <2>1. CASE UNCHANGED <<readers, client>>
      BY <2>1 DEF readers
    <2>2. ASSUME NEW u \in Tasks, ClientStep(u) \/ Disconnect(u), u # t
          PROVE  UNCHANGED <<client[t], rpc[t], received[t]>>
      BY <1>1, <2>2, OthersStay DEF ReaderInv
    <2> QED
      BY <2>1, <2>2, ServerLeavesReaders DEF Next
  <1>4. ASSUME NEW t \in Tasks, PostTask(t) \/ PostCancel(t)
        PROVE  \/ rpc[t] = "registered" /\ PostTask(t)
               \/ /\ rpc[t] = "posting" /\ rpc'[t] = "left" /\ received'[t] = received[t]
                  /\ PostCancel(t)
    <2>1. \/ PostTask(t) /\ client[t] = "open" /\ client'[t] = "posted"
          \/ PostCancel(t) /\ client[t] = "posted" /\ client'[t] = "cancelled"
      BY <1>1, <1>4 DEF PostTask, PostCancel, QTypeOK
    <2>2. ClientStep(t) \/ Disconnect(t)
      BY <1>3, <2>1
    <2> QED
      BY <1>1, <2>1, <2>2, OwnStep DEF ReaderInv
  <1>5. ASSUME NEW t \in Tasks, R!HasNext(t), received'[t] = received[t]
        PROVE  R!HasNext(t)'
    BY <1>5 DEF R!HasNext
  <1>6. ASSUME NEW t \in Tasks, rpc'[t] = "new", rpc[t] = "new"
        PROVE  Places(TaskItem(t))' = 0 /\ \A s \in Slots : slot'[s] # t
    <2>1. Places(TaskItem(t)) = 0 /\ \A s \in Slots : slot[s] # t
      BY <1>6 DEF ReaderInv, ReadersOK
    <2>2. ~PostTask(t)
      BY <1>4, <1>6
    <2>3. Places(TaskItem(t))' <= Places(TaskItem(t)) /\ Places(TaskItem(t))' \in Nat
      BY <1>1, <2>2, PlacesStep, PlacesNatNext DEF QInv, TaskItem
    <2> QED
      BY <2>1, <2>3, SlotOrigin
  <1>7. ReadersOK'
    <2> SUFFICES ASSUME NEW t \in Tasks
          PROVE  /\ rpc'[t] = "new" => /\ client'[t] \in {"new", "gated", "open", "done"}
                                       /\ Places(TaskItem(t))' = 0
                                       /\ \A s \in Slots : slot'[s] # t
                 /\ rpc'[t] = "registered" => client'[t] = "open"
                 /\ rpc'[t] \in {"reading", "stopping", "purging", "posting"}
                       => client'[t] = "posted"
                 /\ rpc'[t] = "left" => client'[t] \in {"done", "cancelled"}
                 /\ rpc'[t] \in {"purging", "posting"} => R!HasNext(t)'
      BY DEF ReadersOK
    <2>1. /\ rpc[t] = "new" => client[t] \in {"new", "gated", "open", "done"}
          /\ rpc[t] = "registered" => client[t] = "open"
          /\ rpc[t] \in {"reading", "stopping", "purging", "posting"} => client[t] = "posted"
          /\ rpc[t] = "left" => client[t] \in {"done", "cancelled"}
          /\ rpc[t] \in {"purging", "posting"} => R!HasNext(t)
      BY DEF ReaderInv, ReadersOK
    <2>2. CASE UNCHANGED <<client[t], rpc[t], received[t]>>
      BY <1>5, <1>6, <2>1, <2>2
    <2>3. CASE ClientStep(t) \/ Disconnect(t)
      <3>0. rpc[t] \in R!ReaderPcs
        BY DEF ReaderInv, ReaderTypeOK
      <3>1. \/ /\ rpc[t] = rpc'[t] /\ received'[t] = received[t]
               /\ client[t] \in {"new", "gated"} /\ client'[t] \in {"gated", "open", "done"}
            \/ rpc[t] = "new" /\ rpc'[t] = "registered" /\ client'[t] = "open"
            \/ rpc[t] = "registered" /\ rpc'[t] = "reading" /\ client'[t] = "posted"
            \/ rpc[t] = "reading" /\ rpc'[t] \in {"reading", "stopping"} /\ client'[t] = client[t]
            \/ /\ rpc[t] = "stopping" /\ rpc'[t] = "purging" /\ client'[t] = client[t]
               /\ R!HasNext(t) /\ received'[t] = received[t]
            \/ rpc[t] = "stopping" /\ rpc'[t] = "left" /\ client'[t] = "done"
            \/ /\ rpc[t] = "purging" /\ rpc'[t] \in {"purging", "posting"}
               /\ client'[t] = client[t] /\ received'[t] = received[t]
            \/ rpc[t] = "posting" /\ rpc'[t] = "left" /\ client'[t] = "cancelled"
        BY <1>1, <2>3, OwnStep DEF ReaderInv
      <3> QED
        BY <1>5, <1>6, <2>1, <3>0, <3>1 DEF R!ReaderPcs
    <2> QED
      BY <1>3, <2>2, <2>3
  <1>8. CancelsOK'
    <2> SUFFICES ASSUME NEW t \in Tasks, Places(CancelItem(t))' # 0
                 PROVE  rpc'[t] = "left" /\ R!HasNext(t)'
      BY DEF CancelsOK
    <2>1. CASE PostCancel(t)
      <3>1. rpc[t] = "posting" /\ rpc'[t] = "left" /\ received'[t] = received[t]
        BY <1>4, <2>1 DEF PostTask, PostCancel
      <3> QED
        BY <1>5, <3>1 DEF ReaderInv, ReadersOK
    <2>2. CASE ~PostCancel(t)
      <3>1. /\ Places(CancelItem(t))' <= Places(CancelItem(t))
            /\ Places(CancelItem(t))' \in Nat /\ Places(CancelItem(t)) \in Nat
        BY <1>1, <2>2, CancelPlaces, PlacesNatNext, PlacesNat DEF CancelItem
      <3>2. Places(CancelItem(t)) # 0
        BY <3>1
      <3>3. rpc[t] = "left" /\ R!HasNext(t)
        BY <3>2 DEF ReaderInv, CancelsOK
      <3>4. CASE UNCHANGED <<client[t], rpc[t], received[t]>>
        BY <1>5, <3>3, <3>4
      <3>5. CASE ClientStep(t) \/ Disconnect(t)
        <4>1. client[t] \in {"done", "cancelled"}
          BY <3>3 DEF ReaderInv, ReadersOK
        <4> QED
          BY <1>1, <3>3, <3>5, <4>1, OwnStep DEF ReaderInv
      <3> QED
        BY <1>3, <3>4, <3>5
    <2> QED
      BY <2>1, <2>2
  <1> QED
    BY <1>2, <1>7, <1>8 DEF ReaderInv

\* The invariant of the server's own state.
SInv == QInv /\ SlotInv /\ NextOK /\ ReaderInv

LEMMA ServerInvariant == Spec => []SInv
  <1>1. Init => ReaderInv
    <2> SUFFICES ASSUME Init PROVE ReaderInv
      OBVIOUS
    <2>1. /\ QInit /\ slot = [s \in Slots |-> NoTask]
          /\ received = [t \in Tasks |-> [count |-> 0, ids |-> {}]]
          /\ rpc = [t \in Tasks |-> "new"]
      BY DEF Init, R!RInit
    <2>2. \A x : x # NextItem => Places(x) = 0
      <3> SUFFICES ASSUME NEW x, x # NextItem PROVE Places(x) = 0
        OBVIOUS
      <3>1. Occ(<<>>, x) = 0 /\ Held(NextItem, x) = 0
        BY OccSmall DEF Held
      <3>2. /\ Occ(queue_tasks, x) = 0 /\ Occ(queue_tasks_deferred, x) = 0
            /\ Occ(queue_tasks_unhandled, x) = 0
            /\ Held(handM, x) = 0 /\ Held(handW, x) = 0
        BY <2>1, <3>1 DEF QInit
      <3> QED
        BY <3>2 DEF Places
    <2>3. /\ \A t \in Tasks : rpc[t] = "new" /\ client[t] = "new"
          /\ \A t \in Tasks : Places(TaskItem(t)) = 0 /\ Places(CancelItem(t)) = 0
          /\ \A t \in Tasks : \A s \in Slots : slot[s] # t
      BY <2>1, <2>2, ItemsDiffer, QueueAssumption DEF QInit
    <2>4. ReaderTypeOK /\ StopOK
      BY <2>1 DEF ReaderTypeOK, StopOK, QInit, R!ReaderPcs
    <2> QED
      BY <2>3, <2>4 DEF ReaderInv, ReadersOK, CancelsOK
  <1>2. QInv /\ SlotInv /\ ReaderInv /\ [Next]_vars => ReaderInv'
    BY ReaderStep
  <1> QED
    BY <1>1, <1>2, NextIsThere, PTL DEF Spec, SInv

-----------------------------------------------------------------------------
(* The server implements ResponseLife: the life of a task *)

\* What ResponseLife sees of the server.
Life   == [t \in Tasks |-> TaskLife(t)]
Halted == pcM \in {"stop", "stopping", "joining", "done"}

Unposted(t) == rpc[t] \in {"new", "registered"}
InSlot(t) == \E s \in Slots \ {ending} : slot[s] = t

\* The life of a task, counted in places.
LEMMA LifeOf ==
    ASSUME QTypeOK, NEW t \in Tasks
    PROVE  Life[t] = IF Unposted(t) THEN "none"
                     ELSE IF Places(TaskItem(t)) # 0 THEN "pending"
                     ELSE IF InSlot(t) THEN "running" ELSE "over"
  BY PendingPlaces DEF Life, TaskLife, Unposted, InSlot

\* The same after a step.
LEMMA LifeOfNext ==
    ASSUME QTypeOK', NEW t \in Tasks
    PROVE  Life'[t] = IF Unposted(t)' THEN "none"
                      ELSE IF Places(TaskItem(t))' # 0 THEN "pending"
                      ELSE IF InSlot(t)' THEN "running" ELSE "over"
  <1> DEFINE x == TaskItem(t)
  <1>1. /\ InDeque(queue_tasks, t)' <=> Occ(queue_tasks', x) # 0
        /\ InDeque(queue_tasks_deferred, t)' <=> Occ(queue_tasks_deferred', x) # 0
        /\ InDeque(queue_tasks_unhandled, t)' <=> Occ(queue_tasks_unhandled', x) # 0
    BY OccNat DEF QTypeOK, InDeque
  <1>2. /\ (handM' = x) <=> Held(handM', x) # 0
        /\ (handW' = x) <=> Held(handW', x) # 0
    BY DEF Held
  <1>3. /\ Occ(queue_tasks', x) \in Nat /\ Occ(queue_tasks_deferred', x) \in Nat
        /\ Occ(queue_tasks_unhandled', x) \in Nat
        /\ Held(handM', x) \in Nat /\ Held(handW', x) \in Nat
    BY OccNat DEF QTypeOK, Held
  <1>4. Places(x)' = Occ(queue_tasks', x) + Occ(queue_tasks_deferred', x)
                     + Occ(queue_tasks_unhandled', x) + Held(handM', x) + Held(handW', x)
    BY DEF Places, TaskItem
  <1>5. Pending(t)' <=> \/ InDeque(queue_tasks, t)' \/ InDeque(queue_tasks_deferred, t)'
                        \/ InDeque(queue_tasks_unhandled, t)' \/ handM' = x \/ handW' = x
    BY DEF Pending, TaskItem
  <1> HIDE DEF x
  <1>6. Places(x)' # 0 <=> \/ Occ(queue_tasks', x) # 0 \/ Occ(queue_tasks_deferred', x) # 0
                           \/ Occ(queue_tasks_unhandled', x) # 0
                           \/ Held(handM', x) # 0 \/ Held(handW', x) # 0
    BY <1>3, <1>4
  <1>7. Pending(t)' <=> Places(x)' # 0
    BY <1>1, <1>2, <1>5, <1>6
  <1> QED
    BY <1>7 DEF Life, TaskLife, Unposted, InSlot, x

\* Nothing happens to the life of a task that stays where it is.
LEMMA LifeSame ==
    ASSUME QTypeOK, QTypeOK', NEW t \in Tasks, Unposted(t)' <=> Unposted(t),
           Places(TaskItem(t))' # 0 <=> Places(TaskItem(t)) # 0, InSlot(t)' <=> InSlot(t)
    PROVE  Life'[t] = Life[t]
  BY LifeOf, LifeOfNext

\* A change of one life is an EXCEPT.
LEMMA LifeExcept ==
    ASSUME NEW t \in Tasks, NEW after, Life'[t] = after,
           \A u \in Tasks : u # t => Life'[u] = Life[u]
    PROVE  Life' = [Life EXCEPT ![t] = after]
  <1>1. Life' = [u \in Tasks |-> Life'[u]] /\ DOMAIN Life = Tasks
    BY DEF Life
  <1> QED
    BY <1>1

LEMMA LifeUnchanged ==
    ASSUME \A u \in Tasks : Life'[u] = Life[u]
    PROVE  Life' = Life
  <1>1. Life' = [u \in Tasks |-> Life'[u]] /\ Life = [u \in Tasks |-> Life[u]]
    BY DEF Life
  <1> QED
    BY <1>1

\* A pending task was posted and has no slot; a task in a slot was posted.
LEMMA WhereTasksAre ==
    ASSUME SInv, NEW t \in Tasks
    PROVE  /\ Places(TaskItem(t)) # 0 => ~Unposted(t) /\ ~InSlot(t)
           /\ \A s \in Slots : slot[s] = t => ~Unposted(t) /\ Places(TaskItem(t)) = 0
           /\ Places(TaskItem(t)) \in Nat
  <1>1. Places(TaskItem(t)) \in Nat
    BY PlacesNat DEF SInv, QInv
  <1>2. client[t] = "open" => Places(TaskItem(t)) = 0
    BY <1>1 DEF SInv, QInv, PlacesOK
  <1>3. \A s \in Slots : slot[s] = t => /\ Places(TaskItem(t)) = 0
                                        /\ client[t] \notin {"new", "gated", "open"}
    BY DEF SInv, SlotInv, SlotsOK
  <1> QED
    BY <1>1, <1>2, <1>3 DEF SInv, ReaderInv, ReadersOK, Unposted, InSlot

-----------------------------------------------------------------------------
(* The steps of the readers are those of ResponseLife *)

\* Server and ResponseLife speak of the same result queue.
LEMMA SameResponses ==
    /\ \A S : L!Cardinality(S) = Cardinality(S) /\ R!Cardinality(S) = Cardinality(S)
    /\ \A r : R!HasNext(r) <=> L!HasNext(r)
    /\ \A ids : R!ResultsFor(ids) = L!ResultsFor(ids)
    /\ \A id, kind : R!Send(id, kind) <=> L!Send(id, kind)
    /\ \A r : /\ R!Register(r) <=> L!Register(r)
              /\ R!Posted(r) <=> L!Posted(r)
              /\ R!Receive(r) <=> L!Receive(r)
              /\ R!GiveUp(r) <=> L!GiveUp(r)
              /\ R!ShuttingDown(r) <=> L!ShuttingDown(r)
              /\ R!StopRemove(r) <=> L!StopRemove(r)
              /\ R!StopPost(r) <=> L!StopPost(r)
    /\ \A r, id : R!StopPurge(r, id) <=> L!StopPurge(r, id)
  <1>1. \A S : L!Cardinality(S) = Cardinality(S) /\ R!Cardinality(S) = Cardinality(S)
    BY Zenon DEF L!Cardinality, R!Cardinality, Cardinality
  <1>2. \A r : R!HasNext(r) <=> L!HasNext(r)
    BY Zenon DEF R!HasNext, L!HasNext, L!Cardinality, R!Cardinality
  <1>3. \A ids : R!ResultsFor(ids) = L!ResultsFor(ids)
    BY Zenon DEF R!ResultsFor, L!ResultsFor
  <1>4. \A id, kind : R!Send(id, kind) <=> L!Send(id, kind)
    BY Zenon DEF R!Send, L!Send
  <1>5. ASSUME NEW r
        PROVE  /\ R!Register(r) <=> L!Register(r)
               /\ R!Posted(r) <=> L!Posted(r)
               /\ R!GiveUp(r) <=> L!GiveUp(r)
               /\ R!ShuttingDown(r) <=> L!ShuttingDown(r)
               /\ R!StopPost(r) <=> L!StopPost(r)
    BY Zenon DEF R!Register, L!Register, R!Posted, L!Posted, R!GiveUp, L!GiveUp,
       R!ShuttingDown, L!ShuttingDown, R!StopPost, L!StopPost, R!responses, L!responses
  <1>6. ASSUME NEW r PROVE R!Receive(r) <=> L!Receive(r)
    BY Zenon DEF R!Receive, L!Receive, R!ResultsFor, L!ResultsFor, R!FirstFor, L!FirstFor,
       R!RemoveAt, L!RemoveAt, R!Cardinality, L!Cardinality
  <1>7. ASSUME NEW r PROVE R!StopRemove(r) <=> L!StopRemove(r)
    BY Zenon DEF R!StopRemove, L!StopRemove, R!HasNext, L!HasNext, R!Cardinality, L!Cardinality
  <1>8. ASSUME NEW r, NEW id PROVE R!StopPurge(r, id) <=> L!StopPurge(r, id)
    BY Zenon DEF R!StopPurge, L!StopPurge, R!Without, L!Without, R!Picked, L!Picked,
       R!Cardinality, L!Cardinality
  <1> QED
    BY <1>1, <1>2, <1>3, <1>4, <1>5, <1>6, <1>7, <1>8

\* A task is in as many places as before when the queue only moves its items.
LEMMA PlacesStay ==
    ASSUME SInv, SInv', Moves \/ UNCHANGED qvars
    PROVE  \A t \in Tasks : Places(TaskItem(t))' = Places(TaskItem(t))
  <1> SUFFICES ASSUME NEW t \in Tasks PROVE Places(TaskItem(t))' = Places(TaskItem(t))
    OBVIOUS
  <1>1. CASE Moves
    BY <1>1, PlacesSame, ItemsDiffer DEF SInv, QInv, TaskItem
  <1>2. CASE UNCHANGED qvars
    BY <1>2 DEF qvars, queues, loop, wthread, Places, TaskItem
  <1> QED
    BY <1>1, <1>2

\* No life changes when, besides, no reader steps and no slot changes hands.
LEMMA LivesStay ==
    ASSUME SInv, SInv', Moves \/ UNCHANGED qvars, UNCHANGED <<rpc, svars>>
    PROVE  Life' = Life
  <1>1. ASSUME NEW t \in Tasks PROVE Life'[t] = Life[t]
    <2>1. (Unposted(t)' <=> Unposted(t)) /\ (InSlot(t)' <=> InSlot(t))
      BY DEF Unposted, InSlot, svars
    <2> QED
      BY <2>1, PlacesStay, LifeSame DEF SInv, QInv
  <1> QED
    BY <1>1, LifeUnchanged

\* A step that leaves the readers alone and moves no task is no step of ResponseLife.
LEMMA Stutters ==
    ASSUME SInv, SInv', Moves \/ UNCHANGED qvars, UNCHANGED <<rvars, svars>>,
           stopped' = stopped, Halted' <=> Halted
    PROVE  UNCHANGED L!lvars
  <1>1. Life' = Life
    BY LivesStay DEF rvars
  <1> QED
    BY <1>1 DEF L!lvars, L!rvars, L!responses, rvars, Life, Halted

\* The steps of an HTTP thread that leave every task where it is.
LEMMA ReaderImplements ==
    ASSUME SInv, SInv', NEW t \in Tasks,
           RegisterTask(t) \/ ReadResult(t) \/ SkipMetrics(t) \/ Disconnect(t)
           \/ LeaveDone(t) \/ StopReading(t)
    PROVE  L!LRegister(t) \/ L!LRead(t) \/ L!LGiveUp(t)
  <1>1. UNCHANGED svars /\ (Finish(t) \/ UNCHANGED qvars)
    BY DEF RegisterTask, ReadResult, SkipMetrics, Disconnect, LeaveDone, StopReading
  <1>2. stopped' = stopped /\ (Halted' <=> Halted)
    BY <1>1 DEF Finish, qvars, flags, loop, Halted
  <1>3. \A u \in Tasks : Unposted(u)' <=> Unposted(u)
    <2> SUFFICES ASSUME NEW u \in Tasks PROVE Unposted(u)' <=> Unposted(u)
      OBVIOUS
    <2>1. CASE u = t
      <3>1. CASE RegisterTask(t)
        BY <2>1, <3>1 DEF RegisterTask, R!Register, Unposted, SInv, ReaderInv, ReaderTypeOK
      <3>2. CASE ReadResult(t)
        BY <2>1, <3>2 DEF ReadResult, R!Receive, R!ShuttingDown, Unposted, SInv, ReaderInv,
           ReaderTypeOK
      <3>3. CASE \/ SkipMetrics(t) \/ Disconnect(t) \/ LeaveDone(t) \/ StopReading(t)
        BY <2>1, <3>3 DEF SkipMetrics, Disconnect, LeaveDone, StopReading, R!GiveUp,
           R!StopRemove, R!StopPurge, Unposted, SInv, ReaderInv, ReaderTypeOK
      <3> QED
        BY <3>1, <3>2, <3>3
    <2>2. CASE u # t
      <3>1. ClientStep(t) \/ Disconnect(t)
        BY DEF ClientStep
      <3> QED
        BY <2>2, <3>1, OthersStay DEF Unposted, SInv, QInv, ReaderInv
    <2> QED
      BY <2>1, <2>2
  <1>4. Life' = Life
    <2>1. ASSUME NEW u \in Tasks PROVE Life'[u] = Life[u]
      <3>1. Places(TaskItem(u))' = Places(TaskItem(u))
        <4>1. CASE Finish(t)
          BY <4>1, PlacesSame, ItemsDiffer DEF Moves, SInv, QInv, TaskItem
        <4>2. CASE UNCHANGED qvars
          BY <4>2 DEF qvars, queues, loop, wthread, Places, TaskItem
        <4> QED
          BY <1>1, <4>1, <4>2
      <3>2. InSlot(u)' <=> InSlot(u)
        BY <1>1 DEF InSlot, svars
      <3> QED
        BY <1>3, <3>1, <3>2, LifeSame DEF SInv, QInv
    <2> QED
      BY <2>1, LifeUnchanged
  <1>5. CASE RegisterTask(t)
    BY <1>2, <1>4, <1>5, SameResponses DEF RegisterTask, L!LRegister, Life, Halted
  <1>6. CASE SkipMetrics(t) \/ Disconnect(t)
    BY <1>2, <1>4, <1>6, SameResponses DEF SkipMetrics, Disconnect, L!LGiveUp, Life, Halted
  <1>7. CASE ReadResult(t) \/ LeaveDone(t)
    BY <1>2, <1>4, <1>7, SameResponses DEF ReadResult, LeaveDone, L!LRead, Life, Halted
  <1>8. CASE StopReading(t)
    <2>1. R!StopRemove(t) \/ R!StopPurge(t, t)
      BY <1>8 DEF StopReading
    <2>2. t \in [u \in Tasks |-> {u}][t]
      OBVIOUS
    <2> QED
      BY <1>2, <1>4, <2>1, <2>2, SameResponses DEF L!LRead, Life, Halted
  <1> QED
    BY <1>5, <1>6, <1>7, <1>8

-----------------------------------------------------------------------------
(* The steps of the server are those of ResponseLife *)

\* What a callback that is through with its item does to the tasks: the one it held
\* is pending no more, the others stay.
LEMMA HandledPlaces ==
    ASSUME SInv, SInv', MainHandled \/ WorkerHandled
    PROVE  \A t \in Tasks :
             /\ (\/ MainHandled /\ handM = TaskItem(t)
                 \/ WorkerHandled /\ handW = TaskItem(t)) => Places(TaskItem(t))' = 0
             /\ ((MainHandled => handM # TaskItem(t)) /\ (WorkerHandled => handW # TaskItem(t)))
                   => Places(TaskItem(t))' = Places(TaskItem(t))
  <1> SUFFICES ASSUME NEW t \in Tasks
               PROVE /\ (\/ MainHandled /\ handM = TaskItem(t)
                         \/ WorkerHandled /\ handW = TaskItem(t)) => Places(TaskItem(t))' = 0
                     /\ (/\ MainHandled => handM # TaskItem(t)
                         /\ WorkerHandled => handW # TaskItem(t))
                           => Places(TaskItem(t))' = Places(TaskItem(t))
    OBVIOUS
  <1>1. /\ MainHandled => Places(TaskItem(t))' = Places(TaskItem(t)) - Held(handM, TaskItem(t))
        /\ WorkerHandled => Places(TaskItem(t))' = Places(TaskItem(t)) - Held(handW, TaskItem(t))
    BY PlacesHandled, ItemsDiffer DEF SInv, QInv, TaskItem
  <1>2. Places(TaskItem(t)) \in Nat
    BY PlacesNat DEF SInv, QInv
  <1>3. /\ handM = TaskItem(t) => Places(TaskItem(t)) = 1
        /\ handW = TaskItem(t) => Places(TaskItem(t)) = 1
    <2>1. ASSUME NEW hand \in {handM, handW}, hand = TaskItem(t)
          PROVE  Places(TaskItem(t)) = 1
      <3>1. PICK u \in Tasks : hand.id = u /\ Places(TaskItem(u)) = 1
        BY <2>1, HandTask DEF TaskItem, SInv
      <3> QED
        BY <2>1, <3>1 DEF TaskItem
    <2> QED
      BY <2>1
  <1> QED
    BY <1>1, <1>2, <1>3 DEF Held

\* A pending task leaves the queue; the others stay where they are.
LEMMA HandledLife ==
    ASSUME SInv, SInv', NEW t \in Tasks,
           \/ MainHandled /\ handM = TaskItem(t)
           \/ WorkerHandled /\ handW = TaskItem(t),
           rpc' = rpc, \A u \in Tasks : u # t => (InSlot(u)' <=> InSlot(u))
    PROVE  /\ Life[t] = "pending" /\ Life'[t] = IF InSlot(t)' THEN "running" ELSE "over"
           /\ \A u \in Tasks : u # t => Life'[u] = Life[u]
  <1>1. \A u \in Tasks : Unposted(u)' <=> Unposted(u)
    BY DEF Unposted
  <1>2. handM.type = "task" \/ handW.type = "task"
    BY DEF TaskItem
  <1>3. Places(TaskItem(t)) # 0
    <2>1. ASSUME NEW hand \in {handM, handW}, hand = TaskItem(t)
          PROVE  Places(TaskItem(t)) # 0
      <3>1. PICK u \in Tasks : hand.id = u /\ Places(TaskItem(u)) = 1
        BY <2>1, HandTask DEF TaskItem, SInv
      <3> QED
        BY <2>1, <3>1 DEF TaskItem
    <2> QED
      BY <2>1
  <1>4. ~Unposted(t) /\ Life[t] = "pending"
    BY <1>3, WhereTasksAre, LifeOf DEF SInv, QInv
  <1>5. Places(TaskItem(t))' = 0
    BY HandledPlaces
  <1>6. Life'[t] = IF InSlot(t)' THEN "running" ELSE "over"
    BY <1>1, <1>4, <1>5, LifeOfNext DEF SInv, QInv
  <1>7. ASSUME NEW u \in Tasks, u # t PROVE Life'[u] = Life[u]
    <2>1. TaskItem(u) # TaskItem(t)
      BY <1>7, ItemsDiffer
    <2>2. (MainHandled => handM # TaskItem(u)) /\ (WorkerHandled => handW # TaskItem(u))
      <3>1. ~(MainHandled /\ WorkerHandled)
        BY DEF MainHandled, WorkerHandled, loop
      <3> QED
        BY <2>1, <3>1
    <2>3. Places(TaskItem(u))' = Places(TaskItem(u))
      BY <2>2, HandledPlaces
    <2> QED
      BY <1>1, <1>7, <2>3, LifeSame DEF SInv, QInv
  <1> QED
    BY <1>4, <1>6, <1>7

\* A task that is refused, a slot action, METRICS or SLOT_GET: answered at once.
LEMMA AnswerImplements ==
    ASSUME SInv, SInv', NEW t \in Tasks,
           \/ MainHandled /\ handM = TaskItem(t)
           \/ WorkerHandled /\ handW = TaskItem(t),
           UNCHANGED <<readers, svars>>, NEW kind \in {"final", "error"}, R!Send(t, kind),
           ~Halted
    PROVE  L!LServer(t)
  <1>1. \A u \in Tasks : InSlot(u)' <=> InSlot(u)
    BY DEF InSlot, svars
  <1>2. rpc' = rpc /\ stopped' = stopped /\ (Halted' <=> Halted)
    BY DEF readers, MainHandled, WorkerHandled, flags, loop, Halted
  <1>3. /\ Life[t] = "pending" /\ Life'[t] = IF InSlot(t)' THEN "running" ELSE "over"
        /\ \A u \in Tasks : u # t => Life'[u] = Life[u]
    BY <1>1, <1>2, HandledLife
  <1>4. ~InSlot(t)
    <2>1. Places(TaskItem(t)) # 0
      BY <1>3, LifeOf DEF SInv, QInv
    <2> QED
      BY <2>1, WhereTasksAre
  <1>5. Life' = [Life EXCEPT ![t] = "over"]
    BY <1>1, <1>3, <1>4, LifeExcept
  <1>6. L!LAnswer(t)
    BY <1>2, <1>3, <1>5, SameResponses DEF L!LAnswer, Life, readers
  <1> QED
    BY <1>2, <1>6 DEF L!LServer, Halted

\* launch_slot_with_task(): the task leaves the queue and has a slot.
LEMMA LaunchImplements ==
    ASSUME SInv, SInv', NEW s \in Slots, LaunchSlot(s)
    PROVE  \E t \in Tasks : L!LServer(t)
  <1>1. /\ MainHandled /\ pcM = "callback" /\ handM.type = "task" /\ IsIdle(s)
        /\ slot' = [slot EXCEPT ![s] = handM.id] /\ UNCHANGED <<rvars, ending>>
    BY DEF LaunchSlot, Handling, Available
  <1>2. PICK t \in Tasks : handM = TaskItem(t) /\ handM.id = t
    BY <1>1, HandTask DEF SInv
  <1>3. ending = NoSlot
    BY <1>1 DEF SInv, SlotInv, EndingOK
  <1>4. rpc' = rpc /\ stopped' = stopped /\ (Halted' <=> Halted) /\ ~Halted
    BY <1>1 DEF rvars, MainHandled, flags, Halted
  <1>5. /\ InSlot(t)'
        /\ \A u \in Tasks : u # t => (InSlot(u)' <=> InSlot(u))
    <2>1. slot' \in [Slots -> Tasks \cup {NoTask}] /\ slot \in [Slots -> Tasks \cup {NoTask}]
      BY DEF SInv, SlotInv, SlotTypeOK
    <2>2. slot'[s] = t /\ s # ending' /\ ending' = ending /\ slot[s] = NoTask
      BY <1>1, <1>2, <1>3, <2>1, QueueAssumption DEF IsIdle
    <2>3. InSlot(t)'
      BY <2>2 DEF InSlot
    <2>4. \A z \in Slots : z # s => slot'[z] = slot[z]
      BY <1>1, <2>1
    <2>5. ASSUME NEW u \in Tasks, u # t PROVE InSlot(u)' <=> InSlot(u)
      BY <2>2, <2>4, <2>5, QueueAssumption DEF InSlot
    <2> QED
      BY <2>3, <2>5
  <1>6. /\ Life[t] = "pending" /\ Life'[t] = "running"
        /\ \A u \in Tasks : u # t => Life'[u] = Life[u]
    BY <1>1, <1>2, <1>4, <1>5, HandledLife
  <1>7. Life' = [Life EXCEPT ![t] = "running"]
    BY <1>6, LifeExcept
  <1>8. L!LLaunch(t)
    BY <1>1, <1>4, <1>6, <1>7 DEF L!LLaunch, L!rvars, L!responses, rvars, Life
  <1> QED
    BY <1>4, <1>8 DEF L!LServer, Halted

\* A task that leaves its slot (for t constant, so that t is the same task afterwards).
LEMMA SlotLeft ==
    ASSUME SInv, SInv', Moves \/ UNCHANGED qvars, rpc' = rpc, NEW t \in Tasks,
           InSlot(t), ~InSlot(t)', \A u \in Tasks : u # t => (InSlot(u)' <=> InSlot(u))
    PROVE  Life[t] = "running" /\ Life' = [Life EXCEPT ![t] = "over"]
  <1>1. \A u \in Tasks : /\ Unposted(u)' <=> Unposted(u)
                         /\ Places(TaskItem(u))' = Places(TaskItem(u))
    BY PlacesStay DEF Unposted
  <1>2. ~Unposted(t) /\ Places(TaskItem(t)) = 0
    BY WhereTasksAre DEF InSlot
  <1>3. Life[t] = "running"
    BY <1>2, LifeOf DEF SInv, QInv
  <1>4. Life'[t] = "over"
    BY <1>1, <1>2, LifeOfNext DEF SInv, QInv
  <1>5. ASSUME NEW u \in Tasks, u # t PROVE Life'[u] = Life[u]
    BY <1>1, <1>5, LifeSame DEF SInv, QInv
  <1> QED
    BY <1>3, <1>4, <1>5, LifeExcept

\* A CANCEL releases the slot of a task whose reader has left.
LEMMA CancelImplements ==
    ASSUME SInv, SInv', NEW s \in Slots, CancelRelease(s)
    PROVE  \E t \in Tasks : L!LServer(t)
  <1>1. /\ MainRelease(s) /\ pcM = "callback" /\ handM.type = "cancel" /\ slot[s] = handM.id
        /\ slot' = [slot EXCEPT ![s] = NoTask] /\ UNCHANGED <<rvars, ending>>
    BY DEF CancelRelease
  <1>2. PICK t \in Tasks : slot[s] = t /\ handM = CancelItem(t)
    <2>1. handM \in Item
      BY DEF SInv, QInv, QTypeOK
    <2> QED
      BY <1>1, <2>1 DEF Item, TaskItems, TaskItem, CancelItem, NextItem
  <1>3. rpc[t] = "left" /\ R!HasNext(t)
    <2>1. Places(CancelItem(t)) # 0
      <3>1. /\ Occ(queue_tasks, CancelItem(t)) \in Nat
            /\ Occ(queue_tasks_deferred, CancelItem(t)) \in Nat
            /\ Occ(queue_tasks_unhandled, CancelItem(t)) \in Nat
            /\ Held(handM, CancelItem(t)) = 1 /\ Held(handW, CancelItem(t)) \in Nat
        BY <1>2, PlacesNat DEF Held, SInv, QInv
      <3> QED
        BY <3>1 DEF Places
    <2> QED
      BY <2>1 DEF SInv, ReaderInv, CancelsOK
  <1>4. ending = NoSlot
    BY <1>1 DEF SInv, SlotInv, EndingOK
  <1>5. rpc' = rpc /\ stopped' = stopped /\ (Halted' <=> Halted) /\ ~Halted
    BY <1>1 DEF rvars, MainRelease, flags, loop, Halted
  <1>6. \A z \in Slots : slot[z] = t => z = s
    BY <1>2 DEF SInv, SlotInv, SlotsOK
  <1>7. /\ InSlot(t) /\ ~InSlot(t)'
        /\ \A u \in Tasks : u # t => (InSlot(u)' <=> InSlot(u))
    <2>1. slot \in [Slots -> Tasks \cup {NoTask}]
      BY DEF SInv, SlotInv, SlotTypeOK
    <2>2. slot'[s] = NoTask /\ \A z \in Slots : z # s => slot'[z] = slot[z]
      BY <1>1, <2>1
    <2>3. InSlot(t)
      BY <1>2, <1>4, QueueAssumption DEF InSlot
    <2>4. ~InSlot(t)'
      BY <1>6, <2>2, QueueAssumption DEF InSlot
    <2>5. ASSUME NEW u \in Tasks, u # t PROVE InSlot(u)' <=> InSlot(u)
      BY <1>1, <1>2, <2>2, <2>5, QueueAssumption DEF InSlot
    <2> QED
      BY <2>3, <2>4, <2>5
  <1>8. Life[t] = "running" /\ Life' = [Life EXCEPT ![t] = "over"]
    <2>1. Moves
      BY <1>1 DEF Moves
    <2> QED
      BY <1>5, <1>7, <2>1, SlotLeft
  <1>9. L!LCancelled(t)
    BY <1>1, <1>3, <1>5, <1>8, SameResponses
    DEF L!LCancelled, L!rvars, L!responses, rvars, Life
  <1> QED
    BY <1>5, <1>9 DEF L!LServer, Halted

\* The last result of a task: it is over for its reader, its slot is released next.
LEMMA EndImplements ==
    ASSUME SInv, SInv', NEW s \in Slots, SendLast(s) \/ CatchOne(s) \/ AbortSlot(s)
    PROVE  \E t \in Tasks : L!LServer(t)
  <1>1. /\ ~IsIdle(s) /\ ending' = s /\ slot' = slot /\ UNCHANGED readers
        /\ \E kind \in {"final", "error"} : R!Send(slot[s], kind)
    BY DEF SendLast, CatchOne, AbortSlot
  <1>2. (Moves \/ UNCHANGED qvars) /\ stopped' = stopped /\ (Halted' <=> Halted) /\ ~Halted
    <2>1. CASE SendLast(s) \/ AbortSlot(s)
      BY <2>1 DEF SendLast, AbortSlot, qvars, flags, loop, Halted
    <2>2. CASE CatchOne(s)
      BY <2>2 DEF CatchOne, MainCatch, Moves, flags, Halted
    <2> QED
      BY <2>1, <2>2
  <1>3. ending = NoSlot
    <2>1. CASE SendLast(s) \/ AbortSlot(s)
      BY <2>1 DEF SendLast, AbortSlot
    <2>2. CASE CatchOne(s)
      BY <2>2 DEF CatchOne, MainCatch, SInv, SlotInv, EndingOK
    <2> QED
      BY <2>1, <2>2
  <1>4. PICK t \in Tasks : slot[s] = t
    BY <1>1 DEF IsIdle, SInv, SlotInv, SlotTypeOK
  <1>5. \A z \in Slots : slot[z] = t => z = s
    BY <1>4 DEF SInv, SlotInv, SlotsOK
  <1>6. /\ InSlot(t) /\ ~InSlot(t)'
        /\ \A u \in Tasks : u # t => (InSlot(u)' <=> InSlot(u))
    BY <1>1, <1>3, <1>4, <1>5, QueueAssumption DEF InSlot
  <1>7. Life[t] = "running" /\ Life' = [Life EXCEPT ![t] = "over"]
    BY <1>1, <1>2, <1>6, SlotLeft DEF readers
  <1>8. L!LEnd(t)
    BY <1>1, <1>2, <1>4, <1>7, SameResponses DEF L!LEnd, readers, Life
  <1> QED
    BY <1>2, <1>8 DEF L!LServer, Halted

\* send_partial_response(): the task stays in its slot.
LEMMA PartialImplements ==
    ASSUME SInv, SInv', NEW s \in Slots, SendPartial(s)
    PROVE  \E t \in Tasks : L!LServer(t)
  <1>1. /\ ~IsIdle(s) /\ ending = NoSlot /\ pcM = "active" /\ UNCHANGED <<qvars, readers, svars>>
        /\ R!Send(slot[s], "partial")
        /\ Cardinality(R!ResultsFor({slot[s]})) < MaxPartials
    BY DEF SendPartial, svars
  <1>2. PICK t \in Tasks : slot[s] = t
    BY <1>1 DEF IsIdle, SInv, SlotInv, SlotTypeOK
  <1>3. stopped' = stopped /\ (Halted' <=> Halted) /\ ~Halted
    BY <1>1 DEF qvars, flags, loop, Halted
  <1>4. Life' = Life
    BY <1>1, LivesStay DEF readers
  <1>5. Life[t] = "running"
    <2>1. ~Unposted(t) /\ Places(TaskItem(t)) = 0
      BY <1>2, WhereTasksAre
    <2>2. InSlot(t)
      BY <1>1, <1>2, QueueAssumption DEF InSlot
    <2> QED
      BY <2>1, <2>2, LifeOf DEF SInv, QInv
  <1>6. L!LPartial(t)
    <2>1. L!Cardinality(L!ResultsFor({t})) < MaxPartials
      BY <1>1, <1>2, SameResponses
    <2>2. L!Send(t, "partial")
      BY <1>1, <1>2, SameResponses
    <2> QED
      BY <1>1, <1>3, <1>4, <1>5, <2>1, <2>2 DEF L!LPartial, readers, Life
  <1> QED
    BY <1>3, <1>6 DEF L!LServer, Halted

\* release() after the last result: the task was over already.
LEMMA ReleaseImplements ==
    ASSUME SInv, SInv', ReleaseSlot
    PROVE  UNCHANGED L!lvars
  <1>1. /\ ending # NoSlot /\ MainRelease(ending) /\ ending' = NoSlot /\ UNCHANGED rvars
        /\ slot' = [slot EXCEPT ![ending] = NoTask]
    BY DEF ReleaseSlot
  <1>2. ending \in Slots /\ slot \in [Slots -> Tasks \cup {NoTask}]
    BY <1>1 DEF SInv, SlotInv, SlotTypeOK
  <1>3. Moves /\ stopped' = stopped /\ (Halted' <=> Halted)
    BY <1>1, <1>2 DEF Moves, MainRelease, flags, loop, Halted
  <1>4. ASSUME NEW t \in Tasks PROVE InSlot(t)' <=> InSlot(t)
    <2>1. slot'[ending] = NoTask /\ \A z \in Slots : z # ending => slot'[z] = slot[z]
      BY <1>1, <1>2
    <2> QED
      BY <1>1, <2>1, QueueAssumption DEF InSlot
  <1>5. ASSUME NEW t \in Tasks PROVE Life'[t] = Life[t]
    <2>1. Unposted(t)' <=> Unposted(t)
      BY <1>1 DEF Unposted, rvars
    <2> QED
      BY <1>3, <1>4, <2>1, PlacesStay, LifeSame DEF SInv, QInv
  <1>6. Life' = Life
    BY <1>5, LifeUnchanged
  <1> QED
    BY <1>1, <1>3, <1>6 DEF L!lvars, L!rvars, L!responses, rvars, Life, Halted

\* post(): the task is pending.
LEMMA PostImplements ==
    ASSUME SInv, SInv', NEW t \in Tasks, SendTask(t)
    PROVE  L!LPost(t)
  <1>1. /\ PostTask(t) /\ R!Posted(t) /\ UNCHANGED svars
        /\ stopped' = stopped /\ (Halted' <=> Halted)
    BY DEF SendTask, PostTask, flags, loop, Halted
  <1>2. \A u \in Tasks : InSlot(u)' <=> InSlot(u)
    BY <1>1 DEF InSlot, svars
  <1>3. /\ rpc[t] = "registered" /\ ~Unposted(t)'
        /\ \A u \in Tasks : u # t => (Unposted(u)' <=> Unposted(u))
    BY <1>1 DEF R!Posted, Unposted, SInv, ReaderInv, ReaderTypeOK
  <1>4. ASSUME NEW u \in Tasks
        PROVE  Places(TaskItem(u))' = Places(TaskItem(u)) + (IF u = t THEN 1 ELSE 0)
    <2>1. Places(TaskItem(u))' = Places(TaskItem(u)) + Held(TaskItem(t), TaskItem(u))
      BY <1>1, PlacesPost DEF SInv, QInv, TaskItem
    <2> QED
      BY <2>1, ItemsDiffer DEF Held
  <1>5. \A u \in Tasks : Places(TaskItem(u)) \in Nat
    BY PlacesNat DEF SInv, QInv
  <1>6. Life'[t] = "pending"
    <2>1. Places(TaskItem(t))' # 0
      BY <1>4, <1>5
    <2> QED
      BY <1>3, <2>1, LifeOfNext DEF SInv, QInv
  <1>7. ASSUME NEW u \in Tasks, u # t PROVE Life'[u] = Life[u]
    <2>1. Places(TaskItem(u))' = Places(TaskItem(u))
      BY <1>4, <1>5, <1>7
    <2> QED
      BY <1>2, <1>3, <1>7, <2>1, LifeSame DEF SInv, QInv
  <1>8. Life' = [u \in Tasks |-> IF u \in {t} THEN "pending" ELSE Life[u]]
    <2>1. Life' = [u \in Tasks |-> Life'[u]]
      BY DEF Life
    <2> QED
      BY <1>6, <1>7, <2>1
  <1>9. [u \in Tasks |-> {u}][t] = {t}
    OBVIOUS
  <1> QED
    BY <1>1, <1>8, <1>9, SameResponses DEF L!LPost, Life, Halted

\* stop() posts the CANCEL: a pending task is over, except one that a thread holds.
LEMMA CancelPosted ==
    ASSUME SInv, SInv', NEW t \in Tasks, LeaveCancel(t)
    PROVE  L!LCancel(t)
  <1> DEFINE missed == IF Places(TaskItem(t))' # 0 THEN {t} ELSE {}
  <1>1. /\ PostCancel(t) /\ R!StopPost(t) /\ UNCHANGED svars
        /\ stopped' = stopped /\ (Halted' <=> Halted)
    BY DEF LeaveCancel, PostCancel, flags, loop, Halted
  <1>2. \A u \in Tasks : InSlot(u)' <=> InSlot(u)
    BY <1>1 DEF InSlot, svars
  <1>3. \A u \in Tasks : Unposted(u)' <=> Unposted(u)
    BY <1>1 DEF R!StopPost, Unposted, SInv, ReaderInv, ReaderTypeOK
  <1>4. ~Unposted(t)
    BY <1>1 DEF R!StopPost, Unposted
  <1>5. ASSUME NEW u \in Tasks, u # t PROVE Life'[u] = Life[u]
    <2>1. TaskItem(u) \notin {TaskItem(t), CancelItem(t)}
      BY <1>5, ItemsDiffer
    <2>2. Places(TaskItem(u))' = Places(TaskItem(u))
      BY <1>1, <2>1, PlacesCancel DEF SInv, QInv, TaskItem
    <2> QED
      BY <1>2, <1>3, <2>2, LifeSame DEF SInv, QInv
  <1>6. Places(TaskItem(t)) \in Nat /\ Places(TaskItem(t))' \in Nat
    BY PlacesNat, PlacesNatNext DEF SInv, QInv, TaskItem
  <1>7. Places(TaskItem(t))' <= Places(TaskItem(t))
    BY <1>1, PlacesCancel DEF SInv, QInv, TaskItem
  <1>8. Life'[t] = IF t \in {t} \ missed /\ Life[t] = "pending" THEN "over" ELSE Life[t]
    <2>1. CASE Places(TaskItem(t))' # 0
      <3>1. Places(TaskItem(t)) # 0
        BY <1>6, <1>7, <2>1
      <3>2. Life'[t] = Life[t]
        BY <1>2, <1>3, <2>1, <3>1, LifeSame DEF SInv, QInv
      <3> QED
        BY <2>1, <3>2
    <2>2. CASE Places(TaskItem(t))' = 0
      <3>1. Life'[t] = IF InSlot(t) THEN "running" ELSE "over"
        BY <1>2, <1>3, <1>4, <2>2, LifeOfNext DEF SInv, QInv
      <3>2. CASE Places(TaskItem(t)) # 0
        <4>1. Life[t] = "pending" /\ ~InSlot(t)
          BY <1>4, <3>2, LifeOf, WhereTasksAre DEF SInv, QInv
        <4> QED
          BY <2>2, <3>1, <4>1
      <3>3. CASE Places(TaskItem(t)) = 0
        <4>1. Life[t] = IF InSlot(t) THEN "running" ELSE "over"
          BY <1>4, <3>3, LifeOf DEF SInv, QInv
        <4> QED
          BY <2>2, <3>1, <4>1
      <3> QED
        BY <3>2, <3>3
    <2> QED
      BY <2>1, <2>2
  <1>9. missed \in SUBSET {t}
    OBVIOUS
  <1> HIDE DEF missed
  <1>10. Life' = [u \in Tasks |-> IF u \in {t} \ missed /\ Life[u] = "pending"
                                  THEN "over" ELSE Life[u]]
    <2>1. Life' = [u \in Tasks |-> Life'[u]]
      BY DEF Life
    <2>2. \A u \in Tasks : Life'[u] = IF u \in {t} \ missed /\ Life[u] = "pending"
                                      THEN "over" ELSE Life[u]
      BY <1>5, <1>8
    <2> QED
      BY <2>1, <2>2
  <1>11. [u \in Tasks |-> {u}][t] = {t}
    OBVIOUS
  <1> QED
    BY <1>1, <1>9, <1>10, <1>11, SameResponses DEF L!LCancel, Life, Halted

\* The steps of the HTTP threads.
LEMMA ClientImplements ==
    ASSUME SInv, SInv', NEW t \in Tasks, ClientStep(t) \/ Disconnect(t)
    PROVE  L!LNext \/ UNCHANGED L!lvars
  <1>1. CASE Gate(t)
    <2>1. /\ Moves /\ UNCHANGED <<rvars, svars>>
          /\ stopped' = stopped /\ (Halted' <=> Halted)
      BY <1>1 DEF Gate, Moves, EnterGate, CheckSleeping, LeaveGate, flags, loop, Halted
    <2> QED
      BY <2>1, Stutters
  <1>2. CASE SendTask(t)
    BY <1>2, PostImplements DEF L!LNext
  <1>3. CASE LeaveCancel(t)
    BY <1>3, CancelPosted DEF L!LNext
  <1>4. CASE \/ RegisterTask(t) \/ ReadResult(t) \/ SkipMetrics(t) \/ Disconnect(t)
             \/ LeaveDone(t) \/ StopReading(t)
    BY <1>4, ReaderImplements DEF L!LNext
  <1> QED
    BY <1>1, <1>2, <1>3, <1>4 DEF ClientStep

\* The steps of process_single_task().
LEMMA TaskImplements ==
    ASSUME SInv, SInv', TaskStep
    PROVE  L!LNext \/ UNCHANGED L!lvars
  <1>1. CASE LaunchFails \/ RunSlotAction \/ ReportMain
    <2>1. /\ MainHandled /\ pcM = "callback" /\ handM.type = "task"
          /\ UNCHANGED <<readers, svars>>
          /\ \E kind \in {"final", "error"} : R!Send(handM.id, kind)
      BY <1>1 DEF LaunchFails, RunSlotAction, ReportMain, Handling
    <2>2. PICK t \in Tasks : handM = TaskItem(t) /\ handM.id = t
      BY <2>1, HandTask DEF SInv
    <2>3. L!LServer(t)
      BY <2>1, <2>2, AnswerImplements DEF Halted
    <2> QED
      BY <2>3 DEF L!LNext
  <1>2. CASE DeferCompletion \/ DeferSlotAction
    <2>1. /\ Moves /\ UNCHANGED <<rvars, svars>>
          /\ stopped' = stopped /\ (Halted' <=> Halted)
      BY <1>2 DEF DeferCompletion, DeferSlotAction, MainDefer, Moves, flags, Halted
    <2> QED
      BY <2>1, Stutters
  <1>3. CASE CancelDone \/ NextResponse
    <2>1. /\ MainHandled /\ handM.type # "task" /\ UNCHANGED <<rvars, svars>>
          /\ stopped' = stopped /\ (Halted' <=> Halted)
      BY <1>3 DEF CancelDone, NextResponse, MainHandled, flags, Halted
    <2>2. ASSUME NEW t \in Tasks PROVE Life'[t] = Life[t]
      <3>1. handM # TaskItem(t) /\ ~WorkerHandled
        BY <2>1 DEF TaskItem, MainHandled, WorkerHandled, loop
      <3>2. Places(TaskItem(t))' = Places(TaskItem(t))
        BY <2>1, <3>1, HandledPlaces
      <3>3. (Unposted(t)' <=> Unposted(t)) /\ (InSlot(t)' <=> InSlot(t))
        BY <2>1 DEF Unposted, InSlot, rvars, svars
      <3> QED
        BY <3>2, <3>3, LifeSame DEF SInv, QInv
    <2>3. Life' = Life
      BY <2>2, LifeUnchanged
    <2> QED
      BY <2>1, <2>3 DEF L!lvars, L!rvars, L!responses, rvars, Life, Halted
  <1>4. CASE \E s \in Slots : LaunchSlot(s)
    BY <1>4, LaunchImplements DEF L!LNext
  <1>5. CASE \E s \in Slots : CancelRelease(s)
    BY <1>5, CancelImplements DEF L!LNext
  <1> QED
    BY <1>1, <1>2, <1>3, <1>4, <1>5 DEF TaskStep

\* The steps of update_slots().
LEMMA UpdateImplements ==
    ASSUME SInv, SInv', UpdateStep
    PROVE  L!LNext \/ UNCHANGED L!lvars
  <1>1. CASE UpdateIdle \/ UpdateActive \/ Yield \/ CatchAll \/ UpdateDone
    <2>1. Moves /\ UNCHANGED <<rvars, svars>>
      BY <1>1 DEF UpdateIdle, UpdateActive, Yield, CatchAll, UpdateDone, Moves
    <2>2. stopped' = stopped /\ (Halted' <=> Halted)
      BY <1>1 DEF UpdateIdle, UpdateActive, Yield, CatchAll, UpdateDone, MainAllIdle,
         MainPostNext, MainYield, MainCatch, MainUpdateDone, flags, Halted
    <2> QED
      BY <2>1, <2>2, Stutters
  <1>2. CASE Compute
    <2>1. MainSignal \/ MainJoin \/ \E exc \in BOOLEAN : MainWorkDone(exc)
      BY <1>2, ServerAssumption DEF Compute
    <2>2. Moves /\ UNCHANGED <<rvars, svars>>
      BY <1>2, <2>1 DEF Compute, Moves
    <2>3. stopped' = stopped /\ (Halted' <=> Halted)
      BY <2>1 DEF MainSignal, MainJoin, MainWorkDone, YieldEnd, flags, Halted
    <2> QED
      BY <2>2, <2>3, Stutters
  <1>3. CASE ReleaseSlot
    BY <1>3, ReleaseImplements
  <1>4. ASSUME NEW s \in Slots, SendPartial(s) \/ SendLast(s) \/ CatchOne(s) \/ AbortSlot(s)
        PROVE  L!LNext
    BY <1>4, EndImplements, PartialImplements DEF L!LNext
  <1> QED
    BY <1>1, <1>2, <1>3, <1>4 DEF UpdateStep

\* The rest of the two loops, and the shutdown.
LEMMA LoopImplements ==
    ASSUME SInv, SInv', Shutdown \/ MainLoop \/ ReportWorker \/ WorkerLoop
    PROVE  L!LNext \/ UNCHANGED L!lvars
  <1>1. CASE Shutdown
    <2>1. /\ ~stopped /\ stopped' = TRUE /\ Moves /\ UNCHANGED <<rvars, svars>>
          /\ (Halted' <=> Halted)
      BY <1>1 DEF Shutdown, Terminate, Moves, loop, Halted
    <2>2. Life' = Life
      BY <2>1, LivesStay DEF rvars
    <2>3. L!LTerminate
      BY <2>1, <2>2 DEF L!LTerminate, L!responses, rvars, Life, Halted
    <2> QED
      BY <2>3 DEF L!LNext
  <1>2. CASE MainLoop
    <2>1. Moves /\ UNCHANGED <<rvars, svars>> /\ stopped' = stopped
      BY <1>2 DEF MainLoop, Moves, StartLoop, MainDrain, MainRecheck, MainSleep, MainIdle,
         MainWake, MainStop, MainStopNotify, MainJoined, flags
    <2>2. (Halted' <=> Halted) \/ (MainDrain /\ pcM' = "stop")
      BY <1>2 DEF MainLoop, StartLoop, MainDrain, MainRecheck, MainSleep, MainIdle,
         MainWake, MainStop, MainStopNotify, MainJoined, Halted
    <2>3. CASE Halted' <=> Halted
      BY <2>1, <2>3, Stutters
    <2>4. CASE MainDrain /\ pcM' = "stop"
      <3>1. ~running /\ ~Halted /\ Halted' /\ pcM = "drain"
        BY <2>4 DEF MainDrain, Halted
      <3>2. stopped
        BY <3>1 DEF SInv, ReaderInv, StopOK
      <3>3. Life' = Life
        BY <2>1, LivesStay DEF rvars
      <3>4. L!LHalt
        BY <2>1, <3>1, <3>2, <3>3 DEF L!LHalt, L!rvars, L!responses, rvars, Life, Halted
      <3> QED
        BY <3>4 DEF L!LNext
    <2> QED
      BY <2>2, <2>3, <2>4
  <1>3. CASE ReportWorker
    <2>1. /\ WorkerHandled /\ UNCHANGED <<readers, svars>> /\ R!Send(handW.id, "final")
          /\ pcW = "callback" /\ RunsWhileYielding(handW)
      BY <1>3 DEF ReportWorker, WorkerHandled
    <2>2. handW.type = "task"
      BY <2>1 DEF RunsWhileYielding
    <2>3. PICK t \in Tasks : handW = TaskItem(t) /\ handW.id = t
      BY <2>2, HandTask DEF SInv
    <2>4. ~Halted
      BY <2>1 DEF SInv, QInv, Handshake, FlagsOK, WorkerActive, InYield, Halted
    <2>5. L!LServer(t)
      BY <2>1, <2>3, <2>4, AnswerImplements
    <2> QED
      BY <2>5 DEF L!LNext
  <1>4. CASE WorkerLoop
    <2>1. /\ Moves /\ UNCHANGED <<rvars, svars>>
          /\ stopped' = stopped /\ (Halted' <=> Halted)
      BY <1>4 DEF WorkerLoop, Moves, WorkerWait, WorkerDrain, WorkerDecline,
         WorkerCheck, WorkerWake, WorkerFinish, WorkerNotify, flags, loop, Halted
    <2> QED
      BY <2>1, Stutters
  <1> QED
    BY <1>1, <1>2, <1>3, <1>4

\* Every step of the server is a step of ResponseLife or leaves it alone.
LEMMA ServerImplements ==
    ASSUME SInv, SInv', [Next]_vars
    PROVE  L!LNext \/ UNCHANGED L!lvars
  <1>1. CASE UNCHANGED vars
    <2>1. /\ UNCHANGED qvars /\ UNCHANGED <<rvars, svars>>
          /\ stopped' = stopped /\ (Halted' <=> Halted)
      BY <1>1 DEF vars, qvars, flags, loop, Halted
    <2> QED
      BY <2>1, Stutters
  <1> QED
    BY <1>1, ClientImplements, TaskImplements, UpdateImplements, LoopImplements DEF Next

\* Each posted task is launched or answered once, sends its results while it runs
\* and nothing after the last one, is ended without a result only after its reader
\* cancelled it, and nothing is sent once start_loop() is on its way out: the queue,
\* the worker and the slots implement ResponseLife.
THEOREM ServerImplementsResponseLife == Spec => ImplementsResponseLife
  <1>1. Init => L!LInit
    <2> SUFFICES ASSUME Init PROVE L!LInit
      OBVIOUS
    <2>1. \A t \in Tasks : TaskLife(t) = "none"
      BY DEF Init, R!RInit, TaskLife
    <2>2. stopped = FALSE /\ ~(pcM \in {"stop", "stopping", "joining", "done"})
      BY DEF Init, QInit
    <2> QED
      BY <2>1, <2>2 DEF Init, L!LInit, L!RInit, R!RInit
  <1>2. SInv /\ SInv' /\ [Next]_vars => (UNCHANGED L!lvars \/ L!LNext)
    BY ServerImplements
  <1> QED
    BY <1>1, <1>2, ServerInvariant, PTL DEF Spec, ImplementsResponseLife

-----------------------------------------------------------------------------
(* What the readers find, by way of ResponseProofs *)

LP == INSTANCE ResponseProofs WITH
        Readers <- Tasks, IdTasks <- [t \in Tasks |-> {t}], terminated <- stopped,
        life <- [t \in Tasks |-> TaskLife(t)],
        halted <- pcM \in {"stop", "stopping", "joining", "done"}

\* ResponseProofs and Server speak of the same steps.
LEMMA SameSteps ==
    /\ L!LInit <=> LP!LInit
    /\ L!LNext <=> LP!LNext
    /\ (UNCHANGED L!lvars) <=> (UNCHANGED LP!lvars)
  <1> USE DEF L!lvars, LP!lvars, L!rvars, LP!rvars, L!responses, LP!responses
  <1>1. L!LInit <=> LP!LInit
    BY Zenon DEF L!LInit, LP!LInit, L!RInit, LP!RInit
  <1>2. (UNCHANGED L!lvars) <=> (UNCHANGED LP!lvars)
    BY Zenon
  <1>3. ASSUME NEW r PROVE L!LRegister(r) <=> LP!LRegister(r)
    BY Zenon DEF L!LRegister, LP!LRegister, L!Register, LP!Register
  <1>4. ASSUME NEW r PROVE L!LPost(r) <=> LP!LPost(r)
    BY Zenon DEF L!LPost, LP!LPost, L!Posted, LP!Posted
  <1>5. ASSUME NEW r PROVE L!LRead(r) <=> LP!LRead(r)
    BY Zenon DEF LP!LRead, L!LRead, LP!ShuttingDown, L!ShuttingDown, LP!StopRemove, L!StopRemove,
       LP!StopPurge, L!StopPurge, LP!Without, L!Without, LP!Picked, L!Picked, LP!HasNext,
       L!HasNext, LP!Receive, L!Receive, LP!ResultsFor, L!ResultsFor, LP!FirstFor, L!FirstFor, LP!RemoveAt,
       L!RemoveAt, LP!Cardinality, L!Cardinality
  <1>6. ASSUME NEW r PROVE L!LGiveUp(r) <=> LP!LGiveUp(r)
    BY Zenon DEF L!LGiveUp, LP!LGiveUp, L!GiveUp, LP!GiveUp
  <1>7. ASSUME NEW r PROVE L!LCancel(r) <=> LP!LCancel(r)
    BY Zenon DEF L!LCancel, LP!LCancel, L!StopPost, LP!StopPost
  <1>8. ASSUME NEW id PROVE L!LServer(id) <=> LP!LServer(id)
    <2>1. L!LLaunch(id) <=> LP!LLaunch(id)
      BY Zenon DEF L!LLaunch, LP!LLaunch
    <2>2. L!LAnswer(id) <=> LP!LAnswer(id)
      BY Zenon DEF L!LAnswer, LP!LAnswer, L!Send, LP!Send
    <2>3. L!LPartial(id) <=> LP!LPartial(id)
      BY Zenon DEF L!LPartial, LP!LPartial, L!Send, LP!Send, L!ResultsFor, LP!ResultsFor,
         L!Cardinality, LP!Cardinality
    <2>4. L!LEnd(id) <=> LP!LEnd(id)
      BY Zenon DEF L!LEnd, LP!LEnd, L!Send, LP!Send
    <2>5. L!LCancelled(id) <=> LP!LCancelled(id)
      BY Zenon DEF L!LCancelled, LP!LCancelled, L!HasNext, LP!HasNext, L!Cardinality,
         LP!Cardinality
    <2> QED
      BY <2>1, <2>2, <2>3, <2>4, <2>5, Zenon DEF L!LServer, LP!LServer
  <1>9. (L!LTerminate <=> LP!LTerminate) /\ (L!LHalt <=> LP!LHalt)
    BY Zenon DEF L!LTerminate, LP!LTerminate, L!LHalt, LP!LHalt
  <1> QED
    BY <1>1, <1>2, <1>3, <1>4, <1>5, <1>6, <1>7, <1>8, <1>9, Zenon DEF L!LNext, LP!LNext

\* The server is an instance of what ResponseProofs speaks of.
LEMMA IsResponseLife == Spec => LP!LSafe
  <1>1. Init => LP!LInit
    <2> SUFFICES ASSUME Init PROVE LP!LInit
      OBVIOUS
    <2>1. \A t \in Tasks : TaskLife(t) = "none"
      BY DEF Init, R!RInit, TaskLife
    <2>2. stopped = FALSE /\ ~(pcM \in {"stop", "stopping", "joining", "done"})
      BY DEF Init, QInit
    <2> QED
      BY <2>1, <2>2 DEF Init, LP!LInit, LP!RInit, R!RInit
  <1>2. SInv /\ SInv' /\ [Next]_vars => [LP!LNext]_(LP!lvars)
    BY ServerImplements, SameSteps, Zenon
  <1> QED
    BY <1>1, <1>2, ServerInvariant, PTL DEF Spec, LP!LSafe

\* What ResponseProofs assumes of its constants.
LEMMA OneIdEach ==
    /\ MaxPartials \in Nat
    /\ [t \in Tasks |-> {t}] \in [Tasks -> SUBSET Tasks]
    /\ \A r \in Tasks : /\ LP!IsFiniteSet([t \in Tasks |-> {t}][r])
                        /\ [t \in Tasks |-> {t}][r] # {}
    /\ \A r, q \in Tasks : r # q => [t \in Tasks |-> {t}][r] \cap [t \in Tasks |-> {t}][q] = {}
  <1>1. MaxPartials \in Nat
    BY ServerAssumption
  <1>2. ASSUME NEW r \in Tasks PROVE LP!IsFiniteSet({r})
    <2>1. IsFiniteSet({r})
      BY FS_Singleton
    <2>2. \A S : LP!IsFiniteSet(S) <=> IsFiniteSet(S)
      BY DEF LP!IsFiniteSet, IsFiniteSet
    <2> QED
      BY <2>1, <2>2
  <1> QED
    BY <1>1, <1>2

LEMMA ServerServes == Spec => [](LP!LInv /\ LP!Served)
  <1>1. LP!LSafe => [](LP!LInv /\ LP!Served)
    BY OneIdEach, LP!ReadersAreServed
  <1> QED
    BY <1>1, IsResponseLife

\* Type correctness of the slots, the result queue and the readers.
THEOREM ServerTypes == Spec => []STypeOK
  <1>1. SInv /\ LP!LInv => STypeOK
    <2> SUFFICES ASSUME SInv, LP!LInv PROVE STypeOK
      OBVIOUS
    <2>1. slot \in [Slots -> Tasks \cup {NoTask}] /\ ending \in Slots \cup {NoSlot}
      BY DEF SInv, SlotInv, SlotTypeOK
    <2>2. /\ waiting_task_ids \subseteq Tasks
          /\ queue_results \in Seq(LP!Result)
          /\ received \in [Tasks -> [count : Nat, ids : SUBSET Tasks]]
          /\ topurge \in [Tasks -> SUBSET Tasks]
      BY DEF LP!LInv, LP!LTypeOK
    <2>3. rpc \in [Tasks -> R!ReaderPcs]
      BY DEF SInv, ReaderInv, ReaderTypeOK
    <2>4. LP!Result = R!Result
      BY Zenon DEF LP!Result, R!Result
    <2> QED
      BY <2>1, <2>2, <2>3, <2>4 DEF STypeOK
  <1> QED
    BY <1>1, ServerInvariant, ServerServes, PTL

\* The result queue holds results of live readers only: send() drops a result nobody
\* waits for, and stop() removes the id of its reader together with its results.
THEOREM NoResultsLeftBehind == Spec => []NoResultLeftBehind
  <1>1. LP!LInv => NoResultLeftBehind
    <2> SUFFICES ASSUME LP!LInv, NEW i \in DOMAIN queue_results,
                        queue_results[i].id \notin waiting_task_ids
                 PROVE  topurge[queue_results[i].id] # {}
      BY DEF NoResultLeftBehind
    <2>1. PICK r \in Tasks : queue_results[i].id \in topurge[r]
      BY DEF LP!LInv, LP!Awaited
    <2>2. topurge[r] \subseteq {r}
      BY DEF LP!LInv, LP!Awaited
    <2> QED
      BY <2>1, <2>2
  <1> QED
    BY <1>1, ServerServes, PTL

\* No request is forgotten: while its client reads, its task is queued, in a slot, or
\* answered (yield_to_queue() puts declined tasks back "so they are not lost").
THEOREM NoRequestsForgotten == Spec => []NoRequestForgotten
  <1>1. LP!LInv /\ LP!Served => NoRequestForgotten
    <2> SUFFICES ASSUME LP!LInv, LP!Served, NEW t \in Tasks, rpc[t] = "reading",
                        ~Pending(t), ~Running(t)
                 PROVE  \E i \in DOMAIN queue_results : queue_results[i].id = t
      BY DEF NoRequestForgotten
    <2>1. TaskLife(t) = "over"
      BY DEF TaskLife, Running
    <2>2. /\ LP!HasNext(t)
          /\ \/ t \in received[t].ids
             \/ \E i \in DOMAIN queue_results : queue_results[i].id = t
      BY <2>1 DEF LP!Served, LP!ServedFor
    <2>3. t \notin received[t].ids
      <3>1. /\ received[t].ids \subseteq {t}
            /\ received[t].count = LP!Cardinality(received[t].ids)
        BY DEF LP!LInv, LP!Counted
      <3>2. received[t].count < LP!Cardinality({t})
        BY <2>2 DEF LP!HasNext
      <3>3. \A S : LP!Cardinality(S) = Cardinality(S)
        BY DEF LP!Cardinality, Cardinality
      <3>4. Cardinality({t}) = 1
        BY FS_Singleton
      <3>5. CASE t \in received[t].ids
        <4>1. received[t].ids = {t}
          BY <3>1, <3>5
        <4>2. received[t].count = 1 /\ LP!Cardinality({t}) = 1
          BY <3>1, <3>3, <3>4, <4>1
        <4> QED
          BY <3>2, <4>2
      <3> QED
        BY <3>5
    <2> QED
      BY <2>2, <2>3
  <1> QED
    BY <1>1, ServerServes, PTL
=============================================================================
