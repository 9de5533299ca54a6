------------------------- MODULE ServerQueueProofs --------------------------
(***************************************************************************)
(* Proofs about ServerQueue, for any number of HTTP threads and slots.     *)
(*                                                                         *)
(* The invariants of the two threads are not inductive by themselves: what *)
(* a notification reaches depends on who else may be blocked on the shared *)
(* condition variable.  Handshake adds where each thread is blocked and    *)
(* what the flags of worker_t say about the two program counters.          *)
(*                                                                         *)
(* That no task is queued twice is proved by counting: Places(t) is the    *)
(* number of places that hold the task, and every operation on a deque is  *)
(* a concatenation, over which the count adds up.                          *)
(***************************************************************************)
EXTENDS ServerQueue, TLAPS, SequenceTheorems, FiniteSetTheorems, WellFoundedInduction

Stopping == pcM \in {"stopping", "joining", "done"}

\* What the flags say about where the loop and the worker are.
FlagsOK ==
    /\ (pcM = "init") <=> (pcW = "off")
    /\ worker.stop <=> Stopping
    /\ pcW = "exit" => Stopping
    /\ worker.yielding <=> pcM \in {"signal", "work"}
    /\ worker.busy => InYield
    /\ WorkerActive => worker.busy
    /\ worker.exception => InYield
    /\ queue_tasks_unhandled # <<>> => InYield

\* Who may be blocked, and where.
BlockedOK ==
    /\ parked => pcW = "wait"
    /\ Worker \in waiters => pcW = "cwait"
    /\ Main \in waiters => pcM \in {"join", "idle", "asleep"}
    /\ \A t \in Tasks : t \in waiters => sleeping
    /\ sleeping => \/ pcM = "asleep"
                   \/ ~running /\ pcM \in {"drain", "stop", "stopping", "joining", "done"}

Handshake == FlagsOK /\ BlockedOK /\ NoLostWakeup

-----------------------------------------------------------------------------
(* The helpers on the deques *)

\* Removing a position of a deque leaves a deque of the same elements (the erase
\* of cleanup_pending_task and of pop_deferred_task).
LEMMA RemoveAtType ==
    ASSUME NEW S, NEW q \in Seq(S), NEW i \in 1 .. Len(q)
    PROVE  RemoveAt(q, i) \in Seq(S)
  <1>1. SubSeq(q, 1, i - 1) \in Seq(S)
    BY LenProperties, SubSeqProperties, \A m \in 1 .. i - 1 : m \in 1 .. Len(q)
  <1>2. SubSeq(q, i + 1, Len(q)) \in Seq(S)
    BY LenProperties, SubSeqProperties, \A m \in i + 1 .. Len(q) : m \in 1 .. Len(q)
  <1> QED
    BY <1>1, <1>2, ConcatProperties DEF RemoveAt

\* cleanup_pending_task() on one deque.
LEMMA EraseType ==
    ASSUME NEW S, NEW q \in Seq(S), NEW t \in Tasks
    PROVE  Erase(q, t) \in Seq(S)
  <1>1. CASE Positions(q, t) = {}
    BY <1>1 DEF Erase
  <1>2. CASE Positions(q, t) # {}
    <2>1. (CHOOSE i \in Positions(q, t) : TRUE) \in 1 .. Len(q)
      BY <1>2, LenProperties DEF Positions
    <2> QED
      BY <1>2, <2>1, RemoveAtType DEF Erase
  <1> QED
    BY <1>1, <1>2

\* A set of naturals that is not empty has a least element.
LEMMA LeastElement ==
    ASSUME NEW T, T \subseteq Nat, T # {}
    PROVE  \E i \in T : \A j \in T : i <= j
  <1>1. PICK i \in T : \A j \in T : ~(<<j, i>> \in OpToRel(<, Nat))
    BY NatLessThanWellFounded, WFMin, Zenon
  <1>2. \A j \in T : ~(j < i)
    BY <1>1, Zenon DEF OpToRel
  <1> QED
    BY <1>2

\* pop_deferred_task() picks a task that is there.
LEMMA PickInDeferred ==
    ASSUME QTypeOK, queue_tasks_deferred # <<>>, NEW s
    PROVE  DeferredPick(s) \in 1 .. Len(queue_tasks_deferred)
  <1> DEFINE asks == {i \in DOMAIN queue_tasks_deferred :
                        IdSlot[queue_tasks_deferred[i].id] = s}
  <1>1. /\ queue_tasks_deferred \in Seq(TaskItems)
        /\ DOMAIN queue_tasks_deferred = 1 .. Len(queue_tasks_deferred)
        /\ Len(queue_tasks_deferred) \in Nat
        /\ Len(queue_tasks_deferred) # 0
    BY LenProperties, EmptySeq DEF QTypeOK
  <1>2. CASE asks = {}
    BY <1>1, <1>2 DEF DeferredPick
  <1>3. CASE asks # {}
    <2>0. asks \subseteq Nat
      BY <1>1
    <2>1. \E i \in asks : \A j \in asks : i <= j
      <3> HIDE DEF asks
      <3> QED
        BY <1>3, <2>0, LeastElement
    <2>2. (CHOOSE i \in asks : \A j \in asks : i <= j) \in asks
      BY <2>1
    <2> QED
      BY <1>1, <1>3, <2>2 DEF DeferredPick
  <1> QED
    BY <1>2, <1>3

-----------------------------------------------------------------------------
(* Type correctness *)

LEMMA ItemTypes ==
    ASSUME NEW t \in Tasks
    PROVE  TaskItem(t) \in Item /\ CancelItem(t) \in Item /\ NextItem \in Item
  BY DEF TaskItems, Item

LEMMA NextItemType == NextItem \in Item
  BY DEF Item

\* defer() keeps tasks only: what is deferred can be queued again.
LEMMA DeferredAreItems ==
    ASSUME NEW q \in Seq(TaskItems)
    PROVE  q \in Seq(Item)
  BY SeqMonotonic DEF Item

\* pop_deferred_task() keeps the types of the deques.
LEMMA PopDeferredType ==
    ASSUME QTypeOK, NEW s \in Slots, PopDeferredTask(s)
    PROVE  /\ queue_tasks' \in Seq(Item)
           /\ queue_tasks_deferred' \in Seq(TaskItems)
           /\ queue_tasks_unhandled' \in Seq(Item)
           /\ waiters' \subseteq Threads
  <1>1. waiters' \subseteq Threads
    BY DEF PopDeferredTask, NotifyOne, Notified, QTypeOK
  <1>2. CASE queue_tasks_deferred = <<>>
    BY <1>1, <1>2 DEF PopDeferredTask, queues, QTypeOK
  <1>3. CASE queue_tasks_deferred # <<>>
    <2> DEFINE i == DeferredPick(s)
    <2>1. i \in 1 .. Len(queue_tasks_deferred)
      BY <1>3, PickInDeferred
    <2>2. queue_tasks_deferred[i] \in Item
      BY <2>1, ElementOfSeq DEF QTypeOK, Item
    <2>3. <<queue_tasks_deferred[i]>> \o queue_tasks \in Seq(Item)
      <3> HIDE DEF i
      <3> QED
        BY <2>2, ConcatProperties DEF QTypeOK
    <2>4. RemoveAt(queue_tasks_deferred, i) \in Seq(TaskItems)
      <3> HIDE DEF i
      <3> QED
        BY <2>1, RemoveAtType DEF QTypeOK
    <2> QED
      BY <1>1, <1>3, <2>3, <2>4 DEF PopDeferredTask, QTypeOK
  <1> QED
    BY <1>2, <1>3

\* Every step of the queue keeps the types.
LEMMA TypeStep ==
    ASSUME QTypeOK, [QNext]_qvars
    PROVE  QTypeOK'
  <1>1. ASSUME NEW t \in Tasks, EnterGate(t) PROVE QTypeOK'
    <2>1. waiters' \subseteq Threads
      BY <1>1 DEF QTypeOK, EnterGate, Notified, Threads
    <2> QED
      BY <1>1, <2>1 DEF QTypeOK, EnterGate, ClientPcs, queues, flags, loop, wthread
  <1>2. ASSUME NEW t \in Tasks, CheckSleeping(t) PROVE QTypeOK'
    BY <1>2 DEF QTypeOK, CheckSleeping, ClientPcs, queues, flags, loop, wthread
  <1>3. ASSUME NEW t \in Tasks, LeaveGate(t) PROVE QTypeOK'
    BY <1>3 DEF QTypeOK, LeaveGate, Threads, ClientPcs, queues, flags, loop, wthread
  <1>4. ASSUME NEW t \in Tasks, PostTask(t) PROVE QTypeOK'
    BY <1>4, ItemTypes, AppendProperties, ConcatProperties DEF QTypeOK, PostTask, NotifyOne, Notified, Threads, ClientPcs, queues, flags, loop, wthread
  <1>5. ASSUME NEW t \in Tasks, PostCancel(t) PROVE QTypeOK'
    BY <1>5, ItemTypes, EraseType, ConcatProperties
       DEF QTypeOK, PostCancel, CleanupPendingTask, NotifyOne, Notified, Threads, ClientPcs, queues, flags, loop, wthread
  <1>6. ASSUME NEW t \in Tasks, Finish(t) PROVE QTypeOK'
    BY <1>6 DEF QTypeOK, Finish, ClientPcs, queues, flags, loop, wthread
  <1>7. ASSUME Terminate PROVE QTypeOK'
    BY <1>7 DEF QTypeOK, Terminate, NotifyAll, queues, flags, loop, wthread
  <1>8. ASSUME StartLoop PROVE QTypeOK'
    BY <1>8 DEF QTypeOK, StartLoop, WorkerPcs, MainPcs, queues, flags, loop, wthread
  <1>9. ASSUME MainDrain PROVE QTypeOK'
    <2>1. queue_tasks' \in Seq(Item) /\ handM' \in Item
      <3>1. CASE UNCHANGED <<handM, queue_tasks>>
        BY <3>1 DEF QTypeOK
      <3>2. CASE queue_tasks # <<>> /\ handM' = Head(queue_tasks) /\ queue_tasks' = Tail(queue_tasks)
        BY <3>2, HeadTailProperties DEF QTypeOK
      <3> QED
        BY <1>9, <3>1, <3>2 DEF MainDrain
    <2> QED
      BY <1>9, <2>1 DEF QTypeOK, MainDrain, MainPcs, queues, flags, loop, wthread
  <1>10. ASSUME MainDefer PROVE QTypeOK'
    <2>1. handM \in TaskItems
      BY <1>10 DEF QTypeOK, MainDefer, Item, CancelItem, NextItem
    <2>2. queue_tasks_deferred' \in Seq(TaskItems)
      BY <1>10, <2>1, AppendProperties DEF QTypeOK, MainDefer
    <2>3. waiters' \subseteq Threads
      BY <1>10 DEF QTypeOK, MainDefer, NotifyOne, Notified
    <2> QED
      BY <1>10, <2>2, <2>3, NextItemType DEF QTypeOK, MainDefer, MainPcs, queues, flags, loop, wthread
  <1>11. ASSUME MainHandled PROVE QTypeOK'
    BY <1>11, NextItemType DEF QTypeOK, MainHandled, MainPcs, queues, flags, loop, wthread
  <1>12. ASSUME NEW s \in Slots, MainRelease(s) PROVE QTypeOK'
    BY <1>12, PopDeferredType DEF QTypeOK, MainRelease, queues, flags, loop, wthread
  <1>13. ASSUME MainAllIdle PROVE QTypeOK'
    BY <1>13 DEF QTypeOK, MainAllIdle, MainPcs, queues, flags, loop, wthread
  <1>14. ASSUME MainPostNext PROVE QTypeOK'
    BY <1>14, NextItemType, AppendProperties
       DEF QTypeOK, MainPostNext, NotifyOne, Notified, MainPcs, queues, flags, loop, wthread
  <1>15. ASSUME MainYield PROVE QTypeOK'
    BY <1>15 DEF QTypeOK, MainYield, MainPcs, queues, flags, loop, wthread
  <1>16. ASSUME MainSignal PROVE QTypeOK'
    BY <1>16 DEF QTypeOK, MainSignal, MainPcs, queues, flags, loop, wthread
  <1>17. ASSUME NEW exc \in BOOLEAN, MainWorkDone(exc) PROVE QTypeOK'
    <2>1. queue_tasks' \in Seq(Item) /\ queue_tasks_unhandled' \in Seq(Item)
      <3>1. queue_tasks_unhandled \o queue_tasks \in Seq(Item) /\ <<>> \in Seq(Item)
        BY ConcatProperties, EmptySeq DEF QTypeOK
      <3> QED
        BY <1>17, <3>1 DEF QTypeOK, MainWorkDone, YieldEnd, queues
    <2>2. raised' \in BOOLEAN
      BY <1>17, Zenon DEF QTypeOK, MainWorkDone, YieldEnd
    <2> QED
      BY <1>17, <2>1, <2>2 DEF QTypeOK, MainWorkDone, YieldEnd, NotifyAll, Threads, Main, MainPcs, queues, flags, loop, wthread
  <1>18. ASSUME MainJoin PROVE QTypeOK'
    <2>1. queue_tasks' \in Seq(Item) /\ queue_tasks_unhandled' \in Seq(Item)
      <3>1. queue_tasks_unhandled \o queue_tasks \in Seq(Item) /\ <<>> \in Seq(Item)
        BY ConcatProperties, EmptySeq DEF QTypeOK
      <3> QED
        BY <1>18, <3>1 DEF QTypeOK, MainJoin, YieldEnd, queues
    <2>2. raised' \in BOOLEAN
      BY <1>18, Zenon DEF QTypeOK, MainJoin, YieldEnd
    <2> QED
      BY <1>18, <2>1, <2>2 DEF QTypeOK, MainJoin, YieldEnd, Threads, Main, MainPcs, queues, flags, loop, wthread
  <1>19. ASSUME MainCatch PROVE QTypeOK'
    BY <1>19 DEF QTypeOK, MainCatch, MainPcs, queues, flags, loop, wthread
  <1>20. ASSUME MainUpdateDone PROVE QTypeOK'
    BY <1>20 DEF QTypeOK, MainUpdateDone, MainPcs, queues, flags, loop, wthread
  <1>21. ASSUME MainRecheck PROVE QTypeOK'
    BY <1>21 DEF QTypeOK, MainRecheck, Threads, Main, MainPcs, queues, flags, loop, wthread
  <1>22. ASSUME MainSleep PROVE QTypeOK'
    BY <1>22 DEF QTypeOK, MainSleep, Threads, Main, MainPcs, queues, flags, loop, wthread
  <1>23. ASSUME MainIdle PROVE QTypeOK'
    BY <1>23 DEF QTypeOK, MainIdle, Threads, Main, MainPcs, queues, flags, loop, wthread
  <1>24. ASSUME MainWake PROVE QTypeOK'
    BY <1>24 DEF QTypeOK, MainWake, NotifyAll, Threads, Main, MainPcs, queues, flags, loop, wthread
  <1>25. ASSUME MainStop PROVE QTypeOK'
    BY <1>25 DEF QTypeOK, MainStop, MainPcs, queues, flags, loop, wthread
  <1>26. ASSUME MainStopNotify PROVE QTypeOK'
    BY <1>26 DEF QTypeOK, MainStopNotify, NotifyAll, MainPcs, queues, flags, loop, wthread
  <1>27. ASSUME MainJoined PROVE QTypeOK'
    BY <1>27 DEF QTypeOK, MainJoined, MainPcs, queues, flags, loop, wthread
  <1>28. ASSUME WorkerWait PROVE QTypeOK'
    BY <1>28 DEF QTypeOK, WorkerWait, WorkerPcs, queues, flags, loop, wthread
  <1>29. ASSUME WorkerDrain PROVE QTypeOK'
    <2>1. queue_tasks' \in Seq(Item) /\ handW' \in Item
      <3>1. CASE UNCHANGED <<handW, queue_tasks>>
        BY <3>1 DEF QTypeOK
      <3>2. CASE queue_tasks # <<>> /\ handW' = Head(queue_tasks) /\ queue_tasks' = Tail(queue_tasks)
        BY <3>2, HeadTailProperties DEF QTypeOK
      <3> QED
        BY <1>29, <3>1, <3>2 DEF WorkerDrain
    <2> QED
      BY <1>29, <2>1 DEF QTypeOK, WorkerDrain, WorkerPcs, queues, flags, loop, wthread
  <1>30. ASSUME WorkerDecline PROVE QTypeOK'
    BY <1>30, NextItemType, AppendProperties DEF QTypeOK, WorkerDecline, WorkerPcs, queues, flags, loop, wthread
  <1>31. ASSUME WorkerHandled PROVE QTypeOK'
    BY <1>31, NextItemType DEF QTypeOK, WorkerHandled, WorkerPcs, queues, flags, loop, wthread
  <1>32. ASSUME WorkerThrow PROVE QTypeOK'
    BY <1>32, NextItemType DEF QTypeOK, WorkerThrow, WorkerPcs, queues, flags, loop, wthread
  <1>33. ASSUME WorkerCheck PROVE QTypeOK'
    BY <1>33 DEF QTypeOK, WorkerCheck, Threads, Worker, WorkerPcs, queues, flags, loop, wthread
  <1>34. ASSUME WorkerWake PROVE QTypeOK'
    BY <1>34 DEF QTypeOK, WorkerWake, Threads, Worker, WorkerPcs, queues, flags, loop, wthread
  <1>35. ASSUME WorkerFinish PROVE QTypeOK'
    BY <1>35 DEF QTypeOK, WorkerFinish, WorkerPcs, queues, flags, loop, wthread
  <1>36. ASSUME WorkerNotify PROVE QTypeOK'
    BY <1>36 DEF QTypeOK, WorkerNotify, NotifyAll, WorkerPcs, queues, flags, loop, wthread
  <1>37. ASSUME UNCHANGED qvars PROVE QTypeOK'
    BY <1>37 DEF QTypeOK, qvars, queues, flags, loop, wthread
  <1> QED
    BY <1>1, <1>2, <1>3, <1>4, <1>5, <1>6, <1>7, <1>8, <1>9, <1>10, <1>11, <1>12,
       <1>13, <1>14, <1>15, <1>16, <1>17, <1>18, <1>19, <1>20, <1>21, <1>22, <1>23,
       <1>24, <1>25, <1>26, <1>27, <1>28, <1>29, <1>30, <1>31, <1>32, <1>33, <1>34,
       <1>35, <1>36, <1>37
       DEF QNext, QClient, QMain, QWorker

\* The queue starts with everything in its type.
LEMMA TypeStarts == QInit => QTypeOK
  <1> SUFFICES ASSUME QInit PROVE QTypeOK
    OBVIOUS
  <1>1. \A S : <<>> \in Seq(S)
    BY EmptySeq
  <1> QED
    BY <1>1, NextItemType DEF QInit, QTypeOK, MainPcs, WorkerPcs, ClientPcs

\* Type correctness of the queue, its threads and its clients.
THEOREM TypeCorrect == QSpec => []QTypeOK
  BY TypeStarts, TypeStep, PTL DEF QSpec

-----------------------------------------------------------------------------
(* The handshake of the two threads *)

\* The worker never shares condition_tasks: the loop is computing, and nobody is
\* in the gate while it is.  So a notify_one() reaches the worker.
LEMMA NotifyReachesWorker ==
    ASSUME QTypeOK, Handshake, NotifyOne
    PROVE  Worker \notin waiters' /\ waiters' \subseteq waiters
  <1>1. Worker \in waiters => waiters = {Worker}
    <2> SUFFICES ASSUME Worker \in waiters, NEW x \in waiters, x # Worker PROVE FALSE
      OBVIOUS
    <2>1. pcM \in {"signal", "work"} /\ running
      BY DEF Handshake, FlagsOK, BlockedOK, NoLostWakeup
    <2>2. CASE x = Main
      BY <2>1, <2>2 DEF Handshake, BlockedOK
    <2>3. CASE x \in Tasks
      BY <2>1, <2>3 DEF Handshake, BlockedOK
    <2> QED
      BY <2>2, <2>3 DEF QTypeOK, Threads
  <1> QED
    BY <1>1 DEF NotifyOne, Notified

\* There is nothing to erase in an empty deque.
LEMMA EraseEmpty == \A t \in Tasks : Erase(<<>>, t) = <<>>
  BY DEF Erase, Positions

\* Every step keeps the handshake.
LEMMA HandshakeStep ==
    ASSUME QTypeOK, Handshake, [QNext]_qvars
    PROVE  Handshake'
  <1> USE QueueAssumption DEF Handshake, FlagsOK, BlockedOK, NoLostWakeup, Stopping, InYield,
          WorkerActive, Main, Worker, queues, flags, loop, wthread
  <1>1. ASSUME NEW t \in Tasks, EnterGate(t) PROVE Handshake'
    BY <1>1 DEF QTypeOK, EnterGate, Notified
  <1>2. ASSUME NEW t \in Tasks, CheckSleeping(t) PROVE Handshake'
    BY <1>2 DEF QTypeOK, CheckSleeping
  <1>3. ASSUME NEW t \in Tasks, LeaveGate(t) PROVE Handshake'
    BY <1>3 DEF QTypeOK, LeaveGate
  <1>4. ASSUME NEW t \in Tasks, PostTask(t) PROVE Handshake'
    BY <1>4, NotifyReachesWorker DEF QTypeOK, PostTask
  <1>5. ASSUME NEW t \in Tasks, PostCancel(t) PROVE Handshake'
    BY <1>5, NotifyReachesWorker, EraseEmpty DEF QTypeOK, PostCancel, CleanupPendingTask
  <1>6. ASSUME NEW t \in Tasks, Finish(t) PROVE Handshake'
    BY <1>6 DEF QTypeOK, Finish
  <1>7. ASSUME Terminate PROVE Handshake'
    BY <1>7 DEF QTypeOK, Terminate, NotifyAll
  <1>8. ASSUME StartLoop PROVE Handshake'
    BY <1>8 DEF QTypeOK, StartLoop
  <1>9. ASSUME MainDrain PROVE Handshake'
    BY <1>9 DEF QTypeOK, MainDrain
  <1>10. ASSUME MainDefer PROVE Handshake'
    BY <1>10 DEF QTypeOK, MainDefer, NotifyOne, Notified
  <1>11. ASSUME MainHandled PROVE Handshake'
    BY <1>11 DEF QTypeOK, MainHandled
  <1>12. ASSUME NEW s \in Slots, MainRelease(s) PROVE Handshake'
    BY <1>12 DEF QTypeOK, MainRelease, PopDeferredTask, NotifyOne, Notified
  <1>13. ASSUME MainAllIdle PROVE Handshake'
    BY <1>13 DEF QTypeOK, MainAllIdle
  <1>14. ASSUME MainPostNext PROVE Handshake'
    BY <1>14 DEF QTypeOK, MainPostNext, NotifyOne, Notified
  <1>15. ASSUME MainYield PROVE Handshake'
    BY <1>15 DEF QTypeOK, MainYield
  <1>16. ASSUME MainSignal PROVE Handshake'
    BY <1>16 DEF QTypeOK, MainSignal
  <1>17. ASSUME NEW exc \in BOOLEAN, MainWorkDone(exc) PROVE Handshake'
    <2>1. CASE worker.busy
      BY <1>17, <2>1 DEF QTypeOK, MainWorkDone
    <2>2. CASE ~worker.busy
      <3>1. FlagsOK'
        BY <1>17, <2>2 DEF QTypeOK, MainWorkDone, YieldEnd, NotifyAll
      <3>2. BlockedOK' /\ NoLostWakeup'
        BY <1>17, <2>2 DEF QTypeOK, MainWorkDone, YieldEnd, NotifyAll
      <3> QED
        BY <3>1, <3>2
    <2> QED
      BY <2>1, <2>2
  <1>18. ASSUME MainJoin PROVE Handshake'
    <2>1. CASE worker.busy
      BY <1>18, <2>1 DEF QTypeOK, MainJoin
    <2>2. CASE ~worker.busy
      <3>1. FlagsOK'
        BY <1>18, <2>2 DEF QTypeOK, MainJoin, YieldEnd
      <3>2. BlockedOK' /\ NoLostWakeup'
        BY <1>18, <2>2 DEF QTypeOK, MainJoin, YieldEnd
      <3> QED
        BY <3>1, <3>2
    <2> QED
      BY <2>1, <2>2
  <1>19. ASSUME MainCatch PROVE Handshake'
    BY <1>19 DEF QTypeOK, MainCatch
  <1>20. ASSUME MainUpdateDone PROVE Handshake'
    BY <1>20 DEF QTypeOK, MainUpdateDone
  <1>21. ASSUME MainRecheck PROVE Handshake'
    BY <1>21 DEF QTypeOK, MainRecheck
  <1>22. ASSUME MainSleep PROVE Handshake'
    BY <1>22 DEF QTypeOK, MainSleep
  <1>23. ASSUME MainIdle PROVE Handshake'
    BY <1>23 DEF QTypeOK, MainIdle
  <1>24. ASSUME MainWake PROVE Handshake'
    BY <1>24 DEF QTypeOK, MainWake, NotifyAll
  <1>25. ASSUME MainStop PROVE Handshake'
    BY <1>25 DEF QTypeOK, MainStop
  <1>26. ASSUME MainStopNotify PROVE Handshake'
    BY <1>26 DEF QTypeOK, MainStopNotify, NotifyAll
  <1>27. ASSUME MainJoined PROVE Handshake'
    BY <1>27 DEF QTypeOK, MainJoined
  <1>28. ASSUME WorkerWait PROVE Handshake'
    BY <1>28 DEF QTypeOK, WorkerWait
  <1>29. ASSUME WorkerDrain PROVE Handshake'
    BY <1>29 DEF QTypeOK, WorkerDrain
  <1>30. ASSUME WorkerDecline PROVE Handshake'
    BY <1>30 DEF QTypeOK, WorkerDecline
  <1>31. ASSUME WorkerHandled PROVE Handshake'
    BY <1>31 DEF QTypeOK, WorkerHandled
  <1>32. ASSUME WorkerThrow PROVE Handshake'
    BY <1>32 DEF QTypeOK, WorkerThrow
  <1>33. ASSUME WorkerCheck PROVE Handshake'
    BY <1>33 DEF QTypeOK, WorkerCheck
  <1>34. ASSUME WorkerWake PROVE Handshake'
    BY <1>34 DEF QTypeOK, WorkerWake
  <1>35. ASSUME WorkerFinish PROVE Handshake'
    BY <1>35 DEF QTypeOK, WorkerFinish
  <1>36. ASSUME WorkerNotify PROVE Handshake'
    BY <1>36 DEF QTypeOK, WorkerNotify, NotifyAll
  <1>37. ASSUME UNCHANGED qvars PROVE Handshake'
    BY <1>37 DEF QTypeOK, qvars
  <1> HIDE DEF Handshake, queues, flags, loop, wthread
  <1> QED
    BY <1>1, <1>2, <1>3, <1>4, <1>5, <1>6, <1>7, <1>8, <1>9, <1>10, <1>11, <1>12,
       <1>13, <1>14, <1>15, <1>16, <1>17, <1>18, <1>19, <1>20, <1>21, <1>22, <1>23,
       <1>24, <1>25, <1>26, <1>27, <1>28, <1>29, <1>30, <1>31, <1>32, <1>33, <1>34,
       <1>35, <1>36, <1>37
       DEF QNext, QClient, QMain, QWorker

\* The inductive invariant: the types and the handshake.
THEOREM HandshakeInvariant == QSpec => [](QTypeOK /\ Handshake)
  <1>1. QInit => Handshake
    BY DEF QInit, Handshake, FlagsOK, BlockedOK, NoLostWakeup, Stopping, InYield, WorkerActive
  <1>2. QTypeOK /\ Handshake /\ [QNext]_qvars => Handshake'
    BY HandshakeStep
  <1> QED
    BY <1>1, <1>2, TypeCorrect, PTL DEF QSpec

\* The worker runs callbacks only while the loop thread is inside
\* yield_to_queue(): the two never touch the slots at the same time.
THEOREM WorkerConfined == QSpec => []WorkerOnlyInYield
  <1>1. Handshake => WorkerOnlyInYield
    BY DEF Handshake, FlagsOK, WorkerOnlyInYield
  <1> QED
    BY <1>1, HandshakeInvariant, PTL

\* A yield that is over leaves no declined task, no exception and no flag behind.
THEOREM YieldClean == QSpec => []YieldLeavesNothing
  <1>1. QTypeOK /\ Handshake => YieldLeavesNothing
    BY DEF Handshake, FlagsOK, YieldLeavesNothing, InYield
  <1> QED
    BY <1>1, HandshakeInvariant, PTL

\* No thread stays blocked on condition_tasks or worker.cv with its condition true
\* and no notification to come.
THEOREM WakeupsArrive == QSpec => []NoLostWakeup
  <1>1. Handshake => NoLostWakeup
    BY DEF Handshake
  <1> QED
    BY <1>1, HandshakeInvariant, PTL

-----------------------------------------------------------------------------
(* How often an item is in a deque *)

\* The positions of a deque that hold an item, and how many they are.
At(q, x) == {i \in DOMAIN q : q[i] = x}
Occ(q, x) == Cardinality(At(q, x))

\* Whether a thread holds the item.
Held(item, x) == IF item = x THEN 1 ELSE 0

\* The positions of an item are finitely many, and none when it is not there.
LEMMA OccNat ==
    ASSUME NEW S, NEW q \in Seq(S), NEW x
    PROVE  /\ Occ(q, x) \in Nat /\ IsFiniteSet(At(q, x))
           /\ Occ(q, x) = 0 <=> \A i \in DOMAIN q : q[i] # x
  <1>1. IsFiniteSet(1 .. Len(q))
    BY FS_Interval, LenProperties
  <1>2. At(q, x) \in SUBSET (1 .. Len(q))
    BY LenProperties DEF At
  <1>3. IsFiniteSet(At(q, x))
    BY <1>1, <1>2, FS_Subset
  <1>4. Occ(q, x) = 0 <=> At(q, x) = {}
    BY <1>3, FS_EmptySet DEF Occ
  <1> QED
    BY <1>3, <1>4, FS_CardinalityType DEF Occ, At

\* Putting two deques together puts the occurrences together.
LEMMA OccConcat ==
    ASSUME NEW S, NEW p \in Seq(S), NEW q \in Seq(S), NEW x
    PROVE  Occ(p \o q, x) = Occ(p, x) + Occ(q, x)
  <1> DEFINE P == At(p, x)
             Q == At(q, x)
             R == At(p \o q, x) \ P
             f == [i \in Q |-> i + Len(p)]
  <1>1. /\ Len(p) \in Nat /\ DOMAIN p = 1 .. Len(p)
        /\ Len(q) \in Nat /\ DOMAIN q = 1 .. Len(q)
        /\ p \o q \in Seq(S) /\ DOMAIN (p \o q) = 1 .. Len(p) + Len(q)
    BY ConcatProperties, LenProperties
  <1>2. \A i \in 1 .. Len(p) + Len(q) :
           (p \o q)[i] = IF i <= Len(p) THEN p[i] ELSE q[i - Len(p)]
    BY ConcatProperties
  <1>3. /\ P \subseteq 1 .. Len(p)
        /\ Q \subseteq 1 .. Len(q)
        /\ P \subseteq At(p \o q, x)
    BY <1>1, <1>2 DEF At
  <1>4. R = {i \in Len(p) + 1 .. Len(p) + Len(q) : q[i - Len(p)] = x}
    BY <1>1, <1>2 DEF At
  <1>5. \A i \in Q : i + Len(p) \in R
    BY <1>1, <1>4 DEF At
  <1>6. \A i \in R : i - Len(p) \in Q
    BY <1>1, <1>4 DEF At
  <1>7. f \in Bijection(Q, R)
    <2>1. f \in [Q -> R]
      BY <1>5
    <2>2. \A i, j \in Q : f[i] = f[j] => i = j
      BY <1>1, <1>3
    <2>3. \A r \in R : \E i \in Q : f[i] = r
      <3> SUFFICES ASSUME NEW r \in R PROVE \E i \in Q : f[i] = r
        OBVIOUS
      <3>1. r - Len(p) \in Q /\ r \in Int
        BY <1>1, <1>4, <1>6
      <3>2. f[r - Len(p)] = r
        BY <1>1, <3>1
      <3> QED
        BY <3>1, <3>2
    <2> HIDE DEF f, Q, R
    <2> QED
      BY <2>1, <2>2, <2>3 DEF Bijection, Injection, Surjection, IsInjective
  <1>8. /\ IsFiniteSet(P) /\ Cardinality(P) \in Nat
        /\ IsFiniteSet(Q) /\ Cardinality(Q) \in Nat
    BY OccNat DEF Occ
  <1>9. IsFiniteSet(R) /\ Cardinality(R) = Cardinality(Q)
    <2> HIDE DEF Q, R, f
    <2> QED
      BY <1>7, <1>8, FS_Bijection DEF ExistsBijection
  <1>10. At(p \o q, x) = P \cup R /\ P \cap R = {}
    BY <1>3
  <1>11. Cardinality(P \cup R) = Cardinality(P) + Cardinality(R)
    <2> HIDE DEF P, Q, R
    <2>1. Cardinality(P \cup R) = Cardinality(P) + Cardinality(R) - Cardinality(P \cap R)
      BY <1>8, <1>9, FS_Union
    <2>2. Cardinality(P \cap R) = 0
      BY <1>10, FS_EmptySet
    <2> QED
      BY <1>8, <1>9, <2>1, <2>2
  <1> QED
    BY <1>8, <1>9, <1>10, <1>11 DEF Occ

\* An empty deque holds nothing, a deque of one item that item.
LEMMA OccSmall ==
    ASSUME NEW x, NEW y
    PROVE  Occ(<<>>, x) = 0 /\ Occ(<<y>>, x) = Held(y, x)
  <1>1. At(<<>>, x) = {}
    BY DEF At
  <1>2. At(<<y>>, x) = IF y = x THEN {1} ELSE {}
    BY DEF At
  <1> QED
    BY <1>1, <1>2, FS_EmptySet, FS_Singleton DEF Occ, Held

\* push_front and push_back add the item.
LEMMA OccPush ==
    ASSUME NEW S, NEW q \in Seq(S), NEW y \in S, NEW x
    PROVE  /\ Occ(<<y>> \o q, x) = Held(y, x) + Occ(q, x)
           /\ Occ(Append(q, y), x) = Occ(q, x) + Held(y, x)
  <1>1. <<y>> \in Seq(S)
    OBVIOUS
  <1>2. Append(q, y) = q \o <<y>>
    BY AppendIsConcat
  <1>3. Occ(<<y>> \o q, x) = Occ(<<y>>, x) + Occ(q, x)
    BY <1>1, OccConcat
  <1>4. Occ(q \o <<y>>, x) = Occ(q, x) + Occ(<<y>>, x)
    BY <1>1, OccConcat
  <1>5. Occ(<<y>>, x) = Held(y, x)
    BY OccSmall
  <1> QED
    BY <1>2, <1>3, <1>4, <1>5

\* pop_front takes the first item out.
LEMMA OccPop ==
    ASSUME NEW S, NEW q \in Seq(S), q # <<>>, NEW x
    PROVE  Occ(q, x) = Held(Head(q), x) + Occ(Tail(q), x)
  <1>1. Head(q) \in S /\ Tail(q) \in Seq(S)
    BY HeadTailProperties
  <1>2. q = <<Head(q)>> \o Tail(q)
    <2>1. Len(q) \in Nat /\ 1 \in 1 .. Len(q) /\ Len(q) \in 1 .. Len(q)
      BY EmptySeq, LenProperties
    <2>2. SubSeq(q, 1, Len(q)) = <<q[1]>> \o SubSeq(q, 2, Len(q))
      BY <2>1, SubSeqRecursiveFirst
    <2>3. Tail(q) = SubSeq(q, 2, Len(q)) /\ SubSeq(q, 1, Len(q)) = q
      BY TailIsSubSeq, SubSeqFull
    <2>4. Head(q) = q[1]
      OBVIOUS
    <2> QED
      BY <2>2, <2>3, <2>4
  <1>3. Occ(<<Head(q)>> \o Tail(q), x) = Held(Head(q), x) + Occ(Tail(q), x)
    BY <1>1, OccPush
  <1> QED
    BY <1>2, <1>3

\* Removing a position takes its item out, and nothing else.
LEMMA OccRemoveAt ==
    ASSUME NEW S, NEW q \in Seq(S), NEW i \in 1 .. Len(q), NEW x
    PROVE  Occ(q, x) = Held(q[i], x) + Occ(RemoveAt(q, i), x)
  <1> DEFINE a == SubSeq(q, 1, i - 1)
             b == SubSeq(q, i + 1, Len(q))
  <1>1. Len(q) \in Nat /\ i \in Int /\ q[i] \in S
    BY LenProperties, ElementOfSeq
  <1>2. a \in Seq(S)
    BY <1>1, SubSeqProperties, ElementOfSeq, \A m \in 1 .. i - 1 : m \in 1 .. Len(q)
  <1>3. b \in Seq(S)
    BY <1>1, SubSeqProperties, ElementOfSeq, \A m \in i + 1 .. Len(q) : m \in 1 .. Len(q)
  <1>4. q = a \o (<<q[i]>> \o b)
    <2>1. Len(q) \in i .. Len(q)
      BY <1>1
    <2>2. SubSeq(q, i, Len(q)) = <<q[i]>> \o b
      BY <2>1, SubSeqRecursiveFirst
    <2>3. /\ 1 \in 1 .. Len(q) + 1
          /\ i - 1 \in 1 - 1 .. Len(q)
          /\ Len(q) \in i - 1 .. Len(q)
      BY <1>1
    <2>4. SubSeq(q, 1, i - 1) \o SubSeq(q, (i - 1) + 1, Len(q)) = SubSeq(q, 1, Len(q))
      BY <2>3, ConcatAdjacentSubSeq
    <2>5. (i - 1) + 1 = i
      BY <1>1
    <2> QED
      BY <2>2, <2>4, <2>5, SubSeqFull
  <1> HIDE DEF a, b
  <1>5. <<q[i]>> \o b \in Seq(S)
    BY <1>1, <1>3, ConcatProperties
  <1>6. Occ(q, x) = Occ(a, x) + (Held(q[i], x) + Occ(b, x))
    <2>1. Occ(a \o (<<q[i]>> \o b), x) = Occ(a, x) + Occ(<<q[i]>> \o b, x)
      BY <1>2, <1>5, OccConcat
    <2>2. Occ(<<q[i]>> \o b, x) = Held(q[i], x) + Occ(b, x)
      BY <1>1, <1>3, OccPush
    <2> QED
      BY <1>4, <2>1, <2>2
  <1>7. Occ(RemoveAt(q, i), x) = Occ(a, x) + Occ(b, x)
    BY <1>2, <1>3, OccConcat DEF RemoveAt, a, b
  <1>8. Occ(a, x) \in Nat /\ Occ(b, x) \in Nat /\ Held(q[i], x) \in Nat
    BY <1>2, <1>3, OccNat DEF Held
  <1> QED
    BY <1>6, <1>7, <1>8

\* Erasing a task takes one place of it out, if there is one, and nothing else.
LEMMA OccErase ==
    ASSUME NEW S, NEW q \in Seq(S), NEW u, NEW x
    PROVE  Occ(Erase(q, u), x)
           = IF x = TaskItem(u) /\ Occ(q, x) # 0 THEN Occ(q, x) - 1 ELSE Occ(q, x)
  <1>1. Positions(q, u) = At(q, TaskItem(u))
    BY DEF Positions, At
  <1>2. CASE Positions(q, u) = {}
    <2>1. Occ(q, TaskItem(u)) = 0
      BY <1>1, <1>2, FS_EmptySet DEF Occ
    <2> QED
      BY <1>2, <2>1 DEF Erase
  <1>3. CASE Positions(q, u) # {}
    <2> DEFINE i == CHOOSE i \in Positions(q, u) : TRUE
    <2>1. i \in 1 .. Len(q) /\ q[i] = TaskItem(u)
      BY <1>3, LenProperties DEF Positions
    <2>2. Erase(q, u) = RemoveAt(q, i)
      BY <1>3 DEF Erase
    <2> HIDE DEF i
    <2>3. Occ(q, x) = Held(TaskItem(u), x) + Occ(RemoveAt(q, i), x)
      BY <2>1, OccRemoveAt
    <2>4. Occ(RemoveAt(q, i), x) \in Nat
      BY <2>1, RemoveAtType, OccNat
    <2> QED
      BY <2>2, <2>3, <2>4 DEF Held
  <1> QED
    BY <1>2, <1>3

-----------------------------------------------------------------------------
(* What a step does to the places of an item *)

\* The places an item is in: the three deques and the hands of the two threads.
Places(x) == Occ(queue_tasks, x) + Occ(queue_tasks_deferred, x)
             + Occ(queue_tasks_unhandled, x) + Held(handM, x) + Held(handW, x)

\* A thread holds an item only inside the callback.
HandsOK == /\ pcM # "callback" => handM = NextItem
           /\ pcW # "callback" => handW = NextItem

\* The steps that move items between the deques and the hands, or leave them alone.
Moves == \/ \E t \in Tasks : EnterGate(t) \/ CheckSleeping(t) \/ LeaveGate(t) \/ Finish(t)
         \/ Terminate \/ StartLoop \/ MainDrain \/ MainDefer
         \/ (\E s \in Slots : MainRelease(s))
         \/ MainAllIdle \/ MainPostNext \/ MainYield \/ MainSignal
         \/ (\E exc \in BOOLEAN : MainWorkDone(exc))
         \/ MainJoin \/ MainCatch \/ MainUpdateDone \/ MainRecheck \/ MainSleep
         \/ MainIdle \/ MainWake \/ MainStop \/ MainStopNotify \/ MainJoined
         \/ WorkerWait \/ WorkerDrain \/ WorkerDecline \/ WorkerCheck \/ WorkerWake
         \/ WorkerFinish \/ WorkerNotify

\* Places counts with natural numbers.
LEMMA PlacesNat ==
    ASSUME QTypeOK, NEW x
    PROVE  /\ Occ(queue_tasks, x) \in Nat
           /\ Occ(queue_tasks_deferred, x) \in Nat
           /\ Occ(queue_tasks_unhandled, x) \in Nat
           /\ Held(handM, x) \in Nat /\ Held(handW, x) \in Nat
           /\ Places(x) \in Nat
  <1>1. /\ Occ(queue_tasks, x) \in Nat
        /\ Occ(queue_tasks_deferred, x) \in Nat
        /\ Occ(queue_tasks_unhandled, x) \in Nat
        /\ Held(handM, x) \in Nat /\ Held(handW, x) \in Nat
    BY OccNat DEF QTypeOK, Held
  <1> QED
    BY <1>1 DEF Places

\* Tasks, CANCELs and NEXT_RESPONSEs are different items.
LEMMA ItemsDiffer ==
    /\ \A t : TaskItem(t) # NextItem /\ CancelItem(t) # NextItem
    /\ \A t, u : TaskItem(t) # CancelItem(u)
    /\ \A t, u : TaskItem(t) = TaskItem(u) => t = u
    /\ \A t, u : CancelItem(t) = CancelItem(u) => t = u
  BY DEF TaskItem, CancelItem, NextItem

\* pop_front moves the item into the hand of the thread.
LEMMA DrainMoves ==
    ASSUME QTypeOK, QTypeOK', HandsOK, NEW x, x # NextItem, MainDrain \/ WorkerDrain
    PROVE  Places(x)' = Places(x)
  <1>1. UNCHANGED <<queue_tasks_deferred, queue_tasks_unhandled>>
    BY DEF MainDrain, WorkerDrain
  <1>2. CASE MainDrain
    <2>1. handM = NextItem /\ handW' = handW
      BY <1>2 DEF MainDrain, HandsOK, wthread
    <2>2. CASE UNCHANGED <<handM, queue_tasks>>
      BY <1>1, <2>1, <2>2 DEF Places
    <2>3. CASE queue_tasks # <<>> /\ handM' = Head(queue_tasks) /\ queue_tasks' = Tail(queue_tasks)
      <3>1. Occ(queue_tasks, x) = Held(handM', x) + Occ(queue_tasks', x)
        BY <2>3, OccPop DEF QTypeOK
      <3>2. Held(handM, x) = 0
        BY <2>1 DEF Held
      <3>3. Occ(queue_tasks', x) \in Nat /\ Held(handM', x) \in Nat
        BY OccNat DEF QTypeOK, Held
      <3> QED
        BY <1>1, <2>1, <3>1, <3>2, <3>3, PlacesNat DEF Places
    <2> QED
      BY <1>2, <2>2, <2>3 DEF MainDrain
  <1>3. CASE WorkerDrain
    <2>1. handW = NextItem /\ handM' = handM
      BY <1>3 DEF WorkerDrain, HandsOK, loop
    <2>2. CASE UNCHANGED <<handW, queue_tasks>>
      BY <1>1, <2>1, <2>2 DEF Places
    <2>3. CASE queue_tasks # <<>> /\ handW' = Head(queue_tasks) /\ queue_tasks' = Tail(queue_tasks)
      <3>1. Occ(queue_tasks, x) = Held(handW', x) + Occ(queue_tasks', x)
        BY <2>3, OccPop DEF QTypeOK
      <3>2. Held(handW, x) = 0
        BY <2>1 DEF Held
      <3>3. Occ(queue_tasks', x) \in Nat /\ Held(handW', x) \in Nat
        BY OccNat DEF QTypeOK, Held
      <3> QED
        BY <1>1, <2>1, <3>1, <3>2, <3>3, PlacesNat DEF Places
    <2> QED
      BY <1>3, <2>2, <2>3 DEF WorkerDrain
  <1> QED
    BY <1>2, <1>3

\* defer() and the declining worker put the item in hand into a deque.
LEMMA HandsEmptied ==
    ASSUME QTypeOK, NEW x, x # NextItem, MainDefer \/ WorkerDecline
    PROVE  Places(x)' = Places(x)
  <1>1. Held(NextItem, x) = 0
    BY DEF Held
  <1>2. CASE MainDefer
    <2>1. /\ queue_tasks_deferred' = Append(queue_tasks_deferred, handM)
          /\ handM' = NextItem
          /\ UNCHANGED <<queue_tasks, queue_tasks_unhandled, handW>>
      BY <1>2 DEF MainDefer, wthread
    <2>2. handM \in TaskItems
      BY <1>2 DEF QTypeOK, MainDefer, Item, CancelItem, NextItem
    <2>3. Occ(queue_tasks_deferred', x) = Occ(queue_tasks_deferred, x) + Held(handM, x)
      BY <2>1, <2>2, OccPush DEF QTypeOK
    <2> QED
      BY <1>1, <2>1, <2>3, PlacesNat DEF Places
  <1>3. CASE WorkerDecline
    <2>1. /\ queue_tasks_unhandled' = Append(queue_tasks_unhandled, handW)
          /\ handW' = NextItem
          /\ UNCHANGED <<queue_tasks, queue_tasks_deferred, handM>>
      BY <1>3 DEF WorkerDecline, loop
    <2>2. Occ(queue_tasks_unhandled', x) = Occ(queue_tasks_unhandled, x) + Held(handW, x)
      BY <2>1, OccPush DEF QTypeOK
    <2> QED
      BY <1>1, <2>1, <2>2, PlacesNat DEF Places
  <1> QED
    BY <1>2, <1>3

\* pop_deferred_task() moves a deferred task to the front of the queue.
LEMMA ReleaseMoves ==
    ASSUME QTypeOK, QTypeOK', NEW x, NEW s \in Slots, MainRelease(s)
    PROVE  Places(x)' = Places(x)
  <1>1. UNCHANGED <<handM, handW, queue_tasks_unhandled>>
    BY DEF MainRelease, PopDeferredTask, queues, loop, wthread
  <1>2. CASE queue_tasks_deferred = <<>>
    BY <1>1, <1>2 DEF MainRelease, PopDeferredTask, queues, Places
  <1>3. CASE queue_tasks_deferred # <<>>
    <2> DEFINE i == DeferredPick(s)
    <2>1. i \in 1 .. Len(queue_tasks_deferred)
      BY <1>3, PickInDeferred
    <2>2. /\ queue_tasks' = <<queue_tasks_deferred[i]>> \o queue_tasks
          /\ queue_tasks_deferred' = RemoveAt(queue_tasks_deferred, i)
      BY <1>3 DEF MainRelease, PopDeferredTask
    <2> HIDE DEF i
    <2>3. queue_tasks_deferred[i] \in Item
      BY <2>1, ElementOfSeq DEF QTypeOK, Item
    <2>4. Occ(queue_tasks', x) = Held(queue_tasks_deferred[i], x) + Occ(queue_tasks, x)
      BY <2>2, <2>3, OccPush DEF QTypeOK
    <2>5. Occ(queue_tasks_deferred, x)
          = Held(queue_tasks_deferred[i], x) + Occ(queue_tasks_deferred', x)
      BY <2>1, <2>2, OccRemoveAt DEF QTypeOK
    <2>6. Occ(queue_tasks_deferred', x) \in Nat /\ Held(queue_tasks_deferred[i], x) \in Nat
      BY OccNat DEF QTypeOK, Held
    <2> QED
      BY <1>1, <2>4, <2>5, <2>6, PlacesNat DEF Places
  <1> QED
    BY <1>2, <1>3

\* The end of a yield puts the declined tasks back in front.
LEMMA YieldEndMoves ==
    ASSUME QTypeOK, NEW x, NEW exc, YieldEnd(exc), UNCHANGED <<queue_tasks_deferred, handM, handW>>
    PROVE  Places(x)' = Places(x)
  <1>1. Occ(queue_tasks', x) = Occ(queue_tasks_unhandled, x) + Occ(queue_tasks, x)
    BY OccConcat DEF QTypeOK, YieldEnd
  <1>2. Occ(queue_tasks_unhandled', x) = 0
    BY OccSmall DEF YieldEnd
  <1> QED
    BY <1>1, <1>2, PlacesNat DEF Places

\* All these steps leave the number of places of an item as it is.
LEMMA PlacesSame ==
    ASSUME QTypeOK, QTypeOK', HandsOK, NEW x, x # NextItem, Moves
    PROVE  Places(x)' = Places(x)
  <1>1. CASE MainDrain \/ WorkerDrain
    BY <1>1, DrainMoves
  <1>2. CASE MainDefer \/ WorkerDecline
    BY <1>2, HandsEmptied
  <1>3. CASE \E s \in Slots : MainRelease(s)
    BY <1>3, ReleaseMoves
  <1>4. CASE MainPostNext
    <2>1. /\ queue_tasks' = Append(queue_tasks, NextItem)
          /\ UNCHANGED <<queue_tasks_deferred, queue_tasks_unhandled, handM, handW>>
      BY <1>4 DEF MainPostNext, wthread
    <2>2. Occ(queue_tasks', x) = Occ(queue_tasks, x) + Held(NextItem, x)
      BY <2>1, NextItemType, OccPush DEF QTypeOK
    <2>3. Held(NextItem, x) = 0
      BY DEF Held
    <2> QED
      BY <2>1, <2>2, <2>3, PlacesNat DEF Places
  <1>5. ASSUME NEW exc \in BOOLEAN, MainWorkDone(exc) PROVE Places(x)' = Places(x)
    <2>1. CASE worker.busy
      BY <1>5, <2>1 DEF MainWorkDone, queues, Places
    <2>2. CASE ~worker.busy
      BY <1>5, <2>2, YieldEndMoves DEF MainWorkDone
    <2> QED
      BY <2>1, <2>2
  <1>6. CASE MainJoin
    <2>1. CASE worker.busy
      BY <1>6, <2>1 DEF MainJoin, queues, Places
    <2>2. CASE ~worker.busy
      BY <1>6, <2>2, YieldEndMoves DEF MainJoin
    <2> QED
      BY <2>1, <2>2
  <1>7. ASSUME UNCHANGED queues, UNCHANGED <<handM, handW>> PROVE Places(x)' = Places(x)
    BY <1>7 DEF queues, Places
  <1>8. CASE \/ \E t \in Tasks : EnterGate(t) \/ CheckSleeping(t) \/ LeaveGate(t) \/ Finish(t)
             \/ Terminate \/ StartLoop \/ MainAllIdle \/ MainYield \/ MainSignal
    BY <1>7, <1>8 DEF EnterGate, CheckSleeping, LeaveGate, Finish, Terminate, StartLoop,
       MainAllIdle, MainYield, MainSignal, loop, wthread
  <1>9. CASE \/ MainCatch \/ MainUpdateDone \/ MainRecheck \/ MainSleep \/ MainIdle
             \/ MainWake \/ MainStop \/ MainStopNotify \/ MainJoined
    BY <1>7, <1>9 DEF MainCatch, MainUpdateDone, MainRecheck, MainSleep, MainIdle,
       MainWake, MainStop, MainStopNotify, MainJoined, loop, wthread
  <1>10. CASE WorkerWait \/ WorkerCheck \/ WorkerWake \/ WorkerFinish \/ WorkerNotify
    BY <1>7, <1>10 DEF WorkerWait, WorkerCheck, WorkerWake, WorkerFinish, WorkerNotify, loop
  <1> QED
    BY <1>1, <1>2, <1>3, <1>4, <1>5, <1>6, <1>8, <1>9, <1>10 DEF Moves

\* post() adds one place of the task.
LEMMA PlacesPost ==
    ASSUME QTypeOK, NEW u \in Tasks, PostTask(u), NEW x
    PROVE  Places(x)' = Places(x) + Held(TaskItem(u), x)
  <1>1. UNCHANGED <<handM, handW, queue_tasks_deferred, queue_tasks_unhandled>>
    BY DEF PostTask, loop, wthread
  <1>2. TaskItem(u) \in Item /\ queue_tasks \in Seq(Item)
    BY ItemTypes DEF QTypeOK
  <1>3. /\ Occ(<<TaskItem(u)>> \o queue_tasks, x) = Held(TaskItem(u), x) + Occ(queue_tasks, x)
        /\ Occ(Append(queue_tasks, TaskItem(u)), x) = Occ(queue_tasks, x) + Held(TaskItem(u), x)
    BY <1>2, OccPush
  <1>4. Held(TaskItem(u), x) \in Nat
    BY DEF Held
  <1>5. Occ(queue_tasks', x) = Occ(queue_tasks, x) + Held(TaskItem(u), x)
    BY <1>3, <1>4, PlacesNat DEF PostTask
  <1> QED
    BY <1>1, <1>4, <1>5, PlacesNat DEF Places

\* post() of a CANCEL takes the task out of the deques, and touches no other task
\* and no other CANCEL.
LEMMA PlacesCancel ==
    ASSUME QTypeOK, NEW u \in Tasks, PostCancel(u), NEW x
    PROVE  /\ x \notin {TaskItem(u), CancelItem(u)} => Places(x)' = Places(x)
           /\ x = TaskItem(u) =>
                /\ Places(x)' <= Places(x)
                /\ Places(x) <= 1 => Places(x)' = Held(handM, x) + Held(handW, x)
  <1>1. /\ UNCHANGED <<handM, handW>>
        /\ queue_tasks' = <<CancelItem(u)>> \o Erase(queue_tasks, u)
        /\ queue_tasks_deferred' = Erase(queue_tasks_deferred, u)
        /\ queue_tasks_unhandled' = Erase(queue_tasks_unhandled, u)
    BY DEF PostCancel, CleanupPendingTask, loop, wthread
  <1>2. Erase(queue_tasks, u) \in Seq(Item) /\ CancelItem(u) \in Item
    BY EraseType, ItemTypes DEF QTypeOK
  <1>3. Occ(queue_tasks', x) = Held(CancelItem(u), x) + Occ(Erase(queue_tasks, u), x)
    BY <1>1, <1>2, OccPush
  <1>4. /\ Occ(Erase(queue_tasks, u), x)
           = IF x = TaskItem(u) /\ Occ(queue_tasks, x) # 0
             THEN Occ(queue_tasks, x) - 1 ELSE Occ(queue_tasks, x)
        /\ Occ(queue_tasks_deferred', x)
           = IF x = TaskItem(u) /\ Occ(queue_tasks_deferred, x) # 0
             THEN Occ(queue_tasks_deferred, x) - 1 ELSE Occ(queue_tasks_deferred, x)
        /\ Occ(queue_tasks_unhandled', x)
           = IF x = TaskItem(u) /\ Occ(queue_tasks_unhandled, x) # 0
             THEN Occ(queue_tasks_unhandled, x) - 1 ELSE Occ(queue_tasks_unhandled, x)
    BY <1>1, OccErase DEF QTypeOK
  <1>5. x # CancelItem(u) => Held(CancelItem(u), x) = 0
    BY DEF Held
  <1>6. CASE x \notin {TaskItem(u), CancelItem(u)}
    BY <1>1, <1>3, <1>4, <1>5, <1>6, PlacesNat DEF Places
  <1>7. CASE x = TaskItem(u)
    <2>1. x # CancelItem(u)
      BY <1>7, ItemsDiffer
    <2>2. /\ Occ(queue_tasks', x) = IF Occ(queue_tasks, x) # 0
                                    THEN Occ(queue_tasks, x) - 1 ELSE 0
          /\ Occ(queue_tasks_deferred', x) = IF Occ(queue_tasks_deferred, x) # 0
                                             THEN Occ(queue_tasks_deferred, x) - 1 ELSE 0
          /\ Occ(queue_tasks_unhandled', x) = IF Occ(queue_tasks_unhandled, x) # 0
                                              THEN Occ(queue_tasks_unhandled, x) - 1 ELSE 0
          /\ Held(handM', x) = Held(handM, x) /\ Held(handW', x) = Held(handW, x)
      BY <1>1, <1>3, <1>4, <1>5, <1>7, <2>1, PlacesNat
    <2>3. /\ Occ(queue_tasks, x) \in Nat /\ Occ(queue_tasks_deferred, x) \in Nat
          /\ Occ(queue_tasks_unhandled, x) \in Nat
          /\ Held(handM, x) \in Nat /\ Held(handW, x) \in Nat
      BY PlacesNat
    <2>4. Places(x)' = Occ(queue_tasks', x) + Occ(queue_tasks_deferred', x)
                       + Occ(queue_tasks_unhandled', x) + Held(handM, x) + Held(handW, x)
      BY <2>2 DEF Places
    <2>5. Places(x) = Occ(queue_tasks, x) + Occ(queue_tasks_deferred, x)
                      + Occ(queue_tasks_unhandled, x) + Held(handM, x) + Held(handW, x)
      BY DEF Places
    <2> QED
      BY <1>7, <2>2, <2>3, <2>4, <2>5
  <1> QED
    BY <1>6, <1>7

\* The callback that returns true is through with the item.
LEMMA PlacesHandled ==
    ASSUME QTypeOK, NEW x, x # NextItem
    PROVE  /\ MainHandled => Places(x)' = Places(x) - Held(handM, x)
           /\ WorkerHandled \/ WorkerThrow => Places(x)' = Places(x) - Held(handW, x)
  <1>1. Held(NextItem, x) = 0
    BY DEF Held
  <1>2. ASSUME MainHandled PROVE Places(x)' = Places(x) - Held(handM, x)
    <2>1. UNCHANGED queues /\ handM' = NextItem /\ handW' = handW
      BY <1>2 DEF MainHandled, wthread
    <2> QED
      BY <1>1, <2>1, PlacesNat DEF Places, queues
  <1>3. ASSUME WorkerHandled \/ WorkerThrow PROVE Places(x)' = Places(x) - Held(handW, x)
    <2>1. UNCHANGED queues /\ handW' = NextItem /\ handM' = handM
      BY <1>3 DEF WorkerHandled, WorkerThrow, loop
    <2> QED
      BY <1>1, <2>1, PlacesNat DEF Places, queues
  <1> QED
    BY <1>2, <1>3

-----------------------------------------------------------------------------
(* No task is in two places *)

\* A task that was not posted yet is nowhere, any other in one place at most.
PlacesOK == \A t \in Tasks :
    Places(TaskItem(t)) <= IF client[t] \in {"new", "gated", "open"} THEN 0 ELSE 1

\* Every step leaves the hands empty outside the callbacks.
LEMMA HandsStep ==
    ASSUME Handshake, HandsOK, [QNext]_qvars
    PROVE  HandsOK'
  <1> USE DEF HandsOK, loop, wthread
  <1>1. ASSUME NEW t \in Tasks, QClient(t) PROVE HandsOK'
    BY <1>1 DEF QClient, EnterGate, CheckSleeping, LeaveGate, PostTask, PostCancel, Finish
  <1>2. ASSUME Terminate \/ UNCHANGED qvars PROVE HandsOK'
    BY <1>2 DEF Terminate, qvars
  <1>3. ASSUME StartLoop PROVE HandsOK'
    BY <1>3 DEF StartLoop, Handshake, FlagsOK
  <1>4. ASSUME \/ MainDrain \/ MainDefer \/ MainHandled \/ \E s \in Slots : MainRelease(s)
        PROVE HandsOK'
    BY <1>4 DEF MainDrain, MainDefer, MainHandled, MainRelease
  <1>5. ASSUME \/ MainAllIdle \/ MainPostNext \/ MainYield \/ MainSignal
               \/ \E exc \in BOOLEAN : MainWorkDone(exc)
        PROVE HandsOK'
    BY <1>5 DEF MainAllIdle, MainPostNext, MainYield, MainSignal, MainWorkDone, YieldEnd
  <1>6. ASSUME \/ MainJoin \/ MainCatch \/ MainUpdateDone \/ MainRecheck \/ MainSleep
               \/ MainIdle \/ MainWake \/ MainStop \/ MainStopNotify \/ MainJoined
        PROVE HandsOK'
    BY <1>6 DEF MainJoin, YieldEnd, MainCatch, MainUpdateDone, MainRecheck, MainSleep,
       MainIdle, MainWake, MainStop, MainStopNotify, MainJoined
  <1>7. ASSUME QWorker PROVE HandsOK'
    BY <1>7 DEF QWorker, WorkerWait, WorkerDrain, WorkerDecline, WorkerHandled, WorkerThrow,
       WorkerCheck, WorkerWake, WorkerFinish, WorkerNotify
  <1> QED
    BY <1>1, <1>2, <1>3, <1>4, <1>5, <1>6, <1>7 DEF QNext, QMain

\* A step posts, or cancels, or ends a callback, or moves items between places.
LEMMA QueueSteps ==
    ASSUME [QNext]_qvars
    PROVE  \/ \E u \in Tasks : PostTask(u) \/ PostCancel(u)
           \/ MainHandled \/ WorkerHandled \/ WorkerThrow \/ Moves \/ UNCHANGED qvars
  <1>1. ASSUME NEW u \in Tasks, QClient(u)
        PROVE  PostTask(u) \/ PostCancel(u) \/ Moves
    BY <1>1 DEF QClient, Moves
  <1>2. ASSUME Terminate \/ QMain \/ QWorker
        PROVE  MainHandled \/ WorkerHandled \/ WorkerThrow \/ Moves
    BY <1>2 DEF QMain, QWorker, Moves
  <1> QED
    BY <1>1, <1>2 DEF QNext

\* No step but a post() adds a place of a task.
LEMMA PlacesStep ==
    ASSUME QTypeOK, HandsOK, [QNext]_qvars, NEW t \in Tasks
    PROVE  \/ Places(TaskItem(t))' <= Places(TaskItem(t))
           \/ PostTask(t) /\ Places(TaskItem(t))' = Places(TaskItem(t)) + 1
  <1> DEFINE x == TaskItem(t)
  <1>0. /\ QTypeOK' /\ x # NextItem /\ \A u : x # CancelItem(u)
        /\ \A u : Held(TaskItem(u), x) = IF u = t THEN 1 ELSE 0
    BY TypeStep, ItemsDiffer DEF Held
  <1>1. Places(x) \in Nat /\ Held(handM, x) \in Nat /\ Held(handW, x) \in Nat
    BY PlacesNat
  <1> HIDE DEF x
  <1>2. ASSUME NEW u \in Tasks, PostTask(u)
        PROVE  Places(x)' <= Places(x) \/ (PostTask(t) /\ Places(x)' = Places(x) + 1)
    <2>1. Places(x)' = Places(x) + Held(TaskItem(u), x)
      BY <1>2, PlacesPost
    <2>2. CASE u = t
      BY <1>0, <1>2, <2>1, <2>2
    <2>3. CASE u # t
      <3>1. Held(TaskItem(u), x) = 0
        BY <1>0, <2>3
      <3> QED
        BY <1>1, <2>1, <3>1
    <2> QED
      BY <2>2, <2>3
  <1>3. ASSUME NEW u \in Tasks, PostCancel(u) PROVE Places(x)' <= Places(x)
    <2>1. /\ x \notin {TaskItem(u), CancelItem(u)} => Places(x)' = Places(x)
          /\ x = TaskItem(u) => Places(x)' <= Places(x)
      BY <1>3, PlacesCancel
    <2> QED
      BY <1>0, <1>1, <2>1
  <1>4. ASSUME MainHandled \/ WorkerHandled \/ WorkerThrow PROVE Places(x)' <= Places(x)
    BY <1>0, <1>1, <1>4, PlacesHandled
  <1>5. ASSUME Moves PROVE Places(x)' <= Places(x)
    BY <1>0, <1>1, <1>5, PlacesSame
  <1>6. ASSUME UNCHANGED qvars PROVE Places(x)' <= Places(x)
    BY <1>1, <1>6 DEF qvars, queues, loop, wthread, Places
  <1>7. \/ \E u \in Tasks : PostTask(u) \/ PostCancel(u)
        \/ MainHandled \/ WorkerHandled \/ WorkerThrow \/ Moves \/ UNCHANGED qvars
    BY QueueSteps
  <1>8. Places(x)' <= Places(x) \/ (PostTask(t) /\ Places(x)' = Places(x) + 1)
    BY <1>2, <1>3, <1>4, <1>5, <1>6, <1>7
  <1> QED
    BY <1>8 DEF x

\* A client that has posted its task does not go back.
LEMMA ClientMoves ==
    ASSUME QTypeOK, [QNext]_qvars, NEW t \in Tasks
    PROVE  /\ client'[t] \in {"new", "gated", "open"} => client[t] \in {"new", "gated", "open"}
           /\ PostTask(t) => client[t] = "open" /\ client'[t] = "posted"
  <1>1. ASSUME NEW u \in Tasks, QClient(u)
        PROVE  client'[t] \in {"new", "gated", "open"} => client[t] \in {"new", "gated", "open"}
    BY <1>1 DEF QTypeOK, QClient, EnterGate, CheckSleeping, LeaveGate, PostTask, PostCancel, Finish
  <1>2. ASSUME Terminate \/ QMain \/ QWorker \/ UNCHANGED qvars PROVE client' = client
    BY <1>2 DEF Terminate, QMain, QWorker, qvars, StartLoop, MainDrain, MainDefer,
       MainHandled, MainRelease, MainAllIdle, MainPostNext, MainYield, MainSignal,
       MainWorkDone, MainJoin, MainCatch, MainUpdateDone, MainRecheck, MainSleep,
       MainIdle, MainWake, MainStop, MainStopNotify, MainJoined,
       WorkerWait, WorkerDrain, WorkerDecline, WorkerHandled, WorkerThrow,
       WorkerCheck, WorkerWake, WorkerFinish, WorkerNotify
  <1>3. PostTask(t) => client[t] = "open" /\ client'[t] = "posted"
    BY DEF QTypeOK, PostTask
  <1> QED
    BY <1>1, <1>2, <1>3 DEF QNext

\* Every step keeps each task in one place.
LEMMA SinglesStep ==
    ASSUME QTypeOK, HandsOK, PlacesOK, [QNext]_qvars
    PROVE  PlacesOK'
  <1> SUFFICES ASSUME NEW t \in Tasks
               PROVE  Places(TaskItem(t))'
                        <= IF client'[t] \in {"new", "gated", "open"} THEN 0 ELSE 1
    BY DEF PlacesOK
  <1>1. Places(TaskItem(t)) \in Nat
    BY PlacesNat
  <1>2. Places(TaskItem(t)) <= IF client[t] \in {"new", "gated", "open"} THEN 0 ELSE 1
    BY DEF PlacesOK
  <1>3. Places(TaskItem(t))' \in Nat
    <2>1. QTypeOK'
      BY TypeStep
    <2>2. /\ Occ(queue_tasks', TaskItem(t)) \in Nat
          /\ Occ(queue_tasks_deferred', TaskItem(t)) \in Nat
          /\ Occ(queue_tasks_unhandled', TaskItem(t)) \in Nat
          /\ Held(handM', TaskItem(t)) \in Nat /\ Held(handW', TaskItem(t)) \in Nat
      BY <2>1, OccNat DEF QTypeOK, Held
    <2> QED
      BY <2>2 DEF Places, TaskItem
  <1>4. CASE PostTask(t) /\ Places(TaskItem(t))' = Places(TaskItem(t)) + 1
    BY <1>1, <1>2, <1>4, ClientMoves
  <1>5. CASE Places(TaskItem(t))' <= Places(TaskItem(t))
    BY <1>1, <1>2, <1>3, <1>5, ClientMoves
  <1> QED
    BY <1>4, <1>5, PlacesStep

\* The queue starts with the hands and the deques empty and nobody blocked.
LEMMA QueueStarts == QInit => QTypeOK /\ Handshake /\ HandsOK /\ PlacesOK
  <1> SUFFICES ASSUME QInit PROVE QTypeOK /\ Handshake /\ HandsOK /\ PlacesOK
    OBVIOUS
  <1>1. QTypeOK
    BY TypeStarts
  <1>2. Handshake
    BY DEF QInit, Handshake, FlagsOK, BlockedOK, NoLostWakeup, Stopping, InYield, WorkerActive
  <1>3. HandsOK
    BY DEF QInit, HandsOK
  <1>4. ASSUME NEW t \in Tasks PROVE Places(TaskItem(t)) = 0
    <2>1. Occ(<<>>, TaskItem(t)) = 0 /\ Held(NextItem, TaskItem(t)) = 0
      BY OccSmall, ItemsDiffer DEF Held
    <2>2. /\ Occ(queue_tasks, TaskItem(t)) = 0 /\ Occ(queue_tasks_deferred, TaskItem(t)) = 0
          /\ Occ(queue_tasks_unhandled, TaskItem(t)) = 0
          /\ Held(handM, TaskItem(t)) = 0 /\ Held(handW, TaskItem(t)) = 0
      BY <2>1 DEF QInit
    <2> QED
      BY <2>2 DEF Places
  <1>5. PlacesOK
    BY <1>4 DEF PlacesOK
  <1> QED
    BY <1>1, <1>2, <1>3, <1>5

\* The inductive invariant of the queue: types, handshake, and where the items are.
THEOREM QueueInvariant == QSpec => [](QTypeOK /\ Handshake /\ HandsOK /\ PlacesOK)
  <1>1. QTypeOK /\ Handshake /\ HandsOK /\ PlacesOK /\ [QNext]_qvars
           => QTypeOK' /\ Handshake' /\ HandsOK' /\ PlacesOK'
    BY TypeStep, HandshakeStep, HandsStep, SinglesStep
  <1> QED
    BY <1>1, QueueStarts, PTL DEF QSpec

\* A task sits in one deque, once, or in the hands of one thread: it is never
\* offered to the slots twice.
THEOREM TasksAreSingle == QSpec => []NoTaskTwice
  <1>1. QTypeOK /\ PlacesOK => NoTaskTwice
    <2> SUFFICES ASSUME QTypeOK, PlacesOK, NEW t \in Tasks
                 PROVE    Cardinality(Positions(queue_tasks, t))
                        + Cardinality(Positions(queue_tasks_deferred, t))
                        + Cardinality(Positions(queue_tasks_unhandled, t))
                        + Cardinality({x \in {Main, Worker} :
                                          TaskItem(t) = IF x = Main THEN handM ELSE handW})
                        <= 1
      BY DEF NoTaskTwice
    <2> DEFINE H == {x \in {Main, Worker} : TaskItem(t) = IF x = Main THEN handM ELSE handW}
    <2>1. Cardinality(H) = Held(handM, TaskItem(t)) + Held(handW, TaskItem(t))
      <3>1. Main # Worker
        BY DEF Main, Worker
      <3>2. H = (IF TaskItem(t) = handM THEN {Main} ELSE {})
                \cup (IF TaskItem(t) = handW THEN {Worker} ELSE {})
        BY <3>1
      <3>3. Cardinality({Main}) = 1 /\ IsFiniteSet({Main})
            /\ Cardinality({Worker}) = 1 /\ Cardinality({}) = 0
        BY FS_Singleton, FS_EmptySet
      <3>4. Cardinality({Main} \cup {Worker}) = 2
        BY <3>1, <3>3, FS_AddElement
      <3> HIDE DEF H
      <3> QED
        BY <3>2, <3>3, <3>4 DEF Held
    <2>2. Places(TaskItem(t)) \in Nat /\ Places(TaskItem(t)) <= 1
      BY PlacesNat DEF PlacesOK
    <2> HIDE DEF H
    <2>3. /\ Cardinality(Positions(queue_tasks, t)) = Occ(queue_tasks, TaskItem(t))
          /\ Cardinality(Positions(queue_tasks_deferred, t)) = Occ(queue_tasks_deferred, TaskItem(t))
          /\ Cardinality(Positions(queue_tasks_unhandled, t)) = Occ(queue_tasks_unhandled, TaskItem(t))
      BY DEF Occ, At, Positions
    <2>4.   Occ(queue_tasks, TaskItem(t)) + Occ(queue_tasks_deferred, TaskItem(t))
          + Occ(queue_tasks_unhandled, TaskItem(t)) + Cardinality(H) <= 1
      BY <2>1, <2>2, PlacesNat DEF Places
    <2> QED
      BY <2>3, <2>4 DEF H
  <1> QED
    BY <1>1, QueueInvariant, PTL
=============================================================================
