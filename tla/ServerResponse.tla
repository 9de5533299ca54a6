--------------------------- MODULE ServerResponse ---------------------------
(***************************************************************************)
(* server_response and server_response_reader (tools/server/server-queue.h *)
(* and .cpp): the queue of results, the set of task ids somebody waits     *)
(* for, and the HTTP threads that each read the results of their tasks.    *)
(*                                                                         *)
(* Every action is one critical section of mutex_results, or one call on   *)
(* the task queue.  Module ResponseLife closes the component with the life *)
(* of a task on the server side, module Server with the queue and slots.   *)
(***************************************************************************)
EXTENDS Integers, Sequences, FiniteSets, SequencesExt, Subsequences

CONSTANTS
    Readers,       \* the HTTP requests
    Tasks,         \* task ids
    IdTasks        \* Readers -> the ids of its tasks (several prompts, n_cmpl > 1)

ASSUME ResponseAssumption ==
    /\ IdTasks \in [Readers -> SUBSET Tasks]
    /\ \A r \in Readers : IsFiniteSet(IdTasks[r]) /\ IdTasks[r] # {}
    /\ \A r, q \in Readers : r # q => IdTasks[r] \cap IdTasks[q] = {}

VARIABLES
    waiting_task_ids,
    queue_results,
    received,      \* received_count and, for the properties, whose results it counts
    topurge,       \* ids stop() has still to remove with their results
    rpc,           \* where each reader is
    terminated     \* server_queue::is_terminated()

Result == [id : Tasks, kind : {"partial", "final", "error"}]
ReaderPcs == {"new", "registered", "reading", "stopping", "purging", "posting", "left"}

responses == <<waiting_task_ids, queue_results>>
rvars == <<responses, received, topurge, rpc, terminated>>

RInit ==
    /\ waiting_task_ids = {}
    /\ queue_results = <<>>
    /\ received = [r \in Readers |-> [count |-> 0, ids |-> {}]]
    /\ topurge = [r \in Readers |-> {}]
    /\ rpc = [r \in Readers |-> "new"]

-----------------------------------------------------------------------------
(* The result queue *)

\* Mutant: a result is queued whether or not somebody waits for it.
SendAlways(id, kind) ==
    /\ queue_results' = Append(queue_results, [id |-> id, kind |-> kind])
    /\ UNCHANGED waiting_task_ids

\* server_response::send(): dropped when nobody waits for the id.
Send(id, kind) ==
    /\ queue_results' = IF id \in waiting_task_ids
                        THEN Append(queue_results, [id |-> id, kind |-> kind])
                        ELSE queue_results
    /\ UNCHANGED waiting_task_ids

\* The result recv_with_timeout() returns: the first one for these ids.
ResultsFor(ids) == {i \in DOMAIN queue_results : queue_results[i].id \in ids}
FirstFor(ids) == CHOOSE i \in ResultsFor(ids) : \A j \in ResultsFor(ids) : i <= j

-----------------------------------------------------------------------------
(* The readers *)

\* Mutant: off by one.
HasNextButOne(r) == received[r].count + 1 < Cardinality(IdTasks[r])

\* has_next(), for a reader that was not cancelled.
HasNext(r) == received[r].count < Cardinality(IdTasks[r])

\* Mutant: the ids are not registered.
RegisterNothing(r) ==
    /\ rpc[r] = "new"
    /\ rpc' = [rpc EXCEPT ![r] = "registered"]
    /\ UNCHANGED <<responses, received, topurge>>

\* post_task() and post_tasks() register the ids before the tasks are posted ...
Register(r) ==
    /\ rpc[r] = "new"
    /\ rpc' = [rpc EXCEPT ![r] = "registered"]
    /\ waiting_task_ids' = waiting_task_ids \cup IdTasks[r]
    /\ UNCHANGED <<queue_results, received, topurge>>

\* ... so that no result can be sent to an id that is not registered yet.
Posted(r) ==
    /\ rpc[r] = "registered"
    /\ rpc' = [rpc EXCEPT ![r] = "reading"]
    /\ UNCHANGED <<responses, received, topurge>>

\* next(): an error result stops the reader, a final one is counted; the reader
\* leaves its loop when has_next() is false.
Receive(r) ==
    /\ rpc[r] = "reading"
    /\ ResultsFor(IdTasks[r]) # {}
    /\ LET i   == FirstFor(IdTasks[r])
           res == queue_results[i]
           rcv == IF res.kind = "final"
                  THEN [count |-> received[r].count + 1, ids |-> received[r].ids \cup {res.id}]
                  ELSE received[r]
       IN  /\ queue_results' = RemoveAt(queue_results, i)
           /\ received' = [received EXCEPT ![r] = rcv]
           /\ rpc' = [rpc EXCEPT ![r] =
                        IF res.kind = "error" \/ rcv.count >= Cardinality(IdTasks[r])
                        THEN "stopping" ELSE "reading"]
    /\ UNCHANGED <<waiting_task_ids, topurge>>

\* next() times out and should_stop() is true: the client is gone.
GiveUp(r) ==
    /\ rpc[r] = "reading"
    /\ rpc' = [rpc EXCEPT ![r] = "stopping"]
    /\ UNCHANGED <<responses, received, topurge>>

\* next() times out after terminate(): answer with an error.
ShuttingDown(r) ==
    /\ rpc[r] = "reading"
    /\ terminated
    /\ rpc' = [rpc EXCEPT ![r] = "stopping"]
    /\ UNCHANGED <<responses, received, topurge>>

\* stop(), also run by the destructor: remove_waiting_task_ids(), and nothing
\* more when every task is finished.
StopRemove(r) ==
    /\ rpc[r] = "stopping"
    /\ waiting_task_ids' = waiting_task_ids \ IdTasks[r]
    /\ IF HasNext(r)
       THEN rpc' = [rpc EXCEPT ![r] = "purging"] /\ topurge' = [topurge EXCEPT ![r] = IdTasks[r]]
       ELSE rpc' = [rpc EXCEPT ![r] = "left"] /\ UNCHANGED topurge
    /\ UNCHANGED <<queue_results, received>>

\* erase(remove_if(id == id_task)): the results of the other ids, in their order.
Without(q, id) == Picked(q, {i \in DOMAIN q : q[i].id # id})

\* Mutant: the id is removed, its pending results stay.
StopPurgeIdOnly(r, id) ==
    /\ rpc[r] = "purging"
    /\ id \in topurge[r]
    /\ waiting_task_ids' = waiting_task_ids \ {id}
    /\ topurge' = [topurge EXCEPT ![r] = @ \ {id}]
    /\ rpc' = [rpc EXCEPT ![r] = IF topurge[r] = {id} THEN "posting" ELSE "purging"]
    /\ UNCHANGED <<received, queue_results>>

\* remove_waiting_task_id(), one id at a time: the id and its pending results.
StopPurge(r, id) ==
    /\ rpc[r] = "purging"
    /\ id \in topurge[r]
    /\ waiting_task_ids' = waiting_task_ids \ {id}
    /\ queue_results' = Without(queue_results, id)
    /\ topurge' = [topurge EXCEPT ![r] = @ \ {id}]
    /\ rpc' = [rpc EXCEPT ![r] = IF topurge[r] = {id} THEN "posting" ELSE "purging"]
    /\ UNCHANGED received

\* The CANCEL tasks are posted.
StopPost(r) ==
    /\ rpc[r] = "posting"
    /\ rpc' = [rpc EXCEPT ![r] = "left"]
    /\ UNCHANGED <<responses, received, topurge>>
=============================================================================
