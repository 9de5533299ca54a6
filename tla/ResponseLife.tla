---------------------------- MODULE ResponseLife ----------------------------
(***************************************************************************)
(* The result queue and its readers (ServerResponse) together with what    *)
(* the slots do to the result queue: a task is launched or refused, sends  *)
(* partial results and one last result; a CANCEL ends it silently          *)
(* (server-context.cpp: process_single_task, send_*, slot.release).        *)
(***************************************************************************)
EXTENDS ServerResponse

CONSTANT MaxPartials    \* bound on the results of one task that wait in the queue

ASSUME LifeAssumption == MaxPartials \in Nat

VARIABLES
    life,    \* what the server knows of each task
    halted   \* start_loop() has returned after terminate()

lvars == <<rvars, life, halted>>

LInit == RInit /\ terminated = FALSE /\ halted = FALSE /\ life = [id \in Tasks |-> "none"]

LRegister(r) == Register(r) /\ UNCHANGED <<life, halted, terminated>>

LPost(r) == /\ Posted(r)
            /\ life' = [id \in Tasks |-> IF id \in IdTasks[r] THEN "pending" ELSE life[id]]
            /\ UNCHANGED <<halted, terminated>>

\* The steps of a reader that does not wait for anything but its thread.
LRead(r) == /\ Receive(r) \/ ShuttingDown(r) \/ StopRemove(r)
               \/ \E id \in IdTasks[r] : StopPurge(r, id)
            /\ UNCHANGED <<life, halted, terminated>>

LGiveUp(r) == GiveUp(r) /\ UNCHANGED <<life, halted, terminated>>

\* The CANCEL tasks are queued.  Pending tasks are cleaned up, except one that the
\* loop holds just then; a running one goes on until its CANCEL is processed.
LCancel(r) ==
    /\ StopPost(r)
    /\ \E missed \in SUBSET IdTasks[r] :
         life' = [id \in Tasks |->
                    IF id \in IdTasks[r] \ missed /\ life[id] = "pending"
                    THEN "over" ELSE life[id]]
    /\ UNCHANGED <<halted, terminated>>

\* A slot takes the task ...
LLaunch(id) == /\ life[id] = "pending"
               /\ life' = [life EXCEPT ![id] = "running"]
               /\ UNCHANGED rvars

\* ... or it is answered at once: refused, or a slot action, METRICS or SLOT_GET.
LAnswer(id) == /\ life[id] = "pending"
               /\ life' = [life EXCEPT ![id] = "over"]
               /\ \E kind \in {"final", "error"} : Send(id, kind)
               /\ UNCHANGED <<received, topurge, rpc, terminated>>

LPartial(id) == /\ life[id] = "running"
                /\ Cardinality(ResultsFor({id})) < MaxPartials
                /\ Send(id, "partial")
                /\ UNCHANGED <<received, topurge, rpc, terminated, life>>

\* Mutant: the slot is not released with its last result.
LEndKeepsSlot(id) ==
    /\ life[id] = "running"
    /\ Cardinality(ResultsFor({id})) < MaxPartials
    /\ \E kind \in {"final", "error"} : Send(id, kind)
    /\ UNCHANGED <<received, topurge, rpc, terminated, life>>

\* send_final_response() or send_error(); release() follows.
LEnd(id) == /\ life[id] = "running"
            /\ life' = [life EXCEPT ![id] = "over"]
            /\ \E kind \in {"final", "error"} : Send(id, kind)
            /\ UNCHANGED <<received, topurge, rpc, terminated>>

\* A CANCEL posted by stop() is processed: the slot is released without a result.
LCancelled(id) == /\ life[id] = "running"
                  /\ \E r \in Readers : id \in IdTasks[r] /\ rpc[r] = "left" /\ HasNext(r)
                  /\ life' = [life EXCEPT ![id] = "over"]
                  /\ UNCHANGED rvars

LTerminate == /\ ~terminated /\ terminated' = TRUE
              /\ UNCHANGED <<responses, received, topurge, rpc, life, halted>>

\* The loop notices and returns; nothing is sent any more.
LHalt == /\ terminated /\ ~halted /\ halted' = TRUE
         /\ UNCHANGED <<rvars, life>>

LServer(id) == /\ ~halted /\ UNCHANGED halted
               /\ LLaunch(id) \/ LAnswer(id) \/ LPartial(id) \/ LEnd(id) \/ LCancelled(id)

LNext == \/ \E r \in Readers : LRegister(r) \/ LPost(r) \/ LRead(r) \/ LGiveUp(r) \/ LCancel(r)
         \/ \E id \in Tasks : LServer(id)
         \/ LTerminate \/ LHalt

\* Every HTTP thread is scheduled; until terminate() the server ends every task
\* it was given (generation is bounded by n_predict or by the context).  A client
\* may disconnect, and never has to.
LFairness ==
    /\ \A r \in Readers : WF_lvars(LPost(r)) /\ WF_lvars(LRead(r)) /\ WF_lvars(LCancel(r))
    /\ \A id \in Tasks : WF_lvars(~halted /\ UNCHANGED halted /\ (LLaunch(id) \/ LEnd(id)))
    /\ WF_lvars(LHalt)

LSafe == LInit /\ [][LNext]_lvars

LSpec == LSafe /\ LFairness

-----------------------------------------------------------------------------
(* Properties *)

\* received_count counts each task once (the assertion "duplicate result
\* received" of wait_for_all); counting one twice would end the request early. A
\* request that ends without cancelling has the final result of every task, and
\* the server is through with all of them.
CompleteAnswer ==
    /\ \A r \in Readers : received[r].count = Cardinality(received[r].ids)
    /\ \A r \in Readers : (rpc[r] = "left" /\ ~HasNext(r)) =>
        /\ received[r].ids = IdTasks[r]
        /\ \A id \in IdTasks[r] : life[id] = "over"

\* Every posted request is over at some point: answered, refused, or ended by
\* the shutdown (next() and its is_terminated() check).
EveryReaderLeaves ==
    \A r \in Readers : (rpc[r] = "registered") ~> (rpc[r] = "left")
=============================================================================
