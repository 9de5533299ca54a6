------------------------------- MODULE Router -------------------------------
(***************************************************************************)
(* Router mode (tools/server/server-models.cpp): server_models keeps one   *)
(* child process per loaded model, at most models_max of them.  A request  *)
(* for a model that is not loaded waits in the queue of server_lru_sched   *)
(* until a slot is free, evicting idle models, and is then proxied to the  *)
(* child.  Every action is one critical section of server_models::mutex,   *)
(* one step of the monitor thread, or one step of a child process.         *)
(*                                                                         *)
(* The pipe between a child and the monitor is a sequence of state lines;  *)
(* the monitor's command queue is split by model, since it treats each     *)
(* model on its own.  Which of the idle models is the least recently used  *)
(* is left open: any of them may be the victim.                            *)
(***************************************************************************)
EXTENDS Integers, Sequences, FiniteSets

CONSTANTS
    Models,
    Requests,      \* requests to be proxied to a model
    Admins,        \* threads that make one management request each
    ModelOf,       \* Requests -> Models
    AdminOps,      \* Admins -> the kinds of request it may be
    NoModel,
    MaxModels,     \* base_params.models_max, 0 for no limit
    MayLeave,      \* requests whose client may go away
    MayVanish,     \* models whose source may be removed or changed
    MayCrash,      \* models whose process may die by itself
    MaySleep,      \* models whose process goes to sleep when idle
    MaxFailures    \* bound: times a process cannot be started

ASSUME RouterAssumption ==
    /\ ModelOf \in [Requests -> Models]
    /\ Requests \cap Admins = {}
    /\ AdminOps \in [Admins -> SUBSET {"load", "unload", "reload", "shutdown"}]
    /\ NoModel \notin Models
    /\ MaxModels \in Nat /\ MaxFailures \in Nat
    /\ MayLeave \subseteq Requests
    /\ MayVanish \subseteq Models /\ MayCrash \subseteq Models /\ MaySleep \subseteq Models
    /\ IsFiniteSet(Models)

Threads == Requests \cup Admins

VARIABLES
    status,          \* mapping: the status of each model, "absent" outside the mapping
    failed,          \* models with exit_code # 0
    stopping_models,
    req_count,
    is_reloading,
    queue,           \* server_lru_sched::queue
    cmds,            \* what the monitor has been asked to do about each model
    watched,         \* the monitor's children
    deadline,        \* those with a force-kill time
    proc,            \* the process of each model
    out,             \* the state lines it has written and the monitor has not read
    told,            \* processes with an exit command on their stdin
    failures,        \* processes that could not be started
    pc, target,      \* where each thread is, and the model it is about
    victim,          \* the model it unloads to make room
    queued,          \* requests that count in an entry of the queue
    came,            \* requests with did_load or saw_loading
    to_unload,       \* what a thread in load_models() unloads,
    remaining,       \* what of it is left to unload,
    final_presets    \* and the sources it has found

mapping  == <<status, failed, stopping_models, req_count>>
monitor  == <<cmds, watched, deadline>>
child    == <<proc, out, told>>
thread   == <<pc, target, victim, came>>
reload   == <<to_unload, remaining, final_presets, is_reloading>>
rvars    == <<mapping, queue, queued, monitor, child, thread, reload, failures>>

IsRunning(st)      == st \in {"LOADED", "LOADING", "SLEEPING"}
IsReadyOrSleep(st) == st \in {"LOADED", "SLEEPING"}
Alive              == {"starting", "waking", "up", "asleep"}
Exited             == {"exited_ok", "exited_bad"}

RInit ==
    /\ status = [m \in Models |-> "UNLOADED"]
    /\ failed = {} /\ stopping_models = {} /\ is_reloading = FALSE
    /\ req_count = [m \in Models |-> 0]
    /\ queue = <<>>
    /\ cmds = [m \in Models |-> <<>>]
    /\ watched = {} /\ deadline = {}
    /\ proc = [m \in Models |-> "none"]
    /\ out = [m \in Models |-> <<>>]
    /\ told = {}
    /\ failures = 0
    /\ pc = [t \in Threads |-> "idle"]
    /\ target = [t \in Threads |-> IF t \in Requests THEN ModelOf[t] ELSE NoModel]
    /\ victim = [t \in Threads |-> NoModel]
    /\ queued = {} /\ came = {}
    /\ to_unload = [a \in Admins |-> {}] /\ remaining = to_unload /\ final_presets = to_unload

Goto(t, l) == pc' = [pc EXCEPT ![t] = l]

-----------------------------------------------------------------------------
(* server_lru_sched *)

Running(st) == {m \in Models : IsRunning(st[m])}

has_capacity == MaxModels = 0 \/ Cardinality(Running(status)) < MaxModels

find(q, m) == {i \in DOMAIN q : q[i].model_id = m}

\* The models pick_victim() chooses from.
IdleModels(st, stp, q, rc) ==
    {m \in Models : /\ rc[m] = 0 /\ IsReadyOrSleep(st[m])
                    /\ m \notin stp /\ find(q, m) = {}}

\* Requests wanting the same model share one entry.
join(q, m) ==
    IF find(q, m) = {} THEN Append(q, [model_id |-> m, n_waiters |-> 1, loading |-> FALSE])
    ELSE [i \in DOMAIN q |-> IF i \in find(q, m) THEN [q[i] EXCEPT !.n_waiters = @ + 1] ELSE q[i]]

\* The entry goes with the last of its waiters.
leave(q, m) ==
    LET i == CHOOSE i \in find(q, m) : \A j \in find(q, m) : i <= j
    IN  IF find(q, m) = {} THEN q
        ELSE IF q[i].n_waiters > 1 THEN [q EXCEPT ![i].n_waiters = @ - 1]
        ELSE SubSeq(q, 1, i - 1) \o SubSeq(q, i + 1, Len(q))

SetLoading(q, m, b) ==
    [i \in DOMAIN q |-> IF i \in find(q, m) THEN [q[i] EXCEPT !.loading = b] ELSE q[i]]

\* What tick() may evict: as many idle models as the queued requests need beyond
\* the slots that are free or being freed.
Evictions(st, stp, q, rc) ==
    LET needed  == Cardinality({i \in DOMAIN q : ~q[i].loading})
        claimed == Cardinality({i \in DOMAIN q : q[i].loading /\ st[q[i].model_id] = "UNLOADED"})
        n_free  == MaxModels - Cardinality(Running(st)) + Cardinality(Running(st) \cap stp) - claimed
        idle    == IdleModels(st, stp, q, rc)
        excess  == IF needed > n_free THEN needed - n_free ELSE 0
    IN  IF MaxModels = 0 \/ q = <<>> THEN {{}}
        ELSE {V \in SUBSET idle :
                Cardinality(V) = IF excess <= Cardinality(idle) THEN excess ELSE Cardinality(idle)}

\* request_stop() for the models of V: each is stopping, and the monitor told so.
Stop(stp, V, cm, cmd) ==
    /\ stopping_models' = stp \cup V
    /\ cmds' = [m \in Models |-> IF m \in V \ stp THEN Append(cm[m], cmd) ELSE cm[m]]

\* tick(), on the mapping and the queue as the caller leaves them.
tick(st, stp, q, rc, cm) == \E V \in Evictions(st, stp, q, rc) : Stop(stp, V, cm, "EXIT")

-----------------------------------------------------------------------------
(* ensure_model_ready(), by a request *)

\* get_meta()
EnsureMeta(r) ==
    /\ pc[r] = "idle"
    /\ Goto(r, IF status[target[r]] = "absent" THEN "over"
               ELSE IF IsReadyOrSleep(status[target[r]]) THEN "ready" ELSE "join")
    /\ UNCHANGED <<mapping, queue, queued, monitor, child, target, victim, came, reload, failures>>

\* The model was ready: is it stopping by now?
EnsureStopping(r) ==
    /\ pc[r] = "ready"
    /\ Goto(r, IF target[r] \in stopping_models THEN "join" ELSE "ensured")
    /\ UNCHANGED <<mapping, queue, queued, monitor, child, target, victim, came, reload, failures>>

\* join() and tick() by a request that is not in the queue yet.
JoinQueue(r) ==
    /\ queue' = join(queue, target[r])
    /\ queued' = queued \cup {r}
    /\ tick(status, stopping_models, join(queue, target[r]), req_count, cmds)

EnsureJoin(r) ==
    /\ pc[r] = "join"
    /\ IF status[target[r]] = "UNLOADED" THEN JoinQueue(r)
       ELSE UNCHANGED <<queue, queued, stopping_models, cmds>>
    /\ Goto(r, "waiting")
    /\ UNCHANGED <<status, failed, req_count, watched, deadline, child, target, victim, came,
                   reload, failures>>

\* The rest is the loop: each action is one pass of it, with the mutex held.

\* leave_queue()
LeaveQueue(r) ==
    /\ queued' = queued \ {r}
    /\ queue' = IF r \in queued THEN leave(queue, target[r]) ELSE queue

\* Mutant: a request that gives up stays in the queue.
GiveUpQueued(r) ==
    /\ Goto(r, "over")
    /\ UNCHANGED <<queue, queued>>
    /\ tick(status, stopping_models, queue, req_count, cmds)

\* An exception: the slot freed for this waiter goes to the next one.
GiveUp(r) ==
    /\ Goto(r, "over")
    /\ LeaveQueue(r)
    /\ tick(status, stopping_models, queue', req_count, cmds)

\* A stopping instance takes no new request, the next instance serves it.
WaitForExit(r) ==
    LET m == target[r] IN
    /\ pc[r] = "waiting"
    /\ m \in stopping_models /\ status[m] # "absent"
    /\ r \notin queued
    /\ JoinQueue(r)
    /\ UNCHANGED <<status, failed, req_count, watched, deadline, child, thread, reload, failures>>

\* The loop ends: the model is up, is gone, has come down again without having
\* failed, or is down although this request is not in the queue to load it.
LoopEnds(r) ==
    LET m == target[r] IN
    /\ pc[r] = "waiting"
    /\ \/ status[m] = "absent"
       \/ m \notin stopping_models /\ IsReadyOrSleep(status[m])
       \/ /\ m \notin stopping_models /\ status[m] = "UNLOADED"
          /\ IF r \in came THEN m \notin failed ELSE r \notin queued
    /\ LeaveQueue(r)
    /\ Goto(r, "ensured")
    /\ UNCHANGED <<mapping, monitor, child, target, victim, came, reload, failures>>

\* The load failed.
LoopFails(r) ==
    LET m == target[r] IN
    /\ pc[r] = "waiting"
    /\ m \notin stopping_models /\ status[m] = "UNLOADED"
    /\ r \in came /\ m \in failed
    /\ GiveUp(r)
    /\ UNCHANGED <<status, failed, req_count, watched, deadline, child, target, victim, came,
                   reload, failures>>

\* should_stop()
LoopStopped(r) ==
    LET m == target[r] IN
    /\ pc[r] = "waiting"
    /\ r \in MayLeave
    /\ status[m] # "absent"
    /\ \/ m \in stopping_models /\ r \in queued
       \/ m \notin stopping_models /\ status[m] = "LOADING"
       \/ m \notin stopping_models /\ status[m] = "UNLOADED" /\ r \in queued \ came
    /\ GiveUp(r)
    /\ UNCHANGED <<status, failed, req_count, watched, deadline, child, target, victim, came,
                   reload, failures>>

\* saw_loading
LoopSeesLoading(r) ==
    LET m == target[r] IN
    /\ pc[r] = "waiting"
    /\ m \notin stopping_models /\ status[m] = "LOADING"
    /\ r \notin came
    /\ came' = came \cup {r}
    /\ UNCHANGED <<mapping, queue, queued, monitor, child, pc, target, victim, reload, failures>>

\* Mutant: a turn may be taken twice.
ClaimTwice(r) ==
    LET m == target[r] IN
    /\ pc[r] = "waiting"
    /\ m \notin stopping_models /\ status[m] = "UNLOADED"
    /\ r \in queued \ came
    /\ queue # <<>> /\ Head(queue).model_id = m
    /\ has_capacity
    /\ queue' = SetLoading(queue, m, TRUE)
    /\ Goto(r, "load")
    /\ UNCHANGED <<mapping, queued, monitor, child, target, victim, came, reload, failures>>

\* try_claim(): its model is at the head, nobody loads it yet and a slot is free.
Claim(r) ==
    LET m == target[r] IN
    /\ pc[r] = "waiting"
    /\ m \notin stopping_models /\ status[m] = "UNLOADED"
    /\ r \in queued \ came
    /\ queue # <<>> /\ Head(queue).model_id = m /\ ~Head(queue).loading
    /\ has_capacity
    /\ queue' = SetLoading(queue, m, TRUE)
    /\ Goto(r, "load")
    /\ UNCHANGED <<mapping, queued, monitor, child, target, victim, came, reload, failures>>

\* claim_done() after load(): an entry whose load did not go through is back in line.
ClaimDone(r) ==
    /\ pc[r] \in {"loaded", "threw"}
    /\ queue' = IF pc[r] = "threw" THEN SetLoading(queue, target[r], FALSE) ELSE queue
    /\ came' = IF pc[r] = "loaded" THEN came \cup {r} ELSE came
    /\ tick(status, stopping_models, queue', req_count, cmds)
    /\ Goto(r, "waiting")
    /\ UNCHANGED <<status, failed, req_count, queued, watched, deadline, child, target, victim,
                   reload, failures>>

-----------------------------------------------------------------------------
(* load(), by a request that has claimed the slot or by POST /models/load *)

\* load() returns or throws: POST /models/load is over then.
Return(t, l) == Goto(t, IF t \in Admins THEN "over" ELSE l)

\* has_model()
LoadBegin(t) ==
    /\ pc[t] = "load"
    /\ IF status[target[t]] = "absent" THEN Return(t, "threw") ELSE Goto(t, "make_room")
    /\ UNCHANGED <<mapping, queue, queued, monitor, child, target, victim, came, reload, failures>>

\* unload_lru(), which gives up one idle model when there is no free slot.
MakeRoom(t) ==
    LET idle == IdleModels(status, stopping_models, queue, req_count) IN
    /\ pc[t] = "make_room"
    /\ IF has_capacity \/ idle = {} THEN Goto(t, "spawn") /\ UNCHANGED victim
       ELSE \E v \in idle : victim' = [victim EXCEPT ![t] = v] /\ Goto(t, "unload_victim")
    /\ UNCHANGED <<mapping, queue, queued, monitor, child, target, came, reload, failures>>

Kill(m) == proc' = [proc EXCEPT ![m] = IF @ \in Alive THEN "exited_bad" ELSE @]

\* unload() of a running model: one that is loading is killed, the others are asked to exit.
StopModel(m) ==
    /\ IF status[m] = "LOADING"
       THEN Kill(m) /\ Stop(stopping_models, {m}, cmds, "KILLED")
       ELSE UNCHANGED proc /\ Stop(stopping_models, {m}, cmds, "EXIT")
    /\ UNCHANGED <<out, told>>

\* unload()
unload(m) == IF IsRunning(status[m]) THEN StopModel(m)
             ELSE UNCHANGED <<stopping_models, cmds, child>>

UnloadVictim(t) ==
    /\ pc[t] = "unload_victim"
    /\ unload(victim[t])
    /\ Goto(t, "await_victim")
    /\ UNCHANGED <<status, failed, req_count, queue, queued, watched, deadline, target, victim,
                   came, reload, failures>>

\* The wait has no timeout.  It reads mapping[victim], which creates the entry of
\* a model that is gone.
AwaitVictim(t) ==
    /\ pc[t] = "await_victim"
    /\ status[victim[t]] \in {"UNLOADED", "absent"}
    /\ status' = [status EXCEPT ![victim[t]] = "UNLOADED"]
    /\ victim' = [victim EXCEPT ![t] = NoModel]
    /\ Goto(t, "spawn")
    /\ UNCHANGED <<failed, stopping_models, req_count, queue, queued, monitor, child, target, came,
                   reload, failures>>

\* Somebody else loads the model already.
LoadNotNeeded(t) ==
    /\ pc[t] = "spawn"
    /\ ~is_reloading
    /\ IsRunning(status[target[t]])
    /\ Return(t, "loaded")
    /\ UNCHANGED <<mapping, queue, queued, monitor, child, target, victim, came, reload, failures>>

\* The slot is taken, ...
LoadRefused(t) ==
    /\ pc[t] = "spawn"
    /\ ~is_reloading
    /\ ~IsRunning(status[target[t]])
    /\ ~has_capacity
    /\ Return(t, "threw")
    /\ UNCHANGED <<mapping, queue, queued, monitor, child, target, victim, came, reload, failures>>

\* ... or there is no port or process to have; mapping[name] is read before.
SpawnFails(t) ==
    /\ pc[t] = "spawn"
    /\ ~is_reloading
    /\ ~IsRunning(status[target[t]])
    /\ has_capacity
    /\ failures < MaxFailures
    /\ failures' = failures + 1
    /\ status' = [status EXCEPT ![target[t]] = "UNLOADED"]
    /\ Return(t, "threw")
    /\ UNCHANGED <<failed, stopping_models, req_count, queue, queued, monitor, child, target, victim,
                   came, reload>>

\* Mutant: the capacity is not looked at again.
SpawnUnchecked(t) ==
    LET m == target[t] IN
    /\ pc[t] = "spawn"
    /\ ~is_reloading
    /\ ~IsRunning(status[m])
    /\ status' = [status EXCEPT ![m] = "LOADING"]
    /\ req_count' = [req_count EXCEPT ![m] = 0]
    /\ proc' = [proc EXCEPT ![m] = "starting"]
    /\ cmds' = [cmds EXCEPT ![m] = Append(@, "WATCH")]
    /\ Return(t, "loaded")
    /\ UNCHANGED <<failed, stopping_models, queue, queued, watched, deadline, out, told, target,
                   victim, came, reload, failures>>

\* The new instance takes the place of the old one in the mapping, with no requests.
Spawn(t) ==
    LET m == target[t] IN
    /\ pc[t] = "spawn"
    /\ ~is_reloading
    /\ ~IsRunning(status[m])
    /\ has_capacity
    /\ status' = [status EXCEPT ![m] = "LOADING"]
    /\ req_count' = [req_count EXCEPT ![m] = 0]
    /\ proc' = [proc EXCEPT ![m] = "starting"]
    /\ cmds' = [cmds EXCEPT ![m] = Append(@, "WATCH")]
    /\ Return(t, "loaded")
    /\ UNCHANGED <<failed, stopping_models, queue, queued, watched, deadline, out, told, target,
                   victim, came, reload, failures>>

-----------------------------------------------------------------------------
(* proxy_request() *)

\* get_meta()
ProxyMeta(r) ==
    /\ pc[r] = "ensured"
    /\ Goto(r, IF IsRunning(status[target[r]]) THEN "counting" ELSE "over")
    /\ UNCHANGED <<mapping, queue, queued, monitor, child, target, victim, came, reload, failures>>

\* mapping[name].req_count++ under another lock.
ProxyCount(r) ==
    LET m == target[r] IN
    /\ pc[r] = "counting"
    /\ req_count' = [req_count EXCEPT ![m] = @ + 1]
    /\ status' = [status EXCEPT ![m] = IF @ = "absent" THEN "UNLOADED" ELSE @]
    /\ Goto(r, "proxied")
    /\ UNCHANGED <<failed, stopping_models, queue, queued, monitor, child, target, victim, came,
                   reload, failures>>

\* Mutant: the request is not counted off.
ProxyEndUncounted(r) ==
    /\ pc[r] = "proxied"
    /\ Goto(r, "over")
    /\ UNCHANGED <<mapping, queue, queued, monitor, child, target, victim, came, reload, failures>>

\* The response is complete or broken off: cleanup().
ProxyEnd(r) ==
    LET m == target[r]
        counted == status[m] # "absent" /\ req_count[m] > 0
    IN
    /\ pc[r] = "proxied"
    /\ req_count' = [req_count EXCEPT ![m] = IF counted THEN @ - 1 ELSE @]
    /\ IF counted /\ req_count[m] = 1
       THEN tick(status, stopping_models, queue, req_count', cmds)
       ELSE UNCHANGED <<stopping_models, cmds>>
    /\ Goto(r, "over")
    /\ UNCHANGED <<status, failed, queue, queued, watched, deadline, child, target, victim, came,
                   reload, failures>>

-----------------------------------------------------------------------------
(* The management requests *)

\* POST /models/load: get_meta()
AdminLoad(a) ==
    /\ pc[a] = "idle" /\ "load" \in AdminOps[a]
    /\ \E m \in Models :
        /\ target' = [target EXCEPT ![a] = m]
        /\ Goto(a, IF status[m] = "UNLOADED" THEN "load" ELSE "over")
    /\ UNCHANGED <<mapping, queue, queued, monitor, child, victim, came, reload, failures>>

\* POST /models/unload: get_meta(), ...
AdminUnload(a) ==
    /\ pc[a] = "idle" /\ "unload" \in AdminOps[a]
    /\ \E m \in Models :
        /\ target' = [target EXCEPT ![a] = m]
        /\ Goto(a, IF IsRunning(status[m]) THEN "unload" ELSE "over")
    /\ UNCHANGED <<mapping, queue, queued, monitor, child, victim, came, reload, failures>>

\* ... then unload().
AdminUnloads(a) ==
    /\ pc[a] = "unload"
    /\ unload(target[a])
    /\ Goto(a, "over")
    /\ UNCHANGED <<status, failed, req_count, queue, queued, watched, deadline, target, victim,
                   came, reload, failures>>

\* The mapping follows the sources that were found, and loads may go on.
Reconcile(found) ==
    /\ status' = [m \in Models |-> IF m \notin found THEN "absent"
                                   ELSE IF status[m] = "absent" THEN "UNLOADED" ELSE status[m]]
    /\ req_count' = [m \in Models |-> IF m \in found THEN req_count[m] ELSE 0]
    /\ failed' = failed \cap Running(status)
    /\ is_reloading' = FALSE

\* load_models(): some sources may be gone since, others changed.  Running models
\* without a source or with another preset are to be unloaded, ...
ReloadBegin(a) ==
    /\ pc[a] = "idle" /\ "reload" \in AdminOps[a]
    /\ \E gone, changed \in SUBSET MayVanish :
         LET down == Running(status) \cap (gone \cup changed) IN
         IF down = {}
         THEN Reconcile(Models \ gone) /\ Goto(a, "over") /\ UNCHANGED <<to_unload, remaining, final_presets>>
         ELSE /\ is_reloading' = TRUE
              /\ final_presets' = [final_presets EXCEPT ![a] = Models \ gone]
              /\ to_unload' = [to_unload EXCEPT ![a] = down]
              /\ remaining' = [remaining EXCEPT ![a] = down]
              /\ Goto(a, "reload")
              /\ UNCHANGED <<status, failed, req_count>>
    /\ UNCHANGED <<stopping_models, queue, queued, monitor, child, target, victim, came, failures>>

\* ... one after the other, with the mutex released in between, ...
ReloadUnload(a) ==
    /\ pc[a] = "reload"
    /\ \E m \in remaining[a] : unload(m) /\ remaining' = [remaining EXCEPT ![a] = @ \ {m}]
    /\ UNCHANGED <<status, failed, req_count, queue, queued, watched, deadline, thread,
                   to_unload, final_presets, is_reloading, failures>>

\* ... and waited for.
ReloadFinish(a) ==
    /\ pc[a] = "reload"
    /\ remaining[a] = {} /\ to_unload[a] \cap Running(status) = {}
    /\ Reconcile(final_presets[a])
    /\ to_unload' = [to_unload EXCEPT ![a] = {}]
    /\ final_presets' = [final_presets EXCEPT ![a] = {}]
    /\ Goto(a, "over")
    /\ UNCHANGED <<stopping_models, queue, queued, monitor, child, target, victim, came, remaining,
                   failures>>

\* unload_all(), once the HTTP server has stopped.
Shutdown(a) ==
    /\ pc[a] = "idle" /\ "shutdown" \in AdminOps[a]
    /\ \A t \in Threads \ {a} : pc[t] = "over"
    /\ proc' = [m \in Models |-> IF status[m] = "LOADING" /\ proc[m] \in Alive THEN "exited_bad"
                                 ELSE proc[m]]
    /\ stopping_models' = stopping_models \cup Running(status)
    /\ cmds' = [m \in Models |->
                  IF m \notin Running(status) \ stopping_models THEN cmds[m]
                  ELSE Append(cmds[m], IF status[m] = "LOADING" THEN "KILLED" ELSE "EXIT")]
    /\ Goto(a, "shutdown")
    /\ UNCHANGED <<status, failed, req_count, queue, queued, watched, deadline, out, told, target,
                   victim, came, reload, failures>>

ShutdownDone(a) ==
    /\ pc[a] = "shutdown"
    /\ Running(status) = {}
    /\ Goto(a, "over")
    /\ UNCHANGED <<mapping, queue, queued, monitor, child, target, victim, came, reload, failures>>

-----------------------------------------------------------------------------
(* server_monitor: one thread for all the children *)

\* Mutant: the child has all the time it wants.
HandleCommandUntimed(m) ==
    /\ cmds[m] # <<>>
    /\ cmds' = [cmds EXCEPT ![m] = Tail(@)]
    /\ watched' = IF Head(cmds[m]) = "WATCH" THEN watched \cup {m} ELSE watched
    /\ told' = IF Head(cmds[m]) = "EXIT" /\ m \in watched THEN told \cup {m} ELSE told
    /\ UNCHANGED <<mapping, queue, queued, deadline, proc, out, thread, reload, failures>>

\* A WATCH or STOP command.  The newest child of the name gets the exit command
\* and a time at which it is killed.
HandleCommand(m) ==
    /\ cmds[m] # <<>>
    /\ cmds' = [cmds EXCEPT ![m] = Tail(@)]
    /\ watched' = IF Head(cmds[m]) = "WATCH" THEN watched \cup {m} ELSE watched
    /\ told' = IF Head(cmds[m]) = "EXIT" /\ m \in watched THEN told \cup {m} ELSE told
    /\ deadline' = IF Head(cmds[m]) # "WATCH" /\ m \in watched THEN deadline \cup {m} ELSE deadline
    /\ UNCHANGED <<mapping, queue, queued, proc, out, thread, reload, failures>>

\* A state line: handle_child_state(), update_status().
ReadLine(m) ==
    /\ m \in watched /\ out[m] # <<>>
    /\ out' = [out EXCEPT ![m] = Tail(@)]
    /\ IF status[m] = "absent" THEN UNCHANGED <<status, failed, stopping_models, cmds>>
       ELSE /\ status' = [status EXCEPT ![m] = Head(out[m])]
            /\ failed' = failed \ {m}
            /\ tick(status', stopping_models, queue, req_count, cmds)
    /\ UNCHANGED <<req_count, queue, queued, watched, deadline, proc, told, thread, reload, failures>>

\* The deadline has passed.
ForceKill(m) ==
    /\ m \in deadline
    /\ deadline' = deadline \ {m}
    /\ Kill(m)
    /\ UNCHANGED <<mapping, queue, queued, cmds, watched, out, told, thread, reload, failures>>

\* Mutant: the end of the output is taken for the end of the process.
ReapUnread(m) ==
    /\ m \in watched /\ proc[m] # "none" /\ out[m] = <<>>
    /\ m \in told
    /\ watched' = watched \ {m}
    /\ deadline' = deadline \ {m}
    /\ told' = told \ {m}
    /\ failed' = IF proc[m] = "exited_bad" THEN failed \cup {m} ELSE failed \ {m}
    /\ status' = [status EXCEPT ![m] = "UNLOADED"]
    /\ tick(status', stopping_models \ {m}, queue, req_count, cmds)
    /\ UNCHANGED <<req_count, queue, queued, proc, out, thread, reload, failures>>

\* The process has ended and all its output is read: on_child_exit().
Reap(m) ==
    /\ m \in watched /\ proc[m] \in Exited /\ out[m] = <<>>
    /\ watched' = watched \ {m}
    /\ deadline' = deadline \ {m}
    /\ told' = told \ {m}
    /\ proc' = [proc EXCEPT ![m] = "none"]
    /\ IF status[m] = "absent"
       THEN stopping_models' = stopping_models \ {m} /\ UNCHANGED <<status, failed, cmds>>
       ELSE /\ status' = [status EXCEPT ![m] = "UNLOADED"]
            /\ failed' = IF proc[m] = "exited_bad" THEN failed \cup {m} ELSE failed \ {m}
            /\ tick(status', stopping_models \ {m}, queue, req_count, cmds)
    /\ UNCHANGED <<req_count, queue, queued, out, thread, reload, failures>>

-----------------------------------------------------------------------------
(* A child: llama-server with LLAMA_SERVER_ROUTER_PORT set *)

Say(m, st, line) ==
    /\ proc' = [proc EXCEPT ![m] = st]
    /\ out' = [out EXCEPT ![m] = Append(@, line)]
    /\ UNCHANGED <<mapping, queue, queued, monitor, told, thread, reload, failures>>

\* notify_to_router(): the model is loaded, for the first time or again after sleep,
ChildReady(m) == proc[m] \in {"starting", "waking"} /\ Say(m, "up", "LOADED")

\* handle_sleeping_state(): it goes to sleep
ChildSleeps(m) == m \in MaySleep /\ proc[m] = "up" /\ out[m] = <<>> /\ Say(m, "asleep", "SLEEPING")

\* and is woken by a request.
ChildWakes(m) ==
    /\ proc[m] = "asleep" /\ out[m] = <<>>
    /\ \E r \in Requests : target[r] = m /\ pc[r] = "proxied"
    /\ Say(m, "waking", "LOADING")

\* The exit command; the stdin is not read before the model is loaded.
ChildExits(m) ==
    /\ m \in told /\ proc[m] \in {"up", "asleep"}
    /\ proc' = [proc EXCEPT ![m] = "exited_ok"]
    /\ UNCHANGED <<mapping, queue, queued, monitor, out, told, thread, reload, failures>>

ChildCrashes(m) ==
    /\ m \in MayCrash /\ proc[m] \in Alive
    /\ Kill(m)
    /\ UNCHANGED <<mapping, queue, queued, monitor, out, told, thread, reload, failures>>

-----------------------------------------------------------------------------

Load(t) == LoadBegin(t) \/ MakeRoom(t) \/ UnloadVictim(t) \/ AwaitVictim(t)
           \/ LoadNotNeeded(t) \/ LoadRefused(t) \/ Spawn(t)

Request(r) ==
    \/ EnsureMeta(r) \/ EnsureStopping(r) \/ EnsureJoin(r)
    \/ WaitForExit(r) \/ LoopEnds(r) \/ LoopFails(r) \/ LoopStopped(r)
    \/ LoopSeesLoading(r) \/ Claim(r) \/ ClaimDone(r)
    \/ ProxyMeta(r) \/ ProxyCount(r) \/ ProxyEnd(r)

Admin(a) ==
    \/ AdminLoad(a) \/ AdminUnload(a) \/ AdminUnloads(a)
    \/ ReloadBegin(a) \/ ReloadUnload(a) \/ ReloadFinish(a)
    \/ Shutdown(a) \/ ShutdownDone(a)

Monitor(m) == HandleCommand(m) \/ ReadLine(m) \/ Reap(m)

RNext ==
    \/ \E r \in Requests : Request(r)
    \/ \E a \in Admins : Admin(a)
    \/ \E t \in Threads : Load(t) \/ SpawnFails(t)
    \/ \E m \in Models : \/ Monitor(m) \/ ForceKill(m)
                         \/ ChildReady(m) \/ ChildSleeps(m) \/ ChildWakes(m)
                         \/ ChildExits(m) \/ ChildCrashes(m)

\* Threads and the monitor run on; a child loads its model in the end, and the
\* deadline of one that was asked to exit passes.  Nothing else is owed: clients,
\* crashes, sleep and the removal of sources come or not.
RFairness ==
    /\ \A r \in Requests : WF_rvars(Request(r) \/ Load(r))
    /\ \A a \in Admins : WF_rvars(Load(a) \/ AdminUnloads(a) \/ ReloadUnload(a) \/ ReloadFinish(a)
                                  \/ ShutdownDone(a))
    /\ \A m \in Models : WF_rvars(Monitor(m)) /\ WF_rvars(ForceKill(m)) /\ WF_rvars(ChildReady(m))

RSpec == RInit /\ [][RNext]_rvars

FairRSpec == RSpec /\ RFairness

-----------------------------------------------------------------------------
(* Properties *)

\* Every variable keeps its type.
RouterTypeOK ==
    /\ status \in [Models -> {"absent", "UNLOADED", "LOADING", "LOADED", "SLEEPING"}]
    /\ failed \subseteq Models /\ stopping_models \subseteq Models /\ is_reloading \in BOOLEAN
    /\ req_count \in [Models -> Nat]
    /\ queue \in Seq([model_id : Models, n_waiters : Nat, loading : BOOLEAN])
    /\ cmds \in [Models -> Seq({"WATCH", "EXIT", "KILLED"})]
    /\ watched \subseteq Models /\ deadline \subseteq Models /\ told \subseteq Models
    /\ proc \in [Models -> {"none"} \cup Alive \cup Exited]
    /\ out \in [Models -> Seq({"LOADED", "LOADING", "SLEEPING"})]
    /\ target \in [Threads -> Models \cup {NoModel}]
    /\ victim \in [Threads -> Models \cup {NoModel}]
    /\ queued \subseteq Requests /\ came \subseteq Requests
    /\ failures \in 0..MaxFailures
    /\ {to_unload, remaining, final_presets} \subseteq [Admins -> SUBSET Models]

\* Never more than models_max models are loaded, whatever the order in which
\* concurrent loads look at the capacity, and no more processes than that run
\* (load: "Re-check capacity under the lock to prevent concurrent loads from
\* exceeding models_max").
WithinLimit ==
    MaxModels > 0 =>
        /\ Cardinality(Running(status)) <= MaxModels
        /\ Cardinality({m \in Models : proc[m] \in Alive}) <= MaxModels

\* A model that is not loaded has no process, so that loading it again cannot
\* start a second one (load: "old process should have exited already").
NoSecondProcess == \A m \in Models : ~IsRunning(status[m]) => proc[m] = "none"

\* The queue counts the waiting requests: one entry per model, gone with its last
\* waiter (join, leave).
QueueCountsWaiters ==
    /\ \A i, j \in DOMAIN queue : queue[i].model_id = queue[j].model_id => i = j
    /\ \A m \in Models :
         LET n == Cardinality({r \in queued : target[r] = m /\ pc[r] # "over"})
         IN  IF n = 0 THEN find(queue, m) = {}
             ELSE \E i \in find(queue, m) : queue[i].n_waiters = n

\* A model does not stay busy for ever: without requests that are being proxied its
\* count is zero, so that it can be evicted (proxy_request, cleanup).
NoBusyLeak ==
    \A m \in Models :
        req_count[m] \in 0..Cardinality({r \in Requests : target[r] = m /\ pc[r] = "proxied"})

\* What is being loaded for a claimed entry is loaded once: no two waiters have
\* the claim of one entry (try_claim).
OneClaim ==
    \A r, q \in Requests :
        /\ r \in queued /\ pc[r] \notin {"waiting"} /\ q \in queued /\ pc[q] \notin {"waiting"}
        /\ target[r] = target[q]
        => r = q

\* A stop is carried out: a model that is stopping is told so, or the monitor is
\* about to tell it, or its process has ended (request_stop, on_child_exit).
StopIsOnItsWay ==
    \A m \in stopping_models :
        \/ proc[m] \in Exited \/ m \in deadline
        \/ \E i \in DOMAIN cmds[m] : cmds[m][i] # "WATCH"

\* Entry of a model whose load is over and that is down again, with nobody to
\* load it.
ClaimLost ==
    \E i \in DOMAIN queue :
        /\ queue[i].loading /\ status[queue[i].model_id] = "UNLOADED"
        /\ \A r \in queued : target[r] = queue[i].model_id => pc[r] = "waiting" /\ r \notin came

\* Every request ends, unless the claim of its entry is lost for ever: no wakeup is
\* missed, a model that is stopping goes down and is loaded again for those who wait
\* for it, and the slot freed for a waiter that goes away serves the next one.
RequestsEnd == <>[](\A r \in Requests : pc[r] \in {"idle", "over"}) \/ <>[]ClaimLost

=============================================================================
