# TLA+ models of the llamAmpere server

llamAmpere is a fork of llama.cpp. Most of the repository is numeric code (ggml,
the graph builders, the model loaders) or sequential data transformation
(tokenizers, templates, JSON). The parts where states, threads, processes and
orders of events decide about correctness are in the HTTP server,
`tools/server`, and in a few caches with threads of their own under `src/`. This
project models those parts in TLA+, checks them with TLC on small instances, and
proves what matters most with TLAPS for every instance.

Paths below are relative to the repository's root.

## Inventory

| component | state | operations | interacts through |
|---|---|---|---|
| task queue, `server-queue.*` `server_queue` | three deques, the flags `running`, `stopped`, `sleeping`, `req_stop_sleeping`, the record `worker_t` | `post`, `defer`, `pop_deferred_task`, `wait_until_no_sleep`, `terminate`, `start_loop`, `yield_to_queue`, `worker_loop` | one mutex, the condition variables `condition_tasks` (shared by three kinds of threads) and `worker.cv`, two callbacks |
| result queue, `server_response` | `waiting_task_ids`, `queue_results` | `add_*`, `remove_*`, `send`, `recv_with_timeout` | one mutex, one condition variable |
| readers, `server_response_reader` | `id_tasks`, `received_count`, `cancelled` | `post_task(s)`, `next`, `wait_for_all`, `stop` | one per HTTP request; calls both queues |
| slots, `server-context.cpp` | what each slot is processing | `process_single_task`, `update_slots`, `launch_slot_with_task`, `release`, `abort_all_slots` | called by the loop thread, and by the worker inside a yield; no lock |
| sleeping | model loaded or not | `handle_sleeping_state` | a callback of `start_loop` |
| start and shutdown, `server.cpp` | signal handler, monitor thread | `terminate`, `clean_up` | calls the queue from other threads |
| stream sessions, `server-stream.cpp` | map of sessions, a ring buffer each | `append`, `read_from`, `cancel`, `evict`, `gc` | HTTP threads and a garbage collector thread |
| router, `server-models.cpp` | the mapping of models to instances, the load queue `server_lru_sched`, the monitor's commands and deadlines | `ensure_ready`, `load`, `unload`, `load_models` (reload), `tick`, `update_status`, the proxying of a request | HTTP threads, one monitor thread, a child process per model, its stdin and stdout |
| prompt cache in RAM, `server-task.cpp` `server_prompt_cache` | the stored states, the staging area | `alloc`, `load`, `update`, `flush_to_disk` | the main thread of one server; spills to the disk tier |
| prompt cache on disk, `server-prompt-cache-disk.cpp` | a directory of files, an index per server | `open`, `scan`, `write`, `read` | several servers share the directory; it survives crashes |
| PLE prefetch, `src/llama-ple-prefetch.cpp` | the runs of a call, what is left of each chunk, the window, the rows decoded ahead | `start`, `hint`, `consume`, `gather`, `stop`; `build` and `reader` on threads | a mutex, two condition variables, atomics that are read without it |
| MoE expert cache, `src/llama-moe-cache.cpp` | slot map, its inverse, LRU order | `touch`, `plan`, `copy_experts` | called by the evaluation of a graph |
| KV caches, recurrent memory, `src/` | cell metadata | find slot, `seq_rm`, `seq_cp`, rollback | sequential |
| speculative decoding, reasoning budget, log, eval cache | small state machines | | mostly sequential; the log has a thread |
| ggml, models, vocab, grammar, sampling, conversion | numeric or textual data | | not modelled |

What is hard here: the slots have no lock and are kept apart only by the
handshake between the loop and the worker; three kinds of threads share one
condition variable that is often notified with `notify_one`; a request passes
through five places (gate, deque, hands of a thread, slot, result queue) while
its client may disconnect and the server may fall asleep or shut down at any
moment; a deferred request depends on somebody else's release to be looked at
again; the router releases its mutex while it waits for children that may die by
themselves; servers that know nothing of each other write, evict and crash in one
directory; and the prefetch readers look at the window without the mutex.
`PROJECT.json` lists these hazards with their lines under "hazards".

## Modules

- `ServerQueue`: the task queue. One action per critical section of
  `mutex_tasks`, or per stretch of code between two of them. The loop thread has
  the program counter `pcM` and the task in its hands `handM`; the worker `pcW` and
  `handW`; each HTTP thread `client[t]`. The blocked threads of `condition_tasks`
  are the set `waiters`, `parked` says that the worker is blocked on `worker.cv`;
  `notify_one` removes any one member. What the two callbacks do is left open
  within what `process_single_task` and `update_slots` can do to the queue, so
  that the module covers every way the slots may behave.
- `ServerResponse`: the result queue and the readers. `rpc[r]` is where a reader
  is. `stop()` is three kinds of steps, as it takes the mutex once for all ids,
  once for each id, and then posts the CANCEL tasks.
- `ResponseLife`: `ServerResponse` closed with an abstract server, that is with the
  life of a task as the readers may assume it: pending, running, over. It is also
  the abstract specification that `Server` is shown to implement.
- `Server`: `ServerQueue` and `ServerResponse` composed with the slots. Each action
  is a step of the queue joined with what the callback does, or a step of a
  reader; the choices that `ServerQueue` leaves open are closed with the state of
  the slots. A computation is abstracted to its outcome: more tokens, the last
  token, an error, or an exception.
- `StreamSessions`: resumable streaming. A session is named by the POST that creates
  it and has a ring (`buffer`, `prefix_dropped`) and the flags `done` and `cancelled`.
  The threads are the POSTs (`wpc[r]`: install the session, wait for the first
  result, tee, drain, destroy), the GETs (`rpc[g]`), the DELETEs (`dpc[d]`), the
  collector and `stop_gc` (`mpc`). A session that is out of the map and not yet
  finalized is in `held`, `dheld` or `snapshot`. One action per critical section of
  `map_mu` or of a session's `mu`. It stands alone: the generation behind a POST
  yields chunks, ends, or yields nothing for ever. Byte k of a stream is the number
  k, so that a property can tell which bytes a ring holds and a reader was sent.
- `Router`: router mode. The variables named in the code (`status`, `queue`,
  `req_count`, `stopping_models`, ...) are those of `server_models` and of
  `server_lru_sched`; `cmds`, `watched` and `deadline` are the monitor thread's;
  `proc`, `out` and `told` are a child, its stdout and its stdin. A thread (`pc[t]`) is
  a request that is proxied or a management request. One action per critical section
  of `server_models::mutex`, per step of the monitor, per step of a child.
- `PromptDisk` and `PromptCache`: the two tiers of the prompt cache. `PromptDisk` has
  the directory (`dir`, oldest file first), the index of each server (`entries`) and
  its `write` (`todo`, `wpc`), with one action per step that another server or a crash
  can see: make room, write the `.tmp` file, rename it, remove what it supersedes.
  `PromptCache` has one server in full (`Self`: slots, states in RAM, staging area, what
  its main thread does) and its neighbours as writers and readers of the directory.
- `PlePrefetch`: the prefetch of per-layer embeddings. The main thread is `pc`, the
  coordinator `coord` with its `chunk`, each reader a record `reader[r]` (its label, the
  run it is at, the end of its batch, what it has read and not counted), the thread
  that decodes ahead `decoding`. One action per critical section of `mtx` or per access
  of an atomic outside of it.
- `Subsequences`: what is left of a sequence when elements are erased, for the three
  modules whose deques and vectors lose elements in the middle.
- `ServerQueueProofs`, `ResponseProofs`, `ServerProofs`, `StreamSessionsProofs`,
  `RouterProofs`, `PromptProofs`, `PlePrefetchProofs`: theorems; `SubsequenceProofs`:
  lemmas that two of them share.
- `MCQueue`, `MCResponse`, `MCServer`, `MCStream`, `MCRouter`, `MCPrompt`, `MCPrefetch`:
  constants for TLC.

The operators that a comment calls a mutant are faulty variants of the definition
that follows them (a forgotten notification, a task moved but not erased). They
are not part of a specification: replacing the definition by its mutant must
violate a property, which shows that the property is not vacuous. `PROJECT.json`
pairs each property of each passing run with such a variant.

### How the code is abstracted

- A task is its id. Its kind is one of: completion (COMPLETION, INFILL,
  EMBEDDING, RERANK, DECISION: they need a slot), slot action (SLOT_SAVE,
  SLOT_RESTORE, SLOT_ERASE: they need a given slot to be idle and occupy none),
  `slot_get` and `metrics` (they only read, and may run on the worker).
- Each HTTP thread has one task, except in `ResponseLife`, where a reader has several.
- Time is not modelled. A timeout may happen whenever the code waits with one; the
  idle timer may have expired whenever the loop looks at it; the force-kill deadline
  of a child may pass whenever it is set.
- Spurious wakeups are left out: every wait of the code has a predicate or a loop,
  so that they add no behaviour but the repetition of a check.
- The 200 ms wait of `read_from` is a step that is enabled when what it waits for
  holds; the time to live of a session is left open (any done session may be
  collected). `POST /v1/streams/lookup` only reads, and is left out.
- Which idle slot `get_available_slot` prefers, and which idle model the router evicts
  first, is left open.
- `running` is written by `start_loop` without the lock; the model makes that
  an atomic step, before the worker exists.
- The name of a prompt file is an id that no file and no index has. What the header's
  size field and the checksum find is one field of a file: good, cut or flipped.
  The order of modification times is the order of the sequence `dir`.
- Which pages a chunk of tokens needs is abstracted to how many runs it publishes.

## Runs

| run | instance | shows |
|---|---|---|
| `queue_safety` | 3 HTTP threads, 2 slot ids, sleep | the worker runs callbacks only while the loop is inside a yield; a finished yield leaves nothing behind; no lost wakeup; no task in two places |
| `response` | a reader with two tasks, one with one, one waiting partial result per task | an answer is complete and every result in it counted once; every reader leaves |
| `server_safety` | a completion, a slot action and a metrics request on one slot; disconnects, failing launches, exceptions, sleep | types; the model is unloaded only when all slots are idle; no result is left behind; no request is forgotten while tasks move between loop and worker |
| `server_faults` | 2 completions, 1 slot; failing launches, exceptions, disconnects, shutdown at any moment | no task launched twice; the server implements `ResponseLife`; every request ends; `start_loop` returns wherever its two threads are |
| `streams` | 2 requests of one conversation, a reader, a delete; failures, disconnects, shutdown | rings and replays are exact, a finished replay is complete, no session is lost, everything generated is in the ring until the session is cancelled; readers end when their session leaves the map or the server stops |
| `router` | 2 models of which one may run, 2 requests for one, a management request of any kind; crashes, sleep, vanishing sources, a failed start, a client that leaves | never more processes than `models_max`, never two of a model; the queue counts its waiters, no claim is held twice, no model stays busy, no stop is lost; every request ends |
| `prompt_cache` | 2 servers, one of which crashes; 2 slots, a RAM tier of one token, a directory of three; files found damaged, cut or of another configuration | types, both tiers within their limits, indexes true, nothing wrong restored; what is staged is written; a prompt on disk is lost only for want of room |
| `prefetch` | calls of 2 and 3 tokens, 2 readers (one for a cold table), chunks of one token, up to 2 runs per call; reads may fail | types, a covered ubatch has its pages read, the window is kept, a gather gives the rows asked for, a call outlives its threads; the main thread always comes back |

Four runs show a disagreement between the code and what the repository says about
it. Each checks one property, which quotes the line:

| run | what happens |
|---|---|
| `deferred_stranded` | `pop_deferred_task` returns one task per released slot. If that task occupies no slot (a slot action; a refused launch has the same effect), no release follows, and the next deferred task waits although all slots are idle. |
| `post_while_asleep` | A request passes the gate, the loop falls asleep, the task is posted: the sleeping loop does not look at the queue. Only the metrics handler knows of this case. |
| `stream_evicts_newer` | A request that fails before it streams evicts by conversation id, and so the session of a request that has replaced it; that one goes on generating into a session that is done. |
| `router_two_reloads` | Two reloads at a time: each releases the mutex while it unloads and waits, the first to finish clears `is_reloading`, and the second erases from the mapping a model that has been started meanwhile. Its process goes on beside the next one. |

Other deviations met while modelling are in the models, but have no run of their own:

- a CANCEL that is posted while the loop thread holds the task finds it in no deque;
  the callback may then defer the task, which runs later for a client that is gone
  (`server-context.cpp`, the CANCEL case of `process_single_task`);
- `terminate` during sleep ends the loop with `sleeping` still set, so that the return
  of `start_loop` does not release a thread in the gate (`server-queue.cpp:345`);
- `start_loop` sets `running` without looking at `stopped`, and so forgets a `terminate`
  that came before it (`server-queue.cpp:285`);
- a reader that the ring overtakes gets a normal end of its response, since
  `OFFSET_LOST` is not looked at (`server-stream.cpp:488`), and a reader of a cancelled
  session is still sent the rest of the ring (`server-stream.cpp:496`);
- until the first result a disconnect ends the request and evicts its session
  (`server-context.cpp:7655`); the tee protects a client only from then on;
- without `bounded_window` a prefetch reader that finds its run unpublished and then,
  without the mutex, `built` set, takes the run whatever the window is: it reads ahead
  of it. This is benign, and cannot happen with `bounded_window` (`WindowIsKept`).

`server_faults` has two completions on purpose: with a third one behind a launch
that fails, the situation of `deferred_stranded` arises and its client waits.

### Bounds

Two requests for one slot give every order of launch, defer, release, cancel and
wakeup between a running and a deferred request; the third task of `queue_safety`
and `server_safety` is there for the worker, which needs a task it runs and one it
declines in the same yield. `MaxPartials` bounds the results of one task that wait
unread (the code has no bound). The queues need no bound: each request has one task
and one CANCEL, and at most one NEXT_RESPONSE is under way.

In `streams` the ring holds 2 bytes and chunks have 3, so that a chunk is larger
than the ring; `MaxChunks = 1` gives up to two chunks per request, which is enough
for bytes that are dropped before, between and after two reads. A reader starts at
byte 1, so that it may be refused at once, be overtaken, or ask beyond the end. Only
one of the two requests may fail or lose its client: `RingCompleteAlone` is then about
that one, and `stream_evicts_newer` shows what happens to the other.

In `router` one slot for two models forces evictions; one management thread makes
one request of any kind, so that reloads do not overlap (`router_two_reloads` has
two); `MaxFailures` bounds the times a process cannot be started. In `prompt_cache`
the prompts are `<<1>>`, `<<1, 2>>` and `<<3>>`: a prefix, what supersedes it, and another
conversation; with limits of 1 and 3 tokens each branch of `alloc` and of the eviction
is taken. `FileIds` bounds the names; states that differ in names alone are one
(`VIEW`). In `prefetch` `MaxTokens` bounds the calls, `MaxRuns` the runs of one, and a
batch has two runs, so that a batch ends in the middle of a chunk and of a call.

`CHECK_DEADLOCK FALSE` is set because each thread may come to its end.

### Fairness

Every thread is scheduled (weak fairness of the steps of each HTTP thread, of the
loop and of the worker). An unread timeout is a step that is always enabled, so
a waiting reader does get to see the shutdown. `update_slots` returns, and a slot
that is decoded again and again ends its generation (`n_predict` or the context
size bounds it): strong fairness of `SendLast` and `UpdateDone`, since a yield, which
is not fair, disables them for a while. In `StreamSessions` the results of a
generation are not fair: readers must end without them. Only after the task loop
has ended do the POSTs get an answer, the error of `server_response_reader::next`.
In `Router` the threads, the monitor and the children that are told to exit or are
loading are scheduled; a child need not react to its stdin, as the monitor kills
it. In `PlePrefetch` every thread of a call is scheduled and reads return; nobody has
to call. `PromptCache` has no liveness property and no fairness. Nothing makes a
client disconnect, a computation throw, a process crash, the idle timer expire or
the operator shut the server down.

## Proofs

All theorems are for every value of the constants that satisfies the modules'
named assumptions. A theorem that carries a property of a run is listed with it in
`PROJECT.json`. Where an invariant is not inductive, the strengthening is this:

**`ServerQueueProofs`.** `TypeCorrect`; `HandshakeInvariant` and from it
`WorkerConfined`, `YieldClean`, `WakeupsArrive`. That a `notify_one` in `post` reaches the
worker depends on the worker being the only thread blocked on `condition_tasks` at
that time. The loop is then computing, so it is not blocked itself; and no HTTP
thread is in the gate, because the server sleeps only while the loop is in its own
wait, or on its way out after a shutdown. `Handshake` states this: `FlagsOK` ties the
fields of `worker_t` to the two program counters, `BlockedOK` says who may be blocked
and where. `TasksAreSingle` counts the places an item is in (`Places`: a set of
deque positions and hands) and shows that a step moves an item or creates one that
was nowhere.

**`ResponseProofs`.** `ResponseInvariant` (`LInv`), `AnswersAreComplete`,
`ReadersAreServed`: the final result of a task is sent when its life ends, waits in
the result queue at most once, and is counted when it is taken out. What the readers
and the server do to the queue is appending a result and removing some, in order.

**`ServerProofs`.** The composition. `TasksLaunchedOnce` from the places of
`ServerQueueProofs` extended by the slots; `SleepsOnlyWhenIdle` from `NextOK`: a busy
slot keeps one NEXT_RESPONSE in the queue, in somebody's hands or owed by
`update_slots`, through every yield; `ServerTypes`, `NoResultsLeftBehind`,
`NoRequestsForgotten`. `ServerImplementsResponseLife` is the safety part of
`ImplementsResponseLife`: initial states map to initial states and every step maps to
a step or a stutter of `ResponseLife`, with the pending set being the tasks in a deque,
in a hand or about to be posted, and the running set those in a slot. Through the
instance the theorems of `ResponseProofs` then hold of the server.

**`StreamSessionsProofs`.** `StreamInvariant` and from it `RingIsExact`, `ReplayIsExact`,
`CompleteIsAll`, `SessionsAreOwned`, `StreamTypesCorrect`; `RingsAreComplete`. `Run(s, p)` says that a sequence
is the bytes that follow p; the lemmas `RunTail` and `RunConcat` say what dropping and
concatenating do to runs, and give `AppendStep` for the branches of `append` and
`ReadChunkType` for `read_from`. The strengthening is `InStep` (until a session is done
its ring has got every byte generated, so that the next chunk continues it) and
`HandsOK` (a thread holds a session exactly while it is about to finalize it; a
reader that is complete has a session that is done, so that it cannot grow). For
`RingsAreComplete` two more are needed: `EndersOK` (whoever is about to finalize a
session that is not its own has cancelled it, has failed itself, or stops the
server) and `FinishedKept` (a session that was finalized otherwise was so by its
own producer, which generates nothing any more).

**`RouterProofs`.** `RouterTypesCorrect`; `ProcessesAreSingle` and `LimitHolds` from
`ProcInv` (the status of a model against its process, its lines on the pipe and what
the monitor knows) and `LimitInv`; `QueueCounts` and `ClaimsAreSingle` from `QueueInv` (an
entry of the queue has as many waiters as there are threads that count in it, and
at most one of them has claimed the load); `NoModelStaysBusy` from `BusyInv`;
`StopsAreOnTheirWay` from `StopInv` (a model in `stopping_models` has an EXIT on its way to
the monitor, a deadline, or an end that the monitor has not yet seen).
`ProcessesAreSingle`, `LimitHolds` and `StopsAreOnTheirWay` assume that at most one thread
reloads (`OneReloader`): `router_two_reloads` shows that they are false otherwise.
The others have no such assumption.

**`PromptProofs`.** `PromptInvariant` and from it `PromptTypes`, `IndexesAreTrue`,
`NothingWrong`, `StagedIsWritten`; `LimitsAreKept` and `LossesMakeRoom`. An entry of an index is right because of who may use
a name: `NameInv` says that two writers never hold the same name, that no index has
the name of a `.tmp` file, and that a held file that is still there is what its
holder writes. A scan takes in only files that have been renamed; whatever an
eviction, a failed read, a crash or a clean-up does to the directory is removing
some files (`Left`), so that one lemma (`QuietKeeps`) covers all steps but the creation
and the renaming of a file. `StageInv` says that the staging area is empty except
between the request, or the flush, that fills it and its next step.

`LimitsAreKept` rests on `RoomInv`. A server that has made room and not yet renamed its
file is in `Making`; each of the others may have added one prompt (`Spare`). The
server of `Making` that made room last left enough for its own file, or nobody is
there and there is room for any. That a scan makes room is `ScanFits`: what it keeps
is an index whose sum fits, and every file that counts is in that index. The theorem
has one hypothesis, `FoundFits`: what the first server finds is within the same
bound. Without it nothing is true of the directory until it is opened. `Sum` is
defined as the number of bytes, so that adding and removing a file needs facts about
cardinalities and no induction over the directory; it needs a largest prompt, which
the context size gives.

`LossesMakeRoom` rests on `OrderInv`, which is about the time between `rename` and the
removal of what the new file supersedes. `Replaced`: for every file that the server
will remove there is a later one that restores as much and that is not in its index,
so that it stays. At the rename that is the new file itself (`OwnNewest`). Another
server may remove it meanwhile, for a file that replaces both; that the first server
does not know that one either follows from `ScansOrdered` (of two servers in a write
the later scan saw all that the earlier did). An eviction cannot take the later file
and leave the earlier (`ScanLoses`).

**`PlePrefetchProofs`.** `CallsOutliveThreads` from `ThreadInv` (a call has a coordinator
while it runs, and no reader without one); `GathersAreRight` from `DecodeInv`;
`WindowIsKept` from `WindowInv` (with `bounded_window` every published run is of the
window, so that what a reader sees without the mutex can only be outdated in the
safe direction).
`CoveredIsRead` and `PleTypes` come from `CountInv`: `remaining` of a chunk is the number
of its published runs that no reader has taken, plus those that a reader has and
has not counted off; the batches of two readers are disjoint and of one chunk each;
the chunks that the coordinator has not come to have no runs. So a chunk that counts
zero has been read, whatever is said of it without the mutex.

Type invariants that are proved are not all checked by a run again.

### Only model-checked

- Everything under fairness: `EveryReaderLeaves`, `EveryRequestEnds`,
  `ShutdownEndsLoop`, `DetachedReadersEnd`, `NoReaderHangs`, `RequestsEnd`, `MainReturns`, and
  the fairness of `ImplementsResponseLife`. TLAPS does not prove liveness.
- The properties of the runs that expect a violation, which are false.

## Plan

Done: queue, results, slots and shutdown; stream sessions; router; prompt cache;
prefetch. Every safety property of a run is proved, except those that are false.
Candidates for further modules: parent and child tasks
(`launch_slots_with_parent_task`), warm prefill (`launch_warm_task`) and CONTROL tasks in
`Server`; the MoE expert cache (slot map and inverse, no eviction of an expert of the
running step); downloads and removal in `Router`.

## Not modelled

`PROJECT.json` lists every component with the reason. In short: numeric code,
text and JSON processing, file and network I/O. Of the modelled components:

- server: parent and child tasks, warm prefill, CONTROL and LoRA tasks.
  `server_response::broadcast` and `server_response::terminate` have no caller in this
  mode. The window in which a gated thread of an earlier sleep takes a later
  `notify_one` needs the loop to sleep again before that thread runs; `NoLostWakeup` has
  no clause for the loop's sleeping wait, and the hazard list says so;
- router: downloads, `remove`, models loaded at startup, the event feed, the
  conversation tracker, the order of least recent use;
- prompt cache: `--cache-ram` fitted to the host, spare buffers, the token limit,
  thinning of checkpoints, prompts with media, failed allocations, the eval cache,
  `--slot-prompt-similarity 0`;
- prefetch: `create` and its settings, which pages a row has and how runs are merged,
  the bookkeeping of the page credit, VERIFY and TEST_DROP, the memory of the decode
  buffer, `llama-ple-cache.cpp`.
