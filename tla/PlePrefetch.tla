---------------------------- MODULE PlePrefetch ----------------------------
(***************************************************************************)
(* The page prefetch of the per-layer embedding table (src/                *)
(* llama-ple-prefetch.cpp).  At the start of a prompt call a coordinator   *)
(* thread turns the tokens of the call into runs of pages, chunk by chunk, *)
(* and reader threads bring them into the page cache, a window ahead of    *)
(* the main thread, which waits for the chunks of each ubatch.  Another    *)
(* thread may decode the rows of the next ubatch ahead of its gather.      *)
(*                                                                         *)
(* Every action is one critical section of mtx, or one access of an atomic *)
(* outside of it.  The blocked threads of cv_work are the set waiting,     *)
(* done_waits says that the main thread is blocked on cv_done.  Which      *)
(* pages a chunk needs is abstracted to how many runs it publishes: pages  *)
(* seen before are not read again, and other users of the page credit may  *)
(* leave less than it asks for (fit_pages).                                *)
(***************************************************************************)
EXTENDS Integers, Sequences

CONSTANTS
    Readers,       \* reader threads,
    Cold,          \* those that are started for a cold table only
    Prompts,       \* the calls there may be: a position and the tokens
    ChunkSize,     \* chunk_size, in tokens
    Ubatch,        \* n_ubatch
    Ahead,         \* n_ahead, in tokens
    BatchRuns,     \* batch_runs, the runs claimed per update of the cursor
    Bounded,       \* bounded_window
    MayFail,       \* a read may fail (pread mode)
    DecodeMin,     \* decode_min, the shortest ubatch that is decoded on the host
    MaxRuns,       \* bound: runs of a call
    MaxTokens      \* bound: tokens of all calls together

ASSUME PrefetchAssumption ==
    /\ Cold \subseteq Readers
    /\ \A p \in Prompts : p.pos \in Nat /\ p.toks \in Seq(Nat) /\ p.toks # <<>>
    /\ {ChunkSize, Ubatch, BatchRuns} \subseteq Nat \ {0}
    /\ {Ahead, DecodeMin, MaxRuns, MaxTokens} \subseteq Nat
    /\ {Bounded, MayFail} \subseteq BOOLEAN

VARIABLES
    pc,            \* where the main thread is
    next,          \* the call it begins once the last one has stopped
    running, hinted, call, consumed, ubatch, tokens,
    stopping, built, cursor, run_chunk, remaining, allowed_chunks,
    coord, chunk,  \* where the coordinator is, and its chunk
    reader,        \* the state of each reader
    waiting, done_waits,
    read,          \* the runs whose pages have been read
    decoding,      \* dec_thread runs
    dec_t0, dec_at, dec_rows,
    dec_buf,       \* the rows that are in the buffer
    gather_right   \* whether every gather gave the rows it was asked for

mainvars == <<pc, next, running, hinted, call, consumed, ubatch, tokens>>
runvars  == <<built, cursor, run_chunk>>
decvars  == <<decoding, dec_t0, dec_at, dec_rows, dec_buf, gather_right>>
pvars    == <<mainvars, stopping, runvars, remaining, allowed_chunks, coord, chunk, reader,
              waiting, done_waits, read, decvars>>

NoCall  == [pos |-> 0, toks |-> <<>>]
Pending == MaxRuns + 1  \* PLE_PF_PENDING, more than any chunk has
None    == -1           \* no ubatch is decoded
Coord   == "coord"

Least(a, b) == IF a <= b THEN a ELSE b

Ceil(n, d) == (n + d - 1) \div d

n_chunks == Ceil(Len(call.toks), ChunkSize)
n_built  == Len(run_chunk)

chunks_for(n_tok) == Least(n_chunks, Ceil(n_tok, ChunkSize))

\* A reader: its run, the end of the runs it has claimed, up to where they are known
\* to be ready, and how many runs of which chunk it has read and not yet counted.
Idle    == [pc |-> "none", i |-> 0, end |-> 1, ready |-> 0, chunk |-> 0, runs |-> 0, then |-> "none"]
Started == [Idle EXCEPT !.pc = "claim"]
Ended   == [Idle EXCEPT !.pc = "ended"]

PInit ==
    /\ pc = "idle" /\ next = NoCall /\ running = FALSE /\ hinted = FALSE
    /\ call = NoCall /\ consumed = 0 /\ ubatch = 0 /\ tokens = 0
    /\ stopping = FALSE /\ built = FALSE /\ cursor = 1 /\ run_chunk = <<>>
    /\ remaining = <<>> /\ allowed_chunks = 0
    /\ coord = "none" /\ chunk = 0
    /\ reader = [r \in Readers |-> Idle]
    /\ waiting = {} /\ done_waits = FALSE /\ read = {}
    /\ decoding = FALSE /\ dec_t0 = None /\ dec_at = 0 /\ dec_rows = <<>> /\ dec_buf = <<>>
    /\ gather_right = TRUE

\* stopping is set under the mutex, and everybody is notified.
SetStopping == stopping' = TRUE /\ waiting' = {} /\ done_waits' = FALSE

-----------------------------------------------------------------------------
(* The main thread *)

Return(l) == pc' = l

\* The hinted call, or a prefix of it.
Keeps(p) ==
    /\ running /\ hinted
    /\ p.pos = call.pos
    /\ Len(p.toks) <= Len(call.toks) /\ p.toks = SubSeq(call.toks, 1, Len(p.toks))

\* Whatever runs is stopped, then the call of p begins.
StopThen(p, hint) ==
    /\ tokens' = tokens + Len(p.toks) /\ tokens' <= MaxTokens
    /\ next' = p /\ hinted' = hint
    /\ Return("stop")

\* start()
Start(p) ==
    /\ pc = "idle"
    /\ IF Keeps(p) THEN hinted' = FALSE /\ UNCHANGED <<pc, next, tokens>>
       ELSE StopThen(p, FALSE)
    /\ UNCHANGED <<running, call, consumed, ubatch, stopping, runvars, remaining, allowed_chunks,
                   coord, chunk, reader, waiting, done_waits, read, decvars>>

\* hint()
Hint(p) ==
    /\ pc = "idle"
    /\ ~(running /\ p = call)
    /\ StopThen(p, TRUE)
    /\ UNCHANGED <<running, call, consumed, ubatch, stopping, runvars, remaining, allowed_chunks,
                   coord, chunk, reader, waiting, done_waits, read, decvars>>

\* stop() at the end of a decode call, or start() of one that is not covered.
EndCall ==
    /\ pc = "idle" /\ running
    /\ next' = NoCall /\ hinted' = FALSE
    /\ Return("stop")
    /\ UNCHANGED <<running, call, consumed, ubatch, tokens, stopping, runvars, remaining,
                   allowed_chunks, coord, chunk, reader, waiting, done_waits, read, decvars>>

\* Mutant: the thread that decodes ahead is forgotten.
StopUndecoded ==
    /\ pc = "stop"
    /\ dec_t0' = None
    /\ IF running THEN SetStopping /\ Return("join")
       ELSE Return("begin") /\ UNCHANGED <<stopping, waiting, done_waits>>
    /\ UNCHANGED <<next, running, hinted, call, consumed, ubatch, tokens, runvars, remaining,
                   allowed_chunks, coord, chunk, reader, read, decoding, dec_at, dec_rows,
                   dec_buf, gather_right>>

\* stop(): decode_join(), then the other threads are told.
StopThreads ==
    /\ pc = "stop"
    /\ ~decoding
    /\ dec_t0' = None
    /\ IF running THEN SetStopping /\ Return("join")
       ELSE Return("begin") /\ UNCHANGED <<stopping, waiting, done_waits>>
    /\ UNCHANGED <<next, running, hinted, call, consumed, ubatch, tokens, runvars, remaining,
                   allowed_chunks, coord, chunk, reader, read, decoding, dec_at, dec_rows,
                   dec_buf, gather_right>>

\* stop(): the coordinator has ended, and the arrays of the call go.
Joined ==
    /\ pc = "join"
    /\ coord = "ended"
    /\ coord' = "none"
    /\ running' = FALSE
    /\ call' = NoCall
    /\ run_chunk' = <<>> /\ remaining' = <<>> /\ read' = {}
    /\ Return("begin")
    /\ UNCHANGED <<next, hinted, consumed, ubatch, tokens, stopping, built, cursor, allowed_chunks,
                   chunk, reader, waiting, done_waits, decvars>>

\* begin(): the state of the new call, then its coordinator, which starts the readers.
Begin ==
    /\ pc = "begin"
    /\ IF next = NoCall
       THEN UNCHANGED <<running, call, consumed, stopping, built, cursor, remaining,
                        allowed_chunks, coord, chunk, reader>>
       ELSE /\ call' = next
            /\ remaining' = [c \in 1..Ceil(Len(next.toks), ChunkSize) |-> Pending]
            /\ stopping' = FALSE /\ built' = FALSE /\ cursor' = 1
            /\ allowed_chunks' = Least(Ceil(Len(next.toks), ChunkSize), Ceil(Ubatch + Ahead, ChunkSize))
            /\ consumed' = 0
            /\ running' = TRUE
            /\ coord' = "chunk" /\ chunk' = 1
            /\ reader' = [r \in Readers |-> IF r \in Cold THEN Idle ELSE Started]
    /\ next' = NoCall
    /\ Return("idle")
    /\ UNCHANGED <<hinted, ubatch, tokens, run_chunk, waiting, done_waits, read, decvars>>

\* consume() of a running call: the window moves on with the ubatch, ...  Bound: one
\* token beyond the call.
Consume(n) ==
    LET t1 == consumed + n
        a  == chunks_for(t1 + Ahead)
    IN
    /\ pc = "idle" /\ running
    /\ t1 <= Len(call.toks) + 1
    /\ consumed' = t1 /\ ubatch' = n
    /\ IF t1 > Len(call.toks)
       THEN Return("uncovered") /\ UNCHANGED <<allowed_chunks, waiting>>
       ELSE /\ Return("consume")
            /\ IF a > allowed_chunks THEN allowed_chunks' = a /\ waiting' = {}
               ELSE UNCHANGED <<allowed_chunks, waiting>>
    /\ UNCHANGED <<next, running, hinted, call, tokens, stopping, runvars, remaining, coord, chunk,
                   reader, done_waits, read, decvars>>

\* The chunks of the ubatch.
ChunksOf(t0, t1) == (t0 \div ChunkSize) + 1 .. ((t1 - 1) \div ChunkSize) + 1
UbatchChunks     == ChunksOf(consumed - ubatch, consumed)

\* Mutant: only the last chunk is waited for.
ConsumeWaitLast ==
    /\ pc = "consume" /\ ~done_waits
    /\ IF stopping THEN Return("uncovered") /\ UNCHANGED done_waits
       ELSE IF remaining[((consumed - 1) \div ChunkSize) + 1] > 0
       THEN done_waits' = TRUE /\ UNCHANGED pc
       ELSE Return("covered") /\ UNCHANGED done_waits
    /\ UNCHANGED <<next, running, hinted, call, consumed, ubatch, tokens, stopping, runvars,
                   remaining, allowed_chunks, coord, chunk, reader, waiting, read, decvars>>

\* ... and its chunks are waited for.
ConsumeWait ==
    /\ pc = "consume" /\ ~done_waits
    /\ IF stopping THEN Return("uncovered") /\ UNCHANGED done_waits
       ELSE IF \E c \in UbatchChunks : remaining[c] > 0
       THEN done_waits' = TRUE /\ UNCHANGED pc
       ELSE Return("covered") /\ UNCHANGED done_waits
    /\ UNCHANGED <<next, running, hinted, call, consumed, ubatch, tokens, stopping, runvars,
                   remaining, allowed_chunks, coord, chunk, reader, waiting, read, decvars>>

\* The ubatch is too short to be decoded on the host: the graph reads the table.
NoGather ==
    /\ pc \in {"covered", "uncovered"}
    /\ ubatch < DecodeMin
    /\ ubatch' = 0
    /\ Return("idle")
    /\ UNCHANGED <<next, running, hinted, call, consumed, tokens, stopping, runvars,
                   remaining, allowed_chunks, coord, chunk, reader, waiting, done_waits, read,
                   decvars>>

\* llama_ple_hash_rows() of tokens a + 1 .. a + n: a row depends on its token and, as
\* for bigrams, on the token before.
Rows(a, n) == [i \in 1..n |-> <<call.toks[a + i - 1], call.toks[a + i]>>]

\* The rows the graph asks for: those of the call, or others if the batch differs.
Asked == {[i \in 1..ubatch |-> <<0, 0>>]}
         \cup IF consumed - ubatch >= 1 /\ consumed <= Len(call.toks)
              THEN {Rows(consumed - ubatch, ubatch)} ELSE {}

\* The next ubatch of the call is decoded ahead, if the page credit allows it.
DecodeAhead ==
    LET n == Least(ubatch, Len(call.toks) - consumed) IN
    IF consumed < 1 \/ n < 1 THEN UNCHANGED <<dec_rows, decoding, dec_at>>
    ELSE \/ UNCHANGED <<dec_rows, decoding, dec_at>>
         \/ dec_rows' = <<>> /\ UNCHANGED <<decoding, dec_at>>
         \/ dec_rows' = Rows(consumed, n) /\ decoding' = TRUE /\ dec_at' = consumed

\* Mutant: the rows decoded ahead are taken for those asked for.
GatherUncompared(idx) ==
    LET hit == dec_t0 = consumed - ubatch IN
    /\ pc \in {"covered", "uncovered"}
    /\ ubatch >= DecodeMin
    /\ ~decoding
    /\ gather_right' = (gather_right /\ (hit => dec_buf = idx))
    /\ dec_buf' = <<>>
    /\ dec_t0' = None
    /\ DecodeAhead
    /\ ubatch' = 0
    /\ Return("idle")
    /\ UNCHANGED <<next, running, hinted, call, consumed, tokens, stopping, runvars,
                   remaining, allowed_chunks, coord, chunk, reader, waiting, done_waits, read>>

\* gather(): decode_join(), then the rows decoded ahead if they are those asked for.
Gather(idx) ==
    LET hit == dec_t0 = consumed - ubatch /\ dec_rows = idx IN
    /\ pc \in {"covered", "uncovered"}
    /\ ubatch >= DecodeMin
    /\ ~decoding
    /\ gather_right' = (gather_right /\ (hit => dec_buf = idx))
    /\ dec_buf' = <<>>
    /\ dec_t0' = None
    /\ DecodeAhead
    /\ ubatch' = 0
    /\ Return("idle")
    /\ UNCHANGED <<next, running, hinted, call, consumed, tokens, stopping, runvars,
                   remaining, allowed_chunks, coord, chunk, reader, waiting, done_waits, read>>

\* dec_thread
Decoded ==
    /\ decoding
    /\ decoding' = FALSE
    /\ dec_buf' = dec_rows
    /\ dec_t0' = dec_at /\ dec_at' = 0
    /\ UNCHANGED <<mainvars, stopping, runvars, remaining, allowed_chunks, coord, chunk, reader,
                   waiting, done_waits, read, dec_rows, gather_right>>

-----------------------------------------------------------------------------
(* The coordinator: build() *)

InWindow(c) == c <= allowed_chunks

\* The window has to move before the next chunk is hashed.
AwaitWindow ==
    /\ coord = "chunk" /\ chunk <= n_chunks /\ ~stopping
    /\ Bounded /\ ~InWindow(chunk)
    /\ waiting' = waiting \cup {Coord}
    /\ UNCHANGED <<mainvars, stopping, runvars, remaining, allowed_chunks, coord, chunk, reader,
                   done_waits, read, decvars>>

\* Mutant: the window is left to the readers.
HashAhead ==
    /\ coord = "chunk" /\ chunk <= n_chunks /\ ~stopping
    /\ Coord \notin waiting
    /\ coord' = "hashed"
    /\ UNCHANGED <<mainvars, stopping, runvars, remaining, allowed_chunks, chunk, reader, waiting,
                   done_waits, read, decvars>>

\* The rows of a chunk; if its pages are not in the cache the cold readers start.
Hash ==
    /\ coord = "chunk" /\ chunk <= n_chunks /\ ~stopping
    /\ Coord \notin waiting
    /\ Bounded => InWindow(chunk)
    /\ coord' = "hashed"
    /\ reader' \in {reader, [r \in Readers |-> IF r \in Cold /\ reader[r] = Idle THEN Started
                                               ELSE reader[r]]}
    /\ UNCHANGED <<mainvars, stopping, runvars, remaining, allowed_chunks, chunk, waiting,
                   done_waits, read, decvars>>

\* Its runs are published.
Publish(k) ==
    /\ coord = "hashed"
    /\ ~(Bounded /\ stopping)
    /\ n_built + k <= MaxRuns
    /\ remaining' = [remaining EXCEPT ![chunk] = k]
    /\ run_chunk' = run_chunk \o [i \in 1..k |-> chunk]
    /\ waiting' = {}
    /\ done_waits' = (done_waits /\ k > 0)
    /\ chunk' = chunk + 1
    /\ coord' = "chunk"
    /\ UNCHANGED <<mainvars, stopping, built, cursor, allowed_chunks, reader, read, decvars>>

\* All is built, or the call is stopped.
Built ==
    /\ \/ coord = "chunk" /\ (chunk > n_chunks \/ stopping)
       \/ coord = "hashed" /\ Bounded /\ stopping
    /\ Coord \notin waiting
    /\ built' = TRUE
    /\ waiting' = {} /\ done_waits' = FALSE
    /\ coord' = "join"
    /\ UNCHANGED <<mainvars, stopping, cursor, run_chunk, remaining, allowed_chunks, chunk, reader,
                   read, decvars>>

\* The readers are joined.
JoinReaders ==
    /\ coord = "join"
    /\ \A r \in Readers : reader[r].pc \in {"none", "ended"}
    /\ reader' = [r \in Readers |-> Idle]
    /\ coord' = "ended"
    /\ UNCHANGED <<mainvars, stopping, runvars, remaining, allowed_chunks, chunk, waiting,
                   done_waits, read, decvars>>

-----------------------------------------------------------------------------
(* A reader: reader() *)

\* Its next state is rd, nothing else of the readers changes.
Becomes(r, rd) == reader' = [reader EXCEPT ![r] = rd]

At(rd, l) == [rd EXCEPT !.pc = l]

\* flush_done(), and then l.
FlushThen(rd, l) == IF rd.runs > 0 THEN [rd EXCEPT !.pc = "flush", !.then = l]
                    ELSE IF l = "ended" THEN Ended ELSE At(rd, l)

\* The next run of its batch, or of a new batch; one that is known to be ready is
\* taken at once.
Claim(r) ==
    LET rd   == reader[r]
        more == rd.i + 1 < rd.end
        i    == IF more THEN rd.i + 1 ELSE cursor
        to   == [rd EXCEPT !.i = i, !.end = IF more THEN rd.end ELSE cursor + BatchRuns, !.then = "none",
                           !.ready = IF i < rd.ready THEN rd.ready ELSE 0]
    IN
    /\ rd.pc = "claim"
    /\ cursor' = IF more THEN cursor ELSE cursor + BatchRuns
    /\ Becomes(r, At(to, IF i < rd.ready THEN "take" ELSE "check"))
    /\ UNCHANGED <<mainvars, stopping, built, run_chunk, remaining, allowed_chunks, coord, chunk,
                   waiting, done_waits, read, decvars>>

\* run_ready() without the mutex: n_built is read, ...
CheckRun(r) ==
    LET rd == reader[r] IN
    /\ rd.pc = "check"
    /\ Becomes(r, IF stopping THEN At(rd, "take")
                  ELSE IF rd.i > n_built THEN At(rd, "check_built")
                  ELSE IF InWindow(run_chunk[rd.i]) THEN At(rd, "take")
                  ELSE FlushThen(rd, "wait"))
    /\ UNCHANGED <<mainvars, stopping, runvars, remaining, allowed_chunks, coord, chunk, waiting,
                   done_waits, read, decvars>>

\* Mutant: what has been read is not counted before the reader waits.
CheckUnflushed(r) ==
    LET rd == reader[r] IN
    /\ rd.pc = "check_built"
    /\ Becomes(r, At(rd, IF built THEN "take" ELSE "wait"))
    /\ UNCHANGED <<mainvars, stopping, runvars, remaining, allowed_chunks, coord, chunk, waiting,
                   done_waits, read, decvars>>

\* ... and then built.
CheckBuilt(r) ==
    LET rd == reader[r] IN
    /\ rd.pc = "check_built"
    /\ Becomes(r, IF built THEN At(rd, "take") ELSE FlushThen(rd, "wait"))
    /\ UNCHANGED <<mainvars, stopping, runvars, remaining, allowed_chunks, coord, chunk, waiting,
                   done_waits, read, decvars>>

\* run_ready() under the mutex.
run_ready(i) ==
    \/ stopping
    \/ IF i <= n_built THEN InWindow(run_chunk[i]) ELSE built

WaitForRun(r) ==
    LET rd == reader[r] IN
    /\ rd.pc = "wait" /\ r \notin waiting
    /\ IF run_ready(rd.i) THEN Becomes(r, At(rd, "take")) /\ UNCHANGED waiting
       ELSE waiting' = waiting \cup {r} /\ UNCHANGED reader
    /\ UNCHANGED <<mainvars, stopping, runvars, remaining, allowed_chunks, coord, chunk,
                   done_waits, read, decvars>>

\* The end of what is ready of the batch: published runs and allowed chunks only grow.
ReadyEnd(rd) ==
    LET claimed == Least(rd.end, n_built + 1) IN
    IF rd.i < rd.ready THEN rd.ready
    ELSE IF BatchRuns > 1 /\ InWindow(run_chunk[claimed - 1]) THEN claimed
    ELSE rd.i + 1

\* The run is taken up: there is none, or the call is stopped, or it is read after
\* what was read of another chunk has been counted.
Take(r) ==
    LET rd   == reader[r]
        more == rd.i < rd.ready \/ rd.i <= n_built
    IN
    /\ rd.pc = "take"
    /\ Becomes(r, IF stopping \/ ~more THEN FlushThen(rd, "ended")
                  ELSE LET to == [rd EXCEPT !.ready = ReadyEnd(rd)]
                       IN  IF rd.chunk # run_chunk[rd.i] THEN FlushThen(to, "read") ELSE At(to, "read"))
    /\ UNCHANGED <<mainvars, stopping, runvars, remaining, allowed_chunks, coord, chunk, waiting,
                   done_waits, read, decvars>>

ReadRun(r) ==
    LET rd == reader[r]
        to == [rd EXCEPT !.chunk = run_chunk[rd.i], !.runs = @ + 1]
    IN
    /\ rd.pc = "read"
    /\ read' = read \cup {rd.i}
    /\ Becomes(r, IF rd.i + 1 = rd.end THEN FlushThen(to, "claim") ELSE At(to, "claim"))
    /\ UNCHANGED <<mainvars, stopping, runvars, remaining, allowed_chunks, coord, chunk, waiting,
                   done_waits, decvars>>

\* The call is stopped before the run is read completely.
ReadStopped(r) ==
    /\ reader[r].pc = "read" /\ stopping
    /\ Becomes(r, FlushThen(reader[r], "ended"))
    /\ UNCHANGED <<mainvars, stopping, runvars, remaining, allowed_chunks, coord, chunk, waiting,
                   done_waits, read, decvars>>

\* A short read ends the call; the run is not counted.
ReadFails(r) ==
    /\ MayFail
    /\ reader[r].pc = "read"
    /\ SetStopping
    /\ Becomes(r, FlushThen(reader[r], "ended"))
    /\ UNCHANGED <<mainvars, runvars, remaining, allowed_chunks, coord, chunk, read, decvars>>

\* Mutant: the runs are counted off again with the next.
FlushKept(r) ==
    LET rd == reader[r]
        left == remaining[rd.chunk] - rd.runs
    IN
    /\ rd.pc = "flush"
    /\ remaining' = [remaining EXCEPT ![rd.chunk] = left]
    /\ Becomes(r, IF rd.then = "ended" THEN Ended ELSE At(rd, rd.then))
    /\ UNCHANGED <<mainvars, stopping, runvars, allowed_chunks, coord, chunk, waiting, done_waits,
                   read, decvars>>

\* flush_done(): the runs are counted off, ...
FlushDone(r) ==
    LET rd == reader[r]
        left == remaining[rd.chunk] - rd.runs
    IN
    /\ rd.pc = "flush"
    /\ remaining' = [remaining EXCEPT ![rd.chunk] = left]
    /\ Becomes(r, LET to == [rd EXCEPT !.chunk = 0, !.runs = 0]
                  IN  IF left = 0 THEN At(to, "notify") ELSE FlushThen(to, rd.then))
    /\ UNCHANGED <<mainvars, stopping, runvars, allowed_chunks, coord, chunk, waiting, done_waits,
                   read, decvars>>

\* ... and the main thread is notified when the chunk is complete.
NotifyDone(r) ==
    /\ reader[r].pc = "notify"
    /\ done_waits' = FALSE
    /\ Becomes(r, FlushThen(reader[r], reader[r].then))
    /\ UNCHANGED <<mainvars, stopping, runvars, remaining, allowed_chunks, coord, chunk, waiting,
                   read, decvars>>

-----------------------------------------------------------------------------

\* What the main thread goes on with by itself, ...
MainStep == StopThreads \/ Joined \/ Begin \/ ConsumeWait \/ NoGather \/ \E idx \in Asked : Gather(idx)

\* ... and what its callers ask for.
Caller ==
    \/ \E p \in Prompts : Start(p) \/ Hint(p)
    \/ EndCall
    \/ \E n \in 1..Ubatch : Consume(n)

CoordStep == AwaitWindow \/ Hash \/ (\E k \in 0..MaxRuns : Publish(k)) \/ Built \/ JoinReaders

ReaderStep(r) == Claim(r) \/ CheckRun(r) \/ CheckBuilt(r) \/ WaitForRun(r) \/ Take(r) \/ ReadRun(r)
                 \/ ReadStopped(r) \/ FlushDone(r) \/ NotifyDone(r)

PNext == \/ MainStep \/ Caller \/ CoordStep \/ Decoded
         \/ \E r \in Readers : ReaderStep(r) \/ ReadFails(r)

\* Every thread is scheduled and reads return; nobody has to call.
PFairness == /\ WF_pvars(MainStep) /\ WF_pvars(CoordStep) /\ WF_pvars(Decoded)
             /\ \A r \in Readers : WF_pvars(ReaderStep(r))

PSpec     == PInit /\ [][PNext]_pvars
FairPSpec == PSpec /\ PFairness

-----------------------------------------------------------------------------
(* Properties *)

\* Every variable keeps its type; a chunk is never counted below zero (remaining).
PleTypeOK ==
    /\ pc \in {"idle", "stop", "join", "begin", "consume", "covered", "uncovered"}
    /\ {running, hinted, stopping, built, done_waits, decoding} \subseteq BOOLEAN
    /\ {next, call} \subseteq Prompts \cup {NoCall}
    /\ {consumed, ubatch, allowed_chunks} \subseteq Nat
    /\ tokens \in 0..MaxTokens /\ cursor \in Nat \ {0}
    /\ run_chunk \in Seq(1..n_chunks)
    /\ remaining \in [1..n_chunks -> 0..Pending]
    /\ coord \in {"none", "chunk", "hashed", "join", "ended"} /\ chunk \in Nat
    /\ waiting \subseteq Readers \cup {Coord}
    /\ read \subseteq 1..n_built

\* An ubatch that consume() reports as covered has all its pages read: whatever
\* batches the readers claimed, every run of its chunks has been read, and none of
\* its chunks is still to be built.
CoveredMeansRead ==
    pc = "covered" =>
        /\ \A c \in UbatchChunks : remaining[c] # Pending
        /\ \A i \in 1..n_built : run_chunk[i] \in UbatchChunks => i \in read

\* The window holds for the readers although they look at it without the mutex:
\* with bounded_window no page is read that the gather is not about to need.
WindowKept == Bounded => \A i \in read : InWindow(run_chunk[i])

\* A call is not pulled away from under the threads that work on it: its tokens
\* and arrays change only while no thread of the call runs (stop, "the decode
\* thread reads toks").
CallOutlivesThreads ==
    [][call' # call => /\ coord \in {"none", "ended"} /\ ~decoding
                       /\ \A r \in Readers : reader[r] = Idle]_pvars

\* What gather() hands to the graph are the rows it was asked for, whatever was
\* decoded ahead and for which ubatch of which call.
GatherIsRight == gather_right

\* The main thread comes back from whatever it was asked to do: an ubatch waited
\* for is read or given up, and the threads of a call can always be joined.
MainReturns == []<>(pc = "idle")

=============================================================================
