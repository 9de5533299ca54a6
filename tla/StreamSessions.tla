--------------------------- MODULE StreamSessions ---------------------------
(***************************************************************************)
(* Resumable streaming (tools/server/server-stream.cpp): a POST with a     *)
(* conversation id copies what it generates into a ring buffer, and a GET  *)
(* replays the ring and follows it.  The session of a request is named by  *)
(* the request that creates it.                                            *)
(*                                                                         *)
(* Every action is one critical section of map_mu or of a session's mu, or *)
(* one access to the atomic flag cancelled.  Byte k of a stream is the     *)
(* number k, so that the properties can tell which bytes a reader got.     *)
(***************************************************************************)
EXTENDS Integers, Sequences, FiniteSets

CONSTANTS
    Requests,      \* POST requests with an X-Conversation-Id
    Readers,       \* GET /v1/stream
    Deleters,      \* DELETE /v1/stream
    Convs,         \* conversation ids
    Conv,          \* Requests -> the id in its header
    NoSession,
    Cap,           \* STREAM_SESSION_MAX_BYTES
    ChunkSizes,    \* the sizes of the chunks a generation produces
    MaxChunks,     \* bound: chunks of one generation
    Offsets,       \* the values of ?from=
    MayFail,       \* requests that may be over before they stream
    MayDisconnect, \* requests whose client may close the connection
    MayStop        \* whether the server may shut down

ASSUME StreamAssumption ==
    /\ Conv \in [Requests -> Convs]
    /\ NoSession \notin Requests
    /\ Cap \in Nat \ {0}
    /\ ChunkSizes \subseteq Nat
    /\ MaxChunks \in Nat
    /\ Offsets \subseteq Nat
    /\ MayFail \subseteq Requests
    /\ MayDisconnect \subseteq Requests
    /\ MayStop \in BOOLEAN

VARIABLES
    sessions,      \* the map: conversation id -> session
    buffer,        \* session -> its bytes
    prefix_dropped,
    done,          \* the finalized sessions
    cancelled,     \* the cancelled ones
    wpc,           \* where the thread of each POST is
    held,          \* the session a POST has taken out of the map and has to finalize
    gone,          \* POSTs whose client has closed the connection
    produced,      \* [chunks, bytes] generated for each POST
    dpc, dheld,    \* the same for each DELETE
    rpc,           \* where the thread of each GET is
    rsess,         \* its session
    from,          \* the offset it asked for
    got,           \* the bytes it has been sent
    mpc,           \* where stop_gc() is
    snapshot       \* sessions stop_gc() has to finalize

state   == <<buffer, prefix_dropped>>
posts   == <<wpc, held, gone, produced>>
deletes == <<dpc, dheld>>
gets    == <<rpc, rsess, from, got>>
manager == <<mpc, snapshot>>
svars   == <<sessions, state, done, cancelled, posts, deletes, gets, manager>>

WorkerPcs == {"idle", "cancel_previous", "finalize_previous", "handling", "evicting",
              "finalize_evicted", "streaming", "in_next", "draining", "in_drain",
              "destroying", "over"}
ReaderPcs == {"idle", "found", "reading", "not_found", "refused", "left", "cut", "complete"}
Session   == Requests \cup {NoSession}

\* The logical end of a session: bytes that ever entered it.
total_size(s) == prefix_dropped[s] + Len(buffer[s])

SInit ==
    /\ sessions = [c \in Convs |-> NoSession]
    /\ buffer = [s \in Requests |-> <<>>]
    /\ prefix_dropped = [s \in Requests |-> 0]
    /\ done = {} /\ cancelled = {}
    /\ wpc = [r \in Requests |-> "idle"]
    /\ held = [r \in Requests |-> NoSession]
    /\ gone = {}
    /\ produced = [r \in Requests |-> [chunks |-> 0, bytes |-> 0]]
    /\ dpc = [d \in Deleters |-> "idle"]
    /\ dheld = [d \in Deleters |-> NoSession]
    /\ rpc = [g \in Readers |-> "idle"]
    /\ rsess = [g \in Readers |-> NoSession]
    /\ from = [g \in Readers |-> 0]
    /\ got = [g \in Readers |-> <<>>]
    /\ mpc = "running"
    /\ snapshot = {}

-----------------------------------------------------------------------------
(* stream_session *)

\* Mutant: a chunk larger than the ring does not count the part it skips.
AppendUncounted(s, data) ==
    LET len    == Len(data)
        needed == Len(buffer[s]) + len
    IN  IF len = 0 \/ s \in done THEN UNCHANGED state
        ELSE IF len >= Cap THEN
            /\ buffer' = [buffer EXCEPT ![s] = SubSeq(data, len - Cap + 1, len)]
            /\ prefix_dropped' = [prefix_dropped EXCEPT ![s] = @ + Len(buffer[s])]
        ELSE IF needed > Cap THEN
            /\ buffer' = [buffer EXCEPT ![s] = SubSeq(@, needed - Cap + 1, Len(@)) \o data]
            /\ prefix_dropped' = [prefix_dropped EXCEPT ![s] = @ + needed - Cap]
        ELSE
            /\ buffer' = [buffer EXCEPT ![s] = @ \o data]
            /\ UNCHANGED prefix_dropped

\* append(): refused once the session is done; the oldest bytes make room.
append(s, data) ==
    LET len    == Len(data)
        needed == Len(buffer[s]) + len
    IN  IF len = 0 \/ s \in done THEN UNCHANGED state
        ELSE IF len >= Cap THEN
            /\ buffer' = [buffer EXCEPT ![s] = SubSeq(data, len - Cap + 1, len)]
            /\ prefix_dropped' = [prefix_dropped EXCEPT ![s] = @ + Len(buffer[s]) + len - Cap]
        ELSE IF needed > Cap THEN
            /\ buffer' = [buffer EXCEPT ![s] = SubSeq(@, needed - Cap + 1, Len(@)) \o data]
            /\ prefix_dropped' = [prefix_dropped EXCEPT ![s] = @ + needed - Cap]
        ELSE
            /\ buffer' = [buffer EXCEPT ![s] = @ \o data]
            /\ UNCHANGED prefix_dropped

finalize(s) == done' = done \cup {s}

cancel(s) == cancelled' = cancelled \cup {s}

-----------------------------------------------------------------------------
(* server_res_spipe: the thread of a POST *)

Goto(r, l) == wpc' = [wpc EXCEPT ![r] = l]

\* Mutant: the previous session is forgotten.
ReplaceForget(r) ==
    /\ wpc[r] = "idle"
    /\ sessions' = [sessions EXCEPT ![Conv[r]] = r]
    /\ UNCHANGED held
    /\ Goto(r, "handling")
    /\ UNCHANGED <<state, done, cancelled, gone, produced, deletes, gets, manager>>

\* set_req(), create_or_replace(): under map_mu, the new session takes the place
\* of the conversation's previous one, which is then cancelled and finalized.
Replace(r) ==
    /\ wpc[r] = "idle"
    /\ sessions' = [sessions EXCEPT ![Conv[r]] = r]
    /\ held' = [held EXCEPT ![r] = sessions[Conv[r]]]
    /\ Goto(r, IF sessions[Conv[r]] = NoSession THEN "handling" ELSE "cancel_previous")
    /\ UNCHANGED <<state, done, cancelled, gone, produced, deletes, gets, manager>>

CancelPrevious(r) ==
    /\ wpc[r] = "cancel_previous"
    /\ cancel(held[r])
    /\ Goto(r, "finalize_previous")
    /\ UNCHANGED <<sessions, state, done, held, gone, produced, deletes, gets, manager>>

FinalizePrevious(r) ==
    /\ wpc[r] = "finalize_previous"
    /\ finalize(held[r])
    /\ held' = [held EXCEPT ![r] = NoSession]
    /\ Goto(r, "handling")
    /\ UNCHANGED <<sessions, state, cancelled, gone, produced, deletes, gets, manager>>

\* The client of a POST closes the connection.
PeerDrop(r) ==
    /\ wpc[r] \in {"handling", "streaming", "in_next"}
    /\ r \in MayDisconnect \ gone
    /\ gone' = gone \cup {r}
    /\ UNCHANGED <<sessions, state, done, cancelled, wpc, held, produced, deletes, gets, manager>>

\* handle_completions_impl() returns without set_next(): the parameters are
\* refused, the first result is an error (any is, once the task loop has ended,
\* which is before stop_gc()), or the answer is not streamed.
HandledWithoutStream(r) ==
    /\ wpc[r] = "handling"
    /\ r \in MayFail \/ mpc # "running"
    /\ Goto(r, "evicting")
    /\ UNCHANGED <<sessions, state, done, cancelled, held, gone, produced, deletes, gets, manager>>

\* ... or req.should_stop() holds while it waits for the first result.
ClosedBeforeStream(r) ==
    /\ wpc[r] = "handling"
    /\ r \in gone
    /\ Goto(r, "evicting")
    /\ UNCHANGED <<sessions, state, done, cancelled, held, gone, produced, deletes, gets, manager>>

\* The first result arrives: set_next().
SetNext(r) ==
    /\ wpc[r] = "handling"
    /\ Goto(r, "streaming")
    /\ UNCHANGED <<sessions, state, done, cancelled, held, gone, produced, deletes, gets, manager>>

\* on_complete() without next_orig: evict() takes out whatever session the
\* conversation has now.
Evict(r) ==
    /\ wpc[r] = "evicting"
    /\ sessions' = [sessions EXCEPT ![Conv[r]] = NoSession]
    /\ held' = [held EXCEPT ![r] = sessions[Conv[r]]]
    /\ Goto(r, IF sessions[Conv[r]] = NoSession THEN "destroying" ELSE "finalize_evicted")
    /\ UNCHANGED <<state, done, cancelled, gone, produced, deletes, gets, manager>>

FinalizeEvicted(r) ==
    /\ wpc[r] = "finalize_evicted"
    /\ finalize(held[r])
    /\ held' = [held EXCEPT ![r] = NoSession]
    /\ Goto(r, "destroying")
    /\ UNCHANGED <<sessions, state, cancelled, gone, produced, deletes, gets, manager>>

\* Another call of next() or of next_orig(), from the HTTP layer or from the
\* drain loop.  It ends the stream when the session is cancelled.
EnterNext(r) ==
    /\ wpc[r] \in {"streaming", "draining"}
    /\ Goto(r, IF r \in cancelled THEN "destroying"
               ELSE IF wpc[r] = "streaming" THEN "in_next" ELSE "in_drain")
    /\ UNCHANGED <<sessions, state, done, cancelled, held, gone, produced, deletes, gets, manager>>

\* The HTTP layer cannot write: on_complete() drains the rest into the ring.
StartDrain(r) ==
    /\ wpc[r] = "streaming"
    /\ r \in gone
    /\ Goto(r, "draining")
    /\ UNCHANGED <<sessions, state, done, cancelled, held, gone, produced, deletes, gets, manager>>

\* Mutant: the tail of a stream whose client is gone is not written to the ring.
NextChunkSocketOnly(r) ==
    /\ wpc[r] \in {"in_next", "in_drain"}
    /\ \E n \in ChunkSizes, more \in BOOLEAN :
        /\ more => produced[r].chunks < MaxChunks
        /\ produced' = [produced EXCEPT ![r] = [chunks |-> @.chunks + 1, bytes |-> @.bytes + n]]
        /\ IF wpc[r] = "in_next"
           THEN append(r, [i \in 1..n |-> produced[r].bytes + i])
           ELSE UNCHANGED state
        /\ Goto(r, IF ~more THEN "destroying"
                   ELSE IF wpc[r] = "in_next" THEN "streaming" ELSE "draining")
    /\ UNCHANGED <<sessions, done, cancelled, held, gone, deletes, gets, manager>>

\* The generation yields a chunk, which goes to the ring before the socket; after
\* the last one the stream is finished and on_complete() has nothing to do.
NextChunk(r) ==
    /\ wpc[r] \in {"in_next", "in_drain"}
    /\ \E n \in ChunkSizes, more \in BOOLEAN :
        /\ more => produced[r].chunks < MaxChunks
        /\ produced' = [produced EXCEPT ![r] = [chunks |-> @.chunks + 1, bytes |-> @.bytes + n]]
        /\ append(r, [i \in 1..n |-> produced[r].bytes + i])
        /\ Goto(r, IF ~more THEN "destroying"
                   ELSE IF wpc[r] = "in_next" THEN "streaming" ELSE "draining")
    /\ UNCHANGED <<sessions, done, cancelled, held, gone, deletes, gets, manager>>

\* should_stop() is polled while next_orig() waits for a result.
NextStopped(r) ==
    /\ wpc[r] \in {"in_next", "in_drain"}
    /\ r \in cancelled
    /\ Goto(r, "destroying")
    /\ UNCHANGED <<sessions, state, done, cancelled, held, gone, produced, deletes, gets, manager>>

\* Mutant: the producer leaves the session as it is.
DestroyQuietly(r) ==
    /\ wpc[r] = "destroying"
    /\ Goto(r, "over")
    /\ UNCHANGED <<sessions, state, done, cancelled, held, gone, produced, deletes, gets, manager>>

\* ~stream_pipe_producer()
Destroy(r) ==
    /\ wpc[r] = "destroying"
    /\ finalize(r)
    /\ Goto(r, "over")
    /\ UNCHANGED <<sessions, state, cancelled, held, gone, produced, deletes, gets, manager>>

-----------------------------------------------------------------------------
(* DELETE: evict_and_cancel() *)

DeleteErase(d) ==
    /\ dpc[d] = "idle"
    /\ \E c \in Convs :
        /\ sessions' = [sessions EXCEPT ![c] = NoSession]
        /\ dheld' = [dheld EXCEPT ![d] = sessions[c]]
        /\ dpc' = [dpc EXCEPT ![d] = IF sessions[c] = NoSession THEN "over" ELSE "cancel"]
    /\ UNCHANGED <<state, done, cancelled, posts, gets, manager>>

DeleteCancel(d) ==
    /\ dpc[d] = "cancel"
    /\ cancel(dheld[d])
    /\ dpc' = [dpc EXCEPT ![d] = "finalize"]
    /\ UNCHANGED <<sessions, state, done, posts, dheld, gets, manager>>

DeleteFinalize(d) ==
    /\ dpc[d] = "finalize"
    /\ finalize(dheld[d])
    /\ dpc' = [dpc EXCEPT ![d] = "over"]
    /\ dheld' = [dheld EXCEPT ![d] = NoSession]
    /\ UNCHANGED <<sessions, state, cancelled, posts, gets, manager>>

-----------------------------------------------------------------------------
(* GET: the handler, and its calls of read_from() *)

GotoR(g, l) == rpc' = [rpc EXCEPT ![g] = l]

Lookup(g) ==
    /\ rpc[g] = "idle"
    /\ \E c \in Convs, o \in Offsets :
        /\ rsess' = [rsess EXCEPT ![g] = sessions[c]]
        /\ from' = [from EXCEPT ![g] = o]
        /\ GotoR(g, IF sessions[c] = NoSession THEN "not_found" ELSE "found")
    /\ UNCHANGED <<sessions, state, done, cancelled, posts, deletes, got, manager>>

CheckOffset(g) ==
    /\ rpc[g] = "found"
    /\ GotoR(g, IF from[g] < prefix_dropped[rsess[g]] THEN "refused" ELSE "reading")
    /\ UNCHANGED <<sessions, state, done, cancelled, posts, deletes, rsess, from, got, manager>>

\* The next byte to read.
offset(g) == from[g] + Len(got[g])

\* read_from() when the offset is no longer in the ring: next() yields nothing,
\* and so the response ends.
ReadLost(g) ==
    /\ rpc[g] = "reading"
    /\ offset(g) < prefix_dropped[rsess[g]]
    /\ GotoR(g, "cut")
    /\ UNCHANGED <<sessions, state, done, cancelled, posts, deletes, rsess, from, got, manager>>

\* Mutant: the local offset is taken from the start of the ring, as if nothing
\* had been dropped.
ReadUnshifted(g) ==
    LET s == rsess[g] IN
    /\ rpc[g] = "reading"
    /\ offset(g) < Len(buffer[s])
    /\ got' = [got EXCEPT ![g] = @ \o SubSeq(buffer[s], offset(g) + 1, Len(buffer[s]))]
    /\ UNCHANGED <<sessions, state, done, cancelled, posts, deletes, rpc, rsess, from, manager>>

\* All the bytes from the offset on are copied and sent.
ReadChunk(g) ==
    LET s == rsess[g] IN
    /\ rpc[g] = "reading"
    /\ prefix_dropped[s] <= offset(g) /\ offset(g) < total_size(s)
    /\ got' = [got EXCEPT ![g] =
                 @ \o SubSeq(buffer[s], offset(g) - prefix_dropped[s] + 1, Len(buffer[s]))]
    /\ UNCHANGED <<sessions, state, done, cancelled, posts, deletes, rpc, rsess, from, manager>>

\* Mutant: done is tested before the bytes.
ReadEndEarly(g) ==
    /\ rpc[g] = "reading"
    /\ rsess[g] \in done
    /\ GotoR(g, "complete")
    /\ UNCHANGED <<sessions, state, done, cancelled, posts, deletes, rsess, from, got, manager>>

\* Nothing left and the session is done.  Otherwise the thread waits, with a
\* timeout after which it looks again.
ReadEnd(g) ==
    /\ rpc[g] = "reading"
    /\ offset(g) >= total_size(rsess[g])
    /\ rsess[g] \in done
    /\ GotoR(g, "complete")
    /\ UNCHANGED <<sessions, state, done, cancelled, posts, deletes, rsess, from, got, manager>>

\* should_stop(), or the socket cannot be written: the client is gone.
ReaderLeaves(g) ==
    /\ rpc[g] = "reading"
    /\ GotoR(g, "left")
    /\ UNCHANGED <<sessions, state, done, cancelled, posts, deletes, rsess, from, got, manager>>

-----------------------------------------------------------------------------
(* stream_session_manager: garbage collection and shutdown *)

\* One round of gc_loop(): completed sessions whose time to live has passed
\* leave the map.  They are done, so that finalizing them changes nothing.
Collect ==
    /\ mpc = "running"
    /\ \E X \in (SUBSET {c \in Convs : sessions[c] \in done}) \ {{}} :
        sessions' = [c \in Convs |-> IF c \in X THEN NoSession ELSE sessions[c]]
    /\ UNCHANGED <<state, done, cancelled, posts, deletes, gets, manager>>

\* stop_gc(): running is reset and the collector's thread joined, ...
StopCollector ==
    /\ MayStop
    /\ mpc = "running"
    /\ mpc' = "clearing"
    /\ UNCHANGED <<sessions, state, done, cancelled, posts, deletes, gets, snapshot>>

\* Mutant: the map is cleared before the snapshot is taken.
StopClearFirst ==
    /\ mpc = "clearing"
    /\ snapshot' = {}
    /\ sessions' = [c \in Convs |-> NoSession]
    /\ mpc' = "finalizing"
    /\ UNCHANGED <<state, done, cancelled, posts, deletes, gets>>

\* ... the sessions are moved from the map to a snapshot, ...
StopClear ==
    /\ mpc = "clearing"
    /\ snapshot' = {sessions[c] : c \in Convs} \ {NoSession}
    /\ sessions' = [c \in Convs |-> NoSession]
    /\ mpc' = "finalizing"
    /\ UNCHANGED <<state, done, cancelled, posts, deletes, gets>>

\* ... and each of the snapshot is finalized.
StopFinalize ==
    /\ mpc = "finalizing"
    /\ \E s \in snapshot :
        /\ finalize(s)
        /\ snapshot' = snapshot \ {s}
    /\ UNCHANGED <<sessions, state, cancelled, posts, deletes, gets, mpc>>

StopDone ==
    /\ mpc = "finalizing"
    /\ snapshot = {}
    /\ mpc' = "stopped"
    /\ UNCHANGED <<sessions, state, done, cancelled, posts, deletes, gets, snapshot>>

-----------------------------------------------------------------------------
Post(r) ==
    \/ Replace(r) \/ CancelPrevious(r) \/ FinalizePrevious(r)
    \/ HandledWithoutStream(r) \/ ClosedBeforeStream(r) \/ SetNext(r)
    \/ Evict(r) \/ FinalizeEvicted(r)
    \/ EnterNext(r) \/ StartDrain(r) \/ NextChunk(r) \/ NextStopped(r) \/ Destroy(r)

Delete(d) == DeleteErase(d) \/ DeleteCancel(d) \/ DeleteFinalize(d)

Read(g) == CheckOffset(g) \/ ReadLost(g) \/ ReadChunk(g) \/ ReadEnd(g)

Get(g) == Lookup(g) \/ Read(g) \/ ReaderLeaves(g)

Stop == StopCollector \/ StopClear \/ StopFinalize \/ StopDone

SNext ==
    \/ \E r \in Requests : Post(r) \/ PeerDrop(r)
    \/ \E d \in Deleters : Delete(d)
    \/ \E g \in Readers : Get(g)
    \/ Collect
    \/ Stop

SSpec == SInit /\ [][SNext]_svars

\* Threads run, and a call that has begun is carried through.  What may never
\* come has no fairness: requests, disconnects, and the results of a generation,
\* except that the readers of results get an error once the task loop has ended.
Fairness ==
    /\ \A r \in Requests :
        /\ WF_svars(CancelPrevious(r) \/ FinalizePrevious(r) \/ Evict(r) \/ FinalizeEvicted(r)
                    \/ EnterNext(r) \/ NextStopped(r) \/ Destroy(r))
        /\ WF_svars(mpc # "running" /\ (HandledWithoutStream(r) \/ NextChunk(r)))
    /\ \A d \in Deleters : WF_svars(DeleteCancel(d) \/ DeleteFinalize(d))
    /\ \A g \in Readers : WF_svars(Read(g))
    /\ WF_svars(StopClear \/ StopFinalize \/ StopDone)

FairSSpec == SSpec /\ Fairness

-----------------------------------------------------------------------------
(* Properties *)

StreamTypeOK ==
    /\ sessions \in [Convs -> Session]
    /\ buffer \in [Requests -> Seq(Nat)]
    /\ prefix_dropped \in [Requests -> Nat]
    /\ done \subseteq Requests /\ cancelled \subseteq Requests
    /\ wpc \in [Requests -> WorkerPcs]
    /\ held \in [Requests -> Session]
    /\ gone \subseteq Requests
    /\ produced \in [Requests -> [chunks : Nat, bytes : Nat]]
    /\ dpc \in [Deleters -> {"idle", "cancel", "finalize", "over"}]
    /\ dheld \in [Deleters -> Session]
    /\ rpc \in [Readers -> ReaderPcs]
    /\ rsess \in [Readers -> Session]
    /\ from \in [Readers -> Nat]
    /\ got \in [Readers -> Seq(Nat)]
    /\ mpc \in {"running", "clearing", "finalizing", "stopped"}
    /\ snapshot \subseteq Requests

\* The bytes that follow offset p.
Run(bytes, p) == \A i \in 1..Len(bytes) : bytes[i] = p + i

\* The ring of append() never exceeds its cap, and holds the bytes of the stream
\* that follow the dropped prefix, each at its place, whatever the sizes of the
\* chunks.
RingExact ==
    \A s \in Requests :
        Len(buffer[s]) <= Cap /\ Run(buffer[s], prefix_dropped[s])

\* What a GET has been sent is the stream from the requested offset on, without a
\* gap or a repetition, although the ring moves on between the check of the offset
\* and each call of read_from().
ReplayExact ==
    \A g \in Readers : Run(got[g], from[g])

\* A GET that read_from() ends because the session is done has had all of it.
CompleteMeansAll ==
    \A g \in Readers : rpc[g] = "complete" => offset(g) >= total_size(rsess[g])

\* A session that is not done is in the map under its conversation's id, or in the
\* hands of a thread that is about to finalize it: create_or_replace(), evict(),
\* evict_and_cancel(), gc_loop() and stop_gc() lose none.  In particular a
\* conversation has at most one live session that nobody is about to end.
NoSessionLost ==
    \A s \in Requests :
        wpc[s] # "idle" /\ s \notin done =>
            \/ sessions[Conv[s]] = s
            \/ \E r \in Requests : held[r] = s
            \/ \E d \in Deleters : dheld[d] = s
            \/ s \in snapshot

\* Until it is cancelled, or the server stops, everything a request generates
\* enters its ring, in the drain of on_complete() too.
RingKept(s) ==
    s \notin cancelled /\ mpc = "running" => total_size(s) = produced[s].bytes

\* A client that reattaches misses nothing: set_next() and on_complete() put every
\* chunk into the ring, and whoever finalizes a session before its producer cancels
\* it first.  Stated for the requests that share their conversation with none that
\* may be over before it streams: see RingComplete.
RingCompleteAlone ==
    \A s \in Requests :
        (\A r \in (MayFail \cup MayDisconnect) \ {s} : Conv[r] # Conv[s]) => RingKept(s)

\* server-stream.cpp, on_complete(): a request that never streamed is to "evict the
\* session installed by set_req()", its own, so that all rings are kept.
RingComplete == \A s \in Requests : RingKept(s)

\* A reader whose session has left the map ends, even if the generation that feeds
\* the session never yields another result.
DetachedReadersEnd ==
    <>[](\A g \in Readers : rpc[g] = "reading" => sessions[Conv[rsess[g]]] = rsess[g])

\* README-dev.md: stop "finalizes every live session so no reader hangs", and no
\* reader does that attaches to a session installed while stop_gc() runs either.
NoReaderHangs == <>[](\A g \in Readers : mpc # "running" => rpc[g] # "reading")
=============================================================================
