------------------------- MODULE PlePrefetchProofs -------------------------
(***************************************************************************)
(* What is proved of the page prefetch for any number of readers, any      *)
(* prompts and any sizes: a call is never pulled away from under its       *)
(* threads, what is gathered are the rows asked for, with bounded_window   *)
(* no page outside of the window is read, and an ubatch that is covered    *)
(* has been read.                                                          *)
(***************************************************************************)
EXTENDS PlePrefetch, FiniteSets, FiniteSetTheorems, SequenceTheorems, TLAPS

-----------------------------------------------------------------------------
(* The threads of a call *)

\* A call has a coordinator while it runs, no reader without a coordinator, and
\* neither stop() nor begin() is past its joins while a thread is left.
ThreadInv ==
    /\ running \in BOOLEAN /\ decoding \in BOOLEAN
    /\ running <=> coord # "none"
    /\ pc = "begin" => ~running
    /\ pc = "join" => running
    /\ coord \in {"none", "ended"} => \A r \in Readers : reader[r] = Idle
    /\ pc \in {"join", "begin"} => ~decoding

\* The same, for the steps of a reader: only one that has been started takes any.
LEMMA ReaderIsStarted ==
    ASSUME ThreadInv, NEW r \in Readers, ReaderStep(r) \/ ReadFails(r)
    PROVE  /\ coord \notin {"none", "ended"}
           /\ coord' = coord /\ UNCHANGED <<pc, running, decoding, call>>
<1>1. reader[r].pc \notin {"none", "ended"} /\ UNCHANGED <<coord, pc, running, decoding, call>>
  BY DEF ReaderStep, Claim, CheckRun, CheckBuilt, WaitForRun, Take, ReadRun, ReadStopped,
         ReadFails, FlushDone, NotifyDone, mainvars, decvars
<1>2. reader[r] # Idle
  BY <1>1 DEF Idle
<1>. QED  BY <1>1, <1>2 DEF ThreadInv

\* The threads of a call: Init.
LEMMA ThreadInit == PInit => ThreadInv
BY DEF PInit, ThreadInv

\* The threads of a call: every step.
LEMMA ThreadStep == ThreadInv /\ [PNext]_pvars => ThreadInv'
<1>. SUFFICES ASSUME ThreadInv, [PNext]_pvars PROVE ThreadInv'
  OBVIOUS
<1>. USE DEF mainvars, decvars
<1>1. CASE StopThreads  BY <1>1 DEF ThreadInv, StopThreads, SetStopping, Return
<1>2. CASE Joined       BY <1>2 DEF ThreadInv, Joined, Return
<1>3. CASE Begin        BY <1>3 DEF ThreadInv, Begin, Return
<1>4. CASE ConsumeWait  BY <1>4 DEF ThreadInv, ConsumeWait, Return
<1>5. CASE NoGather     BY <1>5 DEF ThreadInv, NoGather, Return
<1>6. ASSUME NEW idx, Gather(idx) PROVE ThreadInv'
  BY <1>6 DEF ThreadInv, Gather, DecodeAhead, Return
<1>7. ASSUME NEW p \in Prompts, Start(p) PROVE ThreadInv'
  BY <1>7 DEF ThreadInv, Start, StopThen, Return
<1>8. ASSUME NEW p \in Prompts, Hint(p) PROVE ThreadInv'
  BY <1>8 DEF ThreadInv, Hint, StopThen, Return
<1>9. CASE EndCall      BY <1>9 DEF ThreadInv, EndCall, Return
<1>10. ASSUME NEW n \in 1..Ubatch, Consume(n) PROVE ThreadInv'
  BY <1>10 DEF ThreadInv, Consume, Return
<1>11. CASE AwaitWindow BY <1>11 DEF ThreadInv, AwaitWindow
<1>12. CASE Hash        BY <1>12 DEF ThreadInv, Hash
<1>13. ASSUME NEW k \in 0..MaxRuns, Publish(k) PROVE ThreadInv'
  BY <1>13 DEF ThreadInv, Publish
<1>14. CASE Built       BY <1>14 DEF ThreadInv, Built
<1>15. CASE JoinReaders BY <1>15 DEF ThreadInv, JoinReaders
<1>16. CASE Decoded     BY <1>16 DEF ThreadInv, Decoded
<1>17. ASSUME NEW r \in Readers, ReaderStep(r) \/ ReadFails(r) PROVE ThreadInv'
  BY <1>17, ReaderIsStarted DEF ThreadInv
<1>18. CASE UNCHANGED pvars
  BY <1>18 DEF ThreadInv, pvars
<1>. QED
  BY <1>1, <1>2, <1>3, <1>4, <1>5, <1>6, <1>7, <1>8, <1>9, <1>10, <1>11, <1>12, <1>13, <1>14,
     <1>15, <1>16, <1>17, <1>18 DEF PNext, MainStep, Caller, CoordStep

\* CallOutlivesThreads holds for every step: the tokens and arrays of a call change in
\* stop() after the joins and in begin() before the threads are started.
THEOREM CallsOutliveThreads == PSpec => CallOutlivesThreads
<1>1. ASSUME ThreadInv, [PNext]_pvars, call' # call
      PROVE  coord \in {"none", "ended"} /\ ~decoding /\ \A r \in Readers : reader[r] = Idle
  <2>. USE DEF mainvars, decvars
  <2>1. Joined \/ Begin
    <3>1. \A r \in Readers : ReaderStep(r) \/ ReadFails(r) => call' = call
      BY <1>1, ReaderIsStarted
    <3>2. \A idx : Gather(idx) => call' = call
      BY DEF Gather
    <3>3. \A p : Start(p) \/ Hint(p) => call' = call
      BY DEF Start, Hint
    <3>4. \A n : Consume(n) => call' = call
      BY DEF Consume
    <3>5. CoordStep \/ Decoded \/ EndCall \/ StopThreads \/ ConsumeWait \/ NoGather => call' = call
      BY DEF CoordStep, AwaitWindow, Hash, Publish, Built, JoinReaders, Decoded, EndCall,
             StopThreads, ConsumeWait, NoGather
    <3>6. UNCHANGED pvars => call' = call
      BY DEF pvars
    <3>. QED
      BY <1>1, <3>1, <3>2, <3>3, <3>4, <3>5, <3>6 DEF PNext, MainStep, Caller
  <2>2. CASE Joined  BY <1>1, <2>2 DEF Joined, ThreadInv
  <2>3. CASE Begin   BY <1>1, <2>3 DEF Begin, ThreadInv
  <2>. QED  BY <2>1, <2>2, <2>3
<1>2. ThreadInv /\ [PNext]_pvars
      => [call' # call => /\ coord \in {"none", "ended"} /\ ~decoding
                          /\ \A r \in Readers : reader[r] = Idle]_pvars
  BY <1>1
<1>. QED  BY <1>2, ThreadInit, ThreadStep, PTL DEF PSpec, CallOutlivesThreads

-----------------------------------------------------------------------------
(* The rows decoded ahead *)

\* An ubatch is counted as consumed before it is gathered, so that dec_t0 = None is
\* the offset of none; the buffer holds the rows that dec_t0 speaks of.
DecodeInv ==
    /\ consumed \in Nat /\ ubatch \in Nat /\ ubatch <= consumed
    /\ pc \in {"idle", "stop", "join", "begin"} => ubatch = 0
    /\ dec_t0 # None => dec_buf = dec_rows
    /\ gather_right = TRUE

\* The rows decoded ahead: Init.
LEMMA DecodeInit == PInit => DecodeInv
BY DEF PInit, DecodeInv

\* The rows decoded ahead: the steps of the coordinator and the readers change none
\* of it.
LEMMA OthersDecodeNothing ==
    CoordStep \/ (\E r \in Readers : ReaderStep(r) \/ ReadFails(r)) \/ UNCHANGED pvars
    => UNCHANGED <<consumed, ubatch, pc, decvars>>
<1>1. CoordStep => UNCHANGED <<mainvars, decvars>>
  BY DEF CoordStep, AwaitWindow, Hash, Publish, Built, JoinReaders
<1>2. ASSUME NEW r \in Readers
      PROVE  ReaderStep(r) \/ ReadFails(r) => UNCHANGED <<mainvars, decvars>>
  BY DEF ReaderStep, Claim, CheckRun, CheckBuilt, WaitForRun, Take, ReadRun, ReadStopped,
         ReadFails, FlushDone, NotifyDone
<1>3. UNCHANGED pvars => UNCHANGED <<mainvars, decvars>>
  BY DEF pvars
<1>. QED  BY <1>1, <1>2, <1>3 DEF mainvars

\* The rows decoded ahead: every step.
LEMMA DecodeStep == DecodeInv /\ [PNext]_pvars => DecodeInv'
<1>. SUFFICES ASSUME DecodeInv, [PNext]_pvars PROVE DecodeInv'
  OBVIOUS
<1>. USE PrefetchAssumption DEF mainvars, decvars
<1>1. CASE StopThreads  BY <1>1 DEF DecodeInv, StopThreads, SetStopping, Return
<1>2. CASE Joined       BY <1>2 DEF DecodeInv, Joined, Return
<1>3. CASE Begin        BY <1>3 DEF DecodeInv, Begin, Return
<1>4. CASE ConsumeWait  BY <1>4 DEF DecodeInv, ConsumeWait, Return
<1>5. CASE NoGather     BY <1>5 DEF DecodeInv, NoGather, Return
<1>6. ASSUME NEW idx, Gather(idx) PROVE DecodeInv'
  <2>1. dec_t0 = consumed - ubatch => dec_t0 # None
    BY DEF DecodeInv, None
  <2>2. dec_t0 = consumed - ubatch /\ dec_rows = idx => dec_buf = idx
    BY <2>1 DEF DecodeInv
  <2>3. gather_right' = TRUE
    BY <1>6, <2>2 DEF Gather, DecodeInv
  <2>4. dec_t0' = None /\ consumed' = consumed /\ ubatch' = 0
    BY <1>6 DEF Gather
  <2>. QED  BY <2>3, <2>4 DEF DecodeInv
<1>7. ASSUME NEW p \in Prompts, Start(p) PROVE DecodeInv'
  BY <1>7 DEF DecodeInv, Start, StopThen, Return
<1>8. ASSUME NEW p \in Prompts, Hint(p) PROVE DecodeInv'
  BY <1>8 DEF DecodeInv, Hint, StopThen, Return
<1>9. CASE EndCall      BY <1>9 DEF DecodeInv, EndCall, Return
<1>10. ASSUME NEW n \in 1..Ubatch, Consume(n) PROVE DecodeInv'
  <2>1. n \in Nat /\ consumed' = consumed + n /\ ubatch' = n
    BY <1>10 DEF Consume
  <2>2. pc' \in {"uncovered", "consume"} /\ UNCHANGED decvars
    BY <1>10 DEF Consume, Return
  <2>. QED  BY <2>1, <2>2 DEF DecodeInv
<1>11. CASE Decoded     BY <1>11 DEF DecodeInv, Decoded
<1>12. CASE CoordStep \/ (\E r \in Readers : ReaderStep(r) \/ ReadFails(r)) \/ UNCHANGED pvars
  BY <1>12, OthersDecodeNothing DEF DecodeInv
<1>. QED
  BY <1>1, <1>2, <1>3, <1>4, <1>5, <1>6, <1>7, <1>8, <1>9, <1>10, <1>11, <1>12
     DEF PNext, MainStep, Caller

\* GatherIsRight: gather() never hands out rows decoded for something else.
THEOREM GathersAreRight == PSpec => []GatherIsRight
<1>1. DecodeInv => GatherIsRight
  BY DEF DecodeInv, GatherIsRight
<1>. QED  BY <1>1, DecodeInit, DecodeStep, PTL DEF PSpec

-----------------------------------------------------------------------------
(* The window *)

Labels == {"none", "claim", "check", "check_built", "wait", "take", "read", "flush", "notify", "ended"}

Reader == [pc : Labels, i : Nat, end : Nat, ready : Nat, chunk : Int, runs : Nat, then : Labels]

\* What is ready of a batch is published, and a reader reads a published run, also
\* after it has counted off what it read before.
ReaderOK(rd, published) ==
    /\ rd \in Reader
    /\ rd.pc \notin {"none", "claim", "ended"} => rd.i >= 1
    /\ rd.ready <= published + 1
    /\ rd.then \notin {"flush", "notify"}
    /\ rd.pc = "read" \/ (rd.pc \in {"flush", "notify"} /\ rd.then = "read") => rd.i <= published

\* Every published run is of a chunk within the window, and only published runs are read.
WindowInv ==
    /\ call \in Prompts \cup {NoCall} /\ next \in Prompts \cup {NoCall}
    /\ consumed \in Nat
    /\ allowed_chunks \in Int /\ chunk \in Int /\ cursor \in Nat \ {0}
    /\ run_chunk \in Seq(Int)
    /\ read \subseteq 1..n_built
    /\ ~running => run_chunk = <<>> /\ read = {}
    /\ Bounded => \A i \in 1..n_built : InWindow(run_chunk[i])
    /\ Bounded /\ coord = "hashed" => InWindow(chunk)
    /\ reader \in [Readers -> Reader]
    /\ \A r \in Readers : ReaderOK(reader[r], n_built)

\* The tokens of a call or of none.
LEMMA CallTokens ==
    ASSUME NEW p \in Prompts \cup {NoCall}
    PROVE  p.toks \in Seq(Nat) /\ Len(p.toks) \in Nat
<1>1. CASE p \in Prompts
  BY <1>1, PrefetchAssumption
<1>2. CASE p = NoCall
  <2>1. p.toks = <<>>
    BY <1>2 DEF NoCall
  <2>. QED  BY <2>1
<1>. QED  BY <1>1, <1>2

\* Numbers of chunks are integers.
LEMMA ChunkCounts ==
    /\ \A n \in Nat, d \in Nat \ {0} : Ceil(n, d) \in Int
    /\ \A a, b \in Int : Least(a, b) \in Int /\ Least(a, b) <= a /\ Least(a, b) <= b
BY DEF Ceil, Least

\* A reader that has not begun, or has ended.
LEMMA EndedOK ==
    \A published \in Nat : \A rd \in {Idle, Started, Ended} : ReaderOK(rd, published)
<1>1. Idle \in Reader /\ Idle.pc = "none" /\ Idle.then = "none" /\ Idle.ready = 0
  BY DEF Idle, Reader, Labels
<1>2. Started \in Reader /\ Started.pc = "claim" /\ Started.then = "none" /\ Started.ready = 0
  BY DEF Started, Idle, Reader, Labels
<1>3. Ended \in Reader /\ Ended.pc = "ended" /\ Ended.then = "none" /\ Ended.ready = 0
  BY DEF Ended, Idle, Reader, Labels
<1>. QED  BY <1>1, <1>2, <1>3 DEF ReaderOK

\* A reader that goes on to l.
LEMMA AtOK ==
    ASSUME NEW rd \in Reader, NEW published \in Nat, rd.i >= 1, rd.ready <= published + 1,
           rd.then \notin {"flush", "notify"},
           NEW l \in Labels, l = "read" => rd.i <= published, l \notin {"flush", "notify"}
    PROVE  ReaderOK(At(rd, l), published)
<1>1. /\ At(rd, l) \in Reader /\ At(rd, l).pc = l /\ At(rd, l).then = rd.then
      /\ At(rd, l).i = rd.i /\ At(rd, l).ready = rd.ready
  BY DEF At, Reader
<1>. QED  BY <1>1 DEF ReaderOK

\* A reader that goes on to l after counting off.
LEMMA FlushThenOK ==
    ASSUME NEW rd \in Reader, NEW published \in Nat, rd.i >= 1, rd.ready <= published + 1,
           rd.then \notin {"flush", "notify"},
           NEW l \in Labels, l = "read" => rd.i <= published, l \notin {"flush", "notify"}
    PROVE  ReaderOK(FlushThen(rd, l), published)
<1>1. CASE rd.runs > 0
  <2>. DEFINE to == [rd EXCEPT !.pc = "flush", !.then = l]
  <2>1. FlushThen(rd, l) = to
    BY <1>1 DEF FlushThen
  <2>2. to \in Reader /\ to.pc = "flush" /\ to.then = l /\ to.i = rd.i /\ to.ready = rd.ready
    BY DEF Reader, Labels
  <2>. QED  BY <2>1, <2>2 DEF ReaderOK
<1>2. CASE ~(rd.runs > 0) /\ l = "ended"
  <2>1. FlushThen(rd, l) = Ended
    BY <1>2 DEF FlushThen
  <2>. QED  BY <2>1, EndedOK
<1>3. CASE ~(rd.runs > 0) /\ l # "ended"
  <2>1. FlushThen(rd, l) = At(rd, l)
    BY <1>3 DEF FlushThen
  <2>. QED  BY <2>1, AtOK
<1>. QED  BY <1>1, <1>2, <1>3

\* A reader that has read or counted off runs of a chunk.
LEMMA RunsCounted ==
    ASSUME NEW rd \in Reader, NEW c \in Int, NEW n \in Nat
    PROVE  LET to == [rd EXCEPT !.chunk = c, !.runs = n]
           IN  to \in Reader /\ to.i = rd.i /\ to.ready = rd.ready /\ to.then = rd.then
BY DEF Reader

\* More runs may be published under a reader.
LEMMA PublishedGrows ==
    ASSUME NEW rd, NEW a \in Nat, NEW b \in Nat, a <= b, ReaderOK(rd, a)
    PROVE  ReaderOK(rd, b)
BY DEF ReaderOK, Reader

\* The window: Init.
LEMMA WindowInit == PInit => WindowInv
<1>. SUFFICES ASSUME PInit PROVE WindowInv
  OBVIOUS
<1>1. n_built = 0 /\ run_chunk \in Seq(Int) /\ read = {}
  BY DEF PInit, n_built
<1>2. \A r \in Readers : reader[r] = Idle /\ ReaderOK(reader[r], n_built)
  BY <1>1, EndedOK DEF PInit
<1>3. reader \in [Readers -> Reader]
  BY <1>2 DEF PInit, ReaderOK
<1>. QED  BY <1>1, <1>2, <1>3 DEF PInit, WindowInv

\* What the invariant speaks of besides the readers, the runs read and the cursor.
windowvars == <<call, next, consumed, running, allowed_chunks, chunk, coord, run_chunk>>

\* The number of published runs.
LEMMA PublishedRuns == WindowInv => n_built \in Nat /\ (run_chunk' = run_chunk => n_built' = n_built)
BY DEF WindowInv, n_built

\* A reader that changes its own state only.
LEMMA ReaderBecomes ==
    ASSUME WindowInv, NEW r \in Readers, NEW rd, ReaderOK(rd, n_built), Becomes(r, rd),
           UNCHANGED windowvars, read' = read, cursor' \in Nat \ {0}
    PROVE  WindowInv'
<1>1. n_built' = n_built
  BY PublishedRuns DEF windowvars
<1>2. rd \in Reader
  BY DEF ReaderOK
<1>3. /\ reader' \in [Readers -> Reader]
      /\ \A q \in Readers : reader'[q] = IF q = r THEN rd ELSE reader[q]
  BY <1>2 DEF Becomes, WindowInv
<1>4. \A q \in Readers : ReaderOK(reader'[q], n_built')
  BY <1>1, <1>3 DEF WindowInv
<1>5. \A c : InWindow(c) <=> InWindow(c)'
  BY DEF InWindow, windowvars
<1>. QED  BY <1>1, <1>3, <1>4, <1>5 DEF WindowInv, windowvars, InWindow

\* The end of what is ready lies within what is published.
LEMMA ReadyEndPublished ==
    ASSUME WindowInv, NEW rd \in Reader, rd.ready <= n_built + 1, rd.i <= n_built
    PROVE  ReadyEnd(rd) \in Nat /\ ReadyEnd(rd) <= n_built + 1
<1>1. n_built \in Nat /\ rd.end \in Nat /\ rd.i \in Nat /\ rd.ready \in Nat
  BY PublishedRuns DEF Reader
<1>2. Least(rd.end, n_built + 1) \in Nat /\ Least(rd.end, n_built + 1) <= n_built + 1
  BY <1>1 DEF Least
<1>. QED  BY <1>1, <1>2 DEF ReadyEnd

\* A reader claims a run.
LEMMA ClaimWindow ==
    ASSUME WindowInv, NEW r \in Readers, Claim(r) PROVE WindowInv'
<1>. DEFINE rd   == reader[r]
            more == rd.i + 1 < rd.end
            i    == IF more THEN rd.i + 1 ELSE cursor
            end  == IF more THEN rd.end ELSE cursor + BatchRuns
            ends == IF i < rd.ready THEN rd.ready ELSE 0
            to   == [rd EXCEPT !.i = i, !.end = end, !.then = "none", !.ready = ends]
            l    == IF i < rd.ready THEN "take" ELSE "check"
<1>1. rd \in Reader /\ ReaderOK(rd, n_built) /\ n_built \in Nat /\ cursor \in Nat \ {0}
  BY PublishedRuns DEF WindowInv
<1>2. i \in Nat /\ i >= 1 /\ end \in Nat /\ ends \in Nat /\ cursor' \in Nat \ {0}
  <2>1. BatchRuns \in Nat \ {0}
    BY PrefetchAssumption
  <2>2. rd.i \in Nat /\ rd.end \in Nat /\ rd.ready \in Nat
    BY <1>1 DEF Reader
  <2>3. cursor' = IF more THEN cursor ELSE cursor + BatchRuns
    BY DEF Claim
  <2>. QED  BY <1>1, <2>1, <2>2, <2>3
<1>3. to \in Reader /\ to.i = i /\ to.ready = ends /\ to.then = "none"
  <2>. HIDE DEF i, end, ends
  <2>. QED  BY <1>1, <1>2 DEF Reader, Labels
<1>4. to.ready <= n_built + 1
  BY <1>1, <1>3 DEF ReaderOK
<1>5. l \in Labels /\ l \notin {"flush", "notify", "read"}
  BY DEF Labels
<1>6. ReaderOK(At(to, l), n_built)
  <2>. HIDE DEF to, l, i
  <2>. QED  BY <1>1, <1>2, <1>3, <1>4, <1>5, AtOK
<1>7. Becomes(r, At(to, l)) /\ UNCHANGED windowvars /\ read' = read
  BY DEF Claim, windowvars, mainvars
<1>. QED
  <2>. HIDE DEF to, l, i
  <2>. QED  BY <1>2, <1>6, <1>7, ReaderBecomes

\* A reader looks whether its run is ready, and waits.
LEMMA CheckWindow ==
    ASSUME WindowInv, NEW r \in Readers, CheckRun(r) \/ CheckBuilt(r) \/ WaitForRun(r)
    PROVE  WindowInv'
<1>. DEFINE rd == reader[r]
<1>1. rd \in Reader /\ ReaderOK(rd, n_built) /\ n_built \in Nat /\ cursor \in Nat \ {0}
  BY PublishedRuns DEF WindowInv
<1>2. rd.i >= 1 /\ rd.ready <= n_built + 1 /\ rd.then \notin {"flush", "notify"}
  BY <1>1 DEF ReaderOK, CheckRun, CheckBuilt, WaitForRun
<1>3. /\ \A l \in {"take", "check_built", "wait"} : ReaderOK(At(rd, l), n_built)
      /\ ReaderOK(FlushThen(rd, "wait"), n_built)
  <2>1. \A l \in {"take", "check_built", "wait"} : l \in Labels /\ l \notin {"flush", "notify", "read"}
    BY DEF Labels
  <2>. QED  BY <1>1, <1>2, <2>1, AtOK, FlushThenOK
<1>4. UNCHANGED windowvars /\ read' = read /\ cursor' = cursor
  BY DEF CheckRun, CheckBuilt, WaitForRun, windowvars, mainvars, runvars
<1>5. CASE CheckRun(r)
  BY <1>1, <1>3, <1>4, <1>5, ReaderBecomes DEF CheckRun
<1>6. CASE CheckBuilt(r)
  BY <1>1, <1>3, <1>4, <1>6, ReaderBecomes DEF CheckBuilt
<1>7. CASE WaitForRun(r)
  <2>1. reader = [reader EXCEPT ![r] = rd]
    BY DEF WindowInv
  <2>2. Becomes(r, At(rd, "take")) \/ Becomes(r, rd)
    BY <1>7, <2>1 DEF WaitForRun, Becomes
  <2>. QED  BY <1>1, <1>3, <1>4, <2>2, ReaderBecomes
<1>. QED  BY <1>5, <1>6, <1>7

\* A reader takes up its run.
LEMMA TakeWindow ==
    ASSUME WindowInv, NEW r \in Readers, Take(r) PROVE WindowInv'
<1>. DEFINE rd   == reader[r]
            more == rd.i < rd.ready \/ rd.i <= n_built
            to   == [rd EXCEPT !.ready = ReadyEnd(rd)]
<1>1. rd \in Reader /\ ReaderOK(rd, n_built) /\ n_built \in Nat /\ cursor \in Nat \ {0}
  BY PublishedRuns DEF WindowInv
<1>2. /\ rd.i \in Nat /\ rd.ready \in Nat /\ rd.i >= 1 /\ rd.ready <= n_built + 1
      /\ rd.then \notin {"flush", "notify"}
  BY <1>1 DEF ReaderOK, Take, Reader
<1>3. "read" \in Labels /\ "ended" \in Labels
  BY DEF Labels
<1>4. UNCHANGED windowvars /\ read' = read /\ cursor' = cursor
  BY DEF Take, windowvars, mainvars, runvars
<1>5. CASE stopping \/ ~more
  <2>1. ReaderOK(FlushThen(rd, "ended"), n_built)
    BY <1>1, <1>2, <1>3, FlushThenOK
  <2>2. Becomes(r, FlushThen(rd, "ended"))
    BY <1>5 DEF Take
  <2>. QED  BY <1>1, <1>4, <2>1, <2>2, ReaderBecomes
<1>6. CASE ~stopping /\ more
  <2>1. rd.i <= n_built
    BY <1>1, <1>2, <1>6
  <2>2. ReadyEnd(rd) \in Nat /\ ReadyEnd(rd) <= n_built + 1
    BY <1>1, <1>2, <2>1, ReadyEndPublished
  <2>3. to \in Reader /\ to.i = rd.i /\ to.ready = ReadyEnd(rd) /\ to.then = rd.then
    BY <1>1, <2>2 DEF Reader
  <2>4. ReaderOK(FlushThen(to, "read"), n_built) /\ ReaderOK(At(to, "read"), n_built)
    <3>. HIDE DEF to
    <3>. QED  BY <1>1, <1>2, <1>3, <2>1, <2>2, <2>3, FlushThenOK, AtOK
  <2>5. Becomes(r, FlushThen(to, "read")) \/ Becomes(r, At(to, "read"))
    BY <1>6 DEF Take
  <2>. QED
    <3>. HIDE DEF to
    <3>. QED  BY <1>1, <1>4, <2>4, <2>5, ReaderBecomes
<1>. QED  BY <1>5, <1>6

\* A reader reads its run, which is published, so that it is of the window.
LEMMA ReadWindow ==
    ASSUME ThreadInv, WindowInv, NEW r \in Readers, ReadRun(r) PROVE WindowInv'
<1>. DEFINE rd == reader[r]
            c  == run_chunk[rd.i]
            n  == rd.runs + 1
            to == [rd EXCEPT !.chunk = c, !.runs = n]
<1>1. rd \in Reader /\ ReaderOK(rd, n_built) /\ n_built \in Nat /\ cursor \in Nat \ {0}
  BY PublishedRuns DEF WindowInv
<1>2. /\ rd.i \in Nat /\ rd.i >= 1 /\ rd.ready <= n_built + 1 /\ rd.i <= n_built /\ n \in Nat
      /\ rd.then \notin {"flush", "notify"}
  BY <1>1 DEF ReaderOK, ReadRun, Reader
<1>3. c \in Int
  BY <1>2 DEF WindowInv, n_built
<1>4. to \in Reader /\ to.i = rd.i /\ to.ready = rd.ready /\ to.then = rd.then
  <2>. HIDE DEF c, n
  <2>. QED  BY <1>1, <1>2, <1>3, RunsCounted
<1>5. ReaderOK(FlushThen(to, "claim"), n_built) /\ ReaderOK(At(to, "claim"), n_built)
  <2>1. "claim" \in Labels
    BY DEF Labels
  <2>. HIDE DEF to
  <2>. QED  BY <1>1, <1>2, <1>4, <2>1, FlushThenOK, AtOK
<1>6. Becomes(r, FlushThen(to, "claim")) \/ Becomes(r, At(to, "claim"))
  BY DEF ReadRun
<1>7. PICK new : ReaderOK(new, n_built) /\ Becomes(r, new)
  <2>. HIDE DEF to
  <2>. QED  BY <1>5, <1>6
<1>8. /\ reader' \in [Readers -> Reader]
      /\ \A q \in Readers : ReaderOK(reader'[q], n_built)
  <2>1. new \in Reader
    BY <1>7 DEF ReaderOK
  <2>2. \A q \in Readers : reader'[q] = IF q = r THEN new ELSE reader[q]
    BY <1>7 DEF Becomes, WindowInv
  <2>. QED  BY <1>7, <2>1, <2>2 DEF Becomes, WindowInv
<1>9. running /\ UNCHANGED windowvars /\ cursor' = cursor /\ n_built' = n_built
  <2>1. reader[r] # Idle
    BY DEF ReadRun, Idle
  <2>2. coord # "none"
    BY <2>1 DEF ThreadInv
  <2>. QED  BY <2>2 DEF ThreadInv, ReadRun, windowvars, mainvars, runvars, n_built
<1>10. read' \subseteq 1..n_built
  BY <1>1, <1>2 DEF ReadRun, WindowInv
<1>. QED  BY <1>8, <1>9, <1>10 DEF WindowInv, windowvars, InWindow

\* A reader ends, or counts off what it has read.
LEMMA CountWindow ==
    ASSUME WindowInv, NEW r \in Readers,
           ReadStopped(r) \/ ReadFails(r) \/ FlushDone(r) \/ NotifyDone(r)
    PROVE  WindowInv'
<1>. DEFINE rd == reader[r]
            to == [rd EXCEPT !.chunk = 0, !.runs = 0]
<1>1. rd \in Reader /\ ReaderOK(rd, n_built) /\ n_built \in Nat /\ cursor \in Nat \ {0}
  BY PublishedRuns DEF WindowInv
<1>2. rd.i >= 1 /\ rd.ready <= n_built + 1 /\ rd.then \notin {"flush", "notify"}
  BY <1>1 DEF ReaderOK, ReadStopped, ReadFails, FlushDone, NotifyDone
<1>3. UNCHANGED windowvars /\ read' = read /\ cursor' = cursor
  BY DEF ReadStopped, ReadFails, FlushDone, NotifyDone, windowvars, mainvars, runvars
<1>4. CASE ReadStopped(r) \/ ReadFails(r)
  <2>1. "ended" \in Labels
    BY DEF Labels
  <2>2. ReaderOK(FlushThen(rd, "ended"), n_built)
    BY <1>1, <1>2, <2>1, FlushThenOK
  <2>3. Becomes(r, FlushThen(rd, "ended"))
    BY <1>4 DEF ReadStopped, ReadFails
  <2>. QED  BY <1>1, <1>3, <2>2, <2>3, ReaderBecomes
<1>5. CASE FlushDone(r)
  <2>1. to \in Reader /\ to.i = rd.i /\ to.ready = rd.ready /\ to.then = rd.then
    <3>1. 0 \in Int /\ 0 \in Nat
      OBVIOUS
    <3>. QED  BY <1>1, <3>1, RunsCounted, Zenon
  <2>2. At(to, "notify") \in Reader /\ At(to, "notify").pc = "notify"
        /\ At(to, "notify").then = rd.then /\ At(to, "notify").i = rd.i
        /\ At(to, "notify").ready = rd.ready
    <3>. HIDE DEF to
    <3>. QED  BY <2>1 DEF At, Reader, Labels
  <2>3. ReaderOK(At(to, "notify"), n_built)
    <3>. HIDE DEF to
    <3>. QED  BY <1>1, <1>2, <1>5, <2>2 DEF ReaderOK, FlushDone
  <2>4. ReaderOK(FlushThen(to, rd.then), n_built)
    <3>1. rd.then \in Labels
      BY <1>1 DEF Reader
    <3>2. rd.then = "read" => rd.i <= n_built
      BY <1>1, <1>5 DEF ReaderOK, FlushDone
    <3>. HIDE DEF to
    <3>. QED  BY <1>1, <1>2, <2>1, <3>1, <3>2, FlushThenOK
  <2>5. Becomes(r, At(to, "notify")) \/ Becomes(r, FlushThen(to, rd.then))
    BY <1>5 DEF FlushDone
  <2>. HIDE DEF to
  <2>. QED  BY <1>1, <1>3, <2>3, <2>4, <2>5, ReaderBecomes
<1>6. CASE NotifyDone(r)
  <2>1. rd.then \in Labels /\ rd.then \notin {"flush", "notify"}
        /\ (rd.then = "read" => rd.i <= n_built)
    BY <1>1, <1>6 DEF ReaderOK, NotifyDone, Reader
  <2>2. ReaderOK(FlushThen(rd, rd.then), n_built)
    BY <1>1, <1>2, <2>1, FlushThenOK
  <2>3. Becomes(r, FlushThen(rd, rd.then))
    BY <1>6 DEF NotifyDone
  <2>. QED  BY <1>1, <1>3, <2>2, <2>3, ReaderBecomes
<1>. QED  BY <1>4, <1>5, <1>6

\* The main thread moves the window, or nothing that the invariant speaks of.
LEMMA MainWindow ==
    ASSUME ThreadInv, WindowInv, MainStep \/ Caller \/ Decoded \/ UNCHANGED pvars
    PROVE  WindowInv'
<1>. USE DEF mainvars, runvars, decvars
<1>1. ASSUME UNCHANGED <<call, consumed, running, allowed_chunks, chunk, coord, run_chunk, read, cursor, reader>>,
             next' \in Prompts \cup {NoCall}
      PROVE  WindowInv'
  BY <1>1 DEF WindowInv, n_built, InWindow
<1>2. next \in Prompts \cup {NoCall}
  BY DEF WindowInv
<1>3. CASE StopThreads  BY <1>1, <1>2, <1>3 DEF StopThreads, SetStopping
<1>4. CASE Joined
  <2>1. \A r \in Readers : reader[r] = Idle
    BY <1>4 DEF Joined, ThreadInv
  <2>2. run_chunk' = <<>> /\ read' = {} /\ n_built' = 0 /\ run_chunk' \in Seq(Int)
    BY <1>4 DEF Joined, n_built
  <2>3. \A r \in Readers : ReaderOK(reader'[r], n_built')
    BY <1>4, <2>1, <2>2, EndedOK DEF Joined
  <2>. QED  BY <1>4, <2>2, <2>3 DEF Joined, WindowInv, InWindow
<1>5. CASE Begin
  <2>1. ~running /\ coord = "none" /\ run_chunk = <<>> /\ read = {} /\ n_built = 0
    BY <1>5 DEF Begin, ThreadInv, WindowInv, n_built
  <2>2. run_chunk' = <<>> /\ read' = {} /\ n_built' = 0 /\ consumed' \in Nat
    BY <1>5, <2>1 DEF Begin, WindowInv, n_built
  <2>3. call' \in Prompts \cup {NoCall} /\ next' \in Prompts \cup {NoCall}
    BY <1>5 DEF Begin, WindowInv
  <2>4. allowed_chunks' \in Int /\ chunk' \in Int /\ cursor' \in Nat \ {0}
    <3>1. next.toks \in Seq(Nat) /\ Len(next.toks) \in Nat
      BY <1>2, CallTokens
    <3>2. ChunkSize \in Nat \ {0} /\ Ubatch \in Nat /\ Ahead \in Nat
      BY PrefetchAssumption
    <3>. DEFINE all == Ceil(Len(next.toks), ChunkSize)
                few == Ceil(Ubatch + Ahead, ChunkSize)
    <3>3. Ubatch + Ahead \in Nat
      BY <3>2
    <3>4. all \in Int /\ few \in Int
      BY <3>1, <3>2, <3>3, ChunkCounts
    <3>5. /\ allowed_chunks' \in {allowed_chunks, Least(all, few)}
          /\ chunk' \in {chunk, 1} /\ cursor' \in {cursor, 1}
      BY <1>5 DEF Begin
    <3>. HIDE DEF all, few
    <3>6. Least(all, few) \in Int
      BY <3>4, ChunkCounts
    <3>7. allowed_chunks \in Int /\ chunk \in Int /\ cursor \in Nat \ {0}
      BY DEF WindowInv
    <3>. QED  BY <3>5, <3>6, <3>7
  <2>5. /\ reader' \in [Readers -> Reader]
        /\ \A r \in Readers : ReaderOK(reader'[r], n_built')
    <3>1. \A r \in Readers : reader'[r] \in {Idle, Started}
      BY <1>5, <2>1 DEF Begin, ThreadInv
    <3>2. \A r \in Readers : ReaderOK(reader'[r], n_built')
      BY <2>2, <3>1, EndedOK
    <3>3. reader' = [r \in Readers |-> reader'[r]]
      BY <1>5 DEF Begin, WindowInv
    <3>. QED  BY <3>2, <3>3 DEF ReaderOK
  <2>6. coord' # "hashed"
    BY <1>5, <2>1 DEF Begin
  <2>. QED  BY <2>2, <2>3, <2>4, <2>5, <2>6 DEF WindowInv
<1>6. CASE ConsumeWait  BY <1>1, <1>2, <1>6 DEF ConsumeWait
<1>7. CASE NoGather     BY <1>1, <1>2, <1>7 DEF NoGather
<1>8. ASSUME NEW idx, Gather(idx) PROVE WindowInv'
  BY <1>1, <1>2, <1>8 DEF Gather
<1>9. ASSUME NEW p \in Prompts, Start(p) \/ Hint(p) PROVE WindowInv'
  BY <1>1, <1>2, <1>9 DEF Start, Hint, StopThen
<1>10. CASE EndCall     BY <1>1, <1>10 DEF EndCall
<1>11. ASSUME NEW n \in 1..Ubatch, Consume(n) PROVE WindowInv'
  <2>1. n \in Nat /\ consumed \in Nat /\ consumed' \in Nat
    BY <1>11, PrefetchAssumption DEF Consume, WindowInv
  <2>2. allowed_chunks' \in Int /\ allowed_chunks' >= allowed_chunks
    <3>. DEFINE a == chunks_for(consumed + n + Ahead)
    <3>1. Len(call.toks) \in Nat
      BY CallTokens DEF WindowInv
    <3>2. ChunkSize \in Nat \ {0} /\ Ahead \in Nat
      BY PrefetchAssumption
    <3>3. a \in Int
      <4>1. consumed + n + Ahead \in Nat
        BY <2>1, <3>2
      <4>2. Ceil(Len(call.toks), ChunkSize) \in Int /\ Ceil(consumed + n + Ahead, ChunkSize) \in Int
        BY <3>1, <3>2, <4>1, ChunkCounts
      <4>. QED  BY <4>2, ChunkCounts DEF chunks_for, n_chunks
    <3>4. allowed_chunks' = allowed_chunks \/ (a > allowed_chunks /\ allowed_chunks' = a)
      BY <1>11 DEF Consume
    <3>. HIDE DEF a
    <3>. QED  BY <3>3, <3>4 DEF WindowInv
  <2>3. \A c \in Int : InWindow(c) => InWindow(c)'
    BY <2>2 DEF InWindow, WindowInv
  <2>4. /\ UNCHANGED <<call, next, running, chunk, coord, run_chunk, read, cursor, reader>>
        /\ n_built' = n_built
    BY <1>11 DEF Consume, n_built
  <2>5. \A i \in 1..n_built : run_chunk[i] \in Int
    BY DEF WindowInv, n_built
  <2>. QED  BY <2>1, <2>2, <2>3, <2>4, <2>5 DEF WindowInv
<1>12. CASE Decoded     BY <1>1, <1>2, <1>12 DEF Decoded
<1>13. CASE UNCHANGED pvars
  BY <1>1, <1>2, <1>13 DEF pvars
<1>. QED
  BY <1>3, <1>4, <1>5, <1>6, <1>7, <1>8, <1>9, <1>10, <1>11, <1>12, <1>13 DEF MainStep, Caller

\* The coordinator waits for the window before it hashes, and publishes what it hashed.
LEMMA CoordWindow ==
    ASSUME ThreadInv, WindowInv, CoordStep PROVE WindowInv'
<1>. USE DEF mainvars, runvars, decvars
<1>1. CASE AwaitWindow  BY <1>1 DEF AwaitWindow, WindowInv, n_built, InWindow
<1>2. CASE Hash
  <2>1. UNCHANGED <<call, next, consumed, running, allowed_chunks, chunk, run_chunk, read, cursor>>
    BY <1>2 DEF Hash
  <2>2. n_built' = n_built /\ n_built \in Nat
    BY <2>1, PublishedRuns
  <2>3. Bounded => InWindow(chunk)
    BY <1>2 DEF Hash
  <2>4. /\ reader' \in [Readers -> Reader]
        /\ \A r \in Readers : ReaderOK(reader'[r], n_built)
    <3>1. \A r \in Readers : reader'[r] \in {reader[r], Started}
      BY <1>2 DEF Hash, WindowInv
    <3>2. \A r \in Readers : ReaderOK(reader'[r], n_built)
      BY <2>2, <3>1, EndedOK DEF WindowInv
    <3>3. reader' = [r \in Readers |-> reader'[r]]
      BY <1>2 DEF Hash, WindowInv
    <3>. QED  BY <3>2, <3>3 DEF ReaderOK
  <2>. QED  BY <2>1, <2>2, <2>3, <2>4 DEF WindowInv, InWindow
<1>3. ASSUME NEW k \in 0..MaxRuns, Publish(k) PROVE WindowInv'
  <2>. DEFINE runs == [i \in 1..k |-> chunk]
  <2>1. k \in Nat /\ chunk \in Int /\ run_chunk \in Seq(Int)
    BY <1>3, PrefetchAssumption DEF WindowInv
  <2>2. runs \in Seq(Int) /\ Len(runs) = k /\ \A i \in 1..k : runs[i] = chunk
    BY <2>1
  <2>3. run_chunk' = run_chunk \o runs
    BY <1>3 DEF Publish
  <2>. HIDE DEF runs
  <2>4. /\ run_chunk' \in Seq(Int) /\ n_built' = n_built + k /\ n_built \in Nat
        /\ \A i \in 1..n_built' :
               run_chunk'[i] = IF i <= n_built THEN run_chunk[i] ELSE runs[i - n_built]
    <3>1. run_chunk \o runs \in Seq(Int) /\ Len(run_chunk \o runs) = Len(run_chunk) + k
      BY <2>1, <2>2, ConcatProperties
    <3>2. \A i \in 1..(Len(run_chunk) + k) :
              (run_chunk \o runs)[i] = IF i <= Len(run_chunk) THEN run_chunk[i] ELSE runs[i - Len(run_chunk)]
      BY <2>1, <2>2, ConcatProperties
    <3>3. Len(run_chunk) \in Nat
      BY <2>1
    <3>. QED  BY <2>3, <3>1, <3>2, <3>3 DEF n_built
  <2>5. /\ UNCHANGED <<call, next, consumed, running, allowed_chunks, read, cursor, reader>>
        /\ chunk' \in Int /\ coord' # "hashed" /\ coord = "hashed"
    BY <1>3, <2>1 DEF Publish
  <2>6. Bounded => \A i \in 1..n_built' : run_chunk'[i] <= allowed_chunks'
    <3>1. Bounded => chunk <= allowed_chunks /\ \A i \in 1..n_built : run_chunk[i] <= allowed_chunks
      BY <2>5 DEF WindowInv, InWindow
    <3>2. \A i \in 1..n_built' : run_chunk'[i] = chunk \/ (i \in 1..n_built /\ run_chunk'[i] = run_chunk[i])
      BY <2>1, <2>2, <2>4
    <3>. QED  BY <2>5, <3>1, <3>2
  <2>7. running
    BY <2>5 DEF ThreadInv
  <2>8. read' \subseteq 1..n_built'
    BY <2>1, <2>4, <2>5 DEF WindowInv
  <2>9. \A r \in Readers : ReaderOK(reader'[r], n_built')
    BY <2>1, <2>4, <2>5, PublishedGrows DEF WindowInv
  <2>10. /\ call' \in Prompts \cup {NoCall} /\ next' \in Prompts \cup {NoCall} /\ consumed' \in Nat
         /\ allowed_chunks' \in Int /\ cursor' \in Nat \ {0} /\ reader' \in [Readers -> Reader]
    BY <2>5 DEF WindowInv
  <2>11. running'
    BY <2>5, <2>7
  <2>. QED
    BY <2>4, <2>5, <2>6, <2>8, <2>9, <2>10, <2>11 DEF WindowInv, InWindow
<1>4. CASE Built        BY <1>4 DEF Built, WindowInv, n_built, InWindow
<1>5. CASE JoinReaders
  <2>1. /\ UNCHANGED <<call, next, consumed, running, allowed_chunks, chunk, run_chunk, read, cursor>>
        /\ coord' = "ended" /\ reader' = [r \in Readers |-> Idle]
    BY <1>5 DEF JoinReaders
  <2>2. n_built' = n_built /\ n_built \in Nat
    BY <2>1, PublishedRuns
  <2>3. \A r \in Readers : ReaderOK(reader'[r], n_built)
    BY <2>1, <2>2, EndedOK
  <2>4. reader' \in [Readers -> Reader]
    BY <2>1, <2>3 DEF ReaderOK
  <2>. QED  BY <2>1, <2>2, <2>3, <2>4 DEF WindowInv, InWindow
<1>. QED  BY <1>1, <1>2, <1>3, <1>4, <1>5 DEF CoordStep

\* WindowKept: with bounded_window the readers, which look at the window without the
\* mutex, read nothing beyond it.
THEOREM WindowIsKept == PSpec => []WindowKept
<1>1. PInit => ThreadInv /\ WindowInv
  BY ThreadInit, WindowInit
<1>2. ThreadInv /\ WindowInv /\ [PNext]_pvars => (ThreadInv /\ WindowInv)'
  <2>. SUFFICES ASSUME ThreadInv, WindowInv, [PNext]_pvars PROVE WindowInv'
    BY ThreadStep
  <2>1. ASSUME NEW r \in Readers, ReaderStep(r) \/ ReadFails(r) PROVE WindowInv'
    BY <2>1, ClaimWindow, CheckWindow, TakeWindow, ReadWindow, CountWindow DEF ReaderStep
  <2>. QED  BY <2>1, MainWindow, CoordWindow DEF PNext
<1>3. WindowInv => WindowKept
  BY DEF WindowInv, WindowKept
<1>. QED  BY <1>1, <1>2, <1>3, PTL DEF PSpec

-----------------------------------------------------------------------------
(* What is left of the chunks *)

\* The run of a reader is the one it is about to read, or the last one it has read.
HasRead(rd) == \/ rd.pc \in {"none", "claim", "ended"}
               \/ rd.pc \in {"flush", "notify"} /\ rd.then = "claim"
NextRun(rd) == IF HasRead(rd) THEN rd.i + 1 ELSE rd.i

\* The runs a reader has read and not yet counted off, and with those it has still to
\* read of its batch.
Held(rd)  == NextRun(rd) - rd.runs .. NextRun(rd) - 1
Batch(rd) == NextRun(rd) - rd.runs .. rd.end - 1

\* The runs of a batch up to n are of one chunk until they are counted off; the others
\* are unread.
BatchFits(rd, n, done, chunks, cur) ==
    /\ \A i \in n - rd.runs .. n - 1 : i \in done /\ chunks[i] = rd.chunk
    /\ \A i \in n .. rd.end - 1 : i \notin done
    /\ n <= rd.end /\ rd.end <= cur

\* Runs are counted off before the reader waits, takes up a run of another chunk or
\* claims another batch.
BatchOK(rd, done, chunks, cur) ==
    /\ BatchFits(rd, NextRun(rd), done, chunks, cur)
    /\ ~HasRead(rd) => rd.i < rd.end
    /\ rd.pc = "claim" /\ rd.runs > 0 => rd.i + 1 < rd.end
    /\ rd.pc = "read" /\ rd.runs > 0 => chunks[rd.i] = rd.chunk
    /\ rd.pc = "flush" => rd.runs > 0
    /\ rd.pc \in {"none", "ended", "wait", "notify"} => rd.runs = 0
    /\ rd.pc \in {"flush", "notify"} => rd.then \in {"claim", "wait", "read", "ended"}

BatchesApart == \A r, q \in Readers : r # q => Batch(reader[r]) \cap Batch(reader[q]) = {}

\* The published runs of a chunk that are to be counted off: they are unread, or held.
LeftOf(c, chunks, done, rds) ==
    {i \in 1..Len(chunks) : chunks[i] = c /\ (i \notin done \/ \E r \in Readers : i \in Held(rds[r]))}

\* The chunks before the coordinator's are published, and remaining counts what is
\* left of them.
CallInv ==
    /\ \A r \in Readers : BatchOK(reader[r], read, run_chunk, cursor)
    /\ BatchesApart
    /\ \A i \in read : i < cursor
    /\ n_built <= MaxRuns
    /\ chunk >= 1
    /\ coord = "hashed" => chunk <= n_chunks
    /\ \A i \in 1..n_built : run_chunk[i] \in 1..n_chunks /\ run_chunk[i] < chunk
    /\ remaining = [c \in 1..n_chunks |->
                        IF c < chunk THEN Cardinality(LeftOf(c, run_chunk, read, reader)) ELSE Pending]

\* A covered ubatch has nothing left.
CountInv ==
    /\ IF running THEN CallInv ELSE call = NoCall /\ remaining = <<>>
    /\ pc \in {"consume", "covered"} => running /\ ubatch > 0 /\ consumed <= Len(call.toks)
    /\ pc = "covered" => \A c \in UbatchChunks : ~(remaining[c] > 0)

\* A reader that goes on to l, of the run n it is to read next.
LEMMA AtBatch ==
    ASSUME NEW rd \in Reader, NEW n \in Nat, NEW done, NEW chunks, NEW cur \in Nat,
           BatchFits(rd, n, done, chunks, cur),
           NEW l \in {"claim", "check", "check_built", "wait", "take", "read"},
           n = IF l = "claim" THEN rd.i + 1 ELSE rd.i,
           l # "claim" => rd.i < rd.end,
           l = "claim" /\ rd.runs > 0 => rd.i + 1 < rd.end,
           l = "read" /\ rd.runs > 0 => chunks[rd.i] = rd.chunk,
           l = "wait" => rd.runs = 0
    PROVE  /\ BatchOK(At(rd, l), done, chunks, cur)
           /\ Held(At(rd, l)) = n - rd.runs .. n - 1
           /\ Batch(At(rd, l)) \subseteq n - rd.runs .. rd.end - 1
<1>. DEFINE to == At(rd, l)
<1>1. /\ to.pc = l /\ to.then = rd.then /\ to.i = rd.i /\ to.end = rd.end /\ to.runs = rd.runs
      /\ to.chunk = rd.chunk
  BY DEF At, Reader
<1>. HIDE DEF to
<1>2. (HasRead(to) <=> l = "claim") /\ NextRun(to) = n
  BY <1>1 DEF HasRead, NextRun
<1>3. BatchFits(to, n, done, chunks, cur)
  BY <1>1 DEF BatchFits
<1>4. BatchOK(to, done, chunks, cur)
  BY <1>1, <1>2, <1>3 DEF BatchOK
<1>5. Held(to) = n - rd.runs .. n - 1 /\ Batch(to) = n - rd.runs .. rd.end - 1
  BY <1>1, <1>2 DEF Held, Batch
<1>. QED  BY <1>4, <1>5 DEF to

\* A reader that has not begun, or has ended, has no batch.
LEMMA NoBatch ==
    \A rd \in {Idle, Started, Ended} :
        /\ rd \in Reader /\ Held(rd) = {} /\ Batch(rd) = {}
        /\ \A done, chunks : \A cur \in Nat \ {0} : BatchOK(rd, done, chunks, cur)
<1>1. ASSUME NEW rd \in {Idle, Started, Ended}
      PROVE  rd \in Reader /\ rd.i = 0 /\ rd.end = 1 /\ rd.runs = 0 /\ rd.pc \in {"none", "claim", "ended"}
  BY DEF Idle, Started, Ended, Reader, Labels
<1>2. ASSUME NEW rd \in {Idle, Started, Ended}
      PROVE  /\ Held(rd) = {} /\ Batch(rd) = {}
             /\ \A done, chunks : \A cur \in Nat \ {0} : BatchOK(rd, done, chunks, cur)
  <2>1. HasRead(rd) /\ NextRun(rd) = 1
    BY <1>1 DEF HasRead, NextRun
  <2>2. Held(rd) = {} /\ Batch(rd) = {}
    BY <1>1, <2>1 DEF Held, Batch
  <2>3. \A done, chunks : \A cur \in Nat \ {0} : BatchFits(rd, 1, done, chunks, cur)
    BY <1>1 DEF BatchFits
  <2>. QED  BY <1>1, <2>1, <2>2, <2>3 DEF BatchOK
<1>. QED  BY <1>1, <1>2

\* A reader that goes on to l after counting off.
LEMMA FlushThenBatch ==
    ASSUME NEW rd \in Reader, NEW n \in Nat, NEW done, NEW chunks, NEW cur \in Nat \ {0},
           BatchFits(rd, n, done, chunks, cur),
           NEW l \in {"claim", "wait", "read", "ended"},
           n = IF l = "claim" THEN rd.i + 1 ELSE rd.i,
           l # "claim" => rd.i < rd.end
    PROVE  /\ FlushThen(rd, l) \in Reader
           /\ BatchOK(FlushThen(rd, l), done, chunks, cur)
           /\ Held(FlushThen(rd, l)) = n - rd.runs .. n - 1
           /\ Batch(FlushThen(rd, l)) \subseteq n - rd.runs .. rd.end - 1
<1>. DEFINE to == [rd EXCEPT !.pc = "flush", !.then = l]
<1>1. rd.runs \in Nat /\ rd.i \in Nat /\ rd.end \in Nat
  BY DEF Reader
<1>2. CASE rd.runs > 0
  <2>1. FlushThen(rd, l) = to
    BY <1>2 DEF FlushThen
  <2>2. /\ to \in Reader /\ to.pc = "flush" /\ to.then = l /\ to.i = rd.i /\ to.end = rd.end
        /\ to.runs = rd.runs /\ to.chunk = rd.chunk
    BY DEF Reader, Labels
  <2>. HIDE DEF to
  <2>3. (HasRead(to) <=> l = "claim") /\ NextRun(to) = n
    BY <2>2 DEF HasRead, NextRun
  <2>4. BatchFits(to, n, done, chunks, cur)
    BY <2>2 DEF BatchFits
  <2>5. BatchOK(to, done, chunks, cur)
    BY <1>2, <2>2, <2>3, <2>4 DEF BatchOK
  <2>6. Held(to) = n - rd.runs .. n - 1 /\ Batch(to) = n - rd.runs .. rd.end - 1
    BY <2>2, <2>3 DEF Held, Batch
  <2>. QED  BY <2>1, <2>2, <2>5, <2>6
<1>3. CASE rd.runs = 0 /\ l = "ended"
  <2>1. FlushThen(rd, l) = Ended
    BY <1>3 DEF FlushThen
  <2>2. n - rd.runs .. n - 1 = {}
    BY <1>3
  <2>. QED  BY <2>1, <2>2, NoBatch
<1>4. CASE rd.runs = 0 /\ l # "ended"
  <2>1. FlushThen(rd, l) = At(rd, l) /\ At(rd, l) \in Reader
    BY <1>4 DEF FlushThen, At, Reader, Labels
  <2>2. /\ BatchOK(At(rd, l), done, chunks, cur)
        /\ Held(At(rd, l)) = n - rd.runs .. n - 1
        /\ Batch(At(rd, l)) \subseteq n - rd.runs .. rd.end - 1
    <3>1. l \in {"claim", "check", "check_built", "wait", "take", "read"} /\ ~(rd.runs > 0) /\ cur \in Nat
      BY <1>4
    <3>. QED  BY <1>4, <3>1, AtBatch
  <2>. QED  BY <2>1, <2>2
<1>. QED  BY <1>1, <1>2, <1>3, <1>4

\* What BatchOK says of the run a reader is to read next.
LEMMA NextOfBatch ==
    ASSUME NEW rd \in Reader, NEW done, NEW chunks, NEW cur \in Nat, BatchOK(rd, done, chunks, cur)
    PROVE  /\ NextRun(rd) \in Nat /\ rd.i \in Nat /\ rd.end \in Nat /\ rd.runs \in Nat
           /\ BatchFits(rd, NextRun(rd), done, chunks, cur)
           /\ Held(rd) = NextRun(rd) - rd.runs .. NextRun(rd) - 1
           /\ Batch(rd) = NextRun(rd) - rd.runs .. rd.end - 1
           /\ Held(rd) \subseteq Batch(rd) /\ Held(rd) \subseteq done
           /\ \A i \in Held(rd) : chunks[i] = rd.chunk
           /\ \A i \in Batch(rd) : i \in Int /\ i < cur
<1>1. rd.i \in Nat /\ rd.end \in Nat /\ rd.runs \in Nat
  BY DEF Reader
<1>2. NextRun(rd) \in Nat
  BY <1>1 DEF NextRun
<1>3. BatchFits(rd, NextRun(rd), done, chunks, cur)
  BY DEF BatchOK
<1>. QED  BY <1>1, <1>2, <1>3 DEF Held, Batch, BatchFits

-----------------------------------------------------------------------------
(* Readers and their batches *)

\* A reader that becomes rd, of its batch or of a new one, leaves those of the others.
LEMMA BatchesMove ==
    ASSUME WindowInv, CallInv, NEW r \in Readers, NEW rd \in Reader, Becomes(r, rd),
           run_chunk' = run_chunk, cursor' \in Nat, cursor <= cursor',
           read \subseteq read', \A i \in read' \ read : i \in Batch(reader[r]),
           BatchOK(rd, read', run_chunk, cursor'),
           \A i \in Batch(rd) : i \in Batch(reader[r]) \/ i >= cursor
    PROVE  /\ \A q \in Readers : reader'[q] = IF q = r THEN rd ELSE reader[q]
           /\ \A q \in Readers : BatchOK(reader'[q], read', run_chunk', cursor')
           /\ BatchesApart'
<1>1. cursor \in Nat \ {0} /\ reader \in [Readers -> Reader]
  BY DEF WindowInv
<1>2. \A q \in Readers : reader'[q] = IF q = r THEN rd ELSE reader[q]
  BY <1>1 DEF Becomes
<1>3. ASSUME NEW q \in Readers, q # r
      PROVE  BatchOK(reader[q], read', run_chunk, cursor')
  <2>. DEFINE o == reader[q]
              n == NextRun(o)
  <2>1. o \in Reader /\ BatchOK(o, read, run_chunk, cursor) /\ cursor \in Nat
    BY <1>1 DEF CallInv
  <2>2. /\ n \in Nat /\ o.end \in Nat /\ o.runs \in Nat /\ Batch(o) = n - o.runs .. o.end - 1
        /\ BatchFits(o, n, read, run_chunk, cursor)
    BY <2>1, NextOfBatch
  <2>3. \A i \in Batch(o) : i \notin Batch(reader[r])
    BY <1>3 DEF CallInv, BatchesApart
  <2>. HIDE DEF o, n
  <2>4. \A i \in n .. o.end - 1 : i \in Batch(o)
    BY <2>2
  <2>5. BatchFits(o, n, read', run_chunk, cursor')
    BY <1>1, <2>2, <2>3, <2>4 DEF BatchFits
  <2>6. BatchOK(o, read', run_chunk, cursor')
    BY <2>1, <2>5 DEF BatchOK, n
  <2>. QED  BY <2>6 DEF o
<1>4. ASSUME NEW q \in Readers, q # r
      PROVE  Batch(rd) \cap Batch(reader[q]) = {}
  <2>1. \A i \in Batch(reader[q]) : i < cursor /\ i \in Int
    BY <1>1, NextOfBatch DEF CallInv
  <2>2. Batch(reader[r]) \cap Batch(reader[q]) = {}
    BY <1>4 DEF CallInv, BatchesApart
  <2>. QED  BY <1>1, <2>1, <2>2
<1>5. BatchesApart'
  <2>1. ASSUME NEW a \in Readers, NEW b \in Readers, a # b
        PROVE  Batch(reader'[a]) \cap Batch(reader'[b]) = {}
    <3>1. CASE a = r       BY <1>2, <1>4, <2>1, <3>1
    <3>2. CASE b = r       BY <1>2, <1>4, <2>1, <3>2
    <3>3. CASE a # r /\ b # r
      BY <1>2, <2>1, <3>3 DEF CallInv, BatchesApart
    <3>. QED  BY <3>1, <3>2, <3>3
  <2>. QED  BY <2>1 DEF BatchesApart
<1>6. \A q \in Readers : BatchOK(reader'[q], read', run_chunk', cursor')
  BY <1>2, <1>3
<1>. QED  BY <1>2, <1>5, <1>6

\* What the count speaks of besides the readers and the cursor.
countvars == <<pc, running, call, consumed, ubatch, run_chunk, chunk, coord>>

\* Numbers of runs.
LEMMA RunNumbers ==
    ASSUME WindowInv, CallInv
    PROVE  /\ n_built = Len(run_chunk) /\ n_built \in Nat /\ read \subseteq 1..n_built
           /\ cursor \in Nat \ {0} /\ chunk \in Nat \ {0} /\ MaxRuns \in Nat /\ Pending \in Nat
           /\ \A r \in Readers : reader[r] \in Reader
BY PublishedRuns, PrefetchAssumption DEF WindowInv, CallInv, n_built, Pending

\* A reader that counts off nothing.
LEMMA ReaderCounts ==
    ASSUME WindowInv, CountInv, running, NEW r \in Readers, NEW rd \in Reader, Becomes(r, rd),
           UNCHANGED countvars, remaining' = remaining, cursor' \in Nat, cursor <= cursor',
           read \subseteq read', \A i \in read' \ read : i \in Batch(reader[r]),
           \A i \in read' : i < cursor',
           BatchOK(rd, read', run_chunk, cursor'),
           \A i \in Batch(rd) : i \in Batch(reader[r]) \/ i >= cursor,
           \A i \in 1..n_built :
               (i \notin read' \/ i \in Held(rd)) <=> (i \notin read \/ i \in Held(reader[r]))
    PROVE  CountInv'
<1>1. CallInv
  BY DEF CountInv
<1>2. /\ \A q \in Readers : reader'[q] = IF q = r THEN rd ELSE reader[q]
      /\ \A q \in Readers : BatchOK(reader'[q], read', run_chunk', cursor')
      /\ BatchesApart'
  BY <1>1, BatchesMove DEF countvars
<1>3. \A q \in Readers : Held(reader[q]) \subseteq Batch(reader[q])
  BY <1>1, RunNumbers, NextOfBatch DEF CallInv
<1>4. ASSUME NEW c
      PROVE  LeftOf(c, run_chunk', read', reader') = LeftOf(c, run_chunk, read, reader)
  <2>1. ASSUME NEW i \in 1..Len(run_chunk)
        PROVE  (i \notin read' \/ \E q \in Readers : i \in Held(reader'[q]))
               <=> (i \notin read \/ \E q \in Readers : i \in Held(reader[q]))
    <3>1. (i \notin read' \/ i \in Held(rd)) <=> (i \notin read \/ i \in Held(reader[r]))
      BY DEF n_built
    <3>2. \A q \in Readers \ {r} : reader'[q] = reader[q]
      BY <1>2
    <3>3. reader'[r] = rd
      BY <1>2
    <3>. QED  BY <3>1, <3>2, <3>3
  <2>2. run_chunk' = run_chunk
    BY DEF countvars
  <2>. QED  BY <2>1, <2>2 DEF LeftOf
<1>5. CallInv'
  <2>1. n_chunks' = n_chunks /\ n_built' = n_built
    BY DEF countvars, n_chunks, n_built
  <2>2. remaining' = [c \in 1..n_chunks |->
                        IF c < chunk THEN Cardinality(LeftOf(c, run_chunk', read', reader')) ELSE Pending]
    BY <1>1, <1>4 DEF CallInv
  <2>. QED  BY <1>1, <1>2, <2>1, <2>2 DEF CallInv, countvars
<1>6. UbatchChunks' = UbatchChunks
  BY DEF countvars, UbatchChunks, ChunksOf
<1>. QED  BY <1>5, <1>6 DEF CountInv, countvars

\* A reader claims a run of its batch, or a new batch once it has nothing to count off.
LEMMA ClaimCounts ==
    ASSUME ThreadInv, WindowInv, CountInv, running, NEW r \in Readers, Claim(r) PROVE CountInv'
<1>. DEFINE rd   == reader[r]
            more == rd.i + 1 < rd.end
            i    == IF more THEN rd.i + 1 ELSE cursor
            end  == IF more THEN rd.end ELSE cursor + BatchRuns
            ends == IF i < rd.ready THEN rd.ready ELSE 0
            to   == [rd EXCEPT !.i = i, !.end = end, !.then = "none", !.ready = ends]
            l    == IF i < rd.ready THEN "take" ELSE "check"
<1>1. CallInv
  BY DEF CountInv
<1>2. rd \in Reader /\ BatchOK(rd, read, run_chunk, cursor) /\ cursor \in Nat \ {0} /\ rd.pc = "claim"
  BY <1>1, RunNumbers DEF CallInv, Claim
<1>3. /\ rd.i \in Nat /\ rd.end \in Nat /\ rd.runs \in Nat /\ rd.ready \in Nat /\ NextRun(rd) = rd.i + 1
      /\ BatchFits(rd, rd.i + 1, read, run_chunk, cursor)
      /\ Held(rd) = rd.i + 1 - rd.runs .. rd.i /\ Batch(rd) = rd.i + 1 - rd.runs .. rd.end - 1
      /\ (rd.runs > 0 => more)
  <2>1. NextRun(rd) = rd.i + 1
    BY <1>2 DEF NextRun, HasRead
  <2>2. rd.i \in Nat
    BY <1>2 DEF Reader
  <2>3. NextRun(rd) - 1 = rd.i
    BY <2>1, <2>2
  <2>4. rd.end \in Nat /\ rd.runs \in Nat /\ rd.ready \in Nat /\ (rd.runs > 0 => more)
    BY <1>2 DEF BatchOK, Reader
  <2>5. /\ BatchFits(rd, NextRun(rd), read, run_chunk, cursor)
        /\ Held(rd) = NextRun(rd) - rd.runs .. NextRun(rd) - 1
        /\ Batch(rd) = NextRun(rd) - rd.runs .. rd.end - 1
    BY <1>2, NextOfBatch
  <2>. HIDE DEF rd
  <2>. QED  BY <2>1, <2>2, <2>3, <2>4, <2>5
<1>4. BatchRuns \in Nat \ {0}
  BY PrefetchAssumption
<1>5. /\ cursor' = (IF more THEN cursor ELSE cursor + BatchRuns) /\ Becomes(r, At(to, l))
      /\ UNCHANGED countvars /\ read' = read /\ remaining' = remaining
  BY DEF Claim, countvars, mainvars
<1>6. i \in Nat /\ end \in Nat /\ ends \in Nat /\ i < end /\ cursor' \in Nat /\ cursor <= cursor'
  BY <1>2, <1>3, <1>4, <1>5
<1>7. /\ to \in Reader /\ to.pc = "claim" /\ to.i = i /\ to.end = end /\ to.runs = rd.runs
      /\ to.chunk = rd.chunk
  <2>. HIDE DEF i, end, ends
  <2>. QED  BY <1>2, <1>6 DEF Reader, Labels
<1>8. /\ BatchFits(to, i, read, run_chunk, cursor')
      /\ i - rd.runs .. i - 1 = Held(rd)
      /\ \A j \in i - rd.runs .. end - 1 : j \in Batch(rd) \/ j >= cursor
  <2>. HIDE DEF to
  <2>1. CASE more
    <3>1. i = rd.i + 1 /\ end = rd.end /\ cursor' = cursor
      BY <1>5, <2>1
    <3>2. BatchFits(to, i, read, run_chunk, cursor')
      BY <1>3, <1>7, <3>1 DEF BatchFits
    <3>3. i - 1 = rd.i /\ i - rd.runs = rd.i + 1 - rd.runs
      BY <1>3, <3>1
    <3>. HIDE DEF i, end, rd
    <3>. QED  BY <1>3, <3>1, <3>2, <3>3
  <2>2. CASE ~more
    <3>1. rd.runs = 0 /\ i = cursor /\ end = cursor + BatchRuns /\ cursor' = cursor + BatchRuns
      BY <1>3, <1>5, <2>2
    <3>2. i - rd.runs .. i - 1 = {} /\ Held(rd) = {}
      BY <1>2, <1>3, <3>1
    <3>3. \A j \in i - rd.runs .. end - 1 : j >= cursor
      BY <1>2, <1>4, <3>1
    <3>4. BatchFits(to, i, read, run_chunk, cursor')
      BY <1>1, <1>2, <1>4, <1>7, <3>1 DEF BatchFits, CallInv
    <3>. QED  BY <3>2, <3>3, <3>4
  <2>. QED  BY <2>1, <2>2
<1>9. l \in {"claim", "check", "check_built", "wait", "take", "read"} /\ l \notin {"claim", "read", "wait"}
  OBVIOUS
<1>. DEFINE new == At(to, l)
<1>10. new \in Reader
  <2>1. l \in Labels
    BY DEF Labels
  <2>. HIDE DEF to, l
  <2>. QED  BY <1>7, <2>1 DEF At, Reader
<1>11. /\ BatchOK(new, read, run_chunk, cursor') /\ Held(new) = Held(rd)
       /\ \A j \in Batch(new) : j \in Batch(rd) \/ j >= cursor
  <2>. HIDE DEF to, l, i, end
  <2>1. /\ BatchOK(new, read, run_chunk, cursor')
        /\ Held(new) = i - to.runs .. i - 1
        /\ Batch(new) \subseteq i - to.runs .. to.end - 1
    BY <1>6, <1>7, <1>8, <1>9, AtBatch
  <2>. QED  BY <1>7, <1>8, <2>1
<1>12. \A j \in read' : j < cursor'
  BY <1>1, <1>2, <1>5, <1>6, RunNumbers DEF CallInv
<1>. HIDE DEF to, l, i, end
<1>. HIDE DEF new
<1>13. Becomes(r, new)
  BY <1>5 DEF new
<1>. QED  BY <1>5, <1>6, <1>10, <1>11, <1>12, <1>13, ReaderCounts

\* A reader that neither reads nor claims nor counts off anything.
LEMMA ReaderGoesOn ==
    ASSUME WindowInv, CountInv, running, NEW r \in Readers, NEW rd \in Reader, Becomes(r, rd),
           UNCHANGED countvars, UNCHANGED <<remaining, cursor, read>>,
           BatchOK(rd, read, run_chunk, cursor),
           Held(rd) = Held(reader[r]), Batch(rd) \subseteq Batch(reader[r])
    PROVE  CountInv'
<1>1. CallInv /\ cursor \in Nat
  BY RunNumbers DEF CountInv
<1>2. cursor <= cursor' /\ cursor' \in Nat /\ \A i \in read' : i < cursor'
  BY <1>1 DEF CallInv
<1>. QED  BY <1>1, <1>2, ReaderCounts

\* What is known of a reader that has a run to read.
LEMMA ReaderHasRun ==
    ASSUME WindowInv, CountInv, running, NEW r \in Readers,
           reader[r].pc \notin {"none", "claim", "ended", "flush", "notify"}
    PROVE  LET rd == reader[r]
           IN  /\ rd \in Reader /\ rd.i \in Nat /\ rd.i < rd.end /\ cursor \in Nat \ {0}
               /\ BatchOK(rd, read, run_chunk, cursor)
               /\ BatchFits(rd, rd.i, read, run_chunk, cursor)
               /\ Held(rd) = rd.i - rd.runs .. rd.i - 1
               /\ Batch(rd) = rd.i - rd.runs .. rd.end - 1
<1>. DEFINE rd == reader[r]
<1>1. CallInv
  BY DEF CountInv
<1>2. rd \in Reader /\ BatchOK(rd, read, run_chunk, cursor) /\ cursor \in Nat \ {0}
  BY <1>1, RunNumbers DEF CallInv
<1>3. ~HasRead(rd) /\ NextRun(rd) = rd.i /\ rd.i < rd.end
  BY <1>2 DEF HasRead, NextRun, BatchOK
<1>4. /\ BatchFits(rd, NextRun(rd), read, run_chunk, cursor) /\ rd.i \in Nat
      /\ Held(rd) = NextRun(rd) - rd.runs .. NextRun(rd) - 1
      /\ Batch(rd) = NextRun(rd) - rd.runs .. rd.end - 1
  BY <1>2, NextOfBatch
<1>. QED  BY <1>2, <1>3, <1>4

\* A reader looks whether its run is ready, and counts off before it waits.
LEMMA CheckCounts ==
    ASSUME WindowInv, CountInv, running, NEW r \in Readers, CheckRun(r) \/ CheckBuilt(r) \/ WaitForRun(r)
    PROVE  CountInv'
<1>. DEFINE rd == reader[r]
<1>1. /\ rd \in Reader /\ rd.i \in Nat /\ rd.i < rd.end /\ cursor \in Nat \ {0}
      /\ BatchFits(rd, rd.i, read, run_chunk, cursor) /\ BatchOK(rd, read, run_chunk, cursor)
      /\ Held(rd) = rd.i - rd.runs .. rd.i - 1 /\ Batch(rd) = rd.i - rd.runs .. rd.end - 1
  BY ReaderHasRun DEF CheckRun, CheckBuilt, WaitForRun
<1>2. \A l \in {"take", "check_built"} :
          /\ At(rd, l) \in Reader /\ BatchOK(At(rd, l), read, run_chunk, cursor)
          /\ Held(At(rd, l)) = Held(rd) /\ Batch(At(rd, l)) \subseteq Batch(rd)
  <2>1. ASSUME NEW l \in {"take", "check_built"}
        PROVE  At(rd, l) \in Reader /\ l \notin {"claim", "read", "wait"}
               /\ l \in {"claim", "check", "check_built", "wait", "take", "read"}
    BY <1>1 DEF At, Reader, Labels
  <2>. HIDE DEF rd
  <2>. QED  BY <1>1, <2>1, AtBatch
<1>3. /\ FlushThen(rd, "wait") \in Reader /\ BatchOK(FlushThen(rd, "wait"), read, run_chunk, cursor)
      /\ Held(FlushThen(rd, "wait")) = Held(rd) /\ Batch(FlushThen(rd, "wait")) \subseteq Batch(rd)
  <2>. HIDE DEF rd
  <2>. QED  BY <1>1, FlushThenBatch
<1>4. UNCHANGED countvars /\ UNCHANGED <<remaining, cursor, read>>
  BY DEF CheckRun, CheckBuilt, WaitForRun, countvars, mainvars, runvars
<1>5. CASE CheckRun(r)
  <2>1. Becomes(r, At(rd, "take")) \/ Becomes(r, At(rd, "check_built")) \/ Becomes(r, FlushThen(rd, "wait"))
    BY <1>5 DEF CheckRun
  <2>. QED  BY <1>2, <1>3, <1>4, <2>1, ReaderGoesOn
<1>6. CASE CheckBuilt(r)
  <2>1. Becomes(r, At(rd, "take")) \/ Becomes(r, FlushThen(rd, "wait"))
    BY <1>6 DEF CheckBuilt
  <2>. QED  BY <1>2, <1>3, <1>4, <2>1, ReaderGoesOn
<1>7. CASE WaitForRun(r)
  <2>1. reader = [reader EXCEPT ![r] = rd]
    BY DEF WindowInv
  <2>2. Becomes(r, At(rd, "take")) \/ Becomes(r, rd)
    BY <1>7, <2>1 DEF WaitForRun, Becomes
  <2>. QED  BY <1>1, <1>2, <1>4, <2>2, ReaderGoesOn
<1>. QED  BY <1>5, <1>6, <1>7

\* A reader takes up its run, and counts off before one of another chunk.
LEMMA TakeCounts ==
    ASSUME WindowInv, CountInv, running, NEW r \in Readers, Take(r) PROVE CountInv'
<1>. DEFINE rd   == reader[r]
            more == rd.i < rd.ready \/ rd.i <= n_built
            to   == [rd EXCEPT !.ready = ReadyEnd(rd)]
<1>1. /\ rd \in Reader /\ rd.i \in Nat /\ rd.i < rd.end /\ cursor \in Nat \ {0}
      /\ BatchFits(rd, rd.i, read, run_chunk, cursor) /\ BatchOK(rd, read, run_chunk, cursor)
      /\ Held(rd) = rd.i - rd.runs .. rd.i - 1 /\ Batch(rd) = rd.i - rd.runs .. rd.end - 1
  BY ReaderHasRun DEF Take
<1>2. UNCHANGED countvars /\ UNCHANGED <<remaining, cursor, read>>
  BY DEF Take, countvars, mainvars, runvars
<1>3. CASE stopping \/ ~more
  <2>1. Becomes(r, FlushThen(rd, "ended"))
    BY <1>3 DEF Take
  <2>2. /\ FlushThen(rd, "ended") \in Reader /\ BatchOK(FlushThen(rd, "ended"), read, run_chunk, cursor)
        /\ Held(FlushThen(rd, "ended")) = Held(rd) /\ Batch(FlushThen(rd, "ended")) \subseteq Batch(rd)
    <3>. HIDE DEF rd
    <3>. QED  BY <1>1, FlushThenBatch
  <2>. QED  BY <1>2, <2>1, <2>2, ReaderGoesOn
<1>4. CASE ~stopping /\ more
  <2>1. rd.i <= n_built /\ rd.ready <= n_built + 1 /\ n_built \in Nat /\ rd.ready \in Nat
    BY <1>1, <1>4, PublishedRuns DEF WindowInv, ReaderOK, Reader
  <2>2. ReadyEnd(rd) \in Nat
    BY <1>1, <2>1, ReadyEndPublished
  <2>3. to \in Reader /\ to.i = rd.i /\ to.end = rd.end /\ to.runs = rd.runs /\ to.chunk = rd.chunk
    BY <1>1, <2>2 DEF Reader
  <2>. DEFINE new == IF rd.chunk # run_chunk[rd.i] THEN FlushThen(to, "read") ELSE At(to, "read")
  <2>4. Becomes(r, new)
    BY <1>4 DEF Take
  <2>5. /\ new \in Reader /\ BatchOK(new, read, run_chunk, cursor)
        /\ Held(new) = Held(rd) /\ Batch(new) \subseteq Batch(rd)
    <3>1. BatchFits(to, to.i, read, run_chunk, cursor)
      BY <1>1, <2>3 DEF BatchFits
    <3>2. At(to, "read") \in Reader
      BY <2>3 DEF At, Reader, Labels
    <3>. HIDE DEF to, rd
    <3>3. CASE rd.chunk # run_chunk[rd.i]
      BY <1>1, <2>3, <3>1, <3>3, FlushThenBatch
    <3>4. CASE rd.chunk = run_chunk[rd.i]
      BY <1>1, <2>3, <3>1, <3>2, <3>4, AtBatch
    <3>. QED  BY <3>3, <3>4
  <2>. HIDE DEF new
  <2>. QED  BY <1>2, <2>4, <2>5, ReaderGoesOn
<1>. QED  BY <1>3, <1>4

\* A reader reads its run, which it holds from now on.
LEMMA ReadCounts ==
    ASSUME WindowInv, CountInv, running, NEW r \in Readers, ReadRun(r) PROVE CountInv'
<1>. DEFINE rd  == reader[r]
            c   == run_chunk[rd.i]
            n   == rd.runs + 1
            to  == [rd EXCEPT !.chunk = c, !.runs = n]
            new == IF rd.i + 1 = rd.end THEN FlushThen(to, "claim") ELSE At(to, "claim")
<1>1. /\ rd \in Reader /\ rd.i \in Nat /\ rd.i < rd.end /\ cursor \in Nat \ {0}
      /\ BatchFits(rd, rd.i, read, run_chunk, cursor) /\ BatchOK(rd, read, run_chunk, cursor)
      /\ Held(rd) = rd.i - rd.runs .. rd.i - 1 /\ Batch(rd) = rd.i - rd.runs .. rd.end - 1
  BY ReaderHasRun DEF ReadRun
<1>2. /\ UNCHANGED countvars /\ UNCHANGED <<remaining, cursor>> /\ read' = read \cup {rd.i}
      /\ Becomes(r, new)
  BY DEF ReadRun, countvars, mainvars, runvars
<1>3. rd.i >= 1 /\ rd.i <= n_built /\ n_built \in Nat
  BY PublishedRuns DEF WindowInv, ReaderOK, ReadRun
<1>4. c \in Int
  BY <1>1, <1>3 DEF WindowInv, n_built
<1>5. rd.runs \in Nat /\ rd.end \in Nat /\ n \in Nat
  BY <1>1 DEF Reader
<1>6. /\ to \in Reader /\ to.i = rd.i /\ to.end = rd.end /\ to.runs = rd.runs + 1 /\ to.chunk = c
      /\ At(to, "claim") \in Reader
  <2>. HIDE DEF c
  <2>. QED  BY <1>1, <1>4, <1>5 DEF At, Reader, Labels
<1>7. rd.runs > 0 => c = rd.chunk
  BY <1>1 DEF BatchOK, ReadRun
<1>. HIDE DEF to, c, rd, n
<1>. DEFINE m == rd.i + 1
<1>8. BatchFits(to, m, read', run_chunk, cursor) /\ m \in Nat
  <2>1. \A i \in m - to.runs .. m - 1 : i = rd.i \/ (i \in rd.i - rd.runs .. rd.i - 1 /\ rd.runs > 0)
    BY <1>1, <1>5, <1>6
  <2>2. \A i \in m - to.runs .. m - 1 : i \in read' /\ run_chunk[i] = to.chunk
    BY <1>1, <1>2, <1>6, <1>7, <2>1 DEF BatchFits, c
  <2>3. \A i \in m .. to.end - 1 : i \notin read'
    BY <1>1, <1>2, <1>5, <1>6 DEF BatchFits
  <2>. QED  BY <1>1, <1>5, <1>6, <2>2, <2>3 DEF BatchFits
<1>9. /\ new \in Reader /\ BatchOK(new, read', run_chunk, cursor)
      /\ Held(new) = m - to.runs .. m - 1
      /\ Batch(new) \subseteq m - to.runs .. to.end - 1
  <2>1. m = to.i + 1 /\ cursor \in Nat
    BY <1>1, <1>6
  <2>2. CASE rd.i + 1 = rd.end
    <3>1. new = FlushThen(to, "claim")
      BY <2>2
    <3>. HIDE DEF new, m
    <3>. QED  BY <1>1, <1>6, <1>8, <2>1, <3>1, FlushThenBatch
  <2>3. CASE rd.i + 1 # rd.end
    <3>1. new = At(to, "claim")
      BY <2>3
    <3>2. to.i + 1 < to.end
      BY <1>1, <1>5, <1>6, <2>3
    <3>. HIDE DEF new, m
    <3>. QED  BY <1>6, <1>8, <2>1, <3>1, <3>2, AtBatch
  <2>. QED  BY <2>2, <2>3
<1>10. /\ Held(new) = Held(rd) \cup {rd.i} /\ Batch(new) \subseteq Batch(rd)
       /\ rd.i \in Batch(rd) /\ rd.i \notin read /\ rd.i < cursor
  <2>1. m - to.runs = rd.i - rd.runs /\ m - 1 = rd.i
    BY <1>1, <1>5, <1>6
  <2>2. rd.i \in rd.i .. rd.end - 1 /\ rd.end <= cursor
    BY <1>1, <1>5 DEF BatchFits
  <2>3. rd.i \notin read
    BY <1>1, <2>2 DEF BatchFits
  <2>4. rd.i - rd.runs .. rd.i = rd.i - rd.runs .. rd.i - 1 \cup {rd.i}
    BY <1>1, <1>5
  <2>5. rd.i \in rd.i - rd.runs .. rd.end - 1
    BY <1>1, <1>5, <2>2
  <2>. HIDE DEF new, m
  <2>. QED  BY <1>1, <1>5, <1>6, <1>9, <2>1, <2>2, <2>3, <2>4, <2>5
<1>. HIDE DEF new
<1>11. /\ cursor' \in Nat /\ cursor <= cursor' /\ read \subseteq read'
       /\ \A i \in read' \ read : i \in Batch(rd)
       /\ \A i \in read' : i < cursor'
  BY <1>1, <1>2, <1>10 DEF CountInv, CallInv
<1>12. \A i \in 1..n_built : (i \notin read' \/ i \in Held(new)) <=> (i \notin read \/ i \in Held(rd))
  BY <1>2, <1>10
<1>13. BatchOK(new, read', run_chunk, cursor') /\ \A i \in Batch(new) : i \in Batch(rd) \/ i >= cursor
  BY <1>2, <1>9, <1>10
<1>. QED  BY <1>2, <1>9, <1>11, <1>12, <1>13, ReaderCounts DEF rd

\* Division rounds down, and is monotone.
LEMMA Division ==
    ASSUME NEW a \in Nat, NEW b \in Nat, NEW d \in Nat \ {0}, a <= b
    PROVE  /\ a \div d \in Nat /\ a \div d <= b \div d
           /\ (a + d) \div d = a \div d + 1
<1>. DEFINE p == a \div d
            q == b \div d
            s == (a + d) \div d
<1>1. /\ p \in Nat /\ d * p <= a /\ a < d * p + d
      /\ q \in Nat /\ d * q <= b /\ b < d * q + d
  OBVIOUS
<1>2. s \in Nat /\ d * s <= a + d /\ a + d < d * s + d
  OBVIOUS
<1>. HIDE DEF p, q, s
<1>3. ASSUME NEW x \in Nat, NEW y \in Nat, x < y
      PROVE  d * x + d <= d * y
  <2>1. PICK k \in Nat : y = x + 1 + k
    <3>1. y - x - 1 \in Nat /\ y = x + 1 + (y - x - 1)
      BY <1>3
    <3>. QED  BY <3>1
  <2>2. d * y = d * x + d + d * k /\ d * k >= 0
    BY <2>1
  <2>. QED  BY <2>2
<1>4. p <= q
  BY <1>1, <1>3
<1>5. s = p + 1
  <2>1. d * (p + 1) = d * p + d /\ d * (p + 2) = d * p + d + d
    BY <1>1
  <2>2. ~(s < p + 1)
    BY <1>1, <1>2, <1>3, <2>1
  <2>3. ~(p + 1 < s)
    BY <1>1, <1>2, <1>3, <2>1
  <2>. QED  BY <1>1, <1>2, <2>2, <2>3
<1>. QED  BY <1>1, <1>4, <1>5 DEF p, q, s

\* Every token of a call is in one of its chunks.
LEMMA UbatchOfCall ==
    ASSUME call \in Prompts \cup {NoCall}, consumed \in Nat, ubatch \in Nat \ {0},
           ubatch <= consumed, consumed <= Len(call.toks)
    PROVE  UbatchChunks \subseteq 1..n_chunks
<1>. DEFINE d == ChunkSize
            m == Len(call.toks)
<1>1. d \in Nat \ {0} /\ m \in Nat /\ m > 0
  BY PrefetchAssumption, CallTokens
<1>. HIDE DEF d, m
<1>2. (consumed - ubatch) \div d \in Nat
  <2>1. consumed - ubatch \in Nat /\ consumed - ubatch <= consumed - ubatch
    OBVIOUS
  <2>. QED  BY <1>1, <2>1, Division, Zenon
<1>3. (consumed - 1) \div d <= (m - 1) \div d /\ (m - 1) \div d \in Nat /\ (consumed - 1) \div d \in Nat
  <2>1. /\ consumed - 1 \in Nat /\ m - 1 \in Nat
        /\ consumed - 1 <= m - 1 /\ m - 1 <= m - 1
    BY <1>1 DEF m
  <2>. QED  BY <1>1, <2>1, Division, Zenon
<1>4. n_chunks = (m - 1) \div d + 1
  <2>1. m - 1 \in Nat /\ m - 1 <= m - 1 /\ m + d - 1 = m - 1 + d
    BY <1>1
  <2>2. n_chunks = (m + d - 1) \div d
    BY DEF n_chunks, Ceil, m, d
  <2>3. (m - 1 + d) \div d = (m - 1) \div d + 1
    BY <1>1, <2>1, Division, Zenon
  <2>. QED  BY <2>1, <2>2, <2>3
<1>5. UbatchChunks = (consumed - ubatch) \div d + 1 .. (consumed - 1) \div d + 1
  BY DEF UbatchChunks, ChunksOf, d
<1>. QED  BY <1>2, <1>3, <1>4, <1>5

\* What is less than d has no d in it.
LEMMA DivisionSmall ==
    ASSUME NEW d \in Nat \ {0}
    PROVE  (0 + d - 1) \div d = 0
<1>1. 0 + d - 1 \in Nat /\ 0 + d - 1 < d
  OBVIOUS
<1>. DEFINE a == 0 + d - 1
            q == a \div d
<1>. HIDE DEF a
<1>2. q \in Nat /\ d * q <= a /\ a < d
  BY <1>1 DEF a
<1>. HIDE DEF q
<1>3. ASSUME q >= 1 PROVE FALSE
  <2>1. PICK k \in Nat : q = k + 1
    <3>1. q - 1 \in Nat /\ q = (q - 1) + 1
      BY <1>2, <1>3
    <3>. QED  BY <3>1
  <2>2. d * q = d * k + d /\ d * k >= 0
    BY <2>1
  <2>. QED  BY <1>1, <1>2, <2>2 DEF a
<1>4. q = 0
  BY <1>2, <1>3
<1>. QED  BY <1>4 DEF q, a

\* A number of chunks is natural.
LEMMA CeilNat == \A n \in Nat, d \in Nat \ {0} : Ceil(n, d) \in Nat
<1>. SUFFICES ASSUME NEW n \in Nat, NEW d \in Nat \ {0} PROVE (n + d - 1) \div d \in Nat
  BY DEF Ceil
<1>1. n + d - 1 \in Nat /\ n + d - 1 <= n + d - 1
  OBVIOUS
<1>. QED  BY <1>1, Division, Zenon

\* A call that is stopped ends its readers, which count off what they have read.
LEMMA StopCounts ==
    ASSUME WindowInv, CountInv, running, NEW r \in Readers, ReadStopped(r) \/ ReadFails(r)
    PROVE  CountInv'
<1>. DEFINE rd == reader[r]
<1>1. /\ rd \in Reader /\ rd.i \in Nat /\ rd.i < rd.end /\ cursor \in Nat \ {0}
      /\ BatchFits(rd, rd.i, read, run_chunk, cursor)
      /\ Held(rd) = rd.i - rd.runs .. rd.i - 1 /\ Batch(rd) = rd.i - rd.runs .. rd.end - 1
  BY ReaderHasRun DEF ReadStopped, ReadFails
<1>2. UNCHANGED countvars /\ UNCHANGED <<remaining, cursor, read>> /\ Becomes(r, FlushThen(rd, "ended"))
  BY DEF ReadStopped, ReadFails, countvars, mainvars, runvars
<1>3. /\ FlushThen(rd, "ended") \in Reader /\ BatchOK(FlushThen(rd, "ended"), read, run_chunk, cursor)
      /\ Held(FlushThen(rd, "ended")) = Held(rd) /\ Batch(FlushThen(rd, "ended")) \subseteq Batch(rd)
  <2>. HIDE DEF rd
  <2>. QED  BY <1>1, FlushThenBatch
<1>. QED  BY <1>2, <1>3, ReaderGoesOn

\* What is known of a reader that counts off.
LEMMA ReaderFlushes ==
    ASSUME WindowInv, CountInv, running, NEW r \in Readers, reader[r].pc \in {"flush", "notify"}
    PROVE  LET rd == reader[r]
               n  == IF rd.then = "claim" THEN rd.i + 1 ELSE rd.i
           IN  /\ rd \in Reader /\ rd.i \in Nat /\ n \in Nat /\ cursor \in Nat \ {0}
               /\ rd.then \in {"claim", "wait", "read", "ended"}
               /\ rd.then # "claim" => rd.i < rd.end
               /\ BatchFits(rd, n, read, run_chunk, cursor)
               /\ Held(rd) = n - rd.runs .. n - 1
               /\ Batch(rd) = n - rd.runs .. rd.end - 1
               /\ Held(rd) \subseteq read /\ \A i \in Held(rd) : run_chunk[i] = rd.chunk
               /\ rd.pc = "flush" => rd.runs > 0
<1>. DEFINE rd == reader[r]
            n  == IF rd.then = "claim" THEN rd.i + 1 ELSE rd.i
<1>1. CallInv
  BY DEF CountInv
<1>2. rd \in Reader /\ BatchOK(rd, read, run_chunk, cursor) /\ cursor \in Nat \ {0}
  BY <1>1, RunNumbers DEF CallInv
<1>3. (HasRead(rd) <=> rd.then = "claim") /\ NextRun(rd) = n
  BY DEF HasRead, NextRun
<1>4. /\ BatchFits(rd, NextRun(rd), read, run_chunk, cursor) /\ rd.i \in Nat /\ NextRun(rd) \in Nat
      /\ Held(rd) = NextRun(rd) - rd.runs .. NextRun(rd) - 1
      /\ Batch(rd) = NextRun(rd) - rd.runs .. rd.end - 1
      /\ Held(rd) \subseteq read /\ \A i \in Held(rd) : run_chunk[i] = rd.chunk
  BY <1>2, NextOfBatch
<1>5. /\ rd.then \in {"claim", "wait", "read", "ended"} /\ (rd.then # "claim" => rd.i < rd.end)
      /\ (rd.pc = "flush" => rd.runs > 0)
  BY <1>2, <1>3 DEF BatchOK
<1>. HIDE DEF rd, n
<1>6. /\ rd \in Reader /\ rd.i \in Nat /\ n \in Nat /\ cursor \in Nat \ {0}
      /\ rd.then \in {"claim", "wait", "read", "ended"}
      /\ rd.then # "claim" => rd.i < rd.end
      /\ BatchFits(rd, n, read, run_chunk, cursor)
      /\ Held(rd) = n - rd.runs .. n - 1
      /\ Batch(rd) = n - rd.runs .. rd.end - 1
      /\ Held(rd) \subseteq read /\ \A i \in Held(rd) : run_chunk[i] = rd.chunk
      /\ rd.pc = "flush" => rd.runs > 0
  BY <1>2, <1>3, <1>4, <1>5
<1>. QED  BY <1>6 DEF rd, n

\* A reader has notified the main thread.
LEMMA NotifyCounts ==
    ASSUME WindowInv, CountInv, running, NEW r \in Readers, NotifyDone(r)
    PROVE  CountInv'
<1>. DEFINE rd == reader[r]
            n  == IF rd.then = "claim" THEN rd.i + 1 ELSE rd.i
<1>1. /\ rd \in Reader /\ rd.i \in Nat /\ n \in Nat /\ cursor \in Nat \ {0}
      /\ rd.then \in {"claim", "wait", "read", "ended"}
      /\ rd.then # "claim" => rd.i < rd.end
      /\ BatchFits(rd, n, read, run_chunk, cursor)
      /\ Held(rd) = n - rd.runs .. n - 1
      /\ Batch(rd) = n - rd.runs .. rd.end - 1
  BY ReaderFlushes DEF NotifyDone
<1>2. UNCHANGED countvars /\ UNCHANGED <<remaining, cursor, read>> /\ Becomes(r, FlushThen(rd, rd.then))
  BY DEF NotifyDone, countvars, mainvars, runvars
<1>. DEFINE new == FlushThen(rd, rd.then)
<1>3. /\ new \in Reader /\ BatchOK(new, read, run_chunk, cursor)
      /\ Held(new) = Held(rd) /\ Batch(new) \subseteq Batch(rd)
  <2>1. n = IF rd.then = "claim" THEN rd.i + 1 ELSE rd.i
    OBVIOUS
  <2>. HIDE DEF rd, n
  <2>. QED  BY <1>1, <2>1, FlushThenBatch
<1>. HIDE DEF new
<1>. QED  BY <1>2, <1>3, ReaderGoesOn DEF new

\* A reader counts its runs off: what is left of their chunk loses them, and them only.
LEMMA FlushCounts ==
    ASSUME WindowInv, DecodeInv, CountInv, running, NEW r \in Readers, FlushDone(r)
    PROVE  CountInv'
<1>. DEFINE rd   == reader[r]
            n    == IF rd.then = "claim" THEN rd.i + 1 ELSE rd.i
            left == remaining[rd.chunk] - rd.runs
            to   == [rd EXCEPT !.chunk = 0, !.runs = 0]
            new  == IF left = 0 THEN At(to, "notify") ELSE FlushThen(to, rd.then)
<1>1. /\ rd \in Reader /\ rd.i \in Nat /\ n \in Nat /\ cursor \in Nat \ {0}
      /\ rd.then \in {"claim", "wait", "read", "ended"}
      /\ rd.then # "claim" => rd.i < rd.end
      /\ BatchFits(rd, n, read, run_chunk, cursor)
      /\ Held(rd) = n - rd.runs .. n - 1
      /\ Batch(rd) = n - rd.runs .. rd.end - 1
      /\ Held(rd) \subseteq read /\ \A i \in Held(rd) : run_chunk[i] = rd.chunk
      /\ rd.runs > 0
  BY ReaderFlushes DEF FlushDone
<1>2. /\ UNCHANGED countvars /\ UNCHANGED <<cursor, read>> /\ Becomes(r, new)
      /\ remaining' = [remaining EXCEPT ![rd.chunk] = left]
  BY DEF FlushDone, countvars, mainvars, runvars
<1>3. CallInv
  BY DEF CountInv
<1>4. rd.runs \in Nat /\ rd.end \in Nat
  BY <1>1 DEF Reader
<1>5. /\ to \in Reader /\ to.i = rd.i /\ to.end = rd.end /\ to.runs = 0 /\ to.then = rd.then
  <2>1. rd \in Reader /\ 0 \in Int /\ 0 \in Nat
    BY <1>1
  <2>2. to \in Reader /\ to.i = rd.i /\ to.ready = rd.ready /\ to.then = rd.then
    BY <2>1, RunsCounted, Zenon
  <2>. HIDE DEF rd
  <2>3. to.end = rd.end /\ to.runs = 0
    BY <1>1 DEF Reader
  <2>. QED  BY <2>2, <2>3
<1>6. /\ At(to, "notify") \in Reader /\ At(to, "notify").pc = "notify" /\ At(to, "notify").then = rd.then
      /\ At(to, "notify").i = rd.i /\ At(to, "notify").end = rd.end /\ At(to, "notify").runs = 0
  <2>. HIDE DEF to, rd
  <2>. QED  BY <1>5 DEF At, Reader, Labels
<1>7. n = IF rd.then = "claim" THEN rd.i + 1 ELSE rd.i
  OBVIOUS
<1>. HIDE DEF to, rd, n, left
<1>8. /\ new \in Reader /\ BatchOK(new, read, run_chunk, cursor) /\ Held(new) = {}
      /\ Batch(new) \subseteq Batch(rd)
  <2>1. BatchFits(to, n, read, run_chunk, cursor)
    BY <1>1, <1>5 DEF BatchFits
  <2>2. n - to.runs .. n - 1 = {} /\ n - to.runs .. to.end - 1 \subseteq n - rd.runs .. rd.end - 1
    BY <1>1, <1>4, <1>5
  <2>3. CASE left # 0
    <3>1. /\ FlushThen(to, rd.then) \in Reader /\ BatchOK(FlushThen(to, rd.then), read, run_chunk, cursor)
          /\ Held(FlushThen(to, rd.then)) = n - to.runs .. n - 1
          /\ Batch(FlushThen(to, rd.then)) \subseteq n - to.runs .. to.end - 1
      BY <1>1, <1>5, <1>7, <2>1, FlushThenBatch
    <3>2. new = FlushThen(to, rd.then)
      BY <2>3
    <3>. HIDE DEF new
    <3>. QED  BY <1>1, <2>2, <3>1, <3>2
  <2>4. CASE left = 0
    <3>1. new = At(to, "notify")
      BY <2>4
    <3>. HIDE DEF new
    <3>2. (HasRead(new) <=> rd.then = "claim") /\ NextRun(new) = n
      BY <1>6, <1>7, <3>1 DEF HasRead, NextRun
    <3>3. BatchFits(new, n, read, run_chunk, cursor)
      BY <1>1, <1>6, <3>1 DEF BatchFits
    <3>4. BatchOK(new, read, run_chunk, cursor)
      BY <1>1, <1>6, <3>1, <3>2, <3>3 DEF BatchOK
    <3>5. Held(new) = n - 0 .. n - 1 /\ Batch(new) = n - 0 .. rd.end - 1
      BY <1>6, <3>1, <3>2 DEF Held, Batch
    <3>6. n - 0 .. n - 1 = {} /\ n - 0 .. rd.end - 1 \subseteq n - rd.runs .. rd.end - 1
      BY <1>1, <1>4
    <3>. QED  BY <1>1, <1>6, <3>1, <3>4, <3>5, <3>6
  <2>. QED  BY <2>3, <2>4
<1>. HIDE DEF new
<1>9. /\ \A q \in Readers : reader'[q] = IF q = r THEN new ELSE reader[q]
      /\ \A q \in Readers : BatchOK(reader'[q], read', run_chunk', cursor')
      /\ BatchesApart'
  <2>1. run_chunk' = run_chunk /\ cursor' \in Nat /\ cursor <= cursor' /\ read' = read
    BY <1>1, <1>2 DEF countvars
  <2>2. /\ read \subseteq read' /\ \A i \in read' \ read : i \in Batch(reader[r])
        /\ BatchOK(new, read', run_chunk, cursor')
        /\ \A i \in Batch(new) : i \in Batch(reader[r]) \/ i >= cursor
    BY <1>2, <1>8, <2>1 DEF rd
  <2>. QED  BY <1>2, <1>3, <1>8, <2>1, <2>2, BatchesMove
<1>10. \A q \in Readers \ {r} : Held(reader[q]) \cap Held(rd) = {}
  <2>1. \A q \in Readers : Held(reader[q]) \subseteq Batch(reader[q])
    BY <1>3, RunNumbers, NextOfBatch DEF CallInv
  <2>2. \A q \in Readers \ {r} : Batch(reader[q]) \cap Batch(rd) = {}
    BY <1>3 DEF CallInv, BatchesApart, rd
  <2>. QED  BY <2>1, <2>2 DEF rd
<1>11. ASSUME NEW c
       PROVE  LeftOf(c, run_chunk', read', reader') = LeftOf(c, run_chunk, read, reader) \ Held(rd)
  <2>1. ASSUME NEW i \in 1..Len(run_chunk)
        PROVE  (i \notin read' \/ \E q \in Readers : i \in Held(reader'[q]))
               <=> (i \notin read \/ \E q \in Readers : i \in Held(reader[q])) /\ i \notin Held(rd)
    <3>1. reader'[r] = new /\ \A q \in Readers \ {r} : reader'[q] = reader[q]
      BY <1>9
    <3>. QED  BY <1>1, <1>2, <1>8, <1>10, <3>1 DEF rd
  <2>2. run_chunk' = run_chunk
    BY <1>2 DEF countvars
  <2>. QED  BY <2>1, <2>2 DEF LeftOf
<1>12. PICK i \in Held(rd) : run_chunk[i] = rd.chunk /\ i \in 1..n_built
  <2>1. n - 1 \in Held(rd)
    BY <1>1, <1>4
  <2>. QED  BY <1>1, <1>3, <2>1, RunNumbers
<1>13. rd.chunk \in 1..n_chunks /\ rd.chunk < chunk
  BY <1>3, <1>12 DEF CallInv
<1>14. \A c : Held(rd) \cap LeftOf(c, run_chunk, read, reader) = IF c = rd.chunk THEN Held(rd) ELSE {}
  <2>1. Held(rd) \subseteq 1..Len(run_chunk)
    BY <1>1, <1>3, RunNumbers
  <2>. QED  BY <1>1, <2>1 DEF LeftOf, rd
<1>. DEFINE old(c) == LeftOf(c, run_chunk, read, reader)
<1>15. \A c : IsFiniteSet(old(c))
  <2>1. \A c : old(c) \subseteq 1..n_built
    BY DEF LeftOf, n_built
  <2>2. IsFiniteSet(1..n_built)
    BY <1>3, RunNumbers, FS_Interval
  <2>. HIDE DEF old
  <2>. QED  BY <2>1, <2>2, FS_Subset
<1>16. Cardinality(old(rd.chunk) \ Held(rd)) = Cardinality(old(rd.chunk)) - rd.runs
  <2>1. IsFiniteSet(Held(rd)) /\ Cardinality(Held(rd)) = rd.runs
    <3>. DEFINE a == n - rd.runs
                b == n - 1
    <3>1. a \in Int /\ b \in Int /\ a <= b /\ b - a + 1 = rd.runs
      BY <1>1, <1>4
    <3>. HIDE DEF a, b
    <3>2. IsFiniteSet(a .. b) /\ Cardinality(a .. b) = b - a + 1
      BY <3>1, FS_Interval
    <3>. QED  BY <1>1, <3>1, <3>2 DEF a, b
  <2>2. old(rd.chunk) \cap Held(rd) = Held(rd)
    BY <1>14
  <2>. HIDE DEF old
  <2>3. Cardinality(old(rd.chunk) \ Held(rd)) = Cardinality(old(rd.chunk)) - Cardinality(old(rd.chunk) \cap Held(rd))
    BY <1>15, FS_Difference
  <2>. QED  BY <2>1, <2>2, <2>3
<1>17. \A c : c # rd.chunk => old(c) \ Held(rd) = old(c)
  BY <1>14
<1>18. remaining' = [c \in 1..n_chunks |->
                        IF c < chunk THEN Cardinality(LeftOf(c, run_chunk', read', reader')) ELSE Pending]
  <2>1. remaining = [c \in 1..n_chunks |-> IF c < chunk THEN Cardinality(old(c)) ELSE Pending]
    BY <1>3 DEF CallInv
  <2>2. \A c : LeftOf(c, run_chunk', read', reader') = old(c) \ Held(rd)
    BY <1>11
  <2>. HIDE DEF old
  <2>3. left = Cardinality(old(rd.chunk) \ Held(rd))
    BY <1>13, <1>16, <2>1 DEF left
  <2>. QED  BY <1>2, <1>13, <1>17, <2>1, <2>2, <2>3
<1>19. CallInv'
  <2>1. n_chunks' = n_chunks /\ n_built' = n_built
    BY <1>2 DEF countvars, n_chunks, n_built
  <2>. QED  BY <1>2, <1>3, <1>9, <1>18, <2>1 DEF CallInv, countvars
<1>20. pc' = "covered" => \A c \in UbatchChunks' : ~(remaining'[c] > 0)
  <2>1. UbatchChunks' = UbatchChunks /\ pc' = pc
    BY <1>2 DEF countvars, UbatchChunks, ChunksOf
  <2>2. remaining[rd.chunk] = Cardinality(old(rd.chunk)) /\ Cardinality(old(rd.chunk)) \in Nat
    BY <1>3, <1>13, <1>15, FS_CardinalityType DEF CallInv
  <2>3. left \in Int /\ left < remaining[rd.chunk]
    BY <1>1, <1>4, <2>2 DEF left
  <2>4. \A c \in 1..n_chunks : remaining'[c] = IF c = rd.chunk THEN left ELSE remaining[c]
    BY <1>2, <1>3 DEF CallInv
  <2>5. pc = "covered" => UbatchChunks \subseteq 1..n_chunks
    BY UbatchOfCall DEF CountInv, DecodeInv, WindowInv
  <2>. QED  BY <2>1, <2>2, <2>3, <2>4, <2>5 DEF CountInv
<1>. QED  BY <1>2, <1>19, <1>20 DEF CountInv, countvars

-----------------------------------------------------------------------------
(* The other threads and the count *)

\* Steps that change nothing of a call, ...
LEMMA CallKeeps ==
    ASSUME CallInv, coord' = "hashed" => coord = "hashed",
           UNCHANGED <<call, run_chunk, chunk, remaining, cursor, read, reader>>
    PROVE  CallInv'
<1>1. n_chunks' = n_chunks /\ n_built' = n_built
  BY DEF n_chunks, n_built
<1>. QED  BY <1>1 DEF CallInv, BatchesApart

\* ... and keep or leave what is waited for.
LEMMA CountKeeps ==
    ASSUME CountInv, coord' = "hashed" => coord = "hashed",
           UNCHANGED <<running, call, run_chunk, chunk, remaining, cursor, read, reader>>,
           pc' \notin {"consume", "covered"} \/ UNCHANGED <<pc, consumed, ubatch>>
    PROVE  CountInv'
<1>1. UNCHANGED <<consumed, ubatch>> => UbatchChunks' = UbatchChunks
  BY DEF UbatchChunks, ChunksOf
<1>. QED  BY <1>1, CallKeeps DEF CountInv

\* Readers that start or end without a batch.
LEMMA ReadersSwap ==
    ASSUME WindowInv, CountInv, running,
           UNCHANGED <<pc, running, call, consumed, ubatch, run_chunk, chunk, remaining, cursor, read>>,
           coord' = "hashed" => chunk <= n_chunks,
           \A q \in Readers : \/ reader'[q] = reader[q]
                              \/ reader'[q] \in {Idle, Started} /\ Held(reader[q]) = {}
    PROVE  CountInv'
<1>1. CallInv /\ cursor \in Nat \ {0}
  BY RunNumbers DEF CountInv
<1>2. ASSUME NEW q \in Readers
      PROVE  /\ BatchOK(reader'[q], read, run_chunk, cursor)
             /\ Held(reader'[q]) = Held(reader[q]) /\ Batch(reader'[q]) \subseteq Batch(reader[q])
  <2>1. CASE reader'[q] = reader[q]
    BY <1>1, <2>1 DEF CallInv
  <2>2. CASE reader'[q] \in {Idle, Started} /\ Held(reader[q]) = {}
    BY <1>1, <2>2, NoBatch
  <2>. QED  BY <2>1, <2>2
<1>3. \A c : LeftOf(c, run_chunk, read, reader') = LeftOf(c, run_chunk, read, reader)
  BY <1>2 DEF LeftOf
<1>4. BatchesApart'
  BY <1>1, <1>2 DEF CallInv, BatchesApart
<1>5. CallInv'
  <2>1. n_chunks' = n_chunks /\ n_built' = n_built
    BY DEF n_chunks, n_built
  <2>2. remaining' = [c \in 1..n_chunks |->
                        IF c < chunk THEN Cardinality(LeftOf(c, run_chunk, read, reader')) ELSE Pending]
    BY <1>1, <1>3 DEF CallInv
  <2>. QED  BY <1>1, <1>2, <1>4, <2>1, <2>2 DEF CallInv
<1>6. UbatchChunks' = UbatchChunks
  BY DEF UbatchChunks, ChunksOf
<1>. QED  BY <1>5, <1>6 DEF CountInv

\* The coordinator publishes the runs of a chunk: all of them are unread.
LEMMA PublishCounts ==
    ASSUME ThreadInv, WindowInv, DecodeInv, CountInv, NEW k \in 0..MaxRuns, Publish(k)
    PROVE  CountInv'
<1>. DEFINE runs == [i \in 1..k |-> chunk]
<1>1. running /\ CallInv
  BY DEF Publish, ThreadInv, CountInv
<1>2. /\ n_built = Len(run_chunk) /\ n_built \in Nat /\ read \subseteq 1..n_built
      /\ chunk \in Nat \ {0} /\ MaxRuns \in Nat /\ Pending \in Nat /\ k \in Nat /\ cursor \in Nat
      /\ run_chunk \in Seq(Int) /\ n_chunks \in Int /\ chunk <= n_chunks
  <2>1. n_chunks \in Int
    <3>1. Len(call.toks) \in Nat /\ ChunkSize \in Nat \ {0}
      BY CallTokens, PrefetchAssumption DEF WindowInv
    <3>. QED  BY <3>1, ChunkCounts DEF n_chunks
  <2>. QED  BY <1>1, <2>1, RunNumbers DEF WindowInv, CallInv, Publish
<1>3. runs \in Seq(Int) /\ Len(runs) = k /\ \A i \in 1..k : runs[i] = chunk
  BY <1>2
<1>4. /\ run_chunk' = run_chunk \o runs /\ chunk' = chunk + 1 /\ coord' = "chunk"
      /\ remaining' = [remaining EXCEPT ![chunk] = k] /\ n_built + k <= MaxRuns
      /\ UNCHANGED <<pc, running, call, consumed, ubatch, cursor, read, reader>>
  BY DEF Publish, mainvars
<1>. HIDE DEF runs
<1>5. /\ n_built' = n_built + k /\ Len(run_chunk') = n_built + k
      /\ \A i \in 1..n_built : run_chunk'[i] = run_chunk[i]
      /\ \A i \in n_built + 1 .. n_built + k : run_chunk'[i] = chunk
  <2>1. Len(run_chunk \o runs) = n_built + k
    BY <1>2, <1>3, ConcatProperties
  <2>2. \A i \in 1..(n_built + k) :
            (run_chunk \o runs)[i] = IF i <= n_built THEN run_chunk[i] ELSE runs[i - n_built]
    BY <1>2, <1>3, ConcatProperties
  <2>. QED  BY <1>2, <1>3, <1>4, <2>1, <2>2 DEF n_built
<1>6. \A q \in Readers : Held(reader[q]) \subseteq read
  BY <1>1, RunNumbers, NextOfBatch DEF CallInv
<1>7. ASSUME NEW c, c < chunk
      PROVE  LeftOf(c, run_chunk', read, reader) = LeftOf(c, run_chunk, read, reader)
  <2>1. \A i \in 1..n_built + k : i \in 1..n_built \/ (i \in n_built + 1 .. n_built + k /\ run_chunk'[i] # c)
    <3>1. \A i \in 1..n_built + k : i \in 1..n_built \/ i \in n_built + 1 .. n_built + k
      BY <1>2
    <3>2. chunk # c
      BY <1>2, <1>7
    <3>. QED  BY <1>5, <3>1, <3>2
  <2>2. \A i \in 1..n_built : i \in 1..n_built + k
    BY <1>2
  <2>. QED  BY <1>2, <1>5, <2>1, <2>2 DEF LeftOf
<1>8. LeftOf(chunk, run_chunk', read, reader) = n_built + 1 .. n_built + k
  <2>1. \A i \in 1..n_built : run_chunk'[i] # chunk
    <3>1. \A i \in 1..n_built : run_chunk[i] \in Int /\ run_chunk[i] < chunk
      BY <1>1, <1>2 DEF CallInv
    <3>. QED  BY <1>2, <1>5, <3>1
  <2>2. \A i \in n_built + 1 .. n_built + k : i \in 1..n_built + k /\ i \notin read
    BY <1>2
  <2>3. \A i \in 1..n_built + k : i \in 1..n_built \/ i \in n_built + 1 .. n_built + k
    BY <1>2
  <2>. QED  BY <1>2, <1>5, <2>1, <2>2, <2>3 DEF LeftOf
<1>9. Cardinality(n_built + 1 .. n_built + k) = k
  <2>. DEFINE a == n_built + 1
              b == n_built + k
  <2>1. a \in Int /\ b \in Int /\ (IF a > b THEN 0 ELSE b - a + 1) = k
    BY <1>2
  <2>. HIDE DEF a, b
  <2>2. Cardinality(a .. b) = IF a > b THEN 0 ELSE b - a + 1
    BY <2>1, FS_Interval
  <2>. QED  BY <2>1, <2>2 DEF a, b
<1>10. remaining' = [c \in 1..n_chunks |->
                        IF c < chunk + 1 THEN Cardinality(LeftOf(c, run_chunk', read, reader)) ELSE Pending]
  <2>. DEFINE new(c) == LeftOf(c, run_chunk', read, reader)
              old(c) == LeftOf(c, run_chunk, read, reader)
  <2>1. remaining = [c \in 1..n_chunks |-> IF c < chunk THEN Cardinality(old(c)) ELSE Pending]
    BY <1>1 DEF CallInv
  <2>2. (\A c : c < chunk => new(c) = old(c)) /\ Cardinality(new(chunk)) = k
    BY <1>7, <1>8, <1>9
  <2>3. \A c \in 1..n_chunks : (c < chunk + 1 <=> c < chunk \/ c = chunk) /\ ~(chunk < chunk)
    BY <1>2
  <2>. HIDE DEF new, old
  <2>4. remaining' = [c \in 1..n_chunks |-> IF c < chunk + 1 THEN Cardinality(new(c)) ELSE Pending]
    BY <1>4, <2>1, <2>2, <2>3
  <2>. QED  BY <2>4 DEF new
<1>11. \A q \in Readers : BatchOK(reader[q], read, run_chunk', cursor)
  <2>1. ASSUME NEW q \in Readers
        PROVE  BatchOK(reader[q], read, run_chunk', cursor)
    <3>. DEFINE rd == reader[q]
    <3>1. /\ BatchOK(rd, read, run_chunk, cursor) /\ rd \in Reader
          /\ Held(rd) = NextRun(rd) - rd.runs .. NextRun(rd) - 1
      BY <1>1, RunNumbers, NextOfBatch DEF CallInv
    <3>2. \A i \in Held(rd) : run_chunk'[i] = run_chunk[i]
      BY <1>2, <1>5, <1>6
    <3>3. rd.pc = "read" => run_chunk'[rd.i] = run_chunk[rd.i]
      <4>1. rd.pc = "read" => rd.i >= 1 /\ rd.i <= n_built /\ rd.i \in Nat
        BY <3>1 DEF WindowInv, ReaderOK, Reader
      <4>. QED  BY <1>2, <1>5, <4>1
    <3>. HIDE DEF rd
    <3>4. BatchFits(rd, NextRun(rd), read, run_chunk', cursor)
      BY <3>1, <3>2 DEF BatchOK, BatchFits
    <3>5. BatchOK(rd, read, run_chunk', cursor)
      BY <3>1, <3>3, <3>4 DEF BatchOK
    <3>. QED  BY <3>5 DEF rd
  <2>. QED  BY <2>1
<1>12. \A i \in 1..n_built' : run_chunk'[i] \in 1..n_chunks /\ run_chunk'[i] < chunk'
  <2>1. \A i \in 1..n_built + k : i \in 1..n_built \/ i \in n_built + 1 .. n_built + k
    BY <1>2
  <2>2. \A i \in 1..n_built : run_chunk[i] \in 1..n_chunks /\ run_chunk[i] < chunk + 1
    <3>1. \A i \in 1..n_built : run_chunk[i] \in 1..n_chunks /\ run_chunk[i] < chunk
      BY <1>1 DEF CallInv
    <3>. QED  BY <1>2, <3>1
  <2>3. chunk \in 1..n_chunks /\ chunk < chunk + 1
    BY <1>2
  <2>. QED  BY <1>4, <1>5, <2>1, <2>2, <2>3
<1>13. CallInv'
  <2>1. n_chunks' = n_chunks
    BY <1>4 DEF n_chunks
  <2>2. n_built' <= MaxRuns /\ chunk' >= 1 /\ coord' # "hashed" /\ \A i \in read' : i < cursor'
    BY <1>1, <1>2, <1>4, <1>5 DEF CallInv
  <2>3. BatchesApart'
    BY <1>1, <1>4 DEF CallInv, BatchesApart
  <2>. QED  BY <1>4, <1>10, <1>11, <1>12, <2>1, <2>2, <2>3 DEF CallInv
<1>14. pc' = "covered" => \A c \in UbatchChunks' : ~(remaining'[c] > 0)
  <2>1. UbatchChunks' = UbatchChunks /\ pc' = pc
    BY <1>4 DEF UbatchChunks, ChunksOf
  <2>2. remaining[chunk] = Pending /\ Pending > 0
    BY <1>1, <1>2 DEF CallInv, Pending
  <2>3. pc = "covered" => UbatchChunks \subseteq 1..n_chunks
    BY UbatchOfCall DEF CountInv, DecodeInv, WindowInv
  <2>4. \A c \in 1..n_chunks : c # chunk => remaining'[c] = remaining[c]
    BY <1>1, <1>4 DEF CallInv
  <2>. QED  BY <2>1, <2>2, <2>3, <2>4 DEF CountInv
<1>. QED  BY <1>1, <1>4, <1>13, <1>14 DEF CountInv

\* The coordinator.
LEMMA CoordCounts ==
    ASSUME ThreadInv, WindowInv, DecodeInv, CountInv, CoordStep
    PROVE  CountInv'
<1>. USE DEF mainvars, runvars, decvars
<1>1. CASE AwaitWindow  BY <1>1, CountKeeps DEF AwaitWindow
<1>2. CASE Hash
  <2>1. running /\ chunk <= n_chunks
    BY <1>2 DEF Hash, ThreadInv
  <2>2. UNCHANGED <<pc, running, call, consumed, ubatch, run_chunk, chunk, remaining, cursor, read>>
    BY <1>2 DEF Hash
  <2>3. \A q \in Readers : \/ reader'[q] = reader[q]
                           \/ reader'[q] \in {Idle, Started} /\ Held(reader[q]) = {}
    <3>1. \A q \in Readers : reader'[q] = reader[q] \/ (reader'[q] = Started /\ reader[q] = Idle)
      BY <1>2 DEF Hash, WindowInv
    <3>. QED  BY <3>1, NoBatch
  <2>. QED  BY <2>1, <2>2, <2>3, ReadersSwap
<1>3. ASSUME NEW k \in 0..MaxRuns, Publish(k) PROVE CountInv'
  BY <1>3, PublishCounts
<1>4. CASE Built        BY <1>4, CountKeeps DEF Built
<1>5. CASE JoinReaders
  <2>1. running
    BY <1>5 DEF JoinReaders, ThreadInv
  <2>2. /\ UNCHANGED <<pc, running, call, consumed, ubatch, run_chunk, chunk, remaining, cursor, read>>
        /\ coord' = "ended" /\ reader' = [r \in Readers |-> Idle]
    BY <1>5 DEF JoinReaders
  <2>3. ASSUME NEW q \in Readers
        PROVE  reader'[q] \in {Idle, Started} /\ Held(reader[q]) = {}
    <3>1. CallInv /\ reader[q] \in Reader /\ cursor \in Nat /\ reader[q].pc \in {"none", "ended"}
      BY <1>5, <2>1, RunNumbers DEF JoinReaders, CountInv
    <3>2. reader[q].runs = 0
      BY <3>1 DEF CallInv, BatchOK
    <3>3. Held(reader[q]) = NextRun(reader[q]) - 0 .. NextRun(reader[q]) - 1 /\ NextRun(reader[q]) \in Nat
      BY <3>1, <3>2, NextOfBatch DEF CallInv
    <3>. QED  BY <2>2, <3>3
  <2>. QED  BY <2>1, <2>2, <2>3, ReadersSwap
<1>. QED  BY <1>1, <1>2, <1>3, <1>4, <1>5 DEF CoordStep

\* A call begins with everything still to be built.
LEMMA BeginCounts ==
    ASSUME ThreadInv, WindowInv, CountInv, Begin
    PROVE  CountInv'
<1>1. ~running /\ pc' = "idle" /\ coord = "none"
  BY DEF Begin, ThreadInv, Return
<1>2. CASE next = NoCall
  BY <1>1, <1>2 DEF Begin, CountInv
<1>3. CASE next # NoCall
  <2>1. read' = {} /\ run_chunk' = <<>> /\ n_built' = 0
    BY <1>1 DEF Begin, WindowInv, n_built
  <2>2. \A q \in Readers : reader'[q] \in {Idle, Started}
    BY <1>3 DEF Begin
  <2>3. running' /\ cursor' = 1 /\ chunk' = 1 /\ coord' = "chunk" /\ call' = next
    BY <1>3 DEF Begin
  <2>4. /\ \A q \in Readers : BatchOK(reader'[q], read', run_chunk', cursor')
        /\ BatchesApart'
    BY <2>2, <2>3, NoBatch DEF BatchesApart
  <2>5. remaining' = [c \in 1..n_chunks' |-> Pending]
    BY <1>3 DEF Begin, n_chunks
  <2>6. \A c \in 1..n_chunks' : ~(c < 1)
    OBVIOUS
  <2>7. MaxRuns \in Nat
    BY PrefetchAssumption
  <2>8. remaining' = [c \in 1..n_chunks' |->
                        IF c < chunk' THEN Cardinality(LeftOf(c, run_chunk', read', reader')) ELSE Pending]
    BY <2>3, <2>5, <2>6
  <2>9. CallInv'
    BY <2>1, <2>3, <2>4, <2>7, <2>8 DEF CallInv
  <2>. QED  BY <1>1, <2>3, <2>9 DEF CountInv
<1>. QED  BY <1>2, <1>3

\* The main thread: an ubatch is covered once nothing is left of its chunks.
LEMMA MainCounts ==
    ASSUME ThreadInv, WindowInv, CountInv, MainStep \/ Caller \/ Decoded \/ UNCHANGED pvars
    PROVE  CountInv'
<1>. USE DEF mainvars, runvars, decvars
<1>1. CASE StopThreads  BY <1>1, CountKeeps DEF StopThreads, SetStopping, Return
<1>2. CASE Joined       BY <1>2 DEF Joined, CountInv, Return
<1>3. CASE Begin        BY <1>3, BeginCounts
<1>4. CASE ConsumeWait
  <2>1. /\ UNCHANGED <<running, call, consumed, ubatch, run_chunk, chunk, coord, remaining, cursor, read, reader>>
        /\ pc = "consume"
        /\ \/ pc' \in {"uncovered", "consume"}
           \/ pc' = "covered" /\ ~\E c \in UbatchChunks : remaining[c] > 0
    BY <1>4 DEF ConsumeWait, Return
  <2>2. CallInv /\ running /\ CallInv'
    BY <2>1, CallKeeps DEF CountInv
  <2>3. UbatchChunks' = UbatchChunks
    BY <2>1 DEF UbatchChunks, ChunksOf
  <2>. QED  BY <2>1, <2>2, <2>3 DEF CountInv
<1>5. CASE NoGather     BY <1>5, CountKeeps DEF NoGather, Return
<1>6. ASSUME NEW idx, Gather(idx) PROVE CountInv'
  BY <1>6, CountKeeps DEF Gather, Return
<1>7. ASSUME NEW p \in Prompts, Start(p) \/ Hint(p) PROVE CountInv'
  BY <1>7, CountKeeps DEF Start, Hint, StopThen, Return
<1>8. CASE EndCall      BY <1>8, CountKeeps DEF EndCall, Return
<1>9. ASSUME NEW n \in 1..Ubatch, Consume(n) PROVE CountInv'
  <2>1. /\ UNCHANGED <<running, call, run_chunk, chunk, coord, remaining, cursor, read, reader>>
        /\ running /\ ubatch' = n /\ consumed' = consumed + n
        /\ pc' = IF consumed + n > Len(call.toks) THEN "uncovered" ELSE "consume"
    BY <1>9 DEF Consume, Return
  <2>2. n > 0 /\ n \in Nat /\ consumed \in Nat /\ Len(call.toks) \in Nat
    BY PrefetchAssumption, CallTokens DEF WindowInv
  <2>3. CallInv /\ CallInv'
    BY <2>1, CallKeeps DEF CountInv
  <2>. QED  BY <2>1, <2>2, <2>3 DEF CountInv
<1>10. CASE Decoded     BY <1>10, CountKeeps DEF Decoded
<1>11. CASE UNCHANGED pvars
  BY <1>11, CountKeeps DEF pvars
<1>. QED
  BY <1>1, <1>2, <1>3, <1>4, <1>5, <1>6, <1>7, <1>8, <1>9, <1>10, <1>11 DEF MainStep, Caller

\* Everything that is proved of a state.
PleInv == ThreadInv /\ DecodeInv /\ WindowInv /\ CountInv

\* The invariant holds initially, and every step keeps it.
LEMMA PleInit == PInit => PleInv
<1>1. PInit => CountInv
  BY DEF PInit, CountInv
<1>. QED  BY <1>1, ThreadInit, DecodeInit, WindowInit DEF PleInv

LEMMA PleStep == PleInv /\ [PNext]_pvars => PleInv'
<1>. SUFFICES ASSUME PleInv, [PNext]_pvars PROVE PleInv'
  OBVIOUS
<1>1. ThreadInv /\ DecodeInv /\ WindowInv /\ CountInv
  BY DEF PleInv
<1>2. ThreadInv' /\ DecodeInv'
  BY <1>1, ThreadStep, DecodeStep
<1>3. ASSUME NEW r \in Readers, ReaderStep(r) \/ ReadFails(r)
      PROVE  WindowInv' /\ CountInv'
  <2>1. running
    BY <1>1, <1>3, ReaderIsStarted DEF ThreadInv
  <2>2. WindowInv'
    BY <1>1, <1>3, ClaimWindow, CheckWindow, TakeWindow, ReadWindow, CountWindow DEF ReaderStep
  <2>3. CountInv'
    BY <1>1, <1>3, <2>1, ClaimCounts, CheckCounts, TakeCounts, ReadCounts, StopCounts, FlushCounts,
       NotifyCounts DEF ReaderStep
  <2>. QED  BY <2>2, <2>3
<1>4. CoordStep => WindowInv' /\ CountInv'
  BY <1>1, CoordWindow, CoordCounts
<1>5. MainStep \/ Caller \/ Decoded \/ UNCHANGED pvars => WindowInv' /\ CountInv'
  BY <1>1, MainWindow, MainCounts
<1>6. WindowInv' /\ CountInv'
  BY <1>3, <1>4, <1>5 DEF PNext
<1>. QED  BY <1>2, <1>6 DEF PleInv

\* CoveredMeansRead: when consume() reports an ubatch as covered, all runs of its chunks
\* are published and read, by whichever readers claimed them.
THEOREM CoveredIsRead == PSpec => []CoveredMeansRead
<1>1. ASSUME PleInv, pc = "covered"
      PROVE  /\ \A c \in UbatchChunks : remaining[c] # Pending
             /\ \A i \in 1..n_built : run_chunk[i] \in UbatchChunks => i \in read
  <2>1. CallInv /\ \A c \in UbatchChunks : ~(remaining[c] > 0)
    BY <1>1 DEF PleInv, CountInv
  <2>2. n_built = Len(run_chunk) /\ n_built \in Nat /\ Pending > 0
    BY <1>1, <2>1, RunNumbers, PrefetchAssumption DEF PleInv, Pending
  <2>3. ASSUME NEW i \in 1..n_built, run_chunk[i] \in UbatchChunks
        PROVE  i \in read
    <3>. DEFINE c == run_chunk[i]
                s == LeftOf(c, run_chunk, read, reader)
    <3>1. c \in 1..n_chunks /\ c < chunk
      BY <2>1 DEF CallInv
    <3>2. remaining[c] = Cardinality(s)
      BY <2>1, <3>1 DEF CallInv
    <3>3. IsFiniteSet(s)
      <4>1. s \subseteq 1..n_built
        BY <2>2 DEF LeftOf
      <4>2. IsFiniteSet(1..n_built)
        BY <2>2, FS_Interval
      <4>. HIDE DEF s
      <4>. QED  BY <4>1, <4>2, FS_Subset
    <3>4. s = {}
      <4>1. ~(Cardinality(s) > 0)
        BY <2>1, <2>3, <3>2
      <4>2. Cardinality(s) \in Nat /\ (Cardinality(s) = 0 <=> s = {})
        BY <3>3, FS_CardinalityType, FS_EmptySet
      <4>. QED  BY <4>1, <4>2
    <3>. QED  BY <2>2, <3>4 DEF LeftOf
  <2>. QED  BY <2>1, <2>2, <2>3
<1>2. PleInv => CoveredMeansRead
  BY <1>1 DEF CoveredMeansRead
<1>. QED  BY <1>2, PleInit, PleStep, PTL DEF PSpec

-----------------------------------------------------------------------------
(* Types *)

\* What PleTypeOK says beyond what is known.
LabelsOK ==
    /\ pc \in {"idle", "stop", "join", "begin", "consume", "covered", "uncovered"}
    /\ hinted \in BOOLEAN /\ stopping \in BOOLEAN /\ built \in BOOLEAN /\ done_waits \in BOOLEAN
    /\ allowed_chunks \in Nat /\ chunk \in Nat
    /\ tokens \in 0..MaxTokens
    /\ coord \in {"none", "chunk", "hashed", "join", "ended"}
    /\ waiting \subseteq Readers \cup {Coord}

\* The types: Init.
LEMMA LabelsInit == PInit => LabelsOK
<1>. SUFFICES ASSUME PInit PROVE LabelsOK
  OBVIOUS
<1>1. tokens \in 0..MaxTokens
  BY PrefetchAssumption DEF PInit
<1>. QED  BY <1>1 DEF PInit, LabelsOK

\* The types: a call that begins.
LEMMA LabelsBegin ==
    ASSUME LabelsOK, next \in Prompts \cup {NoCall}, Begin
    PROVE  LabelsOK'
<1>. DEFINE m    == Len(next.toks)
            all  == Ceil(m, ChunkSize)
            few  == Ceil(Ubatch + Ahead, ChunkSize)
<1>1. all \in Nat /\ few \in Nat
  <2>1. m \in Nat /\ ChunkSize \in Nat \ {0} /\ Ubatch + Ahead \in Nat
    BY CallTokens, PrefetchAssumption
  <2>. HIDE DEF m
  <2>. QED  BY <2>1, CeilNat
<1>2. allowed_chunks' \in {allowed_chunks, Least(all, few)} /\ chunk' \in {chunk, 1}
  BY DEF Begin
<1>. HIDE DEF all, few
<1>3. Least(all, few) \in Nat
  BY <1>1 DEF Least
<1>4. allowed_chunks' \in Nat /\ chunk' \in Nat
  BY <1>2, <1>3 DEF LabelsOK
<1>. QED  BY <1>4 DEF Begin, Return, LabelsOK, mainvars, runvars, decvars

\* The types: an ubatch that moves the window.
LEMMA LabelsConsume ==
    ASSUME LabelsOK, call \in Prompts \cup {NoCall}, consumed \in Nat,
           NEW n \in 1..Ubatch, Consume(n)
    PROVE  LabelsOK'
<1>. DEFINE t == consumed + n + Ahead
            m == Len(call.toks)
            a == chunks_for(t)
<1>1. a \in Nat
  <2>1. m \in Nat /\ ChunkSize \in Nat \ {0} /\ t \in Nat
    BY CallTokens, PrefetchAssumption
  <2>2. a = Least(Ceil(m, ChunkSize), Ceil(t, ChunkSize))
    BY DEF chunks_for, n_chunks
  <2>. HIDE DEF m, t, a
  <2>3. Ceil(m, ChunkSize) \in Nat /\ Ceil(t, ChunkSize) \in Nat
    BY <2>1, CeilNat
  <2>. QED  BY <2>2, <2>3 DEF Least
<1>2. allowed_chunks' \in {allowed_chunks, a} /\ waiting' \in {waiting, {}}
  BY DEF Consume
<1>. HIDE DEF a
<1>3. allowed_chunks' \in Nat /\ waiting' \subseteq Readers \cup {Coord}
  BY <1>1, <1>2 DEF LabelsOK
<1>. QED  BY <1>3 DEF Consume, Return, LabelsOK, mainvars, runvars, decvars

\* The types: every step.
LEMMA LabelsStep == PleInv /\ LabelsOK /\ [PNext]_pvars => LabelsOK'
<1>. SUFFICES ASSUME PleInv, LabelsOK, [PNext]_pvars PROVE LabelsOK'
  OBVIOUS
<1>0. call \in Prompts \cup {NoCall} /\ next \in Prompts \cup {NoCall} /\ consumed \in Nat
  BY DEF PleInv, WindowInv
<1>. USE DEF mainvars, runvars, decvars
<1>1. CASE StopThreads  BY <1>1 DEF LabelsOK, StopThreads, SetStopping, Return
<1>2. CASE Joined       BY <1>2 DEF LabelsOK, Joined, Return
<1>3. CASE Begin        BY <1>0, <1>3, LabelsBegin
<1>4. CASE ConsumeWait  BY <1>4 DEF LabelsOK, ConsumeWait, Return
<1>5. CASE NoGather     BY <1>5 DEF LabelsOK, NoGather, Return
<1>6. ASSUME NEW idx, Gather(idx) PROVE LabelsOK'
  BY <1>6 DEF LabelsOK, Gather, Return
<1>7. ASSUME NEW p \in Prompts, Start(p) \/ Hint(p) PROVE LabelsOK'
  <2>1. Len(p.toks) \in Nat
    BY CallTokens
  <2>2. MaxTokens \in Nat
    BY PrefetchAssumption
  <2>3. tokens' = tokens \/ (tokens' = tokens + Len(p.toks) /\ tokens' <= MaxTokens)
    BY <1>7 DEF Start, Hint, StopThen
  <2>4. tokens' \in 0..MaxTokens
    BY <2>1, <2>2, <2>3 DEF LabelsOK
  <2>. QED  BY <1>7, <2>4 DEF LabelsOK, Start, Hint, StopThen, Return
<1>8. CASE EndCall      BY <1>8 DEF LabelsOK, EndCall, Return
<1>9. ASSUME NEW n \in 1..Ubatch, Consume(n) PROVE LabelsOK'
  BY <1>0, <1>9, LabelsConsume
<1>10. CASE Decoded     BY <1>10 DEF LabelsOK, Decoded
<1>11. CASE AwaitWindow BY <1>11 DEF LabelsOK, AwaitWindow
<1>12. CASE Hash        BY <1>12 DEF LabelsOK, Hash
<1>13. ASSUME NEW k \in 0..MaxRuns, Publish(k) PROVE LabelsOK'
  BY <1>13 DEF LabelsOK, Publish
<1>14. CASE Built       BY <1>14 DEF LabelsOK, Built
<1>15. CASE JoinReaders BY <1>15 DEF LabelsOK, JoinReaders
<1>16. ASSUME NEW r \in Readers, ReaderStep(r) \/ ReadFails(r) PROVE LabelsOK'
  <2>1. /\ UNCHANGED <<pc, hinted, built, allowed_chunks, chunk, tokens, coord>>
        /\ stopping' \in {stopping, TRUE} /\ done_waits' \in {done_waits, FALSE}
        /\ waiting' \in {waiting, waiting \cup {r}, {}}
    BY <1>16 DEF ReaderStep, Claim, CheckRun, CheckBuilt, WaitForRun, Take, ReadRun, ReadStopped,
                 ReadFails, FlushDone, NotifyDone, SetStopping
  <2>. QED  BY <2>1 DEF LabelsOK
<1>17. CASE UNCHANGED pvars
  BY <1>17 DEF LabelsOK, pvars
<1>. QED
  BY <1>1, <1>2, <1>3, <1>4, <1>5, <1>6, <1>7, <1>8, <1>9, <1>10, <1>11, <1>12, <1>13, <1>14,
     <1>15, <1>16, <1>17 DEF PNext, MainStep, Caller, CoordStep

\* The counts of a call: a chunk is never counted below zero.
LEMMA CountsInRange ==
    ASSUME PleInv
    PROVE  run_chunk \in Seq(1..n_chunks) /\ remaining \in [1..n_chunks -> 0..Pending]
<1>1. CASE running
  <2>1. CallInv /\ WindowInv
    BY <1>1 DEF PleInv, CountInv
  <2>2. /\ n_built = Len(run_chunk) /\ n_built \in Nat /\ n_built <= MaxRuns /\ MaxRuns \in Nat
        /\ run_chunk \in Seq(Int)
    BY <2>1, RunNumbers DEF WindowInv, CallInv
  <2>3. run_chunk \in Seq(1..n_chunks)
    <3>1. \A i \in 1..Len(run_chunk) : run_chunk[i] \in 1..n_chunks
      BY <2>1, <2>2 DEF CallInv
    <3>2. run_chunk \in [1..n_built -> 1..n_chunks]
      BY <2>2, <3>1
    <3>3. [1..n_built -> 1..n_chunks] \in {[1..n -> 1..n_chunks] : n \in Nat}
      BY <2>2, Zenon
    <3>. QED  BY <3>2, <3>3, SeqDef, Zenon
  <2>4. ASSUME NEW c
        PROVE  Cardinality(LeftOf(c, run_chunk, read, reader)) \in 0..Pending
    <3>. DEFINE s == LeftOf(c, run_chunk, read, reader)
    <3>1. s \subseteq 1..n_built
      BY <2>2 DEF LeftOf
    <3>. HIDE DEF s
    <3>2. IsFiniteSet(1..n_built) /\ Cardinality(1..n_built) = n_built
      <4>1. 1 \in Int /\ n_built \in Int
        BY <2>2
      <4>2. /\ IsFiniteSet(1..n_built)
            /\ Cardinality(1..n_built) = IF 1 > n_built THEN 0 ELSE n_built - 1 + 1
        BY <4>1, FS_Interval, Zenon
      <4>. QED  BY <2>2, <4>2
    <3>3. IsFiniteSet(s) /\ Cardinality(s) <= n_built
      BY <3>1, <3>2, FS_Subset
    <3>4. Cardinality(s) \in Nat
      BY <3>3, FS_CardinalityType
    <3>. QED  BY <2>2, <3>3, <3>4 DEF s, Pending
  <2>5. Pending \in 0..Pending
    BY <2>2 DEF Pending
  <2>6. remaining \in [1..n_chunks -> 0..Pending]
    BY <2>1, <2>4, <2>5 DEF CallInv
  <2>. QED  BY <2>3, <2>6
<1>2. CASE ~running
  <2>1. call = NoCall /\ remaining = <<>> /\ run_chunk = <<>>
    BY <1>2 DEF PleInv, CountInv, WindowInv
  <2>2. n_chunks = 0
    <3>1. n_chunks = (0 + ChunkSize - 1) \div ChunkSize
      BY <2>1 DEF n_chunks, Ceil, NoCall
    <3>2. ChunkSize \in Nat \ {0}
      BY PrefetchAssumption
    <3>. QED  BY <3>1, <3>2, DivisionSmall
  <2>3. 1..n_chunks = {}
    BY <2>2
  <2>4. remaining \in [1..n_chunks -> 0..Pending]
    BY <2>1, <2>3
  <2>. QED  BY <2>1, <2>4
<1>. QED  BY <1>1, <1>2

\* PleTypeOK: the types, among them that remaining is never counted below zero.
THEOREM PleTypes == PSpec => []PleTypeOK
<1>1. ASSUME PleInv, LabelsOK PROVE PleTypeOK
  <2>1. /\ running \in BOOLEAN /\ decoding \in BOOLEAN /\ consumed \in Nat /\ ubatch \in Nat
        /\ next \in Prompts \cup {NoCall} /\ call \in Prompts \cup {NoCall}
        /\ cursor \in Nat \ {0} /\ read \subseteq 1..n_built
    BY <1>1 DEF PleInv, ThreadInv, DecodeInv, WindowInv
  <2>2. {running, hinted, stopping, built, done_waits, decoding} \subseteq BOOLEAN
    <3>1. \A x \in {running, hinted, stopping, built, done_waits, decoding} : x \in BOOLEAN
      BY <1>1, <2>1, Zenon DEF LabelsOK
    <3>. QED  BY <3>1, Zenon
  <2>. QED  BY <1>1, <2>1, <2>2, CountsInRange DEF PleTypeOK, LabelsOK
<1>2. PInit => PleInv /\ LabelsOK
  BY PleInit, LabelsInit
<1>3. (PleInv /\ LabelsOK) /\ [PNext]_pvars => (PleInv /\ LabelsOK)'
  BY PleStep, LabelsStep
<1>4. PleInv /\ LabelsOK => PleTypeOK
  BY <1>1
<1>. QED  BY <1>2, <1>3, <1>4, PTL DEF PSpec

=============================================================================
