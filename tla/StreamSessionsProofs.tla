------------------------ MODULE StreamSessionsProofs ------------------------
(***************************************************************************)
(* Proofs about StreamSessions, for any number of requests, readers,       *)
(* deletes and conversations, any cap and any sizes of the chunks.         *)
(***************************************************************************)
EXTENDS StreamSessions, TLAPS, SequenceTheorems

HoldingPcs == {"cancel_previous", "finalize_previous", "finalize_evicted"}

\* A thread holds a session exactly while it is about to finalize it, and a reader
\* has one from its lookup on.
HandsOK ==
    /\ \A r \in Requests : held[r] \in Requests <=> wpc[r] \in HoldingPcs
    /\ \A d \in Deleters : dheld[d] \in Requests <=> dpc[d] \in {"cancel", "finalize"}
    /\ \A g \in Readers :
        /\ rpc[g] \in {"found", "reading", "cut", "complete"} => rsess[g] \in Requests
        /\ rpc[g] \in {"idle", "found", "not_found", "refused"} => got[g] = <<>>
        /\ rpc[g] = "complete" => rsess[g] \in done
    /\ snapshot # {} => mpc = "finalizing"

\* Until it is done a session has got every byte its producer generated.
InStep == \A s \in Requests : s \notin done => total_size(s) = produced[s].bytes

StreamInv ==
    /\ StreamTypeOK
    /\ HandsOK
    /\ RingExact
    /\ InStep
    /\ ReplayExact
    /\ CompleteMeansAll
    /\ NoSessionLost

-----------------------------------------------------------------------------
(* Runs of bytes *)

\* The chunk that starts at byte b + 1.
Chunk(b, n) == [i \in 1..n |-> b + i]

LEMMA ChunkRun ==
    ASSUME NEW b \in Nat, NEW n \in Nat
    PROVE  /\ Chunk(b, n) \in Seq(Nat)
           /\ Len(Chunk(b, n)) = n
           /\ Run(Chunk(b, n), b)
  <1>1. Chunk(b, n) \in [1..n -> Nat]
    BY DEF Chunk
  <1>2. Chunk(b, n) \in Seq(Nat) /\ Len(Chunk(b, n)) = n
    BY <1>1, SMT DEF Chunk
  <1> QED
    BY <1>2 DEF Chunk, Run

\* Dropping the first k bytes of a run.
LEMMA RunTail ==
    ASSUME NEW s \in Seq(Nat), NEW p \in Nat, Run(s, p), NEW k \in 0..Len(s)
    PROVE  /\ SubSeq(s, k + 1, Len(s)) \in Seq(Nat)
           /\ Len(SubSeq(s, k + 1, Len(s))) = Len(s) - k
           /\ Run(SubSeq(s, k + 1, Len(s)), p + k)
  <1> DEFINE t == SubSeq(s, k + 1, Len(s))
  <1>1. Len(s) \in Nat /\ k \in Nat /\ k <= Len(s)
    BY LenProperties
  <1>2. \A i \in k + 1 .. Len(s) : s[i] \in Nat
    BY <1>1, LenProperties, ElementOfSeq
  <1>3. /\ t \in Seq(Nat)
        /\ Len(t) = IF k + 1 <= Len(s) THEN Len(s) - (k + 1) + 1 ELSE 0
        /\ \A i \in 1 .. Len(s) - (k + 1) + 1 : t[i] = s[k + 1 + i - 1]
    BY <1>1, <1>2, SubSeqProperties, k + 1 \in Int, Len(s) \in Int
  <1> HIDE DEF t
  <1>4. Len(t) = Len(s) - k
    BY <1>1, <1>3
  <1>5. ASSUME NEW i \in 1..Len(t) PROVE t[i] = (p + k) + i
    <2>1. i \in 1 .. Len(s) - (k + 1) + 1 /\ k + 1 + i - 1 = k + i
      BY <1>1, <1>4
    <2>2. t[i] = s[k + i]
      BY <1>3, <2>1
    <2>3. k + i \in 1..Len(s)
      BY <1>1, <2>1
    <2>4. s[k + i] = p + (k + i)
      BY <2>3 DEF Run
    <2>5. p + (k + i) = (p + k) + i
      BY <1>1, <2>1
    <2> QED
      BY <2>2, <2>4, <2>5
  <1>6. t \in Seq(Nat) /\ Len(t) = Len(s) - k /\ Run(t, p + k)
    BY <1>3, <1>4, <1>5 DEF Run
  <1> QED
    BY <1>6 DEF t

\* A run continued by another one.
LEMMA RunConcat ==
    ASSUME NEW s \in Seq(Nat), NEW t \in Seq(Nat), NEW p \in Nat,
           Run(s, p), Run(t, p + Len(s))
    PROVE  /\ s \o t \in Seq(Nat)
           /\ Len(s \o t) = Len(s) + Len(t)
           /\ Run(s \o t, p)
  <1> DEFINE u == s \o t
  <1>1. Len(s) \in Nat /\ Len(t) \in Nat
    BY LenProperties
  <1>2. /\ u \in Seq(Nat)
        /\ Len(u) = Len(s) + Len(t)
        /\ \A i \in 1 .. Len(s) + Len(t) : u[i] = IF i <= Len(s) THEN s[i] ELSE t[i - Len(s)]
    BY ConcatProperties
  <1> HIDE DEF u
  <1>3. ASSUME NEW i \in 1..Len(u)
        PROVE  u[i] = p + i
    <2>1. CASE i <= Len(s)
      BY <2>1, <1>1, <1>2, i \in 1..Len(s), u[i] = s[i], SMT DEF Run
    <2>2. CASE i > Len(s)
      <3>1. i - Len(s) \in 1..Len(t) /\ u[i] = t[i - Len(s)]
        BY <2>2, <1>1, <1>2
      <3>2. t[i - Len(s)] = (p + Len(s)) + (i - Len(s))
        BY <3>1 DEF Run
      <3> QED
        BY <3>1, <3>2, <1>1
    <2> QED
      BY <2>1, <2>2, <1>1
  <1>4. u \in Seq(Nat) /\ Len(u) = Len(s) + Len(t) /\ Run(u, p)
    BY <1>2, <1>3 DEF Run
  <1> QED
    BY <1>4 DEF u

-----------------------------------------------------------------------------
(* append() *)

\* The branches of append() for a chunk of n bytes.
LEMMA AppendCases ==
    ASSUME NEW r \in Requests, NEW data, NEW n, n = Len(data), append(r, data)
    PROVE  \/ /\ n = 0 \/ r \in done
              /\ buffer' = buffer /\ prefix_dropped' = prefix_dropped
           \/ /\ r \notin done /\ n >= Cap
              /\ buffer' = [buffer EXCEPT ![r] = SubSeq(data, n - Cap + 1, n)]
              /\ prefix_dropped' = [prefix_dropped EXCEPT
                                       ![r] = prefix_dropped[r] + Len(buffer[r]) + n - Cap]
           \/ /\ r \notin done /\ ~(n >= Cap) /\ Len(buffer[r]) + n > Cap
              /\ buffer' = [buffer EXCEPT
                   ![r] = SubSeq(buffer[r], (Len(buffer[r]) + n) - Cap + 1, Len(buffer[r]))
                            \o data]
              /\ prefix_dropped' = [prefix_dropped EXCEPT
                                       ![r] = prefix_dropped[r] + (Len(buffer[r]) + n) - Cap]
           \/ /\ r \notin done /\ ~(Len(buffer[r]) + n > Cap)
              /\ buffer' = [buffer EXCEPT ![r] = buffer[r] \o data]
              /\ prefix_dropped' = prefix_dropped
  <1>1. CASE n = 0 \/ r \in done
    BY <1>1, Zenon DEF append, state
  <1>2. CASE ~(n = 0 \/ r \in done) /\ n >= Cap
    BY <1>2, Zenon DEF append
  <1>3. CASE ~(n = 0 \/ r \in done) /\ ~(n >= Cap) /\ Len(buffer[r]) + n > Cap
    BY <1>3, Zenon DEF append
  <1>4. CASE ~(n = 0 \/ r \in done) /\ ~(n >= Cap) /\ ~(Len(buffer[r]) + n > Cap)
    BY <1>4, Zenon DEF append
  <1> QED
    BY <1>1, <1>2, <1>3, <1>4, Zenon

\* What append() does to the ring of its session: the cap is respected, the bytes
\* stay in place, none of the new ones is missing.
LEMMA AppendStep ==
    ASSUME StreamAssumption, StreamTypeOK, RingExact,
           NEW r \in Requests, NEW n \in Nat,
           r \notin done => total_size(r) = produced[r].bytes,
           append(r, Chunk(produced[r].bytes, n))
    PROVE  /\ buffer' \in [Requests -> Seq(Nat)]
           /\ prefix_dropped' \in [Requests -> Nat]
           /\ Len(buffer'[r]) <= Cap
           /\ Run(buffer'[r], prefix_dropped'[r])
           /\ r \notin done => prefix_dropped'[r] + Len(buffer'[r]) = produced[r].bytes + n
           /\ \A s \in Requests :
                s # r \/ s \in done => /\ buffer'[s] = buffer[s]
                                       /\ prefix_dropped'[s] = prefix_dropped[s]
  <1> DEFINE b    == produced[r].bytes
             buf  == buffer[r]
             len  == Len(buf)
             pre  == prefix_dropped[r]
             data == Chunk(b, n)
  <1>1. b \in Nat /\ buf \in Seq(Nat) /\ len \in Nat /\ pre \in Nat
    BY LenProperties DEF StreamTypeOK
  <1>2. data \in Seq(Nat) /\ Len(data) = n /\ Run(data, b)
    BY <1>1, ChunkRun
  <1>3. Cap \in Nat /\ Cap > 0
    BY DEF StreamAssumption
  <1>4. len <= Cap /\ Run(buf, pre)
    BY DEF RingExact
  <1>5. buffer \in [Requests -> Seq(Nat)] /\ prefix_dropped \in [Requests -> Nat]
    BY DEF StreamTypeOK
  <1>6. r \notin done => pre + len = b
    BY DEF total_size
  <1>7. append(r, data)
    OBVIOUS
  <1> HIDE DEF data, len, pre, b, buf
  <1>8. CASE (n = 0 \/ r \in done) /\ buffer' = buffer /\ prefix_dropped' = prefix_dropped
    <2>1. r \notin done => prefix_dropped'[r] + Len(buffer'[r]) = b + n
      BY <1>1, <1>6, <1>8 DEF len, pre, buf
    <2> QED
      BY <2>1, <1>4, <1>5, <1>8 DEF len, pre, buf, b
  <1>9. CASE /\ r \notin done /\ n >= Cap
              /\ buffer' = [buffer EXCEPT ![r] = SubSeq(data, n - Cap + 1, n)]
              /\ prefix_dropped' = [prefix_dropped EXCEPT ![r] = pre + len + n - Cap]
    <2>1. n - Cap \in 0..n
      BY <1>3, <1>9
    <2>2. /\ SubSeq(data, (n - Cap) + 1, n) \in Seq(Nat)
          /\ Len(SubSeq(data, (n - Cap) + 1, n)) = n - (n - Cap)
          /\ Run(SubSeq(data, (n - Cap) + 1, n), b + (n - Cap))
      BY <2>1, <1>1, <1>2, RunTail, Zenon
    <2>3. /\ pre + len + n - Cap \in Nat
          /\ pre + len + n - Cap = b + (n - Cap)
          /\ n - (n - Cap) <= Cap
          /\ (pre + len + n - Cap) + (n - (n - Cap)) = b + n
      BY <1>1, <1>3, <1>6, <1>9
    <2> DEFINE new == SubSeq(data, n - Cap + 1, n)
               np  == pre + len + n - Cap
    <2>4. Len(new) <= Cap /\ Run(new, np) /\ np + Len(new) = b + n
      BY <2>2, <2>3
    <2> HIDE DEF new, np
    <2>5. /\ new \in Seq(Nat) /\ np \in Nat
          /\ buffer' = [buffer EXCEPT ![r] = new]
          /\ prefix_dropped' = [prefix_dropped EXCEPT ![r] = np]
          /\ r \notin done
      BY <2>2, <2>3, <1>9, Zenon DEF new, np
    <2>6. /\ buffer' \in [Requests -> Seq(Nat)] /\ prefix_dropped' \in [Requests -> Nat]
          /\ buffer'[r] = new /\ prefix_dropped'[r] = np
          /\ \A s \in Requests : s # r => /\ buffer'[s] = buffer[s]
                                          /\ prefix_dropped'[s] = prefix_dropped[s]
      BY <2>5, <1>5
    <2> QED
      BY <2>4, <2>5, <2>6 DEF b
  <1>10. CASE /\ r \notin done /\ ~(n >= Cap) /\ len + n > Cap
              /\ buffer' = [buffer EXCEPT ![r] = SubSeq(buf, (len + n) - Cap + 1, len) \o data]
              /\ prefix_dropped' = [prefix_dropped EXCEPT ![r] = pre + (len + n) - Cap]
    <2> DEFINE k    == (len + n) - Cap
               tail == SubSeq(buf, k + 1, len)
    <2>1. k \in 0..len /\ k \in Nat
      BY <1>1, <1>3, <1>4, <1>10
    <2> HIDE DEF k
    <2>2. tail \in Seq(Nat) /\ Len(tail) = len - k /\ Run(tail, pre + k)
      BY <2>1, <1>1, <1>4, RunTail DEF len
    <2> HIDE DEF tail
    <2>3. pre + k \in Nat /\ (pre + k) + Len(tail) = b
      BY <2>1, <2>2, <1>1, <1>6, <1>10
    <2>4. /\ tail \o data \in Seq(Nat)
          /\ Len(tail \o data) = Len(tail) + n
          /\ Run(tail \o data, pre + k)
      BY <2>2, <2>3, <1>2, RunConcat
    <2>5. /\ Len(tail) + n <= Cap
          /\ (pre + k) + (Len(tail) + n) = b + n
          /\ pre + (len + n) - Cap = pre + k
      BY <2>1, <2>2, <2>3, <1>1, <1>3, <1>6, <1>10 DEF k
    <2>6. /\ buffer' = [buffer EXCEPT ![r] = tail \o data]
          /\ prefix_dropped' = [prefix_dropped EXCEPT ![r] = pre + k]
      BY <2>5, <1>10 DEF tail, k
    <2> DEFINE new == tail \o data
    <2>7. Len(new) <= Cap /\ (pre + k) + Len(new) = b + n
      BY <2>4, <2>5
    <2> HIDE DEF new
    <2>8. /\ new \in Seq(Nat) /\ Run(new, pre + k)
          /\ buffer' = [buffer EXCEPT ![r] = new]
          /\ r \notin done
      BY <2>4, <2>6, <1>10, Zenon DEF new
    <2>9. /\ buffer' \in [Requests -> Seq(Nat)] /\ prefix_dropped' \in [Requests -> Nat]
          /\ buffer'[r] = new /\ prefix_dropped'[r] = pre + k
          /\ \A s \in Requests : s # r => /\ buffer'[s] = buffer[s]
                                          /\ prefix_dropped'[s] = prefix_dropped[s]
      BY <2>3, <2>6, <2>8, <1>5
    <2> QED
      BY <2>7, <2>8, <2>9 DEF b
  <1>11. CASE /\ r \notin done /\ ~(len + n > Cap)
              /\ buffer' = [buffer EXCEPT ![r] = buf \o data]
              /\ prefix_dropped' = prefix_dropped
    <2>1. /\ buf \o data \in Seq(Nat)
          /\ Len(buf \o data) = len + n
          /\ Run(buf \o data, pre)
      BY <1>1, <1>2, <1>4, <1>6, <1>11, RunConcat DEF len
    <2>2. len + n <= Cap /\ pre + (len + n) = b + n
      BY <1>1, <1>3, <1>6, <1>11
    <2>3. prefix_dropped' = [prefix_dropped EXCEPT ![r] = pre]
      BY <1>5, <1>11 DEF pre
    <2> DEFINE new == buf \o data
    <2>4. Len(new) <= Cap /\ pre + Len(new) = b + n
      BY <2>1, <2>2
    <2> HIDE DEF new
    <2>5. /\ new \in Seq(Nat) /\ Run(new, pre)
          /\ buffer' = [buffer EXCEPT ![r] = new]
          /\ r \notin done
      BY <2>1, <1>11, Zenon DEF new
    <2>6. /\ buffer' \in [Requests -> Seq(Nat)] /\ prefix_dropped' \in [Requests -> Nat]
          /\ buffer'[r] = new /\ prefix_dropped'[r] = pre
          /\ \A s \in Requests : s # r => /\ buffer'[s] = buffer[s]
                                          /\ prefix_dropped'[s] = prefix_dropped[s]
      BY <2>3, <2>5, <1>1, <1>5
    <2> QED
      BY <2>4, <2>5, <2>6 DEF b
  <1>12. n = Len(data)
    BY <1>2
  <1> QED
    BY <1>7, <1>12, <1>8, <1>9, <1>10, <1>11, AppendCases, Zenon DEF len, pre, buf

-----------------------------------------------------------------------------
(* Types and hands *)

\* read_from() continues what the reader has.
LEMMA ReadChunkType ==
    ASSUME StreamTypeOK, HandsOK, RingExact, ReplayExact, NEW g \in Readers, ReadChunk(g)
    PROVE  /\ got' \in [Readers -> Seq(Nat)]
           /\ Run(got'[g], from[g])
           /\ \A h \in Readers : h # g => got'[h] = got[h]
  <1> DEFINE s == rsess[g]
             k == offset(g) - prefix_dropped[s]
             t == SubSeq(buffer[s], k + 1, Len(buffer[s]))
  <1>1. s \in Requests /\ got[g] \in Seq(Nat) /\ from[g] \in Nat /\ Len(got[g]) \in Nat
    BY LenProperties DEF ReadChunk, HandsOK, StreamTypeOK
  <1>2. /\ buffer[s] \in Seq(Nat) /\ Len(buffer[s]) \in Nat /\ prefix_dropped[s] \in Nat
        /\ Run(buffer[s], prefix_dropped[s]) /\ Run(got[g], from[g])
    BY <1>1, LenProperties DEF StreamTypeOK, RingExact, ReplayExact
  <1>3. /\ prefix_dropped[s] <= from[g] + Len(got[g])
        /\ from[g] + Len(got[g]) < prefix_dropped[s] + Len(buffer[s])
        /\ got' = [got EXCEPT ![g] = got[g] \o t]
    BY DEF ReadChunk, offset, total_size
  <1>4. k \in 0..Len(buffer[s]) /\ prefix_dropped[s] + k = from[g] + Len(got[g])
    <2> DEFINE len == Len(buffer[s])
               o   == from[g] + Len(got[g])
               pre == prefix_dropped[s]
    <2>1. len \in Nat /\ o \in Nat /\ pre \in Nat /\ pre <= o /\ o < pre + len
      BY <1>1, <1>2, <1>3
    <2>2. k = o - pre
      BY DEF offset
    <2> HIDE DEF len, o, pre, k
    <2>3. k \in 0..len /\ pre + k = o
      BY <2>1, <2>2
    <2> QED
      BY <2>3 DEF len, o, pre
  <1> HIDE DEF k, s
  <1>5. t \in Seq(Nat) /\ Run(t, from[g] + Len(got[g]))
    BY <1>2, <1>4, RunTail
  <1> HIDE DEF t
  <1>6. got[g] \o t \in Seq(Nat) /\ Run(got[g] \o t, from[g])
    BY <1>1, <1>2, <1>5, RunConcat
  <1> DEFINE u == got[g] \o t
  <1>7. u \in Seq(Nat) /\ Run(u, from[g]) /\ got' = [got EXCEPT ![g] = u]
    BY <1>3, <1>6
  <1> HIDE DEF u
  <1> QED
    BY <1>7 DEF StreamTypeOK

\* Every step keeps the types, and the hands of the threads.
LEMMA TypeStep ==
    ASSUME StreamAssumption, StreamTypeOK, HandsOK, RingExact, InStep, ReplayExact, [SNext]_svars
    PROVE  StreamTypeOK' /\ HandsOK'
  <1> USE DEF StreamTypeOK, HandsOK, HoldingPcs, WorkerPcs, ReaderPcs, Session,
              state, posts, deletes, gets, manager
  <1>0. NoSession \notin Requests /\ Conv \in [Requests -> Convs]
    BY DEF StreamAssumption
  <1>1. ASSUME NEW r \in Requests, Replace(r) PROVE StreamTypeOK' /\ HandsOK'
    BY <1>0, <1>1 DEF Replace, Goto
  <1>2. ASSUME NEW r \in Requests, CancelPrevious(r) PROVE StreamTypeOK' /\ HandsOK'
    BY <1>0, <1>2 DEF CancelPrevious, Goto, cancel
  <1>3. ASSUME NEW r \in Requests, FinalizePrevious(r) PROVE StreamTypeOK' /\ HandsOK'
    BY <1>0, <1>3 DEF FinalizePrevious, Goto, finalize
  <1>4. ASSUME NEW r \in Requests, HandledWithoutStream(r) PROVE StreamTypeOK' /\ HandsOK'
    BY <1>0, <1>4 DEF HandledWithoutStream, Goto
  <1>5. ASSUME NEW r \in Requests, ClosedBeforeStream(r) PROVE StreamTypeOK' /\ HandsOK'
    BY <1>0, <1>5 DEF ClosedBeforeStream, Goto
  <1>6. ASSUME NEW r \in Requests, SetNext(r) PROVE StreamTypeOK' /\ HandsOK'
    BY <1>0, <1>6 DEF SetNext, Goto
  <1>7. ASSUME NEW r \in Requests, Evict(r) PROVE StreamTypeOK' /\ HandsOK'
    <2>1. /\ sessions[Conv[r]] \in Session
          /\ sessions' \in [Convs -> Session] /\ held' \in [Requests -> Session]
      BY <1>0, <1>7 DEF Evict
    <2>2. /\ wpc' \in [Requests -> WorkerPcs]
          /\ \A q \in Requests : held'[q] \in Requests <=> wpc'[q] \in HoldingPcs
      BY <2>1, <1>0, <1>7 DEF Evict, Goto
    <2> QED
      BY <2>1, <2>2, <1>7 DEF Evict
  <1>8. ASSUME NEW r \in Requests, FinalizeEvicted(r) PROVE StreamTypeOK' /\ HandsOK'
    BY <1>0, <1>8 DEF FinalizeEvicted, Goto, finalize
  <1>9. ASSUME NEW r \in Requests, EnterNext(r) PROVE StreamTypeOK' /\ HandsOK'
    BY <1>0, <1>9 DEF EnterNext, Goto
  <1>10. ASSUME NEW r \in Requests, StartDrain(r) PROVE StreamTypeOK' /\ HandsOK'
    BY <1>0, <1>10 DEF StartDrain, Goto
  <1>11. ASSUME NEW r \in Requests, NextStopped(r) PROVE StreamTypeOK' /\ HandsOK'
    BY <1>0, <1>11 DEF NextStopped, Goto
  <1>12. ASSUME NEW r \in Requests, Destroy(r) PROVE StreamTypeOK' /\ HandsOK'
    BY <1>0, <1>12 DEF Destroy, Goto, finalize
  <1>13. ASSUME NEW r \in Requests, PeerDrop(r) PROVE StreamTypeOK' /\ HandsOK'
    BY <1>0, <1>13 DEF PeerDrop, Goto
  <1>14. ASSUME NEW r \in Requests, NextChunk(r) PROVE StreamTypeOK' /\ HandsOK'
    <2>1. PICK n \in ChunkSizes, more \in BOOLEAN :
            /\ produced' = [produced EXCEPT ![r] = [chunks |-> @.chunks + 1, bytes |-> @.bytes + n]]
            /\ append(r, Chunk(produced[r].bytes, n))
            /\ Goto(r, IF ~more THEN "destroying"
                       ELSE IF wpc[r] = "in_next" THEN "streaming" ELSE "draining")
      BY <1>14 DEF NextChunk, Chunk
    <2>2. n \in Nat
      BY DEF StreamAssumption
    <2>3. buffer' \in [Requests -> Seq(Nat)] /\ prefix_dropped' \in [Requests -> Nat]
      BY <2>1, <2>2, AppendStep DEF InStep
    <2>4. produced' \in [Requests -> [chunks : Nat, bytes : Nat]]
      BY <2>1, <2>2
    <2>5. wpc' \in [Requests -> WorkerPcs]
      BY <2>1 DEF Goto
    <2>6. \A q \in Requests : wpc'[q] \in HoldingPcs <=> wpc[q] \in HoldingPcs
      BY <2>1, <1>14 DEF Goto, NextChunk
    <2> QED
      BY <2>3, <2>4, <2>5, <2>6, <1>14 DEF NextChunk
  <1>15. ASSUME NEW d \in Deleters, DeleteErase(d) PROVE StreamTypeOK' /\ HandsOK'
    BY <1>0, <1>15 DEF DeleteErase
  <1>16. ASSUME NEW d \in Deleters, DeleteCancel(d) PROVE StreamTypeOK' /\ HandsOK'
    BY <1>0, <1>16 DEF DeleteCancel, cancel
  <1>17. ASSUME NEW d \in Deleters, DeleteFinalize(d) PROVE StreamTypeOK' /\ HandsOK'
    BY <1>0, <1>17 DEF DeleteFinalize, finalize
  <1>18. ASSUME NEW g \in Readers, Lookup(g) PROVE StreamTypeOK' /\ HandsOK'
    BY <1>0, <1>18, StreamAssumption DEF Lookup, GotoR, StreamAssumption
  <1>19. ASSUME NEW g \in Readers, CheckOffset(g) PROVE StreamTypeOK' /\ HandsOK'
    BY <1>0, <1>19, StreamAssumption DEF CheckOffset, GotoR, StreamAssumption
  <1>20. ASSUME NEW g \in Readers, ReadLost(g) PROVE StreamTypeOK' /\ HandsOK'
    BY <1>0, <1>20, StreamAssumption DEF ReadLost, GotoR, StreamAssumption
  <1>21. ASSUME NEW g \in Readers, ReadEnd(g) PROVE StreamTypeOK' /\ HandsOK'
    BY <1>0, <1>21, StreamAssumption DEF ReadEnd, GotoR, StreamAssumption
  <1>22. ASSUME NEW g \in Readers, ReaderLeaves(g) PROVE StreamTypeOK' /\ HandsOK'
    BY <1>0, <1>22, StreamAssumption DEF ReaderLeaves, GotoR, StreamAssumption
  <1>23. ASSUME NEW g \in Readers, ReadChunk(g) PROVE StreamTypeOK' /\ HandsOK'
    <2>1. got' \in [Readers -> Seq(Nat)]
      BY <1>23, ReadChunkType
    <2> QED
      BY <2>1, <1>23 DEF ReadChunk
  <1>24. ASSUME Collect PROVE StreamTypeOK' /\ HandsOK'
    BY <1>0, <1>24 DEF Collect
  <1>25. ASSUME StopCollector PROVE StreamTypeOK' /\ HandsOK'
    BY <1>0, <1>25 DEF StopCollector
  <1>26. ASSUME StopClear PROVE StreamTypeOK' /\ HandsOK'
    BY <1>0, <1>26 DEF StopClear
  <1>27. ASSUME StopFinalize PROVE StreamTypeOK' /\ HandsOK'
    BY <1>0, <1>27 DEF StopFinalize, finalize
  <1>28. ASSUME StopDone PROVE StreamTypeOK' /\ HandsOK'
    BY <1>0, <1>28 DEF StopDone
  <1>29. CASE UNCHANGED svars
    BY <1>29 DEF svars
  <1> QED
    BY <1>1, <1>2, <1>3, <1>4, <1>5, <1>6, <1>7, <1>8, <1>9, <1>10, <1>11, <1>12, <1>13,
       <1>14, <1>15, <1>16, <1>17, <1>18, <1>19, <1>20, <1>21, <1>22, <1>23, <1>24, <1>25,
       <1>26, <1>27, <1>28, <1>29 DEF SNext, Post, Delete, Get, Read, Stop

-----------------------------------------------------------------------------
(* Rings and readers *)

\* Every step keeps what the rings hold and what the readers have been sent.
LEMMA ReplayStep ==
    ASSUME StreamAssumption, StreamTypeOK, HandsOK, RingExact, InStep, ReplayExact,
           CompleteMeansAll, [SNext]_svars
    PROVE  RingExact' /\ InStep' /\ ReplayExact' /\ CompleteMeansAll'
  <1> DEFINE Quiet == UNCHANGED <<buffer, prefix_dropped, produced>> /\ done \subseteq done'
  \* only NextChunk() changes a ring, and no step takes a session back from done
  <1>1. CASE \E r \in Requests : NextChunk(r)
    <2>1. PICK r \in Requests : NextChunk(r)
      BY <1>1
    <2>2. PICK n \in ChunkSizes :
            /\ produced' = [produced EXCEPT ![r] = [chunks |-> @.chunks + 1, bytes |-> @.bytes + n]]
            /\ append(r, Chunk(produced[r].bytes, n))
      BY <2>1 DEF NextChunk, Chunk
    <2>3. UNCHANGED <<done, gets>>
      BY <2>1 DEF NextChunk
    <2>4. n \in Nat
      BY DEF StreamAssumption
    <2>5. /\ Len(buffer'[r]) <= Cap
          /\ Run(buffer'[r], prefix_dropped'[r])
          /\ r \notin done => prefix_dropped'[r] + Len(buffer'[r]) = produced[r].bytes + n
          /\ \A s \in Requests :
               s # r \/ s \in done => /\ buffer'[s] = buffer[s]
                                      /\ prefix_dropped'[s] = prefix_dropped[s]
      BY <2>2, <2>4, AppendStep DEF InStep
    <2>6. RingExact'
      BY <2>5 DEF RingExact
    <2>7. /\ produced'[r].bytes = produced[r].bytes + n
          /\ \A s \in Requests : s # r => produced'[s] = produced[s]
      BY <2>2 DEF StreamTypeOK
    <2>8. InStep'
      BY <2>3, <2>5, <2>7 DEF InStep, total_size
    <2>9. ReplayExact'
      BY <2>3 DEF ReplayExact, gets
    <2>10. CompleteMeansAll'
      BY <2>3, <2>5 DEF CompleteMeansAll, HandsOK, total_size, offset, gets
    <2> QED
      BY <2>6, <2>8, <2>9, <2>10
  <1>2. ASSUME Quiet
        PROVE  RingExact' /\ InStep'
    BY <1>2 DEF RingExact, InStep, total_size
  <1>3. ASSUME Quiet, UNCHANGED gets
        PROVE  ReplayExact' /\ CompleteMeansAll'
    BY <1>3 DEF ReplayExact, CompleteMeansAll, total_size, offset, gets
  <1>4. CASE \E r \in Requests : (Post(r) \/ PeerDrop(r)) /\ ~NextChunk(r)
    <2>1. Quiet /\ UNCHANGED gets
      BY <1>4 DEF Post, PeerDrop, Replace, CancelPrevious, FinalizePrevious,
         HandledWithoutStream,
         ClosedBeforeStream, SetNext, Evict, FinalizeEvicted, EnterNext, StartDrain, NextStopped,
         Destroy, finalize, state
    <2> QED
      BY <2>1, <1>2, <1>3
  <1>5. CASE (\E d \in Deleters : Delete(d)) \/ Collect \/ Stop \/ UNCHANGED svars
    <2>1. Quiet /\ UNCHANGED gets
      BY <1>5 DEF Delete, DeleteErase, DeleteCancel, DeleteFinalize, Collect, Stop,
         StopCollector,
         StopClear, StopFinalize, StopDone, finalize, state, posts, svars
    <2> QED
      BY <2>1, <1>2, <1>3
  <1>6. ASSUME NEW g \in Readers, Get(g)
        PROVE  RingExact' /\ InStep' /\ ReplayExact' /\ CompleteMeansAll'
    <2>1. Quiet
      BY <1>6 DEF Get, Read, Lookup, CheckOffset, ReadLost, ReadChunk, ReadEnd, ReaderLeaves,
         state, posts
    <2>2. CASE Lookup(g)
      <3>1. got[g] = <<>>
        BY <2>2 DEF Lookup, HandsOK
      <3>2. Run(<<>>, from'[g])
        BY DEF Run
      <3>3. ReplayExact'
        BY <2>2, <3>1, <3>2 DEF Lookup, ReplayExact, StreamTypeOK
      <3>4. CompleteMeansAll'
        BY <2>1, <2>2 DEF Lookup, GotoR, CompleteMeansAll, StreamTypeOK, total_size, offset
      <3> QED
        BY <2>1, <3>3, <3>4, <1>2
    <2>3. CASE CheckOffset(g) \/ ReadLost(g) \/ ReaderLeaves(g)
      <3>1. ReplayExact'
        BY <2>3 DEF CheckOffset, ReadLost, ReaderLeaves, ReplayExact
      <3>2. CompleteMeansAll'
        BY <2>1, <2>3 DEF CheckOffset, ReadLost, ReaderLeaves, GotoR, CompleteMeansAll,
           StreamTypeOK,
           total_size, offset
      <3> QED
        BY <2>1, <3>1, <3>2, <1>2
    <2>4. CASE ReadChunk(g)
      <3>1. ReplayExact'
        BY <2>4, ReadChunkType DEF ReplayExact, ReadChunk
      <3>2. CompleteMeansAll'
        BY <2>1, <2>4, ReadChunkType DEF ReadChunk, CompleteMeansAll, total_size, offset
      <3> QED
        BY <2>1, <3>1, <3>2, <1>2
    <2>5. CASE ReadEnd(g)
      <3>1. ReplayExact'
        BY <2>5 DEF ReadEnd, ReplayExact
      <3>2. CompleteMeansAll'
        BY <2>1, <2>5 DEF ReadEnd, GotoR, CompleteMeansAll, StreamTypeOK, total_size, offset
      <3> QED
        BY <2>1, <3>1, <3>2, <1>2
    <2> QED
      BY <2>2, <2>3, <2>4, <2>5, <1>6 DEF Get, Read
  <1> QED
    BY <1>1, <1>4, <1>5, <1>6 DEF SNext

-----------------------------------------------------------------------------
(* Sessions and the map *)

\* Somebody will finalize s: it can be found in the map, or a thread holds it.
Owned(s) ==
    \/ sessions[Conv[s]] = s
    \/ \E r \in Requests : held[r] = s
    \/ \E d \in Deleters : dheld[d] = s
    \/ s \in snapshot

\* Every step keeps NoSessionLost: a session leaves the map into the hands of a
\* thread, and leaves these hands finalized.
LEMMA OwnedStep ==
    ASSUME StreamAssumption, StreamTypeOK, HandsOK, NoSessionLost, [SNext]_svars
    PROVE  NoSessionLost'
  <1>0. NoSession \notin Requests /\ Conv \in [Requests -> Convs]
    BY DEF StreamAssumption
  <1> SUFFICES ASSUME NEW s \in Requests, wpc'[s] # "idle", s \notin done'
               PROVE  Owned(s)'
    BY DEF NoSessionLost, Owned
  <1>1. wpc[s] # "idle" /\ s \notin done => Owned(s)
    BY DEF NoSessionLost, Owned
  <1>2. ASSUME UNCHANGED <<sessions, held, dheld, snapshot>>, Owned(s)
        PROVE  Owned(s)'
    BY <1>2 DEF Owned
  <1>3. ASSUME NEW r \in Requests, Replace(r) PROVE Owned(s)'
    <2>1. held[r] \notin Requests
      BY <1>3 DEF Replace, HandsOK, HoldingPcs
    <2>2. CASE s = r
      BY <2>2, <1>3, <1>0 DEF Replace, Owned, StreamTypeOK
    <2>3. CASE s # r
      <3>1. Owned(s)
        BY <2>3, <1>3, <1>1 DEF Replace, Goto, StreamTypeOK
      <3> QED
        <4>1. held \in [Requests -> Session] /\ sessions \in [Convs -> Session]
          BY DEF StreamTypeOK
        <4>2. CASE sessions[Conv[s]] = s /\ Conv[s] = Conv[r]
          <5>1. held'[r] = s
            BY <1>0, <4>1, <4>2, <2>1, <3>1, <1>3 DEF Replace
          <5> QED
            BY <5>1 DEF Owned
        <4>3. CASE sessions[Conv[s]] = s /\ Conv[s] # Conv[r]
          <5>1. sessions'[Conv[s]] = s
            BY <1>0, <4>1, <4>3, <2>1, <3>1, <1>3 DEF Replace
          <5> QED
            BY <5>1 DEF Owned
        <4>4. CASE \E q \in Requests : held[q] = s
          <5>1. PICK q \in Requests : held[q] = s
            BY <4>4
          <5>2. held'[q] = s
            BY <5>1, <4>1, <2>1, <3>1, <1>3 DEF Replace
          <5> QED
            BY <5>2 DEF Owned
        <4>5. CASE (\E d \in Deleters : dheld[d] = s) \/ s \in snapshot
          BY <4>5, <2>1, <3>1, <1>3 DEF Replace, Owned, deletes, manager
        <4> QED
          BY <2>1, <3>1, <1>3, <4>2, <4>3, <4>4, <4>5 DEF Owned
    <2> QED
      BY <2>2, <2>3
  <1>4. ASSUME NEW r \in Requests, Evict(r) PROVE Owned(s)'
    <2>1. held[r] \notin Requests
      BY <1>4 DEF Evict, HandsOK, HoldingPcs
    <2>2. Owned(s)
      BY <1>4, <1>1 DEF Evict, Goto, StreamTypeOK
    <2> QED
      <3>1. held \in [Requests -> Session] /\ sessions \in [Convs -> Session]
        BY DEF StreamTypeOK
      <3>2. CASE sessions[Conv[s]] = s /\ Conv[s] = Conv[r]
        <4>1. held'[r] = s
          BY <1>0, <3>1, <3>2, <2>1, <2>2, <1>4 DEF Evict
        <4> QED
          BY <4>1 DEF Owned
      <3>3. CASE sessions[Conv[s]] = s /\ Conv[s] # Conv[r]
        <4>1. sessions'[Conv[s]] = s
          BY <1>0, <3>1, <3>3, <2>1, <2>2, <1>4 DEF Evict
        <4> QED
          BY <4>1 DEF Owned
      <3>4. CASE \E q \in Requests : held[q] = s
        <4>1. PICK q \in Requests : held[q] = s
          BY <3>4
        <4>2. held'[q] = s
          BY <4>1, <3>1, <2>1, <2>2, <1>4 DEF Evict
        <4> QED
          BY <4>2 DEF Owned
      <3>5. CASE (\E d \in Deleters : dheld[d] = s) \/ s \in snapshot
        BY <3>5, <2>1, <2>2, <1>4 DEF Evict, Owned, deletes, manager
      <3> QED
        BY <2>1, <2>2, <1>4, <3>2, <3>3, <3>4, <3>5 DEF Owned
  <1>5. ASSUME NEW r \in Requests, FinalizePrevious(r) \/ FinalizeEvicted(r) PROVE Owned(s)'
    <2>1. Owned(s) /\ s # held[r]
      BY <1>5, <1>1 DEF FinalizePrevious, FinalizeEvicted, finalize, Goto, StreamTypeOK
    <2>2. /\ held' = [held EXCEPT ![r] = NoSession]
          /\ UNCHANGED <<sessions, dheld, snapshot>>
      BY <1>5 DEF FinalizePrevious, FinalizeEvicted, deletes, manager
    <2>3. \A q \in Requests : held[q] = s => held'[q] = s
      BY <2>1, <2>2 DEF StreamTypeOK
    <2> QED
      BY <2>1, <2>2, <2>3 DEF Owned
  <1>6. ASSUME NEW r \in Requests,
               (Post(r) \/ PeerDrop(r)) /\ UNCHANGED <<sessions, held>> /\ wpc[r] # "idle"
        PROVE  Owned(s)'
    <2>1. UNCHANGED <<dheld, snapshot>> /\ done \subseteq done'
      BY <1>6 DEF Post, PeerDrop, Replace, CancelPrevious, FinalizePrevious,
         HandledWithoutStream,
         ClosedBeforeStream, SetNext, Evict, FinalizeEvicted, EnterNext, StartDrain, NextChunk,
         NextStopped, Destroy, finalize, deletes, manager
    <2>2. wpc[s] # "idle"
      BY <1>6 DEF Post, PeerDrop, Replace, CancelPrevious, FinalizePrevious,
         HandledWithoutStream,
         ClosedBeforeStream, SetNext, Evict, FinalizeEvicted, EnterNext, StartDrain, NextChunk,
         NextStopped, Destroy, Goto, StreamTypeOK
    <2> QED
      BY <2>1, <2>2, <1>6, <1>1, <1>2
  <1>7. ASSUME NEW d \in Deleters, DeleteErase(d) PROVE Owned(s)'
    <2>1. dheld[d] \notin Requests
      BY <1>7 DEF DeleteErase, HandsOK
    <2>2. Owned(s)
      BY <1>7, <1>1 DEF DeleteErase, posts
    <2> QED
      BY <2>1, <2>2, <1>7, <1>0 DEF DeleteErase, Owned, StreamTypeOK, posts, manager
  <1>8. ASSUME NEW d \in Deleters, DeleteCancel(d) PROVE Owned(s)'
    BY <1>8, <1>1, <1>2 DEF DeleteCancel, posts, manager
  <1>9. ASSUME NEW d \in Deleters, DeleteFinalize(d) PROVE Owned(s)'
    <2>1. Owned(s) /\ s # dheld[d]
      BY <1>9, <1>1 DEF DeleteFinalize, finalize, posts
    <2> QED
      BY <2>1, <1>9 DEF DeleteFinalize, Owned, StreamTypeOK, posts, manager
  <1>10. ASSUME NEW g \in Readers, Get(g) PROVE Owned(s)'
    BY <1>10, <1>1, <1>2 DEF Get, Read, Lookup, CheckOffset, ReadLost, ReadChunk, ReadEnd,
       ReaderLeaves, posts, deletes, manager
  <1>11. ASSUME Collect PROVE Owned(s)'
    <2>1. Owned(s)
      BY <1>11, <1>1 DEF Collect, posts
    <2>2. sessions[Conv[s]] = s => sessions'[Conv[s]] = s
      BY <1>11, <1>0 DEF Collect
    <2> QED
      BY <2>1, <2>2, <1>11 DEF Collect, Owned, posts, deletes, manager
  <1>12. ASSUME StopClear PROVE Owned(s)'
    <2>1. Owned(s)
      BY <1>12, <1>1 DEF StopClear, posts
    <2>2. snapshot' = {sessions[c] : c \in Convs} \ {NoSession}
      BY <1>12 DEF StopClear
    <2>3. CASE s \in snapshot
      <3>1. mpc # "clearing"
        BY <2>3 DEF HandsOK
      <3> QED
        BY <3>1, <1>12 DEF StopClear
    <2>4. CASE sessions[Conv[s]] = s
      BY <2>2, <2>4, <1>0 DEF Owned
    <2> QED
      BY <2>1, <2>3, <2>4, <1>12 DEF StopClear, Owned, posts, deletes
  <1>13. ASSUME StopFinalize PROVE Owned(s)'
    BY <1>13, <1>1 DEF StopFinalize, finalize, Owned, posts, deletes
  <1>14. CASE StopCollector \/ StopDone \/ UNCHANGED svars
    BY <1>14, <1>1, <1>2 DEF StopCollector, StopDone, svars, posts, deletes, manager
  <1>15. ASSUME NEW r \in Requests, Post(r) \/ PeerDrop(r)
         PROVE  \/ Replace(r) \/ Evict(r) \/ FinalizePrevious(r) \/ FinalizeEvicted(r)
                \/ UNCHANGED <<sessions, held>> /\ wpc[r] # "idle"
    BY <1>15 DEF Post, PeerDrop, CancelPrevious, HandledWithoutStream,
       ClosedBeforeStream, SetNext, EnterNext, StartDrain, NextChunk, NextStopped, Destroy
  <1> QED
    BY <1>3, <1>4, <1>5, <1>6, <1>7, <1>8, <1>9, <1>10, <1>11, <1>12, <1>13, <1>14, <1>15
       DEF SNext, Delete, Stop

-----------------------------------------------------------------------------
-----------------------------------------------------------------------------
(* Rings that are complete *)

Alone(s) == \A r \in (MayFail \cup MayDisconnect) \ {s} : Conv[r] # Conv[s]

\* The map has a session under its own conversation; who finalizes a session other than
\* its producer has cancelled it, has failed itself, or stops the server.
EndersOK ==
    /\ \A c \in Convs : sessions[c] \in Requests => Conv[sessions[c]] = c
    /\ gone \subseteq MayDisconnect
    /\ \A r \in Requests :
        /\ wpc[r] = "finalize_previous" => held[r] \in cancelled
        /\ wpc[r] = "finalize_evicted" => Conv[held[r]] = Conv[r]
        /\ wpc[r] \in {"evicting", "finalize_evicted"}
           => r \in MayFail \cup MayDisconnect \/ mpc # "running"
    /\ \A d \in Deleters : dpc[d] = "finalize" => dheld[d] \in cancelled

\* A session that is alone and has been finalized, though nobody ended it, has all its
\* producer generated, which generates no more.
FinishedKept ==
    \A s \in Requests :
        Alone(s) /\ s \in done /\ s \notin cancelled /\ mpc = "running"
        => wpc[s] \in {"destroying", "over"} /\ total_size(s) = produced[s].bytes


\* Every step keeps what is known of those who end a session.
LEMMA EndersStep ==
    ASSUME StreamAssumption, StreamTypeOK, HandsOK, EndersOK, [SNext]_svars
    PROVE  EndersOK'
  <1> USE DEF EndersOK, state, posts, deletes, gets, manager
  <1>0. NoSession \notin Requests /\ Conv \in [Requests -> Convs]
    BY DEF StreamAssumption
  <1>00. /\ sessions \in [Convs -> Session] /\ wpc \in [Requests -> WorkerPcs]
         /\ held \in [Requests -> Session] /\ dpc \in [Deleters -> {"idle", "cancel", "finalize", "over"}]
         /\ dheld \in [Deleters -> Session]
    BY DEF StreamTypeOK
  <1>1. ASSUME NEW r \in Requests, Replace(r) PROVE EndersOK'
    BY <1>0, <1>00, <1>1 DEF Replace, Goto
  <1>2. ASSUME NEW r \in Requests, CancelPrevious(r) PROVE EndersOK'
    BY <1>00, <1>2 DEF CancelPrevious, cancel, Goto
  <1>3. ASSUME NEW r \in Requests, FinalizePrevious(r) PROVE EndersOK'
    BY <1>00, <1>3 DEF FinalizePrevious, Goto
  <1>4. ASSUME NEW r \in Requests, PeerDrop(r) PROVE EndersOK'
    BY <1>00, <1>4 DEF PeerDrop
  <1>5. ASSUME NEW r \in Requests, HandledWithoutStream(r) \/ ClosedBeforeStream(r) PROVE EndersOK'
    BY <1>00, <1>5 DEF HandledWithoutStream, ClosedBeforeStream, Goto
  <1>6. ASSUME NEW r \in Requests, Evict(r) PROVE EndersOK'
    <2>1. sessions[Conv[r]] # NoSession => Conv[sessions[Conv[r]]] = Conv[r]
      BY <1>0, <1>00 DEF Session
    <2>2. \A c \in Convs : sessions'[c] \in Requests => Conv[sessions'[c]] = c
      BY <1>0, <1>00, <1>6 DEF Evict
    <2>. QED  BY <1>0, <1>00, <1>6, <2>1, <2>2 DEF Evict, Goto
  <1>7. ASSUME NEW r \in Requests, FinalizeEvicted(r) PROVE EndersOK'
    BY <1>00, <1>7 DEF FinalizeEvicted, Goto
  <1>8. ASSUME NEW r \in Requests,
               SetNext(r) \/ EnterNext(r) \/ StartDrain(r) \/ NextStopped(r) \/ Destroy(r)
        PROVE  EndersOK'
    BY <1>00, <1>8 DEF SetNext, EnterNext, StartDrain, NextStopped, Destroy, Goto
  <1>9. ASSUME NEW r \in Requests, NextChunk(r) PROVE EndersOK'
    <2>1. /\ UNCHANGED <<sessions, done, cancelled, held, gone, dpc, dheld, mpc>>
          /\ wpc' \in {[wpc EXCEPT ![r] = l] : l \in {"destroying", "streaming", "draining"}}
      BY <1>9 DEF NextChunk, Goto
    <2>. QED  BY <1>00, <2>1
  <1>10. ASSUME NEW d \in Deleters, DeleteErase(d) PROVE EndersOK'
    BY <1>0, <1>00, <1>10 DEF DeleteErase
  <1>11. ASSUME NEW d \in Deleters, DeleteCancel(d) PROVE EndersOK'
    BY <1>00, <1>11 DEF DeleteCancel, cancel
  <1>12. ASSUME NEW d \in Deleters, DeleteFinalize(d) PROVE EndersOK'
    BY <1>00, <1>12 DEF DeleteFinalize
  <1>13. ASSUME NEW g \in Readers, Get(g) PROVE EndersOK'
    BY <1>13 DEF Get, Read, Lookup, CheckOffset, ReadLost, ReadChunk, ReadEnd, ReaderLeaves
  <1>14. CASE Collect
    BY <1>0, <1>14 DEF Collect
  <1>15. CASE StopCollector \/ StopFinalize \/ StopDone
    BY <1>15 DEF StopCollector, StopFinalize, StopDone
  <1>16. CASE StopClear
    BY <1>0, <1>16 DEF StopClear
  <1>17. CASE UNCHANGED svars
    BY <1>17 DEF svars
  <1> QED
    BY <1>1, <1>2, <1>3, <1>4, <1>5, <1>6, <1>7, <1>8, <1>9, <1>10, <1>11, <1>12, <1>13, <1>14,
       <1>15, <1>16, <1>17 DEF SNext, Post, Delete, Stop

\* Every step keeps the rings of those that have finished.
LEMMA FinishedStep ==
    ASSUME StreamAssumption, StreamTypeOK, HandsOK, InStep, EndersOK, FinishedKept, [SNext]_svars
    PROVE  FinishedKept'
  <1> SUFFICES ASSUME NEW s \in Requests, Alone(s), s \in done', s \notin cancelled', mpc' = "running"
               PROVE  wpc'[s] \in {"destroying", "over"} /\ total_size(s)' = produced'[s].bytes
    BY DEF FinishedKept
  <1> DEFINE Goal == wpc'[s] \in {"destroying", "over"} /\ total_size(s)' = produced'[s].bytes
  <1> USE DEF state, posts, deletes, gets, manager
  <1>0. NoSession \notin Requests /\ wpc \in [Requests -> WorkerPcs]
    BY DEF StreamAssumption, StreamTypeOK
  <1>1. s \in done /\ s \notin cancelled /\ mpc = "running"
        => wpc[s] \in {"destroying", "over"} /\ total_size(s) = produced[s].bytes
    BY DEF FinishedKept
  <1>2. s \notin done => total_size(s) = produced[s].bytes
    BY DEF InStep
  <1>3. UNCHANGED <<buffer, prefix_dropped, produced>>
        => total_size(s)' = total_size(s) /\ produced'[s] = produced[s]
    BY DEF total_size
  <1>4. ASSUME NEW r \in Requests, Replace(r) \/ CancelPrevious(r) \/ PeerDrop(r) \/ SetNext(r)
               \/ HandledWithoutStream(r) \/ ClosedBeforeStream(r) \/ Evict(r) \/ EnterNext(r)
               \/ StartDrain(r) \/ NextStopped(r)
        PROVE  Goal
    <2>1. /\ UNCHANGED <<buffer, prefix_dropped, produced, done, mpc>> /\ s \notin cancelled
          /\ wpc'[s] = wpc[s] \/ wpc[s] \notin {"destroying", "over"}
      BY <1>0, <1>4 DEF Replace, CancelPrevious, PeerDrop, SetNext, HandledWithoutStream,
         ClosedBeforeStream, Evict, EnterNext, StartDrain, NextStopped, Goto, cancel
    <2> QED
      BY <1>1, <1>3, <2>1
  <1>5. ASSUME NEW r \in Requests, FinalizePrevious(r) PROVE Goal
    <2>1. held[r] \in cancelled
      BY <1>5 DEF FinalizePrevious, EndersOK
    <2>2. /\ UNCHANGED <<buffer, prefix_dropped, produced, cancelled, mpc>> /\ done' = done \cup {held[r]}
          /\ wpc'[s] = wpc[s] \/ wpc[s] \notin {"destroying", "over"}
      BY <1>0, <1>5 DEF FinalizePrevious, finalize, Goto
    <2> QED
      BY <1>1, <1>3, <2>1, <2>2
  <1>6. ASSUME NEW r \in Requests, FinalizeEvicted(r) PROVE Goal
    <2>1. /\ UNCHANGED <<buffer, prefix_dropped, produced, cancelled, mpc>> /\ done' = done \cup {held[r]}
          /\ wpc[r] = "finalize_evicted" /\ wpc' = [wpc EXCEPT ![r] = "destroying"]
      BY <1>6 DEF FinalizeEvicted, finalize, Goto
    <2>2. s \in done \/ s = r
      <3>1. CASE s = held[r]
        <4>1. Conv[s] = Conv[r] /\ r \in MayFail \cup MayDisconnect
          BY <2>1, <3>1 DEF EndersOK
        <4> QED
          BY <4>1 DEF Alone
      <3> QED
        BY <2>1, <3>1
    <2> QED
      BY <1>0, <1>1, <1>2, <1>3, <2>1, <2>2
  <1>7. ASSUME NEW r \in Requests, NextChunk(r) PROVE Goal
    <2>1. /\ UNCHANGED <<done, cancelled, mpc>> /\ wpc[r] \in {"in_next", "in_drain"}
          /\ \A q \in Requests : q # r => wpc'[q] = wpc[q] /\ produced'[q] = produced[q]
      BY <1>7 DEF NextChunk, Goto, StreamTypeOK
    <2>2. s # r
      BY <1>1, <2>1
    <2>3. buffer'[s] = buffer[s] /\ prefix_dropped'[s] = prefix_dropped[s]
      <3>1. PICK n \in ChunkSizes : append(r, [i \in 1..n |-> produced[r].bytes + i])
        BY <1>7 DEF NextChunk
      <3> DEFINE data == [i \in 1..n |-> produced[r].bytes + i]
      <3>2. append(r, data)
        BY <3>1
      <3> HIDE DEF data
      <3> QED
        BY <2>2, <3>2, AppendCases DEF StreamTypeOK
    <2> QED
      BY <1>1, <2>1, <2>2, <2>3 DEF total_size
  <1>8. ASSUME NEW r \in Requests, Destroy(r) PROVE Goal
    <2>1. /\ UNCHANGED <<buffer, prefix_dropped, produced, cancelled, mpc>> /\ done' = done \cup {r}
          /\ wpc' = [wpc EXCEPT ![r] = "over"]
      BY <1>8 DEF Destroy, finalize, Goto
    <2> QED
      BY <1>0, <1>1, <1>2, <1>3, <2>1
  <1>9. ASSUME NEW d \in Deleters, Delete(d) PROVE Goal
    <2>1. /\ UNCHANGED <<buffer, prefix_dropped, produced, wpc, mpc>> /\ cancelled \subseteq cancelled'
          /\ done' = done \/ (done' = done \cup {dheld[d]} /\ dpc[d] = "finalize")
      BY <1>9 DEF Delete, DeleteErase, DeleteCancel, DeleteFinalize, cancel, finalize
    <2>2. dpc[d] = "finalize" => dheld[d] \in cancelled
      BY DEF EndersOK
    <2> QED
      BY <1>1, <1>3, <2>1, <2>2
  <1>10. ASSUME NEW g \in Readers, Get(g) PROVE Goal
    BY <1>1, <1>3, <1>10 DEF Get, Read, Lookup, CheckOffset, ReadLost, ReadChunk, ReadEnd, ReaderLeaves
  <1>11. CASE Collect \/ UNCHANGED svars
    BY <1>1, <1>3, <1>11 DEF Collect, svars
  <1>12. CASE Stop
    BY <1>12 DEF Stop, StopCollector, StopClear, StopFinalize, StopDone
  <1> QED
    BY <1>4, <1>5, <1>6, <1>7, <1>8, <1>9, <1>10, <1>11, <1>12 DEF SNext, Post

(* The theorems *)

\* StreamInv is an invariant of the sessions.
THEOREM StreamInvariant == SSpec => []StreamInv
  <1>1. SInit => StreamInv
    <2> SUFFICES ASSUME SInit PROVE StreamInv
      OBVIOUS
    <2> USE DEF SInit
    <2>1. StreamTypeOK
      BY DEF StreamTypeOK, WorkerPcs, ReaderPcs, Session
    <2>2. HandsOK
      BY StreamAssumption DEF StreamAssumption, HandsOK, HoldingPcs
    <2>3. RingExact
      BY StreamAssumption DEF StreamAssumption, RingExact, Run
    <2>4. InStep
      BY DEF InStep, total_size
    <2>5. ReplayExact /\ CompleteMeansAll /\ NoSessionLost
      BY DEF ReplayExact, Run, CompleteMeansAll, NoSessionLost
    <2> QED
      BY <2>1, <2>2, <2>3, <2>4, <2>5 DEF StreamInv
  <1>2. StreamInv /\ [SNext]_svars => StreamInv'
    BY StreamAssumption, TypeStep, ReplayStep, OwnedStep DEF StreamInv
  <1> QED
    BY <1>1, <1>2, PTL DEF SSpec

\* Every variable keeps its type, whatever POST, GET, DELETE, the collector and
\* stop_gc() do.
THEOREM StreamTypesCorrect == SSpec => []StreamTypeOK
  <1>1. StreamInv => StreamTypeOK
    BY DEF StreamInv
  <1> QED
    BY <1>1, StreamInvariant, PTL

\* append() keeps each ring within its cap and each byte at its place, for any cap
\* and any sizes of the chunks.
THEOREM RingIsExact == SSpec => []RingExact
  <1>1. StreamInv => RingExact
    BY DEF StreamInv
  <1> QED
    BY <1>1, StreamInvariant, PTL

\* read_from() sends every reader a contiguous part of the stream, however its
\* calls interleave with append().
THEOREM ReplayIsExact == SSpec => []ReplayExact
  <1>1. StreamInv => ReplayExact
    BY DEF StreamInv
  <1> QED
    BY <1>1, StreamInvariant, PTL

\* A reader that ends because its session is done has had all of it.
THEOREM CompleteIsAll == SSpec => []CompleteMeansAll
  <1>1. StreamInv => CompleteMeansAll
    BY DEF StreamInv
  <1> QED
    BY <1>1, StreamInvariant, PTL

\* No session is lost between the map and the thread that finalizes it.
THEOREM SessionsAreOwned == SSpec => []NoSessionLost
  <1>1. StreamInv => NoSessionLost
    BY DEF StreamInv
  <1> QED
    BY <1>1, StreamInvariant, PTL

\* RingCompleteAlone: as long as nobody cancels its session and the server runs, all that
\* a request generates is in its ring, for requests that share their conversation with
\* none that may be over before it streams.
THEOREM RingsAreComplete == SSpec => []RingCompleteAlone
  <1>1. SInit => EndersOK /\ FinishedKept
    BY StreamAssumption DEF SInit, EndersOK, FinishedKept, StreamAssumption
  <1>2. StreamInv /\ EndersOK /\ FinishedKept /\ [SNext]_svars => EndersOK' /\ FinishedKept'
    BY StreamAssumption, EndersStep, FinishedStep DEF StreamInv
  <1>3. StreamInv /\ FinishedKept => RingCompleteAlone
    BY DEF StreamInv, InStep, FinishedKept, RingCompleteAlone, RingKept, Alone
  <1> QED
    BY <1>1, <1>2, <1>3, StreamInvariant, PTL DEF SSpec
=============================================================================
