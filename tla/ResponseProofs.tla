--------------------------- MODULE ResponseProofs ----------------------------
(***************************************************************************)
(* Proofs about ResponseLife, for any number of readers and tasks.         *)
(*                                                                         *)
(* What the readers and the server do to the result queue is appending a   *)
(* result and removing some: Draws(s, q) says that s is left of q after a  *)
(* removal.  CompleteAnswer follows from where the final result of a task  *)
(* can be: it is sent when the life of the task ends, waits in the queue   *)
(* at most once, and is counted when it is taken out.                      *)
(***************************************************************************)
EXTENDS ResponseLife, SubsequenceProofs, TLAPS, SequenceTheorems, FiniteSetTheorems,
        WellFoundedInduction

-----------------------------------------------------------------------------
(* Removing results *)

\* s holds some of the results of q, in their order.
Draws(s, q) ==
    \E f \in [DOMAIN s -> DOMAIN q] :
        /\ \A k, l \in DOMAIN s : k < l => f[k] < f[l]
        /\ \A k \in DOMAIN s : s[k] = q[f[k]]

\* remove_waiting_task_id() takes out the results of the id, and no other.
LEMMA WithoutDraws ==
    ASSUME NEW S, NEW q \in Seq(S), NEW id
    PROVE  /\ Without(q, id) \in Seq(S)
           /\ Draws(Without(q, id), q)
           /\ \A k \in DOMAIN Without(q, id) : Without(q, id)[k].id # id
           /\ \A i \in DOMAIN q : q[i].id # id =>
                  \E k \in DOMAIN Without(q, id) : Without(q, id)[k] = q[i]
  <1> DEFINE stay == {i \in DOMAIN q : q[i].id # id}
             w == Picked(q, stay)
             n == Cardinality(stay)
  <1>1. Without(q, id) = w
    BY DEF Without
  <1>2. stay \in SUBSET DOMAIN q
    OBVIOUS
  <1>3. \A i \in DOMAIN q : i \in stay <=> q[i].id # id
    OBVIOUS
  <1> HIDE DEF stay
  <1>4. w \in Seq(S) /\ DOMAIN w = 1 .. n
    BY <1>2, PickedType
  <1>5. \E f \in [1 .. n -> stay] :
               /\ \A k, l \in 1 .. n : k < l => f[k] < f[l]
               /\ \A k \in 1 .. n : w[k] = q[f[k]]
               /\ \A i \in stay : \E k \in 1 .. n : f[k] = i
    BY <1>2, PickedOrder
  <1> HIDE DEF w, n
  <1>6. PICK f \in [1 .. n -> stay] :
               /\ \A k, l \in 1 .. n : k < l => f[k] < f[l]
               /\ \A k \in 1 .. n : w[k] = q[f[k]]
               /\ \A i \in stay : \E k \in 1 .. n : f[k] = i
    BY <1>5
  <1>7. \A k \in DOMAIN w : f[k] \in DOMAIN q /\ q[f[k]].id # id /\ w[k] = q[f[k]]
    BY <1>2, <1>3, <1>4, <1>6
  <1>8. Draws(w, q)
    <2>1. f \in [DOMAIN w -> DOMAIN q]
      BY <1>2, <1>4, <1>6
    <2> QED
      BY <1>4, <1>6, <1>7, <2>1 DEF Draws
  <1>9. \A i \in DOMAIN q : q[i].id # id => \E k \in DOMAIN w : w[k] = q[i]
    BY <1>3, <1>4, <1>6
  <1> QED
    BY <1>1, <1>4, <1>7, <1>8, <1>9

\* recv_with_timeout() takes out the result it returns, and no other.
LEMMA RemoveAtDraws ==
    ASSUME NEW S, NEW q \in Seq(S), NEW i \in 1 .. Len(q)
    PROVE  /\ RemoveAt(q, i) \in Seq(S)
           /\ Draws(RemoveAt(q, i), q)
           /\ \A k \in DOMAIN RemoveAt(q, i) :
                 \E j \in DOMAIN q \ {i} : RemoveAt(q, i)[k] = q[j]
           /\ \A j \in DOMAIN q \ {i} :
                 \E k \in DOMAIN RemoveAt(q, i) : RemoveAt(q, i)[k] = q[j]
  <1> DEFINE a == SubSeq(q, 1, i - 1)
             b == SubSeq(q, i + 1, Len(q))
  <1>1. Len(q) \in Nat /\ i \in Int /\ \A m \in 1 .. Len(q) : q[m] \in S
    BY LenProperties, ElementOfSeq
  <1>2. /\ a \in Seq(S) /\ Len(a) = i - 1
        /\ \A m \in 1 .. i - 1 : a[m] = q[m]
    BY <1>1, SubSeqProperties, \A m \in 1 .. i - 1 : m \in 1 .. Len(q)
  <1>3. /\ b \in Seq(S) /\ Len(b) = Len(q) - i
        /\ \A m \in 1 .. Len(q) - i : b[m] = q[m + i]
    BY <1>1, SubSeqProperties, \A m \in i + 1 .. Len(q) : m \in 1 .. Len(q)
  <1> HIDE DEF a, b
  <1>4. Len(a) + Len(b) = Len(q) - 1
    BY <1>1, <1>2, <1>3
  <1>5. /\ a \o b \in Seq(S) /\ Len(a \o b) = Len(q) - 1
        /\ \A k \in 1 .. Len(q) - 1 :
              (a \o b)[k] = IF k <= Len(a) THEN a[k] ELSE b[k - Len(a)]
    <2>1. /\ a \o b \in Seq(S) /\ Len(a \o b) = Len(a) + Len(b)
          /\ \A k \in 1 .. Len(a) + Len(b) :
                (a \o b)[k] = IF k <= Len(a) THEN a[k] ELSE b[k - Len(a)]
      BY <1>2, <1>3, ConcatProperties
    <2> QED
      BY <1>4, <2>1
  <1>6. DOMAIN (a \o b) = 1 .. Len(q) - 1
    BY <1>5, LenProperties
  <1>7. ASSUME NEW k \in 1 .. Len(q) - 1
        PROVE  (a \o b)[k] = IF k < i THEN q[k] ELSE q[k + 1]
    <2>1. CASE k < i
      BY <1>1, <1>2, <1>5, <2>1
    <2>2. CASE ~(k < i)
      <3>1. /\ k - Len(a) \in 1 .. Len(q) - i /\ (k - Len(a)) + i = k + 1
            /\ ~(k <= Len(a))
        BY <1>1, <1>2, <2>2
      <3>2. b[k - Len(a)] = q[(k - Len(a)) + i]
        BY <1>3, <3>1
      <3> QED
        BY <1>5, <2>2, <3>1, <3>2
    <2> QED
      BY <2>1, <2>2
  <1> DEFINE r == a \o b
             f == [k \in 1 .. Len(q) - 1 |-> IF k < i THEN k ELSE k + 1]
  <1>8. DOMAIN q = 1 .. Len(q)
    BY LenProperties
  <1>9. /\ f \in [1 .. Len(q) - 1 -> DOMAIN q]
        /\ \A k, l \in 1 .. Len(q) - 1 : k < l => f[k] < f[l]
        /\ \A k \in 1 .. Len(q) - 1 : f[k] # i
        /\ \A k \in 1 .. Len(q) - 1 : r[k] = q[f[k]]
    <2>1. \A k \in 1 .. Len(q) - 1 : f[k] = IF k < i THEN k ELSE k + 1
      OBVIOUS
    <2>2. \A k \in 1 .. Len(q) - 1 : r[k] = q[f[k]]
      <3> SUFFICES ASSUME NEW k \in 1 .. Len(q) - 1 PROVE r[k] = q[f[k]]
        OBVIOUS
      <3>1. r[k] = IF k < i THEN q[k] ELSE q[k + 1]
        BY <1>7
      <3> HIDE DEF f, r
      <3> QED
        BY <2>1, <3>1
    <2>3. \A k \in 1 .. Len(q) - 1 : f[k] \in DOMAIN q /\ f[k] # i
      BY <1>1, <1>8
    <2>4. \A k, l \in 1 .. Len(q) - 1 : k < l => f[k] < f[l]
      BY <1>1
    <2>5. f \in [1 .. Len(q) - 1 -> DOMAIN q]
      BY <2>3
    <2> HIDE DEF f, r
    <2> QED
      BY <2>2, <2>3, <2>4, <2>5
  <1>10. \A j \in DOMAIN q \ {i} : \E k \in 1 .. Len(q) - 1 : f[k] = j
    <2> SUFFICES ASSUME NEW j \in DOMAIN q \ {i}
                 PROVE  \E k \in 1 .. Len(q) - 1 : f[k] = j
      OBVIOUS
    <2>1. CASE j < i
      BY <1>1, <1>8, <2>1
    <2>2. CASE ~(j < i)
      <3>1. j - 1 \in 1 .. Len(q) - 1 /\ ~(j - 1 < i) /\ (j - 1) + 1 = j
        BY <1>1, <1>8, <2>2
      <3> QED
        BY <3>1
    <2> QED
      BY <2>1, <2>2
  <1> HIDE DEF f, r
  <1>11. DOMAIN r = 1 .. Len(q) - 1 /\ r \in Seq(S) /\ RemoveAt(q, i) = r
    BY <1>5, <1>6 DEF RemoveAt, a, b, r
  <1>12. Draws(r, q)
    BY <1>9, <1>11 DEF Draws
  <1>13. \A k \in DOMAIN r : \E j \in DOMAIN q \ {i} : r[k] = q[j]
    BY <1>9, <1>11
  <1>14. \A j \in DOMAIN q \ {i} : \E k \in DOMAIN r : r[k] = q[j]
    <2> SUFFICES ASSUME NEW j \in DOMAIN q \ {i} PROVE \E k \in DOMAIN r : r[k] = q[j]
      OBVIOUS
    <2>1. PICK k \in 1 .. Len(q) - 1 : f[k] = j
      BY <1>10
    <2>2. r[k] = q[f[k]]
      BY <1>9
    <2> QED
      BY <1>11, <2>1, <2>2
  <1> QED
    BY <1>11, <1>12, <1>13, <1>14

-----------------------------------------------------------------------------
(* The invariant *)

Lives == {"none", "pending", "running", "over"}

LTypeOK ==
    /\ waiting_task_ids \subseteq Tasks
    /\ queue_results \in Seq(Result)
    /\ received \in [Readers -> [count : Nat, ids : SUBSET Tasks]]
    /\ topurge \in [Readers -> SUBSET Tasks]
    /\ rpc \in [Readers -> ReaderPcs]
    /\ life \in [Tasks -> Lives]
    /\ terminated \in BOOLEAN /\ halted \in BOOLEAN

\* received_count counts tasks of the reader, each once.
Counted ==
    \A r \in Readers : /\ received[r].ids \subseteq IdTasks[r]
                       /\ received[r].count = Cardinality(received[r].ids)

\* The server knows nothing of a task before it is posted.
NotPosted ==
    \A r \in Readers : rpc[r] \in {"new", "registered"} =>
        \A id \in IdTasks[r] : life[id] = "none"

\* A final result was sent by a task that is over, whether it waits or was read.
OverWhenFinal ==
    /\ \A i \in DOMAIN queue_results :
          queue_results[i].kind = "final" => life[queue_results[i].id] = "over"
    /\ \A r \in Readers : \A id \in received[r].ids : life[id] = "over"

\* It is the last result of its task: nothing waits behind it, nor after it was read.
FinalIsLast ==
    /\ \A i, j \in DOMAIN queue_results :
          i < j /\ queue_results[i].id = queue_results[j].id => queue_results[i].kind # "final"
    /\ \A i \in DOMAIN queue_results : \A r \in Readers :
          queue_results[i].id \notin received[r].ids

\* Every waiting result has a reader that waits for it or is about to remove it.
Awaited ==
    /\ \A r \in Readers : topurge[r] \subseteq IdTasks[r]
    /\ \A i \in DOMAIN queue_results :
          \/ queue_results[i].id \in waiting_task_ids
          \/ \E r \in Readers : queue_results[i].id \in topurge[r]

LInv == LTypeOK /\ Counted /\ NotPosted /\ OverWhenFinal /\ FinalIsLast /\ Awaited

\* What send() does: nothing, or one more result of an id somebody waits for.
LEMMA SendAppends ==
    ASSUME queue_results \in Seq(Result), NEW id \in Tasks,
           NEW kind \in {"partial", "final", "error"}, Send(id, kind)
    PROVE  /\ queue_results' \in Seq(Result) /\ waiting_task_ids' = waiting_task_ids
           /\ \/ queue_results' = queue_results
              \/ /\ id \in waiting_task_ids
                 /\ DOMAIN queue_results' = DOMAIN queue_results \cup {Len(queue_results) + 1}
                 /\ Len(queue_results) + 1 \notin DOMAIN queue_results
                 /\ DOMAIN queue_results = 1 .. Len(queue_results) /\ Len(queue_results) \in Nat
                 /\ \A i \in DOMAIN queue_results : queue_results'[i] = queue_results[i]
                 /\ queue_results'[Len(queue_results) + 1] = [id |-> id, kind |-> kind]
  <1> DEFINE x == [id |-> id, kind |-> kind]
  <1>1. x \in Result
    BY DEF Result
  <1> HIDE DEF x
  <1>2. /\ Append(queue_results, x) \in Seq(Result)
        /\ Len(Append(queue_results, x)) = Len(queue_results) + 1
        /\ \A i \in 1 .. Len(queue_results) : Append(queue_results, x)[i] = queue_results[i]
        /\ Append(queue_results, x)[Len(queue_results) + 1] = x
    BY <1>1, AppendProperties
  <1>3. /\ DOMAIN queue_results = 1 .. Len(queue_results) /\ Len(queue_results) \in Nat
        /\ DOMAIN Append(queue_results, x) = 1 .. Len(queue_results) + 1
    BY <1>2, LenProperties
  <1>4. CASE id \in waiting_task_ids
    <2>1. queue_results' = Append(queue_results, x) /\ waiting_task_ids' = waiting_task_ids
      BY <1>4 DEF Send, x
    <2>2. 1 .. Len(queue_results) + 1 = (1 .. Len(queue_results)) \cup {Len(queue_results) + 1}
      BY <1>3
    <2>3. Len(queue_results) + 1 \notin 1 .. Len(queue_results)
      BY <1>3
    <2> QED
      BY <1>2, <1>3, <1>4, <2>1, <2>2, <2>3 DEF x
  <1>5. CASE id \notin waiting_task_ids
    BY <1>5 DEF Send
  <1> QED
    BY <1>4, <1>5

\* A set of naturals that is not empty has a least element.
LEMMA LeastResult ==
    ASSUME NEW T, T \subseteq Nat, T # {}
    PROVE  \E i \in T : \A j \in T : i <= j
  <1>1. PICK i \in T : \A j \in T : ~(<<j, i>> \in OpToRel(<, Nat))
    BY NatLessThanWellFounded, WFMin, Zenon
  <1>2. \A j \in T : ~(j < i)
    BY <1>1, Zenon DEF OpToRel
  <1> QED
    BY <1>2

\* The results of the task of a reader that come first are its earliest.
LEMMA FirstIsLeast ==
    ASSUME queue_results \in Seq(Result), NEW ids, ResultsFor(ids) # {}
    PROVE  /\ FirstFor(ids) \in ResultsFor(ids)
           /\ FirstFor(ids) \in 1 .. Len(queue_results)
           /\ \A j \in ResultsFor(ids) : FirstFor(ids) <= j
  <1>1. DOMAIN queue_results = 1 .. Len(queue_results)
    BY LenProperties
  <1>2. ResultsFor(ids) \subseteq Nat /\ ResultsFor(ids) \subseteq 1 .. Len(queue_results)
    BY <1>1 DEF ResultsFor
  <1>3. \E i \in ResultsFor(ids) : \A j \in ResultsFor(ids) : i <= j
    BY <1>2, LeastResult
  <1> QED
    BY <1>2, <1>3 DEF FirstFor

\* Removing results keeps what is said of those that stay.
LEMMA RemovingKeeps ==
    ASSUME LTypeOK, OverWhenFinal, FinalIsLast, queue_results' \in Seq(Result),
           Draws(queue_results', queue_results), UNCHANGED <<received, life>>
    PROVE  OverWhenFinal' /\ FinalIsLast'
  <1>1. PICK f \in [DOMAIN queue_results' -> DOMAIN queue_results] :
            /\ \A k, l \in DOMAIN queue_results' : k < l => f[k] < f[l]
            /\ \A k \in DOMAIN queue_results' : queue_results'[k] = queue_results[f[k]]
    BY DEF Draws
  <1>2. OverWhenFinal'
    BY <1>1 DEF OverWhenFinal
  <1>3. FinalIsLast'
    BY <1>1 DEF FinalIsLast
  <1> QED
    BY <1>2, <1>3

\* The results of the queue are results.
LEMMA ResultTypes ==
    ASSUME LTypeOK
    PROVE  \A i \in DOMAIN queue_results :
              queue_results[i] \in Result /\ queue_results[i].id \in Tasks
  <1>1. DOMAIN queue_results = 1 .. Len(queue_results)
    BY LenProperties DEF LTypeOK
  <1>2. \A i \in DOMAIN queue_results : queue_results[i] \in Result
    BY <1>1, ElementOfSeq DEF LTypeOK
  <1> QED
    BY <1>2 DEF Result

\* Steps that leave the result queue, the ids and the lives alone.
LEMMA ReaderMoves ==
    ASSUME LInv, UNCHANGED <<responses, received, topurge, life>>,
           terminated' \in BOOLEAN, halted' \in BOOLEAN, rpc' \in [Readers -> ReaderPcs],
           \A r \in Readers : rpc'[r] \in {"new", "registered"}
                                 => rpc[r] \in {"new", "registered"}
    PROVE  LInv'
  BY DEF LInv, LTypeOK, Counted, NotPosted, OverWhenFinal, FinalIsLast, Awaited, responses

\* A task whose life goes on sends a result, the final one only with its end.
LEMMA ServerSends ==
    ASSUME LInv, NEW id \in Tasks, NEW kind \in {"partial", "final", "error"}, Send(id, kind),
           life[id] \in {"pending", "running"},
           NEW after \in Lives, life' = [life EXCEPT ![id] = after],
           kind = "final" => after = "over",
           after # "none", UNCHANGED <<received, topurge, rpc, terminated, halted>>
    PROVE  LInv'
  <1> USE DEF LInv
  <1> DEFINE q == queue_results
             n == Len(queue_results) + 1
  <1>1. /\ queue_results' \in Seq(Result) /\ waiting_task_ids' = waiting_task_ids
        /\ \/ queue_results' = queue_results
           \/ /\ id \in waiting_task_ids
              /\ DOMAIN queue_results' = DOMAIN queue_results \cup {n}
              /\ n \notin DOMAIN queue_results
              /\ DOMAIN queue_results = 1 .. Len(queue_results) /\ Len(queue_results) \in Nat
              /\ \A i \in DOMAIN queue_results : queue_results'[i] = queue_results[i]
              /\ queue_results'[n] = [id |-> id, kind |-> kind]
    BY SendAppends DEF LTypeOK
  <1> HIDE DEF n
  <1>2. LTypeOK'
    BY <1>1 DEF LTypeOK
  <1>3. Counted'
    BY DEF Counted
  <1>4. \A t \in Tasks : life'[t] = IF t = id THEN after ELSE life[t]
    BY DEF LTypeOK
  <1>5. NotPosted'
    BY <1>4, ResponseAssumption DEF NotPosted
  <1>6. \A i \in DOMAIN queue_results : queue_results[i].id \in Tasks
    BY ResultTypes
  <1>7. \A r \in Readers : id \notin received[r].ids
    BY DEF OverWhenFinal
  <1>8. \A r \in Readers : \A t \in received[r].ids : t \in Tasks
    BY DEF LTypeOK
  <1>9. \A i \in DOMAIN queue_results :
           queue_results[i].id = id => queue_results[i].kind # "final"
    BY DEF OverWhenFinal
  <1>10. OverWhenFinal'
    <2>1. \A r \in Readers : \A t \in received[r].ids : life'[t] = "over"
      BY <1>4, <1>7, <1>8 DEF OverWhenFinal
    <2>2. \A i \in DOMAIN queue_results :
             queue_results[i].kind = "final" => life'[queue_results[i].id] = "over"
      BY <1>4, <1>6, <1>9 DEF OverWhenFinal
    <2>3. CASE queue_results' = queue_results
      BY <2>1, <2>2, <2>3 DEF OverWhenFinal
    <2>4. CASE queue_results' # queue_results
      <3>1. \A i \in DOMAIN queue_results' :
               queue_results'[i].kind = "final" => life'[queue_results'[i].id] = "over"
        <4> SUFFICES ASSUME NEW i \in DOMAIN queue_results', queue_results'[i].kind = "final"
                     PROVE  life'[queue_results'[i].id] = "over"
          OBVIOUS
        <4>1. CASE i = n
          BY <1>1, <1>4, <2>4, <4>1
        <4>2. CASE i # n
          BY <1>1, <2>2, <2>4, <4>2
        <4> QED
          BY <4>1, <4>2
      <3> QED
        BY <2>1, <3>1 DEF OverWhenFinal
    <2> QED
      BY <2>3, <2>4
  <1>11. FinalIsLast'
    <2>1. CASE queue_results' = queue_results
      BY <2>1 DEF FinalIsLast
    <2>2. CASE queue_results' # queue_results
      <3>1. ASSUME NEW i \in DOMAIN queue_results', NEW j \in DOMAIN queue_results',
                   i < j, queue_results'[i].id = queue_results'[j].id
            PROVE  queue_results'[i].kind # "final"
        <4>1. i \in DOMAIN queue_results
          BY <1>1, <2>2, <3>1 DEF n
        <4>2. queue_results'[i] = queue_results[i]
          BY <1>1, <2>2, <4>1
        <4>3. CASE j = n
          BY <1>1, <1>9, <2>2, <3>1, <4>1, <4>2, <4>3
        <4>4. CASE j # n
          BY <1>1, <2>2, <3>1, <4>1, <4>2, <4>4 DEF FinalIsLast
        <4> QED
          BY <4>3, <4>4
      <3>2. ASSUME NEW i \in DOMAIN queue_results', NEW r \in Readers
            PROVE  queue_results'[i].id \notin received[r].ids
        <4>1. CASE i = n
          BY <1>1, <1>7, <2>2, <4>1
        <4>2. CASE i # n
          BY <1>1, <2>2, <4>2 DEF FinalIsLast
        <4> QED
          BY <4>1, <4>2
      <3> QED
        BY <3>1, <3>2 DEF FinalIsLast
    <2> QED
      BY <2>1, <2>2
  <1>12. Awaited'
    <2>1. CASE queue_results' = queue_results
      BY <1>1, <2>1 DEF Awaited
    <2>2. CASE queue_results' # queue_results
      <3>1. ASSUME NEW i \in DOMAIN queue_results'
            PROVE  \/ queue_results'[i].id \in waiting_task_ids
                   \/ \E r \in Readers : queue_results'[i].id \in topurge[r]
        <4>1. CASE i = n
          BY <1>1, <2>2, <4>1
        <4>2. CASE i # n
          BY <1>1, <2>2, <4>2 DEF Awaited
        <4> QED
          BY <4>1, <4>2
      <3> QED
        BY <1>1, <3>1 DEF Awaited
    <2> QED
      BY <2>1, <2>2
  <1> QED
    BY <1>2, <1>3, <1>5, <1>10, <1>11, <1>12

\* A task is launched, goes over without a result, or was over before.
LEMMA LifeMoves ==
    ASSUME LInv, life' \in [Tasks -> Lives],
           \A id \in Tasks : life'[id] # life[id] => life[id] \in {"pending", "running"},
           \A id \in Tasks : life[id] = "none" <=> life'[id] = "none",
           terminated' \in BOOLEAN, halted' \in BOOLEAN, rpc' \in [Readers -> ReaderPcs],
           \A r \in Readers : rpc'[r] \in {"new", "registered"}
                                 => rpc[r] \in {"new", "registered"},
           UNCHANGED <<responses, received, topurge>>
    PROVE  LInv'
  <1> USE DEF LInv
  <1>1. \A i \in DOMAIN queue_results : queue_results[i].id \in Tasks
    BY ResultTypes
  <1>2. \A r \in Readers : \A t \in received[r].ids : t \in Tasks
    BY DEF LTypeOK
  <1>3. LTypeOK' /\ Counted'
    BY DEF LTypeOK, Counted, responses
  <1>4. NotPosted'
    BY ResponseAssumption DEF NotPosted
  <1>5. OverWhenFinal'
    BY <1>1, <1>2 DEF OverWhenFinal, responses
  <1>6. FinalIsLast' /\ Awaited'
    BY DEF FinalIsLast, Awaited, responses
  <1> QED
    BY <1>3, <1>4, <1>5, <1>6

\* next() takes the first result of the reader's tasks.
LEMMA ReceiveStep ==
    ASSUME LInv, NEW r \in Readers, Receive(r), UNCHANGED <<life, terminated, halted>>
    PROVE  LInv'
  <1> USE DEF LInv
  <1> DEFINE i   == FirstFor(IdTasks[r])
             res == queue_results[i]
             rcv == IF res.kind = "final"
                    THEN [count |-> received[r].count + 1, ids |-> received[r].ids \cup {res.id}]
                    ELSE received[r]
  <1>1. /\ i \in ResultsFor(IdTasks[r]) /\ i \in 1 .. Len(queue_results)
        /\ \A j \in ResultsFor(IdTasks[r]) : i <= j
    BY FirstIsLeast DEF Receive, LTypeOK
  <1>2. /\ DOMAIN queue_results = 1 .. Len(queue_results) /\ res.id \in IdTasks[r]
        /\ i \in DOMAIN queue_results /\ res \in Result /\ res.id \in Tasks
    <2>1. DOMAIN queue_results = 1 .. Len(queue_results)
      BY LenProperties DEF LTypeOK
    <2>2. i \in DOMAIN queue_results /\ queue_results[i].id \in IdTasks[r]
      BY <1>1 DEF ResultsFor
    <2> QED
      BY <2>1, <2>2, ResultTypes
  <1>3. /\ queue_results' = RemoveAt(queue_results, i)
        /\ received' = [received EXCEPT ![r] = rcv]
        /\ rpc' \in [Readers -> ReaderPcs] /\ rpc[r] = "reading"
        /\ rpc'[r] \notin {"new", "registered"} /\ \A p \in Readers \ {r} : rpc'[p] = rpc[p]
        /\ UNCHANGED <<waiting_task_ids, topurge>>
    <2>1. \E pc \in {"stopping", "reading"} : rpc' = [rpc EXCEPT ![r] = pc]
      BY DEF Receive
    <2> QED
      BY <2>1 DEF Receive, LTypeOK, ReaderPcs
  <1> HIDE DEF i
  <1>4. /\ queue_results' \in Seq(Result) /\ Draws(queue_results', queue_results)
        /\ \A k \in DOMAIN queue_results' :
              \E j \in DOMAIN queue_results \ {i} : queue_results'[k] = queue_results[j]
    BY <1>1, <1>3, RemoveAtDraws DEF LTypeOK
  <1>5. /\ received[r] \in [count : Nat, ids : SUBSET Tasks]
        /\ received[r].ids \subseteq IdTasks[r] /\ IsFiniteSet(IdTasks[r])
        /\ received[r].count = Cardinality(received[r].ids) /\ IsFiniteSet(received[r].ids)
    <2>1. received[r].ids \subseteq IdTasks[r] /\ IsFiniteSet(IdTasks[r])
      BY ResponseAssumption DEF Counted
    <2>2. IsFiniteSet(received[r].ids)
      BY <2>1, FS_Subset
    <2> QED
      BY <2>1, <2>2 DEF Counted, LTypeOK
  <1>6. res.id \notin received[r].ids
    BY <1>2 DEF FinalIsLast
  <1>7. /\ rcv \in [count : Nat, ids : SUBSET Tasks]
        /\ rcv.ids \subseteq IdTasks[r] /\ rcv.count = Cardinality(rcv.ids)
        /\ \A id \in rcv.ids : id \in received[r].ids \/ (res.kind = "final" /\ id = res.id)
    <2>1. CASE res.kind = "final"
      <3> DEFINE ids == received[r].ids \cup {res.id}
      <3>1. Cardinality(ids) = Cardinality(received[r].ids) + 1
        BY <1>5, <1>6, FS_AddElement
      <3>2. ids \subseteq IdTasks[r] /\ ids \in SUBSET Tasks
        BY <1>2, <1>5
      <3>3. received[r].count + 1 \in Nat
        BY <1>5
      <3>4. rcv = [count |-> received[r].count + 1, ids |-> ids]
        BY <2>1
      <3>5. \A id \in ids : id \in received[r].ids \/ id = res.id
        OBVIOUS
      <3> HIDE DEF ids, rcv
      <3>6. rcv.count = received[r].count + 1 /\ rcv.ids = ids
        BY <3>4
      <3> QED
        BY <1>5, <2>1, <3>1, <3>2, <3>3, <3>4, <3>5, <3>6
    <2>2. CASE res.kind # "final"
      BY <1>5, <2>2
    <2> QED
      BY <2>1, <2>2
  <1> HIDE DEF rcv
  <1>8. /\ \A p \in Readers : received'[p] = IF p = r THEN rcv ELSE received[p]
        /\ received' \in [Readers -> [count : Nat, ids : SUBSET Tasks]]
    BY <1>3, <1>7 DEF LTypeOK
  <1>9. LTypeOK'
    BY <1>3, <1>4, <1>8 DEF LTypeOK
  <1>10. Counted'
    BY <1>7, <1>8 DEF Counted
  <1>11. NotPosted'
    BY <1>3 DEF NotPosted
  <1>12. OverWhenFinal'
    <2>1. \A k \in DOMAIN queue_results' :
             queue_results'[k].kind = "final" => life[queue_results'[k].id] = "over"
      BY <1>4 DEF OverWhenFinal
    <2>2. ASSUME NEW p \in Readers, NEW id \in received'[p].ids PROVE life[id] = "over"
      <3>1. CASE id \in received[p].ids
        BY <3>1 DEF OverWhenFinal
      <3>2. CASE id \notin received[p].ids
        BY <1>2, <1>7, <1>8, <3>2, <2>2 DEF OverWhenFinal
      <3> QED
        BY <3>1, <3>2
    <2> QED
      BY <2>1, <2>2 DEF OverWhenFinal
  <1>13. FinalIsLast'
    <2>1. PICK f \in [DOMAIN queue_results' -> DOMAIN queue_results] :
              /\ \A k, l \in DOMAIN queue_results' : k < l => f[k] < f[l]
              /\ \A k \in DOMAIN queue_results' : queue_results'[k] = queue_results[f[k]]
      BY <1>4 DEF Draws
    <2>2. \A k, l \in DOMAIN queue_results' :
             k < l /\ queue_results'[k].id = queue_results'[l].id
                => queue_results'[k].kind # "final"
      BY <2>1 DEF FinalIsLast
    <2>3. ASSUME NEW k \in DOMAIN queue_results', NEW p \in Readers
          PROVE  queue_results'[k].id \notin received'[p].ids
      <3>1. PICK j \in DOMAIN queue_results \ {i} : queue_results'[k] = queue_results[j]
        BY <1>4
      <3>2. queue_results[j].id \notin received[p].ids
        BY <3>1 DEF FinalIsLast
      <3>3. ASSUME p = r, res.kind = "final", queue_results[j].id = res.id PROVE FALSE
        <4>1. j \in ResultsFor(IdTasks[r])
          BY <1>2, <3>1, <3>3 DEF ResultsFor
        <4>2. i < j
          BY <1>1, <1>2, <3>1, <4>1
        <4> QED
          BY <1>2, <3>1, <3>3, <4>2 DEF FinalIsLast
      <3> QED
        BY <1>7, <1>8, <3>1, <3>2, <3>3
    <2> QED
      BY <2>2, <2>3 DEF FinalIsLast
  <1>14. Awaited'
    BY <1>3, <1>4 DEF Awaited
  <1> QED
    BY <1>9, <1>10, <1>11, <1>12, <1>13, <1>14

\* The reader whose tasks were all answered has nothing left in the queue.
LEMMA AllAnswered ==
    ASSUME LInv, NEW r \in Readers, ~HasNext(r)
    PROVE  received[r].ids = IdTasks[r]
  <1>1. /\ received[r].ids \in SUBSET IdTasks[r] /\ IsFiniteSet(IdTasks[r])
        /\ received[r].count = Cardinality(received[r].ids)
    BY ResponseAssumption DEF LInv, Counted
  <1>2. Cardinality(received[r].ids) <= Cardinality(IdTasks[r])
    BY <1>1, FS_Subset
  <1>3. Cardinality(received[r].ids) \in Nat /\ Cardinality(IdTasks[r]) \in Nat
    BY <1>1, FS_CardinalityType, FS_Subset
  <1>4. Cardinality(IdTasks[r]) = Cardinality(received[r].ids)
    BY <1>1, <1>2, <1>3 DEF HasNext
  <1> QED
    BY <1>1, <1>4, FS_Subset

\* stop() removes the ids: the waiting results are still to be removed, or there
\* are none.
LEMMA StopRemoveStep ==
    ASSUME LInv, NEW r \in Readers, StopRemove(r), UNCHANGED <<life, terminated, halted>>
    PROVE  LInv'
  <1> USE DEF LInv
  <1>1. /\ waiting_task_ids' = waiting_task_ids \ IdTasks[r]
        /\ UNCHANGED <<queue_results, received>>
        /\ rpc[r] = "stopping"
        /\ \E pc \in {"purging", "left"} : rpc' = [rpc EXCEPT ![r] = pc]
    BY DEF StopRemove
  <1>2. IdTasks[r] \subseteq Tasks
    BY ResponseAssumption
  <1>3. LTypeOK'
    BY <1>1, <1>2 DEF LTypeOK, StopRemove, ReaderPcs
  <1>4. Counted' /\ OverWhenFinal' /\ FinalIsLast'
    BY <1>1 DEF Counted, OverWhenFinal, FinalIsLast
  <1>5. NotPosted'
    BY <1>1 DEF NotPosted, LTypeOK
  <1>6. Awaited'
    <2>1. CASE HasNext(r)
      <3>1. topurge' = [topurge EXCEPT ![r] = IdTasks[r]]
        BY <2>1 DEF StopRemove
      <3>2. \A p \in Readers : topurge'[p] = IF p = r THEN IdTasks[r] ELSE topurge[p]
        BY <3>1 DEF LTypeOK
      <3>3. \A p \in Readers : topurge'[p] \subseteq IdTasks[p] /\ topurge[p] \subseteq topurge'[p]
        BY <3>2 DEF Awaited
      <3>4. \A k \in DOMAIN queue_results :
               \/ queue_results[k].id \in waiting_task_ids'
               \/ \E p \in Readers : queue_results[k].id \in topurge'[p]
        BY <1>1, <3>2, <3>3 DEF Awaited
      <3> QED
        BY <1>1, <3>3, <3>4 DEF Awaited
    <2>2. CASE ~HasNext(r)
      <3>1. topurge' = topurge
        BY <2>2 DEF StopRemove
      <3>2. \A k \in DOMAIN queue_results : queue_results[k].id \notin IdTasks[r]
        BY <2>2, AllAnswered DEF FinalIsLast
      <3> QED
        BY <1>1, <3>1, <3>2 DEF Awaited
    <2> QED
      BY <2>1, <2>2
  <1> QED
    BY <1>3, <1>4, <1>5, <1>6

\* remove_waiting_task_id() removes the id with its results.
LEMMA StopPurgeStep ==
    ASSUME LInv, NEW r \in Readers, NEW id, StopPurge(r, id),
           UNCHANGED <<life, terminated, halted>>
    PROVE  LInv'
  <1> USE DEF LInv
  <1>1. /\ waiting_task_ids' = waiting_task_ids \ {id}
        /\ queue_results' = Without(queue_results, id)
        /\ topurge' = [topurge EXCEPT ![r] = @ \ {id}]
        /\ UNCHANGED received /\ rpc[r] = "purging"
        /\ \E pc \in {"posting", "purging"} : rpc' = [rpc EXCEPT ![r] = pc]
    BY DEF StopPurge
  <1>2. /\ queue_results' \in Seq(Result) /\ Draws(queue_results', queue_results)
        /\ \A k \in DOMAIN queue_results' : queue_results'[k].id # id
    BY <1>1, WithoutDraws DEF LTypeOK
  <1>3. \A p \in Readers : topurge'[p] = IF p = r THEN topurge[r] \ {id} ELSE topurge[p]
    BY <1>1 DEF LTypeOK
  <1>4. LTypeOK'
    BY <1>1, <1>2 DEF LTypeOK, ReaderPcs
  <1>5. Counted' /\ NotPosted'
    BY <1>1 DEF Counted, NotPosted, LTypeOK
  <1>6. OverWhenFinal' /\ FinalIsLast'
    BY <1>1, <1>2, RemovingKeeps
  <1>7. Awaited'
    <2>1. \A p \in Readers : topurge'[p] \subseteq IdTasks[p]
      BY <1>3 DEF Awaited
    <2>2. ASSUME NEW k \in DOMAIN queue_results'
          PROVE  \/ queue_results'[k].id \in waiting_task_ids'
                 \/ \E p \in Readers : queue_results'[k].id \in topurge'[p]
      <3>1. PICK j \in DOMAIN queue_results : queue_results'[k] = queue_results[j]
        BY <1>2 DEF Draws
      <3>2. queue_results[j].id # id
        BY <1>2, <3>1
      <3> QED
        BY <1>1, <1>3, <3>1, <3>2 DEF Awaited
    <2> QED
      BY <2>1, <2>2 DEF Awaited
  <1> QED
    BY <1>4, <1>5, <1>6, <1>7

\* The tasks of a reader are posted once their ids are registered.
LEMMA PostStep ==
    ASSUME LInv, NEW r \in Readers, LPost(r)
    PROVE  LInv'
  <1> USE DEF LInv
  <1>1. /\ rpc[r] = "registered" /\ rpc' = [rpc EXCEPT ![r] = "reading"]
        /\ UNCHANGED <<waiting_task_ids, queue_results, received, topurge, halted, terminated>>
        /\ life' = [id \in Tasks |-> IF id \in IdTasks[r] THEN "pending" ELSE life[id]]
    BY DEF LPost, Posted, responses
  <1>2. \A id \in IdTasks[r] : id \in Tasks /\ life[id] = "none"
    BY <1>1, ResponseAssumption DEF NotPosted
  <1>3. \A id \in Tasks : life'[id] # life[id] => life[id] = "none"
    BY <1>1, <1>2
  <1>4. LTypeOK' /\ Counted'
    BY <1>1 DEF LTypeOK, Counted, Lives, ReaderPcs
  <1>5. NotPosted'
    <2> SUFFICES ASSUME NEW p \in Readers, rpc'[p] \in {"new", "registered"},
                        NEW id \in IdTasks[p]
                 PROVE  life'[id] = "none"
      BY DEF NotPosted
    <2>1. p # r /\ rpc[p] \in {"new", "registered"}
      BY <1>1 DEF LTypeOK
    <2>2. id \in Tasks /\ id \notin IdTasks[r] /\ life[id] = "none"
      BY <2>1, ResponseAssumption DEF NotPosted
    <2> QED
      BY <1>1, <2>2
  <1>6. OverWhenFinal'
    <2>1. \A k \in DOMAIN queue_results : queue_results[k].id \in Tasks
      BY ResultTypes
    <2>2. \A p \in Readers : \A id \in received[p].ids : id \in Tasks
      BY DEF LTypeOK
    <2> QED
      BY <1>1, <1>3, <2>1, <2>2 DEF OverWhenFinal
  <1>7. FinalIsLast' /\ Awaited'
    BY <1>1 DEF FinalIsLast, Awaited
  <1> QED
    BY <1>4, <1>5, <1>6, <1>7

\* The CANCEL tasks are queued: pending tasks go over.
LEMMA CancelStep ==
    ASSUME LInv, NEW r \in Readers, LCancel(r)
    PROVE  LInv'
  <1>1. PICK missed \in SUBSET IdTasks[r] :
            life' = [id \in Tasks |->
                       IF id \in IdTasks[r] \ missed /\ life[id] = "pending"
                       THEN "over" ELSE life[id]]
    BY DEF LCancel
  <1>2. /\ rpc' = [rpc EXCEPT ![r] = "left"]
        /\ UNCHANGED <<responses, received, topurge, halted, terminated>>
    BY DEF LCancel, StopPost
  <1>3. /\ life' \in [Tasks -> Lives]
        /\ \A id \in Tasks : life'[id] # life[id] => life[id] \in {"pending", "running"}
        /\ \A id \in Tasks : life[id] = "none" <=> life'[id] = "none"
    BY <1>1 DEF LInv, LTypeOK, Lives
  <1>4. /\ rpc' \in [Readers -> ReaderPcs]
        /\ \A p \in Readers : rpc'[p] \in {"new", "registered"} => rpc[p] \in {"new", "registered"}
    BY <1>2 DEF LInv, LTypeOK, ReaderPcs
  <1>5. terminated' \in BOOLEAN /\ halted' \in BOOLEAN
    BY <1>2 DEF LInv, LTypeOK
  <1> QED
    BY <1>2, <1>3, <1>4, <1>5, LifeMoves

\* What the server does with a task.
LEMMA ServerStep ==
    ASSUME LInv, NEW id \in Tasks, LServer(id)
    PROVE  LInv'
  <1> USE DEF LInv
  <1>1. UNCHANGED halted /\ halted \in BOOLEAN /\ life \in [Tasks -> Lives]
    BY DEF LServer, LTypeOK
  <1>2. CASE LLaunch(id) \/ LCancelled(id)
    <2>1. /\ \E after \in {"running", "over"} : life' = [life EXCEPT ![id] = after]
          /\ life[id] \in {"pending", "running"} /\ UNCHANGED rvars
      BY <1>2 DEF LLaunch, LCancelled
    <2>2. /\ life' \in [Tasks -> Lives]
          /\ \A t \in Tasks : life'[t] # life[t] => life[t] \in {"pending", "running"}
          /\ \A t \in Tasks : life[t] = "none" <=> life'[t] = "none"
      BY <1>1, <2>1 DEF Lives
    <2> QED
      BY <1>1, <2>1, <2>2, LifeMoves DEF LTypeOK, rvars
  <1>3. CASE LAnswer(id) \/ LEnd(id)
    <2>1. /\ \E kind \in {"final", "error"} : Send(id, kind)
          /\ life' = [life EXCEPT ![id] = "over"] /\ life[id] \in {"pending", "running"}
          /\ UNCHANGED <<received, topurge, rpc, terminated>>
      BY <1>3 DEF LAnswer, LEnd
    <2>2. PICK kind \in {"final", "error"} : Send(id, kind)
      BY <2>1
    <2>3. "over" \in Lives /\ "over" # "none" /\ kind \in {"partial", "final", "error"}
      BY DEF Lives
    <2> QED
      BY <1>1, <2>1, <2>2, <2>3, ServerSends
  <1>4. CASE LPartial(id)
    <2>1. /\ Send(id, "partial") /\ life[id] = "running" /\ life' = life
          /\ UNCHANGED <<received, topurge, rpc, terminated>>
      BY <1>4 DEF LPartial
    <2>2. life' = [life EXCEPT ![id] = "running"]
      BY <1>1, <2>1
    <2>3. "running" \in Lives /\ "partial" \in {"partial", "final", "error"}
      BY DEF Lives
    <2> QED
      BY <1>1, <2>1, <2>2, <2>3, ServerSends
  <1> QED
    BY <1>2, <1>3, <1>4 DEF LServer

\* Every step keeps the invariant.
LEMMA LInvStep ==
    ASSUME LInv, [LNext]_lvars
    PROVE  LInv'
  <1>1. ASSUME NEW r \in Readers, LRegister(r) PROVE LInv'
    <2>1. /\ rpc[r] = "new" /\ rpc' = [rpc EXCEPT ![r] = "registered"]
          /\ waiting_task_ids' = waiting_task_ids \cup IdTasks[r]
          /\ UNCHANGED <<queue_results, received, topurge, life, halted, terminated>>
      BY <1>1 DEF LRegister, Register
    <2>2. IdTasks[r] \subseteq Tasks
      BY ResponseAssumption
    <2>3. LTypeOK'
      BY <2>1, <2>2 DEF LInv, LTypeOK, ReaderPcs
    <2>4. NotPosted'
      BY <2>1 DEF LInv, LTypeOK, NotPosted
    <2>5. Counted' /\ OverWhenFinal' /\ FinalIsLast' /\ Awaited'
      BY <2>1 DEF LInv, Counted, OverWhenFinal, FinalIsLast, Awaited
    <2> QED
      BY <2>3, <2>4, <2>5 DEF LInv
  <1>2. ASSUME NEW r \in Readers, LPost(r) PROVE LInv'
    BY <1>2, PostStep
  <1>3. ASSUME NEW r \in Readers, LRead(r) PROVE LInv'
    <2>0. UNCHANGED <<life, halted, terminated>>
      BY <1>3 DEF LRead
    <2>1. CASE Receive(r)
      BY <2>0, <2>1, ReceiveStep
    <2>2. CASE ShuttingDown(r)
      <3>1. /\ rpc' = [rpc EXCEPT ![r] = "stopping"]
            /\ UNCHANGED <<responses, received, topurge>>
        BY <2>2 DEF ShuttingDown
      <3>2. /\ rpc' \in [Readers -> ReaderPcs] /\ terminated' \in BOOLEAN /\ halted' \in BOOLEAN
            /\ \A p \in Readers : rpc'[p] \in {"new", "registered"}
                                     => rpc[p] \in {"new", "registered"}
        BY <2>0, <3>1 DEF LInv, LTypeOK, ReaderPcs
      <3> QED
        BY <2>0, <3>1, <3>2, ReaderMoves
    <2>3. CASE StopRemove(r)
      BY <2>0, <2>3, StopRemoveStep
    <2>4. CASE \E id \in IdTasks[r] : StopPurge(r, id)
      BY <2>0, <2>4, StopPurgeStep
    <2> QED
      BY <1>3, <2>1, <2>2, <2>3, <2>4 DEF LRead
  <1>4. ASSUME NEW r \in Readers, LGiveUp(r) PROVE LInv'
    <2>1. /\ rpc' = [rpc EXCEPT ![r] = "stopping"]
          /\ UNCHANGED <<responses, received, topurge, life, halted, terminated>>
      BY <1>4 DEF LGiveUp, GiveUp
    <2>2. /\ rpc' \in [Readers -> ReaderPcs] /\ terminated' \in BOOLEAN /\ halted' \in BOOLEAN
          /\ \A p \in Readers : rpc'[p] \in {"new", "registered"}
                                   => rpc[p] \in {"new", "registered"}
      BY <2>1 DEF LInv, LTypeOK, ReaderPcs
    <2> QED
      BY <2>1, <2>2, ReaderMoves
  <1>5. ASSUME NEW r \in Readers, LCancel(r) PROVE LInv'
    BY <1>5, CancelStep
  <1>6. ASSUME NEW id \in Tasks, LServer(id) PROVE LInv'
    BY <1>6, ServerStep
  <1>7. ASSUME LTerminate \/ LHalt \/ UNCHANGED lvars PROVE LInv'
    BY <1>7, ReaderMoves DEF LInv, LTypeOK, LTerminate, LHalt, lvars, rvars, responses
  <1> QED
    BY <1>1, <1>2, <1>3, <1>4, <1>5, <1>6, <1>7 DEF LNext

\* The inductive invariant: types, and where the last result of a task is.
THEOREM ResponseInvariant == LSafe => []LInv
  <1>1. LInit => LInv
    <2> SUFFICES ASSUME LInit PROVE LInv
      OBVIOUS
    <2>1. /\ waiting_task_ids = {} /\ queue_results = <<>>
          /\ received = [r \in Readers |-> [count |-> 0, ids |-> {}]]
          /\ topurge = [r \in Readers |-> {}] /\ rpc = [r \in Readers |-> "new"]
          /\ terminated = FALSE /\ halted = FALSE /\ life = [id \in Tasks |-> "none"]
      BY DEF LInit, RInit
    <2>2. <<>> \in Seq(Result) /\ DOMAIN queue_results = {}
      BY <2>1, EmptySeq
    <2>3. LTypeOK
      BY <2>1, <2>2 DEF LTypeOK, ReaderPcs, Lives
    <2>4. Counted
      BY <2>1, FS_EmptySet DEF Counted
    <2>5. NotPosted
      BY <2>1, ResponseAssumption DEF NotPosted
    <2>6. OverWhenFinal /\ FinalIsLast /\ Awaited
      BY <2>1, <2>2 DEF OverWhenFinal, FinalIsLast, Awaited
    <2> QED
      BY <2>3, <2>4, <2>5, <2>6 DEF LInv
  <1>2. LInv /\ [LNext]_lvars => LInv'
    BY LInvStep
  <1> QED
    BY <1>1, <1>2, PTL DEF LSafe

\* received_count counts each task once; a request that leaves without cancelling
\* has the final result of every task, and the server is through with all of them.
THEOREM AnswersAreComplete == LSafe => []CompleteAnswer
  <1>1. LInv => CompleteAnswer
    <2> SUFFICES ASSUME LInv PROVE CompleteAnswer
      OBVIOUS
    <2>1. \A r \in Readers : received[r].count = Cardinality(received[r].ids)
      BY DEF LInv, Counted
    <2>2. ASSUME NEW r \in Readers, ~HasNext(r)
          PROVE  /\ received[r].ids = IdTasks[r]
                 /\ \A id \in IdTasks[r] : life[id] = "over"
      BY <2>2, AllAnswered DEF LInv, OverWhenFinal
    <2> QED
      BY <2>1, <2>2 DEF CompleteAnswer
  <1> QED
    BY <1>1, ResponseInvariant, PTL
-----------------------------------------------------------------------------
(* A request that is read is served *)

\* The reader waits for its ids from their registration to its end, it reads as
\* long as an answer is missing, and a task that is over was answered.
ServedFor(r) ==
    /\ rpc[r] \in {"registered", "reading"} => IdTasks[r] \subseteq waiting_task_ids
    /\ rpc[r] \in {"reading", "purging", "posting"} => HasNext(r)
    /\ rpc[r] = "reading" => \A id \in IdTasks[r] :
          /\ life[id] # "none"
          /\ life[id] = "over" =>
                \/ id \in received[r].ids
                \/ \E i \in DOMAIN queue_results :
                      queue_results[i].id = id /\ queue_results[i].kind # "partial"

Served == \A r \in Readers : ServedFor(r)

\* Whoever is not the reader that steps keeps its ids, its results and what is
\* known of its tasks.
LEMMA ServedKept ==
    ASSUME NEW r \in Readers, ServedFor(r),
           rpc'[r] = rpc[r], received'[r] = received[r],
           IdTasks[r] \cap waiting_task_ids \subseteq waiting_task_ids',
           \A id \in IdTasks[r] : /\ life'[id] = "over" => life[id] = "over"
                                  /\ life'[id] = "none" => life[id] = "none",
           \A i \in DOMAIN queue_results : queue_results[i].id \in IdTasks[r] =>
              \E k \in DOMAIN queue_results' : queue_results'[k] = queue_results[i]
    PROVE  ServedFor(r)'
  <1>1. rpc'[r] \in {"registered", "reading"} => IdTasks[r] \subseteq waiting_task_ids'
    BY DEF ServedFor
  <1>2. rpc'[r] \in {"reading", "purging", "posting"} => HasNext(r)'
    BY DEF ServedFor, HasNext
  <1>3. ASSUME rpc'[r] = "reading", NEW id \in IdTasks[r]
        PROVE  /\ life'[id] # "none"
               /\ life'[id] = "over" =>
                    \/ id \in received'[r].ids
                    \/ \E i \in DOMAIN queue_results' :
                          queue_results'[i].id = id /\ queue_results'[i].kind # "partial"
    BY <1>3 DEF ServedFor
  <1> QED
    BY <1>1, <1>2, <1>3 DEF ServedFor

\* The tasks of a reader are posted: all answers are missing.
LEMMA ServedPost ==
    ASSUME LInv, Served, NEW r \in Readers, LPost(r)
    PROVE  Served'
  <1>1. /\ rpc[r] = "registered" /\ rpc' = [rpc EXCEPT ![r] = "reading"]
        /\ UNCHANGED <<waiting_task_ids, queue_results, received>>
        /\ life' = [id \in Tasks |-> IF id \in IdTasks[r] THEN "pending" ELSE life[id]]
    BY DEF LPost, Posted, responses
  <1>2. IdTasks[r] \subseteq Tasks /\ IsFiniteSet(IdTasks[r]) /\ IdTasks[r] # {}
    BY ResponseAssumption
  <1>3. received[r].ids = {} /\ received[r].count = Cardinality(received[r].ids)
    BY <1>1 DEF LInv, Counted, NotPosted, OverWhenFinal
  <1>4. HasNext(r)'
    <2>1. Cardinality(IdTasks[r]) \in Nat /\ Cardinality(IdTasks[r]) # 0 /\ received[r].count = 0
      BY <1>2, <1>3, FS_EmptySet, FS_CardinalityType
    <2> QED
      BY <1>1, <2>1 DEF HasNext
  <1>5. ServedFor(r)'
    BY <1>1, <1>2, <1>4 DEF Served, ServedFor, LInv, LTypeOK
  <1>6. ASSUME NEW p \in Readers \ {r} PROVE ServedFor(p)'
    <2>1. \A id \in IdTasks[p] : id \in Tasks /\ id \notin IdTasks[r]
      BY ResponseAssumption
    <2> QED
      BY <1>1, <2>1, ServedKept DEF Served, LInv, LTypeOK
  <1> QED
    BY <1>5, <1>6 DEF Served

\* next(): the result that is taken out is counted, or ends the reader.
LEMMA ServedReceive ==
    ASSUME LInv, Served, NEW r \in Readers, Receive(r), UNCHANGED life
    PROVE  Served'
  <1> DEFINE i   == FirstFor(IdTasks[r])
             res == queue_results[i]
             rcv == IF res.kind = "final"
                    THEN [count |-> received[r].count + 1, ids |-> received[r].ids \cup {res.id}]
                    ELSE received[r]
  <1>1. i \in ResultsFor(IdTasks[r]) /\ i \in 1 .. Len(queue_results)
    BY FirstIsLeast DEF Receive, LInv, LTypeOK
  <1>2. i \in DOMAIN queue_results /\ res.id \in IdTasks[r] /\ res \in Result
    BY <1>1, ResultTypes DEF ResultsFor, LInv
  <1>3. /\ queue_results' = RemoveAt(queue_results, i)
        /\ received' = [received EXCEPT ![r] = rcv]
        /\ rpc[r] = "reading"
        /\ rpc' = [rpc EXCEPT ![r] =
                      IF res.kind = "error" \/ rcv.count >= Cardinality(IdTasks[r])
                      THEN "stopping" ELSE "reading"]
        /\ UNCHANGED <<waiting_task_ids, topurge>>
    BY DEF Receive
  <1> HIDE DEF i
  <1>4. \A j \in DOMAIN queue_results \ {i} :
            \E k \in DOMAIN queue_results' : queue_results'[k] = queue_results[j]
    BY <1>1, <1>3, RemoveAtDraws DEF LInv, LTypeOK
  <1>5. received'[r] = rcv /\ received[r].ids \subseteq rcv.ids
        /\ (res.kind = "final" => res.id \in rcv.ids)
    BY <1>3 DEF LInv, LTypeOK
  <1>6. rpc'[r] = (IF res.kind = "error" \/ rcv.count >= Cardinality(IdTasks[r])
                   THEN "stopping" ELSE "reading")
    BY <1>3 DEF LInv, LTypeOK
  <1>7. rcv.count \in Nat /\ Cardinality(IdTasks[r]) \in Nat
    <2>1. received[r].count \in Nat /\ received[r].count + 1 \in Nat
      BY DEF LInv, LTypeOK
    <2> QED
      BY <2>1, ResponseAssumption, FS_CardinalityType
  <1>8. ServedFor(r)'
    <2>1. CASE rpc'[r] = "stopping"
      BY <2>1 DEF ServedFor
    <2>2. CASE rpc'[r] = "reading"
      <3> HIDE DEF rcv
      <3>1. res.kind # "error" /\ ~(rcv.count >= Cardinality(IdTasks[r]))
        BY <1>6, <2>2
      <3>2. HasNext(r)'
        BY <1>5, <1>7, <3>1 DEF HasNext
      <3>3. IdTasks[r] \subseteq waiting_task_ids'
        BY <1>3 DEF Served, ServedFor
      <3>4. ASSUME NEW id \in IdTasks[r]
            PROVE  /\ life'[id] # "none"
                   /\ life'[id] = "over" =>
                        \/ id \in received'[r].ids
                        \/ \E k \in DOMAIN queue_results' :
                              queue_results'[k].id = id /\ queue_results'[k].kind # "partial"
        <4>1. life[id] # "none"
          BY <1>3 DEF Served, ServedFor
        <4>2. CASE life[id] = "over" /\ id \in received[r].ids
          BY <1>5, <4>1, <4>2
        <4>3. ASSUME NEW j \in DOMAIN queue_results,
                     queue_results[j].id = id, queue_results[j].kind # "partial"
              PROVE  \/ id \in received'[r].ids
                     \/ \E k \in DOMAIN queue_results' :
                           queue_results'[k].id = id /\ queue_results'[k].kind # "partial"
          <5>1. CASE j = i
            <6>1. res.kind = "final"
              BY <1>2, <3>1, <4>3, <5>1 DEF Result
            <6> QED
              BY <1>5, <4>3, <5>1, <6>1
          <5>2. CASE j # i
            BY <1>4, <4>3, <5>2
          <5> QED
            BY <5>1, <5>2
        <4> QED
          BY <1>3, <4>1, <4>2, <4>3 DEF Served, ServedFor
      <3> QED
        BY <2>2, <3>2, <3>3, <3>4 DEF ServedFor
    <2> QED
      BY <1>6, <2>1, <2>2
  <1>9. ASSUME NEW p \in Readers \ {r} PROVE ServedFor(p)'
    <2>1. rpc'[p] = rpc[p] /\ received'[p] = received[p]
      BY <1>3 DEF LInv, LTypeOK
    <2>2. res.id \notin IdTasks[p]
      BY <1>2, ResponseAssumption
    <2> QED
      BY <1>3, <1>4, <2>1, <2>2, ServedKept DEF Served
  <1> QED
    BY <1>8, <1>9 DEF Served

\* stop(): the reader that leaves takes its own ids and results only.
LEMMA ServedStop ==
    ASSUME LInv, Served, NEW r \in Readers, UNCHANGED life,
           StopRemove(r) \/ \E id \in IdTasks[r] : StopPurge(r, id)
    PROVE  Served'
  <1>1. /\ waiting_task_ids \ IdTasks[r] \subseteq waiting_task_ids' /\ UNCHANGED received
        /\ \E pc \in {"purging", "posting", "left"} : rpc' = [rpc EXCEPT ![r] = pc]
    BY DEF StopRemove, StopPurge
  <1>2. \A i \in DOMAIN queue_results : queue_results[i].id \notin IdTasks[r] =>
            \E k \in DOMAIN queue_results' : queue_results'[k] = queue_results[i]
    <2>1. CASE StopRemove(r)
      BY <2>1 DEF StopRemove
    <2>2. ASSUME NEW id \in IdTasks[r], StopPurge(r, id)
          PROVE  \A i \in DOMAIN queue_results : queue_results[i].id \notin IdTasks[r] =>
                    \E k \in DOMAIN queue_results' : queue_results'[k] = queue_results[i]
      BY <2>2, WithoutDraws DEF StopPurge, LInv, LTypeOK
    <2> QED
      BY <2>1, <2>2
  <1>3. rpc'[r] \in {"purging", "posting"} => HasNext(r)'
    BY <1>1 DEF Served, ServedFor, HasNext, StopRemove, StopPurge, LInv, LTypeOK
  <1>4. ServedFor(r)'
    BY <1>1, <1>3 DEF ServedFor, LInv, LTypeOK
  <1>5. ASSUME NEW p \in Readers \ {r} PROVE ServedFor(p)'
    <2>1. rpc'[p] = rpc[p] /\ received'[p] = received[p] /\ IdTasks[p] \cap IdTasks[r] = {}
      BY <1>1, ResponseAssumption DEF LInv, LTypeOK
    <2> QED
      BY <1>1, <1>2, <2>1, ServedKept DEF Served
  <1> QED
    BY <1>4, <1>5 DEF Served

\* A reader that gives up, or that is told of the shutdown, or that has posted its
\* CANCELs, is not served any more.
LEMMA ServedLeave ==
    ASSUME LInv, Served, NEW r \in Readers,
           ShuttingDown(r) \/ GiveUp(r) \/ StopPost(r),
           \A p \in Readers \ {r} : \A id \in IdTasks[p] : life'[id] = life[id]
    PROVE  Served'
  <1>1. /\ \E pc \in {"stopping", "left"} : rpc' = [rpc EXCEPT ![r] = pc]
        /\ UNCHANGED <<waiting_task_ids, queue_results, received>>
    BY DEF ShuttingDown, GiveUp, StopPost, responses
  <1>2. ServedFor(r)'
    BY <1>1 DEF ServedFor, LInv, LTypeOK
  <1>3. ASSUME NEW p \in Readers \ {r} PROVE ServedFor(p)'
    BY <1>1, ServedKept DEF Served, LInv, LTypeOK
  <1> QED
    BY <1>2, <1>3 DEF Served

\* The server: a task that goes over without a result has no reader any more.
LEMMA ServedServer ==
    ASSUME LInv, Served, NEW id \in Tasks, LServer(id)
    PROVE  Served'
  <1>1. UNCHANGED <<rpc, received>> /\ waiting_task_ids' = waiting_task_ids
    BY DEF LServer, LLaunch, LAnswer, LPartial, LEnd, LCancelled, Send, rvars, responses
  <1>2. CASE LLaunch(id) \/ LPartial(id)
    <2>1. \A t \in Tasks : /\ life'[t] = "over" => life[t] = "over"
                           /\ life'[t] = "none" => life[t] = "none"
      BY <1>2 DEF LLaunch, LPartial, LInv, LTypeOK
    <2>2. \A i \in DOMAIN queue_results :
              \E k \in DOMAIN queue_results' : queue_results'[k] = queue_results[i]
      <3>1. CASE LLaunch(id)
        BY <3>1 DEF LLaunch, rvars, responses
      <3>2. CASE LPartial(id)
        <4>1. Send(id, "partial")
          BY <3>2 DEF LPartial
        <4> QED
          BY <4>1, SendAppends DEF LInv, LTypeOK
      <3> QED
        BY <1>2, <3>1, <3>2
    <2>3. ASSUME NEW r \in Readers PROVE ServedFor(r)'
      <3>1. IdTasks[r] \subseteq Tasks
        BY ResponseAssumption
      <3> QED
        BY <1>1, <2>1, <2>2, <3>1, ServedKept DEF Served
    <2> QED
      BY <2>3 DEF Served
  <1>3. CASE LAnswer(id) \/ LEnd(id)
    <2>1. PICK kind \in {"final", "error"} : Send(id, kind)
      BY <1>3 DEF LAnswer, LEnd
    <2>2. life' = [life EXCEPT ![id] = "over"]
      BY <1>3 DEF LAnswer, LEnd
    <2>3. /\ \A i \in DOMAIN queue_results :
                \E k \in DOMAIN queue_results' : queue_results'[k] = queue_results[i]
          /\ id \in waiting_task_ids =>
                \E k \in DOMAIN queue_results' : queue_results'[k] = [id |-> id, kind |-> kind]
      <3>1. kind \in {"partial", "final", "error"}
        OBVIOUS
      <3>2. Append(queue_results, [id |-> id, kind |-> kind]) # queue_results
        <4>1. [id |-> id, kind |-> kind] \in Result
          BY <3>1 DEF Result
        <4> QED
          BY <4>1, AppendProperties DEF LInv, LTypeOK
      <3>3. id \in waiting_task_ids => queue_results' # queue_results
        BY <2>1, <3>2 DEF Send
      <3> QED
        BY <2>1, <3>1, <3>3, SendAppends DEF LInv, LTypeOK
    <2>4. ASSUME NEW r \in Readers PROVE ServedFor(r)'
      <3>1. IdTasks[r] \subseteq Tasks
        BY ResponseAssumption
      <3>2. CASE id \notin IdTasks[r] \/ rpc[r] # "reading"
        <4>1. CASE id \notin IdTasks[r]
          BY <1>1, <2>2, <2>3, <3>1, <4>1, ServedKept DEF Served, LInv, LTypeOK
        <4>2. CASE rpc[r] # "reading"
          BY <1>1, <4>2 DEF Served, ServedFor, HasNext
        <4> QED
          BY <3>2, <4>1, <4>2
      <3>3. CASE id \in IdTasks[r] /\ rpc[r] = "reading"
        <4>1. id \in waiting_task_ids
          BY <3>3 DEF Served, ServedFor
        <4>2. PICK k \in DOMAIN queue_results' : queue_results'[k] = [id |-> id, kind |-> kind]
          BY <2>3, <4>1
        <4>3. queue_results'[k].id = id /\ queue_results'[k].kind # "partial"
          BY <4>2
        <4>4. \A t \in IdTasks[r] \ {id} : life'[t] = life[t]
          BY <2>2, <3>1 DEF LInv, LTypeOK
        <4>5. life'[id] = "over"
          BY <2>2 DEF LInv, LTypeOK
        <4>6. ASSUME NEW t \in IdTasks[r]
              PROVE  /\ life'[t] # "none"
                     /\ life'[t] = "over" =>
                          \/ t \in received'[r].ids
                          \/ \E i \in DOMAIN queue_results' :
                                queue_results'[i].id = t /\ queue_results'[i].kind # "partial"
          <5>1. CASE t = id
            BY <4>3, <4>5, <5>1
          <5>2. CASE t # id
            BY <1>1, <2>3, <3>3, <4>4, <5>2 DEF Served, ServedFor
          <5> QED
            BY <5>1, <5>2
        <4> QED
          BY <1>1, <3>3, <4>6 DEF Served, ServedFor, HasNext
      <3> QED
        BY <3>2, <3>3
    <2> QED
      BY <2>4 DEF Served
  <1>4. CASE LCancelled(id)
    <2>1. PICK c \in Readers : id \in IdTasks[c] /\ rpc[c] = "left"
      BY <1>4 DEF LCancelled
    <2>2. life' = [life EXCEPT ![id] = "over"] /\ queue_results' = queue_results
      BY <1>4 DEF LCancelled, rvars, responses
    <2>3. ASSUME NEW r \in Readers PROVE ServedFor(r)'
      <3>1. CASE r = c
        BY <1>1, <2>1, <3>1 DEF ServedFor
      <3>2. CASE r # c
        <4>1. id \notin IdTasks[r] /\ IdTasks[r] \subseteq Tasks
          BY <2>1, <3>2, ResponseAssumption
        <4> QED
          BY <1>1, <2>2, <4>1, ServedKept DEF Served, LInv, LTypeOK
      <3> QED
        BY <3>1, <3>2
    <2> QED
      BY <2>3 DEF Served
  <1> QED
    BY <1>2, <1>3, <1>4 DEF LServer

\* Every step serves the readers that are still there.
LEMMA ServedStep ==
    ASSUME LInv, Served, [LNext]_lvars
    PROVE  Served'
  <1>1. ASSUME NEW r \in Readers, LRegister(r) PROVE Served'
    <2>1. /\ rpc[r] = "new" /\ rpc' = [rpc EXCEPT ![r] = "registered"]
          /\ waiting_task_ids' = waiting_task_ids \cup IdTasks[r]
          /\ UNCHANGED <<queue_results, received, life>>
      BY <1>1 DEF LRegister, Register
    <2>2. ServedFor(r)'
      BY <2>1 DEF ServedFor, LInv, LTypeOK
    <2>3. ASSUME NEW p \in Readers \ {r} PROVE ServedFor(p)'
      BY <2>1, ServedKept DEF Served, LInv, LTypeOK
    <2> QED
      BY <2>2, <2>3 DEF Served
  <1>2. ASSUME NEW r \in Readers, LPost(r) PROVE Served'
    BY <1>2, ServedPost
  <1>3. ASSUME NEW r \in Readers, LRead(r) PROVE Served'
    BY <1>3, ServedReceive, ServedLeave, ServedStop DEF LRead
  <1>4. ASSUME NEW r \in Readers, LGiveUp(r) PROVE Served'
    BY <1>4, ServedLeave DEF LGiveUp
  <1>5. ASSUME NEW r \in Readers, LCancel(r) PROVE Served'
    <2>1. StopPost(r)
      BY <1>5 DEF LCancel
    <2>2. \A id \in Tasks : id \notin IdTasks[r] => life'[id] = life[id]
      BY <1>5 DEF LCancel
    <2>3. \A p \in Readers \ {r} : \A id \in IdTasks[p] : id \in Tasks /\ id \notin IdTasks[r]
      BY ResponseAssumption
    <2> QED
      BY <2>1, <2>2, <2>3, ServedLeave
  <1>6. ASSUME NEW id \in Tasks, LServer(id) PROVE Served'
    BY <1>6, ServedServer
  <1>7. ASSUME LTerminate \/ LHalt \/ UNCHANGED lvars PROVE Served'
    BY <1>7 DEF Served, ServedFor, HasNext, LTerminate, LHalt, lvars, rvars, responses
  <1> QED
    BY <1>1, <1>2, <1>3, <1>4, <1>5, <1>6, <1>7 DEF LNext

\* While a request is read, each of its tasks is pending, running or answered: the
\* answer was read or waits in the queue.
THEOREM ReadersAreServed == LSafe => [](LInv /\ Served)
  <1>1. LInit => Served
    BY DEF LInit, RInit, Served, ServedFor
  <1>2. LInv /\ Served /\ [LNext]_lvars => Served'
    BY ServedStep
  <1> QED
    BY <1>1, <1>2, ResponseInvariant, PTL DEF LSafe
=============================================================================
