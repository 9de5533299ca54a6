---------------------------- MODULE RouterProofs ----------------------------
(***************************************************************************)
(* Proofs about Router, for any models, requests, management requests and  *)
(* limit.                                                                  *)
(***************************************************************************)
EXTENDS Router, TLAPS, FiniteSetTheorems, SequenceTheorems,
        WellFoundedInduction

Statuses == {"absent", "UNLOADED", "LOADING", "LOADED", "SLEEPING"}
Entry    == [model_id : Models, n_waiters : Nat, loading : BOOLEAN]
Commands == {"WATCH", "EXIT", "KILLED"}
Lines    == {"LOADED", "LOADING", "SLEEPING"}

Pcs == {"idle", "join", "ready", "waiting", "load", "make_room", "unload_victim", "await_victim",
        "spawn", "loaded", "threw", "ensured", "counting", "proxied", "unload", "reload",
        "shutdown", "over"}

\* Where a thread is, and that it has a model when it stops one.
ThreadsOK ==
    /\ pc \in [Threads -> Pcs]
    /\ \A r \in Requests : target[r] = ModelOf[r]
    /\ \A t \in Threads : pc[t] = "unload" => target[t] \in Models
    /\ \A t \in Threads : pc[t] = "unload_victim" => victim[t] \in Models

Types == RouterTypeOK /\ ThreadsOK

-----------------------------------------------------------------------------
(* The queue and tick() keep their types *)

LEMMA AppendType ==
    ASSUME NEW S, NEW s \in Seq(S), NEW e \in S
    PROVE  /\ Append(s, e) \in Seq(S)
           /\ Len(Append(s, e)) = Len(s) + 1
           /\ \A i \in 1..Len(s) : Append(s, e)[i] = s[i]
           /\ Append(s, e)[Len(s) + 1] = e
  BY AppendProperties

\* Replacing entries one by one.
LEMMA MapType ==
    ASSUME NEW S, NEW s \in Seq(S), NEW t, DOMAIN t = DOMAIN s, t = [i \in DOMAIN s |-> t[i]],
           \A i \in DOMAIN s : t[i] \in S
    PROVE  t \in Seq(S) /\ Len(t) = Len(s)
  <1>1. DOMAIN s = 1..Len(s) /\ Len(s) \in Nat
    BY LenProperties
  <1>2. t \in [1..Len(s) -> S]
    BY <1>1
  <1>3. t \in Seq(S)
    BY <1>1, <1>2, SMT
  <1>4. DOMAIN t = 1..Len(t) /\ Len(t) \in Nat
    BY <1>3, LenProperties
  <1> QED
    BY <1>1, <1>3, <1>4

LEMMA SetLoadingType ==
    ASSUME NEW q \in Seq(Entry), NEW m, NEW b \in BOOLEAN
    PROVE  SetLoading(q, m, b) \in Seq(Entry) /\ Len(SetLoading(q, m, b)) = Len(q)
  <1>1. \A i \in DOMAIN q : q[i] \in Entry
    BY LenProperties, ElementOfSeq
  <1>2. \A i \in DOMAIN q : [q[i] EXCEPT !.loading = b] \in Entry
    BY <1>1 DEF Entry
  <1> DEFINE t == SetLoading(q, m, b)
  <1>3. DOMAIN t = DOMAIN q /\ t = [i \in DOMAIN q |-> t[i]]
    BY DEF SetLoading
  <1>4. \A i \in DOMAIN q : t[i] \in Entry
    BY <1>1, <1>2 DEF SetLoading
  <1> HIDE DEF t
  <1>5. t \in Seq(Entry) /\ Len(t) = Len(q)
    BY <1>3, <1>4, MapType
  <1> QED
    BY <1>5 DEF t

LEMMA JoinType ==
    ASSUME NEW q \in Seq(Entry), NEW m \in Models
    PROVE  join(q, m) \in Seq(Entry)
  <1>1. CASE find(q, m) = {}
    <2>1. [model_id |-> m, n_waiters |-> 1, loading |-> FALSE] \in Entry
      BY DEF Entry
    <2> QED
      BY <1>1, <2>1, AppendType DEF join
  <1>2. CASE find(q, m) # {}
    <2>1. \A i \in DOMAIN q : q[i] \in Entry
      BY LenProperties, ElementOfSeq
    <2>2. \A i \in DOMAIN q : [q[i] EXCEPT !.n_waiters = @ + 1] \in Entry
      BY <2>1 DEF Entry
    <2> DEFINE t == join(q, m)
    <2>3. DOMAIN t = DOMAIN q /\ t = [i \in DOMAIN q |-> t[i]]
      BY <1>2 DEF join
    <2>4. \A i \in DOMAIN q : t[i] \in Entry
      BY <1>2, <2>1, <2>2 DEF join
    <2> HIDE DEF t
    <2>5. t \in Seq(Entry)
      BY <2>3, <2>4, MapType
    <2> QED
      BY <2>5 DEF t
  <1> QED
    BY <1>1, <1>2

\* The first entry of a model.
First(q, m) == CHOOSE i \in find(q, m) : \A j \in find(q, m) : i <= j

LEMMA FirstExists ==
    ASSUME NEW q \in Seq(Entry), NEW m, find(q, m) # {}
    PROVE  First(q, m) \in find(q, m) /\ First(q, m) \in 1..Len(q)
  <1>1. find(q, m) \subseteq Nat /\ find(q, m) \subseteq 1..Len(q)
    BY LenProperties DEF find
  <1> DEFINE F == find(q, m)
  <1>2. \E i \in F : \A j \in F : i <= j
    <2>1. F \subseteq Nat /\ F # {}
      BY <1>1
    <2> DEFINE R == OpToRel(<, Nat)
    <2>2. IsWellFoundedOn(R, Nat)
      BY NatLessThanWellFounded
    <2>3. \A i, j \in Nat : <<i, j>> \in R <=> i < j
      BY DEF OpToRel
    <2> HIDE DEF F, R
    <2>4. \E i \in F : \A j \in F : ~(<<j, i>> \in R)
      BY <2>1, <2>2, WFMin
    <2>5. PICK i \in F : \A j \in F : ~(<<j, i>> \in R)
      BY <2>4
    <2>6. ASSUME NEW j \in F PROVE i <= j
      <3>1. i \in Nat /\ j \in Nat
        BY <2>1
      <3>2. ~(j < i)
        BY <2>3, <2>5, <3>1
      <3> QED
        BY <3>1, <3>2
    <2> QED
      BY <2>6
  <1> QED
    BY <1>1, <1>2 DEF First

\* An entry taken out of a sequence.
LEMMA RemoveType ==
    ASSUME NEW S, NEW s \in Seq(S), NEW k \in 1..Len(s)
    PROVE  LET t == SubSeq(s, 1, k - 1) \o SubSeq(s, k + 1, Len(s))
           IN  /\ t \in Seq(S)
               /\ Len(t) = Len(s) - 1
               /\ \A i \in 1..Len(t) : t[i] = IF i < k THEN s[i] ELSE s[i + 1]
  <1> DEFINE a == SubSeq(s, 1, k - 1)
             b == SubSeq(s, k + 1, Len(s))
             t == a \o b
  <1>1. Len(s) \in Nat /\ k \in Nat /\ k >= 1 /\ k <= Len(s) /\ DOMAIN s = 1..Len(s)
    BY LenProperties
  <1>2. \A i \in 1..Len(s) : s[i] \in S
    BY ElementOfSeq
  <1>3. /\ a \in Seq(S)
        /\ Len(a) = k - 1
        /\ \A i \in 1 .. k - 1 : a[i] = s[i]
    <2>1. /\ a \in Seq(S)
          /\ Len(a) = IF 1 <= k - 1 THEN (k - 1) - 1 + 1 ELSE 0
          /\ \A i \in 1 .. (k - 1) - 1 + 1 : a[i] = s[1 + i - 1]
      BY <1>1, <1>2, SubSeqProperties, 1 \in Int, k - 1 \in Int
    <2> HIDE DEF a
    <2> QED
      BY <1>1, <2>1
  <1>4. /\ b \in Seq(S)
        /\ Len(b) = Len(s) - k
        /\ \A i \in 1 .. Len(s) - k : b[i] = s[k + i]
    <2>1. /\ b \in Seq(S)
          /\ Len(b) = IF k + 1 <= Len(s) THEN Len(s) - (k + 1) + 1 ELSE 0
          /\ \A i \in 1 .. Len(s) - (k + 1) + 1 : b[i] = s[k + 1 + i - 1]
      BY <1>1, <1>2, SubSeqProperties, k + 1 \in Int, Len(s) \in Int
    <2> HIDE DEF b
    <2>2. Len(b) = Len(s) - k
      <3>1. CASE k + 1 <= Len(s)
        <4>1. Len(b) = Len(s) - (k + 1) + 1
          BY <2>1, <3>1
        <4> QED
          BY <1>1, <4>1
      <3>2. CASE ~(k + 1 <= Len(s))
        <4>1. Len(b) = 0
          BY <2>1, <3>2
        <4>2. Len(s) = k
          <5>1. \A n, j \in Nat : j <= n /\ ~(j + 1 <= n) => n = j
            OBVIOUS
          <5> QED
            BY <1>1, <3>2, <5>1
        <4> QED
          BY <1>1, <4>1, <4>2
      <3> QED
        BY <3>1, <3>2
    <2>3. ASSUME NEW i \in 1 .. Len(s) - k PROVE b[i] = s[k + i]
      <3>1. i \in 1 .. Len(s) - (k + 1) + 1 /\ k + 1 + i - 1 = k + i
        BY <1>1
      <3> QED
        BY <2>1, <3>1
    <2> QED
      BY <2>1, <2>2, <2>3
  <1>5. /\ t \in Seq(S)
        /\ Len(t) = Len(a) + Len(b)
        /\ \A i \in 1 .. Len(a) + Len(b) : t[i] = IF i <= Len(a) THEN a[i] ELSE b[i - Len(a)]
    BY <1>3, <1>4, ConcatProperties
  <1> HIDE DEF a, b
  <1>6. Len(t) = Len(s) - 1
    BY <1>1, <1>3, <1>4, <1>5
  <1>7. ASSUME NEW i \in 1..Len(t)
        PROVE  t[i] = IF i < k THEN s[i] ELSE s[i + 1]
    <2>1. CASE i < k
      BY <2>1, <1>1, <1>3, <1>4, <1>5, <1>6
    <2>2. CASE i >= k
      <3>1. t[i] = b[i - Len(a)] /\ i - Len(a) \in 1 .. Len(s) - k
        BY <2>2, <1>1, <1>3, <1>4, <1>5, <1>6
      <3>2. b[i - Len(a)] = s[k + (i - Len(a))] /\ k + (i - Len(a)) = i + 1
        BY <3>1, <1>1, <1>3, <1>4
      <3> QED
        BY <2>2, <3>1, <3>2, <1>1
    <2> QED
      BY <2>1, <2>2, <1>1
  <1> HIDE DEF t
  <1>8. /\ t \in Seq(S)
        /\ Len(t) = Len(s) - 1
        /\ \A i \in 1..Len(t) : t[i] = IF i < k THEN s[i] ELSE s[i + 1]
    BY <1>5, <1>6, <1>7
  <1> QED
    BY <1>8 DEF t, a, b

LEMMA LeaveType ==
    ASSUME NEW q \in Seq(Entry), NEW m
    PROVE  leave(q, m) \in Seq(Entry)
  <1> DEFINE i == First(q, m)
  <1>1. CASE find(q, m) = {}
    BY <1>1 DEF leave
  <1>2. CASE find(q, m) # {} /\ q[i].n_waiters > 1
    <2>1. i \in 1..Len(q) /\ DOMAIN q = 1..Len(q)
      BY <1>2, FirstExists, LenProperties
    <2>2. \A j \in DOMAIN q : q[j] \in Entry
      BY <2>1, ElementOfSeq
    <2> DEFINE t == [q EXCEPT ![i].n_waiters = @ - 1]
    <2>3. DOMAIN t = DOMAIN q /\ t = [j \in DOMAIN q |-> t[j]]
      OBVIOUS
    <2>4. [q[i] EXCEPT !.n_waiters = @ - 1] \in Entry
      BY <1>2, <2>1, <2>2 DEF Entry
    <2>5. \A j \in DOMAIN q : t[j] \in Entry
      BY <2>1, <2>2, <2>4
    <2> HIDE DEF t
    <2>6. t \in Seq(Entry)
      BY <2>3, <2>5, MapType
    <2> QED
      BY <1>2, <2>6 DEF leave, First, t
  <1>3. CASE find(q, m) # {} /\ ~(q[i].n_waiters > 1)
    <2>1. i \in 1..Len(q)
      BY <1>3, FirstExists
    <2>2. SubSeq(q, 1, i - 1) \o SubSeq(q, i + 1, Len(q)) \in Seq(Entry)
      BY <2>1, RemoveType
    <2> QED
      BY <1>3, <2>2 DEF leave, First
  <1> QED
    BY <1>1, <1>2, <1>3

LEMMA StopType ==
    ASSUME NEW stp \in SUBSET Models, NEW V \in SUBSET Models, NEW cm \in [Models -> Seq(Commands)],
           NEW c \in Commands, Stop(stp, V, cm, c)
    PROVE  /\ stopping_models' \in SUBSET Models
           /\ cmds' \in [Models -> Seq(Commands)]
  <1>1. \A m \in Models : cm[m] \in Seq(Commands) /\ Append(cm[m], c) \in Seq(Commands)
    BY AppendType
  <1> QED
    BY <1>1 DEF Stop

\* tick() stops idle models, and nothing else.
LEMMA TickStops ==
    ASSUME NEW st, NEW stp, NEW q, NEW rc, NEW cm, tick(st, stp, q, rc, cm)
    PROVE  \E V \in SUBSET IdleModels(st, stp, q, rc) : Stop(stp, V, cm, "EXIT")
  BY DEF tick, Evictions

LEMMA TickType ==
    ASSUME NEW st, NEW stp \in SUBSET Models, NEW q, NEW rc, NEW cm \in [Models -> Seq(Commands)],
           tick(st, stp, q, rc, cm)
    PROVE  /\ stopping_models' \in SUBSET Models
           /\ cmds' \in [Models -> Seq(Commands)]
  <1>1. PICK V \in SUBSET IdleModels(st, stp, q, rc) : Stop(stp, V, cm, "EXIT")
    BY TickStops
  <1>2. V \in SUBSET Models
    BY DEF IdleModels
  <1> QED
    BY <1>1, <1>2, StopType DEF Commands

\* unload() changes what is stopping, the commands and, by a kill, the process.
LEMMA UnloadType ==
    ASSUME Types, NEW m \in Models, unload(m)
    PROVE  /\ stopping_models' \in SUBSET Models
           /\ cmds' \in [Models -> Seq(Commands)]
           /\ proc' \in [Models -> {"none"} \cup Alive \cup Exited]
           /\ UNCHANGED <<out, told>>
  <1> USE DEF Types, RouterTypeOK
  <1>1. stopping_models \in SUBSET Models /\ cmds \in [Models -> Seq(Commands)] /\ {m} \in SUBSET Models
    BY DEF Commands
  <1>2. CASE IsRunning(status[m]) /\ status[m] = "LOADING"
    BY <1>1, <1>2, StopType DEF unload, StopModel, Kill, Exited, Commands
  <1>3. CASE IsRunning(status[m]) /\ status[m] # "LOADING"
    BY <1>1, <1>3, StopType DEF unload, StopModel, Commands
  <1>4. CASE ~IsRunning(status[m])
    BY <1>1, <1>4 DEF unload, child
  <1> QED
    BY <1>2, <1>3, <1>4

-----------------------------------------------------------------------------
(* Every step keeps the types *)

LEMMA InitTypes == RInit => Types
  <1> SUFFICES ASSUME RInit PROVE Types
    OBVIOUS
  <1>1. <<>> \in Seq(Entry) /\ <<>> \in Seq(Commands) /\ <<>> \in Seq(Lines)
    BY EmptySeq
  <1>2. RouterTypeOK
    <2>1. /\ status \in [Models -> Statuses] /\ req_count \in [Models -> Nat]
          /\ proc \in [Models -> {"none"} \cup Alive \cup Exited]
      BY DEF RInit, Statuses
    <2>2. cmds \in [Models -> Seq(Commands)] /\ out \in [Models -> Seq(Lines)]
      BY <1>1 DEF RInit
    <2>3. /\ target \in [Threads -> Models \cup {NoModel}]
          /\ victim \in [Threads -> Models \cup {NoModel}]
      BY RouterAssumption DEF RInit
    <2>4. failures \in 0..MaxFailures
      BY RouterAssumption DEF RInit
    <2>5. {to_unload, remaining, final_presets} \subseteq [Admins -> SUBSET Models]
      BY DEF RInit
    <2>6. queue \in Seq(Entry)
      BY <1>1 DEF RInit
    <2> QED
      BY <2>1, <2>2, <2>3, <2>4, <2>5, <2>6
         DEF RInit, RouterTypeOK, Statuses, Entry, Commands, Lines
  <1>3. ThreadsOK
    BY RouterAssumption DEF RInit, ThreadsOK, Threads, Pcs
  <1> QED
    BY <1>2, <1>3 DEF Types

LEMMA RequestTypes ==
    ASSUME Types, NEW r \in Requests, Request(r)
    PROVE  Types'
  <1> USE DEF Types, Goto, Threads, Pcs
  <1>0. /\ target[r] \in Models /\ queue \in Seq(Entry) /\ stopping_models \in SUBSET Models
        /\ cmds \in [Models -> Seq(Commands)]
    BY RouterAssumption DEF RouterTypeOK, ThreadsOK, Entry, Commands
  <1>1. CASE EnsureMeta(r)
    BY <1>1 DEF EnsureMeta, RouterTypeOK, ThreadsOK, mapping, monitor, child, reload
  <1>2. CASE EnsureStopping(r)
    BY <1>2 DEF EnsureStopping, RouterTypeOK, ThreadsOK, mapping, monitor, child, reload
  <1>3. ASSUME JoinQueue(r)
        PROVE  /\ queue' \in Seq(Entry)
               /\ queued' \in SUBSET Requests
               /\ stopping_models' \in SUBSET Models
               /\ cmds' \in [Models -> Seq(Commands)]
    BY <1>0, <1>3, JoinType, TickType DEF JoinQueue, RouterTypeOK
  <1>4. CASE EnsureJoin(r)
    <2>1. /\ queue' \in Seq(Entry)
          /\ queued' \in SUBSET Requests
          /\ stopping_models' \in SUBSET Models
          /\ cmds' \in [Models -> Seq(Commands)]
      BY <1>0, <1>3, <1>4 DEF EnsureJoin, RouterTypeOK
    <2> QED
      BY <1>4, <2>1 DEF EnsureJoin, RouterTypeOK, ThreadsOK, child, reload, Entry, Commands
  <1>5. CASE WaitForExit(r)
    BY <1>3, <1>5 DEF WaitForExit, RouterTypeOK, ThreadsOK, child, reload, thread, Entry, Commands
  <1>6. ASSUME LeaveQueue(r)
        PROVE  queue' \in Seq(Entry) /\ queued' \in SUBSET Requests
    BY <1>0, <1>6, LeaveType DEF LeaveQueue, RouterTypeOK
  <1>7. CASE LoopEnds(r)
    BY <1>6, <1>7
       DEF LoopEnds, RouterTypeOK, ThreadsOK, mapping, monitor, child, reload, Entry
  <1>8. ASSUME GiveUp(r)
        PROVE  /\ queue' \in Seq(Entry)
               /\ queued' \in SUBSET Requests
               /\ stopping_models' \in SUBSET Models
               /\ cmds' \in [Models -> Seq(Commands)]
    BY <1>0, <1>6, <1>8, TickType DEF GiveUp
  <1>9. CASE LoopFails(r)
    BY <1>8, <1>9
       DEF LoopFails, GiveUp, RouterTypeOK, ThreadsOK, child, reload, Entry, Commands
  <1>10. CASE LoopStopped(r)
    BY <1>8, <1>10
       DEF LoopStopped, GiveUp, RouterTypeOK, ThreadsOK, child, reload, Entry, Commands
  <1>11. CASE LoopSeesLoading(r)
    BY <1>11 DEF LoopSeesLoading, RouterTypeOK, ThreadsOK, mapping, monitor, child, reload
  <1>12. CASE Claim(r)
    <2>1. queue' \in Seq(Entry)
      BY <1>0, <1>12, SetLoadingType DEF Claim
    <2> QED
      BY <1>12, <2>1 DEF Claim, RouterTypeOK, ThreadsOK, mapping, monitor, child, reload, Entry
  <1>13. CASE ClaimDone(r)
    <2>1. queue' \in Seq(Entry)
      BY <1>0, <1>13, SetLoadingType DEF ClaimDone
    <2>2. /\ stopping_models' \in SUBSET Models
          /\ cmds' \in [Models -> Seq(Commands)]
      BY <1>0, <1>13, TickType DEF ClaimDone
    <2> QED
      BY <1>13, <2>1, <2>2
         DEF ClaimDone, RouterTypeOK, ThreadsOK, child, reload, Entry, Commands
  <1>14. CASE ProxyMeta(r)
    BY <1>14 DEF ProxyMeta, RouterTypeOK, ThreadsOK, mapping, monitor, child, reload
  <1>15. CASE ProxyCount(r)
    <2>1. req_count' \in [Models -> Nat]
      <3>1. req_count \in [Models -> Nat]
        BY DEF RouterTypeOK
      <3>2. req_count' = [req_count EXCEPT ![target[r]] = @ + 1]
        BY <1>15 DEF ProxyCount
      <3>3. req_count[target[r]] + 1 \in Nat
        BY <1>0, <3>1
      <3> QED
        BY <3>1, <3>2, <3>3
    <2>2. status' \in [Models -> Statuses]
      BY <1>15 DEF ProxyCount, RouterTypeOK, Statuses
    <2> QED
      BY <1>15, <2>1, <2>2 DEF ProxyCount, RouterTypeOK, ThreadsOK, Statuses, monitor, child, reload
  <1>16. CASE ProxyEnd(r)
    <2>1. /\ stopping_models' \in SUBSET Models
          /\ cmds' \in [Models -> Seq(Commands)]
      BY <1>0, <1>16, TickType DEF ProxyEnd
    <2>2. req_count' \in [Models -> Nat]
      BY <1>0, <1>16 DEF ProxyEnd, RouterTypeOK
    <2> QED
      BY <1>16, <2>1, <2>2 DEF ProxyEnd, RouterTypeOK, ThreadsOK, child, reload, Commands
  <1> QED
    BY <1>1, <1>2, <1>4, <1>5, <1>7, <1>9, <1>10, <1>11, <1>12, <1>13, <1>14, <1>15, <1>16
       DEF Request

LEMMA LoadTypes ==
    ASSUME Types, NEW t \in Threads, Load(t) \/ SpawnFails(t)
    PROVE  Types'
  <1> USE DEF Types, Goto, Pcs
  <1>1. CASE LoadBegin(t)
    BY <1>1 DEF LoadBegin, Return, RouterTypeOK, ThreadsOK, mapping, monitor, child, reload
  <1>2. CASE MakeRoom(t)
    BY <1>2 DEF MakeRoom, IdleModels, RouterTypeOK, ThreadsOK, mapping, monitor, child, reload
  <1>3. CASE UnloadVictim(t)
    <2>1. victim[t] \in Models
      BY <1>3 DEF UnloadVictim, ThreadsOK
    <2>2. /\ stopping_models' \in SUBSET Models
          /\ cmds' \in [Models -> Seq(Commands)]
          /\ proc' \in [Models -> {"none"} \cup Alive \cup Exited]
          /\ UNCHANGED <<out, told>>
      BY <1>3, <2>1, UnloadType DEF UnloadVictim
    <2> QED
      BY <1>3, <2>2 DEF UnloadVictim, RouterTypeOK, ThreadsOK, reload, Commands
  <1>4. CASE AwaitVictim(t)
    BY <1>4 DEF AwaitVictim, RouterTypeOK, ThreadsOK, monitor, child, reload
  <1>5. CASE LoadNotNeeded(t)
    BY <1>5 DEF LoadNotNeeded, Return, RouterTypeOK, ThreadsOK, mapping, monitor, child, reload
  <1>6. CASE LoadRefused(t)
    BY <1>6 DEF LoadRefused, Return, RouterTypeOK, ThreadsOK, mapping, monitor, child, reload
  <1>7. CASE Spawn(t)
    <2>1. cmds' \in [Models -> Seq(Commands)]
      BY <1>7, AppendType DEF Spawn, RouterTypeOK, Commands
    <2> QED
      BY <1>7, <2>1 DEF Spawn, Return, RouterTypeOK, ThreadsOK, reload, Commands, Alive
  <1>8. CASE SpawnFails(t)
    <2>1. failures' \in 0..MaxFailures
      BY <1>8, RouterAssumption DEF SpawnFails, RouterTypeOK
    <2>2. status' \in [Models -> Statuses]
      BY <1>8 DEF SpawnFails, RouterTypeOK, Statuses
    <2> QED
      BY <1>8, <2>1, <2>2
         DEF SpawnFails, Return, RouterTypeOK, ThreadsOK, Statuses, monitor, child, reload
  <1> QED
    BY <1>1, <1>2, <1>3, <1>4, <1>5, <1>6, <1>7, <1>8 DEF Load

LEMMA AdminTypes ==
    ASSUME Types, NEW a \in Admins, Admin(a)
    PROVE  Types'
  <1> USE DEF Types, Goto, Threads, Pcs
  <1>0. /\ stopping_models \in SUBSET Models /\ cmds \in [Models -> Seq(Commands)]
        /\ failed \in SUBSET Models
        /\ to_unload \in [Admins -> SUBSET Models] /\ remaining \in [Admins -> SUBSET Models]
        /\ final_presets \in [Admins -> SUBSET Models]
    BY DEF RouterTypeOK, Commands
  <1>1. CASE AdminLoad(a)
    BY <1>1, RouterAssumption DEF AdminLoad, RouterTypeOK, ThreadsOK, mapping, monitor, child, reload
  <1>2. CASE AdminUnload(a)
    BY <1>2, RouterAssumption DEF AdminUnload, RouterTypeOK, ThreadsOK, mapping, monitor, child, reload
  <1>3. CASE AdminUnloads(a)
    <2>1. target[a] \in Models
      BY <1>3 DEF AdminUnloads, ThreadsOK
    <2>2. /\ stopping_models' \in SUBSET Models
          /\ cmds' \in [Models -> Seq(Commands)]
          /\ proc' \in [Models -> {"none"} \cup Alive \cup Exited]
          /\ UNCHANGED <<out, told>>
      BY <1>3, <2>1, UnloadType DEF AdminUnloads
    <2> QED
      BY <1>3, <2>2 DEF AdminUnloads, RouterTypeOK, ThreadsOK, reload, Commands
  <1>4. ASSUME NEW found \in SUBSET Models, Reconcile(found)
        PROVE  /\ status' \in [Models -> Statuses] /\ req_count' \in [Models -> Nat]
               /\ failed' \in SUBSET Models /\ is_reloading' \in BOOLEAN
    BY <1>0, <1>4 DEF Reconcile, RouterTypeOK, Statuses
  <1>5. CASE ReloadBegin(a)
    <2>1. PICK gone \in SUBSET MayVanish, changed \in SUBSET MayVanish :
            LET down == Running(status) \cap (gone \cup changed) IN
            IF down = {}
            THEN Reconcile(Models \ gone) /\ Goto(a, "over")
                 /\ UNCHANGED <<to_unload, remaining, final_presets>>
            ELSE /\ is_reloading' = TRUE
                 /\ final_presets' = [final_presets EXCEPT ![a] = Models \ gone]
                 /\ to_unload' = [to_unload EXCEPT ![a] = down]
                 /\ remaining' = [remaining EXCEPT ![a] = down]
                 /\ Goto(a, "reload")
                 /\ UNCHANGED <<status, failed, req_count>>
      BY <1>5 DEF ReloadBegin
    <2> DEFINE down == Running(status) \cap (gone \cup changed)
    <2>2. /\ status' \in [Models -> Statuses] /\ req_count' \in [Models -> Nat]
          /\ failed' \in SUBSET Models /\ is_reloading' \in BOOLEAN
      <3>1. CASE down = {}
        <4>1. Models \ gone \in SUBSET Models /\ Reconcile(Models \ gone)
          BY <2>1, <3>1
        <4> QED
          BY <1>4, <4>1
      <3>2. CASE down # {}
        BY <2>1, <3>2 DEF RouterTypeOK, Statuses
      <3> QED
        BY <3>1, <3>2
    <2>3. {to_unload', remaining', final_presets'} \subseteq [Admins -> SUBSET Models]
      <3>1. down \in SUBSET Models /\ Models \ gone \in SUBSET Models
        BY DEF Running
      <3>2. CASE down = {}
        BY <1>0, <2>1, <3>2
      <3>3. CASE down # {}
        <4>1. /\ final_presets' = [final_presets EXCEPT ![a] = Models \ gone]
              /\ to_unload' = [to_unload EXCEPT ![a] = down]
              /\ remaining' = [remaining EXCEPT ![a] = down]
          BY <2>1, <3>3
        <4> HIDE DEF down
        <4>2. to_unload' \in [Admins -> SUBSET Models]
          BY <1>0, <3>1, <4>1
        <4>3. remaining' \in [Admins -> SUBSET Models]
          BY <1>0, <3>1, <4>1
        <4>4. final_presets' \in [Admins -> SUBSET Models]
          BY <1>0, <3>1, <4>1
        <4> QED
          BY <4>2, <4>3, <4>4
      <3> QED
        BY <3>2, <3>3
    <2>4. pc' = [pc EXCEPT ![a] = "over"] \/ pc' = [pc EXCEPT ![a] = "reload"]
      BY <2>1
    <2> QED
      BY <1>5, <2>2, <2>3, <2>4
         DEF ReloadBegin, RouterTypeOK, ThreadsOK, Statuses, monitor, child
  <1>6. CASE ReloadUnload(a)
    <2>1. PICK m \in remaining[a] : unload(m) /\ remaining' = [remaining EXCEPT ![a] = @ \ {m}]
      BY <1>6 DEF ReloadUnload
    <2>2. m \in Models
      BY <1>0, <2>1
    <2>3. /\ stopping_models' \in SUBSET Models
          /\ cmds' \in [Models -> Seq(Commands)]
          /\ proc' \in [Models -> {"none"} \cup Alive \cup Exited]
          /\ UNCHANGED <<out, told>>
      BY <2>1, <2>2, UnloadType
    <2>4. remaining' \in [Admins -> SUBSET Models]
      BY <1>0, <2>1
    <2> QED
      BY <1>0, <1>6, <2>3, <2>4 DEF ReloadUnload, RouterTypeOK, ThreadsOK, thread, Commands
  <1>7. CASE ReloadFinish(a)
    <2>1. final_presets[a] \in SUBSET Models /\ Reconcile(final_presets[a])
      BY <1>0, <1>7 DEF ReloadFinish
    <2>2. /\ status' \in [Models -> Statuses] /\ req_count' \in [Models -> Nat]
          /\ failed' \in SUBSET Models /\ is_reloading' \in BOOLEAN
      BY <1>4, <2>1
    <2>3. {to_unload', remaining', final_presets'} \subseteq [Admins -> SUBSET Models]
      BY <1>0, <1>7 DEF ReloadFinish
    <2> QED
      BY <1>7, <2>2, <2>3 DEF ReloadFinish, RouterTypeOK, ThreadsOK, Statuses, monitor, child
  <1>8. CASE Shutdown(a)
    <2>1. stopping_models' \in SUBSET Models
      BY <1>0, <1>8 DEF Shutdown, Running
    <2>2. proc' \in [Models -> {"none"} \cup Alive \cup Exited]
      BY <1>8 DEF Shutdown, RouterTypeOK, Exited
    <2>3. cmds' \in [Models -> Seq(Commands)]
      <3>1. \A m \in Models, c \in Commands : Append(cmds[m], c) \in Seq(Commands)
        BY <1>0, AppendType
      <3> QED
        BY <1>0, <1>8, <3>1 DEF Shutdown, Commands
    <2> QED
      BY <1>8, <2>1, <2>2, <2>3 DEF Shutdown, RouterTypeOK, ThreadsOK, reload, Commands
  <1>9. CASE ShutdownDone(a)
    BY <1>9 DEF ShutdownDone, RouterTypeOK, ThreadsOK, mapping, monitor, child, reload
  <1> QED
    BY <1>1, <1>2, <1>3, <1>5, <1>6, <1>7, <1>8, <1>9 DEF Admin

\* The steps of the monitor and of a child.
ChildStep(m) ==
    \/ Monitor(m) \/ ForceKill(m)
    \/ ChildReady(m) \/ ChildSleeps(m) \/ ChildWakes(m) \/ ChildExits(m) \/ ChildCrashes(m)

\* The rest of a non-empty sequence.
LEMMA TailType ==
    ASSUME NEW S, NEW s \in Seq(S), s # <<>>
    PROVE  /\ Tail(s) \in Seq(S)
           /\ Len(Tail(s)) = Len(s) - 1
           /\ \A i \in 1..Len(Tail(s)) : Tail(s)[i] = s[i + 1]
           /\ Head(s) = s[1] /\ Head(s) \in S
  BY HeadTailProperties

LEMMA ChildTypes ==
    ASSUME Types, NEW m \in Models, ChildStep(m)
    PROVE  Types'
  <1> USE DEF Types
  <1>0. /\ stopping_models \in SUBSET Models /\ cmds \in [Models -> Seq(Commands)]
        /\ out \in [Models -> Seq(Lines)] /\ status \in [Models -> Statuses]
    BY DEF RouterTypeOK, Commands, Lines, Statuses
  <1>1. CASE HandleCommand(m)
    <2>1. Tail(cmds[m]) \in Seq(Commands)
      BY <1>0, <1>1, TailType DEF HandleCommand
    <2>2. cmds' \in [Models -> Seq(Commands)]
      BY <1>0, <1>1, <2>1 DEF HandleCommand
    <2> QED
      BY <1>1, <2>2
         DEF HandleCommand, RouterTypeOK, ThreadsOK, mapping, thread, reload, Commands
  <1>2. CASE ReadLine(m)
    <2>1. Tail(out[m]) \in Seq(Lines) /\ Head(out[m]) \in Lines
      BY <1>0, <1>2, TailType DEF ReadLine
    <2>2. out' \in [Models -> Seq(Lines)]
      BY <1>0, <1>2, <2>1 DEF ReadLine
    <2>3. status' \in [Models -> Statuses] /\ failed' \in SUBSET Models
      BY <1>0, <1>2, <2>1 DEF ReadLine, RouterTypeOK, Lines, Statuses
    <2>4. /\ stopping_models' \in SUBSET Models
          /\ cmds' \in [Models -> Seq(Commands)]
      BY <1>0, <1>2, TickType DEF ReadLine
    <2> QED
      BY <1>2, <2>2, <2>3, <2>4
         DEF ReadLine, RouterTypeOK, ThreadsOK, thread, reload, Commands, Lines, Statuses
  <1>3. CASE Reap(m)
    <2>1. /\ status' \in [Models -> Statuses] /\ failed' \in SUBSET Models
          /\ proc' \in [Models -> {"none"} \cup Alive \cup Exited]
      BY <1>0, <1>3 DEF Reap, RouterTypeOK, Statuses
    <2>2. stopping_models \ {m} \in SUBSET Models
      BY <1>0
    <2>3. /\ stopping_models' \in SUBSET Models
          /\ cmds' \in [Models -> Seq(Commands)]
      BY <1>0, <1>3, <2>2, TickType DEF Reap
    <2> QED
      BY <1>3, <2>1, <2>3
         DEF Reap, RouterTypeOK, ThreadsOK, thread, reload, Commands, Statuses
  <1>4. CASE ForceKill(m)
    BY <1>4
       DEF ForceKill, Kill, RouterTypeOK, ThreadsOK, mapping, thread, reload, Exited
  <1>5. ASSUME NEW st \in Alive, NEW line \in Lines, Say(m, st, line)
        PROVE  Types'
    <2>1. out' \in [Models -> Seq(Lines)]
      BY <1>0, <1>5, AppendType DEF Say
    <2>2. proc' \in [Models -> {"none"} \cup Alive \cup Exited]
      BY <1>5 DEF Say, RouterTypeOK
    <2> QED
      BY <1>5, <2>1, <2>2
         DEF Say, RouterTypeOK, ThreadsOK, mapping, monitor, thread, reload, Lines
  <1>6. CASE ChildReady(m)
    BY <1>5, <1>6 DEF ChildReady, Alive, Lines
  <1>7. CASE ChildSleeps(m)
    BY <1>5, <1>7 DEF ChildSleeps, Alive, Lines
  <1>8. CASE ChildWakes(m)
    BY <1>5, <1>8 DEF ChildWakes, Alive, Lines
  <1>9. CASE ChildExits(m)
    BY <1>9
       DEF ChildExits, RouterTypeOK, ThreadsOK, mapping, monitor, thread, reload, Exited
  <1>10. CASE ChildCrashes(m)
    BY <1>10
       DEF ChildCrashes, Kill, RouterTypeOK, ThreadsOK, mapping, monitor, thread, reload, Exited
  <1> QED
    BY <1>1, <1>2, <1>3, <1>4, <1>6, <1>7, <1>8, <1>9, <1>10 DEF ChildStep, Monitor

\* Every action has the types, and no step keeps them either.
LEMMA Steps ==
    RNext <=> \/ \E r \in Requests : Request(r)
              \/ \E a \in Admins : Admin(a)
              \/ \E t \in Threads : Load(t) \/ SpawnFails(t)
              \/ \E m \in Models : ChildStep(m)
  BY DEF RNext, ChildStep

LEMMA StepTypes == Types /\ [RNext]_rvars => Types'
  <1> SUFFICES ASSUME Types, [RNext]_rvars PROVE Types'
    OBVIOUS
  <1>1. CASE RNext
    BY <1>1, Steps, RequestTypes, AdminTypes, LoadTypes, ChildTypes
  <1>2. CASE UNCHANGED rvars
    BY <1>2 DEF rvars, mapping, monitor, child, thread, reload, Types, RouterTypeOK, ThreadsOK
  <1> QED
    BY <1>1, <1>2

\* Every variable keeps its type.
THEOREM RouterTypesCorrect == RSpec => []RouterTypeOK
  <1>1. RInit => Types
    BY InitTypes
  <1>2. Types /\ [RNext]_rvars => Types'
    BY StepTypes
  <1>3. Types => RouterTypeOK
    BY DEF Types
  <1> QED
    BY <1>1, <1>2, <1>3, PTL DEF RSpec

-----------------------------------------------------------------------------
(* One process per model, and no more than models_max of them *)

\* One management thread at most reloads: two_reloads shows what happens otherwise.
OneReloader ==
    \A a, b \in Admins : "reload" \in AdminOps[a] /\ "reload" \in AdminOps[b] => a = b

\* A process that is gone has said all it had to say, and as long as a thread reloads
\* what runs is in the sources it has found or is about to be unloaded.
ProcInv ==
    /\ NoSecondProcess
    /\ \A m \in Models : proc[m] = "none" => out[m] = <<>>
    /\ \A a \in Admins : pc[a] = "reload" =>
        /\ is_reloading /\ "reload" \in AdminOps[a]
        /\ \A m \in Models : IsRunning(status[m]) => m \in final_presets[a] \cup to_unload[a]

\* Most steps leave alone which models run and which processes exist.
LEMMA ProcQuiet ==
    ASSUME Types, Types', ProcInv,
           \A m \in Models : IsRunning(status'[m]) <=> IsRunning(status[m]),
           \A m \in Models : proc'[m] = "none" <=> proc[m] = "none",
           \A m \in Models : proc[m] = "none" => out'[m] = out[m],
           UNCHANGED <<is_reloading, final_presets, to_unload>>,
           \A a \in Admins : pc'[a] = "reload" => pc[a] = "reload"
    PROVE  ProcInv'
  BY DEF ProcInv, NoSecondProcess

\* unload() kills processes and ends none.
LEMMA UnloadQuiet ==
    ASSUME Types, NEW m \in Models, unload(m)
    PROVE  /\ \A n \in Models : proc'[n] = "none" <=> proc[n] = "none"
           /\ out' = out
  BY DEF unload, StopModel, Kill, Alive, child, Types, RouterTypeOK

LEMMA RequestProc ==
    ASSUME Types, Types', ProcInv, NEW r \in Requests, Request(r)
    PROVE  ProcInv'
  <1>1. \A m \in Models : IsRunning(status'[m]) <=> IsRunning(status[m])
    <2>1. CASE ProxyCount(r)
      <3>1. status' = [status EXCEPT ![target[r]] = IF @ = "absent" THEN "UNLOADED" ELSE @]
        BY <2>1 DEF ProxyCount
      <3> QED
        BY <3>1 DEF IsRunning, Types, RouterTypeOK
    <2>2. CASE ~ProxyCount(r)
      <3>1. status' = status
        BY <2>2 DEF Request, EnsureMeta, EnsureStopping, EnsureJoin, WaitForExit, LoopEnds,
                    LoopFails, LoopStopped, LoopSeesLoading, Claim, ClaimDone, ProxyMeta, ProxyEnd,
                    mapping
      <3> QED
        BY <3>1
    <2> QED
      BY <2>1, <2>2
  <1>2. UNCHANGED <<proc, out, is_reloading, final_presets, to_unload>>
    BY DEF Request, EnsureMeta, EnsureStopping, EnsureJoin, WaitForExit, LoopEnds, LoopFails,
           LoopStopped, LoopSeesLoading, Claim, ClaimDone, ProxyMeta, ProxyCount, ProxyEnd,
           child, reload
  <1>3. \A a \in Admins : pc'[a] = pc[a]
    BY RouterAssumption
       DEF Request, EnsureMeta, EnsureStopping, EnsureJoin, WaitForExit, LoopEnds, LoopFails,
           LoopStopped, LoopSeesLoading, Claim, ClaimDone, ProxyMeta, ProxyCount, ProxyEnd,
           GiveUp, Goto, thread, Types, ThreadsOK, Threads
  <1> QED
    BY <1>1, <1>2, <1>3, ProcQuiet

LEMMA LoadProc ==
    ASSUME Types, Types', ProcInv, NEW t \in Threads, Load(t) \/ SpawnFails(t)
    PROVE  ProcInv'
  <1>1. CASE Spawn(t)
    <2> DEFINE m == target[t]
    <2>1. ~is_reloading
      BY <1>1 DEF Spawn
    <2>2. \A a \in Admins : pc[a] # "reload" /\ pc'[a] # "reload"
      BY <1>1, <2>1 DEF ProcInv, Spawn, Return, Goto, Types, ThreadsOK, Threads
    <2>3. NoSecondProcess'
      BY <1>1 DEF ProcInv, NoSecondProcess, Spawn, IsRunning, Types, RouterTypeOK
    <2>4. \A n \in Models : proc'[n] = "none" => out'[n] = <<>>
      BY <1>1 DEF ProcInv, Spawn, Types, RouterTypeOK
    <2> QED
      BY <2>2, <2>3, <2>4 DEF ProcInv
  <1>2. CASE UnloadVictim(t)
    <2>1. victim[t] \in Models
      BY <1>2 DEF UnloadVictim, Types, ThreadsOK
    <2>2. /\ \A n \in Models : proc'[n] = "none" <=> proc[n] = "none"
          /\ out' = out
      BY <1>2, <2>1, UnloadQuiet DEF UnloadVictim
    <2>3. UNCHANGED <<status, is_reloading, final_presets, to_unload>>
      BY <1>2 DEF UnloadVictim, reload
    <2>4. \A a \in Admins : pc'[a] = "reload" => pc[a] = "reload"
      BY <1>2 DEF UnloadVictim, Goto, Types, ThreadsOK, Threads
    <2> QED
      BY <2>2, <2>3, <2>4, ProcQuiet
  <1>3. CASE LoadBegin(t) \/ MakeRoom(t) \/ AwaitVictim(t) \/ LoadNotNeeded(t) \/ LoadRefused(t)
             \/ SpawnFails(t)
    <2>1. \A m \in Models : IsRunning(status'[m]) <=> IsRunning(status[m])
      <3>1. CASE AwaitVictim(t)
        <4>1. /\ status[victim[t]] \in {"UNLOADED", "absent"}
              /\ status' = [status EXCEPT ![victim[t]] = "UNLOADED"]
          BY <3>1 DEF AwaitVictim
        <4> QED
          BY <4>1 DEF IsRunning, Types, RouterTypeOK
      <3>2. CASE SpawnFails(t)
        <4>1. /\ ~IsRunning(status[target[t]])
              /\ status' = [status EXCEPT ![target[t]] = "UNLOADED"]
          BY <3>2 DEF SpawnFails
        <4> QED
          BY <4>1 DEF IsRunning, Types, RouterTypeOK
      <3>3. CASE LoadBegin(t) \/ MakeRoom(t) \/ LoadNotNeeded(t) \/ LoadRefused(t)
        <4>1. status' = status
          BY <3>3 DEF LoadBegin, MakeRoom, LoadNotNeeded, LoadRefused, mapping
        <4> QED
          BY <4>1
      <3> QED
        BY <1>3, <3>1, <3>2, <3>3
    <2>2. UNCHANGED <<proc, out, is_reloading, final_presets, to_unload>>
      BY <1>3 DEF LoadBegin, MakeRoom, AwaitVictim, LoadNotNeeded, LoadRefused, SpawnFails,
                  child, reload
    <2>3. \A a \in Admins : pc'[a] = "reload" => pc[a] = "reload"
      BY <1>3 DEF LoadBegin, MakeRoom, AwaitVictim, LoadNotNeeded, LoadRefused, SpawnFails,
                  Return, Goto, Types, ThreadsOK, Threads
    <2> QED
      BY <2>1, <2>2, <2>3, ProcQuiet
  <1> QED
    BY <1>1, <1>2, <1>3 DEF Load

LEMMA AdminProc ==
    ASSUME OneReloader, Types, Types', ProcInv, NEW a \in Admins, Admin(a)
    PROVE  ProcInv'
  <1>1. CASE AdminLoad(a) \/ AdminUnload(a) \/ ShutdownDone(a)
    <2>1. UNCHANGED <<status, proc, out, is_reloading, final_presets, to_unload>>
      BY <1>1 DEF AdminLoad, AdminUnload, ShutdownDone, mapping, child, reload
    <2>2. \A b \in Admins : pc'[b] = "reload" => pc[b] = "reload"
      BY <1>1 DEF AdminLoad, AdminUnload, ShutdownDone, Goto, Types, ThreadsOK, Threads
    <2> QED
      BY <2>1, <2>2, ProcQuiet
  <1>2. CASE AdminUnloads(a)
    <2>1. target[a] \in Models
      BY <1>2 DEF AdminUnloads, Types, ThreadsOK, Threads
    <2>2. /\ \A n \in Models : proc'[n] = "none" <=> proc[n] = "none"
          /\ out' = out
      BY <1>2, <2>1, UnloadQuiet DEF AdminUnloads
    <2>3. UNCHANGED <<status, is_reloading, final_presets, to_unload>>
      BY <1>2 DEF AdminUnloads, reload
    <2>4. \A b \in Admins : pc'[b] = "reload" => pc[b] = "reload"
      BY <1>2 DEF AdminUnloads, Goto, Types, ThreadsOK, Threads
    <2> QED
      BY <2>2, <2>3, <2>4, ProcQuiet
  <1>3. CASE ReloadUnload(a)
    <2>1. PICK m \in remaining[a] : unload(m)
      BY <1>3 DEF ReloadUnload
    <2>2. m \in Models
      BY <2>1 DEF Types, RouterTypeOK
    <2>3. /\ \A n \in Models : proc'[n] = "none" <=> proc[n] = "none"
          /\ out' = out
      BY <2>1, <2>2, UnloadQuiet
    <2>4. UNCHANGED <<status, pc, is_reloading, final_presets, to_unload>>
      BY <1>3 DEF ReloadUnload, thread
    <2> QED
      BY <2>3, <2>4, ProcQuiet
  <1>4. CASE Shutdown(a)
    <2>1. \A n \in Models : proc'[n] = "none" <=> proc[n] = "none"
      BY <1>4 DEF Shutdown, Alive
    <2>2. UNCHANGED <<status, out, is_reloading, final_presets, to_unload>>
      BY <1>4 DEF Shutdown, reload
    <2>3. \A b \in Admins : pc'[b] = "reload" => pc[b] = "reload"
      BY <1>4 DEF Shutdown, Goto, Types, ThreadsOK, Threads
    <2> QED
      BY <2>1, <2>2, <2>3, ProcQuiet
  <1>5. ASSUME NEW found \in SUBSET Models, Reconcile(found),
               \A m \in Models : IsRunning(status[m]) => m \in found,
               UNCHANGED <<proc, out>>
        PROVE  /\ NoSecondProcess'
               /\ \A m \in Models : proc'[m] = "none" => out'[m] = <<>>
    BY <1>5 DEF ProcInv, NoSecondProcess, Reconcile, IsRunning, Types, RouterTypeOK
  <1>6. CASE ReloadBegin(a)
    <2>1. PICK gone \in SUBSET MayVanish, changed \in SUBSET MayVanish :
            LET down == Running(status) \cap (gone \cup changed) IN
            IF down = {}
            THEN Reconcile(Models \ gone) /\ Goto(a, "over")
                 /\ UNCHANGED <<to_unload, remaining, final_presets>>
            ELSE /\ is_reloading' = TRUE
                 /\ final_presets' = [final_presets EXCEPT ![a] = Models \ gone]
                 /\ to_unload' = [to_unload EXCEPT ![a] = down]
                 /\ remaining' = [remaining EXCEPT ![a] = down]
                 /\ Goto(a, "reload")
                 /\ UNCHANGED <<status, failed, req_count>>
      BY <1>6 DEF ReloadBegin
    <2> DEFINE down == Running(status) \cap (gone \cup changed)
    <2>2. pc[a] = "idle" /\ "reload" \in AdminOps[a] /\ UNCHANGED <<proc, out>>
      BY <1>6 DEF ReloadBegin, child
    <2>3. \A b \in Admins : pc[b] # "reload"
      BY <2>2 DEF ProcInv, OneReloader
    <2>4. CASE down = {}
      <3>1. \A m \in Models : IsRunning(status[m]) => m \in Models \ gone
        BY <2>4 DEF Running
      <3>2. Models \ gone \in SUBSET Models /\ Reconcile(Models \ gone)
        BY <2>1, <2>4
      <3>3. /\ NoSecondProcess'
            /\ \A m \in Models : proc'[m] = "none" => out'[m] = <<>>
        BY <1>5, <2>2, <3>1, <3>2
      <3>4. \A b \in Admins : pc'[b] # "reload"
        BY <2>1, <2>3, <2>4 DEF Goto, Types, ThreadsOK, Threads
      <3> QED
        BY <3>3, <3>4 DEF ProcInv
    <2>5. CASE down # {}
      <3>1. /\ is_reloading' = TRUE
            /\ final_presets' = [final_presets EXCEPT ![a] = Models \ gone]
            /\ to_unload' = [to_unload EXCEPT ![a] = down]
            /\ pc' = [pc EXCEPT ![a] = "reload"]
            /\ UNCHANGED status
        BY <2>1, <2>5 DEF Goto
      <3>2. final_presets'[a] = Models \ gone /\ to_unload'[a] = down
        BY <3>1 DEF Types, RouterTypeOK
      <3>3. \A b \in Admins : pc'[b] = "reload" => b = a
        BY <2>3, <3>1 DEF Types, ThreadsOK, Threads
      <3>4. \A m \in Models : IsRunning(status[m]) => m \in (Models \ gone) \cup down
        BY DEF Running
      <3> QED
        BY <2>2, <3>1, <3>2, <3>3, <3>4 DEF ProcInv, NoSecondProcess
    <2> QED
      BY <2>4, <2>5
  <1>7. CASE ReloadFinish(a)
    <2>1. /\ pc[a] = "reload" /\ to_unload[a] \cap Running(status) = {}
          /\ Reconcile(final_presets[a]) /\ pc' = [pc EXCEPT ![a] = "over"]
          /\ UNCHANGED <<proc, out>>
      BY <1>7 DEF ReloadFinish, Goto, child
    <2>2. "reload" \in AdminOps[a]
          /\ \A m \in Models : IsRunning(status[m]) => m \in final_presets[a]
      BY <2>1 DEF ProcInv, Running
    <2>3. final_presets[a] \in SUBSET Models
      BY DEF Types, RouterTypeOK
    <2>4. /\ NoSecondProcess'
          /\ \A m \in Models : proc'[m] = "none" => out'[m] = <<>>
      BY <1>5, <2>1, <2>2, <2>3
    <2>5. \A b \in Admins : pc'[b] # "reload"
      BY <2>1, <2>2 DEF ProcInv, OneReloader, Types, ThreadsOK, Threads
    <2> QED
      BY <2>4, <2>5 DEF ProcInv
  <1> QED
    BY <1>1, <1>2, <1>3, <1>4, <1>6, <1>7 DEF Admin

LEMMA ChildProc ==
    ASSUME Types, Types', ProcInv, NEW m \in Models, ChildStep(m)
    PROVE  ProcInv'
  <1>1. CASE Reap(m)
    <2>1. /\ status' = [status EXCEPT ![m] = IF @ = "absent" THEN @ ELSE "UNLOADED"]
          /\ proc' = [proc EXCEPT ![m] = "none"] /\ out' = out /\ out[m] = <<>>
          /\ UNCHANGED <<pc, is_reloading, final_presets, to_unload>>
      BY <1>1 DEF Reap, thread, reload, Types, RouterTypeOK
    <2>2. \A n \in Models : IsRunning(status'[n]) => IsRunning(status[n]) /\ n # m
      BY <2>1 DEF IsRunning, Types, RouterTypeOK
    <2>3. \A n \in Models \ {m} : status'[n] = status[n] /\ proc'[n] = proc[n]
      BY <2>1 DEF Types, RouterTypeOK
    <2>4. proc'[m] = "none"
      BY <2>1 DEF Types, RouterTypeOK
    <2> QED
      BY <2>1, <2>2, <2>3, <2>4 DEF ProcInv, NoSecondProcess
  <1>2. CASE ReadLine(m)
    <2>1. /\ m \in watched /\ out[m] # <<>> /\ UNCHANGED <<proc, pc, is_reloading, final_presets, to_unload>>
      BY <1>2 DEF ReadLine, thread, reload
    <2>2. IsRunning(status[m]) /\ proc[m] # "none"
      BY <2>1 DEF ProcInv, NoSecondProcess
    <2>3. Head(out[m]) \in Lines
      BY <2>1, TailType DEF Types, RouterTypeOK, Lines
    <2>4. status' = [status EXCEPT ![m] = Head(out[m])] /\ out' = [out EXCEPT ![m] = Tail(@)]
      BY <1>2, <2>2 DEF ReadLine, IsRunning
    <2>5. \A n \in Models : IsRunning(status'[n]) <=> IsRunning(status[n])
      BY <2>2, <2>3, <2>4 DEF IsRunning, Lines, Types, RouterTypeOK
    <2>6. \A n \in Models : proc[n] = "none" => out'[n] = out[n]
      BY <2>2, <2>4 DEF Types, RouterTypeOK
    <2> QED
      BY <2>1, <2>5, <2>6, ProcQuiet
  <1>3. ASSUME NEW st \in Alive, NEW line, Say(m, st, line), proc[m] # "none"
        PROVE  ProcInv'
    <2>1. \A n \in Models : /\ proc'[n] = "none" <=> proc[n] = "none"
                            /\ proc[n] = "none" => out'[n] = out[n]
      BY <1>3 DEF Say, Alive, Types, RouterTypeOK
    <2>2. UNCHANGED <<status, pc, is_reloading, final_presets, to_unload>>
      BY <1>3 DEF Say, mapping, thread, reload
    <2> QED
      BY <2>1, <2>2, ProcQuiet
  <1>4. CASE ChildReady(m) \/ ChildSleeps(m) \/ ChildWakes(m)
    BY <1>3, <1>4 DEF ChildReady, ChildSleeps, ChildWakes, Alive
  <1>5. CASE HandleCommand(m) \/ ForceKill(m) \/ ChildExits(m) \/ ChildCrashes(m)
    <2>1. \A n \in Models : proc'[n] = "none" <=> proc[n] = "none"
      <3>1. CASE HandleCommand(m)
        BY <3>1 DEF HandleCommand
      <3>2. CASE ForceKill(m) \/ ChildCrashes(m)
        <4>1. proc' = [proc EXCEPT ![m] = IF @ \in Alive THEN "exited_bad" ELSE @]
          BY <3>2 DEF ForceKill, ChildCrashes, Kill
        <4> QED
          BY <4>1 DEF Alive, Types, RouterTypeOK
      <3>3. CASE ChildExits(m)
        <4>1. proc[m] \in {"up", "asleep"} /\ proc' = [proc EXCEPT ![m] = "exited_ok"]
          BY <3>3 DEF ChildExits
        <4> QED
          BY <4>1 DEF Types, RouterTypeOK
      <3> QED
        BY <1>5, <3>1, <3>2, <3>3
    <2>2. UNCHANGED <<status, out, pc, is_reloading, final_presets, to_unload>>
      BY <1>5 DEF HandleCommand, ForceKill, ChildExits, ChildCrashes, mapping, thread, reload
    <2> QED
      BY <2>1, <2>2, ProcQuiet
  <1> QED
    BY <1>1, <1>2, <1>4, <1>5 DEF ChildStep, Monitor

LEMMA InitProc == RInit => ProcInv
  BY DEF RInit, ProcInv, NoSecondProcess, Threads

LEMMA StepProc ==
    ASSUME OneReloader
    PROVE  Types /\ ProcInv /\ [RNext]_rvars => ProcInv'
  <1> SUFFICES ASSUME Types, ProcInv, [RNext]_rvars PROVE ProcInv'
    OBVIOUS
  <1>0. Types'
    BY StepTypes
  <1>1. CASE RNext
    BY <1>0, <1>1, Steps, RequestProc, AdminProc, LoadProc, ChildProc
  <1>2. CASE UNCHANGED rvars
    BY <1>0, <1>2, ProcQuiet DEF rvars, mapping, child, thread, reload
  <1> QED
    BY <1>1, <1>2

\* With one reloader a model that is not loaded has no process: loading it starts no
\* second one (the assertion of load(), server-models.cpp:1216).
THEOREM ProcessesAreSingle ==
    ASSUME OneReloader
    PROVE  RSpec => []NoSecondProcess
  <1>1. RInit => Types /\ ProcInv
    BY InitTypes, InitProc
  <1>2. Types /\ ProcInv /\ [RNext]_rvars => (Types /\ ProcInv)'
    BY StepTypes, StepProc
  <1>3. ProcInv => NoSecondProcess
    BY DEF ProcInv
  <1> QED
    BY <1>1, <1>2, <1>3, PTL DEF RSpec

LEMMA RunningFinite == IsFiniteSet(Models) /\ IsFiniteSet(Running(status))
  <1>1. IsFiniteSet(Models) /\ Running(status) \in SUBSET Models
    BY RouterAssumption DEF Running
  <1> QED
    BY <1>1, FS_Subset

LimitInv == MaxModels > 0 => Cardinality(Running(status)) <= MaxModels

\* Only Spawn adds a running model, and it looks at the capacity.
LEMMA StepRunning ==
    ASSUME Types, ProcInv, RNext
    PROVE  \/ Running(status') \subseteq Running(status)
           \/ \E m \in Models : Running(status') = Running(status) \cup {m} /\ has_capacity
  <1>1. ASSUME NEW r \in Requests, Request(r)
        PROVE  Running(status') \subseteq Running(status)
    <2>1. CASE ProxyCount(r)
      <3>1. status' = [status EXCEPT ![target[r]] = IF @ = "absent" THEN "UNLOADED" ELSE @]
        BY <2>1 DEF ProxyCount
      <3> QED
        BY <3>1 DEF Running, IsRunning, Types, RouterTypeOK
    <2>2. CASE ~ProxyCount(r)
      <3>1. status' = status
        BY <1>1, <2>2
           DEF Request, EnsureMeta, EnsureStopping, EnsureJoin, WaitForExit, LoopEnds,
               LoopFails, LoopStopped, LoopSeesLoading, Claim, ClaimDone, ProxyMeta, ProxyEnd,
               mapping
      <3> QED
        BY <3>1
    <2> QED
      BY <2>1, <2>2
  <1>2. ASSUME NEW a \in Admins, Admin(a)
        PROVE  Running(status') \subseteq Running(status)
    <2>1. CASE ReloadBegin(a) \/ ReloadFinish(a)
      <3>1. \/ status' = status
            \/ \E found : status' = [m \in Models |-> IF m \notin found THEN "absent"
                                       ELSE IF status[m] = "absent" THEN "UNLOADED" ELSE status[m]]
        BY <2>1 DEF ReloadBegin, ReloadFinish, Reconcile
      <3> QED
        BY <3>1 DEF Running, IsRunning
    <2>2. CASE ~(ReloadBegin(a) \/ ReloadFinish(a))
      <3>1. status' = status
        BY <1>2, <2>2
           DEF Admin, AdminLoad, AdminUnload, AdminUnloads, ReloadUnload, Shutdown, ShutdownDone,
               mapping
      <3> QED
        BY <3>1
    <2> QED
      BY <2>1, <2>2
  <1>3. ASSUME NEW t \in Threads, Load(t) \/ SpawnFails(t)
        PROVE  \/ Running(status') \subseteq Running(status)
               \/ \E m \in Models : Running(status') = Running(status) \cup {m} /\ has_capacity
    <2>1. CASE Spawn(t)
      <3>1. has_capacity /\ status' = [status EXCEPT ![target[t]] = "LOADING"]
        BY <2>1 DEF Spawn
      <3>2. CASE target[t] \in Models
        <4>1. Running(status') = Running(status) \cup {target[t]}
          BY <3>1, <3>2 DEF Running, IsRunning, Types, RouterTypeOK
        <4> QED
          BY <3>1, <3>2, <4>1
      <3>3. CASE target[t] \notin Models
        BY <3>1, <3>3 DEF Running, IsRunning, Types, RouterTypeOK
      <3> QED
        BY <3>2, <3>3
    <2>2. CASE AwaitVictim(t) \/ SpawnFails(t)
      <3>1. \E m : status' = [status EXCEPT ![m] = "UNLOADED"]
        BY <2>2 DEF AwaitVictim, SpawnFails
      <3> QED
        BY <3>1 DEF Running, IsRunning, Types, RouterTypeOK
    <2>3. CASE LoadBegin(t) \/ MakeRoom(t) \/ UnloadVictim(t) \/ LoadNotNeeded(t) \/ LoadRefused(t)
      <3>1. status' = status
        BY <2>3 DEF LoadBegin, MakeRoom, UnloadVictim, LoadNotNeeded, LoadRefused, mapping
      <3> QED
        BY <3>1
    <2> QED
      BY <1>3, <2>1, <2>2, <2>3 DEF Load
  <1>4. ASSUME NEW m \in Models, ChildStep(m)
        PROVE  Running(status') \subseteq Running(status)
    <2>1. CASE ReadLine(m)
      <3>1. IsRunning(status[m])
        BY <2>1 DEF ReadLine, ProcInv, NoSecondProcess
      <3>2. \E l : status' = [status EXCEPT ![m] = l]
        BY <2>1, <3>1 DEF ReadLine, IsRunning
      <3> QED
        BY <3>1, <3>2 DEF Running, Types, RouterTypeOK
    <2>2. CASE Reap(m)
      <3>1. status' = status \/ status' = [status EXCEPT ![m] = "UNLOADED"]
        BY <2>2 DEF Reap
      <3> QED
        BY <3>1 DEF Running, IsRunning, Types, RouterTypeOK
    <2>3. CASE ~ReadLine(m) /\ ~Reap(m)
      <3>1. status' = status
        BY <1>4, <2>3
           DEF ChildStep, Monitor, HandleCommand, ForceKill, ChildReady, ChildSleeps, ChildWakes,
               ChildExits, ChildCrashes, Say, mapping
      <3> QED
        BY <3>1
    <2> QED
      BY <2>1, <2>2, <2>3
  <1> QED
    BY <1>1, <1>2, <1>3, <1>4, Steps

LEMMA StepLimit == Types /\ ProcInv /\ LimitInv /\ [RNext]_rvars => LimitInv'
  <1> SUFFICES ASSUME Types, ProcInv, LimitInv, [RNext]_rvars, MaxModels > 0
               PROVE  Cardinality(Running(status')) <= MaxModels
    BY DEF LimitInv
  <1>1. /\ Cardinality(Running(status)) \in Nat /\ Cardinality(Running(status)) <= MaxModels
        /\ MaxModels \in Nat
    BY RunningFinite, FS_CardinalityType, RouterAssumption DEF LimitInv
  <1>2. CASE Running(status') \subseteq Running(status)
    <2>1. Cardinality(Running(status')) <= Cardinality(Running(status))
      BY <1>2, RunningFinite, FS_Subset
    <2>2. Cardinality(Running(status')) \in Nat
      BY <1>2, RunningFinite, FS_Subset, FS_CardinalityType
    <2> QED
      BY <1>1, <2>1, <2>2
  <1>3. ASSUME NEW m \in Models, Running(status') = Running(status) \cup {m}, has_capacity
        PROVE  Cardinality(Running(status')) <= MaxModels
    <2>1. Cardinality(Running(status)) < MaxModels
      BY <1>3 DEF has_capacity
    <2>2. Cardinality(Running(status')) <= Cardinality(Running(status)) + 1
      <3>1. Cardinality(Running(status) \cup {m}) =
              IF m \in Running(status) THEN Cardinality(Running(status))
              ELSE Cardinality(Running(status)) + 1
        BY RunningFinite, FS_AddElement
      <3>2. \A n \in Nat : n <= n + 1 /\ n + 1 <= n + 1
        OBVIOUS
      <3> QED
        BY <1>1, <1>3, <3>1, <3>2
    <2>3. Cardinality(Running(status')) \in Nat
      BY <1>3, RunningFinite, FS_AddElement, FS_CardinalityType
    <2> QED
      BY <1>1, <2>1, <2>2, <2>3
  <1>4. CASE RNext
    BY <1>2, <1>3, <1>4, StepRunning
  <1>5. CASE UNCHANGED rvars
    BY <1>1, <1>5 DEF rvars, mapping
  <1> QED
    BY <1>4, <1>5

LEMMA InitLimit == RInit => LimitInv
  <1> SUFFICES ASSUME RInit, MaxModels > 0 PROVE Cardinality(Running(status)) <= MaxModels
    BY DEF LimitInv
  <1>1. Running(status) = {}
    BY DEF RInit, Running, IsRunning
  <1> QED
    BY <1>1, FS_EmptySet, RouterAssumption

\* A process that is alive belongs to a running model.
LEMMA LimitOfProcesses == NoSecondProcess /\ LimitInv => WithinLimit
  <1> SUFFICES ASSUME NoSecondProcess, LimitInv, MaxModels > 0
               PROVE  Cardinality({m \in Models : proc[m] \in Alive}) <= MaxModels
    BY DEF LimitInv, WithinLimit
  <1> DEFINE A == {m \in Models : proc[m] \in Alive}
             R == Running(status)
  <1>1. A \subseteq R
    BY DEF NoSecondProcess, Running, Alive
  <1>2. IsFiniteSet(R) /\ Cardinality(R) <= MaxModels /\ MaxModels \in Nat
    BY RunningFinite, RouterAssumption DEF LimitInv
  <1> HIDE DEF A, R
  <1>3. IsFiniteSet(A) /\ Cardinality(A) <= Cardinality(R)
    BY <1>1, <1>2, FS_Subset
  <1>4. Cardinality(A) \in Nat /\ Cardinality(R) \in Nat
    BY <1>2, <1>3, FS_CardinalityType
  <1>5. Cardinality(A) <= MaxModels
    BY <1>2, <1>3, <1>4
  <1> QED
    BY <1>5 DEF A

\* Concurrent loads never exceed models_max, neither in the mapping nor in processes.
THEOREM LimitHolds ==
    ASSUME OneReloader
    PROVE  RSpec => []WithinLimit
  <1>1. RInit => Types /\ ProcInv /\ LimitInv
    BY InitTypes, InitProc, InitLimit
  <1>2. Types /\ ProcInv /\ LimitInv /\ [RNext]_rvars => (Types /\ ProcInv /\ LimitInv)'
    BY StepTypes, StepProc, StepLimit
  <1>3. Types /\ ProcInv /\ LimitInv => WithinLimit
    BY LimitOfProcesses DEF ProcInv
  <1> QED
    BY <1>1, <1>2, <1>3, PTL DEF RSpec

-----------------------------------------------------------------------------
(* The queue: one entry per model, which counts its waiters *)

\* What the queue knows of a model.
Entries(q, m) == {q[i] : i \in find(q, m)}

Image(f, S) == {f[e] : e \in S}

OneEntryEach(q) == \A i, j \in DOMAIN q : q[i].model_id = q[j].model_id => i = j

\* What happens to an entry.
OneMore    == [e \in Entry |-> [e EXCEPT !.n_waiters = @ + 1]]
OneLess    == [e \in Entry |-> [e EXCEPT !.n_waiters = @ - 1]]
Flagged(b) == [e \in Entry |-> [e EXCEPT !.loading = b]]

LEMMA EntryChanges ==
    ASSUME NEW e \in Entry, NEW b
    PROVE  /\ OneMore[e] = [e EXCEPT !.n_waiters = @ + 1]
           /\ OneLess[e] = [e EXCEPT !.n_waiters = @ - 1]
           /\ Flagged(b)[e] = [e EXCEPT !.loading = b]
           /\ OneMore[e].model_id = e.model_id /\ OneMore[e].loading = e.loading
           /\ OneLess[e].model_id = e.model_id /\ OneLess[e].loading = e.loading
           /\ Flagged(b)[e].model_id = e.model_id /\ Flagged(b)[e].n_waiters = e.n_waiters
           /\ OneMore[e].n_waiters = e.n_waiters + 1
           /\ OneLess[e].n_waiters = e.n_waiters - 1
           /\ Flagged(b)[e].loading = b
  BY DEF OneMore, OneLess, Flagged, Entry

\* t is q with the entries of m changed by f.
ChangedIn(q, m, t, f) ==
    /\ DOMAIN t = DOMAIN q
    /\ \A i \in DOMAIN q : /\ f[q[i]].model_id = q[i].model_id
                            /\ t[i] = IF i \in find(q, m) THEN f[q[i]] ELSE q[i]

LEMMA EntriesMapped ==
    ASSUME NEW q, NEW m, NEW t, NEW f, ChangedIn(q, m, t, f)
    PROVE  /\ OneEntryEach(q) => OneEntryEach(t)
           /\ \A n : n # m => Entries(t, n) = Entries(q, n)
           /\ Entries(t, m) = Image(f, Entries(q, m))
  <1>1. \A i \in DOMAIN q : t[i].model_id = q[i].model_id
    BY DEF ChangedIn
  <1>2. \A n : find(t, n) = find(q, n)
    BY <1>1 DEF find, ChangedIn
  <1>3. ASSUME NEW n, n # m PROVE \A i \in find(q, n) : t[i] = q[i]
    BY <1>3 DEF find, ChangedIn
  <1>4. \A i \in find(q, m) : t[i] = f[q[i]]
    BY DEF find, ChangedIn
  <1>5. OneEntryEach(q) => OneEntryEach(t)
    BY <1>1 DEF OneEntryEach, ChangedIn
  <1>6. \A n : n # m => Entries(t, n) = Entries(q, n)
    BY <1>2, <1>3 DEF Entries
  <1>7. Entries(t, m) = Image(f, Entries(q, m))
    <2>1. Entries(t, m) = {f[q[i]] : i \in find(q, m)}
      BY <1>2, <1>4 DEF Entries
    <2> QED
      BY <2>1 DEF Entries, Image
  <1> QED
    BY <1>5, <1>6, <1>7

LEMMA EntryTypes ==
    ASSUME NEW q \in Seq(Entry)
    PROVE  /\ \A i \in DOMAIN q : q[i] \in Entry
           /\ \A m : Entries(q, m) \subseteq Entry
           /\ \A m : find(q, m) = {} <=> Entries(q, m) = {}
  <1>1. \A i \in DOMAIN q : q[i] \in Entry
    BY LenProperties, ElementOfSeq
  <1> QED
    BY <1>1 DEF Entries, find

\* join() counts one waiter more, and makes the entry of the first one.
LEMMA JoinEntries ==
    ASSUME NEW q \in Seq(Entry), OneEntryEach(q), NEW m \in Models
    PROVE  LET t == join(q, m)
               new == [model_id |-> m, n_waiters |-> 1, loading |-> FALSE]
           IN  /\ OneEntryEach(t)
               /\ \A n : n # m => Entries(t, n) = Entries(q, n)
               /\ Entries(t, m) = IF find(q, m) = {} THEN {new}
                                  ELSE Image(OneMore, Entries(q, m))
  <1> DEFINE t == join(q, m)
             new == [model_id |-> m, n_waiters |-> 1, loading |-> FALSE]
  <1>1. CASE find(q, m) = {}
    <2>1. new \in Entry /\ new.model_id = m
      BY DEF Entry
    <2>2. t = Append(q, new)
      BY <1>1 DEF join
    <2> HIDE DEF new, t
    <2>3. /\ Len(t) = Len(q) + 1 /\ t[Len(q) + 1] = new
          /\ \A i \in 1..Len(q) : t[i] = q[i]
          /\ DOMAIN t = 1..Len(q) + 1 /\ DOMAIN q = 1..Len(q) /\ Len(q) \in Nat
      BY <2>1, <2>2, AppendType, LenProperties
    <2>4. \A i \in DOMAIN q : q[i].model_id # m
      BY <1>1 DEF find
    <2>5. OneEntryEach(t)
      <3> SUFFICES ASSUME NEW i \in DOMAIN t, NEW j \in DOMAIN t, t[i].model_id = t[j].model_id
                   PROVE  i = j
        BY DEF OneEntryEach
      <3>1. (i \in DOMAIN q /\ t[i] = q[i]) \/ (i = Len(q) + 1 /\ t[i] = new)
        BY <2>3
      <3>2. (j \in DOMAIN q /\ t[j] = q[j]) \/ (j = Len(q) + 1 /\ t[j] = new)
        BY <2>3
      <3> QED
        BY <2>1, <2>4, <3>1, <3>2 DEF OneEntryEach
    <2>6. /\ find(t, m) = {Len(q) + 1}
          /\ \A n : n # m => find(t, n) = find(q, n)
      BY <2>1, <2>3, <2>4 DEF find
    <2>7. Entries(t, m) = {new}
      BY <2>3, <2>6 DEF Entries
    <2>8. \A n : n # m => Entries(t, n) = Entries(q, n)
      BY <2>3, <2>6 DEF Entries, find
    <2> QED
      BY <1>1, <2>5, <2>7, <2>8 DEF t, new
  <1>2. CASE find(q, m) # {}
    <2>1. /\ DOMAIN t = DOMAIN q
          /\ \A i \in DOMAIN q : t[i] = IF i \in find(q, m)
                                        THEN [q[i] EXCEPT !.n_waiters = @ + 1] ELSE q[i]
      BY <1>2 DEF join
    <2>2. \A i \in DOMAIN q : q[i] \in Entry
      BY EntryTypes
    <2>3. \A i \in DOMAIN q : /\ OneMore[q[i]].model_id = q[i].model_id
                              /\ OneMore[q[i]] = [q[i] EXCEPT !.n_waiters = @ + 1]
      BY <2>2, EntryChanges
    <2> HIDE DEF t
    <2>4. ChangedIn(q, m, t, OneMore)
      BY <2>1, <2>3 DEF ChangedIn
    <2>5. /\ OneEntryEach(t)
          /\ \A n : n # m => Entries(t, n) = Entries(q, n)
          /\ Entries(t, m) = Image(OneMore, Entries(q, m))
      BY <2>4, EntriesMapped
    <2> QED
      BY <1>2, <2>5 DEF t
  <1> QED
    BY <1>1, <1>2

\* claim_done() and try_claim() set the flag of the entry.
LEMMA SetLoadingEntries ==
    ASSUME NEW q \in Seq(Entry), OneEntryEach(q), NEW m, NEW b
    PROVE  LET t == SetLoading(q, m, b)
           IN  /\ OneEntryEach(t)
               /\ \A n : n # m => Entries(t, n) = Entries(q, n)
               /\ Entries(t, m) = Image(Flagged(b), Entries(q, m))
  <1> DEFINE t == SetLoading(q, m, b)
  <1>1. /\ DOMAIN t = DOMAIN q
        /\ \A i \in DOMAIN q : t[i] = IF i \in find(q, m)
                                      THEN [q[i] EXCEPT !.loading = b] ELSE q[i]
    BY DEF SetLoading
  <1>2. \A i \in DOMAIN q : q[i] \in Entry
    BY EntryTypes
  <1>3. \A i \in DOMAIN q : /\ Flagged(b)[q[i]].model_id = q[i].model_id
                            /\ Flagged(b)[q[i]] = [q[i] EXCEPT !.loading = b]
    BY <1>2, EntryChanges
  <1> HIDE DEF t
  <1>4. ChangedIn(q, m, t, Flagged(b))
    BY <1>1, <1>3 DEF ChangedIn
  <1>5. /\ OneEntryEach(t)
        /\ \A n : n # m => Entries(t, n) = Entries(q, n)
        /\ Entries(t, m) = Image(Flagged(b), Entries(q, m))
    BY <1>4, EntriesMapped
  <1> QED
    BY <1>5 DEF t


\* leave() counts one waiter less; the entry goes with the last one.
LEMMA LeaveEntries ==
    ASSUME NEW q \in Seq(Entry), OneEntryEach(q), NEW m
    PROVE  LET t == leave(q, m)
           IN  /\ OneEntryEach(t)
               /\ \A n : n # m => Entries(t, n) = Entries(q, n)
               /\ Entries(t, m) = Image(OneLess, {x \in Entries(q, m) : x.n_waiters > 1})
  <1> DEFINE t == leave(q, m)
             k == First(q, m)
  <1>1. CASE find(q, m) = {}
    <2>1. t = q /\ Entries(q, m) = {}
      BY <1>1, EntryTypes DEF leave
    <2> QED
      BY <2>1 DEF Image
  <1>2. CASE find(q, m) # {}
    <2>1. k \in find(q, m) /\ k \in 1..Len(q) /\ DOMAIN q = 1..Len(q) /\ Len(q) \in Nat
      BY <1>2, FirstExists, LenProperties
    <2>2. find(q, m) = {k}
      BY <2>1 DEF find, OneEntryEach
    <2>3. Entries(q, m) = {q[k]} /\ q[k].model_id = m
      BY <2>1, <2>2 DEF Entries, find
    <2>4. \A i \in DOMAIN q : q[i] \in Entry
      BY EntryTypes
    <2>5. CASE q[k].n_waiters > 1
      <3>1. t = [q EXCEPT ![k].n_waiters = @ - 1]
        BY <1>2, <2>5 DEF leave, First
      <3>2. /\ DOMAIN t = DOMAIN q
            /\ \A i \in DOMAIN q : t[i] = IF i = k THEN [q[i] EXCEPT !.n_waiters = @ - 1] ELSE q[i]
        BY <2>1, <3>1
      <3>3. \A i \in DOMAIN q : /\ OneLess[q[i]].model_id = q[i].model_id
                                /\ OneLess[q[i]] = [q[i] EXCEPT !.n_waiters = @ - 1]
        BY <2>4, EntryChanges
      <3> HIDE DEF t, k
      <3>4. ChangedIn(q, m, t, OneLess)
        BY <2>2, <3>2, <3>3 DEF ChangedIn
      <3>5. /\ OneEntryEach(t)
            /\ \A n : n # m => Entries(t, n) = Entries(q, n)
            /\ Entries(t, m) = Image(OneLess, Entries(q, m))
        BY <3>4, EntriesMapped
      <3>6. {x \in Entries(q, m) : x.n_waiters > 1} = Entries(q, m)
        BY <2>3, <2>5
      <3> QED
        BY <3>5, <3>6 DEF t
    <2>6. CASE ~(q[k].n_waiters > 1)
      <3>1. t = SubSeq(q, 1, k - 1) \o SubSeq(q, k + 1, Len(q))
        BY <1>2, <2>6 DEF leave, First
      <3> HIDE DEF t, k
      <3>2. /\ t \in Seq(Entry) /\ Len(t) = Len(q) - 1
            /\ \A i \in 1..Len(t) : t[i] = IF i < k THEN q[i] ELSE q[i + 1]
        BY <2>1, <3>1, RemoveType
      <3>3. DOMAIN t = 1..Len(q) - 1
        BY <3>2, LenProperties
      <3> DEFINE g(i) == IF i < k THEN i ELSE i + 1
                 h(i) == IF i < k THEN i ELSE i - 1
      <3>4. \A i \in DOMAIN t : g(i) \in DOMAIN q /\ g(i) # k /\ t[i] = q[g(i)] /\ h(g(i)) = i
        BY <2>1, <3>2, <3>3
      <3>5. \A i \in DOMAIN q : i # k => h(i) \in DOMAIN t /\ g(h(i)) = i
        BY <2>1, <3>3
      <3> HIDE DEF g, h
      <3>6. OneEntryEach(t)
        <4> SUFFICES ASSUME NEW i \in DOMAIN t, NEW j \in DOMAIN t, t[i].model_id = t[j].model_id
                     PROVE  i = j
          BY DEF OneEntryEach
        <4>1. g(i) = g(j)
          BY <3>4 DEF OneEntryEach
        <4> QED
          BY <3>4, <4>1
      <3>7. ASSUME NEW n, n # m PROVE Entries(t, n) = Entries(q, n)
        <4>1. ASSUME NEW e \in Entries(t, n) PROVE e \in Entries(q, n)
          BY <3>4, <4>1 DEF Entries, find
        <4>2. ASSUME NEW e \in Entries(q, n) PROVE e \in Entries(t, n)
          <5>1. PICK i \in find(q, n) : e = q[i]
            BY <4>2 DEF Entries
          <5>2. i \in DOMAIN q /\ i # k /\ q[i].model_id = n
            BY <2>3, <3>7, <5>1 DEF find
          <5>3. h(i) \in DOMAIN t /\ t[h(i)] = q[i]
            BY <3>4, <3>5, <5>2
          <5> QED
            BY <5>1, <5>2, <5>3 DEF Entries, find
        <4> QED
          BY <4>1, <4>2
      <3>8. Entries(t, m) = {}
        <4> SUFFICES ASSUME NEW i \in find(t, m) PROVE FALSE
          BY DEF Entries
        <4>1. g(i) \in find(q, m) /\ g(i) # k
          BY <3>4 DEF find
        <4> QED
          BY <2>2, <4>1
      <3>9. {x \in Entries(q, m) : x.n_waiters > 1} = {}
        BY <2>3, <2>6
      <3> QED
        BY <3>6, <3>7, <3>8, <3>9 DEF t, Image
    <2> QED
      BY <2>5, <2>6
  <1> QED
    BY <1>1, <1>2

\* The requests of Q that wait for m.
WaitersFor(Q, m) == {r \in Q : ModelOf[r] = m}

\* The queue q counts the requests of Q.
Counts(q, Q) ==
    /\ IsFiniteSet(Q)
    /\ OneEntryEach(q)
    /\ \A m \in Models :
         IF WaitersFor(Q, m) = {} THEN Entries(q, m) = {}
         ELSE /\ Entries(q, m) # {}
              /\ \A e \in Entries(q, m) : e.n_waiters = Cardinality(WaitersFor(Q, m))

LEMMA JoinCounts ==
    ASSUME NEW q \in Seq(Entry), NEW Q \in SUBSET Requests, Counts(q, Q), NEW r \in Requests \ Q
    PROVE  Counts(join(q, ModelOf[r]), Q \cup {r})
  <1> DEFINE m == ModelOf[r]
             t == join(q, m)
             W == WaitersFor(Q, m)
  <1>1. m \in Models
    BY RouterAssumption
  <1> DEFINE new == [model_id |-> m, n_waiters |-> 1, loading |-> FALSE]
  <1>2. /\ OneEntryEach(t)
        /\ \A n : n # m => Entries(t, n) = Entries(q, n)
        /\ Entries(t, m) = IF find(q, m) = {} THEN {new} ELSE Image(OneMore, Entries(q, m))
    BY <1>1, JoinEntries DEF Counts
  <1>3. new.n_waiters = 1
    OBVIOUS
  <1>4. IsFiniteSet(Q \cup {r})
    BY FS_AddElement DEF Counts
  <1>5. /\ WaitersFor(Q \cup {r}, m) = W \cup {r}
        /\ \A n : n # m => WaitersFor(Q \cup {r}, n) = WaitersFor(Q, n)
    BY DEF WaitersFor
  <1>6. IsFiniteSet(W) /\ r \notin W
    BY FS_Subset DEF Counts, WaitersFor
  <1>7. Cardinality(W \cup {r}) = Cardinality(W) + 1 /\ Cardinality(W) \in Nat
    BY <1>6, FS_AddElement, FS_CardinalityType
  <1> HIDE DEF new, t
  <1>8. Entries(t, m) # {} /\ \A e \in Entries(t, m) : e.n_waiters = Cardinality(W \cup {r})
    <2>1. CASE W = {}
      <3>1. Entries(q, m) = {}
        BY <1>1, <2>1 DEF Counts
      <3>2. Entries(t, m) = {new}
        BY <1>2, <3>1, EntryTypes
      <3>3. Cardinality(W) = 0
        BY <2>1, FS_EmptySet
      <3> QED
        BY <1>3, <1>7, <3>2, <3>3
    <2>2. CASE W # {}
      <3>1. Entries(q, m) # {} /\ \A e \in Entries(q, m) : e.n_waiters = Cardinality(W)
        BY <1>1, <2>2 DEF Counts
      <3>2. Entries(t, m) = Image(OneMore, Entries(q, m))
        BY <1>2, <3>1, EntryTypes
      <3>3. \A e \in Entries(q, m) : OneMore[e].n_waiters = e.n_waiters + 1
        BY EntryTypes, EntryChanges
      <3> QED
        BY <1>7, <3>1, <3>2, <3>3 DEF Image
    <2> QED
      BY <2>1, <2>2
  <1>9. WaitersFor(Q \cup {r}, m) # {}
    BY <1>5
  <1> HIDE DEF m, W
  <1>10. ASSUME NEW n \in Models
         PROVE  IF WaitersFor(Q \cup {r}, n) = {} THEN Entries(t, n) = {}
                ELSE /\ Entries(t, n) # {}
                     /\ \A e \in Entries(t, n) : e.n_waiters = Cardinality(WaitersFor(Q \cup {r}, n))
    <2>1. CASE n = m
      BY <1>5, <1>8, <1>9, <2>1
    <2>2. CASE n # m
      BY <1>2, <1>5, <2>2 DEF Counts
    <2> QED
      BY <2>1, <2>2
  <1> QED
    BY <1>2, <1>4, <1>10 DEF Counts, t, m

LEMMA LeaveCounts ==
    ASSUME NEW q \in Seq(Entry), NEW Q \in SUBSET Requests, Counts(q, Q), NEW r \in Q
    PROVE  Counts(leave(q, ModelOf[r]), Q \ {r})
  <1> DEFINE m == ModelOf[r]
             t == leave(q, m)
             W == WaitersFor(Q, m)
  <1>1. m \in Models
    BY RouterAssumption
  <1>2. /\ OneEntryEach(t)
        /\ \A n : n # m => Entries(t, n) = Entries(q, n)
        /\ Entries(t, m) = Image(OneLess, {x \in Entries(q, m) : x.n_waiters > 1})
    BY LeaveEntries DEF Counts
  <1>3. IsFiniteSet(Q \ {r})
    BY FS_RemoveElement DEF Counts
  <1>4. /\ WaitersFor(Q \ {r}, m) = W \ {r}
        /\ \A n : n # m => WaitersFor(Q \ {r}, n) = WaitersFor(Q, n)
    BY DEF WaitersFor
  <1>5. IsFiniteSet(W) /\ r \in W
    BY FS_Subset DEF Counts, WaitersFor
  <1>6. Cardinality(W \ {r}) = Cardinality(W) - 1 /\ Cardinality(W \ {r}) \in Nat /\ Cardinality(W) \in Nat
    BY <1>5, FS_RemoveElement, FS_CardinalityType
  <1>7. W \ {r} = {} <=> Cardinality(W \ {r}) = 0
    BY <1>5, FS_RemoveElement, FS_EmptySet
  <1>8. Entries(q, m) # {} /\ \A e \in Entries(q, m) : e.n_waiters = Cardinality(W)
    BY <1>1, <1>5 DEF Counts
  <1>9. \A e \in Entries(q, m) : OneLess[e].n_waiters = e.n_waiters - 1
    BY EntryTypes, EntryChanges
  <1> HIDE DEF m, W, t
  <1>10. IF W \ {r} = {} THEN Entries(t, m) = {}
         ELSE Entries(t, m) # {} /\ \A e \in Entries(t, m) : e.n_waiters = Cardinality(W \ {r})
    <2>1. CASE W \ {r} = {}
      <3>1. Cardinality(W) = 1
        BY <1>6, <1>7, <2>1
      <3>2. {x \in Entries(q, m) : x.n_waiters > 1} = {}
        BY <1>8, <3>1
      <3> QED
        BY <1>2, <2>1, <3>2 DEF Image
    <2>2. CASE W \ {r} # {}
      <3>1. Cardinality(W) > 1
        BY <1>6, <1>7, <2>2
      <3>2. {x \in Entries(q, m) : x.n_waiters > 1} = Entries(q, m)
        BY <1>8, <3>1
      <3>3. Entries(t, m) = Image(OneLess, Entries(q, m))
        BY <1>2, <3>2
      <3> QED
        BY <1>6, <1>8, <1>9, <2>2, <3>3 DEF Image
    <2> QED
      BY <2>1, <2>2
  <1>11. ASSUME NEW n \in Models
         PROVE  IF WaitersFor(Q \ {r}, n) = {} THEN Entries(t, n) = {}
                ELSE /\ Entries(t, n) # {}
                     /\ \A e \in Entries(t, n) : e.n_waiters = Cardinality(WaitersFor(Q \ {r}, n))
    <2>1. CASE n = m
      BY <1>4, <1>10, <2>1
    <2>2. CASE n # m
      BY <1>2, <1>4, <2>2 DEF Counts
    <2> QED
      BY <2>1, <2>2
  <1> QED
    BY <1>2, <1>3, <1>11 DEF Counts, t, m

LEMMA FlagCounts ==
    ASSUME NEW q \in Seq(Entry), NEW Q, Counts(q, Q), NEW m, NEW b
    PROVE  Counts(SetLoading(q, m, b), Q)
  <1> DEFINE t == SetLoading(q, m, b)
  <1>1. /\ OneEntryEach(t)
        /\ \A n : n # m => Entries(t, n) = Entries(q, n)
        /\ Entries(t, m) = Image(Flagged(b), Entries(q, m))
    BY SetLoadingEntries DEF Counts
  <1>2. \A e \in Entries(q, m) : Flagged(b)[e].n_waiters = e.n_waiters
    BY EntryTypes, EntryChanges
  <1> HIDE DEF t
  <1>3. \A n : Entries(t, n) = {} <=> Entries(q, n) = {}
    BY <1>1 DEF Image
  <1>4. \A n : \A e \in Entries(t, n) : \E d \in Entries(q, n) : e.n_waiters = d.n_waiters
    BY <1>1, <1>2 DEF Image
  <1>5. ASSUME NEW n \in Models
        PROVE  IF WaitersFor(Q, n) = {} THEN Entries(t, n) = {}
               ELSE /\ Entries(t, n) # {}
                    /\ \A e \in Entries(t, n) : e.n_waiters = Cardinality(WaitersFor(Q, n))
    BY <1>3, <1>4 DEF Counts
  <1> QED
    BY <1>1, <1>5 DEF Counts, t

\* A waiter with the claim of its entry is in the middle of load().
InLoad == {"load", "make_room", "unload_victim", "await_victim", "spawn", "loaded", "threw"}

Claimants == {r \in Requests : pc[r] \in InLoad}

\* The claim of an entry belongs to one of the waiters it counts, and the entry says so.
QueueInv ==
    /\ Counts(queue, queued)
    /\ \A r \in queued : pc[r] = "waiting" \/ pc[r] \in InLoad
    /\ Claimants \subseteq queued
    /\ \A r, s \in Claimants : ModelOf[r] = ModelOf[s] => r = s
    /\ \A r \in Claimants : \A e \in Entries(queue, ModelOf[r]) : e.loading

\* What a step may do to the queue.
Quiet ==
    /\ queue' = queue /\ queued' = queued
    /\ \A r \in Requests : /\ pc'[r] \in InLoad <=> pc[r] \in InLoad
                           /\ r \in queued /\ pc[r] = "waiting" => pc'[r] = "waiting"

Joins(r) ==
    /\ r \notin queued
    /\ queued' = queued \cup {r} /\ queue' = join(queue, ModelOf[r])
    /\ pc'[r] = "waiting" /\ \A s \in Requests \ {r} : pc'[s] = pc[s]

Leaves(r) ==
    /\ queued' = queued \ {r}
    /\ queue' = IF r \in queued THEN leave(queue, ModelOf[r]) ELSE queue
    /\ pc'[r] \notin InLoad /\ \A s \in Requests \ {r} : pc'[s] = pc[s]

Claims(r) ==
    /\ r \in queued /\ queued' = queued
    /\ \E e \in Entries(queue, ModelOf[r]) : ~e.loading
    /\ queue' = SetLoading(queue, ModelOf[r], TRUE)
    /\ pc'[r] \in InLoad /\ \A s \in Requests \ {r} : pc'[s] = pc[s]

Returns(r) ==
    /\ r \in Claimants /\ queued' = queued
    /\ queue' = queue \/ queue' = SetLoading(queue, ModelOf[r], FALSE)
    /\ pc'[r] = "waiting" /\ \A s \in Requests \ {r} : pc'[s] = pc[s]

LEMMA QuietQueue ==
    ASSUME Types, QueueInv, Quiet
    PROVE  QueueInv'
  <1>1. queued \in SUBSET Requests
    BY DEF Types, RouterTypeOK
  <1>2. Claimants' = Claimants
    BY DEF Claimants, Quiet
  <1>3. queue' = queue /\ queued' = queued
    BY DEF Quiet
  <1>4. \A r \in queued : pc'[r] = "waiting" \/ pc'[r] \in InLoad
    BY <1>1 DEF QueueInv, Quiet
  <1> QED
    BY <1>2, <1>3, <1>4 DEF QueueInv

LEMMA JoinQueueInv ==
    ASSUME Types, QueueInv, NEW r \in Requests, Joins(r)
    PROVE  QueueInv'
  <1>1. queue \in Seq(Entry) /\ queued \in SUBSET Requests
    BY DEF Types, RouterTypeOK, Entry
  <1>2. Counts(queue', queued')
    BY <1>1, JoinCounts DEF QueueInv, Joins
  <1>3. Claimants' = Claimants \ {r}
    BY DEF Claimants, Joins, InLoad
  <1>4. \A s \in queued' : pc'[s] = "waiting" \/ pc'[s] \in InLoad
    BY <1>1 DEF QueueInv, Joins
  <1>5. Claimants \subseteq queued /\ Claimants' = Claimants /\ Claimants' \subseteq queued'
    BY <1>3 DEF QueueInv, Joins
  <1>6. ASSUME NEW s \in Claimants, NEW e \in Entries(queue', ModelOf[s])
        PROVE  e.loading
    <2> DEFINE m == ModelOf[r]
               t == join(queue, m)
    <2>1. m \in Models /\ queue' = t
      BY RouterAssumption DEF Joins
    <2>2. /\ \A n : n # m => Entries(t, n) = Entries(queue, n)
          /\ find(queue, m) # {} => Entries(t, m) = Image(OneMore, Entries(queue, m))
      BY <1>1, <2>1, JoinEntries DEF QueueInv, Counts
    <2>3. \A d \in Entries(queue, ModelOf[s]) : d.loading
      BY DEF QueueInv
    <2>4. CASE ModelOf[s] # m
      BY <1>6, <2>1, <2>2, <2>3, <2>4
    <2>5. CASE ModelOf[s] = m
      <3>1. s \in WaitersFor(queued, m)
        BY <1>5, <2>5 DEF WaitersFor
      <3>2. find(queue, m) # {}
        BY <1>1, <2>1, <3>1, EntryTypes DEF QueueInv, Counts
      <3>3. \A d \in Entries(queue, m) : OneMore[d].loading = d.loading
        BY <1>1, EntryTypes, EntryChanges
      <3> QED
        BY <1>6, <2>1, <2>2, <2>3, <2>5, <3>2, <3>3 DEF Image
    <2> QED
      BY <2>4, <2>5
  <1> QED
    BY <1>2, <1>4, <1>5, <1>6 DEF QueueInv

LEMMA LeaveQueueInv ==
    ASSUME Types, QueueInv, NEW r \in Requests, Leaves(r), r \notin Claimants
    PROVE  QueueInv'
  <1>1. queue \in Seq(Entry) /\ queued \in SUBSET Requests
    BY DEF Types, RouterTypeOK, Entry
  <1>2. Counts(queue', queued')
    <2>1. CASE r \in queued
      BY <1>1, <2>1, LeaveCounts DEF QueueInv, Leaves
    <2>2. CASE r \notin queued
      <3>1. queue' = queue /\ queued' = queued
        BY <2>2 DEF Leaves
      <3> QED
        BY <3>1 DEF QueueInv
    <2> QED
      BY <2>1, <2>2
  <1>3. Claimants' = Claimants
    BY DEF Claimants, Leaves
  <1>4. /\ \A s \in queued' : pc'[s] = "waiting" \/ pc'[s] \in InLoad
        /\ Claimants' \subseteq queued'
    BY <1>1, <1>3 DEF QueueInv, Leaves
  <1>5. ASSUME NEW s \in Claimants, NEW e \in Entries(queue', ModelOf[s])
        PROVE  e.loading
    <2>1. \A d \in Entries(queue, ModelOf[s]) : d.loading
      BY DEF QueueInv
    <2>2. CASE r \notin queued
      <3>1. queue' = queue
        BY <2>2 DEF Leaves
      <3> QED
        BY <1>5, <2>1, <3>1
    <2>3. CASE r \in queued
      <3> DEFINE m == ModelOf[r]
                 t == leave(queue, m)
      <3>1. /\ \A n : n # m => Entries(t, n) = Entries(queue, n)
            /\ Entries(t, m) = Image(OneLess, {x \in Entries(queue, m) : x.n_waiters > 1})
        BY <1>1, LeaveEntries DEF QueueInv, Counts
      <3>2. queue' = t
        BY <2>3 DEF Leaves
      <3>3. \A d \in Entries(queue, m) : OneLess[d].loading = d.loading
        BY <1>1, EntryTypes, EntryChanges
      <3> HIDE DEF m, t
      <3>4. CASE ModelOf[s] = m
        BY <1>5, <2>1, <3>1, <3>2, <3>3, <3>4 DEF Image
      <3>5. CASE ModelOf[s] # m
        BY <1>5, <2>1, <3>1, <3>2, <3>5
      <3> QED
        BY <3>4, <3>5
    <2> QED
      BY <2>2, <2>3
  <1> QED
    BY <1>2, <1>3, <1>4, <1>5 DEF QueueInv

LEMMA ClaimQueueInv ==
    ASSUME Types, QueueInv, NEW r \in Requests, Claims(r)
    PROVE  QueueInv'
  <1> DEFINE m == ModelOf[r]
             t == SetLoading(queue, m, TRUE)
  <1>1. queue \in Seq(Entry) /\ queued \in SUBSET Requests
    BY DEF Types, RouterTypeOK, Entry
  <1>0. OneEntryEach(queue)
    BY DEF QueueInv, Counts
  <1>2. queue' = t /\ queued' = queued /\ r \in queued
    BY DEF Claims
  <1>3. Counts(t, queued)
    BY <1>1, FlagCounts DEF QueueInv
  <1>4. Claimants' = Claimants \cup {r}
    BY DEF Claimants, Claims
  <1>5. \A s \in Claimants : ModelOf[s] # m
    BY DEF QueueInv, Claims
  <1>6. \A s \in queued : pc'[s] = "waiting" \/ pc'[s] \in InLoad
    BY <1>1 DEF QueueInv, Claims
  <1>7. /\ \A n : n # m => Entries(t, n) = Entries(queue, n)
        /\ Entries(t, m) = Image(Flagged(TRUE), Entries(queue, m))
    <2>1. ASSUME NEW b
          PROVE  /\ \A n : n # m => Entries(SetLoading(queue, m, b), n) = Entries(queue, n)
                 /\ Entries(SetLoading(queue, m, b), m) = Image(Flagged(b), Entries(queue, m))
      BY <1>0, <1>1, SetLoadingEntries
    <2> QED
      BY <2>1, Zenon
  <1>8. \A d \in Entries(queue, m) : Flagged(TRUE)[d].loading = TRUE
    BY <1>1, EntryTypes, EntryChanges
  <1> HIDE DEF t
  <1>9. \A e \in Entries(t, m) : e.loading
    BY <1>7, <1>8 DEF Image
  <1>10. \A s \in Claimants : \A e \in Entries(t, ModelOf[s]) : e.loading
    BY <1>5, <1>7 DEF QueueInv
  <1> HIDE DEF m
  <1>11. \A s \in Claimants' : \A e \in Entries(t, ModelOf[s]) : e.loading
    BY <1>4, <1>9, <1>10 DEF m
  <1>12. \A s, u \in Claimants' : ModelOf[s] = ModelOf[u] => s = u
    BY <1>4, <1>5 DEF QueueInv, m
  <1>13. Claimants' \subseteq queued
    BY <1>2, <1>4 DEF QueueInv
  <1> QED
    BY <1>2, <1>3, <1>6, <1>11, <1>12, <1>13 DEF QueueInv

LEMMA ReturnQueueInv ==
    ASSUME Types, QueueInv, NEW r \in Requests, Returns(r)
    PROVE  QueueInv'
  <1> DEFINE m == ModelOf[r]
             t == SetLoading(queue, m, FALSE)
  <1>1. queue \in Seq(Entry) /\ queued \in SUBSET Requests
    BY DEF Types, RouterTypeOK, Entry
  <1>0. OneEntryEach(queue)
    BY DEF QueueInv, Counts
  <1>2. (queue' = queue \/ queue' = t) /\ queued' = queued
    BY DEF Returns
  <1>3. Counts(t, queued) /\ Counts(queue, queued)
    BY <1>1, FlagCounts DEF QueueInv
  <1>4. Claimants' = Claimants \ {r}
    BY DEF Claimants, Returns, InLoad
  <1>5. \A s \in Claimants' : s \in Claimants /\ ModelOf[s] # m
    BY <1>4 DEF QueueInv, Returns
  <1>6. \A s \in queued : pc'[s] = "waiting" \/ pc'[s] \in InLoad
    BY <1>1 DEF QueueInv, Returns
  <1>7. \A n : n # m => Entries(t, n) = Entries(queue, n)
    <2>1. ASSUME NEW b
          PROVE  \A n : n # m => Entries(SetLoading(queue, m, b), n) = Entries(queue, n)
      BY <1>0, <1>1, SetLoadingEntries
    <2> QED
      BY <2>1, Zenon
  <1> HIDE DEF t, m
  <1>8. \A s \in Claimants' : \A e \in Entries(queue', ModelOf[s]) : e.loading
    <2>1. \A s \in Claimants' : Entries(queue', ModelOf[s]) = Entries(queue, ModelOf[s])
      BY <1>2, <1>5, <1>7
    <2> QED
      BY <1>5, <2>1 DEF QueueInv
  <1>9. /\ \A s, u \in Claimants' : ModelOf[s] = ModelOf[u] => s = u
        /\ Claimants' \subseteq queued
    BY <1>5 DEF QueueInv
  <1>10. Counts(queue', queued')
    BY <1>2, <1>3
  <1> QED
    BY <1>2, <1>6, <1>8, <1>9, <1>10 DEF QueueInv

\* Every step is one of these.
LEMMA RequestMoves ==
    ASSUME Types, QueueInv, NEW r \in Requests, Request(r)
    PROVE  Quiet \/ Joins(r) \/ (Leaves(r) /\ r \notin Claimants) \/ Claims(r) \/ Returns(r)
  <1>0. /\ target[r] = ModelOf[r] /\ pc \in [Threads -> Pcs] /\ r \in Threads
        /\ Requests \subseteq Threads
    BY DEF Types, ThreadsOK, Threads
  <1>1. pc[r] = "join" => r \notin queued
    BY DEF QueueInv, InLoad
  <1>2. ASSUME queue' = queue, queued' = queued, NEW l,
               pc' = [pc EXCEPT ![r] = l],
               l \notin InLoad, pc[r] \notin InLoad, pc[r] = "waiting" => l = "waiting"
        PROVE  Quiet
    BY <1>0, <1>2 DEF Quiet
  <1>3. ASSUME NEW l, pc' = [pc EXCEPT ![r] = l]
        PROVE  pc'[r] = l /\ \A s \in Requests \ {r} : pc'[s] = pc[s]
    BY <1>0, <1>3
  <1>4. CASE EnsureMeta(r) \/ EnsureStopping(r) \/ ProxyMeta(r) \/ ProxyCount(r) \/ ProxyEnd(r)
    <2>1. /\ queue' = queue /\ queued' = queued
          /\ pc[r] \in {"idle", "ready", "ensured", "counting", "proxied"}
          /\ \E l \in {"over", "ready", "join", "ensured", "counting", "proxied"} :
                pc' = [pc EXCEPT ![r] = l]
      BY <1>4 DEF EnsureMeta, EnsureStopping, ProxyMeta, ProxyCount, ProxyEnd, Goto
    <2> QED
      BY <1>2, <2>1 DEF InLoad
  <1>5. CASE EnsureJoin(r)
    <2>1. pc[r] = "join" /\ pc' = [pc EXCEPT ![r] = "waiting"]
      BY <1>5 DEF EnsureJoin, Goto
    <2>2. CASE status[target[r]] = "UNLOADED"
      <3>1. JoinQueue(r)
        BY <1>5, <2>2 DEF EnsureJoin
      <3> QED
        BY <1>0, <1>1, <1>3, <2>1, <3>1 DEF JoinQueue, Joins
    <2>3. CASE status[target[r]] # "UNLOADED"
      <3>1. queue' = queue /\ queued' = queued
        BY <1>5, <2>3 DEF EnsureJoin
      <3> QED
        BY <1>2, <2>1, <3>1 DEF InLoad
    <2> QED
      BY <2>2, <2>3
  <1>6. CASE WaitForExit(r)
    <2>1. pc[r] = "waiting" /\ r \notin queued /\ JoinQueue(r) /\ pc' = pc
      BY <1>6 DEF WaitForExit, thread
    <2> QED
      BY <1>0, <2>1 DEF JoinQueue, Joins
  <1>7. CASE LoopEnds(r) \/ LoopFails(r) \/ LoopStopped(r)
    <2>1. /\ pc[r] = "waiting" /\ LeaveQueue(r)
          /\ \E l \in {"ensured", "over"} : pc' = [pc EXCEPT ![r] = l]
      BY <1>7 DEF LoopEnds, LoopFails, LoopStopped, GiveUp, Goto
    <2>2. pc'[r] \notin InLoad /\ \A s \in Requests \ {r} : pc'[s] = pc[s]
      BY <1>3, <2>1 DEF InLoad
    <2>3. r \notin Claimants
      BY <2>1 DEF Claimants, InLoad
    <2> QED
      BY <1>0, <2>1, <2>2, <2>3 DEF LeaveQueue, Leaves
  <1>8. CASE LoopSeesLoading(r)
    <2>1. queue' = queue /\ queued' = queued /\ pc' = pc
      BY <1>8 DEF LoopSeesLoading
    <2> QED
      BY <2>1 DEF Quiet
  <1>9. CASE Claim(r)
    <2>1. /\ r \in queued /\ queued' = queued
          /\ queue # <<>> /\ Head(queue).model_id = ModelOf[r] /\ ~Head(queue).loading
          /\ queue' = SetLoading(queue, ModelOf[r], TRUE)
          /\ pc' = [pc EXCEPT ![r] = "load"]
      BY <1>0, <1>9 DEF Claim, Goto
    <2>2. Head(queue) \in Entries(queue, ModelOf[r])
      <3>1. queue \in Seq(Entry)
        BY DEF Types, RouterTypeOK, Entry
      <3>2. 1 \in DOMAIN queue /\ Head(queue) = queue[1]
        BY <2>1, <3>1, HeadTailProperties, LenProperties, EmptySeq
      <3> QED
        BY <2>1, <3>2 DEF Entries, find
    <2> QED
      BY <1>3, <2>1, <2>2 DEF Claims, InLoad
  <1>10. CASE ClaimDone(r)
    <2>1. /\ pc[r] \in {"loaded", "threw"} /\ queued' = queued
          /\ queue' = queue \/ queue' = SetLoading(queue, ModelOf[r], FALSE)
          /\ pc' = [pc EXCEPT ![r] = "waiting"]
      BY <1>0, <1>10 DEF ClaimDone, Goto
    <2> QED
      BY <1>3, <2>1 DEF Returns, Claimants, InLoad
  <1> QED
    BY <1>4, <1>5, <1>6, <1>7, <1>8, <1>9, <1>10 DEF Request

LEMMA LoadMoves ==
    ASSUME Types, NEW t \in Threads, Load(t) \/ SpawnFails(t)
    PROVE  Quiet
  <1>1. queue' = queue /\ queued' = queued
    BY DEF Load, LoadBegin, MakeRoom, UnloadVictim, AwaitVictim, LoadNotNeeded, LoadRefused,
           Spawn, SpawnFails
  <1>2. /\ pc[t] \in InLoad
        /\ \E l \in {"over"} \cup InLoad : pc' = [pc EXCEPT ![t] = l] /\ (t \notin Admins => l \in InLoad)
    BY DEF Load, LoadBegin, MakeRoom, UnloadVictim, AwaitVictim, LoadNotNeeded, LoadRefused,
           Spawn, SpawnFails, Return, Goto, InLoad
  <1>3. \A r \in Requests : r \notin Admins /\ r \in Threads
    BY RouterAssumption DEF Threads
  <1>4. pc \in [Threads -> Pcs]
    BY DEF Types, ThreadsOK
  <1>5. "waiting" \notin InLoad
    BY DEF InLoad
  <1>6. \A r \in Requests : /\ pc'[r] \in InLoad <=> pc[r] \in InLoad
                            /\ pc[r] = "waiting" => pc'[r] = "waiting"
    BY <1>2, <1>3, <1>4, <1>5
  <1> QED
    BY <1>1, <1>6 DEF Quiet

LEMMA AdminMoves ==
    ASSUME Types, NEW a \in Admins, Admin(a)
    PROVE  Quiet
  <1>1. queue' = queue /\ queued' = queued
    BY DEF Admin, AdminLoad, AdminUnload, AdminUnloads, ReloadBegin, ReloadUnload, ReloadFinish,
           Shutdown, ShutdownDone
  <1>2. pc' = pc \/ \E l : pc' = [pc EXCEPT ![a] = l]
    BY DEF Admin, AdminLoad, AdminUnload, AdminUnloads, ReloadBegin, ReloadUnload, ReloadFinish,
           Shutdown, ShutdownDone, Goto, thread
  <1>3. \A r \in Requests : r # a /\ r \in Threads
    BY RouterAssumption DEF Threads
  <1>4. \A r \in Requests : pc'[r] = pc[r]
    BY <1>2, <1>3 DEF Types, ThreadsOK
  <1> QED
    BY <1>1, <1>4 DEF Quiet

LEMMA ChildMoves ==
    ASSUME NEW m \in Models, ChildStep(m)
    PROVE  Quiet
  <1>1. queue' = queue /\ queued' = queued /\ pc' = pc
    BY DEF ChildStep, Monitor, HandleCommand, ReadLine, Reap, ForceKill, ChildReady, ChildSleeps,
           ChildWakes, ChildExits, ChildCrashes, Say, thread
  <1> QED
    BY <1>1 DEF Quiet

LEMMA StepQueue == Types /\ QueueInv /\ [RNext]_rvars => QueueInv'
  <1> SUFFICES ASSUME Types, QueueInv, [RNext]_rvars PROVE QueueInv'
    OBVIOUS
  <1>1. ASSUME NEW r \in Requests, Request(r) PROVE QueueInv'
    BY <1>1, RequestMoves, QuietQueue, JoinQueueInv, LeaveQueueInv, ClaimQueueInv, ReturnQueueInv
  <1>2. CASE RNext
    BY <1>1, <1>2, Steps, LoadMoves, AdminMoves, ChildMoves, QuietQueue
  <1>3. CASE UNCHANGED rvars
    <2>1. Quiet
      BY <1>3 DEF rvars, thread, Quiet
    <2> QED
      BY <2>1, QuietQueue
  <1> QED
    BY <1>2, <1>3

LEMMA InitQueue == RInit => QueueInv
  <1> SUFFICES ASSUME RInit PROVE QueueInv
    OBVIOUS
  <1>1. queue = <<>> /\ queued = {} /\ \A r \in Requests : pc[r] = "idle"
    BY DEF RInit, Threads
  <1>2. DOMAIN queue = {}
    BY <1>1, EmptySeq
  <1>3. Claimants = {}
    BY <1>1 DEF Claimants, InLoad
  <1>4. \A m : Entries(queue, m) = {} /\ WaitersFor(queued, m) = {}
    BY <1>1, <1>2 DEF Entries, find, WaitersFor
  <1>5. Counts(queue, queued)
    BY <1>1, <1>2, <1>4, FS_EmptySet DEF Counts, OneEntryEach
  <1> QED
    BY <1>1, <1>3, <1>5 DEF QueueInv

LEMMA RouterQueue == RSpec => [](Types /\ QueueInv)
  <1>1. RInit => Types /\ QueueInv
    BY InitTypes, InitQueue
  <1>2. Types /\ QueueInv /\ [RNext]_rvars => (Types /\ QueueInv)'
    BY StepTypes, StepQueue
  <1> QED
    BY <1>1, <1>2, PTL DEF RSpec

\* The queue has one entry for each model that is waited for, with the number of those
\* who wait: join() and leave() are always paired, on the exceptional ways out too.
THEOREM QueueCounts == RSpec => []QueueCountsWaiters
  <1>1. ASSUME Types, QueueInv PROVE QueueCountsWaiters
    <2>1. queue \in Seq(Entry) /\ queued \in SUBSET Requests
      BY <1>1 DEF Types, RouterTypeOK, Entry
    <2>2. ASSUME NEW m \in Models
          PROVE  /\ {r \in queued : target[r] = m /\ pc[r] # "over"} = WaitersFor(queued, m)
                 /\ IsFiniteSet(WaitersFor(queued, m))
      <3>1. \A r \in queued : target[r] = ModelOf[r] /\ pc[r] # "over"
        BY <1>1, <2>1 DEF Types, ThreadsOK, QueueInv, InLoad
      <3>2. IsFiniteSet(WaitersFor(queued, m))
        BY <1>1, FS_Subset DEF QueueInv, Counts, WaitersFor
      <3> QED
        BY <3>1, <3>2 DEF WaitersFor
    <2>3. ASSUME NEW m \in Models
          PROVE  LET n == Cardinality(WaitersFor(queued, m))
                 IN  IF n = 0 THEN find(queue, m) = {}
                     ELSE \E i \in find(queue, m) : queue[i].n_waiters = n
      <3>1. Cardinality(WaitersFor(queued, m)) = 0 <=> WaitersFor(queued, m) = {}
        BY <2>2, FS_EmptySet
      <3>2. CASE WaitersFor(queued, m) = {}
        BY <1>1, <2>1, <3>1, <3>2, EntryTypes DEF QueueInv, Counts
      <3>3. CASE WaitersFor(queued, m) # {}
        BY <1>1, <3>1, <3>3 DEF QueueInv, Counts, Entries
      <3> QED
        BY <3>2, <3>3
    <2>4. \A i, j \in DOMAIN queue : queue[i].model_id = queue[j].model_id => i = j
      BY <1>1 DEF QueueInv, Counts, OneEntryEach
    <2> QED
      BY <2>2, <2>3, <2>4 DEF QueueCountsWaiters
  <1> QED
    BY <1>1, RouterQueue, PTL

\* No two waiters hold the claim of one entry: a load that went through keeps the entry
\* claimed until its waiters leave, one that failed gives the claim back.
THEOREM ClaimsAreSingle == RSpec => []OneClaim
  <1>1. ASSUME Types, QueueInv PROVE OneClaim
    <2>1. \A r \in Requests : r \in queued /\ pc[r] # "waiting" => r \in Claimants
      BY <1>1 DEF QueueInv, Claimants
    <2>2. \A r \in Requests : target[r] = ModelOf[r]
      BY <1>1 DEF Types, ThreadsOK
    <2> QED
      BY <1>1, <2>1, <2>2 DEF QueueInv, OneClaim
  <1> QED
    BY <1>1, RouterQueue, PTL

-----------------------------------------------------------------------------
(* No model stays busy *)

Proxied(m) == {r \in Requests : ModelOf[r] = m /\ pc[r] = "proxied"}

\* A model that left the mapping has no requests, for its entry went with the count.
BusyInv ==
    /\ IsFiniteSet({r \in Requests : pc[r] = "proxied"})
    /\ \A m \in Models : /\ req_count[m] <= Cardinality(Proxied(m))
                         /\ status[m] = "absent" => req_count[m] = 0

LEMMA ProxiedFinite ==
    ASSUME BusyInv, NEW m
    PROVE  IsFiniteSet(Proxied(m)) /\ Cardinality(Proxied(m)) \in Nat
  <1>1. Proxied(m) \subseteq {r \in Requests : pc[r] = "proxied"}
    BY DEF Proxied
  <1> QED
    BY <1>1, FS_Subset, FS_CardinalityType DEF BusyInv

\* Most steps leave the proxied requests alone, and count none.
LEMMA BusyQuiet ==
    ASSUME BusyInv,
           \A r \in Requests : pc'[r] = "proxied" <=> pc[r] = "proxied",
           \A m \in Models : /\ req_count'[m] \in {0, req_count[m]}
                             /\ status'[m] = "absent" => status[m] = "absent" \/ req_count'[m] = 0
    PROVE  BusyInv'
  <1>1. {r \in Requests : pc'[r] = "proxied"} = {r \in Requests : pc[r] = "proxied"}
    OBVIOUS
  <1>2. ASSUME NEW m \in Models
        PROVE  /\ req_count'[m] <= Cardinality(Proxied(m)')
               /\ status'[m] = "absent" => req_count'[m] = 0
    <2>1. Proxied(m)' = Proxied(m)
      BY DEF Proxied
    <2>2. Cardinality(Proxied(m)) \in Nat
      BY ProxiedFinite
    <2>3. 0 <= Cardinality(Proxied(m))
      BY <2>2
    <2>4. req_count'[m] <= Cardinality(Proxied(m))
      BY <2>3 DEF BusyInv
    <2>5. status'[m] = "absent" => req_count'[m] = 0
      BY DEF BusyInv
    <2> QED
      BY <2>1, <2>4, <2>5
  <1> QED
    BY <1>1, <1>2 DEF BusyInv

LEMMA ProxyCountBusy ==
    ASSUME Types, BusyInv, NEW r \in Requests, ProxyCount(r)
    PROVE  BusyInv'
  <1> DEFINE m == ModelOf[r]
  <1>1. /\ target[r] = m /\ m \in Models /\ pc \in [Threads -> Pcs] /\ r \in Threads
        /\ Requests \subseteq Threads
        /\ req_count \in [Models -> Nat] /\ status \in [Models -> Statuses]
    BY RouterAssumption DEF Types, RouterTypeOK, ThreadsOK, Threads, Statuses
  <1>2. /\ pc[r] = "counting" /\ pc' = [pc EXCEPT ![r] = "proxied"]
        /\ req_count' = [req_count EXCEPT ![m] = @ + 1]
        /\ status' = [status EXCEPT ![m] = IF @ = "absent" THEN "UNLOADED" ELSE @]
    BY <1>1 DEF ProxyCount, Goto
  <1> HIDE DEF m
  <1>3. /\ {s \in Requests : pc'[s] = "proxied"} = {s \in Requests : pc[s] = "proxied"} \cup {r}
    BY <1>1, <1>2
  <1>4. /\ Proxied(m)' = Proxied(m) \cup {r} /\ r \notin Proxied(m)
        /\ \A n \in Models \ {m} : Proxied(n)' = Proxied(n)
    BY <1>1, <1>2 DEF Proxied, m
  <1>5. IsFiniteSet({s \in Requests : pc'[s] = "proxied"})
    BY <1>3, FS_AddElement DEF BusyInv
  <1>6. Cardinality(Proxied(m)') = Cardinality(Proxied(m)) + 1 /\ Cardinality(Proxied(m)) \in Nat
    BY <1>4, ProxiedFinite, FS_AddElement
  <1>7. req_count'[m] = req_count[m] + 1 /\ req_count[m] \in Nat /\ req_count[m] <= Cardinality(Proxied(m))
    BY <1>1, <1>2 DEF BusyInv
  <1>8. req_count'[m] <= Cardinality(Proxied(m)') /\ status'[m] # "absent"
    BY <1>1, <1>2, <1>6, <1>7
  <1>9. ASSUME NEW n \in Models \ {m}
        PROVE  req_count'[n] = req_count[n] /\ status'[n] = status[n] /\ Proxied(n)' = Proxied(n)
    BY <1>1, <1>2, <1>4
  <1>10. \A n \in Models : /\ req_count'[n] <= Cardinality(Proxied(n)')
                           /\ status'[n] = "absent" => req_count'[n] = 0
    BY <1>8, <1>9 DEF BusyInv
  <1> QED
    BY <1>5, <1>10 DEF BusyInv

LEMMA ProxyEndBusy ==
    ASSUME Types, BusyInv, NEW r \in Requests, ProxyEnd(r)
    PROVE  BusyInv'
  <1> DEFINE m == ModelOf[r]
             counted == status[m] # "absent" /\ req_count[m] > 0
  <1>1. /\ target[r] = m /\ m \in Models /\ pc \in [Threads -> Pcs] /\ r \in Threads
        /\ Requests \subseteq Threads
        /\ req_count \in [Models -> Nat] /\ status \in [Models -> Statuses]
    BY RouterAssumption DEF Types, RouterTypeOK, ThreadsOK, Threads, Statuses
  <1>2. /\ pc[r] = "proxied" /\ pc' = [pc EXCEPT ![r] = "over"]
        /\ req_count' = [req_count EXCEPT ![m] = IF counted THEN @ - 1 ELSE @]
        /\ status' = status
    BY <1>1 DEF ProxyEnd, Goto
  <1> HIDE DEF m, counted
  <1>3. {s \in Requests : pc'[s] = "proxied"} = {s \in Requests : pc[s] = "proxied"} \ {r}
    BY <1>1, <1>2
  <1>4. /\ Proxied(m)' = Proxied(m) \ {r} /\ r \in Proxied(m)
        /\ \A n \in Models \ {m} : Proxied(n)' = Proxied(n)
    BY <1>1, <1>2 DEF Proxied, m
  <1>5. IsFiniteSet({s \in Requests : pc'[s] = "proxied"})
    BY <1>3, FS_RemoveElement DEF BusyInv
  <1>6. Cardinality(Proxied(m)') = Cardinality(Proxied(m)) - 1 /\ Cardinality(Proxied(m)) \in Nat
        /\ Cardinality(Proxied(m)') \in Nat
    BY <1>4, ProxiedFinite, FS_RemoveElement, FS_CardinalityType
  <1>7. /\ req_count[m] \in Nat /\ req_count[m] <= Cardinality(Proxied(m))
        /\ status[m] = "absent" => req_count[m] = 0
    BY <1>1 DEF BusyInv
  <1>8. /\ req_count'[m] <= Cardinality(Proxied(m)')
        /\ status'[m] = "absent" => req_count'[m] = 0
    <2>1. CASE counted
      <3>1. req_count'[m] = req_count[m] - 1 /\ status[m] # "absent"
        BY <1>1, <1>2, <2>1 DEF counted
      <3> QED
        BY <1>2, <1>6, <1>7, <3>1
    <2>2. CASE ~counted
      <3>1. req_count'[m] = req_count[m]
        BY <1>1, <1>2, <2>2
      <3>2. req_count[m] = 0
        BY <1>7, <2>2 DEF counted
      <3> QED
        BY <1>6, <3>1, <3>2
    <2> QED
      BY <2>1, <2>2
  <1>9. ASSUME NEW n \in Models \ {m}
        PROVE  req_count'[n] = req_count[n] /\ status'[n] = status[n] /\ Proxied(n)' = Proxied(n)
    BY <1>1, <1>2, <1>4
  <1>10. \A n \in Models : /\ req_count'[n] <= Cardinality(Proxied(n)')
                           /\ status'[n] = "absent" => req_count'[n] = 0
    BY <1>8, <1>9 DEF BusyInv
  <1> QED
    BY <1>5, <1>10 DEF BusyInv

LEMMA StepBusy == Types /\ BusyInv /\ [RNext]_rvars => BusyInv'
  <1> SUFFICES ASSUME Types, BusyInv, [RNext]_rvars PROVE BusyInv'
    OBVIOUS
  <1> USE DEF Goto
  <1>0. /\ pc \in [Threads -> Pcs] /\ Requests \subseteq Threads
        /\ req_count \in [Models -> Nat] /\ status \in [Models -> Statuses]
        /\ \A r \in Requests : r \notin Admins
    BY RouterAssumption DEF Types, RouterTypeOK, ThreadsOK, Threads, Statuses
  <1>1. ASSUME NEW r \in Requests, Request(r) PROVE BusyInv'
    <2>1. CASE ProxyCount(r)
      BY <2>1, ProxyCountBusy
    <2>2. CASE ProxyEnd(r)
      BY <2>2, ProxyEndBusy
    <2>3. CASE ~ProxyCount(r) /\ ~ProxyEnd(r)
      <3>1. /\ status' = status /\ req_count' = req_count
            /\ \/ pc' = pc
               \/ /\ pc[r] # "proxied"
                  /\ \E l : l # "proxied" /\ pc' = [pc EXCEPT ![r] = l]
        BY <1>1, <2>3
           DEF Request, EnsureMeta, EnsureStopping, EnsureJoin, WaitForExit, LoopEnds, LoopFails,
               LoopStopped, LoopSeesLoading, Claim, ClaimDone, ProxyMeta, GiveUp, mapping, thread
      <3>2. \A s \in Requests : pc'[s] = "proxied" <=> pc[s] = "proxied"
        BY <1>0, <3>1
      <3> QED
        BY <3>1, <3>2, BusyQuiet
    <2> QED
      BY <2>1, <2>2, <2>3
  <1>2. ASSUME NEW a \in Admins, Admin(a) PROVE BusyInv'
    <2>1. pc' = pc \/ \E l : pc' = [pc EXCEPT ![a] = l]
      BY <1>2 DEF Admin, AdminLoad, AdminUnload, AdminUnloads, ReloadBegin, ReloadUnload,
                  ReloadFinish, Shutdown, ShutdownDone, thread
    <2>2. \A s \in Requests : pc'[s] = pc[s]
      BY <1>0, <2>1
    <2>3. CASE status' = status /\ req_count' = req_count
      BY <2>2, <2>3, BusyQuiet
    <2>4. CASE \E found : Reconcile(found)
      <3>1. \A m \in Models : /\ req_count'[m] \in {0, req_count[m]}
                              /\ status'[m] = "absent" => req_count'[m] = 0
        BY <1>0, <2>4 DEF Reconcile
      <3> QED
        BY <2>2, <3>1, BusyQuiet
    <2>5. (status' = status /\ req_count' = req_count) \/ \E found : Reconcile(found)
      BY <1>2 DEF Admin, AdminLoad, AdminUnload, AdminUnloads, ReloadBegin, ReloadUnload,
                  ReloadFinish, Shutdown, ShutdownDone, mapping
    <2> QED
      BY <2>3, <2>4, <2>5
  <1>3. ASSUME NEW t \in Threads, Load(t) \/ SpawnFails(t) PROVE BusyInv'
    <2>1. pc[t] # "proxied" /\ \E l : l # "proxied" /\ pc' = [pc EXCEPT ![t] = l]
      BY <1>3 DEF Load, LoadBegin, MakeRoom, UnloadVictim, AwaitVictim, LoadNotNeeded, LoadRefused,
                  Spawn, SpawnFails, Return
    <2>2. \A s \in Requests : pc'[s] = "proxied" <=> pc[s] = "proxied"
      BY <1>0, <2>1
    <2>3. /\ req_count' = req_count \/ \E m : req_count' = [req_count EXCEPT ![m] = 0]
          /\ \/ status' = status
             \/ \E m : \E st \in {"LOADING", "UNLOADED"} : status' = [status EXCEPT ![m] = st]
      BY <1>3 DEF Load, LoadBegin, MakeRoom, UnloadVictim, AwaitVictim, LoadNotNeeded, LoadRefused,
                  Spawn, SpawnFails, mapping
    <2>4. \A m \in Models : /\ req_count'[m] \in {0, req_count[m]}
                            /\ status'[m] = "absent" => status[m] = "absent"
      BY <1>0, <2>3
    <2> QED
      BY <2>2, <2>4, BusyQuiet
  <1>4. ASSUME NEW m \in Models, ChildStep(m) PROVE BusyInv'
    <2>1. pc' = pc /\ req_count' = req_count
      BY <1>4 DEF ChildStep, Monitor, HandleCommand, ReadLine, Reap, ForceKill, ChildReady,
                  ChildSleeps, ChildWakes, ChildExits, ChildCrashes, Say, mapping, thread
    <2>2. status' = status \/ \E st : st # "absent" /\ status' = [status EXCEPT ![m] = st]
      <3>1. CASE ReadLine(m)
        <4>1. Head(out[m]) \in Lines
          BY <3>1, TailType DEF ReadLine, Types, RouterTypeOK, Lines
        <4> QED
          BY <3>1, <4>1 DEF ReadLine, Lines
      <3>2. CASE ~ReadLine(m)
        BY <1>4, <3>2 DEF ChildStep, Monitor, HandleCommand, Reap, ForceKill, ChildReady,
                  ChildSleeps, ChildWakes, ChildExits, ChildCrashes, Say, mapping
      <3> QED
        BY <3>1, <3>2
    <2>3. \A n \in Models : status'[n] = "absent" => status[n] = "absent"
      BY <1>0, <2>2
    <2> QED
      BY <2>1, <2>3, BusyQuiet
  <1>5. CASE UNCHANGED rvars
    BY <1>5, BusyQuiet DEF rvars, mapping, thread
  <1> QED
    BY <1>1, <1>2, <1>3, <1>4, <1>5, Steps

LEMMA InitBusy == RInit => BusyInv
  <1> SUFFICES ASSUME RInit PROVE BusyInv
    OBVIOUS
  <1>1. {r \in Requests : pc[r] = "proxied"} = {} /\ \A m : Proxied(m) = {}
    BY DEF RInit, Threads, Proxied
  <1>2. \A m \in Models : req_count[m] = 0
    BY DEF RInit
  <1>3. IsFiniteSet({}) /\ Cardinality({}) = 0
    BY FS_EmptySet
  <1> QED
    BY <1>1, <1>2, <1>3 DEF BusyInv

\* A model whose requests are over can be evicted: what is counted is being proxied, also
\* when the model is reloaded, removed or replaced by a new instance in between.
THEOREM NoModelStaysBusy == RSpec => []NoBusyLeak
  <1>1. RInit => Types /\ BusyInv
    BY InitTypes, InitBusy
  <1>2. Types /\ BusyInv /\ [RNext]_rvars => (Types /\ BusyInv)'
    BY StepTypes, StepBusy
  <1>3. ASSUME Types, BusyInv PROVE NoBusyLeak
    <2>1. ASSUME NEW m \in Models
          PROVE  req_count[m] \in 0..Cardinality({r \in Requests : target[r] = m /\ pc[r] = "proxied"})
      <3>1. {r \in Requests : target[r] = m /\ pc[r] = "proxied"} = Proxied(m)
        BY <1>3 DEF Types, ThreadsOK, Proxied
      <3>2. req_count[m] \in Nat /\ Cardinality(Proxied(m)) \in Nat /\ req_count[m] <= Cardinality(Proxied(m))
        BY <1>3, ProxiedFinite DEF Types, RouterTypeOK, BusyInv
      <3> QED
        BY <3>1, <3>2
    <2> QED
      BY <2>1 DEF NoBusyLeak
  <1> QED
    BY <1>1, <1>2, <1>3, PTL DEF RSpec

-----------------------------------------------------------------------------
(* A stop is carried out *)

\* The monitor watches the child, or will before it does anything else about it.
Watching(w, c) == w \/ \E i \in DOMAIN c : c[i] = "WATCH"

\* The order to stop it comes when the monitor watches it.
Ordered(w, c) ==
    \E i \in DOMAIN c : c[i] # "WATCH" /\ (w \/ \E j \in DOMAIN c : j < i /\ c[j] = "WATCH")

\* Exactly the running models have a process; every process is watched or about to be;
\* and what is stopping has a process that the order reaches, or has reached.
StopInv ==
    \A m \in Models :
        /\ IsRunning(status[m]) => proc[m] # "none"
        /\ proc[m] # "none" => Watching(m \in watched, cmds[m])
        /\ m \in stopping_models =>
             /\ proc[m] # "none"
             /\ proc[m] \in Exited \/ m \in deadline \/ Ordered(m \in watched, cmds[m])

\* One more command.
LEMMA OneMoreCommand ==
    ASSUME NEW c \in Seq(Commands), NEW x \in Commands, NEW w
    PROVE  /\ Watching(w, c) => Watching(w, Append(c, x))
           /\ Ordered(w, c) => Ordered(w, Append(c, x))
           /\ Watching(w, Append(c, "WATCH"))
           /\ Watching(w, c) /\ x # "WATCH" => Ordered(w, Append(c, x))
  <1>0. "WATCH" \in Commands
    BY DEF Commands
  <1>1. \A y \in Commands :
          /\ DOMAIN Append(c, y) = 1..Len(c) + 1 /\ DOMAIN c = 1..Len(c) /\ Len(c) \in Nat
          /\ \A i \in 1..Len(c) : Append(c, y)[i] = c[i]
          /\ Append(c, y)[Len(c) + 1] = y
    BY AppendType, LenProperties
  <1>2. \A i \in 1..Len(c) : i \in 1..Len(c) + 1 /\ i < Len(c) + 1
    BY <1>0, <1>1
  <1>3. Len(c) + 1 \in 1..Len(c) + 1
    BY <1>0, <1>1
  <1>4. Watching(w, c) => Watching(w, Append(c, x))
    BY <1>1, <1>2 DEF Watching
  <1>5. Ordered(w, c) => Ordered(w, Append(c, x))
    BY <1>1, <1>2 DEF Ordered
  <1>6. Watching(w, Append(c, "WATCH"))
    BY <1>0, <1>1, <1>3 DEF Watching
  <1>7. Watching(w, c) /\ x # "WATCH" => Ordered(w, Append(c, x))
    BY <1>1, <1>2, <1>3 DEF Watching, Ordered
  <1> QED
    BY <1>4, <1>5, <1>6, <1>7

\* The first command is carried out.
LEMMA OneCommandLess ==
    ASSUME NEW c \in Seq(Commands), c # <<>>, NEW m, NEW W, NEW U,
           U = IF Head(c) = "WATCH" THEN W \cup {m} ELSE W
    PROVE  /\ Watching(m \in W, c) => Watching(m \in U, Tail(c))
           /\ Ordered(m \in W, c) => \/ Head(c) # "WATCH" /\ m \in W
                                    \/ Ordered(m \in U, Tail(c))
  <1>1. /\ DOMAIN c = 1..Len(c) /\ DOMAIN Tail(c) = 1..Len(c) - 1 /\ Len(c) \in Nat
        /\ \A i \in 1..Len(c) - 1 : Tail(c)[i] = c[i + 1]
        /\ Head(c) = c[1]
    BY TailType, LenProperties
  <1>2. \A i \in 1..Len(c) : i # 1 => i - 1 \in 1..Len(c) - 1 /\ Tail(c)[i - 1] = c[i]
    BY <1>1
  <1>3. (m \in W => m \in U) /\ (c[1] = "WATCH" => m \in U)
    BY <1>1
  <1>4. Watching(m \in W, c) => Watching(m \in U, Tail(c))
    BY <1>1, <1>2, <1>3 DEF Watching
  <1>5. ASSUME Ordered(m \in W, c), ~(Head(c) # "WATCH" /\ m \in W)
        PROVE  Ordered(m \in U, Tail(c))
    <2>1. PICK i \in DOMAIN c :
                  /\ c[i] # "WATCH"
                  /\ m \in W \/ \E j \in DOMAIN c : j < i /\ c[j] = "WATCH"
      BY <1>5 DEF Ordered
    <2>2. i # 1
      BY <1>1, <1>5, <2>1
    <2>3. i - 1 \in DOMAIN Tail(c) /\ Tail(c)[i - 1] # "WATCH"
      BY <1>1, <1>2, <2>1, <2>2
    <2>4. CASE m \in W
      BY <1>3, <2>3, <2>4 DEF Ordered
    <2>5. CASE m \notin W
      <3>1. PICK j \in DOMAIN c : j < i /\ c[j] = "WATCH"
        BY <2>1, <2>5
      <3>2. CASE j = 1
        BY <1>3, <2>3, <3>1, <3>2 DEF Ordered
      <3>3. CASE j # 1
        <4>1. j - 1 \in DOMAIN Tail(c) /\ Tail(c)[j - 1] = "WATCH" /\ j - 1 < i - 1
          BY <1>1, <1>2, <2>1, <3>1, <3>3
        <4> QED
          BY <2>3, <4>1 DEF Ordered
      <3> QED
        BY <3>2, <3>3
    <2> QED
      BY <2>4, <2>5
  <1> QED
    BY <1>4, <1>5

\* What a step may do about stopping m: nothing, or tell its process to stop.
Told(m) ==
    \/ cmds'[m] = cmds[m] /\ (m \in stopping_models' => m \in stopping_models)
    \/ proc[m] # "none" /\ \E x \in Commands \ {"WATCH"} : cmds'[m] = Append(cmds[m], x)

LEMMA StopQuiet ==
    ASSUME Types, StopInv, watched' = watched, deadline' = deadline,
           \A m \in Models : /\ IsRunning(status'[m]) => IsRunning(status[m])
                             /\ proc'[m] = "none" <=> proc[m] = "none"
                             /\ proc[m] \in Exited => proc'[m] \in Exited
                             /\ Told(m)
    PROVE  StopInv'
  <1> SUFFICES ASSUME NEW m \in Models
               PROVE  /\ IsRunning(status'[m]) => proc'[m] # "none"
                      /\ proc'[m] # "none" => Watching(m \in watched', cmds'[m])
                      /\ m \in stopping_models' =>
                           /\ proc'[m] # "none"
                           /\ \/ proc'[m] \in Exited \/ m \in deadline'
                              \/ Ordered(m \in watched', cmds'[m])
    BY DEF StopInv
  <1>1. cmds[m] \in Seq(Commands)
    BY DEF Types, RouterTypeOK, Commands
  <1>2. /\ IsRunning(status[m]) => proc[m] # "none"
        /\ proc[m] # "none" => Watching(m \in watched, cmds[m])
        /\ m \in stopping_models =>
             /\ proc[m] # "none"
             /\ proc[m] \in Exited \/ m \in deadline \/ Ordered(m \in watched, cmds[m])
    BY DEF StopInv
  <1>3. CASE cmds'[m] = cmds[m] /\ (m \in stopping_models' => m \in stopping_models)
    BY <1>2, <1>3
  <1>4. ASSUME proc[m] # "none", NEW x \in Commands \ {"WATCH"}, cmds'[m] = Append(cmds[m], x)
        PROVE  /\ Watching(m \in watched, cmds'[m])
               /\ Ordered(m \in watched, cmds'[m])
    BY <1>1, <1>2, <1>4, OneMoreCommand
  <1> QED
    BY <1>2, <1>3, <1>4 DEF Told

\* tick() tells those it evicts, and these have a process.
LEMMA TickTold ==
    ASSUME Types, NEW st, NEW q, NEW rc, tick(st, stopping_models, q, rc, cmds),
           \A m \in Models : IsRunning(st[m]) => proc[m] # "none"
    PROVE  \A m \in Models : Told(m)
  <1>1. PICK V \in SUBSET IdleModels(st, stopping_models, q, rc) : Stop(stopping_models, V, cmds, "EXIT")
    BY TickStops
  <1>2. \A m \in V : m \in Models /\ IsRunning(st[m])
    BY DEF IdleModels, IsReadyOrSleep, IsRunning
  <1>3. "EXIT" \in Commands \ {"WATCH"}
    BY DEF Commands
  <1> SUFFICES ASSUME NEW m \in Models PROVE Told(m)
    OBVIOUS
  <1>4. CASE m \in V \ stopping_models
    <2>1. cmds'[m] = Append(cmds[m], "EXIT") /\ proc[m] # "none"
      BY <1>1, <1>2, <1>4 DEF Stop
    <2> QED
      BY <1>3, <2>1 DEF Told
  <1>5. CASE m \notin V \ stopping_models
    <2>1. cmds'[m] = cmds[m] /\ stopping_models' = stopping_models \cup V
      BY <1>1, <1>5 DEF Stop
    <2> QED
      BY <1>5, <2>1 DEF Told
  <1> QED
    BY <1>4, <1>5

\* unload() tells the model it unloads, if it runs, and may kill it.
LEMMA UnloadTold ==
    ASSUME Types, StopInv, NEW n \in Models, unload(n)
    PROVE  \A m \in Models : /\ Told(m)
                             /\ proc'[m] = "none" <=> proc[m] = "none"
                             /\ proc[m] \in Exited => proc'[m] \in Exited
  <1>1. CASE ~IsRunning(status[n])
    BY <1>1 DEF unload, child, Told
  <1>2. CASE IsRunning(status[n])
    <2>1. proc[n] # "none"
      BY <1>2 DEF StopInv
    <2>2. \E x \in {"EXIT", "KILLED"} : Stop(stopping_models, {n}, cmds, x)
      BY <1>2 DEF unload, StopModel
    <2>3. PICK x \in {"EXIT", "KILLED"} : Stop(stopping_models, {n}, cmds, x)
      BY <2>2
    <2>4. x \in Commands \ {"WATCH"}
      BY DEF Commands
    <2>5. \A m \in Models : Told(m)
      BY <2>1, <2>3, <2>4 DEF Told, Stop
    <2>6. proc' = proc \/ proc' = [proc EXCEPT ![n] = IF @ \in Alive THEN "exited_bad" ELSE @]
      BY <1>2 DEF unload, StopModel, Kill
    <2>7. \A m \in Models : /\ proc'[m] = "none" <=> proc[m] = "none"
                            /\ proc[m] \in Exited => proc'[m] \in Exited
      BY <2>6 DEF Types, RouterTypeOK, Alive, Exited
    <2> QED
      BY <2>5, <2>7
  <1> QED
    BY <1>1, <1>2

LEMMA RequestStop ==
    ASSUME Types, StopInv, NEW r \in Requests, Request(r)
    PROVE  StopInv'
  <1>1. UNCHANGED <<watched, deadline, proc>>
    BY DEF Request, EnsureMeta, EnsureStopping, EnsureJoin, WaitForExit, LoopEnds, LoopFails,
           LoopStopped, LoopSeesLoading, Claim, ClaimDone, ProxyMeta, ProxyCount, ProxyEnd,
           monitor, child
  <1>2. \A m \in Models : IsRunning(status'[m]) => IsRunning(status[m])
    <2>1. status' = status \/ \E n : status' = [status EXCEPT ![n] = IF @ = "absent" THEN "UNLOADED" ELSE @]
      BY DEF Request, EnsureMeta, EnsureStopping, EnsureJoin, WaitForExit, LoopEnds, LoopFails,
           LoopStopped, LoopSeesLoading, Claim, ClaimDone, ProxyMeta, ProxyCount, ProxyEnd, mapping
    <2> QED
      BY <2>1 DEF IsRunning, Types, RouterTypeOK
  <1>3. \/ cmds' = cmds /\ stopping_models' = stopping_models
        \/ \E q, rc : tick(status, stopping_models, q, rc, cmds)
    BY DEF Request, EnsureMeta, EnsureStopping, EnsureJoin, WaitForExit, LoopEnds, LoopFails,
           LoopStopped, LoopSeesLoading, Claim, ClaimDone, ProxyMeta, ProxyCount, ProxyEnd,
           JoinQueue, GiveUp, mapping, monitor
  <1>4. \A m \in Models : Told(m)
    <2>1. CASE cmds' = cmds /\ stopping_models' = stopping_models
      BY <2>1 DEF Told
    <2>2. CASE \E q, rc : tick(status, stopping_models, q, rc, cmds)
      BY <2>2, TickTold DEF StopInv
    <2> QED
      BY <1>3, <2>1, <2>2
  <1> QED
    BY <1>1, <1>2, <1>4, StopQuiet

LEMMA AdminStop ==
    ASSUME Types, StopInv, NEW a \in Admins, Admin(a)
    PROVE  StopInv'
  <1>1. UNCHANGED <<watched, deadline>>
    BY DEF Admin, AdminLoad, AdminUnload, AdminUnloads, ReloadBegin, ReloadUnload, ReloadFinish,
           Shutdown, ShutdownDone, monitor
  <1>2. \A m \in Models : IsRunning(status'[m]) => IsRunning(status[m])
    <2>1. status' = status \/ \E found : Reconcile(found)
      BY DEF Admin, AdminLoad, AdminUnload, AdminUnloads, ReloadBegin, ReloadUnload, ReloadFinish,
           Shutdown, ShutdownDone, mapping
    <2> QED
      BY <2>1 DEF Reconcile, IsRunning
  <1>3. CASE AdminUnloads(a) \/ ReloadUnload(a)
    <2>1. \E n \in Models : unload(n)
      BY <1>3 DEF AdminUnloads, ReloadUnload, Types, ThreadsOK, RouterTypeOK, Threads
    <2> QED
      BY <1>1, <1>2, <2>1, UnloadTold, StopQuiet
  <1>4. CASE Shutdown(a)
    <2>1. /\ proc' = [m \in Models |-> IF status[m] = "LOADING" /\ proc[m] \in Alive THEN "exited_bad"
                                       ELSE proc[m]]
          /\ stopping_models' = stopping_models \cup Running(status)
          /\ cmds' = [m \in Models |->
                        IF m \notin Running(status) \ stopping_models THEN cmds[m]
                        ELSE Append(cmds[m], IF status[m] = "LOADING" THEN "KILLED" ELSE "EXIT")]
      BY <1>4 DEF Shutdown
    <2>2. \A m \in Models : /\ proc'[m] = "none" <=> proc[m] = "none"
                            /\ proc[m] \in Exited => proc'[m] \in Exited
      BY <2>1 DEF Alive, Exited
    <2>3. \A m \in Models : Told(m)
      <3> SUFFICES ASSUME NEW m \in Models PROVE Told(m)
        OBVIOUS
      <3>1. CASE m \in Running(status) \ stopping_models
        <4>1. \E x \in Commands \ {"WATCH"} : cmds'[m] = Append(cmds[m], x)
          BY <2>1, <3>1 DEF Commands
        <4> QED
          BY <3>1, <4>1 DEF Told, StopInv, Running
      <3>2. CASE m \notin Running(status) \ stopping_models
        BY <2>1, <3>2 DEF Told
      <3> QED
        BY <3>1, <3>2
    <2> QED
      BY <1>1, <1>2, <2>2, <2>3, StopQuiet
  <1>5. CASE ~AdminUnloads(a) /\ ~ReloadUnload(a) /\ ~Shutdown(a)
    <2>1. UNCHANGED <<proc, cmds, stopping_models>>
      BY <1>5 DEF Admin, AdminLoad, AdminUnload, ReloadBegin, ReloadFinish, ShutdownDone,
                  mapping, monitor, child
    <2>2. \A m \in Models : Told(m)
      BY <2>1 DEF Told
    <2> QED
      BY <1>1, <1>2, <2>1, <2>2, StopQuiet
  <1> QED
    BY <1>3, <1>4, <1>5

LEMMA LoadStop ==
    ASSUME Types, ProcInv, StopInv, NEW t \in Threads, Load(t) \/ SpawnFails(t)
    PROVE  StopInv'
  <1>1. CASE Spawn(t)
    <2> DEFINE n == target[t]
    <2>1. /\ status' = [status EXCEPT ![n] = "LOADING"] /\ ~IsRunning(status[n])
          /\ proc' = [proc EXCEPT ![n] = "starting"]
          /\ cmds' = [cmds EXCEPT ![n] = Append(@, "WATCH")]
          /\ UNCHANGED <<stopping_models, watched, deadline>>
      BY <1>1 DEF Spawn
    <2> HIDE DEF n
    <2>2. ASSUME NEW m \in Models, m # n
          PROVE  status'[m] = status[m] /\ proc'[m] = proc[m] /\ cmds'[m] = cmds[m]
      BY <2>1, <2>2 DEF Types, RouterTypeOK
    <2>3. ASSUME n \in Models
          PROVE  /\ proc'[n] = "starting" /\ n \notin stopping_models
                 /\ Watching(n \in watched, cmds'[n])
      <3>1. proc[n] = "none"
        BY <2>1, <2>3 DEF ProcInv, NoSecondProcess
      <3>2. n \notin stopping_models
        BY <2>3, <3>1 DEF StopInv
      <3>3. proc'[n] = "starting" /\ cmds'[n] = Append(cmds[n], "WATCH") /\ cmds[n] \in Seq(Commands)
        BY <2>1, <2>3 DEF Types, RouterTypeOK, Commands
      <3>4. "WATCH" \in Commands
        BY DEF Commands
      <3>5. Watching(n \in watched, Append(cmds[n], "WATCH"))
        BY <3>3, <3>4, OneMoreCommand
      <3> QED
        BY <3>2, <3>3, <3>5
    <2>4. ASSUME NEW m \in Models, m # n
          PROVE  /\ IsRunning(status'[m]) => proc'[m] # "none"
                 /\ proc'[m] # "none" => Watching(m \in watched', cmds'[m])
                 /\ m \in stopping_models' =>
                      /\ proc'[m] # "none"
                      /\ proc'[m] \in Exited \/ m \in deadline' \/ Ordered(m \in watched', cmds'[m])
      BY <2>1, <2>2, <2>4 DEF StopInv
    <2>5. watched' = watched /\ stopping_models' = stopping_models
      BY <2>1
    <2> QED
      BY <2>3, <2>4, <2>5 DEF StopInv
  <1>2. CASE UnloadVictim(t)
    <2>1. \E n \in Models : unload(n)
      BY <1>2 DEF UnloadVictim, Types, ThreadsOK
    <2>2. UNCHANGED <<status, watched, deadline>>
      BY <1>2 DEF UnloadVictim
    <2> QED
      BY <2>1, <2>2, UnloadTold, StopQuiet
  <1>3. CASE LoadBegin(t) \/ MakeRoom(t) \/ AwaitVictim(t) \/ LoadNotNeeded(t) \/ LoadRefused(t)
             \/ SpawnFails(t)
    <2>1. /\ UNCHANGED <<watched, deadline, proc, cmds, stopping_models>>
          /\ status' = status \/ \E n : status' = [status EXCEPT ![n] = "UNLOADED"]
      BY <1>3 DEF LoadBegin, MakeRoom, AwaitVictim, LoadNotNeeded, LoadRefused, SpawnFails,
                  mapping, monitor, child
    <2>2. \A m \in Models : IsRunning(status'[m]) => IsRunning(status[m])
      BY <2>1 DEF IsRunning, Types, RouterTypeOK
    <2>3. \A m \in Models : Told(m)
      BY <2>1 DEF Told
    <2> QED
      BY <2>1, <2>2, <2>3, StopQuiet
  <1> QED
    BY <1>1, <1>2, <1>3 DEF Load

LEMMA ChildStop ==
    ASSUME Types, ProcInv, StopInv, NEW m \in Models, ChildStep(m)
    PROVE  StopInv'
  <1>0. cmds \in [Models -> Seq(Commands)] /\ proc \in [Models -> {"none"} \cup Alive \cup Exited]
        /\ status \in [Models -> Statuses]
    BY DEF Types, RouterTypeOK, Commands, Statuses
  <1>1. CASE HandleCommand(m)
    <2>1. /\ cmds[m] # <<>> /\ cmds' = [cmds EXCEPT ![m] = Tail(@)]
          /\ watched' = IF Head(cmds[m]) = "WATCH" THEN watched \cup {m} ELSE watched
          /\ deadline' = IF Head(cmds[m]) # "WATCH" /\ m \in watched THEN deadline \cup {m} ELSE deadline
          /\ UNCHANGED <<status, stopping_models, proc>>
      BY <1>1 DEF HandleCommand, mapping
    <2>2. ASSUME NEW n \in Models, n # m
          PROVE  /\ cmds'[n] = cmds[n] /\ (n \in watched' <=> n \in watched)
                 /\ n \in deadline' <=> n \in deadline
      BY <1>0, <2>1, <2>2
    <2>3. cmds[m] \in Seq(Commands) /\ cmds'[m] = Tail(cmds[m])
      BY <1>0, <2>1
    <2>4. /\ Watching(m \in watched, cmds[m]) => Watching(m \in watched', Tail(cmds[m]))
          /\ Ordered(m \in watched, cmds[m]) => \/ Head(cmds[m]) # "WATCH" /\ m \in watched
                                                \/ Ordered(m \in watched', Tail(cmds[m]))
      BY <2>1, <2>3, OneCommandLess
    <2>5. /\ Watching(m \in watched, cmds[m]) => Watching(m \in watched', cmds'[m])
          /\ Ordered(m \in watched, cmds[m]) => m \in deadline' \/ Ordered(m \in watched', cmds'[m])
      BY <2>1, <2>3, <2>4
    <2>6. m \in deadline => m \in deadline'
      BY <2>1
    <2>7. ASSUME NEW n \in Models, n # m
          PROVE  /\ Watching(n \in watched', cmds'[n]) <=> Watching(n \in watched, cmds[n])
                 /\ Ordered(n \in watched', cmds'[n]) <=> Ordered(n \in watched, cmds[n])
      BY <2>2, <2>7 DEF Watching, Ordered
    <2> QED
      BY <2>1, <2>2, <2>5, <2>6, <2>7 DEF StopInv
  <1>2. CASE ReadLine(m)
    <2>1. /\ m \in watched /\ out[m] # <<>> /\ UNCHANGED <<watched, deadline, proc>>
      BY <1>2 DEF ReadLine
    <2>2. IsRunning(status[m])
      BY <2>1 DEF ProcInv, NoSecondProcess
    <2>3. \E l : status' = [status EXCEPT ![m] = l]
      BY <1>2, <2>2 DEF ReadLine, IsRunning
    <2>4. \A n \in Models : IsRunning(status'[n]) => IsRunning(status[n])
      BY <1>0, <2>2, <2>3
    <2>5. tick(status', stopping_models, queue, req_count, cmds)
      BY <1>2, <2>2 DEF ReadLine, IsRunning
    <2>6. \A n \in Models : IsRunning(status'[n]) => proc[n] # "none"
      BY <2>4 DEF StopInv
    <2>7. \A n \in Models : Told(n)
      BY <2>5, <2>6, TickTold
    <2> QED
      BY <2>1, <2>4, <2>7, StopQuiet
  <1>3. CASE Reap(m)
    <2>1. /\ watched' = watched \ {m} /\ deadline' = deadline \ {m}
          /\ proc' = [proc EXCEPT ![m] = "none"]
          /\ status' = [status EXCEPT ![m] = IF @ = "absent" THEN @ ELSE "UNLOADED"]
      BY <1>0, <1>3 DEF Reap
    <2>2. \E V \in SUBSET {n \in Models : IsRunning(status'[n])} : Stop(stopping_models \ {m}, V, cmds, "EXIT")
      <3>1. CASE status[m] = "absent"
        <4>1. stopping_models' = stopping_models \ {m} /\ cmds' = cmds
          BY <1>3, <3>1 DEF Reap
        <4>2. Stop(stopping_models \ {m}, {}, cmds, "EXIT")
          BY <1>0, <4>1 DEF Stop
        <4> QED
          BY <4>2
      <3>2. CASE status[m] # "absent"
        <4>1. tick(status', stopping_models \ {m}, queue, req_count, cmds)
          BY <1>3, <3>2 DEF Reap
        <4>2. PICK V \in SUBSET IdleModels(status', stopping_models \ {m}, queue, req_count) :
                      Stop(stopping_models \ {m}, V, cmds, "EXIT")
          BY <4>1, TickStops
        <4> QED
          BY <4>2 DEF IdleModels, IsReadyOrSleep, IsRunning
      <3> QED
        BY <3>1, <3>2
    <2>3. PICK V \in SUBSET {n \in Models : IsRunning(status'[n])} : Stop(stopping_models \ {m}, V, cmds, "EXIT")
      BY <2>2
    <2>4. ~IsRunning(status'[m]) /\ proc'[m] = "none"
      BY <1>0, <2>1 DEF IsRunning
    <2>5. m \notin stopping_models'
      BY <2>3, <2>4 DEF Stop
    <2>6. ASSUME NEW n \in Models, n # m
          PROVE  /\ IsRunning(status'[n]) => proc'[n] # "none"
                 /\ proc'[n] # "none" => Watching(n \in watched', cmds'[n])
                 /\ n \in stopping_models' =>
                      /\ proc'[n] # "none"
                      /\ proc'[n] \in Exited \/ n \in deadline' \/ Ordered(n \in watched', cmds'[n])
      <3>1. /\ status'[n] = status[n] /\ proc'[n] = proc[n]
            /\ (n \in watched' <=> n \in watched) /\ (n \in deadline' <=> n \in deadline)
        BY <1>0, <2>1, <2>6
      <3>2. /\ IsRunning(status[n]) => proc[n] # "none"
            /\ proc[n] # "none" => Watching(n \in watched, cmds[n])
            /\ n \in stopping_models =>
                 /\ proc[n] # "none"
                 /\ proc[n] \in Exited \/ n \in deadline \/ Ordered(n \in watched, cmds[n])
        BY DEF StopInv
      <3>3. CASE n \in V \ (stopping_models \ {m})
        <4>1. cmds'[n] = Append(cmds[n], "EXIT") /\ proc[n] # "none"
          BY <2>3, <3>1, <3>2, <3>3 DEF Stop
        <4>2. "EXIT" \in Commands /\ "EXIT" # "WATCH" /\ cmds[n] \in Seq(Commands)
          BY <1>0 DEF Commands
        <4>3. Watching(n \in watched, cmds'[n]) /\ Ordered(n \in watched, cmds'[n])
          BY <3>2, <4>1, <4>2, OneMoreCommand
        <4>4. Watching(n \in watched', cmds'[n]) /\ Ordered(n \in watched', cmds'[n])
          BY <3>1, <4>3 DEF Watching, Ordered
        <4> QED
          BY <3>1, <4>1, <4>4
      <3>4. CASE n \notin V \ (stopping_models \ {m})
        <4>1. cmds'[n] = cmds[n] /\ (n \in stopping_models' => n \in stopping_models)
          BY <2>3, <2>6, <3>4 DEF Stop
        <4>2. /\ Watching(n \in watched', cmds'[n]) <=> Watching(n \in watched, cmds[n])
              /\ Ordered(n \in watched', cmds'[n]) <=> Ordered(n \in watched, cmds[n])
          BY <3>1, <4>1 DEF Watching, Ordered
        <4> QED
          BY <3>1, <3>2, <4>1, <4>2
      <3> QED
        BY <3>3, <3>4
    <2> QED
      BY <2>4, <2>5, <2>6 DEF StopInv
  <1>4. CASE ForceKill(m)
    <2>1. /\ deadline' = deadline \ {m}
          /\ proc' = [proc EXCEPT ![m] = IF @ \in Alive THEN "exited_bad" ELSE @]
          /\ UNCHANGED <<status, stopping_models, cmds, watched>>
      BY <1>4 DEF ForceKill, Kill, mapping
    <2>2. \A n \in Models : n # m => proc'[n] = proc[n] /\ (n \in deadline' <=> n \in deadline)
      BY <1>0, <2>1
    <2>3. proc[m] # "none" => proc'[m] \in Exited /\ proc'[m] # "none"
      BY <1>0, <2>1 DEF Exited
    <2>4. proc'[m] # "none" => proc[m] # "none"
      BY <1>0, <2>1 DEF Alive
    <2> QED
      BY <2>1, <2>2, <2>3, <2>4 DEF StopInv
  <1>5. CASE ChildReady(m) \/ ChildSleeps(m) \/ ChildWakes(m) \/ ChildExits(m) \/ ChildCrashes(m)
    <2>1. UNCHANGED <<status, stopping_models, cmds, watched, deadline>>
      BY <1>5 DEF ChildReady, ChildSleeps, ChildWakes, ChildExits, ChildCrashes, Say, mapping, monitor
    <2>2. proc[m] \in Alive /\ \E p \in Alive \cup Exited : proc' = [proc EXCEPT ![m] = p]
      BY <1>0, <1>5 DEF ChildReady, ChildSleeps, ChildWakes, ChildExits, ChildCrashes, Say, Kill, Alive, Exited
    <2>3. \A n \in Models : /\ proc'[n] = "none" <=> proc[n] = "none"
                            /\ proc[n] \in Exited => proc'[n] \in Exited
      BY <1>0, <2>2 DEF Alive, Exited
    <2>4. \A n \in Models : Told(n)
      BY <2>1 DEF Told
    <2> QED
      BY <2>1, <2>3, <2>4, StopQuiet
  <1> QED
    BY <1>1, <1>2, <1>3, <1>4, <1>5 DEF ChildStep, Monitor

LEMMA StepStop == Types /\ ProcInv /\ StopInv /\ [RNext]_rvars => StopInv'
  <1> SUFFICES ASSUME Types, ProcInv, StopInv, [RNext]_rvars PROVE StopInv'
    OBVIOUS
  <1>1. CASE RNext
    BY <1>1, Steps, RequestStop, AdminStop, LoadStop, ChildStop
  <1>2. CASE UNCHANGED rvars
    BY <1>2 DEF rvars, mapping, monitor, child, StopInv
  <1> QED
    BY <1>1, <1>2

LEMMA InitStop == RInit => StopInv
  BY DEF RInit, StopInv, IsRunning

\* No model is left stopping with nobody to stop it: its process is told, is about to be,
\* or has ended, and the end takes the model out of stopping_models.
THEOREM StopsAreOnTheirWay ==
    ASSUME OneReloader
    PROVE  RSpec => []StopIsOnItsWay
  <1>1. RInit => Types /\ ProcInv /\ StopInv
    BY InitTypes, InitProc, InitStop
  <1>2. Types /\ ProcInv /\ StopInv /\ [RNext]_rvars => (Types /\ ProcInv /\ StopInv)'
    BY StepTypes, StepProc, StepStop
  <1>3. ASSUME Types, StopInv PROVE StopIsOnItsWay
    BY <1>3 DEF Types, RouterTypeOK, StopInv, StopIsOnItsWay, Ordered
  <1> QED
    BY <1>1, <1>2, <1>3, PTL DEF RSpec
=============================================================================
