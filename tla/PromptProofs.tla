---------------------------- MODULE PromptProofs -----------------------------
(***************************************************************************)
(* Proofs about PromptCache, for any number of servers that share the      *)
(* directory, any prompts and sizes, any limits and any damage found.      *)
(*                                                                         *)
(* IndexIsTrue follows from who may use a name.  A server holds the name   *)
(* of the file it writes: while it is a ".tmp" file no index has the name, *)
(* and once renamed the file has what the name stands for.  Scans only     *)
(* take in files that are not ".tmp" files, and what a scan, an eviction,  *)
(* a failed read or a crash does to the directory is removing some.        *)
(*                                                                         *)
(* WithinLimits follows from RoomInv: whoever made room last left enough   *)
(* for its own file, and each server that made room before adds one prompt *)
(* at most.  LostOnlyForRoom follows from OrderInv: what a server will     *)
(* remove for its new file has a later file that the server does not know, *)
(* and evictions go from the oldest file on.                               *)
(***************************************************************************)
EXTENDS PromptCache, SubsequenceProofs, WellFoundedInduction

-----------------------------------------------------------------------------
(* The invariants *)

\* Server s has a file of its own: the ".tmp" file, or what it has become.
Holds(s) == wpc[s] \in {"written", "renamed"}

\* No two files have the same name.
Named(d) == \A i, j \in DOMAIN d : d[i].id = d[j].id => i = j

\* The file of the held name, if it is still there, is what the server writes.
Own(s) ==
    \A j \in DOMAIN dir : dir[j].id = Item(s).id =>
        /\ dir[j].tmp <=> wpc[s] = "written"
        /\ dir[j].key = Key[s]
        /\ dir[j].prompt = Item(s).prompt

\* An index of t may have the entry e: it is right about the file of that name, and
\* nobody is writing one under it.
TrueEntry(t, e) ==
    /\ \A j \in DOMAIN dir : dir[j].id = e.id =>
          /\ Bin(dir[j]) /\ e.prompt = dir[j].prompt
          /\ e.match <=> dir[j].key = Key[t]
    /\ \A s \in Servers : wpc[s] = "written" => Item(s).id # e.id

NameInv ==
    /\ Named(dir)
    /\ \A s \in Servers : wpc[s] # "begin" => Writing(s)
    /\ \A s \in Servers : Holds(s) => Item(s).id \in FileIds
    /\ \A s, t \in Servers : Holds(s) /\ Holds(t) /\ s # t => Item(s).id # Item(t).id
    /\ \A s \in Servers : Holds(s) => Own(s)
    /\ \A t \in Servers : \A k \in DOMAIN entries[t] : TrueEntry(t, entries[t][k])

\* What is staged has its main part, and is there only until the request or the flush
\* that staged it goes on.
StageInv ==
    /\ \A k \in DOMAIN staging : staging[k].main
    /\ staging # <<>> => pc \in {"load", "flush"}

\* Only flush and what comes after it have gone through all of the slots.
SavingInv == pc \notin {"flush", "flushed"} => saving \in Slots

IInv == PromptTypeOK /\ NameInv /\ StageInv /\ SavingInv /\ NothingWrongRestored

\* The two halves of the type invariant: the directory and its servers, and the cache
\* of Self.
DiskTypes ==
    /\ dir \in Seq(FileRecords)
    /\ entries \in [Servers -> Seq(EntryRecords)]
    /\ up \subseteq Servers
    /\ todo \in [Servers -> Seq(ItemRecords)]
    /\ wpc \in [Servers -> {"begin", "room", "written", "renamed"}]

CacheTypes ==
    /\ slot \in [Slots -> [prompt : Prompts \cup {<<>>}, wrong : BOOLEAN]]
    /\ states \in Seq(StateRecords)
    /\ staging \in Seq(StateRecords) /\ Len(staging) <= 1
    /\ pc \in {"down", "serving", "load", "idle", "flush", "flushed"}
    /\ ret \in Slots /\ want \in Prompts \cup {<<>>} /\ saving \in 1..(NSlots + 1)
    /\ (pc = "down") = (Self \notin up)

LEMMA TypesSplit == PromptTypeOK <=> DiskTypes /\ CacheTypes
  BY DEF PromptTypeOK, DiskTypes, CacheTypes

LEMMA TypesSplitNext == PromptTypeOK' <=> DiskTypes' /\ CacheTypes'
  BY DEF PromptTypeOK, DiskTypes, CacheTypes

-----------------------------------------------------------------------------
(* Removing from a sequence *)

\* d is q without some of its elements.
Left(d, q) ==
    /\ \A k \in DOMAIN d : \E i \in DOMAIN q : d[k] = q[i]
    /\ Named(q) => Named(d)

LEMMA LeftTransitive ==
    ASSUME NEW d, NEW c, NEW q, Left(d, c), Left(c, q)
    PROVE  Left(d, q)
  BY DEF Left

LEMMA PickedLeft ==
    ASSUME NEW S, NEW q \in Seq(S), NEW I \in SUBSET DOMAIN q
    PROVE  Picked(q, I) \in Seq(S) /\ Left(Picked(q, I), q)
  <1>1. /\ Picked(q, I) \in Seq(S)
        /\ \A k \in DOMAIN Picked(q, I) : \E i \in I : Picked(q, I)[k] = q[i]
    BY PickedType
  <1>2. Named(q) => Named(Picked(q, I))
    <2> SUFFICES ASSUME Named(q) PROVE Named(Picked(q, I))
      OBVIOUS
    <2>1. \A i, j \in DOMAIN q : q[i].id = q[j].id => i = j
      BY DEF Named
    <2>2. \A k, l \in DOMAIN Picked(q, I) : Picked(q, I)[k].id = Picked(q, I)[l].id => k = l
      BY <2>1, PickedApart
    <2> QED
      BY <2>2 DEF Named
  <1> QED
    BY <1>1, <1>2 DEF Left

\* Files or entries are removed by their names.
LEMMA WithoutLeft ==
    ASSUME NEW S, NEW q \in Seq(S), NEW ids
    PROVE  Without(q, ids) \in Seq(S) /\ Left(Without(q, ids), q)
  <1> DEFINE I == {i \in DOMAIN q : q[i].id \notin ids}
  <1>1. I \in SUBSET DOMAIN q /\ Without(q, ids) = Picked(q, I)
    BY DEF Without
  <1> HIDE DEF I
  <1> QED
    BY <1>1, PickedLeft

LEMMA BinsLeft ==
    ASSUME NEW S, NEW q \in Seq(S)
    PROVE  /\ Bins(q) \in Seq(S) /\ Left(Bins(q), q)
           /\ \A k \in DOMAIN Bins(q) : Bin(Bins(q)[k])
  <1> DEFINE I == {i \in DOMAIN q : Bin(q[i])}
  <1>1. I \in SUBSET DOMAIN q /\ Bins(q) = Picked(q, I)
    BY DEF Bins
  <1>2. \A i \in I : Bin(q[i])
    OBVIOUS
  <1> HIDE DEF I
  <1>3. \A k \in DOMAIN Picked(q, I) : \E i \in I : Picked(q, I)[k] = q[i]
    BY <1>1, PickedType
  <1> QED
    BY <1>1, <1>2, <1>3, PickedLeft

LEMMA ScannedDirLeft ==
    ASSUME NEW S, NEW q \in Seq(S), NEW e
    PROVE  ScannedDir(q, e) \in Seq(S) /\ Left(ScannedDir(q, e), q)
  <1> DEFINE I == {i \in DOMAIN q : q[i].tmp \/ q[i].id \in Ids(e) \/ q[i].state # "cut"}
  <1>1. I \in SUBSET DOMAIN q /\ ScannedDir(q, e) = Picked(q, I)
    BY DEF ScannedDir
  <1> HIDE DEF I
  <1> QED
    BY <1>1, PickedLeft

-----------------------------------------------------------------------------
(* Scans and evictions *)

LEMMA Smallest ==
    ASSUME NEW F \in SUBSET Nat, F # {}
    PROVE  \E n \in F : \A m \in F : n <= m
  <1>1. PICK n \in F : \A m \in F : <<m, n>> \notin OpToRel(<, Nat)
    BY NatLessThanWellFounded, WFMin, Zenon
  <1>2. \A m \in F : ~(m < n)
    BY <1>1 DEF OpToRel
  <1> QED
    BY <1>2

\* Elements at the end of q.
LEMMA Rest ==
    ASSUME NEW S, NEW q \in Seq(S), NEW n \in 0 .. Len(q)
    PROVE  /\ SubSeq(q, n + 1, Len(q)) \in Seq(S)
           /\ \A k \in DOMAIN SubSeq(q, n + 1, Len(q)) :
                 \E i \in DOMAIN q : SubSeq(q, n + 1, Len(q))[k] = q[i]
           /\ DOMAIN SubSeq(q, n + 1, Len(q)) = 1 .. Len(q) - n
           /\ \A k \in 1 .. Len(q) - n : SubSeq(q, n + 1, Len(q))[k] = q[n + k]
  <1>1. Len(q) \in Nat /\ n \in Nat /\ DOMAIN q = 1 .. Len(q) /\ n <= Len(q)
    BY LenProperties
  <1>2. /\ SubSeq(q, n + 1, Len(q)) \in Seq(S)
        /\ Len(SubSeq(q, n + 1, Len(q))) = Len(q) - n
        /\ \A k \in 1 .. Len(q) - n : SubSeq(q, n + 1, Len(q))[k] = q[n + 1 + k - 1]
    OBVIOUS
  <1>3. DOMAIN SubSeq(q, n + 1, Len(q)) = 1 .. Len(q) - n
    BY <1>2, LenProperties
  <1>4. ASSUME NEW k \in 1 .. Len(q) - n PROVE n + 1 + k - 1 \in DOMAIN q /\ n + 1 + k - 1 = n + k
    BY <1>1
  <1> QED
    BY <1>2, <1>3, <1>4

LEMMA FittingRest ==
    ASSUME NEW S, NEW e \in Seq(S), NEW total
    PROVE  /\ Fitting(e, total) \in Seq(S)
           /\ \A k \in DOMAIN Fitting(e, total) : \E i \in DOMAIN e : Fitting(e, total)[k] = e[i]
  <1> DEFINE fits == {n \in 0..Len(e) : Limit = 0 \/ n = Len(e)
                                          \/ Sum(SubSeq(e, n + 1, Len(e))) + total <= Limit}
             least == CHOOSE n \in fits : \A m \in fits : n <= m
  <1>1. Len(e) \in Nat
    BY LenProperties
  <1>2. fits \in SUBSET Nat /\ fits \in SUBSET (0 .. Len(e)) /\ Len(e) \in fits
    BY <1>1
  <1>3. Fitting(e, total) = SubSeq(e, least + 1, Len(e))
    BY DEF Fitting
  <1> HIDE DEF fits
  <1>4. \E n \in fits : \A m \in fits : n <= m
    BY <1>2, Smallest
  <1>5. least \in fits
    BY <1>4
  <1> HIDE DEF least
  <1> QED
    BY <1>2, <1>3, <1>5, Rest

\* An entry of an index is of a file of d, if it was not there before.
LEMMA ScannedEntries ==
    ASSUME NEW s \in Servers, NEW d \in Seq(FileRecords), NEW e \in Seq(EntryRecords)
    PROVE  /\ Scanned(s, d, e) \in Seq(EntryRecords)
           /\ \A k \in DOMAIN Scanned(s, d, e) :
                 \/ \E j \in DOMAIN e : Scanned(s, d, e)[k] = e[j]
                 \/ \E i \in DOMAIN d : Bin(d[i]) /\ Scanned(s, d, e)[k] = Entry(s, d[i])
  <1> DEFINE bins == Bins(ScannedDir(d, e))
             entry(i) == IF \E j \in DOMAIN e : e[j].id = bins[i].id
                         THEN e[CHOOSE j \in DOMAIN e : e[j].id = bins[i].id]
                         ELSE Entry(s, bins[i])
  <1>1. Scanned(s, d, e) = [i \in DOMAIN bins |-> entry(i)]
    BY DEF Scanned
  <1>2. ScannedDir(d, e) \in Seq(FileRecords) /\ Left(ScannedDir(d, e), d)
    BY ScannedDirLeft
  <1>3. /\ bins \in Seq(FileRecords) /\ Left(bins, ScannedDir(d, e))
        /\ \A k \in DOMAIN bins : Bin(bins[k])
    BY <1>2, BinsLeft
  <1> HIDE DEF bins
  <1>4. /\ DOMAIN bins = 1 .. Len(bins) /\ Len(bins) \in Nat
        /\ DOMAIN e = 1 .. Len(e) /\ Len(e) \in Nat
    BY <1>3, LenProperties
  <1>5. ASSUME NEW k \in DOMAIN bins
        PROVE  /\ \/ \E j \in DOMAIN e : entry(k) = e[j]
                  \/ \E i \in DOMAIN d : Bin(d[i]) /\ entry(k) = Entry(s, d[i])
               /\ entry(k) \in EntryRecords
    <2>1. CASE \E j \in DOMAIN e : e[j].id = bins[k].id
      <3> DEFINE at == CHOOSE j \in DOMAIN e : e[j].id = bins[k].id
      <3>1. at \in DOMAIN e /\ entry(k) = e[at]
        BY <2>1
      <3> HIDE DEF at, entry
      <3>2. e[at] \in EntryRecords
        BY <1>4, <3>1, ElementOfSeq
      <3> QED
        BY <3>1, <3>2
    <2>2. CASE ~\E j \in DOMAIN e : e[j].id = bins[k].id
      <3>1. entry(k) = Entry(s, bins[k])
        BY <2>2
      <3> HIDE DEF entry
      <3>2. Left(bins, d) /\ Bin(bins[k])
        BY <1>2, <1>3, LeftTransitive
      <3>3. PICK i \in DOMAIN d : bins[k] = d[i]
        BY <3>2 DEF Left
      <3>4. bins[k] \in FileRecords
        BY <1>3, <1>4, ElementOfSeq
      <3>5. Entry(s, bins[k]) \in EntryRecords
        BY <3>4 DEF FileRecords, EntryRecords, Entry
      <3> QED
        BY <3>1, <3>2, <3>3, <3>5
    <2> QED
      BY <2>1, <2>2
  <1> HIDE DEF entry
  <1>6. [i \in DOMAIN bins |-> entry(i)] \in Seq(EntryRecords)
    BY <1>4, <1>5
  <1> QED
    BY <1>1, <1>5, <1>6

\* What a scan and the eviction after it leave in the directory and in the index.
LEMMA ScanLeaves ==
    ASSUME NEW s \in Servers, NEW d \in Seq(FileRecords), NEW e \in Seq(EntryRecords), NEW total,
           entries \in [Servers -> Seq(EntryRecords)], ScanAndEvict(s, d, e, total)
    PROVE  /\ dir' \in Seq(FileRecords) /\ Left(dir', d)
           /\ entries' \in [Servers -> Seq(EntryRecords)]
           /\ \A t \in Servers \ {s} : entries'[t] = entries[t]
           /\ \A k \in DOMAIN entries'[s] :
                 \/ \E j \in DOMAIN e : entries'[s][k] = e[j]
                 \/ \E i \in DOMAIN d : Bin(d[i]) /\ entries'[s][k] = Entry(s, d[i])
  <1> DEFINE seen == Scanned(s, d, e)
             kept == Fitting(seen, total)
             gone == Ids(seen) \ Ids(kept)
  <1>1. /\ entries' = [entries EXCEPT ![s] = kept]
        /\ dir' = Without(ScannedDir(d, e), gone)
    BY DEF ScanAndEvict
  <1>2. /\ seen \in Seq(EntryRecords)
        /\ \A k \in DOMAIN seen :
              \/ \E j \in DOMAIN e : seen[k] = e[j]
              \/ \E i \in DOMAIN d : Bin(d[i]) /\ seen[k] = Entry(s, d[i])
    BY ScannedEntries
  <1> HIDE DEF seen, gone
  <1>3. /\ kept \in Seq(EntryRecords)
        /\ \A k \in DOMAIN kept : \E i \in DOMAIN seen : kept[k] = seen[i]
    BY <1>2, FittingRest
  <1>4. ScannedDir(d, e) \in Seq(FileRecords) /\ Left(ScannedDir(d, e), d)
    BY ScannedDirLeft
  <1>5. dir' \in Seq(FileRecords) /\ Left(dir', ScannedDir(d, e))
    BY <1>1, <1>4, WithoutLeft
  <1>6. Left(dir', d)
    BY <1>4, <1>5, LeftTransitive
  <1> HIDE DEF kept
  <1>7. /\ entries' \in [Servers -> Seq(EntryRecords)] /\ entries'[s] = kept
        /\ \A t \in Servers \ {s} : entries'[t] = entries[t]
    BY <1>1, <1>3
  <1> QED
    BY <1>2, <1>3, <1>5, <1>6, <1>7

-----------------------------------------------------------------------------
(* The steps of the disk tier *)

\* A step that adds no file, takes no name, and puts only true entries in an index.
Quiet ==
    /\ Left(dir', dir)
    /\ \A t \in Servers : \A k \in DOMAIN entries'[t] : TrueEntry(t, entries'[t][k])
    /\ \A t \in Servers : wpc'[t] \in {"written", "renamed"} =>
          wpc'[t] = wpc[t] /\ Head(todo'[t]) = Item(t)
    /\ \A t \in Servers : wpc'[t] # "begin" => todo'[t] # <<>>

LEMMA QuietKeeps ==
    ASSUME NameInv, Quiet
    PROVE  NameInv'
  <1>1. Named(dir')
    BY DEF Quiet, Left, NameInv
  <1>2. \A j \in DOMAIN dir' : \E i \in DOMAIN dir : dir'[j] = dir[i]
    BY DEF Quiet, Left
  <1>3. ASSUME NEW t \in Servers, wpc'[t] \in {"written", "renamed"}
        PROVE  Holds(t) /\ wpc'[t] = wpc[t] /\ Head(todo'[t]) = Item(t)
    BY <1>3 DEF Quiet, Holds
  <1>4. ASSUME NEW t \in Servers, Holds(t)' PROVE Own(t)'
    <2>1. Holds(t) /\ wpc'[t] = wpc[t] /\ Item(t)' = Item(t)
      BY <1>3, <1>4 DEF Holds, Item
    <2>2. Own(t)
      BY <2>1 DEF NameInv
    <2> QED
      BY <1>2, <2>1, <2>2 DEF Own
  <1>5. ASSUME NEW t \in Servers, NEW k \in DOMAIN entries'[t]
        PROVE  TrueEntry(t, entries[t][k])'
    <2> DEFINE e == entries'[t][k]
    <2>1. TrueEntry(t, e)
      BY DEF Quiet
    <2> HIDE DEF e
    <2>2. \A s \in Servers : wpc'[s] = "written" => Head(todo'[s]).id # e.id
      BY <1>3, <2>1 DEF TrueEntry
    <2>3. \A j \in DOMAIN dir' : dir'[j].id = e.id =>
             /\ Bin(dir'[j]) /\ e.prompt = dir'[j].prompt
             /\ e.match <=> dir'[j].key = Key[t]
      BY <1>2, <2>1 DEF TrueEntry
    <2> QED
      BY <2>2, <2>3 DEF TrueEntry, e, Item, Bin
  <1>6. \A s, t \in Servers : Holds(s)' /\ Holds(t)' /\ s # t => Item(s)'.id # Item(t)'.id
    BY <1>3 DEF NameInv, Holds, Item
  <1>7. \A s \in Servers : wpc'[s] # "begin" => Writing(s)'
    BY DEF Quiet, Writing
  <1>8. \A s \in Servers : Holds(s)' => Item(s)'.id \in FileIds
    BY <1>3 DEF NameInv, Holds, Item
  <1> QED
    BY <1>1, <1>4, <1>5, <1>6, <1>7, <1>8 DEF NameInv, Named, Holds

LEMMA LeftItself == ASSUME NEW q PROVE Left(q, q)
  BY DEF Left

\* An entry of a file that is not a ".tmp" file is true.
LEMMA EntryTrue ==
    ASSUME NameInv, NEW t \in Servers, NEW i \in DOMAIN dir, Bin(dir[i])
    PROVE  TrueEntry(t, Entry(t, dir[i]))
  <1> DEFINE e == Entry(t, dir[i])
  <1>1. e.id = dir[i].id /\ e.prompt = dir[i].prompt /\ (e.match <=> dir[i].key = Key[t])
    BY DEF Entry
  <1> HIDE DEF e
  <1>2. \A j \in DOMAIN dir : dir[j].id = e.id => j = i
    BY <1>1 DEF NameInv, Named
  <1>3. ASSUME NEW s \in Servers, wpc[s] = "written", Item(s).id = e.id PROVE FALSE
    <2>1. Holds(s)
      BY <1>3 DEF Holds
    <2>2. dir[i].tmp
      BY <1>1, <1>3, <2>1 DEF NameInv, Own
    <2> QED
      BY <2>2 DEF Bin
  <1> QED
    BY <1>1, <1>2, <1>3 DEF TrueEntry, e

\* What server s may do between two writes: take in new ones, and drop files and
\* entries.  The main thread and a read are no more than that to the directory.
Between(s) ==
    /\ ~Writing(s)
    /\ wpc' = wpc
    /\ \A t \in Servers \ {s} : todo'[t] = todo[t]
    /\ Left(dir', dir)
    /\ \A t \in Servers : \A k \in DOMAIN entries'[t] :
          \E j \in DOMAIN entries[t] : entries'[t][k] = entries[t][j]

LEMMA BetweenKeeps ==
    ASSUME NameInv, NEW s \in Servers, Between(s)
    PROVE  NameInv'
  <1>1. wpc[s] = "begin"
    BY DEF NameInv, Between
  <1>2. ASSUME NEW t \in Servers, wpc'[t] # "begin"
        PROVE  t # s /\ wpc'[t] = wpc[t] /\ todo'[t] = todo[t] /\ todo[t] # <<>>
    BY <1>1, <1>2 DEF NameInv, Between, Writing
  <1>3. \A t \in Servers : \A k \in DOMAIN entries'[t] : TrueEntry(t, entries'[t][k])
    BY DEF NameInv, Between
  <1>4. ASSUME NEW t \in Servers, wpc'[t] \in {"written", "renamed"}
        PROVE  wpc'[t] = wpc[t] /\ Head(todo'[t]) = Item(t)
    BY <1>2, <1>4 DEF Item
  <1> QED
    BY <1>2, <1>3, <1>4, QuietKeeps DEF Quiet, Between

\* A write is over, or its process: the next one begins anew.
LEMMA DoneTypes ==
    ASSUME DiskTypes, NEW s \in Servers, Writing(s), Done(s)
    PROVE  /\ todo' \in [Servers -> Seq(ItemRecords)]
           /\ wpc' \in [Servers -> {"begin", "room", "written", "renamed"}]
           /\ wpc'[s] = "begin"
           /\ \A t \in Servers \ {s} : todo'[t] = todo[t] /\ wpc'[t] = wpc[t]
  <1>1. Tail(todo[s]) \in Seq(ItemRecords)
    BY HeadTailProperties DEF DiskTypes, Writing
  <1> QED
    BY <1>1 DEF DiskTypes, Done

\* A step that ends a write of s.
LEMMA EndsKeeps ==
    ASSUME NameInv, NEW s \in Servers, wpc'[s] \in {"begin", "room"},
           wpc'[s] = "room" => todo'[s] # <<>>,
           \A t \in Servers \ {s} : todo'[t] = todo[t] /\ wpc'[t] = wpc[t],
           Left(dir', dir),
           \A t \in Servers : \A k \in DOMAIN entries'[t] : TrueEntry(t, entries'[t][k])
    PROVE  NameInv'
  <1>1. ASSUME NEW t \in Servers, wpc'[t] # "begin" PROVE todo'[t] # <<>>
    BY <1>1 DEF NameInv, Writing
  <1>2. ASSUME NEW t \in Servers, wpc'[t] \in {"written", "renamed"}
        PROVE  wpc'[t] = wpc[t] /\ Head(todo'[t]) = Item(t)
    BY <1>2 DEF Item
  <1> QED
    BY <1>1, <1>2, QuietKeeps DEF Quiet

\* A scan adds only entries of files that are there, and are not ".tmp" files.
LEMMA ScanKeeps ==
    ASSUME DiskTypes, NameInv, NEW s \in Servers, NEW d \in Seq(FileRecords), Left(d, dir),
           NEW e \in Seq(EntryRecords), \A k \in DOMAIN e : TrueEntry(s, e[k]), NEW total,
           ScanAndEvict(s, d, e, total)
    PROVE  /\ dir' \in Seq(FileRecords) /\ Left(dir', dir)
           /\ entries' \in [Servers -> Seq(EntryRecords)]
           /\ \A t \in Servers : \A k \in DOMAIN entries'[t] : TrueEntry(t, entries'[t][k])
  <1>1. /\ dir' \in Seq(FileRecords) /\ Left(dir', d)
        /\ entries' \in [Servers -> Seq(EntryRecords)]
        /\ \A t \in Servers \ {s} : entries'[t] = entries[t]
        /\ \A k \in DOMAIN entries'[s] :
              \/ \E j \in DOMAIN e : entries'[s][k] = e[j]
              \/ \E i \in DOMAIN d : Bin(d[i]) /\ entries'[s][k] = Entry(s, d[i])
    BY ScanLeaves DEF DiskTypes
  <1>2. ASSUME NEW k \in DOMAIN entries'[s] PROVE TrueEntry(s, entries'[s][k])
    <2>1. CASE \E j \in DOMAIN e : entries'[s][k] = e[j]
      BY <2>1
    <2>2. CASE \E i \in DOMAIN d : Bin(d[i]) /\ entries'[s][k] = Entry(s, d[i])
      <3>1. PICK i \in DOMAIN dir : Bin(dir[i]) /\ entries'[s][k] = Entry(s, dir[i])
        BY <2>2 DEF Left
      <3> QED
        BY <3>1, EntryTrue
    <2> QED
      BY <1>1, <2>1, <2>2
  <1>3. \A t \in Servers \ {s} : \A k \in DOMAIN entries'[t] : TrueEntry(t, entries'[t][k])
    BY <1>1 DEF NameInv
  <1> QED
    BY <1>1, <1>2, <1>3, LeftTransitive

LEMMA OpenKeeps ==
    ASSUME DiskTypes, NameInv, NEW s \in Servers, Open(s), UNCHANGED <<todo, wpc>>
    PROVE  DiskTypes' /\ NameInv' /\ s \in up'
  <1>1. PICK stale \in SUBSET {f \in {dir[i] : i \in DOMAIN dir} : f.tmp} :
               ScanAndEvict(s, Without(dir, {f.id : f \in stale}), <<>>, 0)
    BY DEF Open
  <1> DEFINE d == Without(dir, {f.id : f \in stale})
             none == <<>>
  <1>2. d \in Seq(FileRecords) /\ Left(d, dir)
    BY WithoutLeft DEF DiskTypes
  <1> HIDE DEF d
  <1>3. none \in Seq(EntryRecords) /\ \A k \in DOMAIN none : TrueEntry(s, none[k])
    OBVIOUS
  <1>4. ScanAndEvict(s, d, none, 0)
    BY <1>1 DEF d
  <1> HIDE DEF none
  <1>5. /\ dir' \in Seq(FileRecords) /\ Left(dir', dir)
        /\ entries' \in [Servers -> Seq(EntryRecords)]
        /\ \A t \in Servers : \A k \in DOMAIN entries'[t] : TrueEntry(t, entries'[t][k])
    BY <1>2, <1>3, <1>4, ScanKeeps
  <1>6. Quiet
    BY <1>5 DEF Quiet, NameInv, Writing, Item
  <1>7. up' \subseteq Servers /\ s \in up'
    BY DEF Open, DiskTypes
  <1> QED
    BY <1>5, <1>6, <1>7, QuietKeeps DEF DiskTypes

LEMMA MakeRoomKeeps ==
    ASSUME DiskTypes, NameInv, NEW s \in Servers, MakeRoom(s)
    PROVE  DiskTypes' /\ NameInv'
  <1>1. /\ ScanAndEvict(s, dir, entries[s], Size[Item(s).prompt])
        /\ todo[s] # <<>> /\ UNCHANGED <<up, todo>>
        /\ wpc' = [wpc EXCEPT ![s] = "room"]
    BY DEF MakeRoom, At, GoTo, Writing
  <1>2. /\ dir \in Seq(FileRecords) /\ entries[s] \in Seq(EntryRecords)
        /\ \A k \in DOMAIN entries[s] : TrueEntry(s, entries[s][k])
    BY DEF DiskTypes, NameInv
  <1>3. /\ dir' \in Seq(FileRecords) /\ Left(dir', dir)
        /\ entries' \in [Servers -> Seq(EntryRecords)]
        /\ \A t \in Servers : \A k \in DOMAIN entries'[t] : TrueEntry(t, entries'[t][k])
    BY <1>1, <1>2, LeftItself, ScanKeeps
  <1>4. /\ wpc' \in [Servers -> {"begin", "room", "written", "renamed"}]
        /\ wpc'[s] = "room" /\ todo'[s] # <<>>
        /\ \A t \in Servers \ {s} : todo'[t] = todo[t] /\ wpc'[t] = wpc[t]
    BY <1>1 DEF DiskTypes
  <1>5. NameInv'
    BY <1>3, <1>4, EndsKeeps
  <1> QED
    BY <1>1, <1>3, <1>4, <1>5 DEF DiskTypes

\* A write that ends without a change of the directory.
LEMMA WriteOverKeeps ==
    ASSUME DiskTypes, NameInv, NEW s \in Servers, WriteSkipped(s) \/ WriteFails(s)
    PROVE  DiskTypes' /\ NameInv'
  <1>1. Writing(s) /\ Done(s) /\ UNCHANGED <<dir, entries, up>>
    BY DEF WriteSkipped, WriteFails, At
  <1>2. /\ todo' \in [Servers -> Seq(ItemRecords)]
        /\ wpc' \in [Servers -> {"begin", "room", "written", "renamed"}]
        /\ wpc'[s] = "begin"
        /\ \A t \in Servers \ {s} : todo'[t] = todo[t] /\ wpc'[t] = wpc[t]
    BY <1>1, DoneTypes
  <1>3. \A t \in Servers : \A k \in DOMAIN entries'[t] : TrueEntry(t, entries'[t][k])
    BY <1>1 DEF NameInv
  <1>4. NameInv'
    BY <1>1, <1>2, <1>3, LeftItself, EndsKeeps
  <1> QED
    BY <1>1, <1>2, <1>4 DEF DiskTypes

LEMMA RenameFailsKeeps ==
    ASSUME DiskTypes, NameInv, NEW s \in Servers, RenameFails(s)
    PROVE  DiskTypes' /\ NameInv'
  <1>1. /\ Writing(s) /\ Done(s) /\ UNCHANGED <<entries, up>>
        /\ dir' = Without(dir, {Item(s).id})
    BY DEF RenameFails, At
  <1>2. /\ todo' \in [Servers -> Seq(ItemRecords)]
        /\ wpc' \in [Servers -> {"begin", "room", "written", "renamed"}]
        /\ wpc'[s] = "begin"
        /\ \A t \in Servers \ {s} : todo'[t] = todo[t] /\ wpc'[t] = wpc[t]
    BY <1>1, DoneTypes
  <1>3. \A t \in Servers : \A k \in DOMAIN entries'[t] : TrueEntry(t, entries'[t][k])
    BY <1>1 DEF NameInv
  <1>4. dir' \in Seq(FileRecords) /\ Left(dir', dir)
    BY <1>1, WithoutLeft DEF DiskTypes
  <1>5. NameInv'
    BY <1>2, <1>3, <1>4, EndsKeeps
  <1> QED
    BY <1>1, <1>2, <1>4, <1>5 DEF DiskTypes

NewFile(s) == [id |-> NewId, tmp |-> TRUE, key |-> Key[s], prompt |-> Item(s).prompt,
               state |-> "good"]

\* The name of the new file is of no file, no entry and no other write.
LEMMA WriteTmpAdds ==
    ASSUME DiskTypes, NameInv, NEW s \in Servers, WriteTmp(s)
    PROVE  /\ DiskTypes' /\ NewId \in FileIds
           /\ DOMAIN dir = 1 .. Len(dir) /\ Len(dir) \in Nat /\ DOMAIN dir' = 1 .. Len(dir) + 1
           /\ dir'[Len(dir) + 1] = NewFile(s) /\ \A i \in DOMAIN dir : dir'[i] = dir[i]
           /\ \A i \in DOMAIN dir : dir[i].id # NewId
           /\ \A t \in Servers : \A k \in DOMAIN entries[t] : entries[t][k].id # NewId
           /\ wpc'[s] = "written" /\ todo'[s] # <<>> /\ entries' = entries
           /\ Item(s)'.id = NewId /\ Item(s)'.prompt = Item(s).prompt
           /\ \A t \in Servers \ {s} :
                 /\ todo'[t] = todo[t] /\ wpc'[t] = wpc[t] /\ Item(t)' = Item(t)
                 /\ Holds(t) => Item(t).id # NewId
  <1> DEFINE new == NewFile(s)
             n == Len(dir)
  <1>1. /\ todo[s] # <<>> /\ FileIds \ Used # {}
        /\ dir' = Append(dir, new)
        /\ todo' = [todo EXCEPT ![s][1].id = NewId]
        /\ wpc' = [wpc EXCEPT ![s] = "written"]
        /\ UNCHANGED <<entries, up>>
    BY DEF WriteTmp, At, GoTo, Writing, NewFile
  <1>2. NewId \in FileIds /\ NewId \notin Used
    <2>1. FileIds \ Used \in SUBSET Nat
      BY DiskAssumption
    <2>2. \E i \in FileIds \ Used : \A j \in FileIds \ Used : i <= j
      BY <1>1, <2>1, Smallest
    <2> QED
      BY <2>2 DEF NewId
  <1>3. /\ todo[s] \in Seq(ItemRecords) /\ 1 \in DOMAIN todo[s]
        /\ Item(s) = todo[s][1] /\ Item(s) \in ItemRecords
    BY <1>1, HeadTailProperties, LenProperties, EmptySeq DEF DiskTypes, Item
  <1>4. /\ todo'[s] = [todo[s] EXCEPT ![1] = [Item(s) EXCEPT !.id = NewId]]
        /\ \A t \in Servers \ {s} : todo'[t] = todo[t] /\ wpc'[t] = wpc[t]
        /\ wpc'[s] = "written" /\ todo' \in [Servers -> {todo'[t] : t \in Servers}]
        /\ wpc' \in [Servers -> {"begin", "room", "written", "renamed"}]
    BY <1>1, <1>3 DEF DiskTypes
  <1>5. /\ [Item(s) EXCEPT !.id = NewId] \in ItemRecords
        /\ [Item(s) EXCEPT !.id = NewId].id = NewId
        /\ [Item(s) EXCEPT !.id = NewId].prompt = Item(s).prompt
    BY <1>2, <1>3 DEF ItemRecords
  <1>6. /\ todo'[s] \in Seq(ItemRecords) /\ todo'[s] # <<>>
        /\ Head(todo'[s]) = [Item(s) EXCEPT !.id = NewId]
    BY <1>3, <1>4, <1>5
  <1>7. new \in FileRecords
    BY <1>2, <1>3 DEF FileRecords, ItemRecords, NewFile
  <1> HIDE DEF new
  <1>8. /\ dir' \in Seq(FileRecords) /\ DOMAIN dir = 1 .. n /\ n \in Nat
        /\ DOMAIN dir' = 1 .. n + 1 /\ dir'[n + 1] = new
        /\ \A i \in 1 .. n : dir'[i] = dir[i]
    BY <1>1, <1>7, AppendProperties, LenProperties DEF DiskTypes
  <1>9. DiskTypes'
    BY <1>1, <1>4, <1>6, <1>8 DEF DiskTypes
  <1>10. /\ \A i \in 1 .. n : dir[i].id # NewId
         /\ \A t \in Servers : \A k \in DOMAIN entries[t] : entries[t][k].id # NewId
         /\ \A t \in Servers : \A k \in DOMAIN todo[t] : todo[t][k].id # NewId
    BY <1>2, <1>8 DEF Used, Ids
  <1>11. ASSUME NEW t \in Servers \ {s}
         PROVE  Item(t)' = Item(t) /\ (Holds(t) => Item(t).id # NewId)
    <2>1. Item(t)' = Item(t)
      BY <1>4 DEF Item
    <2>2. ASSUME Holds(t) PROVE Item(t).id # NewId
      <3>1. todo[t] \in Seq(ItemRecords) /\ todo[t] # <<>>
        BY <2>2 DEF NameInv, DiskTypes, Holds, Writing
      <3>2. 1 \in DOMAIN todo[t] /\ Item(t) = todo[t][1]
        BY <3>1, HeadTailProperties, LenProperties, EmptySeq DEF Item
      <3> QED
        BY <1>10, <3>2
    <2> QED
      BY <2>1, <2>2
  <1>12. Item(s)'.id = NewId /\ Item(s)'.prompt = Item(s).prompt
    BY <1>5, <1>6 DEF Item
  <1> QED
    BY <1>1, <1>2, <1>4, <1>6, <1>8, <1>9, <1>10, <1>11, <1>12 DEF new

LEMMA WriteTmpKeeps ==
    ASSUME DiskTypes, NameInv, NEW s \in Servers, WriteTmp(s)
    PROVE  DiskTypes' /\ NameInv'
  <1> DEFINE new == NewFile(s)
             n == Len(dir)
  <1>1. /\ DiskTypes' /\ NewId \in FileIds /\ entries' = entries
        /\ wpc'[s] = "written" /\ todo'[s] # <<>>
        /\ \A t \in Servers \ {s} : todo'[t] = todo[t] /\ wpc'[t] = wpc[t]
        /\ Item(s)'.id = NewId /\ Item(s)'.prompt = Item(s).prompt
    BY WriteTmpAdds
  <1>2. /\ DOMAIN dir = 1 .. n /\ n \in Nat /\ DOMAIN dir' = 1 .. n + 1
        /\ dir'[n + 1] = new /\ \A i \in 1 .. n : dir'[i] = dir[i]
    BY WriteTmpAdds
  <1>3. /\ \A i \in 1 .. n : dir[i].id # NewId
        /\ \A t \in Servers : \A k \in DOMAIN entries[t] : entries[t][k].id # NewId
    BY WriteTmpAdds
  <1>4. new.id = NewId /\ new.tmp /\ new.key = Key[s] /\ new.prompt = Item(s).prompt
    BY DEF NewFile
  <1> HIDE DEF new
  <1>5. ASSUME NEW t \in Servers, t # s, Holds(t)'
        PROVE  Holds(t) /\ Item(t)' = Item(t) /\ wpc'[t] = wpc[t] /\ Item(t).id # NewId
    BY <1>5, WriteTmpAdds DEF Holds
  <1>6. Named(dir)'
    <2>1. ASSUME NEW i \in 1 .. n + 1, NEW j \in 1 .. n + 1, dir'[i].id = dir'[j].id
          PROVE  i = j
      <3>1. \A m \in 1 .. n + 1 : m \in 1 .. n \/ m = n + 1
        BY <1>2
      <3>2. QED
        <4>1. \A l, m \in 1 .. n : dir[l].id = dir[m].id => l = m
          BY <1>2 DEF NameInv, Named
        <4>2. \A m \in 1 .. n : dir'[m].id = dir[m].id /\ dir'[m].id # dir'[n + 1].id
          BY <1>2, <1>3, <1>4
        <4> QED
          BY <2>1, <3>1, <4>1, <4>2
    <2> QED
      BY <1>2, <2>1 DEF Named
  <1>7. \A j \in DOMAIN dir' : j \in DOMAIN dir \/ dir'[j] = new
    BY <1>2
  <1>8. ASSUME NEW t \in Servers, Holds(t)' PROVE Own(t)'
    <2>1. CASE t = s
      <3>1. \A j \in DOMAIN dir' : dir'[j].id = NewId => dir'[j] = new
        BY <1>2, <1>3, <1>7
      <3> QED
        BY <1>1, <1>4, <2>1, <3>1 DEF Own
    <2>2. CASE t # s
      <3>1. Own(t)
        BY <1>5, <1>8, <2>2 DEF NameInv
      <3> QED
        BY <1>2, <1>4, <1>5, <1>7, <1>8, <2>2, <3>1 DEF Own
    <2> QED
      BY <2>1, <2>2
  <1>9. ASSUME NEW t \in Servers, NEW k \in DOMAIN entries[t]
         PROVE  TrueEntry(t, entries[t][k])'
    <2> DEFINE e == entries[t][k]
    <2>1. TrueEntry(t, e) /\ e.id # NewId /\ e' = e
      BY <1>1, <1>3 DEF NameInv
    <2> HIDE DEF e
    <2>2. ASSUME NEW u \in Servers, wpc'[u] = "written" PROVE Item(u)'.id # e.id
      <3>1. CASE u = s
        BY <1>1, <2>1, <3>1
      <3>2. CASE u # s
        BY <1>5, <2>1, <2>2, <3>2 DEF Holds, TrueEntry
      <3> QED
        BY <3>1, <3>2
    <2>3. \A j \in DOMAIN dir' : dir'[j].id = e.id =>
             Bin(dir'[j]) /\ e.prompt = dir'[j].prompt /\ (e.match <=> dir'[j].key = Key[t])
      BY <1>2, <1>4, <1>7, <2>1 DEF TrueEntry
    <2> QED
      BY <2>1, <2>2, <2>3 DEF TrueEntry, e, Bin
  <1>10. \A t, u \in Servers : Holds(t)' /\ Holds(u)' /\ t # u => Item(t)'.id # Item(u)'.id
    BY <1>1, <1>5 DEF NameInv
  <1>11. \A t \in Servers : wpc'[t] # "begin" => Writing(t)'
    BY <1>1 DEF NameInv, Writing
  <1>12. \A t \in Servers : Holds(t)' => Item(t)'.id \in FileIds
    BY <1>1, <1>5 DEF NameInv
  <1> QED
    BY <1>1, <1>6, <1>8, <1>9, <1>10, <1>11, <1>12 DEF NameInv, Holds

\* The file keeps its name: it is now what the name stands for.
LEMMA RenameKeeps ==
    ASSUME DiskTypes, NameInv, NEW s \in Servers, Rename(s)
    PROVE  DiskTypes' /\ NameInv'
  <1> DEFINE file(i) == IF dir[i].id = Item(s).id THEN [dir[i] EXCEPT !.tmp = FALSE] ELSE dir[i]
  <1>1. /\ wpc[s] = "written" /\ todo[s] # <<>>
        /\ dir' = [i \in DOMAIN dir |-> file(i)]
        /\ wpc' = [wpc EXCEPT ![s] = "renamed"]
        /\ UNCHANGED <<entries, up, todo>>
    BY DEF Rename, At, GoTo, Writing
  <1>2. DOMAIN dir = 1 .. Len(dir) /\ Len(dir) \in Nat
    BY LenProperties DEF DiskTypes
  <1>3. ASSUME NEW i \in DOMAIN dir
        PROVE  /\ file(i) \in FileRecords /\ file(i).id = dir[i].id
               /\ file(i).key = dir[i].key /\ file(i).prompt = dir[i].prompt
               /\ dir[i].id # Item(s).id => file(i) = dir[i]
               /\ dir[i].id = Item(s).id => ~file(i).tmp
    <2>1. dir[i] \in FileRecords
      BY <1>2, ElementOfSeq DEF DiskTypes
    <2> QED
      BY <2>1 DEF FileRecords
  <1> HIDE DEF file
  <1>4. /\ DOMAIN dir' = DOMAIN dir /\ dir' \in Seq(FileRecords)
        /\ \A i \in DOMAIN dir : dir'[i] = file(i)
    BY <1>1, <1>2, <1>3
  <1>5. /\ wpc'[s] = "renamed" /\ \A t \in Servers \ {s} : wpc'[t] = wpc[t]
        /\ wpc' \in [Servers -> {"begin", "room", "written", "renamed"}]
        /\ \A t \in Servers : Item(t)' = Item(t)
    BY <1>1 DEF DiskTypes, Item
  <1>6. Holds(s) /\ \A t \in Servers : Holds(t)' <=> Holds(t)
    BY <1>1, <1>5 DEF Holds
  <1>7. DiskTypes'
    BY <1>1, <1>4, <1>5 DEF DiskTypes
  <1>8. Named(dir)'
    BY <1>3, <1>4 DEF NameInv, Named
  <1>9. ASSUME NEW t \in Servers, Holds(t)' PROVE Own(t)'
    <2>1. Holds(t) /\ Own(t)
      BY <1>6, <1>9 DEF NameInv
    <2>2. CASE t = s
      BY <1>3, <1>4, <1>5, <2>1, <2>2 DEF Own
    <2>3. CASE t # s
      <3>1. Item(t).id # Item(s).id /\ wpc'[t] = wpc[t]
        BY <1>5, <1>6, <2>1, <2>3 DEF NameInv
      <3> QED
        BY <1>3, <1>4, <1>5, <2>1, <3>1 DEF Own
    <2> QED
      BY <2>2, <2>3
  <1>10. ASSUME NEW t \in Servers, NEW k \in DOMAIN entries[t]
         PROVE  TrueEntry(t, entries[t][k])'
    <2> DEFINE e == entries[t][k]
    <2>1. TrueEntry(t, e) /\ e' = e
      BY <1>1 DEF NameInv
    <2> HIDE DEF e
    <2>2. e.id # Item(s).id
      BY <1>1, <2>1 DEF TrueEntry
    <2>3. \A u \in Servers : wpc'[u] = "written" => wpc[u] = "written"
      BY <1>5
    <2> QED
      BY <1>3, <1>4, <1>5, <2>1, <2>2, <2>3 DEF TrueEntry, e, Bin
  <1> QED
    BY <1>1, <1>5, <1>6, <1>7, <1>8, <1>9, <1>10 DEF NameInv, Writing

LEMMA SupersedeKeeps ==
    ASSUME DiskTypes, NameInv, NEW s \in Servers, Supersede(s)
    PROVE  DiskTypes' /\ NameInv'
  <1> DEFINE p    == Item(s).prompt
             old  == {e \in {entries[s][i] : i \in DOMAIN entries[s]} :
                        e.match /\ Contains(p, e.prompt)}
             ids  == {e.id : e \in old}
             new  == [id |-> Item(s).id, prompt |-> p, match |-> TRUE]
             rest == Without(entries[s], ids)
  <1>1. /\ wpc[s] = "renamed" /\ Writing(s) /\ Done(s) /\ UNCHANGED up
        /\ dir' = Without(dir, ids)
        /\ entries' = [entries EXCEPT ![s] = Append(rest, new)]
    BY DEF Supersede, At
  <1>2. Item(s) \in ItemRecords
    BY <1>1, HeadTailProperties DEF DiskTypes, Writing, Item
  <1>3. Holds(s) /\ Own(s)
    BY <1>1 DEF NameInv, Holds
  <1>4. TrueEntry(s, new)
    <2>1. ASSUME NEW u \in Servers, wpc[u] = "written" PROVE Item(u).id # Item(s).id
      BY <1>1, <1>3, <2>1 DEF NameInv, Holds
    <2> QED
      BY <1>1, <1>3, <2>1 DEF TrueEntry, Own, Bin
  <1>5. /\ dir' \in Seq(FileRecords) /\ Left(dir', dir)
        /\ rest \in Seq(EntryRecords) /\ Left(rest, entries[s])
    <2> HIDE DEF ids
    <2> QED
      BY <1>1, WithoutLeft DEF DiskTypes
  <1>6. new \in EntryRecords
    BY <1>2, <1>3 DEF EntryRecords, ItemRecords, NameInv
  <1> HIDE DEF new, rest
  <1>7. /\ Append(rest, new) \in Seq(EntryRecords)
        /\ \A k \in DOMAIN Append(rest, new) :
              (k \in DOMAIN rest /\ Append(rest, new)[k] = rest[k]) \/ Append(rest, new)[k] = new
    BY <1>5, <1>6, AppendProperties, LenProperties
  <1>8. /\ entries' \in [Servers -> Seq(EntryRecords)]
        /\ entries'[s] = Append(rest, new)
        /\ \A t \in Servers \ {s} : entries'[t] = entries[t]
    BY <1>1, <1>7 DEF DiskTypes
  <1>9. \A k \in DOMAIN rest : TrueEntry(s, rest[k])
    BY <1>5 DEF Left, NameInv
  <1>10. \A k \in DOMAIN entries'[s] : TrueEntry(s, entries'[s][k])
    BY <1>4, <1>7, <1>8, <1>9
  <1>11. \A t \in Servers : \A k \in DOMAIN entries'[t] : TrueEntry(t, entries'[t][k])
    BY <1>8, <1>10 DEF NameInv
  <1>12. /\ todo' \in [Servers -> Seq(ItemRecords)]
         /\ wpc' \in [Servers -> {"begin", "room", "written", "renamed"}]
         /\ wpc'[s] = "begin"
         /\ \A t \in Servers \ {s} : todo'[t] = todo[t] /\ wpc'[t] = wpc[t]
    BY <1>1, DoneTypes
  <1>13. NameInv'
    BY <1>5, <1>11, <1>12, EndsKeeps
  <1> QED
    BY <1>1, <1>5, <1>8, <1>12, <1>13 DEF DiskTypes

LEMMA WriteKeeps ==
    ASSUME DiskTypes, NameInv, NEW s \in Servers, Write(s)
    PROVE  DiskTypes' /\ NameInv' /\ up' = up
  <1>1. DiskTypes' /\ NameInv'
    BY WriteOverKeeps, MakeRoomKeeps, WriteTmpKeeps, RenameKeeps, RenameFailsKeeps,
       SupersedeKeeps DEF Write
  <1>2. up' = up
    BY DEF Write, WriteSkipped, WriteFails, MakeRoom, WriteTmp, Rename, RenameFails, Supersede
  <1> QED
    BY <1>1, <1>2

LEMMA CrashKeeps ==
    ASSUME DiskTypes, NameInv, NEW s \in Servers, Crash(s)
    PROVE  DiskTypes' /\ NameInv' /\ up' = up \ {s}
  <1>1. /\ up' = up \ {s}
        /\ dir' = IF wpc[s] = "written" THEN Without(dir, {Item(s).id}) ELSE dir
        /\ todo' = [todo EXCEPT ![s] = <<>>]
        /\ wpc' = [wpc EXCEPT ![s] = "begin"]
        /\ entries' = [entries EXCEPT ![s] = <<>>]
    BY DEF Crash
  <1>2. dir' \in Seq(FileRecords) /\ Left(dir', dir)
    BY <1>1, WithoutLeft, LeftItself DEF DiskTypes
  <1>3. /\ todo' \in [Servers -> Seq(ItemRecords)] /\ entries' \in [Servers -> Seq(EntryRecords)]
        /\ wpc' \in [Servers -> {"begin", "room", "written", "renamed"}]
        /\ wpc'[s] = "begin" /\ entries'[s] = <<>>
        /\ \A t \in Servers \ {s} : /\ todo'[t] = todo[t] /\ wpc'[t] = wpc[t]
                                    /\ entries'[t] = entries[t]
    BY <1>1 DEF DiskTypes
  <1>4. \A t \in Servers : \A k \in DOMAIN entries'[t] : TrueEntry(t, entries'[t][k])
    <2>1. \A t \in Servers \ {s} : \A k \in DOMAIN entries'[t] : TrueEntry(t, entries'[t][k])
      BY <1>3 DEF NameInv
    <2>2. DOMAIN entries'[s] = {}
      BY <1>3
    <2> QED
      BY <2>1, <2>2
  <1>5. NameInv'
    BY <1>2, <1>3, <1>4, EndsKeeps
  <1> QED
    BY <1>1, <1>2, <1>3, <1>5 DEF DiskTypes

\* What a read that fails removes.
LEMMA ReadLeaves ==
    ASSUME DiskTypes, NEW s \in Servers, NEW e, ReadGone(s, e) \/ ReadBad(s, e)
    PROVE  /\ dir' \in Seq(FileRecords) /\ Left(dir', dir)
           /\ entries' \in [Servers -> Seq(EntryRecords)]
           /\ \A t \in Servers : \A k \in DOMAIN entries'[t] :
                 \E j \in DOMAIN entries[t] : entries'[t][k] = entries[t][j]
  <1>1. /\ entries' = [entries EXCEPT ![s] = Without(entries[s], {e.id})]
        /\ dir' = dir \/ dir' = Without(dir, {e.id})
    BY DEF ReadGone, ReadBad
  <1>2. /\ dir' \in Seq(FileRecords) /\ Left(dir', dir)
        /\ Without(entries[s], {e.id}) \in Seq(EntryRecords)
        /\ Left(Without(entries[s], {e.id}), entries[s])
    BY <1>1, WithoutLeft, LeftItself DEF DiskTypes
  <1>3. /\ entries' \in [Servers -> Seq(EntryRecords)]
        /\ entries'[s] = Without(entries[s], {e.id})
        /\ \A t \in Servers \ {s} : entries'[t] = entries[t]
    BY <1>1, <1>2 DEF DiskTypes
  <1>4. \A k \in DOMAIN entries'[s] : \E j \in DOMAIN entries[s] : entries'[s][k] = entries[s][j]
    BY <1>2, <1>3 DEF Left
  <1>5. \A t \in Servers \ {s} : \A k \in DOMAIN entries'[t] :
              \E j \in DOMAIN entries[t] : entries'[t][k] = entries[t][j]
    BY <1>3
  <1> QED
    BY <1>2, <1>3, <1>4, <1>5

LEMMA NeighbourKeeps ==
    ASSUME DiskTypes, NameInv, NEW s \in Servers \ {Self}, Neighbour(s)
    PROVE  DiskTypes' /\ NameInv' /\ UNCHANGED cvars /\ (Self \in up' <=> Self \in up)
  <1>0. UNCHANGED cvars
    BY DEF Neighbour
  <1>1. CASE Open(s) /\ UNCHANGED <<todo, wpc>>
    BY <1>0, <1>1, OpenKeeps DEF Open
  <1>2. CASE Crash(s)
    BY <1>0, <1>2, CrashKeeps
  <1>3. CASE Write(s)
    BY <1>0, <1>3, WriteKeeps
  <1>4. ASSUME ~Writing(s), NEW p \in Spilled,
               todo' = [todo EXCEPT ![s] = <<[id |-> NoFile, prompt |-> p]>>],
               UNCHANGED <<dir, entries, up, wpc>>
        PROVE  DiskTypes' /\ NameInv'
    <2>1. [id |-> NoFile, prompt |-> p] \in ItemRecords
      BY CacheAssumption DEF ItemRecords
    <2>2. todo' \in [Servers -> Seq(ItemRecords)]
      BY <1>4, <2>1 DEF DiskTypes
    <2>3. Between(s)
      BY <1>4, LeftItself DEF Between, DiskTypes
    <2> QED
      BY <1>4, <2>2, <2>3, BetweenKeeps DEF DiskTypes
  <1>5. ASSUME ~Writing(s), NEW e, ReadGone(s, e) \/ ReadBad(s, e), UNCHANGED <<up, todo, wpc>>
        PROVE  DiskTypes' /\ NameInv'
    <2>1. /\ dir' \in Seq(FileRecords) /\ entries' \in [Servers -> Seq(EntryRecords)]
          /\ Between(s)
      BY <1>5, ReadLeaves DEF Between
    <2> QED
      BY <1>5, <2>1, BetweenKeeps DEF DiskTypes
  <1> QED
    BY <1>0, <1>1, <1>2, <1>3, <1>4, <1>5 DEF Neighbour

-----------------------------------------------------------------------------
(* The steps of the main thread *)

\* A step of the main thread that leaves files and indexes as they are.
LEMMA QuietMain ==
    ASSUME DiskTypes, NameInv, ~Writing(Self),
           todo' \in [Servers -> Seq(ItemRecords)],
           \A t \in Servers \ {Self} : todo'[t] = todo[t],
           UNCHANGED <<dir, entries, up, wpc>>
    PROVE  DiskTypes' /\ NameInv'
  <1>1. Between(Self)
    BY LeftItself DEF Between
  <1> QED
    BY <1>1, CacheAssumption, BetweenKeeps DEF DiskTypes

LEMMA SpillTypes ==
    ASSUME DiskTypes, NEW q \in Seq(StateRecords), Spill(q)
    PROVE  /\ todo' \in [Servers -> Seq(ItemRecords)]
           /\ \A t \in Servers \ {Self} : todo'[t] = todo[t]
           /\ \A k \in DOMAIN q : q[k].main =>
                 \E i \in DOMAIN todo'[Self] : todo'[Self][i].prompt = q[k].prompt
  <1> DEFINE I == {i \in DOMAIN q : q[i].main}
             data == Picked(q, I)
             items == [i \in DOMAIN data |-> [id |-> NoFile, prompt |-> data[i].prompt]]
  <1>1. todo' = [todo EXCEPT ![Self] = items]
    BY DEF Spill
  <1>2. I \in SUBSET DOMAIN q /\ \A k \in DOMAIN q : q[k].main => k \in I
    OBVIOUS
  <1> HIDE DEF I
  <1>3. /\ data \in Seq(StateRecords)
        /\ \A i \in I : \E k \in DOMAIN data : data[k] = q[i]
    BY <1>2, PickedType
  <1> HIDE DEF data
  <1>4. DOMAIN data = 1 .. Len(data) /\ Len(data) \in Nat
    BY <1>3, LenProperties
  <1>5. ASSUME NEW i \in DOMAIN data
        PROVE  [id |-> NoFile, prompt |-> data[i].prompt] \in ItemRecords
    <2>1. data[i] \in StateRecords
      BY <1>3, <1>4, ElementOfSeq
    <2> QED
      BY <2>1 DEF StateRecords, ItemRecords
  <1>6. items \in Seq(ItemRecords) /\ DOMAIN items = DOMAIN data
    BY <1>4, <1>5
  <1>7. \A i \in DOMAIN data : items[i].prompt = data[i].prompt
    OBVIOUS
  <1> HIDE DEF items
  <1>8. /\ todo' \in [Servers -> Seq(ItemRecords)] /\ todo'[Self] = items
        /\ \A t \in Servers \ {Self} : todo'[t] = todo[t]
    BY <1>1, <1>6, CacheAssumption DEF DiskTypes
  <1>9. ASSUME NEW k \in DOMAIN q, q[k].main
        PROVE  \E i \in DOMAIN items : items[i].prompt = q[k].prompt
    <2>1. PICK i \in DOMAIN data : data[i] = q[k]
      BY <1>2, <1>3, <1>9
    <2> QED
      BY <1>6, <1>7, <2>1
  <1> QED
    BY <1>8, <1>9

\* The state of a slot.
LEMMA StateType ==
    ASSUME CacheTypes, NEW i \in Slots, slot[i].prompt # <<>>
    PROVE  /\ State(i) \in StateRecords /\ State(i).main
           /\ <<State(i)>> \in Seq(StateRecords) /\ Len(<<State(i)>>) = 1
           /\ \A k \in DOMAIN <<State(i)>> : <<State(i)>>[k] = State(i)
  <1>1. slot[i].prompt \in Prompts
    BY DEF CacheTypes
  <1>2. State(i) \in StateRecords /\ State(i).main
    BY <1>1 DEF StateRecords, State
  <1> QED
    BY <1>2

LEMMA SaveInRamTypes ==
    ASSUME DiskTypes, CacheTypes, NEW i \in Slots, slot[i].prompt # <<>>, SaveInRam(i)
    PROVE  /\ todo' \in [Servers -> Seq(ItemRecords)]
           /\ \A t \in Servers \ {Self} : todo'[t] = todo[t]
           /\ states' \in Seq(StateRecords) /\ UNCHANGED staging
  <1> DEFINE new  == Size[slot[i].prompt]
             I    == {j \in DOMAIN states : ~Contains(slot[i].prompt, states[j].prompt)}
             rest == Picked(states, I)
             fits == {n \in 0..Len(rest) : n = Len(rest)
                         \/ Sum(SubSeq(rest, n + 1, Len(rest))) + new <= RamLimit}
             n    == CHOOSE m \in fits : \A l \in fits : m <= l
  <1>1. /\ Spill(SubSeq(rest, 1, n))
        /\ states' = Append(SubSeq(rest, n + 1, Len(rest)), State(i))
        /\ UNCHANGED staging
    BY DEF SaveInRam
  <1>2. I \in SUBSET DOMAIN states
    OBVIOUS
  <1> HIDE DEF I
  <1>3. rest \in Seq(StateRecords)
    BY <1>2, PickedType DEF CacheTypes
  <1> HIDE DEF rest
  <1>4. Len(rest) \in Nat
    BY <1>3, LenProperties
  <1>5. fits \in SUBSET Nat /\ fits \in SUBSET (0 .. Len(rest)) /\ Len(rest) \in fits
    BY <1>4
  <1> HIDE DEF fits
  <1>6. \E m \in fits : \A l \in fits : m <= l
    BY <1>5, Smallest
  <1>7. n \in fits
    BY <1>6
  <1> HIDE DEF n
  <1>8. n \in 0 .. Len(rest)
    BY <1>5, <1>7
  <1>9. SubSeq(rest, 1, n) \in Seq(StateRecords)
    BY <1>3, <1>4, <1>8
  <1>10. SubSeq(rest, n + 1, Len(rest)) \in Seq(StateRecords)
    BY <1>3, <1>8, Rest
  <1>11. State(i) \in StateRecords
    BY StateType
  <1>12. states' \in Seq(StateRecords)
    BY <1>1, <1>10, <1>11, AppendProperties
  <1> QED
    BY <1>1, <1>9, <1>12, SpillTypes

\* prompt_save(): what is staged has its main part.
LEMMA SaveTypes ==
    ASSUME DiskTypes, CacheTypes, StageInv, NEW i \in Slots, prompt_save(i)
    PROVE  /\ todo' \in [Servers -> Seq(ItemRecords)]
           /\ \A t \in Servers \ {Self} : todo'[t] = todo[t]
           /\ states' \in Seq(StateRecords)
           /\ staging' \in Seq(StateRecords) /\ Len(staging') <= 1
           /\ \A k \in DOMAIN staging' : staging'[k].main
  <1>1. CASE UNCHANGED <<states, staging, todo>>
    BY <1>1 DEF DiskTypes, CacheTypes, StageInv
  <1>2. CASE slot[i].prompt # <<>> /\ Stage(i)
    <2>1. /\ staging' = <<State(i)>> /\ UNCHANGED <<states, todo>>
      BY <1>2 DEF Stage
    <2>2. /\ State(i).main /\ <<State(i)>> \in Seq(StateRecords) /\ Len(<<State(i)>>) = 1
          /\ \A k \in DOMAIN <<State(i)>> : <<State(i)>>[k] = State(i)
      BY <1>2, StateType
    <2>3. staging' \in Seq(StateRecords) /\ Len(staging') <= 1
      BY <2>1, <2>2
    <2>4. \A k \in DOMAIN staging' : staging'[k].main
      BY <2>1, <2>2
    <2> QED
      BY <2>1, <2>3, <2>4 DEF DiskTypes, CacheTypes
  <1>3. CASE slot[i].prompt # <<>> /\ SaveInRam(i)
    BY <1>3, SaveInRamTypes DEF CacheTypes, StageInv
  <1> QED
    BY <1>1, <1>2, <1>3 DEF prompt_save

LEMMA SaveIdleTypes ==
    ASSUME DiskTypes, CacheTypes, NEW i \in Slots, SaveIdle(i)
    PROVE  /\ todo' \in [Servers -> Seq(ItemRecords)]
           /\ \A t \in Servers \ {Self} : todo'[t] = todo[t]
           /\ states' \in Seq(StateRecords) /\ UNCHANGED staging
  <1>1. CASE UNCHANGED <<states, staging, todo>>
    BY <1>1 DEF DiskTypes, CacheTypes
  <1>2. CASE slot[i].prompt # <<>> /\ Spill(<<State(i)>>) /\ UNCHANGED <<states, staging>>
    <2>1. <<State(i)>> \in Seq(StateRecords)
      BY <1>2, StateType
    <2> QED
      BY <1>2, <2>1, SpillTypes DEF CacheTypes
  <1>3. CASE slot[i].prompt # <<>> /\ SaveInRam(i)
    BY <1>3, SaveInRamTypes
  <1> QED
    BY <1>1, <1>2, <1>3 DEF SaveIdle

LEMMA Together ==
    ASSUME DiskTypes', CacheTypes', NameInv', StageInv', SavingInv', NothingWrongRestored'
    PROVE  IInv'
  BY TypesSplitNext DEF IInv

LEMMA ClearSlotKeeps ==
    ASSUME IInv, NEW i \in Slots, ClearSlot(i)
    PROVE  IInv'
  <1>1. /\ Main("serving") /\ slot' = [slot EXCEPT ![i] = Empty]
        /\ UNCHANGED <<dir, entries, up, todo, wpc, states, staging, pc, ret, want, saving>>
    BY DEF ClearSlot, dvars
  <1>2. DiskTypes /\ CacheTypes /\ NameInv
    BY TypesSplit DEF IInv
  <1>3. DiskTypes' /\ NameInv'
    BY <1>1, <1>2, QuietMain DEF Main, DiskTypes
  <1>4. CacheTypes'
    BY <1>1, <1>2 DEF CacheTypes, Empty
  <1>5. StageInv' /\ SavingInv' /\ NothingWrongRestored'
    BY <1>1, <1>2 DEF IInv, StageInv, SavingInv, NothingWrongRestored, CacheTypes, Empty
  <1> QED
    BY <1>3, <1>4, <1>5, Together

LEMMA SelectSlotKeeps ==
    ASSUME IInv, NEW i \in Slots, NEW p \in Prompts, SelectSlot(i, p)
    PROVE  IInv'
  <1>1. /\ Main("serving") /\ ret' = i /\ want' = p /\ prompt_save(i) /\ pc' = "load"
        /\ UNCHANGED <<dir, entries, up, wpc, slot, saving>>
    BY DEF SelectSlot
  <1>2. DiskTypes /\ CacheTypes /\ NameInv /\ StageInv
    BY TypesSplit DEF IInv
  <1>3. /\ todo' \in [Servers -> Seq(ItemRecords)]
        /\ \A t \in Servers \ {Self} : todo'[t] = todo[t]
        /\ states' \in Seq(StateRecords)
        /\ staging' \in Seq(StateRecords) /\ Len(staging') <= 1
        /\ \A k \in DOMAIN staging' : staging'[k].main
    BY <1>1, <1>2, SaveTypes
  <1>4. DiskTypes' /\ NameInv'
    BY <1>1, <1>2, <1>3, QuietMain DEF Main
  <1>5. CacheTypes'
    BY <1>1, <1>2, <1>3 DEF CacheTypes, Main
  <1>6. StageInv' /\ SavingInv' /\ NothingWrongRestored'
    BY <1>1, <1>3 DEF IInv, StageInv, SavingInv, NothingWrongRestored, Main
  <1> QED
    BY <1>4, <1>5, <1>6, Together

LEMMA LaunchedTypes ==
    ASSUME CacheTypes, NEW i \in Slots, Launched(i)
    PROVE  /\ pc' \in {"serving", "idle"} /\ ret' \in Slots /\ want' = <<>>
  <1>1. 1 \in Slots
    BY CacheAssumption DEF Slots
  <1> QED
    BY <1>1 DEF Launched

LEMMA ContinueKeeps ==
    ASSUME IInv, NEW i \in Slots, NEW p \in Prompts, Continue(i, p)
    PROVE  IInv'
  <1>1. /\ Main("serving") /\ slot' = [slot EXCEPT ![i].prompt = p] /\ Launched(i)
        /\ UNCHANGED <<dir, entries, up, todo, wpc, states, staging, saving>>
    BY DEF Continue, dvars
  <1>2. DiskTypes /\ CacheTypes /\ NameInv
    BY TypesSplit DEF IInv
  <1>3. DiskTypes' /\ NameInv'
    BY <1>1, <1>2, QuietMain DEF Main, DiskTypes
  <1>4. pc' \in {"serving", "idle"} /\ ret' \in Slots /\ want' = <<>>
    BY <1>1, <1>2, LaunchedTypes
  <1>5. CacheTypes'
    BY <1>1, <1>2, <1>4 DEF CacheTypes, Main
  <1>6. \A j \in Slots : slot'[j].wrong = slot[j].wrong
    BY <1>1, <1>2 DEF CacheTypes
  <1>7. StageInv' /\ SavingInv' /\ NothingWrongRestored'
    BY <1>1, <1>4, <1>6 DEF IInv, StageInv, SavingInv, NothingWrongRestored, Main
  <1> QED
    BY <1>3, <1>5, <1>7, Together

\* The slot goes on from what is not wrong.
LEMMA ProceedTypes ==
    ASSUME IInv, Main("load"), NEW from, from.wrong = FALSE, Proceed(from),
           states' \in Seq(StateRecords)
    PROVE  /\ todo' \in [Servers -> Seq(ItemRecords)]
           /\ \A t \in Servers \ {Self} : todo'[t] = todo[t]
           /\ CacheTypes' /\ StageInv' /\ SavingInv' /\ NothingWrongRestored'
           /\ UNCHANGED <<up, wpc>>
  <1> DEFINE new == [prompt |-> want,
                     wrong |-> from.wrong /\ common_prefix(from.prompt, want) # 0]
  <1>1. /\ slot' = [slot EXCEPT ![ret] = new] /\ Spill(staging) /\ staging' = <<>>
        /\ Launched(ret) /\ UNCHANGED <<up, wpc, saving>>
    BY DEF Proceed
  <1>2. DiskTypes /\ CacheTypes
    BY TypesSplit DEF IInv
  <1>3. new = [prompt |-> want, wrong |-> FALSE]
    <2>1. (from.wrong /\ common_prefix(from.prompt, want) # 0) = FALSE
      BY Zenon
    <2> QED
      BY <2>1
  <1> HIDE DEF new
  <1>4. /\ slot' \in [Slots -> [prompt : Prompts \cup {<<>>}, wrong : BOOLEAN]]
        /\ \A j \in Slots : slot'[j].wrong = FALSE \/ slot'[j] = slot[j]
    BY <1>1, <1>2, <1>3 DEF CacheTypes
  <1>5. pc' \in {"serving", "idle"} /\ ret' \in Slots /\ want' = <<>>
    BY <1>1, <1>2, LaunchedTypes DEF CacheTypes
  <1>6. /\ todo' \in [Servers -> Seq(ItemRecords)]
        /\ \A t \in Servers \ {Self} : todo'[t] = todo[t]
    BY <1>1, <1>2, SpillTypes DEF CacheTypes
  <1>7. CacheTypes'
    BY <1>1, <1>2, <1>4, <1>5 DEF CacheTypes, Main
  <1>8. StageInv' /\ SavingInv'
    BY <1>1, <1>5 DEF IInv, StageInv, SavingInv, Main
  <1>9. NothingWrongRestored'
    BY <1>4 DEF IInv, NothingWrongRestored
  <1> QED
    BY <1>1, <1>6, <1>7, <1>8, <1>9

LEMMA LoadNothingKeeps ==
    ASSUME IInv, LoadNothing
    PROVE  IInv'
  <1>1. /\ Main("load") /\ Proceed(slot[ret]) /\ UNCHANGED <<dir, entries, states>>
    BY DEF LoadNothing
  <1>2. DiskTypes /\ CacheTypes /\ NameInv
    BY TypesSplit DEF IInv
  <1>3. slot[ret].wrong = FALSE
    BY <1>2 DEF CacheTypes, IInv, NothingWrongRestored
  <1>4. /\ todo' \in [Servers -> Seq(ItemRecords)]
        /\ \A t \in Servers \ {Self} : todo'[t] = todo[t]
        /\ CacheTypes' /\ StageInv' /\ SavingInv' /\ NothingWrongRestored'
        /\ UNCHANGED <<up, wpc>>
    BY <1>1, <1>2, <1>3, ProceedTypes DEF CacheTypes
  <1>5. DiskTypes' /\ NameInv'
    BY <1>1, <1>2, <1>4, QuietMain DEF Main
  <1> QED
    BY <1>4, <1>5, Together

\* A state is taken out of the RAM tier, or stays there, perhaps without its main part.
LEMMA LoadRamKeeps ==
    ASSUME IInv, LoadRam \/ LoadRamFails \/ LoadRamHalf
    PROVE  IInv'
  <1>1. DiskTypes /\ CacheTypes /\ NameInv
    BY TypesSplit DEF IInv
  <1>2. PICK from : from.wrong = FALSE /\ Main("load") /\ Proceed(from)
    BY DEF LoadRam, LoadRamFails, LoadRamHalf, Empty
  <1>3. UNCHANGED <<dir, entries>>
    BY DEF LoadRam, LoadRamFails, LoadRamHalf
  <1>4. states' \in Seq(StateRecords)
    <2> DEFINE I == DOMAIN states \ {Best.at}
               at == Best.at
    <2>1. \/ states' = Picked(states, I) \/ states' = states
          \/ states' = [states EXCEPT ![at].main = FALSE]
      BY DEF LoadRam, LoadRamFails, LoadRamHalf
    <2>2. states \in Seq(StateRecords) /\ I \in SUBSET DOMAIN states
      BY <1>1 DEF CacheTypes
    <2> HIDE DEF I, at
    <2>3. Picked(states, I) \in Seq(StateRecords)
      BY <2>2, PickedType
    <2>4. [states EXCEPT ![at].main = FALSE] \in Seq(StateRecords)
      <3> DEFINE half == [states EXCEPT ![at].main = FALSE]
      <3>1. DOMAIN states = 1 .. Len(states) /\ Len(states) \in Nat
        BY <2>2, LenProperties
      <3>2. ASSUME NEW i \in DOMAIN states PROVE half[i] \in StateRecords
        <4>1. states[i] \in StateRecords
          BY <2>2, <3>1, ElementOfSeq
        <4> QED
          BY <4>1 DEF StateRecords
      <3>3. DOMAIN half = DOMAIN states /\ half = [i \in DOMAIN states |-> half[i]]
        OBVIOUS
      <3> HIDE DEF half
      <3>4. half \in Seq(StateRecords)
        BY <3>1, <3>2, <3>3
      <3> QED
        BY <3>4 DEF half
    <2> QED
      BY <2>1, <2>2, <2>3, <2>4
  <1>5. /\ todo' \in [Servers -> Seq(ItemRecords)]
        /\ \A t \in Servers \ {Self} : todo'[t] = todo[t]
        /\ CacheTypes' /\ StageInv' /\ SavingInv' /\ NothingWrongRestored'
        /\ UNCHANGED <<up, wpc>>
    BY <1>2, <1>4, ProceedTypes
  <1>6. DiskTypes' /\ NameInv'
    BY <1>1, <1>2, <1>3, <1>5, QuietMain DEF Main
  <1> QED
    BY <1>5, <1>6, Together

LEMMA LoadDiskKeeps ==
    ASSUME IInv, LoadDisk
    PROVE  IInv'
  <1>1. DiskTypes /\ CacheTypes /\ NameInv
    BY TypesSplit DEF IInv
  <1>2. PICK f : /\ ReadGood(Self, BestFile, f)
                 /\ Proceed([prompt |-> f.prompt,
                             wrong |-> f.state # "good" \/ f.key # Key[Self]])
    BY DEF LoadDisk
  <1>3. Main("load") /\ UNCHANGED <<dir, entries, states>>
    BY DEF LoadDisk
  <1>4. (f.state # "good" \/ f.key # Key[Self]) = FALSE
    BY <1>2 DEF ReadGood
  <1>5. PICK from : from.wrong = FALSE /\ Proceed(from)
    BY <1>2, <1>4
  <1>6. /\ todo' \in [Servers -> Seq(ItemRecords)]
        /\ \A t \in Servers \ {Self} : todo'[t] = todo[t]
        /\ CacheTypes' /\ StageInv' /\ SavingInv' /\ NothingWrongRestored'
        /\ UNCHANGED <<up, wpc>>
    BY <1>1, <1>3, <1>5, ProceedTypes DEF CacheTypes
  <1>7. DiskTypes' /\ NameInv'
    BY <1>1, <1>3, <1>6, QuietMain DEF Main
  <1> QED
    BY <1>6, <1>7, Together

LEMMA LoadDiskFailsKeeps ==
    ASSUME IInv, LoadDiskFails
    PROVE  IInv'
  <1>1. DiskTypes /\ CacheTypes /\ NameInv
    BY TypesSplit DEF IInv
  <1>2. /\ Main("load") /\ Proceed(Empty) /\ UNCHANGED states /\ Empty.wrong = FALSE
    BY DEF LoadDiskFails, Empty
  <1>3. /\ todo' \in [Servers -> Seq(ItemRecords)]
        /\ \A t \in Servers \ {Self} : todo'[t] = todo[t]
        /\ CacheTypes' /\ StageInv' /\ SavingInv' /\ NothingWrongRestored'
        /\ UNCHANGED <<up, wpc>>
    BY <1>1, <1>2, ProceedTypes DEF CacheTypes
  <1>4. /\ dir' \in Seq(FileRecords) /\ Left(dir', dir)
        /\ entries' \in [Servers -> Seq(EntryRecords)]
        /\ \A t \in Servers : \A k \in DOMAIN entries'[t] :
              \E j \in DOMAIN entries[t] : entries'[t][k] = entries[t][j]
    <2>1. CASE ReadGone(Self, BestFile) \/ ReadBad(Self, BestFile)
      BY <1>1, <2>1, CacheAssumption, ReadLeaves
    <2>2. CASE UNCHANGED <<dir, entries>>
      BY <1>1, <2>2, LeftItself DEF DiskTypes
    <2> QED
      BY <2>1, <2>2 DEF LoadDiskFails
  <1>5. Between(Self)
    BY <1>2, <1>3, <1>4 DEF Between, Main
  <1>6. DiskTypes' /\ NameInv'
    BY <1>1, <1>3, <1>4, <1>5, CacheAssumption, BetweenKeeps DEF DiskTypes
  <1> QED
    BY <1>3, <1>6, Together

LEMMA IdleSlotKeeps ==
    ASSUME IInv, IdleSlot \/ BusySlot
    PROVE  IInv'
  <1>1. DiskTypes /\ CacheTypes /\ NameInv
    BY TypesSplit DEF IInv
  <1>2. /\ Main("idle") /\ NextSlot /\ UNCHANGED <<dir, entries, up, wpc, want>>
        /\ slot' = slot \/ slot' = [slot EXCEPT ![saving] = Empty]
        /\ SaveIdle(saving) \/ UNCHANGED <<states, staging, todo>>
    BY DEF IdleSlot, BusySlot, dvars
  <1>3. saving \in Slots
    BY <1>2 DEF IInv, SavingInv, Main
  <1>4. /\ todo' \in [Servers -> Seq(ItemRecords)]
        /\ \A t \in Servers \ {Self} : todo'[t] = todo[t]
        /\ states' \in Seq(StateRecords) /\ UNCHANGED staging
    BY <1>1, <1>2, <1>3, SaveIdleTypes DEF DiskTypes, CacheTypes
  <1>5. /\ pc' \in {"idle", "serving"} /\ ret' \in Slots /\ saving' \in Slots
        /\ saving' \in 1 .. NSlots + 1
    BY <1>1, <1>2, <1>3, CacheAssumption DEF NextSlot, CacheTypes, Slots, Main
  <1>6. /\ slot' \in [Slots -> [prompt : Prompts \cup {<<>>}, wrong : BOOLEAN]]
        /\ NothingWrongRestored'
    <2>1. Empty \in [prompt : Prompts \cup {<<>>}, wrong : BOOLEAN] /\ ~Empty.wrong
      BY DEF Empty
    <2> HIDE DEF Empty
    <2>2. slot \in [Slots -> [prompt : Prompts \cup {<<>>}, wrong : BOOLEAN]]
      BY <1>1 DEF CacheTypes
    <2>3. \A j \in Slots : slot'[j] = slot[j] \/ slot'[j] = Empty
      BY <1>2, <1>3, <2>2
    <2>4. slot' \in [Slots -> [prompt : Prompts \cup {<<>>}, wrong : BOOLEAN]]
      BY <1>2, <1>3, <2>1, <2>2
    <2> QED
      BY <2>1, <2>3, <2>4 DEF IInv, NothingWrongRestored
  <1>7. CacheTypes'
    BY <1>1, <1>2, <1>4, <1>5, <1>6 DEF CacheTypes, Main
  <1>8. StageInv' /\ SavingInv'
    BY <1>2, <1>4, <1>5 DEF IInv, StageInv, SavingInv, Main
  <1>9. DiskTypes' /\ NameInv'
    BY <1>1, <1>2, <1>4, QuietMain DEF Main
  <1> QED
    BY <1>6, <1>7, <1>8, <1>9, Together

LEMMA FlushKeeps ==
    ASSUME IInv, Flush
    PROVE  IInv'
  <1>1. DiskTypes /\ CacheTypes /\ NameInv
    BY TypesSplit DEF IInv
  <1>2. /\ Main("serving") /\ pc' = "flush" /\ saving' = 1
        /\ UNCHANGED <<dir, entries, up, todo, wpc, slot, states, staging, ret, want>>
    BY DEF Flush, dvars
  <1>3. DiskTypes' /\ NameInv'
    BY <1>1, <1>2, QuietMain DEF Main, DiskTypes
  <1>4. CacheTypes'
    BY <1>1, <1>2, CacheAssumption DEF CacheTypes, Main
  <1>5. StageInv' /\ SavingInv' /\ NothingWrongRestored'
    BY <1>2 DEF IInv, StageInv, SavingInv, NothingWrongRestored
  <1> QED
    BY <1>3, <1>4, <1>5, Together

LEMMA FlushSlotKeeps ==
    ASSUME IInv, FlushSlot
    PROVE  IInv'
  <1>1. DiskTypes /\ CacheTypes /\ NameInv /\ StageInv
    BY TypesSplit DEF IInv
  <1>2. /\ Main("flush") /\ saving <= NSlots /\ saving' = saving + 1
        /\ prompt_save(saving) \/ UNCHANGED <<states, staging, todo>>
        /\ UNCHANGED <<dir, entries, up, wpc, slot, pc, ret, want>>
    BY DEF FlushSlot
  <1>3. saving \in Slots /\ saving' \in 1 .. NSlots + 1
    BY <1>1, <1>2, CacheAssumption DEF CacheTypes, Slots
  <1>4. /\ todo' \in [Servers -> Seq(ItemRecords)]
        /\ \A t \in Servers \ {Self} : todo'[t] = todo[t]
        /\ states' \in Seq(StateRecords)
        /\ staging' \in Seq(StateRecords) /\ Len(staging') <= 1
        /\ \A k \in DOMAIN staging' : staging'[k].main
    <2>1. CASE UNCHANGED <<states, staging, todo>>
      BY <1>1, <2>1 DEF DiskTypes, CacheTypes, StageInv
    <2>2. CASE prompt_save(saving)
      BY <1>1, <1>3, <2>2, SaveTypes
    <2> QED
      BY <1>2, <2>1, <2>2
  <1>5. DiskTypes' /\ NameInv'
    BY <1>1, <1>2, <1>4, QuietMain DEF Main
  <1>6. CacheTypes'
    BY <1>1, <1>2, <1>3, <1>4 DEF CacheTypes
  <1>7. StageInv' /\ SavingInv' /\ NothingWrongRestored'
    BY <1>2, <1>4 DEF IInv, StageInv, SavingInv, NothingWrongRestored, Main
  <1> QED
    BY <1>5, <1>6, <1>7, Together

LEMMA FlushToDiskKeeps ==
    ASSUME IInv, FlushToDisk
    PROVE  IInv'
  <1>1. DiskTypes /\ CacheTypes /\ NameInv
    BY TypesSplit DEF IInv
  <1>2. /\ Main("flush") /\ Spill(states \o staging) /\ staging' = <<>> /\ pc' = "flushed"
        /\ UNCHANGED <<dir, entries, up, wpc, slot, states, ret, want, saving>>
    BY DEF FlushToDisk
  <1>3. states \o staging \in Seq(StateRecords)
    BY <1>1, ConcatProperties DEF CacheTypes
  <1>4. /\ todo' \in [Servers -> Seq(ItemRecords)]
        /\ \A t \in Servers \ {Self} : todo'[t] = todo[t]
    BY <1>1, <1>2, <1>3, SpillTypes
  <1>5. DiskTypes' /\ NameInv'
    BY <1>1, <1>2, <1>4, QuietMain DEF Main
  <1>6. CacheTypes'
    BY <1>1, <1>2 DEF CacheTypes, Main
  <1>7. StageInv' /\ SavingInv' /\ NothingWrongRestored'
    BY <1>2 DEF IInv, StageInv, SavingInv, NothingWrongRestored, Main
  <1> QED
    BY <1>5, <1>6, <1>7, Together

\* The cache is gone with the process.
LEMMA LoseTypes ==
    ASSUME CacheTypes, Lose, Self \notin up'
    PROVE  CacheTypes' /\ StageInv' /\ SavingInv' /\ NothingWrongRestored'
  <1>1. 1 \in Slots /\ 1 \in 1 .. NSlots + 1
    BY CacheAssumption DEF Slots
  <1>2. /\ slot' = [i \in Slots |-> Empty] /\ states' = <<>> /\ staging' = <<>>
        /\ pc' = "down" /\ ret' = 1 /\ want' = <<>> /\ saving' = 1
    BY DEF Lose
  <1>3. slot' \in [Slots -> [prompt : Prompts \cup {<<>>}, wrong : BOOLEAN]]
    BY <1>2 DEF Empty
  <1>4. CacheTypes'
    BY <1>1, <1>2, <1>3 DEF CacheTypes
  <1>5. StageInv' /\ SavingInv' /\ NothingWrongRestored'
    BY <1>1, <1>2 DEF StageInv, SavingInv, NothingWrongRestored, Empty
  <1> QED
    BY <1>4, <1>5

LEMMA LeaveKeeps ==
    ASSUME IInv, Leave
    PROVE  IInv'
  <1>1. DiskTypes /\ CacheTypes /\ NameInv
    BY TypesSplit DEF IInv
  <1>2. /\ Main("flushed") /\ Lose /\ up' = up \ {Self}
        /\ entries' = [entries EXCEPT ![Self] = <<>>]
        /\ UNCHANGED <<dir, todo, wpc>>
    BY DEF Leave
  <1>3. /\ entries' \in [Servers -> Seq(EntryRecords)] /\ entries'[Self] = <<>>
        /\ \A t \in Servers \ {Self} : entries'[t] = entries[t]
    BY <1>1, <1>2, CacheAssumption DEF DiskTypes
  <1>4. \A t \in Servers : \A k \in DOMAIN entries'[t] :
           \E j \in DOMAIN entries[t] : entries'[t][k] = entries[t][j]
    <2>1. DOMAIN entries'[Self] = {}
      BY <1>3
    <2> QED
      BY <1>3, <2>1
  <1>5. Between(Self)
    BY <1>2, <1>4, LeftItself DEF Between, Main
  <1>6. DiskTypes' /\ NameInv'
    BY <1>1, <1>2, <1>3, <1>5, CacheAssumption, BetweenKeeps DEF DiskTypes
  <1> QED
    BY <1>1, <1>2, <1>6, LoseTypes, Together

LEMMA StartKeeps ==
    ASSUME IInv, Start
    PROVE  IInv'
  <1>1. DiskTypes /\ CacheTypes /\ NameInv
    BY TypesSplit DEF IInv
  <1>2. /\ Open(Self) /\ Self \notin up /\ pc' = "serving"
        /\ UNCHANGED <<todo, wpc, slot, states, staging, ret, want, saving>>
    BY DEF Start, Open
  <1>3. DiskTypes' /\ NameInv' /\ Self \in up'
    BY <1>1, <1>2, CacheAssumption, OpenKeeps
  <1>4. pc = "down"
    BY <1>1, <1>2 DEF CacheTypes
  <1>5. CacheTypes'
    BY <1>1, <1>2, <1>3 DEF CacheTypes
  <1>6. StageInv' /\ SavingInv' /\ NothingWrongRestored'
    BY <1>2, <1>4 DEF IInv, StageInv, SavingInv, NothingWrongRestored
  <1> QED
    BY <1>3, <1>5, <1>6, Together

\* The steps of the disk tier that leave the cache of Self as it is.
LEMMA DiskOnly ==
    ASSUME IInv, DiskTypes', NameInv', UNCHANGED cvars, Self \in up' <=> Self \in up
    PROVE  IInv'
  <1>1. CacheTypes
    BY TypesSplit DEF IInv
  <1>2. CacheTypes'
    BY <1>1 DEF CacheTypes, cvars
  <1>3. StageInv' /\ SavingInv' /\ NothingWrongRestored'
    BY DEF IInv, StageInv, SavingInv, NothingWrongRestored, cvars
  <1> QED
    BY <1>2, <1>3, Together

-----------------------------------------------------------------------------
(* What states take together *)

LEMMA MaxSizeBounds ==
    /\ MaxSize \in Nat
    /\ \A p \in Prompts : Size[p] \in Nat \ {0} /\ Size[p] <= MaxSize
  <1>1. PICK p \in Prompts : \A q \in Prompts : Size[q] <= Size[p]
    BY DiskAssumption
  <1>2. \A q \in Prompts : Size[q] \in Nat \ {0}
    BY DiskAssumption
  <1>3. \E n \in {Size[q] : q \in Prompts} : \A q \in Prompts : Size[q] <= n
    BY <1>1
  <1>4. MaxSize \in {Size[q] : q \in Prompts} /\ \A q \in Prompts : Size[q] <= MaxSize
    BY <1>3, Zenon DEF MaxSize
  <1> QED
    BY <1>2, <1>4

\* A sequence of things that have a prompt.
Sized(q) == /\ Len(q) \in Nat /\ DOMAIN q = 1 .. Len(q)
            /\ \A i \in DOMAIN q : q[i].prompt \in Prompts

LEMMA SizedTypes ==
    /\ \A q \in Seq(FileRecords) : Sized(q)
    /\ \A q \in Seq(EntryRecords) : Sized(q)
    /\ \A q \in Seq(StateRecords) : Sized(q)
  <1>1. ASSUME NEW S, NEW q \in Seq(S), \A f \in S : f.prompt \in Prompts PROVE Sized(q)
    BY <1>1, LenProperties, ElementOfSeq DEF Sized
  <1>2. /\ \A f \in FileRecords : f.prompt \in Prompts
        /\ \A f \in EntryRecords : f.prompt \in Prompts
        /\ \A f \in StateRecords : f.prompt \in Prompts
    BY DEF FileRecords, EntryRecords, StateRecords
  <1> QED
    BY <1>1, <1>2

Bytes(q) == {b \in (1..Len(q)) \X (1..MaxSize) : b[2] <= Size[q[b[1]].prompt]}

LEMMA BytesFinite ==
    ASSUME NEW q, Sized(q)
    PROVE  IsFiniteSet(Bytes(q)) /\ Sum(q) \in Nat /\ Sum(q) = Cardinality(Bytes(q))
  <1>1. IsFiniteSet(1 .. Len(q)) /\ IsFiniteSet(1 .. MaxSize)
    BY MaxSizeBounds, FS_Interval DEF Sized
  <1>2. IsFiniteSet((1 .. Len(q)) \X (1 .. MaxSize))
    BY <1>1, FS_Product
  <1>3. Bytes(q) \in SUBSET ((1 .. Len(q)) \X (1 .. MaxSize))
    BY DEF Bytes
  <1>4. IsFiniteSet(Bytes(q))
    BY <1>2, <1>3, FS_Subset
  <1>5. Sum(q) = Cardinality(Bytes(q))
    BY DEF Sum, Bytes
  <1> QED
    BY <1>4, <1>5, FS_CardinalityType

\* What can be found in b, each at its own place, takes no more than b.
LEMMA SumInjects ==
    ASSUME NEW a, Sized(a), NEW b, Sized(b), NEW h \in [DOMAIN a -> DOMAIN b],
           \A i, j \in DOMAIN a : h[i] = h[j] => i = j,
           \A i \in DOMAIN a : b[h[i]].prompt = a[i].prompt
    PROVE  Sum(a) <= Sum(b)
  <1> DEFINE g == [u \in Bytes(a) |-> <<h[u[1]], u[2]>>]
  <1>1. DOMAIN a = 1 .. Len(a) /\ DOMAIN b = 1 .. Len(b)
    BY DEF Sized
  <1>2. ASSUME NEW u \in Bytes(a)
        PROVE  /\ u[1] \in DOMAIN a /\ u[2] \in 1 .. MaxSize /\ u = <<u[1], u[2]>>
               /\ <<h[u[1]], u[2]>> \in Bytes(b)
    BY <1>1 DEF Bytes
  <1>3. g \in [Bytes(a) -> Bytes(b)]
    BY <1>2
  <1>4. ASSUME NEW u \in Bytes(a), NEW v \in Bytes(a), g[u] = g[v] PROVE u = v
    <2>1. h[u[1]] = h[v[1]] /\ u[2] = v[2]
      BY <1>4
    <2> QED
      BY <1>2, <2>1
  <1>5. g \in Injection(Bytes(a), Bytes(b))
    <2> HIDE DEF g
    <2> QED
      BY <1>3, <1>4 DEF Injection, IsInjective
  <1> HIDE DEF g
  <1>6. Cardinality(Bytes(a)) <= Cardinality(Bytes(b))
    BY <1>5, BytesFinite, FS_Injection
  <1> QED
    BY <1>6, BytesFinite

\* The same for what is told apart by names.
LEMMA SumOfNamed ==
    ASSUME NEW a, Sized(a), NEW b, Sized(b), Named(a),
           \A i \in DOMAIN a : \E j \in DOMAIN b :
              b[j].id = a[i].id /\ b[j].prompt = a[i].prompt
    PROVE  Sum(a) <= Sum(b)
  <1> DEFINE at(i) == CHOOSE j \in DOMAIN b : b[j].id = a[i].id /\ b[j].prompt = a[i].prompt
             h == [i \in DOMAIN a |-> at(i)]
  <1>1. ASSUME NEW i \in DOMAIN a
        PROVE  at(i) \in DOMAIN b /\ b[at(i)].id = a[i].id /\ b[at(i)].prompt = a[i].prompt
    <2>1. \E j \in DOMAIN b : b[j].id = a[i].id /\ b[j].prompt = a[i].prompt
      OBVIOUS
    <2> QED
      BY <2>1, Zenon
  <1> HIDE DEF at
  <1>2. h \in [DOMAIN a -> DOMAIN b]
    BY <1>1
  <1>3. \A i, j \in DOMAIN a : h[i] = h[j] => i = j
    BY <1>1 DEF Named
  <1>4. \A i \in DOMAIN a : b[h[i]].prompt = a[i].prompt
    BY <1>1
  <1> HIDE DEF h
  <1> QED
    BY <1>2, <1>3, <1>4, SumInjects

LEMMA SumEmpty == Sum(<<>>) = 0
  <1>1. Bytes(<<>>) = {}
    BY DEF Bytes
  <1>2. Sum(<<>>) = Cardinality(Bytes(<<>>))
    BY DEF Sum, Bytes
  <1> QED
    BY <1>1, <1>2, FS_EmptySet

LEMMA SumAppend ==
    ASSUME NEW q, NEW S, q \in Seq(S), Sized(q), NEW x, x \in S, x.prompt \in Prompts
    PROVE  Sized(Append(q, x)) /\ Sum(Append(q, x)) = Sum(q) + Size[x.prompt]
  <1> DEFINE p == Append(q, x)
             n == Len(q) + 1
             new == {n} \X (1 .. Size[x.prompt])
  <1>1. /\ Len(p) = n /\ DOMAIN p = 1 .. n /\ n \in Nat /\ Len(q) \in Nat
        /\ \A i \in 1 .. Len(q) : p[i] = q[i]
        /\ p[n] = x
    BY AppendProperties DEF Sized
  <1> HIDE DEF p
  <1>2. Sized(p)
    BY <1>1 DEF Sized
  <1>3. Size[x.prompt] \in Nat /\ Size[x.prompt] <= MaxSize /\ MaxSize \in Nat
    BY MaxSizeBounds
  <1>4. Bytes(p) = Bytes(q) \cup new
    <2>1. ASSUME NEW i \in 1 .. n, NEW k \in 1 .. MaxSize
          PROVE  k <= Size[p[i].prompt] <=>
                    \/ i \in 1 .. Len(q) /\ k <= Size[q[i].prompt]
                    \/ i = n /\ k \in 1 .. Size[x.prompt]
      BY <1>1, <1>3
    <2>2. Len(q) \in Nat /\ 1 .. Len(q) \subseteq 1 .. n /\ n \in 1 .. n
          /\ 1 .. Size[x.prompt] \subseteq 1 .. MaxSize
      BY <1>1, <1>3
    <2>3. \A i \in 1 .. n, k \in 1 .. MaxSize : <<i, k>> \in Bytes(p) <=>
                  <<i, k>> \in Bytes(q) \/ <<i, k>> \in new
      <3> HIDE DEF n
      <3> QED
        BY <1>1, <2>1, <2>2 DEF Bytes
    <2>4. Bytes(p) \subseteq (1 .. n) \X (1 .. MaxSize)
      BY <1>1 DEF Bytes
    <2>5. Bytes(q) \cup new \subseteq (1 .. n) \X (1 .. MaxSize)
      BY <2>2 DEF Bytes
    <2>6. \A u : u \in (1 .. n) \X (1 .. MaxSize) =>
                \E i \in 1 .. n, k \in 1 .. MaxSize : u = <<i, k>>
      OBVIOUS
    <2> HIDE DEF n, new
    <2> QED
      BY <2>3, <2>4, <2>5, <2>6
  <1>5. Bytes(q) \cap new = {}
    <2>1. n \notin 1 .. Len(q)
      BY <1>1
    <2> HIDE DEF n
    <2> QED
      BY <2>1 DEF Bytes
  <1>6. IsFiniteSet(new) /\ Cardinality(new) = Size[x.prompt]
    <2> DEFINE m == Size[x.prompt]
    <2> HIDE DEF n
    <2>1. IsFiniteSet({n}) /\ Cardinality({n}) = 1
      BY FS_Singleton
    <2>2. m \in Nat
      BY <1>3
    <2> HIDE DEF m
    <2>3. IsFiniteSet(1 .. m) /\ Cardinality(1 .. m) = m
      BY <2>2, FS_Interval
    <2>4. IsFiniteSet({n} \X (1 .. m)) /\ Cardinality({n} \X (1 .. m)) = 1 * m
      BY <2>1, <2>3, FS_Product
    <2> QED
      BY <2>2, <2>4 DEF m
  <1> HIDE DEF new, n
  <1>7. Cardinality(Bytes(q) \cup new) = Cardinality(Bytes(q)) + Size[x.prompt]
    <2>1. Cardinality(Bytes(q)) \in Nat /\ IsFiniteSet(Bytes(q))
      BY BytesFinite
    <2>2. Cardinality({}) = 0
      BY FS_EmptySet
    <2>3. Cardinality(Bytes(q) \cup new)
             = Cardinality(Bytes(q)) + Cardinality(new) - Cardinality(Bytes(q) \cap new)
      BY <1>6, <2>1, FS_Union
    <2> DEFINE m == Size[x.prompt]
               c == Cardinality(Bytes(q))
    <2>4. m \in Nat /\ c \in Nat /\ Cardinality(Bytes(q) \cup new) = c + m - 0
      BY <1>3, <1>5, <1>6, <2>1, <2>2, <2>3
    <2> HIDE DEF m, c
    <2>5. Cardinality(Bytes(q) \cup new) = c + m
      BY <2>4
    <2> QED
      BY <2>5 DEF m, c
  <1> QED
    BY <1>2, <1>4, <1>7, BytesFinite DEF p

LEMMA SumPicked ==
    ASSUME NEW S, NEW q \in Seq(S), Sized(q), NEW I \in SUBSET DOMAIN q
    PROVE  Sized(Picked(q, I)) /\ Sum(Picked(q, I)) <= Sum(q)
  <1> DEFINE p == Picked(q, I)
             n == Cardinality(I)
  <1>1. p \in Seq(S) /\ DOMAIN p = 1 .. n /\ n \in Nat
        /\ I \subseteq Nat
    BY PickedType, PositionsFinite
  <1>2. PICK f \in [1 .. n -> I] :
               /\ \A k, l \in 1 .. n : k < l => f[k] < f[l]
               /\ \A k \in 1 .. n : p[k] = q[f[k]]
    BY PickedOrder
  <1> HIDE DEF p, n
  <1>3. Sized(p)
    <2>1. Len(p) \in Nat /\ DOMAIN p = 1 .. Len(p)
      BY <1>1, LenProperties
    <2>2. \A k \in DOMAIN p : p[k].prompt \in Prompts
      BY <1>1, <1>2 DEF Sized
    <2> QED
      BY <2>1, <2>2 DEF Sized
  <1>4. \A k, l \in 1 .. n : f[k] = f[l] => k = l
    <2> SUFFICES ASSUME NEW k \in 1 .. n, NEW l \in 1 .. n, f[k] = f[l] PROVE k = l
      OBVIOUS
    <2>1. k \in Nat /\ l \in Nat /\ f[k] \in Nat /\ f[l] \in Nat
      BY <1>1
    <2>2. ~(k < l) /\ ~(l < k)
      BY <1>2, <2>1
    <2> QED
      BY <2>1, <2>2
  <1>5. f \in [DOMAIN p -> DOMAIN q]
    BY <1>1, <1>2
  <1> QED
    BY <1>1, <1>2, <1>3, <1>4, <1>5, SumInjects DEF p

\* The index that an eviction keeps leaves room for `total` more bytes.
LEMMA FittingFits ==
    ASSUME NEW e \in Seq(EntryRecords), NEW total \in Nat, Limit # 0, total <= Limit
    PROVE  Sum(Fitting(e, total)) + total <= Limit
  <1> DEFINE rest(n) == SubSeq(e, n + 1, Len(e))
             fits == {n \in 0..Len(e) : Limit = 0 \/ n = Len(e) \/ Sum(rest(n)) + total <= Limit}
             least == CHOOSE n \in fits : \A m \in fits : n <= m
  <1>1. Len(e) \in Nat
    BY LenProperties
  <1>2. fits \in SUBSET Nat /\ fits \in SUBSET (0 .. Len(e)) /\ Len(e) \in fits
    BY <1>1
  <1>3. \A n \in fits : n = Len(e) \/ Sum(rest(n)) + total <= Limit
    OBVIOUS
  <1>4. Fitting(e, total) = rest(least)
    BY DEF Fitting
  <1> HIDE DEF fits
  <1>5. \E n \in fits : \A m \in fits : n <= m
    BY <1>2, Smallest
  <1>6. least \in fits
    BY <1>5
  <1> HIDE DEF least
  <1>7. rest(Len(e)) = <<>>
    BY <1>1
  <1>8. CASE least = Len(e)
    <2>1. Fitting(e, total) = <<>>
      BY <1>4, <1>7, <1>8
    <2> QED
      BY <2>1, SumEmpty
  <1>9. CASE least # Len(e)
    BY <1>3, <1>4, <1>6, <1>9
  <1> QED
    BY <1>8, <1>9

\* The files that are not ".tmp" files are all there, each once.
LEMMA BinsAll ==
    ASSUME NEW q \in Seq(FileRecords), Named(q)
    PROVE  /\ Bins(q) \in Seq(FileRecords) /\ Sized(Bins(q)) /\ Named(Bins(q))
           /\ \A k \in DOMAIN Bins(q) : \E i \in DOMAIN q : Bin(q[i]) /\ Bins(q)[k] = q[i]
           /\ \A i \in DOMAIN q : Bin(q[i]) => \E k \in DOMAIN Bins(q) : Bins(q)[k] = q[i]
  <1> DEFINE I == {i \in DOMAIN q : Bin(q[i])}
  <1>1. /\ I \in SUBSET DOMAIN q /\ Bins(q) = Picked(q, I)
        /\ \A i \in DOMAIN q : Bin(q[i]) => i \in I
        /\ \A i \in I : Bin(q[i])
    BY DEF Bins
  <1> HIDE DEF I
  <1>2. /\ \A k \in DOMAIN Picked(q, I) : \E i \in I : Picked(q, I)[k] = q[i]
        /\ \A i \in I : \E k \in DOMAIN Picked(q, I) : Picked(q, I)[k] = q[i]
    BY <1>1, PickedType
  <1>3. Bins(q) \in Seq(FileRecords) /\ Named(Bins(q))
    BY BinsLeft DEF Left
  <1> QED
    BY <1>1, <1>2, <1>3, SizedTypes

\* A directory whose files are all in another one does not take more.
LEMMA LeftTakesLess ==
    ASSUME NEW d \in Seq(FileRecords), NEW q \in Seq(FileRecords), Named(q), Left(d, q)
    PROVE  Sum(Bins(d)) <= Sum(Bins(q))
  <1>1. Named(d) /\ \A k \in DOMAIN d : \E i \in DOMAIN q : d[k] = q[i]
    BY DEF Left
  <1>2. ASSUME NEW k \in DOMAIN Bins(d) PROVE \E j \in DOMAIN Bins(q) : Bins(q)[j] = Bins(d)[k]
    <2>1. PICK i \in DOMAIN d : Bin(d[i]) /\ Bins(d)[k] = d[i]
      BY <1>1, BinsAll
    <2>2. PICK j \in DOMAIN q : Bin(q[j]) /\ Bins(d)[k] = q[j]
      BY <1>1, <2>1
    <2> QED
      BY <2>2, BinsAll
  <1>3. Sized(Bins(d)) /\ Named(Bins(d)) /\ Sized(Bins(q))
    BY <1>1, BinsAll
  <1> QED
    BY <1>2, <1>3, SumOfNamed

\* Every file a scan finds has an entry, with the tokens of the file.
LEMMA ScannedOf ==
    ASSUME NEW s, NEW d, NEW e
    PROVE  LET bins == Bins(ScannedDir(d, e))
           IN  /\ DOMAIN Scanned(s, d, e) = DOMAIN bins
               /\ \A i \in DOMAIN bins : Scanned(s, d, e)[i].id = bins[i].id
  <1> DEFINE bins == Bins(ScannedDir(d, e))
             entry(i) == IF \E j \in DOMAIN e : e[j].id = bins[i].id
                         THEN e[CHOOSE j \in DOMAIN e : e[j].id = bins[i].id]
                         ELSE Entry(s, bins[i])
  <1>1. Scanned(s, d, e) = [i \in DOMAIN bins |-> entry(i)]
    BY DEF Scanned
  <1>2. ASSUME NEW i PROVE entry(i).id = bins[i].id
    <2>1. CASE \E j \in DOMAIN e : e[j].id = bins[i].id
      <3> DEFINE at == CHOOSE j \in DOMAIN e : e[j].id = bins[i].id
      <3>1. at \in DOMAIN e /\ e[at].id = bins[i].id
        BY <2>1
      <3>2. entry(i) = e[at]
        BY <2>1
      <3> QED
        BY <3>1, <3>2
    <2>2. CASE ~\E j \in DOMAIN e : e[j].id = bins[i].id
      BY <2>2 DEF Entry
    <2> QED
      BY <2>1, <2>2
  <1> HIDE DEF bins, entry
  <1> QED
    BY <1>1, <1>2 DEF bins

\* Once a server has made room, its new file fits.
LEMMA ScanFits ==
    ASSUME DiskTypes, NameInv, DiskTypes', NameInv', NEW s \in Servers,
           NEW d \in Seq(FileRecords), Named(d), NEW e \in Seq(EntryRecords),
           NEW total \in Nat, Limit # 0, total <= Limit, ScanAndEvict(s, d, e, total)
    PROVE  DirSize' + total <= Limit
  <1> DEFINE found == ScannedDir(d, e)
             seen == Scanned(s, d, e)
             kept == Fitting(seen, total)
             gone == Ids(seen) \ Ids(kept)
  <1>1. /\ entries' = [entries EXCEPT ![s] = kept]
        /\ dir' = Without(found, gone)
    BY DEF ScanAndEvict
  <1>2. seen \in Seq(EntryRecords)
    BY ScannedEntries
  <1>3. found \in Seq(FileRecords) /\ Named(found)
    BY ScannedDirLeft DEF Left
  <1>4. /\ DOMAIN seen = DOMAIN Bins(found)
        /\ \A i \in DOMAIN Bins(found) : seen[i].id = Bins(found)[i].id
    BY ScannedOf
  <1> HIDE DEF seen, found
  <1>5. kept \in Seq(EntryRecords) /\ Sum(kept) + total <= Limit
    BY <1>2, FittingRest, FittingFits
  <1> HIDE DEF kept
  <1>6. entries'[s] = kept
    BY <1>1 DEF DiskTypes
  <1>7. ASSUME NEW j \in DOMAIN dir', Bin(dir'[j])
        PROVE  \E k \in DOMAIN kept : kept[k].id = dir'[j].id /\ kept[k].prompt = dir'[j].prompt
    <2>1. \E i \in DOMAIN found : dir'[j] = found[i] /\ found[i].id \notin gone
      <3> DEFINE I == {i \in DOMAIN found : found[i].id \notin gone}
      <3>1. I \in SUBSET DOMAIN found /\ dir' = Picked(found, I)
            /\ \A i \in I : i \in DOMAIN found /\ found[i].id \notin gone
        BY <1>1 DEF Without
      <3> HIDE DEF I, gone
      <3>2. \E i \in I : dir'[j] = found[i]
        BY <1>3, <3>1, PickedType
      <3> QED
        BY <3>1, <3>2
    <2>2. PICK i \in DOMAIN Bins(found) : Bins(found)[i] = dir'[j]
      <3>1. PICK i \in DOMAIN found : dir'[j] = found[i]
        BY <2>1
      <3>2. Bin(found[i])
        BY <1>7, <3>1
      <3>3. \E k \in DOMAIN Bins(found) : Bins(found)[k] = found[i]
        BY <1>3, <3>2, BinsAll
      <3> QED
        BY <3>1, <3>3
    <2>3. dir'[j].id \in Ids(seen)
      BY <1>4, <2>2 DEF Ids
    <2>4. dir'[j].id \in Ids(kept)
      BY <2>1, <2>3
    <2>5. PICK k \in DOMAIN kept : kept[k].id = dir'[j].id
      BY <2>4 DEF Ids
    <2>6. TrueEntry(s, entries[s][k])'
      BY <1>6, <2>5 DEF NameInv
    <2> QED
      BY <1>6, <2>5, <2>6 DEF TrueEntry
  <1>8. dir' \in Seq(FileRecords) /\ Named(dir')
    BY DEF DiskTypes, NameInv
  <1>9. ASSUME NEW j \in DOMAIN Bins(dir')
        PROVE  \E k \in DOMAIN kept :
                  kept[k].id = Bins(dir')[j].id /\ kept[k].prompt = Bins(dir')[j].prompt
    <2>1. PICK i \in DOMAIN dir' : Bin(dir'[i]) /\ Bins(dir')[j] = dir'[i]
      BY <1>8, BinsAll
    <2> QED
      BY <1>7, <2>1
  <1>10. Sized(Bins(dir')) /\ Named(Bins(dir')) /\ Sized(kept)
    BY <1>5, <1>8, BinsAll, SizedTypes
  <1>11. Sum(Bins(dir')) <= Sum(kept)
    BY <1>9, <1>10, SumOfNamed
  <1>12. /\ DirSize' = Sum(Bins(dir'))
         /\ Sum(Bins(dir')) \in Nat /\ Sum(kept) \in Nat
    BY <1>10, BytesFinite DEF DirSize
  <1> QED
    BY <1>5, <1>11, <1>12, DiskAssumption

-----------------------------------------------------------------------------
(* The limits *)

\* The servers that have made room for a file that nobody counts yet.
Making == {s \in Servers : wpc[s] \in {"room", "written"}}

\* What the directory may hold, when each of the other servers has added a prompt.
Spare == Limit + Cardinality(Servers \ Making) * MaxSize

\* The server that made room last has left enough for its own file.
RoomInv == Limit # 0 =>
    \/ DirSize + MaxSize <= Spare
    \/ \E s \in Making : DirSize + Size[Item(s).prompt] <= Spare

RamInv == Sum(states) <= RamLimit

\* The directories that are found were left by servers with this limit.
FoundFits == \A q \in Found : Limit # 0 => Sum(q) <= Limit + (Cardinality(Servers) - 1) * MaxSize

LEMMA DirSizeType == (DiskTypes /\ NameInv => DirSize \in Nat)
                     /\ (DiskTypes' /\ NameInv' => DirSize' \in Nat)
  <1>1. ASSUME NEW d \in Seq(FileRecords), Named(d) PROVE Sum(Bins(d)) \in Nat
    <2>1. Sized(Bins(d))
      BY <1>1, BinsAll
    <2> QED
      BY <2>1, BytesFinite
  <1> QED
    BY <1>1 DEF DirSize, DiskTypes, NameInv

\* A server that leaves Making makes room for a prompt of any size.
LEMMA SpareOf ==
    ASSUME NEW P, P \subseteq Servers
    PROVE  /\ Cardinality(Servers \ P) \in Nat
           /\ Cardinality(Servers \ P) <= Cardinality(Servers) /\ Cardinality(Servers) \in Nat
           /\ \A s \in P : Cardinality(Servers \ (P \ {s})) = Cardinality(Servers \ P) + 1
           /\ \A Q \in SUBSET P : Cardinality(Servers \ P) <= Cardinality(Servers \ Q)
  <1>1. IsFiniteSet(Servers)
    BY DiskAssumption
  <1>2. IsFiniteSet(Servers \ P) /\ Cardinality(Servers \ P) <= Cardinality(Servers)
    BY <1>1, FS_Subset
  <1>3. Cardinality(Servers) \in Nat /\ Cardinality(Servers \ P) \in Nat
    BY <1>1, <1>2, FS_CardinalityType
  <1>4. ASSUME NEW s \in P
        PROVE  Cardinality(Servers \ (P \ {s})) = Cardinality(Servers \ P) + 1
    <2>1. Servers \ (P \ {s}) = (Servers \ P) \cup {s} /\ s \notin Servers \ P
      OBVIOUS
    <2> DEFINE T == Servers \ P
    <2>2. s \notin T /\ IsFiniteSet(T) /\ Cardinality(Servers \ (P \ {s})) = Cardinality(T \cup {s})
      BY <1>2, <2>1
    <2> HIDE DEF T
    <2>3. Cardinality(T \cup {s}) = Cardinality(T) + 1
      BY <2>2, FS_AddElement
    <2> QED
      BY <2>2, <2>3 DEF T
  <1>5. ASSUME NEW Q \in SUBSET P PROVE Cardinality(Servers \ P) <= Cardinality(Servers \ Q)
    <2>1. IsFiniteSet(Servers \ Q) /\ Servers \ P \in SUBSET (Servers \ Q)
      BY <1>1, FS_Subset
    <2> QED
      BY <2>1, FS_Subset
  <1> QED
    BY <1>2, <1>3, <1>4, <1>5

\* A product that grows with its first factor.
LEMMA Times ==
    ASSUME NEW c \in Nat, NEW d \in Nat, NEW m \in Nat
    PROVE  /\ c * m \in Nat /\ d * m \in Nat
           /\ c <= d => c * m <= d * m
           /\ c + 1 <= d => c * m + m <= d * m
  <1>1. c * m \in Nat /\ d * m \in Nat
    OBVIOUS
  <1>2. ASSUME c <= d PROVE c * m <= d * m
    <2>1. PICK k \in Nat : d = c + k
      <3>1. d - c \in Nat /\ d = c + (d - c)
        BY <1>2
      <3> QED
        BY <3>1
    <2>2. d * m = c * m + k * m /\ k * m \in Nat
      BY <2>1
    <2> QED
      BY <1>1, <2>2
  <1>3. ASSUME c + 1 <= d PROVE c * m + m <= d * m
    <2>1. PICK k \in Nat : d = c + 1 + k
      <3>1. d - (c + 1) \in Nat /\ d = c + 1 + (d - (c + 1))
        BY <1>3
      <3> QED
        BY <3>1
    <2>2. d * m = c * m + m + k * m /\ k * m \in Nat
      BY <2>1
    <2> QED
      BY <1>1, <2>2
  <1> QED
    BY <1>1, <1>2, <1>3

LEMMA RoomLimits == DiskTypes /\ NameInv /\ RoomInv /\ Limit # 0 =>
                       DirSize <= Limit + (Cardinality(Servers) - 1) * MaxSize
  <1> SUFFICES ASSUME DiskTypes, NameInv, RoomInv, Limit # 0
               PROVE  DirSize <= Limit + (Cardinality(Servers) - 1) * MaxSize
    OBVIOUS
  <1> DEFINE n == Cardinality(Servers)
             c == Cardinality(Servers \ Making)
  <1>1. Making \subseteq Servers
    BY DEF Making
  <1>2. /\ c \in Nat /\ n \in Nat /\ c <= n
        /\ \A s \in Making : c + 1 <= n
    <2>1. ASSUME NEW s \in Making PROVE c + 1 <= n
      <3>1. Cardinality(Servers \ (Making \ {s})) = c + 1 /\ Making \ {s} \subseteq Servers
        BY <1>1, SpareOf
      <3> QED
        BY <3>1, SpareOf
    <2> QED
      BY <1>1, <2>1, SpareOf
  <1>3. n # 0
    <2>1. IsFiniteSet(Servers) /\ Self \in Servers
      BY DiskAssumption, CacheAssumption
    <2> QED
      BY <2>1, FS_EmptySet
  <1>4. MaxSize \in Nat /\ Limit \in Nat /\ DirSize \in Nat
    BY MaxSizeBounds, DiskAssumption, DirSizeType
  <1>5. Spare = Limit + c * MaxSize
    BY DEF Spare
  <1> HIDE DEF n, c
  <1>6. n - 1 \in Nat /\ n * MaxSize = (n - 1) * MaxSize + MaxSize /\ n * MaxSize \in Nat
        /\ (n - 1) * MaxSize \in Nat
    BY <1>2, <1>3, <1>4
  <1>7. CASE DirSize + MaxSize <= Spare
    <2>1. c * MaxSize <= n * MaxSize /\ c * MaxSize \in Nat
      BY <1>2, <1>4, Times
    <2> QED
      BY <1>4, <1>5, <1>6, <1>7, <2>1 DEF n
  <1>8. CASE \E s \in Making : DirSize + Size[Item(s).prompt] <= Spare
    <2>1. PICK s \in Making : DirSize + Size[Item(s).prompt] <= Spare
      BY <1>8
    <2>2. Item(s).prompt \in Prompts
      <3>1. s \in Servers /\ todo[s] \in Seq(ItemRecords) /\ todo[s] # <<>>
        BY DEF Making, NameInv, DiskTypes, Writing
      <3>2. Item(s) \in ItemRecords
        BY <3>1, HeadTailProperties DEF Item
      <3> QED
        BY <3>2 DEF ItemRecords
    <2>3. Size[Item(s).prompt] \in Nat
      BY <2>2, MaxSizeBounds
    <2>4. c <= n - 1 /\ c * MaxSize <= (n - 1) * MaxSize /\ c * MaxSize \in Nat
      BY <1>2, <1>4, <1>6, Times
    <2> QED
      BY <1>4, <1>5, <1>6, <2>1, <2>3, <2>4 DEF n
  <1> QED
    BY <1>7, <1>8 DEF RoomInv

LEMMA MakingHas ==
    ASSUME DiskTypes, NameInv, NEW s \in Servers, wpc[s] # "begin"
    PROVE  Item(s) \in ItemRecords /\ Item(s).prompt \in Prompts /\ Size[Item(s).prompt] \in Nat
  <1>1. todo[s] \in Seq(ItemRecords) /\ todo[s] # <<>>
    BY DEF NameInv, DiskTypes, Writing
  <1>2. Item(s) \in ItemRecords
    BY <1>1, HeadTailProperties DEF Item
  <1>3. Item(s).prompt \in Prompts
    BY <1>2 DEF ItemRecords
  <1> QED
    BY <1>2, <1>3, MaxSizeBounds

\* What a server is about to write stays what it is.
SameItem(s) == wpc'[s] \in {"room", "written"} => s \in Making /\ Item(s)'.prompt = Item(s).prompt

\* A step that adds no file to those that count.
LEMMA RoomKept ==
    ASSUME DiskTypes, NameInv, DiskTypes', NameInv', RoomInv, DirSize' <= DirSize,
           \A s \in Servers : SameItem(s)
    PROVE  RoomInv'
  <1> SUFFICES ASSUME Limit # 0
               PROVE  \/ DirSize' + MaxSize <= Spare'
                      \/ \E s \in Making' : DirSize' + Size[Item(s)'.prompt] <= Spare'
    BY DEF RoomInv
  <1> DEFINE c == Cardinality(Servers \ Making)
             d == Cardinality(Servers \ Making')
  <1>1. Making \subseteq Servers /\ Making' \subseteq Making
    BY DEF Making, SameItem
  <1>2. /\ c \in Nat /\ d \in Nat /\ c <= d
        /\ \A s \in Making \ Making' : c + 1 <= d
    <2>1. c \in Nat /\ c <= d
      BY <1>1, SpareOf
    <2>2. d \in Nat
      <3>1. Making' \subseteq Servers
        BY <1>1
      <3> QED
        BY <3>1, SpareOf
    <2>3. ASSUME NEW s \in Making \ Making' PROVE c + 1 <= d
      <3>1. Cardinality(Servers \ (Making \ {s})) = c + 1
        BY <1>1, SpareOf
      <3>2. Making' \in SUBSET (Making \ {s}) /\ Making \ {s} \subseteq Servers
        BY <1>1
      <3>3. Cardinality(Servers \ (Making \ {s})) <= d
        BY <3>2, SpareOf
      <3> QED
        BY <3>1, <3>3
    <2> QED
      BY <2>1, <2>2, <2>3
  <1>3. MaxSize \in Nat /\ Limit \in Nat /\ DirSize \in Nat /\ DirSize' \in Nat
    BY MaxSizeBounds, DiskAssumption, DirSizeType
  <1>4. Spare = Limit + c * MaxSize /\ Spare' = Limit + d * MaxSize
    BY DEF Spare
  <1> HIDE DEF c, d
  <1>5. /\ c * MaxSize \in Nat /\ d * MaxSize \in Nat /\ c * MaxSize <= d * MaxSize
        /\ c + 1 <= d => c * MaxSize + MaxSize <= d * MaxSize
    BY <1>2, <1>3, Times
  <1>6. CASE DirSize + MaxSize <= Spare
    BY <1>3, <1>4, <1>5, <1>6
  <1>7. ASSUME NEW s \in Making, DirSize + Size[Item(s).prompt] <= Spare
        PROVE  \/ DirSize' + MaxSize <= Spare'
               \/ \E t \in Making' : DirSize' + Size[Item(t)'.prompt] <= Spare'
    <2>1. Size[Item(s).prompt] \in Nat
      BY MakingHas DEF Making
    <2>2. CASE s \in Making'
      <3>1. Item(s)'.prompt = Item(s).prompt
        BY <1>1, <2>2 DEF SameItem, Making
      <3>2. DirSize' + Size[Item(s)'.prompt] <= Spare'
        BY <1>3, <1>4, <1>5, <1>7, <2>1, <3>1
      <3> QED
        BY <2>2, <3>2
    <2>3. CASE s \notin Making'
      <3>1. c + 1 <= d
        BY <1>2, <2>3
      <3> QED
        BY <1>3, <1>4, <1>5, <1>7, <2>1, <3>1
    <2> QED
      BY <2>2, <2>3
  <1> QED
    BY <1>6, <1>7 DEF RoomInv

\* "make room first"
LEMMA MakeRoomRoom ==
    ASSUME DiskTypes, NameInv, DiskTypes', NameInv', NEW s \in Servers, MakeRoom(s)
    PROVE  RoomInv'
  <1> SUFFICES ASSUME Limit # 0
               PROVE  \E t \in Making' : DirSize' + Size[Item(t)'.prompt] <= Spare'
    BY DEF RoomInv
  <1> DEFINE total == Size[Item(s).prompt]
  <1>1. /\ ScanAndEvict(s, dir, entries[s], total) /\ total <= Limit
        /\ todo[s] # <<>> /\ todo' = todo /\ wpc' = [wpc EXCEPT ![s] = "room"]
    BY DEF MakeRoom, At, GoTo, Writing
  <1>2. todo[s] \in Seq(ItemRecords)
    BY DEF DiskTypes
  <1>3. Item(s) \in ItemRecords /\ Item(s)' = Item(s)
    BY <1>1, <1>2, HeadTailProperties DEF Item
  <1>4. total \in Nat
    BY <1>3, MaxSizeBounds DEF ItemRecords
  <1>5. dir \in Seq(FileRecords) /\ entries[s] \in Seq(EntryRecords) /\ Named(dir)
    BY DEF DiskTypes, NameInv
  <1> HIDE DEF total
  <1>6. DirSize' + total <= Limit
    BY <1>1, <1>4, <1>5, ScanFits
  <1>7. s \in Making'
    BY <1>1 DEF DiskTypes, Making
  <1>8. Limit \in Nat /\ Limit <= Spare' /\ Spare' \in Nat
    <2>1. Cardinality(Servers \ Making') \in Nat
      <3>1. Making' \subseteq Servers
        BY DEF Making
      <3> QED
        BY <3>1, SpareOf
    <2>2. Cardinality(Servers \ Making') * MaxSize \in Nat
      BY <2>1, MaxSizeBounds, Times
    <2> QED
      BY <2>2, DiskAssumption DEF Spare
  <1>9. DirSize' \in Nat
    BY DirSizeType
  <1>10. DirSize' + total <= Spare'
    <2> DEFINE size == DirSize'
               spare == Spare'
    <2>1. size \in Nat /\ spare \in Nat /\ size + total <= Limit /\ Limit <= spare /\ Limit \in Nat
      BY <1>6, <1>8, <1>9
    <2> HIDE DEF size, spare
    <2>2. size + total <= spare
      BY <1>4, <2>1
    <2> QED
      BY <2>2 DEF size, spare
  <1> QED
    BY <1>3, <1>7, <1>10 DEF total

\* A ".tmp" file does not count.
LEMMA WriteTmpRoom ==
    ASSUME DiskTypes, NameInv, DiskTypes', NameInv', RoomInv, NEW s \in Servers, WriteTmp(s)
    PROVE  RoomInv'
  <1> DEFINE f == [id |-> NewId, tmp |-> TRUE, key |-> Key[s], prompt |-> Item(s).prompt,
                   state |-> "good"]
  <1>1. /\ wpc[s] = "room" /\ todo[s] # <<>> /\ dir' = Append(dir, f)
        /\ todo' = [todo EXCEPT ![s][1].id = NewId] /\ wpc' = [wpc EXCEPT ![s] = "written"]
    BY DEF WriteTmp, At, GoTo, Writing
  <1>2. f.tmp
    OBVIOUS
  <1> HIDE DEF f
  <1>3. /\ Len(dir) \in Nat /\ DOMAIN dir = 1 .. Len(dir)
        /\ \A i \in DOMAIN dir' : (i \in DOMAIN dir /\ dir'[i] = dir[i]) \/ dir'[i] = f
    BY <1>1, LenProperties, AppendProperties DEF DiskTypes
  <1>4. ASSUME NEW k \in DOMAIN Bins(dir')
        PROVE  \E j \in DOMAIN Bins(dir) : Bins(dir)[j] = Bins(dir')[k]
    <2>1. PICK i \in DOMAIN dir' : Bin(dir'[i]) /\ Bins(dir')[k] = dir'[i]
      BY BinsAll DEF DiskTypes, NameInv
    <2>2. i \in DOMAIN dir /\ dir'[i] = dir[i] /\ Bin(dir[i])
      BY <1>2, <1>3, <2>1 DEF Bin
    <2>3. \E j \in DOMAIN Bins(dir) : Bins(dir)[j] = dir[i]
      BY <2>2, BinsAll DEF DiskTypes, NameInv
    <2> QED
      BY <2>1, <2>2, <2>3
  <1>5. DirSize' <= DirSize
    <2>1. Sized(Bins(dir)) /\ Sized(Bins(dir')) /\ Named(Bins(dir'))
      BY BinsAll DEF DiskTypes, NameInv
    <2> QED
      BY <1>4, <2>1, SumOfNamed DEF DirSize
  <1>6. \A t \in Servers : SameItem(t)
    <2>1. todo[s] \in Seq(ItemRecords) /\ Item(s) = todo[s][1] /\ 1 \in DOMAIN todo[s]
      BY <1>1 DEF DiskTypes, Item
    <2>2. /\ todo'[s] = [todo[s] EXCEPT ![1].id = NewId]
          /\ \A t \in Servers \ {s} : todo'[t] = todo[t] /\ wpc'[t] = wpc[t]
      BY <1>1 DEF DiskTypes
    <2>3. todo'[s] \in Seq(ItemRecords) /\ todo'[s] # <<>>
      BY <1>1 DEF DiskTypes, NameInv, Writing
    <2>4. Item(s)' = todo'[s][1]
      BY <2>3 DEF Item
    <2>5. Item(s)'.prompt = Item(s).prompt
      BY <1>1, <2>1, <2>2, <2>4, MakingHas DEF ItemRecords
    <2>6. \A t \in Servers \ {s} : Item(t)' = Item(t)
      BY <2>2 DEF Item
    <2> QED
      BY <1>1, <2>2, <2>5, <2>6 DEF SameItem, Making
  <1> QED
    BY <1>5, <1>6, RoomKept

\* Once renamed the file counts, and its server needs no more room.
LEMMA RenameRoom ==
    ASSUME DiskTypes, NameInv, DiskTypes', NameInv', RoomInv, NEW s \in Servers, Rename(s)
    PROVE  RoomInv'
  <1> SUFFICES ASSUME Limit # 0
               PROVE  \/ DirSize' + MaxSize <= Spare'
                      \/ \E t \in Making' : DirSize' + Size[Item(t)'.prompt] <= Spare'
    BY DEF RoomInv
  <1> DEFINE item == Item(s)
             size == Size[item.prompt]
             c == Cardinality(Servers \ Making)
  <1>1. /\ wpc[s] = "written"
        /\ dir' = [i \in DOMAIN dir |-> IF dir[i].id = item.id THEN [dir[i] EXCEPT !.tmp = FALSE]
                                        ELSE dir[i]]
        /\ wpc' = [wpc EXCEPT ![s] = "renamed"] /\ todo' = todo
    BY DEF Rename, At, GoTo
  <1>2. Making \subseteq Servers /\ s \in Making /\ Making' = Making \ {s}
    BY <1>1 DEF DiskTypes, Making
  <1>3. item \in ItemRecords /\ item.prompt \in Prompts /\ size \in Nat /\ size <= MaxSize
    BY <1>1, MakingHas, MaxSizeBounds
  <1>4. \A i \in DOMAIN dir : dir[i].id = item.id => dir[i].prompt = item.prompt
    BY <1>1 DEF NameInv, Holds, Own
  <1>5. DirSize' <= DirSize + size
    <2> DEFINE b == Bins(dir)
               f == [id |-> item.id, tmp |-> FALSE, key |-> Key[s], prompt |-> item.prompt,
                     state |-> "good"]
               q == Append(b, f)
    <2>1. b \in Seq(FileRecords) /\ Sized(b) /\ Sized(Bins(dir')) /\ Named(Bins(dir'))
      BY BinsAll DEF DiskTypes, NameInv
    <2>2. f \in FileRecords /\ f.prompt \in Prompts /\ f.id = item.id /\ f.prompt = item.prompt
      <3>1. item.id \in FileIds
        BY <1>1 DEF NameInv, Holds
      <3> QED
        BY <1>3, <3>1 DEF FileRecords
    <2>3. ASSUME NEW i \in DOMAIN dir, Bin(dir[i]) PROVE \E j \in DOMAIN b : b[j] = dir[i]
      BY <2>3, BinsAll DEF DiskTypes, NameInv
    <2>4. ASSUME NEW k \in DOMAIN Bins(dir')
          PROVE  \E i \in DOMAIN dir' : Bin(dir'[i]) /\ Bins(dir')[k] = dir'[i]
      BY BinsAll DEF DiskTypes, NameInv
    <2> HIDE DEF b, f
    <2>5. Sized(q) /\ Sum(q) = Sum(b) + size
      BY <2>1, <2>2, SumAppend
    <2>6. /\ DOMAIN q = 1 .. Len(b) + 1 /\ Len(b) \in Nat /\ DOMAIN b = 1 .. Len(b)
          /\ q[Len(b) + 1] = f /\ \A j \in DOMAIN b : q[j] = b[j]
      BY <2>1, AppendProperties, LenProperties
    <2> HIDE DEF q
    <2>7. ASSUME NEW k \in DOMAIN Bins(dir')
          PROVE  \E j \in DOMAIN q : q[j].id = Bins(dir')[k].id /\ q[j].prompt = Bins(dir')[k].prompt
      <3>1. PICK i \in DOMAIN dir' : Bin(dir'[i]) /\ Bins(dir')[k] = dir'[i]
        BY <2>4
      <3>2. i \in DOMAIN dir
        BY <1>1
      <3>3. CASE dir[i].id = item.id
        <4>1. dir[i] \in FileRecords
          BY <3>2, ElementOfSeq, LenProperties DEF DiskTypes
        <4>2. dir'[i].id = item.id /\ dir'[i].prompt = item.prompt
          BY <1>1, <1>4, <3>2, <3>3, <4>1 DEF FileRecords
        <4>3. Len(b) + 1 \in DOMAIN q
          BY <2>6
        <4> QED
          BY <2>2, <2>6, <3>1, <4>2, <4>3
      <3>4. CASE dir[i].id # item.id
        <4>1. dir'[i] = dir[i] /\ Bin(dir[i])
          BY <1>1, <3>1, <3>2, <3>4
        <4>2. PICK j \in DOMAIN b : b[j] = dir[i]
          BY <2>3, <3>2, <4>1
        <4>3. j \in DOMAIN q /\ q[j] = b[j]
          BY <2>6
        <4> QED
          BY <3>1, <4>1, <4>2, <4>3
      <3> QED
        BY <3>3, <3>4
    <2>8. Sum(Bins(dir')) <= Sum(q)
      BY <2>1, <2>5, <2>7, SumOfNamed
    <2> QED
      BY <2>5, <2>8 DEF DirSize, b
  <1>6. /\ Cardinality(Servers \ Making') = c + 1 /\ c \in Nat
    BY <1>2, SpareOf
  <1>7. MaxSize \in Nat /\ Limit \in Nat /\ DirSize \in Nat /\ DirSize' \in Nat
    BY MaxSizeBounds, DiskAssumption, DirSizeType
  <1>8. Spare = Limit + c * MaxSize /\ Spare' = Limit + (c + 1) * MaxSize
    BY <1>6 DEF Spare
  <1>9. RoomInv /\ \A t \in Making : Item(t).prompt \in Prompts
    BY MakingHas DEF Making
  <1> HIDE DEF c
  <1>10. (c + 1) * MaxSize = c * MaxSize + MaxSize /\ c * MaxSize \in Nat
    BY <1>6, <1>7
  <1>11. Spare' = Spare + MaxSize /\ Spare \in Nat
    BY <1>7, <1>8, <1>10
  <1>12. CASE DirSize + MaxSize <= Spare
    <2>1. size \in Nat /\ size <= MaxSize /\ DirSize' <= DirSize + size
      BY <1>3, <1>5
    <2> HIDE DEF size
    <2>2. DirSize' + MaxSize <= Spare'
      BY <1>7, <1>8, <1>10, <1>12, <2>1
    <2> QED
      BY <2>2
  <1>13. ASSUME NEW t \in Making, DirSize + Size[Item(t).prompt] <= Spare
         PROVE  \/ DirSize' + MaxSize <= Spare'
                \/ \E u \in Making' : DirSize' + Size[Item(u)'.prompt] <= Spare'
    <2>1. Size[Item(t).prompt] \in Nat
      BY <1>9, MaxSizeBounds
    <2>2. CASE t = s
      <3>1. DirSize + size <= Spare
        BY <1>13, <2>2
      <3> HIDE DEF size
      <3> QED
        BY <1>3, <1>5, <1>7, <1>11, <3>1
    <2>3. CASE t # s
      <3>1. t \in Making' /\ Item(t)' = Item(t)
        BY <1>1, <1>2, <2>3 DEF Item
      <3>2. DirSize' + Size[Item(t)'.prompt] <= Spare'
        BY <1>3, <1>5, <1>7, <1>11, <1>13, <2>1, <3>1
      <3> QED
        BY <3>1, <3>2
    <2> QED
      BY <2>2, <2>3
  <1> QED
    BY <1>9, <1>12, <1>13 DEF RoomInv

-----------------------------------------------------------------------------
(* What a step does to the directory and to the writes *)

\* A server that is down has nothing under way.
DownInv == \A s \in Servers : s \notin up => wpc[s] = "begin"

\* In the middle of a write a server neither looks at the directory nor changes its index.
Steady(t) ==
    wpc'[t] # "begin" => wpc'[t] = wpc[t] /\ Item(t)' = Item(t) /\ entries'[t] = entries[t]

LEMMA SteadySame ==
    ASSUME \A t \in Servers : Steady(t)
    PROVE  \A t \in Servers : SameItem(t)
  BY DEF Steady, SameItem, Making

\* A step of server s, which has nothing under way after it.
LEMMA OthersSteady ==
    ASSUME NEW s \in Servers, wpc'[s] = "begin",
           \A t \in Servers \ {s} : todo'[t] = todo[t] /\ wpc'[t] = wpc[t] /\ entries'[t] = entries[t]
    PROVE  \A t \in Servers : Steady(t)
  BY DEF Steady, Item

\* What the main thread does to the writes of its server.
LEMMA MainTodo ==
    ASSUME DiskTypes, NameInv, wpc' = wpc, ~Writing(Self),
           todo' = todo \/ \E q : Spill(q),
           entries' = entries \/ \E q : entries' = [entries EXCEPT ![Self] = q]
    PROVE  \A t \in Servers : Steady(t)
  <1>1. \A t \in Servers \ {Self} : todo'[t] = todo[t]
    <2>1. ASSUME NEW q, Spill(q) PROVE \A t \in Servers \ {Self} : todo'[t] = todo[t]
      <3>1. \E items : todo' = [todo EXCEPT ![Self] = items]
        BY <2>1 DEF Spill
      <3> QED
        BY <3>1 DEF DiskTypes
    <2> QED
      BY <2>1
  <1>2. \A t \in Servers \ {Self} : entries'[t] = entries[t]
    BY DEF DiskTypes
  <1>3. wpc[Self] = "begin"
    BY CacheAssumption DEF NameInv
  <1> QED
    BY <1>1, <1>2, <1>3, CacheAssumption, OthersSteady

\* The steps of the main thread, as the disk tier sees them.
LEMMA MainSteps ==
    ASSUME IInv,
           \/ \E i \in Slots : ClearSlot(i) \/ \E p \in Prompts : SelectSlot(i, p) \/ Continue(i, p)
           \/ IdleSlot \/ BusySlot
           \/ LoadNothing \/ LoadRam \/ LoadRamFails \/ LoadRamHalf \/ LoadDisk \/ LoadDiskFails
           \/ Flush \/ FlushSlot \/ FlushToDisk
    PROVE  /\ \A t \in Servers : Steady(t)
           /\ dir' = dir \/ ReadBad(Self, BestFile)
  <1>1. /\ wpc' = wpc /\ ~Writing(Self)
        /\ todo' = todo \/ \E q : Spill(q)
        /\ dir' = dir \/ ReadBad(Self, BestFile)
        /\ entries' = entries \/ \E q : entries' = [entries EXCEPT ![Self] = q]
    <2>1. ASSUME NEW i, SaveInRam(i) PROVE \E q : Spill(q)
      BY <2>1 DEF SaveInRam
    <2>2. ASSUME NEW i, prompt_save(i) \/ SaveIdle(i) PROVE todo' = todo \/ \E q : Spill(q)
      BY <2>1, <2>2 DEF prompt_save, SaveIdle, Stage
    <2>3. ASSUME NEW from, Proceed(from) PROVE wpc' = wpc /\ \E q : Spill(q)
      BY <2>3 DEF Proceed
    <2>4. CASE \E i \in Slots : ClearSlot(i) \/ \E p \in Prompts : SelectSlot(i, p) \/ Continue(i, p)
      BY <2>2, <2>4 DEF ClearSlot, SelectSlot, Continue, Main, dvars
    <2>5. CASE IdleSlot \/ BusySlot
      BY <2>2, <2>5 DEF IdleSlot, BusySlot, Main, dvars
    <2>6. CASE LoadNothing \/ LoadRam \/ LoadRamFails \/ LoadRamHalf \/ LoadDisk
      BY <2>3, <2>6 DEF LoadNothing, LoadRam, LoadRamFails, LoadRamHalf, LoadDisk, Main
    <2>7. CASE LoadDiskFails
      BY <2>3, <2>7 DEF LoadDiskFails, Main, ReadGone, ReadBad
    <2>8. CASE Flush \/ FlushSlot \/ FlushToDisk
      BY <2>2, <2>8 DEF Flush, FlushSlot, FlushToDisk, Main, dvars
    <2> QED
      BY <2>4, <2>5, <2>6, <2>7, <2>8
  <1>2. DiskTypes /\ NameInv
    BY TypesSplit DEF IInv
  <1> QED
    BY <1>1, <1>2, MainTodo

\* The steps by which files come into the directory or are made room for.
Adds(s) == MakeRoom(s) \/ WriteTmp(s) \/ Rename(s)

\* The steps that only remove some.
Removes(s) ==
    \/ Open(s) /\ UNCHANGED <<todo, wpc>>
    \/ RenameFails(s) \/ Supersede(s) \/ Crash(s)
    \/ \E e : ReadBad(s, e) /\ UNCHANGED <<todo, wpc>>
    \/ s = Self /\ LoadDiskFails /\ ReadBad(s, BestFile)

\* A step adds, or removes, or changes no file; but for the additions every write
\* that is not over after it is as it was.
LEMMA DiskSteps ==
    ASSUME IInv, DownInv, [Next]_vars, ~\E s \in Servers : Adds(s)
    PROVE  /\ \A t \in Servers : Steady(t)
           /\ dir' = dir \/ \E s \in Servers : Removes(s)
  <1>0. DiskTypes /\ NameInv /\ Self \in Servers
    BY TypesSplit, CacheAssumption DEF IInv
  <1>1. ASSUME NEW s \in Servers, Write(s)
        PROVE  (\A t \in Servers : Steady(t)) /\ (dir' = dir \/ Removes(s))
    <2>1. WriteSkipped(s) \/ WriteFails(s) \/ RenameFails(s) \/ Supersede(s)
      BY <1>1 DEF Write, Adds
    <2>2. Writing(s) /\ Done(s) /\ (entries' = entries \/ \E q : entries' = [entries EXCEPT ![s] = q])
      BY <2>1 DEF WriteSkipped, WriteFails, RenameFails, Supersede, At
    <2>3. \A t \in Servers : Steady(t)
      <3>1. \A t \in Servers \ {s} : entries'[t] = entries[t]
        BY <1>0, <2>2 DEF DiskTypes
      <3> QED
        BY <1>0, <2>2, <3>1, DoneTypes, OthersSteady
    <2>4. dir' = dir \/ Removes(s)
      BY <2>1 DEF WriteSkipped, WriteFails, Removes
    <2> QED
      BY <2>3, <2>4
  <1>2. ASSUME NEW s \in Servers, Crash(s)
        PROVE  (\A t \in Servers : Steady(t)) /\ Removes(s)
    <2>1. /\ todo' = [todo EXCEPT ![s] = <<>>] /\ wpc' = [wpc EXCEPT ![s] = "begin"]
          /\ entries' = [entries EXCEPT ![s] = <<>>]
      BY <1>2 DEF Crash
    <2>2. /\ wpc'[s] = "begin"
          /\ \A t \in Servers \ {s} :
                todo'[t] = todo[t] /\ wpc'[t] = wpc[t] /\ entries'[t] = entries[t]
      BY <1>0, <2>1 DEF DiskTypes
    <2> QED
      BY <1>2, <2>2, OthersSteady DEF Removes
  <1>3. ASSUME NEW s \in Servers, wpc[s] = "begin", UNCHANGED <<todo, wpc>>,
               entries' = entries \/ \E q : entries' = [entries EXCEPT ![s] = q]
        PROVE  \A t \in Servers : Steady(t)
    <2>1. \A t \in Servers \ {s} : entries'[t] = entries[t]
      BY <1>0, <1>3 DEF DiskTypes
    <2> QED
      BY <1>3, <2>1, OthersSteady
  <1>12. ASSUME NEW s \in Servers, Open(s), UNCHANGED <<todo, wpc>>
         PROVE  (\A t \in Servers : Steady(t)) /\ Removes(s)
    <2>1. wpc[s] = "begin" /\ \E q : entries' = [entries EXCEPT ![s] = q]
      BY <1>12 DEF Open, DownInv, ScanAndEvict
    <2> QED
      BY <1>3, <1>12, <2>1 DEF Removes
  <1>4. ASSUME NEW s \in Servers \ {Self}, Neighbour(s)
        PROVE  (\A t \in Servers : Steady(t)) /\ (dir' = dir \/ Removes(s))
    <2>1. CASE Open(s) /\ UNCHANGED <<todo, wpc>>
      BY <1>12, <2>1
    <2>2. CASE Crash(s) \/ Write(s)
      BY <1>1, <1>2, <2>2
    <2>3. ASSUME ~Writing(s), NEW p \in Spilled,
                 todo' = [todo EXCEPT ![s] = <<[id |-> NoFile, prompt |-> p]>>],
                 UNCHANGED <<dir, entries, up, wpc>>
          PROVE  (\A t \in Servers : Steady(t)) /\ dir' = dir
      <3>1. wpc'[s] = "begin" /\ \A t \in Servers \ {s} : todo'[t] = todo[t] /\ wpc'[t] = wpc[t]
        BY <1>0, <2>3 DEF NameInv, DiskTypes
      <3> QED
        BY <2>3, <3>1, OthersSteady
    <2>4. ASSUME ~Writing(s), NEW e, ReadGone(s, e) \/ ReadBad(s, e), UNCHANGED <<todo, wpc>>
          PROVE  (\A t \in Servers : Steady(t)) /\ (dir' = dir \/ Removes(s))
      <3>1. wpc[s] = "begin" /\ \E q : entries' = [entries EXCEPT ![s] = q]
        BY <1>0, <2>4 DEF NameInv, ReadGone, ReadBad
      <3> QED
        BY <1>3, <2>4, <3>1 DEF Removes, ReadGone
    <2> QED
      BY <1>4, <2>1, <2>2, <2>3, <2>4 DEF Neighbour
  <1>5. CASE \/ \E i \in Slots : ClearSlot(i) \/ \E p \in Prompts : SelectSlot(i, p) \/ Continue(i, p)
             \/ IdleSlot \/ BusySlot
             \/ LoadNothing \/ LoadRam \/ LoadRamFails \/ LoadRamHalf \/ LoadDisk
             \/ Flush \/ FlushSlot \/ FlushToDisk
    <2>1. \A t \in Servers : Steady(t)
      BY <1>5, MainSteps
    <2>2. dir' = dir
      BY <1>5 DEF ClearSlot, SelectSlot, Continue, IdleSlot, BusySlot, LoadNothing, LoadRam,
                  LoadRamFails, LoadRamHalf, LoadDisk, Flush, FlushSlot, FlushToDisk, dvars
    <2> QED
      BY <2>1, <2>2
  <1>6. CASE LoadDiskFails
    BY <1>0, <1>6, MainSteps DEF Removes
  <1>7. CASE Leave
    <2>1. wpc[Self] = "begin"
      BY <1>0, <1>7 DEF Leave, Main, NameInv
    <2> QED
      BY <1>0, <1>3, <1>7, <2>1 DEF Leave
  <1>8. CASE Start
    BY <1>0, <1>8, <1>12 DEF Start
  <1>9. CASE CrashSelf
    BY <1>0, <1>2, <1>9 DEF CrashSelf
  <1>10. CASE Write(Self)
    BY <1>0, <1>1, <1>10
  <1>11. CASE UNCHANGED vars
    BY <1>11 DEF vars, dvars, Steady, Item
  <1> QED
    BY <1>1, <1>4, <1>5, <1>6, <1>7, <1>8, <1>9, <1>10, <1>11 DEF Next

LEMMA OpenLeaves ==
    ASSUME DiskTypes, NameInv, NEW s \in Servers, Open(s)
    PROVE  Left(dir', dir)
  <1>1. PICK stale \in SUBSET {f \in {dir[i] : i \in DOMAIN dir} : f.tmp} :
               ScanAndEvict(s, Without(dir, {f.id : f \in stale}), <<>>, 0)
    BY DEF Open
  <1> DEFINE d == Without(dir, {f.id : f \in stale})
             none == <<>>
  <1>2. d \in Seq(FileRecords) /\ Left(d, dir) /\ none \in Seq(EntryRecords)
    BY WithoutLeft DEF DiskTypes
  <1>3. ScanAndEvict(s, d, none, 0)
    BY <1>1
  <1> HIDE DEF d, none
  <1>4. Left(dir', d)
    BY <1>2, <1>3, ScanLeaves DEF DiskTypes
  <1> QED
    BY <1>2, <1>4, LeftTransitive

LEMMA RemovesLeaves ==
    ASSUME DiskTypes, NameInv, NEW s \in Servers, Removes(s)
    PROVE  Left(dir', dir)
  <1>1. CASE Open(s)
    BY <1>1, OpenLeaves
  <1>2. CASE RenameFails(s) \/ Supersede(s) \/ Crash(s)
    <2>1. dir' = dir \/ \E ids : dir' = Without(dir, ids)
      BY <1>2 DEF RenameFails, Supersede, Crash
    <2> QED
      BY <2>1, WithoutLeft, LeftItself DEF DiskTypes
  <1>3. ASSUME NEW e, ReadBad(s, e) PROVE Left(dir', dir)
    BY <1>3, ReadLeaves
  <1> QED
    BY <1>1, <1>2, <1>3 DEF Removes

LEMMA DownStep ==
    ASSUME IInv, DownInv, [Next]_vars
    PROVE  DownInv'
  <1>0. DiskTypes /\ NameInv /\ Self \in Servers
    BY TypesSplit, CacheAssumption DEF IInv
  <1>1. ASSUME NEW s \in Servers, Adds(s) PROVE DownInv'
    <2>1. s \in up /\ up' = up /\ \A t \in Servers \ {s} : wpc'[t] = wpc[t]
      BY <1>0, <1>1 DEF Adds, MakeRoom, WriteTmp, Rename, At, GoTo, DiskTypes
    <2> QED
      BY <2>1 DEF DownInv
  <1>2. CASE ~\E s \in Servers : Adds(s)
    <2>1. \A t \in Servers : wpc'[t] # "begin" => wpc'[t] = wpc[t]
      BY <1>2, DiskSteps DEF Steady
    <2>2. \A t \in Servers : t \in up /\ t \notin up' => wpc'[t] = "begin"
      <3>1. ASSUME NEW s \in Servers, Crash(s)
            PROVE  \A t \in Servers : t \in up /\ t \notin up' => wpc'[t] = "begin"
        BY <1>0, <3>1 DEF Crash, DiskTypes
      <3>2. CASE Leave
        BY <1>0, <3>2 DEF Leave, Main, NameInv
      <3>3. ASSUME NEW s \in Servers, Write(s) PROVE up' = up
        BY <3>3 DEF Write, WriteSkipped, WriteFails, MakeRoom, WriteTmp, Rename, RenameFails, Supersede
      <3>4. ASSUME NEW s \in Servers, Neighbour(s) PROVE Crash(s) \/ up \subseteq up'
        BY <3>3, <3>4 DEF Neighbour, Open
      <3>5. CASE \/ \E i \in Slots : ClearSlot(i) \/ \E p \in Prompts : SelectSlot(i, p) \/ Continue(i, p)
                 \/ IdleSlot \/ BusySlot
                 \/ LoadNothing \/ LoadRam \/ LoadRamFails \/ LoadRamHalf \/ LoadDisk \/ LoadDiskFails
                 \/ Flush \/ FlushSlot \/ FlushToDisk
        <4>1. ASSUME NEW from, Proceed(from) PROVE up' = up
          BY <4>1 DEF Proceed
        <4> QED
          BY <3>5, <4>1 DEF ClearSlot, SelectSlot, Continue, IdleSlot, BusySlot, LoadNothing, LoadRam,
             LoadRamFails, LoadRamHalf, LoadDisk, LoadDiskFails, Flush, FlushSlot, FlushToDisk, dvars
      <3>6. CASE Start \/ CrashSelf
        BY <1>0, <3>1, <3>6 DEF Start, Open, CrashSelf
      <3>7. CASE UNCHANGED vars
        BY <3>7 DEF vars, dvars
      <3> QED
        BY <1>0, <3>1, <3>2, <3>3, <3>4, <3>5, <3>6, <3>7 DEF Next
    <2> QED
      BY <2>1, <2>2 DEF DownInv
  <1> QED
    BY <1>1, <1>2

LEMMA RoomStep ==
    ASSUME IInv, IInv', DownInv, RoomInv, [Next]_vars
    PROVE  RoomInv'
  <1>1. DiskTypes /\ NameInv /\ DiskTypes' /\ NameInv'
    BY TypesSplit, TypesSplitNext DEF IInv
  <1>2. ASSUME NEW s \in Servers, Adds(s) PROVE RoomInv'
    BY <1>1, <1>2, MakeRoomRoom, WriteTmpRoom, RenameRoom DEF Adds
  <1>3. CASE ~\E s \in Servers : Adds(s)
    <2>1. (\A t \in Servers : SameItem(t)) /\ Left(dir', dir)
      <3>1. /\ \A t \in Servers : Steady(t)
            /\ dir' = dir \/ \E s \in Servers : Removes(s)
        BY <1>3, DiskSteps
      <3>2. ASSUME NEW s \in Servers, Removes(s) PROVE Left(dir', dir)
        BY <1>1, <3>2, RemovesLeaves
      <3>3. ASSUME dir' = dir PROVE Left(dir', dir)
        BY <3>3, LeftItself
      <3> QED
        BY <3>1, <3>2, <3>3, SteadySame
    <2>2. DirSize' <= DirSize
      BY <1>1, <2>1, LeftTakesLess DEF DirSize, DiskTypes, NameInv
    <2> QED
      BY <1>1, <2>1, <2>2, RoomKept
  <1> QED
    BY <1>2, <1>3

\* alloc() makes room before it adds a state.
LEMMA SaveInRamFits ==
    ASSUME CacheTypes, NEW i \in Slots, slot[i].prompt # <<>>, Size[slot[i].prompt] <= RamLimit,
           SaveInRam(i)
    PROVE  RamInv'
  <1> DEFINE new  == Size[slot[i].prompt]
             I    == {j \in DOMAIN states : ~Contains(slot[i].prompt, states[j].prompt)}
             rest == Picked(states, I)
             tail(n) == SubSeq(rest, n + 1, Len(rest))
             fits == {n \in 0..Len(rest) : n = Len(rest) \/ Sum(tail(n)) + new <= RamLimit}
             least == CHOOSE m \in fits : \A l \in fits : m <= l
  <1>1. states' = Append(tail(least), State(i))
    BY DEF SaveInRam
  <1>2. rest \in Seq(StateRecords)
    <2>1. I \in SUBSET DOMAIN states
      OBVIOUS
    <2> HIDE DEF I
    <2> QED
      BY <2>1, PickedType DEF CacheTypes
  <1> HIDE DEF rest
  <1>3. Len(rest) \in Nat
    BY <1>2, LenProperties
  <1>4. fits \in SUBSET Nat /\ fits \in SUBSET (0 .. Len(rest)) /\ Len(rest) \in fits
    BY <1>3
  <1>5. \A n \in fits : n = Len(rest) \/ Sum(tail(n)) + new <= RamLimit
    OBVIOUS
  <1> HIDE DEF fits
  <1>6. least \in fits
    <2>1. \E m \in fits : \A l \in fits : m <= l
      BY <1>4, Smallest
    <2> QED
      BY <2>1
  <1> HIDE DEF least
  <1>7. least \in 0 .. Len(rest)
    BY <1>4, <1>6
  <1> DEFINE q == tail(least)
  <1>8. q \in Seq(StateRecords)
    BY <1>2, <1>7, Rest
  <1>9. State(i) \in StateRecords /\ State(i).prompt = slot[i].prompt /\ slot[i].prompt \in Prompts
    BY StateType DEF State, CacheTypes
  <1>10. new \in Nat /\ new <= RamLimit /\ RamLimit \in Nat
    BY <1>9, MaxSizeBounds, CacheAssumption
  <1>11. Sum(q) + new <= RamLimit
    <2>1. CASE least = Len(rest)
      <3>1. q = <<>>
        BY <1>2, <1>3, <2>1
      <3> HIDE DEF q, new
      <3> QED
        BY <1>10, <3>1, SumEmpty
    <2>2. CASE least # Len(rest)
      BY <1>5, <1>6, <2>2
    <2> QED
      BY <2>1, <2>2
  <1>12. states' = Append(q, State(i))
    BY <1>1
  <1> HIDE DEF q
  <1>13. Sized(q)
    BY <1>8, SizedTypes
  <1>14. Sum(states') = Sum(q) + new
    BY <1>8, <1>9, <1>12, <1>13, SumAppend
  <1> QED
    BY <1>11, <1>14 DEF RamInv

LEMMA SaveFits ==
    ASSUME CacheTypes, RamInv, NEW i \in Slots, prompt_save(i) \/ SaveIdle(i)
    PROVE  RamInv'
  <1>1. CASE states' = states
    BY <1>1 DEF RamInv
  <1>2. CASE slot[i].prompt # <<>> /\ ~(Size[slot[i].prompt] > RamLimit) /\ SaveInRam(i)
    <2>1. Size[slot[i].prompt] <= RamLimit
      <3>1. slot[i].prompt \in Prompts
        BY <1>2 DEF CacheTypes
      <3>2. Size[slot[i].prompt] \in Nat /\ RamLimit \in Nat
        BY <3>1, MaxSizeBounds, CacheAssumption
      <3> QED
        BY <1>2, <3>2
    <2> QED
      BY <1>2, <2>1, SaveInRamFits
  <1> QED
    BY <1>1, <1>2 DEF prompt_save, SaveIdle, Stage

LEMMA RamStep ==
    ASSUME IInv, RamInv, [Next]_vars
    PROVE  RamInv'
  <1>0. CacheTypes
    BY TypesSplit DEF IInv
  <1>1. CASE states' = states
    BY <1>1 DEF RamInv
  <1>2. ASSUME NEW i \in Slots, prompt_save(i) \/ SaveIdle(i) PROVE RamInv'
    BY <1>0, <1>2, SaveFits
  <1>3. CASE LoadRam
    <2>1. PICK I \in SUBSET DOMAIN states : states' = Picked(states, I)
      BY <1>3 DEF LoadRam
    <2>2. Sized(states) /\ states \in Seq(StateRecords)
      BY <1>0, SizedTypes DEF CacheTypes
    <2>3. Sum(states') <= Sum(states) /\ Sum(states') \in Nat /\ Sum(states) \in Nat
      BY <2>1, <2>2, SumPicked, BytesFinite
    <2> QED
      BY <2>3, CacheAssumption DEF RamInv
  <1>4. CASE LoadRamHalf
    <2>1. \E at : states' = [states EXCEPT ![at].main = FALSE]
      BY <1>4 DEF LoadRamHalf
    <2>2. DOMAIN states' = DOMAIN states
      BY <2>1
    <2>3. \A k \in DOMAIN states : states'[k].prompt = states[k].prompt
      <3>1. \A k \in DOMAIN states : states[k] \in StateRecords
        BY <1>0, ElementOfSeq, LenProperties DEF CacheTypes
      <3> QED
        BY <2>1, <3>1 DEF StateRecords
    <2>4. Sized(states) /\ Sized(states')
      <3>1. Sized(states)
        BY <1>0, SizedTypes DEF CacheTypes
      <3>2. Len(states') = Len(states)
        BY <1>0, <2>1, ExceptSeq DEF CacheTypes
      <3> QED
        BY <2>2, <2>3, <3>1, <3>2 DEF Sized
    <2>5. Sum(states') <= Sum(states)
      <3> DEFINE h == [k \in DOMAIN states' |-> k]
      <3>1. /\ h \in [DOMAIN states' -> DOMAIN states]
            /\ \A k, l \in DOMAIN states' : h[k] = h[l] => k = l
            /\ \A k \in DOMAIN states' : states[h[k]].prompt = states'[k].prompt
        BY <2>2, <2>3
      <3> HIDE DEF h
      <3> QED
        BY <2>4, <3>1, SumInjects
    <2>6. Sum(states') \in Nat /\ Sum(states) \in Nat
      BY <2>4, BytesFinite
    <2> QED
      BY <2>5, <2>6, CacheAssumption DEF RamInv
  <1>5. CASE states' = <<>>
    BY <1>5, SumEmpty, CacheAssumption DEF RamInv
  <1>6. saving \in 1 .. NSlots => saving \in Slots
    BY DEF Slots
  <1>7. CASE \E i \in Slots : ClearSlot(i) \/ \E p \in Prompts : SelectSlot(i, p) \/ Continue(i, p)
    BY <1>1, <1>2, <1>7 DEF ClearSlot, SelectSlot, Continue
  <1>8. CASE IdleSlot \/ BusySlot
    <2>1. saving \in Slots \/ BusySlot
      BY <1>8 DEF IInv, SavingInv, IdleSlot, Main
    <2> QED
      BY <1>1, <1>2, <1>8, <2>1 DEF IdleSlot, BusySlot
  <1>9. CASE LoadNothing \/ LoadRamFails \/ LoadDisk \/ LoadDiskFails \/ Flush \/ FlushToDisk
    BY <1>1, <1>9 DEF LoadNothing, LoadRamFails, LoadDisk, LoadDiskFails, Flush, FlushToDisk
  <1>10. CASE FlushSlot
    <2>1. saving \in Slots
      BY <1>0, <1>10, CacheAssumption DEF FlushSlot, CacheTypes, Slots
    <2> QED
      BY <1>1, <1>2, <1>10, <2>1 DEF FlushSlot
  <1>11. CASE Leave \/ CrashSelf
    BY <1>5, <1>11 DEF Leave, CrashSelf, Lose
  <1>12. CASE Start \/ UNCHANGED cvars \/ UNCHANGED vars
    BY <1>1, <1>12 DEF Start, cvars, vars
  <1>13. ASSUME NEW s \in Servers \ {Self}, Neighbour(s) PROVE RamInv'
    BY <1>12, <1>13 DEF Neighbour
  <1> QED
    BY <1>3, <1>4, <1>7, <1>8, <1>9, <1>10, <1>11, <1>12, <1>13 DEF Next

-----------------------------------------------------------------------------
(* The order of the files *)

\* d is q without some of its elements, in the same order.
Remains(d, q) ==
    \E f \in [DOMAIN d -> DOMAIN q] :
        /\ \A k, l \in DOMAIN d : k < l => f[k] < f[l]
        /\ \A k \in DOMAIN d : d[k] = q[f[k]]

Has(d, x) == \E k \in DOMAIN d : d[k] = x

LEMMA RemainsItself ==
    ASSUME NEW q
    PROVE  Remains(q, q)
  <1> DEFINE f == [k \in DOMAIN q |-> k]
  <1>1. /\ f \in [DOMAIN q -> DOMAIN q]
        /\ \A k, l \in DOMAIN q : k < l => f[k] < f[l]
        /\ \A k \in DOMAIN q : q[k] = q[f[k]]
    OBVIOUS
  <1> HIDE DEF f
  <1> QED
    BY <1>1 DEF Remains

LEMMA RemainsTransitive ==
    ASSUME NEW d, NEW c, NEW q, Remains(d, c), Remains(c, q)
    PROVE  Remains(d, q)
  <1>1. PICK f \in [DOMAIN d -> DOMAIN c] :
           /\ \A k, l \in DOMAIN d : k < l => f[k] < f[l]
           /\ \A k \in DOMAIN d : d[k] = c[f[k]]
    BY DEF Remains
  <1>2. PICK g \in [DOMAIN c -> DOMAIN q] :
           /\ \A k, l \in DOMAIN c : k < l => g[k] < g[l]
           /\ \A k \in DOMAIN c : c[k] = q[g[k]]
    BY DEF Remains
  <1> DEFINE h == [k \in DOMAIN d |-> g[f[k]]]
  <1>3. /\ h \in [DOMAIN d -> DOMAIN q]
        /\ \A k, l \in DOMAIN d : k < l => h[k] < h[l]
        /\ \A k \in DOMAIN d : d[k] = q[h[k]]
    BY <1>1, <1>2
  <1> HIDE DEF h
  <1> QED
    BY <1>3 DEF Remains

LEMMA PickedRemains ==
    ASSUME NEW S, NEW q \in Seq(S), NEW I \in SUBSET DOMAIN q
    PROVE  /\ Remains(Picked(q, I), q)
           /\ \A i \in I : Has(Picked(q, I), q[i])
           /\ \A k \in DOMAIN Picked(q, I) : \E i \in I : Picked(q, I)[k] = q[i]
  <1> DEFINE p == Picked(q, I)
             n == Cardinality(I)
  <1>1. /\ DOMAIN p = 1 .. n
        /\ \A i \in I : \E k \in DOMAIN p : p[k] = q[i]
        /\ \A k \in DOMAIN p : \E i \in I : p[k] = q[i]
    BY PickedType
  <1>2. PICK f \in [1 .. n -> I] :
               /\ \A k, l \in 1 .. n : k < l => f[k] < f[l]
               /\ \A k \in 1 .. n : p[k] = q[f[k]]
    BY PickedOrder
  <1> HIDE DEF p, n
  <1>3. f \in [DOMAIN p -> DOMAIN q]
    BY <1>1, <1>2
  <1>4. Remains(p, q)
    BY <1>1, <1>2, <1>3 DEF Remains
  <1> QED
    BY <1>1, <1>4 DEF Has, p

\* A removal by names takes what has them, and nothing else.
LEMMA WithoutRemains ==
    ASSUME NEW S, NEW q \in Seq(S), NEW ids
    PROVE  /\ Without(q, ids) \in Seq(S) /\ Remains(Without(q, ids), q)
           /\ \A i \in DOMAIN q : q[i].id \notin ids => Has(Without(q, ids), q[i])
           /\ \A k \in DOMAIN Without(q, ids) : Without(q, ids)[k].id \notin ids
  <1> DEFINE I == {i \in DOMAIN q : q[i].id \notin ids}
  <1>1. /\ I \in SUBSET DOMAIN q /\ Without(q, ids) = Picked(q, I)
        /\ \A i \in DOMAIN q : i \in I <=> q[i].id \notin ids
    BY DEF Without
  <1> HIDE DEF I
  <1>2. /\ Remains(Picked(q, I), q)
        /\ \A i \in I : Has(Picked(q, I), q[i])
        /\ \A k \in DOMAIN Picked(q, I) : \E i \in I : Picked(q, I)[k] = q[i]
    BY <1>1, PickedRemains
  <1>3. Without(q, ids) \in Seq(S)
    BY WithoutLeft
  <1> QED
    BY <1>1, <1>2, <1>3

\* What a scan removes first: files that are not in the index and have a bad header.
LEMMA ScannedDirRemains ==
    ASSUME NEW S, NEW q \in Seq(S), NEW e
    PROVE  /\ ScannedDir(q, e) \in Seq(S) /\ Remains(ScannedDir(q, e), q)
           /\ \A i \in DOMAIN q : q[i].state # "cut" => Has(ScannedDir(q, e), q[i])
  <1> DEFINE I == {i \in DOMAIN q : q[i].tmp \/ q[i].id \in Ids(e) \/ q[i].state # "cut"}
  <1>1. /\ I \in SUBSET DOMAIN q /\ ScannedDir(q, e) = Picked(q, I)
        /\ \A i \in DOMAIN q : q[i].state # "cut" => i \in I
    BY DEF ScannedDir
  <1> HIDE DEF I
  <1> QED
    BY <1>1, PickedRemains, ScannedDirLeft

LEMMA BinsRemains ==
    ASSUME NEW S, NEW q \in Seq(S)
    PROVE  Remains(Bins(q), q)
  <1> DEFINE I == {i \in DOMAIN q : Bin(q[i])}
  <1>1. I \in SUBSET DOMAIN q /\ Bins(q) = Picked(q, I)
    BY DEF Bins
  <1> HIDE DEF I
  <1> QED
    BY <1>1, PickedRemains

LEMMA RemainsLeft ==
    ASSUME NEW S, NEW d \in Seq(S), NEW T, NEW q \in Seq(T), Remains(d, q)
    PROVE  Left(d, q)
  <1>1. PICK f \in [DOMAIN d -> DOMAIN q] :
           /\ \A k, l \in DOMAIN d : k < l => f[k] < f[l]
           /\ \A k \in DOMAIN d : d[k] = q[f[k]]
    BY DEF Remains
  <1>2. DOMAIN d \subseteq Nat /\ DOMAIN q \subseteq Nat
    BY LenProperties
  <1>3. ASSUME NEW k \in DOMAIN d, NEW l \in DOMAIN d, f[k] = f[l] PROVE k = l
    <2>1. k \in Nat /\ l \in Nat /\ f[k] \in Nat /\ f[l] \in Nat
      BY <1>2
    <2>2. ~(k < l) /\ ~(l < k)
      BY <1>1, <1>3, <2>1
    <2> QED
      BY <2>1, <2>2
  <1>4. Named(q) => Named(d)
    <2> SUFFICES ASSUME Named(q), NEW k \in DOMAIN d, NEW l \in DOMAIN d, d[k].id = d[l].id
                 PROVE  k = l
      BY DEF Named
    <2>1. f[k] = f[l]
      BY <1>1 DEF Named
    <2> QED
      BY <1>3, <2>1
  <1> QED
    BY <1>1, <1>4 DEF Left

LEMMA ContainsTransitive ==
    ASSUME NEW a \in Seq(Nat), NEW b \in Seq(Nat), NEW c \in Seq(Nat),
           Contains(a, b), Contains(b, c)
    PROVE  Contains(a, c)
  <1>1. /\ Len(a) \in Nat /\ Len(b) \in Nat /\ Len(c) \in Nat
        /\ Len(c) <= Len(b) /\ Len(b) <= Len(a)
    BY LenProperties DEF Contains
  <1>2. \A i \in 1 .. Len(b) : b[i] = a[i]
    <2>1. SubSeq(a, 1, Len(b)) = b
      BY DEF Contains
    <2>2. \A i \in 1 .. Len(b) : SubSeq(a, 1, Len(b))[i] = a[i]
      BY <1>1
    <2> QED
      BY <2>1, <2>2
  <1>3. \A i \in 1 .. Len(c) : c[i] = b[i]
    <2>1. SubSeq(b, 1, Len(c)) = c
      BY DEF Contains
    <2>2. \A i \in 1 .. Len(c) : SubSeq(b, 1, Len(c))[i] = b[i]
      BY <1>1
    <2> QED
      BY <2>1, <2>2
  <1>4. \A i \in 1 .. Len(c) : c[i] = a[i]
    BY <1>1, <1>2, <1>3
  <1>5. SubSeq(a, 1, Len(c)) = c
    <2> DEFINE t == SubSeq(a, 1, Len(c))
    <2>1. t \in Seq(Nat) /\ Len(t) = Len(c) /\ \A i \in 1 .. Len(c) : t[i] = a[i]
      BY <1>1
    <2> HIDE DEF t
    <2>2. \A i \in 1 .. Len(c) : t[i] = c[i]
      BY <1>4, <2>1
    <2>3. t = c
      BY <2>1, <2>2, SeqEqual
    <2> QED
      BY <2>3 DEF t
  <1> QED
    BY <1>1, <1>5 DEF Contains

\* What is kept is what comes after the first n; some go only when not all fit.
LEMMA FittingTail ==
    ASSUME NEW e \in Seq(EntryRecords), NEW total \in Nat
    PROVE  \E n \in 0 .. Len(e) :
              /\ \A m \in DOMAIN e : m > n => e[m].id \in Ids(Fitting(e, total))
              /\ \A k \in DOMAIN Fitting(e, total) :
                    \E m \in DOMAIN e : m > n /\ Fitting(e, total)[k] = e[m]
              /\ n # 0 => Limit # 0 /\ Sum(e) + total > Limit
  <1> DEFINE rest(n) == SubSeq(e, n + 1, Len(e))
             fits == {n \in 0..Len(e) : Limit = 0 \/ n = Len(e) \/ Sum(rest(n)) + total <= Limit}
             least == CHOOSE n \in fits : \A m \in fits : n <= m
  <1>1. Len(e) \in Nat /\ DOMAIN e = 1 .. Len(e)
    BY LenProperties
  <1>2. fits \in SUBSET Nat /\ fits \in SUBSET (0 .. Len(e)) /\ Len(e) \in fits
    BY <1>1
  <1>3. 0 \notin fits => Limit # 0 /\ ~(Sum(rest(0)) + total <= Limit)
    BY <1>1
  <1>4. Fitting(e, total) = rest(least)
    BY DEF Fitting
  <1> HIDE DEF fits
  <1>5. \E n \in fits : \A m \in fits : n <= m
    BY <1>2, Smallest
  <1>6. least \in fits /\ \A m \in fits : least <= m
    BY <1>5
  <1> HIDE DEF least
  <1>7. least \in 0 .. Len(e) /\ least \in Nat /\ least <= Len(e)
    BY <1>1, <1>2, <1>6
  <1>8. /\ DOMAIN rest(least) = 1 .. Len(e) - least
        /\ \A k \in 1 .. Len(e) - least : rest(least)[k] = e[least + k]
    BY <1>7, Rest
  <1>9. rest(0) = e
    <2> DEFINE t == rest(0)
    <2>1. t \in Seq(EntryRecords) /\ Len(t) = Len(e) /\ \A i \in 1 .. Len(e) : t[i] = e[i]
      BY <1>1
    <2> HIDE DEF t
    <2>2. t = e
      BY <2>1, SeqEqual
    <2> QED
      BY <2>2 DEF t
  <1>10. ASSUME least # 0 PROVE Limit # 0 /\ Sum(e) + total > Limit
    <2>1. 0 \notin fits
      BY <1>6, <1>7, <1>10
    <2>2. Sum(e) \in Nat /\ Limit \in Nat
      BY SizedTypes, BytesFinite, DiskAssumption
    <2>3. Limit # 0 /\ ~(Sum(e) + total <= Limit)
      BY <1>3, <1>9, <2>1
    <2> QED
      BY <2>2, <2>3
  <1> HIDE DEF rest
  <1>11. ASSUME NEW m \in DOMAIN e, m > least PROVE e[m].id \in Ids(rest(least))
    <2>1. m - least \in 1 .. Len(e) - least /\ least + (m - least) = m
      BY <1>1, <1>7, <1>11
    <2> QED
      BY <1>8, <2>1 DEF Ids
  <1>12. ASSUME NEW k \in DOMAIN rest(least)
         PROVE  \E m \in DOMAIN e : m > least /\ rest(least)[k] = e[m]
    <2>1. least + k \in DOMAIN e /\ least + k > least
      BY <1>1, <1>7, <1>8
    <2> QED
      BY <1>8, <2>1
  <1> QED
    BY <1>4, <1>7, <1>10, <1>11, <1>12

\* An eviction takes a file only when not all fit, and no file before an older one.
LEMMA ScanLoses ==
    ASSUME DiskTypes, NameInv, NEW s \in Servers, NEW d \in Seq(FileRecords), Remains(d, dir),
           \A i \in DOMAIN dir : Bin(dir[i]) => Has(d, dir[i]),
           NEW e \in Seq(EntryRecords), \A k \in DOMAIN e : TrueEntry(s, e[k]),
           NEW total \in Nat, ScanAndEvict(s, d, e, total),
           NEW i \in DOMAIN dir, Bin(dir[i]), dir[i].state # "cut", ~Has(dir', dir[i])
    PROVE  /\ Limit # 0 /\ DirSize + total > Limit
           /\ \A h \in DOMAIN dir : h < i /\ Bin(dir[h]) => ~Has(dir', dir[h])
  <1> DEFINE found == ScannedDir(d, e)
             bins == Bins(found)
             seen == Scanned(s, d, e)
             kept == Fitting(seen, total)
             gone == Ids(seen) \ Ids(kept)
  <1>1. dir' = Without(found, gone)
    BY DEF ScanAndEvict
  <1>2. /\ dir \in Seq(FileRecords) /\ Named(dir) /\ DOMAIN dir \subseteq Nat
        /\ Left(d, dir)
    BY RemainsLeft, LenProperties DEF DiskTypes, NameInv
  <1>3. /\ found \in Seq(FileRecords) /\ Remains(found, d)
        /\ \A x \in DOMAIN d : d[x].state # "cut" => Has(found, d[x])
        /\ Remains(found, dir) /\ Left(found, dir) /\ Named(found)
    <2>1. /\ found \in Seq(FileRecords) /\ Remains(found, d)
          /\ \A x \in DOMAIN d : d[x].state # "cut" => Has(found, d[x])
      BY ScannedDirRemains
    <2> HIDE DEF found
    <2>2. Remains(found, dir)
      BY <2>1, RemainsTransitive
    <2>3. Left(found, dir)
      BY <1>2, <2>1, <2>2, RemainsLeft
    <2> QED
      BY <1>2, <2>1, <2>2, <2>3 DEF Left
  <1>4. /\ seen \in Seq(EntryRecords)
        /\ \A k \in DOMAIN seen :
              \/ \E j \in DOMAIN e : seen[k] = e[j]
              \/ \E x \in DOMAIN d : Bin(d[x]) /\ seen[k] = Entry(s, d[x])
    BY ScannedEntries
  <1>5. DOMAIN seen = DOMAIN bins /\ \A k \in DOMAIN bins : seen[k].id = bins[k].id
    BY ScannedOf
  <1> HIDE DEF seen, found
  <1>6. PICK n \in 0 .. Len(seen) :
              /\ \A m \in DOMAIN seen : m > n => seen[m].id \in Ids(kept)
              /\ \A k \in DOMAIN kept : \E m \in DOMAIN seen : m > n /\ kept[k] = seen[m]
              /\ n # 0 => Limit # 0 /\ Sum(seen) + total > Limit
    BY <1>4, FittingTail
  <1>7. /\ bins \in Seq(FileRecords) /\ Sized(bins) /\ Named(bins) /\ Remains(bins, dir)
        /\ \A k \in DOMAIN bins : \E x \in DOMAIN found : Bin(found[x]) /\ bins[k] = found[x]
        /\ \A x \in DOMAIN found : Bin(found[x]) => \E k \in DOMAIN bins : bins[k] = found[x]
    <2>1. Remains(bins, found)
      BY <1>3, BinsRemains
    <2> HIDE DEF bins
    <2>2. Remains(bins, dir)
      BY <1>3, <2>1, RemainsTransitive
    <2> QED
      BY <1>3, <2>2, BinsAll DEF bins
  <1> HIDE DEF bins, kept
  <1>8. PICK f \in [DOMAIN bins -> DOMAIN dir] :
              /\ \A k, l \in DOMAIN bins : k < l => f[k] < f[l]
              /\ \A k \in DOMAIN bins : bins[k] = dir[f[k]]
    BY <1>7 DEF Remains
  <1>9. DOMAIN bins \subseteq Nat /\ n \in Nat
    BY <1>4, <1>7, LenProperties
  <1>10. ASSUME NEW h \in DOMAIN dir, Bin(dir[h]), Has(found, dir[h])
         PROVE  \E b \in DOMAIN bins : bins[b] = dir[h] /\ f[b] = h
    <2>1. PICK x \in DOMAIN found : found[x] = dir[h]
      BY <1>10 DEF Has
    <2>2. PICK b \in DOMAIN bins : bins[b] = dir[h]
      BY <1>7, <1>10, <2>1
    <2>3. f[b] = h
      BY <1>2, <1>8, <2>2 DEF Named
    <2> QED
      BY <2>2, <2>3
  <1>11. Has(found, dir[i])
    <2>1. PICK x \in DOMAIN d : d[x] = dir[i]
      BY DEF Has
    <2> QED
      BY <1>3, <2>1
  <1>12. PICK b \in DOMAIN bins : bins[b] = dir[i] /\ f[b] = i
    BY <1>10, <1>11
  <1>13. b <= n /\ n # 0
    <2>1. ASSUME seen[b].id \in Ids(kept) PROVE FALSE
      <3>1. dir[i].id \notin gone
        BY <1>5, <1>12, <2>1
      <3>2. PICK x \in DOMAIN found : found[x] = dir[i]
        BY <1>11 DEF Has
      <3> HIDE DEF gone
      <3>3. Has(Without(found, gone), found[x])
        BY <1>3, <3>1, <3>2, WithoutRemains
      <3> QED
        BY <1>1, <3>2, <3>3
    <2>2. ~(b > n)
      BY <1>5, <1>6, <2>1
    <2>3. b \in Nat /\ b # 0
      BY <1>7, LenProperties
    <2> QED
      BY <1>9, <2>2, <2>3
  <1>14. Sum(seen) <= DirSize
    <2>1. ASSUME NEW k \in DOMAIN seen
          PROVE  \E j \in DOMAIN Bins(dir) :
                    Bins(dir)[j].id = seen[k].id /\ Bins(dir)[j].prompt = seen[k].prompt
      <3>1. TrueEntry(s, seen[k])
        <4>1. CASE \E j \in DOMAIN e : seen[k] = e[j]
          BY <4>1
        <4>2. CASE \E x \in DOMAIN d : Bin(d[x]) /\ seen[k] = Entry(s, d[x])
          <5>1. \E x \in DOMAIN dir : Bin(dir[x]) /\ seen[k] = Entry(s, dir[x])
            BY <1>2, <4>2 DEF Left
          <5> QED
            BY <5>1, EntryTrue
        <4> QED
          BY <1>4, <4>1, <4>2
      <3>2. f[k] \in DOMAIN dir /\ bins[k] = dir[f[k]] /\ Bin(dir[f[k]])
        BY <1>5, <1>7, <1>8
      <3>3. dir[f[k]].id = seen[k].id /\ dir[f[k]].prompt = seen[k].prompt
        BY <1>5, <3>1, <3>2 DEF TrueEntry
      <3>4. PICK j \in DOMAIN Bins(dir) : Bins(dir)[j] = dir[f[k]]
        BY <1>2, <3>2, BinsAll
      <3> QED
        BY <3>3, <3>4
    <2>2. Sized(seen) /\ Named(seen)
      <3>1. Named(seen)
        BY <1>5, <1>7 DEF Named
      <3> QED
        BY <1>4, <3>1, SizedTypes
    <2>3. Sized(Bins(dir))
      BY <1>2, BinsAll
    <2> QED
      BY <2>1, <2>2, <2>3, SumOfNamed DEF DirSize
  <1>15. Limit # 0 /\ DirSize + total > Limit
    <2>1. Sum(seen) \in Nat /\ Limit \in Nat /\ DirSize \in Nat
      BY <1>4, SizedTypes, BytesFinite, DiskAssumption, DirSizeType
    <2> QED
      BY <1>6, <1>13, <1>14, <2>1
  <1>16. ASSUME NEW h \in DOMAIN dir, h < i, Bin(dir[h]), Has(dir', dir[h])
         PROVE  FALSE
    <2>1. PICK k \in DOMAIN dir' : dir'[k] = dir[h]
      BY <1>16 DEF Has
    <2>2. dir[h].id \notin gone /\ Has(found, dir[h])
      <3> HIDE DEF gone
      <3>1. dir'[k].id \notin gone
        BY <1>1, <1>3, WithoutRemains
      <3>2. Left(dir', found)
        BY <1>1, <1>3, WithoutLeft
      <3> QED
        BY <2>1, <3>1, <3>2 DEF Left, Has
    <2>3. PICK c \in DOMAIN bins : bins[c] = dir[h] /\ f[c] = h
      BY <1>10, <1>16, <2>2
    <2>4. c < b
      <3>1. c \in Nat /\ b \in Nat /\ h \in Nat /\ i \in Nat
        BY <1>2, <1>9
      <3>2. c # b /\ ~(b < c)
        BY <1>8, <1>12, <1>16, <2>3, <3>1
      <3> QED
        BY <3>1, <3>2
    <2>5. seen[c].id \notin Ids(kept)
      <3> SUFFICES ASSUME NEW l \in DOMAIN kept, kept[l].id = seen[c].id PROVE FALSE
        BY DEF Ids
      <3>1. PICK m \in DOMAIN seen : m > n /\ kept[l] = seen[m]
        BY <1>6
      <3>2. m = c
        BY <1>5, <1>7, <3>1 DEF Named
      <3> QED
        BY <1>9, <1>13, <2>4, <3>1, <3>2
    <2>6. seen[c].id \in Ids(seen) /\ seen[c].id = dir[h].id
      BY <1>5, <2>3 DEF Ids
    <2> QED
      BY <2>2, <2>5, <2>6
  <1> QED
    BY <1>15, <1>16

\* After a scan the index has every file that counts.
LEMMA ScanSeesAll ==
    ASSUME DiskTypes, NEW s \in Servers, NEW d \in Seq(FileRecords), NEW e \in Seq(EntryRecords),
           Named(d), NEW total, ScanAndEvict(s, d, e, total)
    PROVE  \A k \in DOMAIN dir' : Bin(dir'[k]) => dir'[k].id \in Ids(entries'[s])
  <1> DEFINE found == ScannedDir(d, e)
             bins == Bins(found)
             seen == Scanned(s, d, e)
             kept == Fitting(seen, total)
             gone == Ids(seen) \ Ids(kept)
  <1>1. dir' = Without(found, gone) /\ entries' = [entries EXCEPT ![s] = kept]
    BY DEF ScanAndEvict
  <1>2. found \in Seq(FileRecords) /\ Named(found)
    BY ScannedDirLeft DEF Left
  <1>3. DOMAIN seen = DOMAIN bins /\ \A k \in DOMAIN bins : seen[k].id = bins[k].id
    BY ScannedOf
  <1>4. entries'[s] = kept
    BY <1>1 DEF DiskTypes
  <1> HIDE DEF seen, found, kept
  <1> SUFFICES ASSUME NEW k \in DOMAIN dir', Bin(dir'[k]) PROVE dir'[k].id \in Ids(kept)
    BY <1>4
  <1>5. dir'[k].id \notin gone /\ \E x \in DOMAIN found : dir'[k] = found[x]
    <2> HIDE DEF gone
    <2>1. Left(dir', found) /\ dir'[k].id \notin gone
      BY <1>1, <1>2, WithoutRemains, WithoutLeft
    <2> QED
      BY <2>1 DEF Left
  <1>6. \E b \in DOMAIN bins : bins[b] = dir'[k]
    BY <1>2, <1>5, BinsAll
  <1>7. dir'[k].id \in Ids(seen)
    BY <1>3, <1>6 DEF Ids
  <1> QED
    BY <1>5, <1>7

\* Server s has file i in its index.
Knows(s, i) == Bin(dir[i]) /\ dir[i].id \in Ids(entries[s])

\* File j restores all that file i does, is later, and is none that s would remove.
Replaces(s, j, i) ==
    /\ i < j /\ ~Knows(s, j)
    /\ Bin(dir[j]) /\ dir[j].state = "good" /\ dir[j].key = Key[s]
    /\ Contains(dir[j].prompt, dir[i].prompt)

\* Of two servers in a write the one that scanned later knows all that the other does.
ScansOrdered ==
    \A s, t \in Servers : wpc[s] # "begin" /\ wpc[t] # "begin" =>
        \/ \A i \in DOMAIN dir : Knows(s, i) => Knows(t, i)
        \/ \A i \in DOMAIN dir : Knows(t, i) => Knows(s, i)

\* The file that a server writes comes after all those that it knows.
OwnNewest ==
    \A s \in Servers : Holds(s) =>
        /\ Item(s).id \notin Ids(entries[s])
        /\ \A j \in DOMAIN dir : dir[j].id = Item(s).id =>
              /\ dir[j].state = "good"
              /\ \A i \in DOMAIN dir : dir[i].id \in Ids(entries[s]) => i < j

\* What a server is about to remove for its new file is replaced: by that file, or by
\* one for which another server has removed it meanwhile.
Replaced ==
    \A s \in Servers : wpc[s] = "renamed" =>
        \A i \in DOMAIN dir :
            Knows(s, i) /\ dir[i].key = Key[s] /\ Contains(Item(s).prompt, dir[i].prompt)
            => \E j \in DOMAIN dir : Replaces(s, j, i)

OrderInv == ScansOrdered /\ OwnNewest /\ Replaced

-----------------------------------------------------------------------------
(* What is removed, and why *)

LEMMA ScanRemains ==
    ASSUME DiskTypes, NEW s \in Servers, NEW d \in Seq(FileRecords), Remains(d, dir),
           NEW e, NEW total, ScanAndEvict(s, d, e, total)
    PROVE  Remains(dir', dir)
  <1> DEFINE found == ScannedDir(d, e)
  <1>1. \E ids : dir' = Without(found, ids)
    BY DEF ScanAndEvict
  <1>2. found \in Seq(FileRecords) /\ Remains(found, d)
    BY ScannedDirRemains
  <1> HIDE DEF found
  <1>3. Remains(dir', found)
    BY <1>1, <1>2, WithoutRemains
  <1> QED
    BY <1>2, <1>3, RemainsTransitive

\* open() starts from the directory without some ".tmp" files and without an index.
LEMMA OpenScans ==
    ASSUME DiskTypes, NameInv, NEW s \in Servers, Open(s)
    PROVE  \E d \in Seq(FileRecords), e \in Seq(EntryRecords) :
              /\ Remains(d, dir) /\ \A i \in DOMAIN dir : Bin(dir[i]) => Has(d, dir[i])
              /\ \A k \in DOMAIN e : TrueEntry(s, e[k])
              /\ ScanAndEvict(s, d, e, 0)
  <1>1. PICK stale \in SUBSET {f \in {dir[i] : i \in DOMAIN dir} : f.tmp} :
               ScanAndEvict(s, Without(dir, {f.id : f \in stale}), <<>>, 0)
    BY DEF Open
  <1> DEFINE ids == {f.id : f \in stale}
             d == Without(dir, ids)
             none == <<>>
  <1>2. ASSUME NEW i \in DOMAIN dir, Bin(dir[i]) PROVE dir[i].id \notin ids
    <2> SUFFICES ASSUME NEW f \in stale, f.id = dir[i].id PROVE FALSE
      OBVIOUS
    <2>1. PICK j \in DOMAIN dir : f = dir[j] /\ dir[j].tmp
      OBVIOUS
    <2>2. j = i
      BY <2>1 DEF NameInv, Named
    <2> QED
      BY <1>2, <2>1, <2>2 DEF Bin
  <1> HIDE DEF ids
  <1>3. /\ d \in Seq(FileRecords) /\ Remains(d, dir)
        /\ \A i \in DOMAIN dir : Bin(dir[i]) => Has(d, dir[i])
    BY <1>2, WithoutRemains DEF DiskTypes
  <1>4. none \in Seq(EntryRecords) /\ \A k \in DOMAIN none : TrueEntry(s, none[k])
    OBVIOUS
  <1>5. ScanAndEvict(s, d, none, 0)
    BY <1>1 DEF ids
  <1> HIDE DEF d, none
  <1> QED
    BY <1>3, <1>4, <1>5

LEMMA RemovesRemains ==
    ASSUME DiskTypes, NameInv, NEW s \in Servers, Removes(s) \/ MakeRoom(s)
    PROVE  Remains(dir', dir)
  <1>1. CASE Open(s)
    BY <1>1, OpenScans, ScanRemains
  <1>2. CASE MakeRoom(s)
    <2>1. ScanAndEvict(s, dir, entries[s], Size[Item(s).prompt])
      BY <1>2 DEF MakeRoom
    <2> QED
      BY <2>1, ScanRemains, RemainsItself DEF DiskTypes
  <1>3. CASE RenameFails(s) \/ Supersede(s) \/ Crash(s) \/ \E e : ReadBad(s, e)
    <2>1. dir' = dir \/ \E ids : dir' = Without(dir, ids)
      BY <1>3 DEF RenameFails, Supersede, Crash, ReadBad
    <2>2. CASE dir' = dir
      BY <2>2, RemainsItself
    <2>3. CASE \E ids : dir' = Without(dir, ids)
      BY <2>3, WithoutRemains DEF DiskTypes
    <2> QED
      BY <2>1, <2>2, <2>3
  <1> QED
    BY <1>1, <1>2, <1>3 DEF Removes

\* A good file is removed to make room, after all older ones, or for a file that
\* replaces it.
LEMMA RemovedFor ==
    ASSUME DiskTypes, NameInv, Replaced, NEW s \in Servers, Removes(s) \/ MakeRoom(s),
           NEW i \in DOMAIN dir, Bin(dir[i]), dir[i].state = "good", ~Has(dir', dir[i])
    PROVE  \/ /\ Limit # 0 /\ Evicts(s)
              /\ \A h \in DOMAIN dir : h < i /\ Bin(dir[h]) => ~Has(dir', dir[h])
           \/ /\ Supersede(s) /\ Knows(s, i) /\ dir[i].key = Key[s]
              /\ \E j \in DOMAIN dir : Replaces(s, j, i) /\ Has(dir', dir[j])
  <1>0. dir \in Seq(FileRecords) /\ Named(dir) /\ dir[i].state # "cut"
    BY DEF DiskTypes, NameInv
  <1>1. CASE Open(s)
    <2>1. PICK d \in Seq(FileRecords), e \in Seq(EntryRecords) :
                 /\ Remains(d, dir) /\ \A x \in DOMAIN dir : Bin(dir[x]) => Has(d, dir[x])
                 /\ \A k \in DOMAIN e : TrueEntry(s, e[k])
                 /\ ScanAndEvict(s, d, e, 0)
      BY <1>1, OpenScans
    <2>2. /\ Limit # 0 /\ DirSize + 0 > Limit
          /\ \A h \in DOMAIN dir : h < i /\ Bin(dir[h]) => ~Has(dir', dir[h])
      BY <1>0, <2>1, ScanLoses
    <2>3. DirSize \in Nat
      BY DirSizeType
    <2> QED
      BY <1>1, <2>2, <2>3 DEF Open, Evicts
  <1>2. CASE MakeRoom(s)
    <2> DEFINE total == Size[Item(s).prompt]
    <2>1. /\ s \in up /\ wpc[s] = "begin" /\ wpc'[s] = "room" /\ Writing(s)
          /\ ScanAndEvict(s, dir, entries[s], total)
      BY <1>2 DEF MakeRoom, At, GoTo, DiskTypes
    <2>2. total \in Nat
      <3>1. Item(s) \in ItemRecords
        BY <2>1, HeadTailProperties DEF Item, Writing, DiskTypes
      <3> QED
        BY <3>1, MaxSizeBounds DEF ItemRecords
    <2>3. /\ entries[s] \in Seq(EntryRecords)
          /\ \A k \in DOMAIN entries[s] : TrueEntry(s, entries[s][k])
      BY DEF DiskTypes, NameInv
    <2> HIDE DEF total
    <2>4. Remains(dir, dir) /\ \A x \in DOMAIN dir : Bin(dir[x]) => Has(dir, dir[x])
      BY RemainsItself DEF Has
    <2>5. /\ Limit # 0 /\ DirSize + total > Limit
          /\ \A h \in DOMAIN dir : h < i /\ Bin(dir[h]) => ~Has(dir', dir[h])
      BY <1>0, <2>1, <2>2, <2>3, <2>4, ScanLoses
    <2> QED
      BY <2>1, <2>5 DEF Evicts, total
  <1>3. ASSUME NEW ids, dir' = Without(dir, ids) PROVE dir[i].id \in ids
    BY <1>0, <1>3, WithoutRemains
  <1>4. CASE RenameFails(s) \/ Crash(s)
    <2>1. wpc[s] = "written" /\ dir' = Without(dir, {Item(s).id})
      <3>1. dir' # dir
        BY DEF Has
      <3> QED
        BY <1>4, <3>1 DEF RenameFails, Crash, At
    <2>2. dir[i].id = Item(s).id
      BY <1>3, <2>1
    <2> QED
      BY <2>1, <2>2 DEF NameInv, Holds, Own, Bin
  <1>5. ASSUME NEW e, ReadBad(s, e) PROVE FALSE
    <2>1. dir[i].id = e.id
      BY <1>3, <1>5 DEF ReadBad
    <2>2. PICK x \in DOMAIN dir : dir[x].id = e.id /\ dir[x].state # "good"
      BY <1>5 DEF ReadBad, FileOf
    <2> QED
      BY <1>0, <2>1, <2>2 DEF Named
  <1>6. CASE Supersede(s)
    <2> DEFINE p   == Item(s).prompt
               old == {e \in {entries[s][k] : k \in DOMAIN entries[s]} :
                         e.match /\ Contains(p, e.prompt)}
               ids == {e.id : e \in old}
    <2>1. wpc[s] = "renamed" /\ dir' = Without(dir, ids)
      BY <1>6 DEF Supersede, At
    <2>2. dir[i].id \in ids
      <3> HIDE DEF ids
      <3> QED
        BY <1>3, <2>1
    <2>3. PICK k \in DOMAIN entries[s] :
                 entries[s][k].match /\ Contains(p, entries[s][k].prompt) /\ entries[s][k].id = dir[i].id
      BY <2>2
    <2>4. ids \subseteq Ids(entries[s])
      BY DEF Ids
    <2> HIDE DEF ids
    <2>5. TrueEntry(s, entries[s][k])
      BY DEF NameInv
    <2>6. Knows(s, i) /\ dir[i].key = Key[s] /\ Contains(p, dir[i].prompt)
      BY <2>3, <2>5 DEF TrueEntry, Knows, Ids
    <2>7. PICK j \in DOMAIN dir : Replaces(s, j, i)
      BY <2>1, <2>6 DEF Replaced
    <2>8. dir[j].id \notin ids
      BY <2>4, <2>7 DEF Replaces, Knows
    <2>9. Has(dir', dir[j])
      BY <1>0, <2>1, <2>8, WithoutRemains
    <2> QED
      BY <1>6, <2>6, <2>7, <2>9
  <1> QED
    BY <1>1, <1>2, <1>4, <1>5, <1>6 DEF Removes

-----------------------------------------------------------------------------
(* The order is kept *)

\* Server t has just scanned: it knows every file that counts.
KnowsAll(t) == \A i \in DOMAIN dir : Bin(dir[i]) => dir[i].id \in Ids(entries[t])

\* Where the files of dir' were.
Places(f) ==
    /\ f \in [DOMAIN dir' -> DOMAIN dir]
    /\ \A k, l \in DOMAIN dir' : k < l => f[k] < f[l]
    /\ \A k \in DOMAIN dir' : dir'[k] = dir[f[k]]

LEMMA PlacesOrder ==
    ASSUME DiskTypes, DiskTypes', NEW f, Places(f)
    PROVE  \A k, l \in DOMAIN dir' : f[k] < f[l] => k < l
  <1> SUFFICES ASSUME NEW k \in DOMAIN dir', NEW l \in DOMAIN dir', f[k] < f[l] PROVE k < l
    OBVIOUS
  <1>1. f[k] \in DOMAIN dir /\ f[l] \in DOMAIN dir
    BY DEF Places
  <1>2. k \in Nat /\ l \in Nat /\ f[k] \in Nat /\ f[l] \in Nat
    BY <1>1, LenProperties DEF DiskTypes
  <1>3. ~(l < k) /\ k # l
    BY <1>2 DEF Places
  <1> QED
    BY <1>2, <1>3

LEMMA ScansStep ==
    ASSUME ScansOrdered, Remains(dir', dir), \A t \in Servers : Steady(t) \/ KnowsAll(t)'
    PROVE  ScansOrdered'
  <1>1. PICK f : Places(f)
    BY DEF Remains, Places
  <1>2. ASSUME NEW t \in Servers, Steady(t), wpc'[t] # "begin", NEW i \in DOMAIN dir'
        PROVE  Knows(t, i)' <=> Knows(t, f[i])
    BY <1>1, <1>2 DEF Steady, Knows, Places
  <1> SUFFICES ASSUME NEW s \in Servers, NEW t \in Servers, wpc'[s] # "begin", wpc'[t] # "begin"
               PROVE  \/ \A i \in DOMAIN dir' : Knows(s, i)' => Knows(t, i)'
                      \/ \A i \in DOMAIN dir' : Knows(t, i)' => Knows(s, i)'
    BY DEF ScansOrdered
  <1>3. CASE KnowsAll(s)' \/ KnowsAll(t)'
    BY <1>3 DEF KnowsAll, Knows
  <1>4. CASE Steady(s) /\ Steady(t)
    <2>1. \/ \A i \in DOMAIN dir : Knows(s, i) => Knows(t, i)
          \/ \A i \in DOMAIN dir : Knows(t, i) => Knows(s, i)
      BY <1>4 DEF ScansOrdered, Steady
    <2>2. \A i \in DOMAIN dir' : f[i] \in DOMAIN dir
      BY <1>1 DEF Places
    <2> QED
      BY <1>2, <1>4, <2>1, <2>2
  <1> QED
    BY <1>3, <1>4

LEMMA OwnStep ==
    ASSUME DiskTypes, DiskTypes', OwnNewest, Remains(dir', dir),
           \A t \in Servers : Steady(t) \/ wpc'[t] = "room"
    PROVE  OwnNewest'
  <1>1. PICK f : Places(f)
    BY DEF Remains, Places
  <1> SUFFICES ASSUME NEW s \in Servers, Holds(s)'
               PROVE  /\ Item(s)'.id \notin Ids(entries'[s])
                      /\ \A j \in DOMAIN dir' : dir'[j].id = Item(s)'.id =>
                            /\ dir'[j].state = "good"
                            /\ \A i \in DOMAIN dir' : dir'[i].id \in Ids(entries'[s]) => i < j
    BY DEF OwnNewest
  <1>2. Holds(s) /\ Item(s)' = Item(s) /\ entries'[s] = entries[s]
    BY DEF Holds, Steady
  <1>3. Item(s)'.id \notin Ids(entries'[s])
    BY <1>2 DEF OwnNewest
  <1>4. ASSUME NEW j \in DOMAIN dir', dir'[j].id = Item(s)'.id
        PROVE  /\ dir'[j].state = "good"
               /\ \A i \in DOMAIN dir' : dir'[i].id \in Ids(entries'[s]) => i < j
    <2>1. f[j] \in DOMAIN dir /\ dir[f[j]] = dir'[j]
      BY <1>1 DEF Places
    <2>2. /\ dir[f[j]].state = "good"
          /\ \A i \in DOMAIN dir : dir[i].id \in Ids(entries[s]) => i < f[j]
      BY <1>2, <1>4, <2>1 DEF OwnNewest
    <2>3. ASSUME NEW i \in DOMAIN dir', dir'[i].id \in Ids(entries'[s]) PROVE i < j
      <3>1. f[i] \in DOMAIN dir /\ dir[f[i]] = dir'[i]
        BY <1>1 DEF Places
      <3>2. f[i] < f[j]
        BY <1>2, <2>2, <2>3, <3>1
      <3> QED
        BY <1>1, <3>2, PlacesOrder
    <2> QED
      BY <2>1, <2>2, <2>3
  <1> QED
    BY <1>3, <1>4

\* What replaces a file may itself go, for another that replaces both.
LEMMA ReplacedStep ==
    ASSUME DiskTypes, NameInv, DiskTypes', OrderInv,
           NEW s \in Servers, Removes(s) \/ MakeRoom(s),
           \A t \in Servers : Steady(t) \/ wpc'[t] = "room"
    PROVE  Replaced'
  <1>1. PICK f : Places(f)
    BY RemovesRemains DEF Remains, Places
  <1> SUFFICES ASSUME NEW t \in Servers, wpc'[t] = "renamed", NEW k \in DOMAIN dir',
                      Knows(t, k)', dir'[k].key = Key[t], Contains(Item(t)'.prompt, dir'[k].prompt)
               PROVE  \E l \in DOMAIN dir' : Replaces(t, l, k)'
    BY DEF Replaced
  <1>2. wpc[t] = "renamed" /\ Item(t)' = Item(t) /\ entries'[t] = entries[t]
    BY DEF Steady
  <1> DEFINE i == f[k]
  <1>3. i \in DOMAIN dir /\ dir'[k] = dir[i]
    BY <1>1 DEF Places
  <1>4. PICK j \in DOMAIN dir : Replaces(t, j, i)
    BY <1>2, <1>3 DEF OrderInv, Replaced, Knows
  <1>5. Bin(dir[i])
    BY <1>3 DEF Knows
  <1>6. ASSUME NEW m \in DOMAIN dir, Replaces(t, m, i), Has(dir', dir[m])
        PROVE  \E l \in DOMAIN dir' : Replaces(t, l, k)'
    <2>1. PICK l \in DOMAIN dir' : dir'[l] = dir[m]
      BY <1>6 DEF Has
    <2>2. f[l] = m
      BY <1>1, <2>1 DEF Places, NameInv, Named
    <2>3. k < l
      BY <1>1, <1>6, <2>2, PlacesOrder DEF Replaces
    <2>4. Replaces(t, l, k)'
      BY <1>2, <1>3, <1>6, <2>1, <2>3 DEF Replaces, Knows
    <2> QED
      BY <2>4
  <1> HIDE DEF i
  <1>7. CASE Has(dir', dir[j])
    BY <1>4, <1>6, <1>7
  <1>8. CASE ~Has(dir', dir[j])
    <2>1. \/ \A h \in DOMAIN dir : h < j /\ Bin(dir[h]) => ~Has(dir', dir[h])
          \/ /\ Supersede(s) /\ Knows(s, j) /\ dir[j].key = Key[s]
             /\ \E m \in DOMAIN dir : Replaces(s, m, j) /\ Has(dir', dir[m])
      BY <1>4, <1>8, RemovedFor DEF Replaces, OrderInv
    <2>2. ASSUME \A h \in DOMAIN dir : h < j /\ Bin(dir[h]) => ~Has(dir', dir[h])
          PROVE  FALSE
      <3>1. Has(dir', dir[i])
        BY <1>3 DEF Has
      <3> QED
        BY <1>3, <1>4, <1>5, <2>2, <3>1 DEF Replaces
    <2>3. ASSUME Supersede(s), Knows(s, j), dir[j].key = Key[s],
                 NEW m \in DOMAIN dir, Replaces(s, m, j), Has(dir', dir[m])
          PROVE  \E l \in DOMAIN dir' : Replaces(t, l, k)'
      <3>1. wpc[s] # "begin" /\ ~Knows(t, j) /\ ~Knows(s, m)
        BY <1>4, <2>3 DEF Supersede, At, Replaces
      <3>2. ~Knows(t, m)
        BY <1>2, <2>3, <3>1 DEF OrderInv, ScansOrdered
      <3>3. Key[s] = Key[t]
        BY <1>4, <2>3 DEF Replaces
      <3>4. Contains(dir[m].prompt, dir[i].prompt)
        <4>1. \A h \in DOMAIN dir : dir[h].prompt \in Seq(Nat)
          <5>1. \A h \in DOMAIN dir : dir[h] \in FileRecords
            BY ElementOfSeq, LenProperties DEF DiskTypes
          <5> QED
            BY <5>1, DiskAssumption DEF FileRecords
        <4>2. Contains(dir[m].prompt, dir[j].prompt) /\ Contains(dir[j].prompt, dir[i].prompt)
          BY <1>4, <2>3 DEF Replaces
        <4> QED
          BY <1>3, <4>1, <4>2, ContainsTransitive
      <3>5. i < m
        <4>1. i < j /\ j < m
          BY <1>4, <2>3 DEF Replaces
        <4>2. i \in Nat /\ j \in Nat /\ m \in Nat
          BY <1>3, LenProperties DEF DiskTypes
        <4> QED
          BY <4>1, <4>2
      <3>6. Replaces(t, m, i)
        BY <2>3, <3>2, <3>3, <3>4, <3>5 DEF Replaces
      <3> QED
        BY <1>6, <2>3, <3>6
    <2> QED
      BY <2>1, <2>2, <2>3
  <1> QED
    BY <1>7, <1>8

LEMMA OrderSame ==
    ASSUME DiskTypes, DiskTypes', OrderInv, dir' = dir, \A t \in Servers : Steady(t)
    PROVE  OrderInv'
  <1>1. Remains(dir', dir)
    BY RemainsItself
  <1>2. ScansOrdered' /\ OwnNewest'
    BY <1>1, ScansStep, OwnStep DEF OrderInv
  <1>3. Replaced'
    <2>1. ASSUME NEW t \in Servers, wpc'[t] = "renamed"
          PROVE  wpc[t] = "renamed" /\ Item(t)' = Item(t) /\ entries'[t] = entries[t]
      BY <2>1 DEF Steady
    <2> QED
      BY <2>1 DEF OrderInv, Replaced, Replaces, Knows
  <1> QED
    BY <1>2, <1>3 DEF OrderInv

LEMMA MakeRoomOrder ==
    ASSUME DiskTypes, NameInv, DiskTypes', OrderInv, NEW s \in Servers, MakeRoom(s)
    PROVE  OrderInv'
  <1>1. /\ ScanAndEvict(s, dir, entries[s], Size[Item(s).prompt])
        /\ wpc' = [wpc EXCEPT ![s] = "room"] /\ todo' = todo
        /\ \E q : entries' = [entries EXCEPT ![s] = q]
    BY DEF MakeRoom, GoTo, ScanAndEvict
  <1>2. ASSUME NEW t \in Servers \ {s} PROVE Steady(t)
    BY <1>1 DEF DiskTypes, Steady, Item
  <1>3. wpc'[s] = "room"
    BY <1>1 DEF DiskTypes
  <1>4. dir \in Seq(FileRecords) /\ entries[s] \in Seq(EntryRecords) /\ Named(dir)
    BY DEF DiskTypes, NameInv
  <1>5. KnowsAll(s)'
    BY <1>1, <1>4, ScanSeesAll DEF KnowsAll
  <1>6. Remains(dir', dir)
    BY RemovesRemains
  <1>7. ScansOrdered'
    BY <1>2, <1>5, <1>6, ScansStep DEF OrderInv
  <1>8. \A t \in Servers : Steady(t) \/ wpc'[t] = "room"
    BY <1>2, <1>3
  <1>9. OwnNewest' /\ Replaced'
    BY <1>6, <1>8, OwnStep, ReplacedStep DEF OrderInv
  <1> QED
    BY <1>7, <1>9 DEF OrderInv

LEMMA RemovesOrder ==
    ASSUME DiskTypes, NameInv, DiskTypes', OrderInv, NEW s \in Servers, Removes(s),
           \A t \in Servers : Steady(t)
    PROVE  OrderInv'
  <1>1. Remains(dir', dir)
    BY RemovesRemains
  <1>2. ScansOrdered' /\ OwnNewest' /\ Replaced'
    BY <1>1, ScansStep, OwnStep, ReplacedStep DEF OrderInv
  <1> QED
    BY <1>2 DEF OrderInv

\* The new file is the last one, and in no index.
LEMMA WriteTmpOrder ==
    ASSUME DiskTypes, NameInv, OrderInv, NEW s \in Servers, WriteTmp(s)
    PROVE  OrderInv'
  <1> DEFINE n == Len(dir)
             new == NewFile(s)
  <1>1. /\ DOMAIN dir = 1 .. n /\ n \in Nat /\ DOMAIN dir' = 1 .. n + 1
        /\ dir'[n + 1] = new /\ \A i \in DOMAIN dir : dir'[i] = dir[i]
        /\ \A i \in DOMAIN dir : dir[i].id # NewId
        /\ \A t \in Servers : NewId \notin Ids(entries[t])
        /\ entries' = entries /\ wpc'[s] = "written" /\ Item(s)'.id = NewId
        /\ \A t \in Servers \ {s} :
              /\ wpc'[t] = wpc[t] /\ Item(t)' = Item(t)
              /\ Holds(t) => Item(t).id # NewId
    BY WriteTmpAdds DEF Ids
  <1>2. wpc[s] = "room"
    BY DEF WriteTmp, At
  <1>3. new.id = NewId /\ new.tmp /\ new.state = "good"
    BY DEF NewFile
  <1> HIDE DEF n, new
  <1>4. \A i \in DOMAIN dir' : i \in DOMAIN dir \/ i = n + 1
    BY <1>1
  <1>5. DOMAIN dir \subseteq DOMAIN dir' /\ n + 1 \in DOMAIN dir' /\ n + 1 \notin DOMAIN dir
        /\ \A i \in DOMAIN dir : i < n + 1
    BY <1>1
  <1>6. ASSUME NEW t \in Servers, NEW i \in DOMAIN dir'
        PROVE  /\ Knows(t, i)' <=> i \in DOMAIN dir /\ Knows(t, i)
               /\ dir'[i].id \in Ids(entries'[t]) =>
                     i \in DOMAIN dir /\ dir[i].id \in Ids(entries[t])
    <2>1. CASE i \in DOMAIN dir
      BY <1>1, <2>1 DEF Knows
    <2>2. CASE i = n + 1
      <3>1. ~Bin(dir'[i]) /\ dir'[i].id \notin Ids(entries'[t])
        BY <1>1, <1>3, <2>2 DEF Bin
      <3> QED
        BY <1>5, <2>2, <3>1 DEF Knows
    <2> QED
      BY <1>4, <2>1, <2>2
  <1>7. ScansOrdered'
    <2> SUFFICES ASSUME NEW t \in Servers, NEW u \in Servers, wpc'[t] # "begin", wpc'[u] # "begin"
                 PROVE  \/ \A i \in DOMAIN dir' : Knows(t, i)' => Knows(u, i)'
                        \/ \A i \in DOMAIN dir' : Knows(u, i)' => Knows(t, i)'
      BY DEF ScansOrdered
    <2>1. wpc[t] # "begin" /\ wpc[u] # "begin"
      BY <1>1, <1>2
    <2> QED
      BY <1>6, <2>1 DEF OrderInv, ScansOrdered
  <1>8. OwnNewest'
    <2> SUFFICES ASSUME NEW t \in Servers, Holds(t)'
                 PROVE  /\ Item(t)'.id \notin Ids(entries'[t])
                        /\ \A j \in DOMAIN dir' : dir'[j].id = Item(t)'.id =>
                              /\ dir'[j].state = "good"
                              /\ \A i \in DOMAIN dir' : dir'[i].id \in Ids(entries'[t]) => i < j
      BY DEF OwnNewest
    <2>1. CASE t = s
      <3>1. ASSUME NEW j \in DOMAIN dir', dir'[j].id = NewId PROVE j = n + 1
        BY <1>1, <1>4, <3>1
      <3>2. Item(t)'.id = NewId /\ NewId \notin Ids(entries'[t]) /\ dir'[n + 1].state = "good"
        BY <1>1, <1>3, <2>1
      <3> QED
        BY <1>5, <1>6, <3>1, <3>2
    <2>2. CASE t # s
      <3>1. Holds(t) /\ Item(t)' = Item(t) /\ Item(t).id # NewId
        BY <1>1, <2>2 DEF Holds
      <3>2. ASSUME NEW j \in DOMAIN dir', dir'[j].id = Item(t).id PROVE j \in DOMAIN dir
        BY <1>1, <1>3, <1>4, <3>1, <3>2
      <3> QED
        BY <1>1, <1>6, <3>1, <3>2 DEF OrderInv, OwnNewest
    <2> QED
      BY <2>1, <2>2
  <1>9. Replaced'
    <2> SUFFICES ASSUME NEW t \in Servers, wpc'[t] = "renamed", NEW i \in DOMAIN dir',
                        Knows(t, i)', dir'[i].key = Key[t], Contains(Item(t)'.prompt, dir'[i].prompt)
                 PROVE  \E j \in DOMAIN dir' : Replaces(t, j, i)'
      BY DEF Replaced
    <2>1. t # s /\ wpc[t] = "renamed" /\ Item(t)' = Item(t)
      BY <1>1
    <2>2. i \in DOMAIN dir /\ Knows(t, i) /\ dir'[i] = dir[i]
      BY <1>1, <1>6
    <2>3. PICK j \in DOMAIN dir : Replaces(t, j, i)
      BY <2>1, <2>2 DEF OrderInv, Replaced
    <2>4. j \in DOMAIN dir' /\ dir'[j] = dir[j] /\ ~Knows(t, j)'
      BY <1>1, <1>5, <1>6, <2>3 DEF Replaces
    <2>5. Replaces(t, j, i)'
      BY <2>2, <2>3, <2>4 DEF Replaces
    <2> QED
      BY <2>4, <2>5
  <1> QED
    BY <1>7, <1>8, <1>9 DEF OrderInv

\* The new file replaces all that its server knows and it contains.
LEMMA RenameOrder ==
    ASSUME DiskTypes, NameInv, OrderInv, NEW s \in Servers, Rename(s)
    PROVE  OrderInv'
  <1>1. /\ wpc[s] = "written" /\ Item(s).id \in Ids(dir)
        /\ dir' = [i \in DOMAIN dir |-> IF dir[i].id = Item(s).id THEN [dir[i] EXCEPT !.tmp = FALSE]
                                        ELSE dir[i]]
        /\ wpc' = [wpc EXCEPT ![s] = "renamed"] /\ entries' = entries /\ todo' = todo
    BY DEF Rename, At, GoTo
  <1>2. PICK own \in DOMAIN dir : dir[own].id = Item(s).id
    BY <1>1 DEF Ids
  <1>3. DOMAIN dir' = DOMAIN dir
    BY <1>1
  <1>4. ASSUME NEW i \in DOMAIN dir
        PROVE  /\ dir'[i].id = dir[i].id /\ dir'[i].key = dir[i].key
               /\ dir'[i].prompt = dir[i].prompt /\ dir'[i].state = dir[i].state
               /\ i # own => dir'[i] = dir[i]
               /\ Bin(dir[i]) => Bin(dir'[i])
    <2>1. dir[i] \in FileRecords
      BY ElementOfSeq, LenProperties DEF DiskTypes
    <2>2. dir[i].id = Item(s).id => i = own
      BY <1>2 DEF NameInv, Named
    <2> QED
      BY <1>1, <1>2, <2>1, <2>2 DEF FileRecords, Bin
  <1>5. /\ ~dir'[own].tmp /\ dir[own].key = Key[s] /\ dir[own].prompt = Item(s).prompt
        /\ dir[own].state = "good"
    <2>1. dir[own] \in FileRecords
      BY ElementOfSeq, LenProperties DEF DiskTypes
    <2>2. Own(s) /\ Holds(s)
      BY <1>1 DEF NameInv, Holds
    <2> QED
      BY <1>1, <1>2, <2>1, <2>2 DEF FileRecords, Own, OrderInv, OwnNewest
  <1>6. ASSUME NEW t \in Servers PROVE dir[own].id \notin Ids(entries[t])
    <2> SUFFICES ASSUME NEW k \in DOMAIN entries[t], entries[t][k].id = dir[own].id PROVE FALSE
      BY DEF Ids
    <2>1. TrueEntry(t, entries[t][k])
      BY DEF NameInv
    <2> QED
      BY <1>1, <1>2, <2>1 DEF TrueEntry
  <1>7. ASSUME NEW t \in Servers, NEW i \in DOMAIN dir PROVE Knows(t, i)' <=> Knows(t, i)
    <2>1. CASE i = own
      BY <1>1, <1>4, <1>6, <2>1 DEF Knows
    <2>2. CASE i # own
      BY <1>1, <1>4, <2>2 DEF Knows
    <2> QED
      BY <2>1, <2>2
  <1>8. ASSUME NEW t \in Servers
        PROVE  /\ Item(t)' = Item(t) /\ entries'[t] = entries[t]
               /\ wpc'[t] # "begin" => wpc[t] # "begin"
               /\ Holds(t)' => Holds(t)
               /\ t # s => wpc'[t] = wpc[t]
    BY <1>1 DEF DiskTypes, Item, Holds
  <1>9. ScansOrdered'
    BY <1>3, <1>7, <1>8 DEF OrderInv, ScansOrdered
  <1>10. OwnNewest'
    BY <1>3, <1>4, <1>8 DEF OrderInv, OwnNewest
  <1>11. Replaced'
    <2> SUFFICES ASSUME NEW t \in Servers, wpc'[t] = "renamed", NEW i \in DOMAIN dir',
                        Knows(t, i)', dir'[i].key = Key[t], Contains(Item(t)'.prompt, dir'[i].prompt)
                 PROVE  \E j \in DOMAIN dir' : Replaces(t, j, i)'
      BY DEF Replaced
    <2>1. /\ i \in DOMAIN dir /\ Knows(t, i) /\ dir[i].key = Key[t]
          /\ Contains(Item(t).prompt, dir[i].prompt)
      BY <1>3, <1>4, <1>7, <1>8
    <2>2. CASE t = s
      <3>1. i < own
        BY <1>1, <1>2, <2>1, <2>2 DEF OrderInv, OwnNewest, Holds, Knows
      <3>2. ~Knows(t, own)' /\ Bin(dir'[own])
        BY <1>5, <1>6, <1>7 DEF Knows, Bin
      <3>3. Contains(dir'[own].prompt, dir'[i].prompt)
        BY <1>4, <1>5, <2>1, <2>2
      <3>4. Replaces(t, own, i)'
        BY <1>4, <1>5, <2>2, <3>1, <3>2, <3>3 DEF Replaces
      <3> QED
        BY <1>3, <3>4
    <2>3. CASE t # s
      <3>1. PICK j \in DOMAIN dir : Replaces(t, j, i)
        BY <1>8, <2>1, <2>3 DEF OrderInv, Replaced
      <3>2. ~Knows(t, j)'
        BY <1>7, <3>1 DEF Replaces
      <3>3. Replaces(t, j, i)'
        BY <1>4, <2>1, <3>1, <3>2 DEF Replaces
      <3> QED
        BY <1>3, <3>3
    <2> QED
      BY <2>2, <2>3
  <1> QED
    BY <1>9, <1>10, <1>11 DEF OrderInv

LEMMA OrderStep ==
    ASSUME IInv, IInv', DownInv, OrderInv, [Next]_vars
    PROVE  OrderInv'
  <1>1. DiskTypes /\ NameInv /\ DiskTypes'
    BY TypesSplit, TypesSplitNext DEF IInv
  <1>2. ASSUME NEW s \in Servers, Adds(s) PROVE OrderInv'
    BY <1>1, <1>2, MakeRoomOrder, WriteTmpOrder, RenameOrder DEF Adds
  <1>3. CASE ~\E s \in Servers : Adds(s)
    <2>1. /\ \A t \in Servers : Steady(t)
          /\ dir' = dir \/ \E s \in Servers : Removes(s)
      BY <1>3, DiskSteps
    <2> QED
      BY <1>1, <2>1, OrderSame, RemovesOrder
  <1> QED
    BY <1>2, <1>3

-----------------------------------------------------------------------------
(* The theorems *)

LEMMA InitHolds == CInit => IInv
  <1> SUFFICES ASSUME CInit PROVE IInv
    OBVIOUS
  <1>1. PICK found \in Found :
           dir = [i \in DOMAIN found |-> [id |-> i, tmp |-> FALSE, key |-> found[i].key,
                                          prompt |-> found[i].prompt, state |-> found[i].state]]
    BY DEF CInit, DInit
  <1>2. /\ entries = [s \in Servers |-> <<>>] /\ up = {} /\ todo = [s \in Servers |-> <<>>]
        /\ wpc = [s \in Servers |-> "begin"]
        /\ slot = [i \in Slots |-> Empty] /\ states = <<>> /\ staging = <<>>
        /\ pc = "down" /\ ret = 1 /\ want = <<>> /\ saving = 1
    BY DEF CInit, DInit
  <1> DEFINE S == [key : {Key[s] : s \in Servers} \cup {OtherKey}, prompt : Prompts,
                   state : {"good", "cut", "flipped"}]
  <1>3. found \in Seq(S) /\ DOMAIN found \subseteq FileIds
    BY DiskAssumption
  <1>4. DOMAIN found = 1 .. Len(found) /\ Len(found) \in Nat
    BY <1>3, LenProperties
  <1>5. \A i \in DOMAIN found : found[i] \in S
    BY <1>3, <1>4, ElementOfSeq
  <1>6. dir \in Seq(FileRecords)
    <2>1. \A i \in DOMAIN found :
             [id |-> i, tmp |-> FALSE, key |-> found[i].key, prompt |-> found[i].prompt,
              state |-> found[i].state] \in FileRecords
      BY <1>3, <1>5 DEF FileRecords
    <2> QED
      BY <1>1, <1>4, <2>1
  <1>7. Named(dir)
    BY <1>1 DEF Named
  <1>8. DiskTypes
    BY <1>2, <1>6 DEF DiskTypes
  <1>9. NameInv
    BY <1>2, <1>7 DEF NameInv, Holds
  <1>10. 1 \in Slots /\ 1 \in 1 .. NSlots + 1
    BY CacheAssumption DEF Slots
  <1>11. CacheTypes
    BY <1>2, <1>10 DEF CacheTypes, Empty
  <1>12. StageInv /\ SavingInv /\ NothingWrongRestored
    BY <1>2, <1>10 DEF StageInv, SavingInv, NothingWrongRestored, Empty
  <1> QED
    BY <1>8, <1>9, <1>11, <1>12, TypesSplit DEF IInv

LEMMA NextKeeps == IInv /\ [Next]_vars => IInv'
  <1> SUFFICES ASSUME IInv, [Next]_vars PROVE IInv'
    OBVIOUS
  <1>0. DiskTypes /\ CacheTypes /\ NameInv
    BY TypesSplit DEF IInv
  <1>1. ASSUME NEW i \in Slots, ClearSlot(i) PROVE IInv'
    BY <1>1, ClearSlotKeeps
  <1>2. ASSUME NEW i \in Slots, NEW p \in Prompts, SelectSlot(i, p) \/ Continue(i, p)
        PROVE  IInv'
    BY <1>2, SelectSlotKeeps, ContinueKeeps
  <1>3. CASE IdleSlot \/ BusySlot
    BY <1>3, IdleSlotKeeps
  <1>4. CASE LoadNothing
    BY <1>4, LoadNothingKeeps
  <1>5. CASE LoadRam \/ LoadRamFails \/ LoadRamHalf
    BY <1>5, LoadRamKeeps
  <1>6. CASE LoadDisk
    BY <1>6, LoadDiskKeeps
  <1>7. CASE LoadDiskFails
    BY <1>7, LoadDiskFailsKeeps
  <1>8. CASE Flush \/ FlushSlot \/ FlushToDisk
    BY <1>8, FlushKeeps, FlushSlotKeeps, FlushToDiskKeeps
  <1>9. CASE Leave
    BY <1>9, LeaveKeeps
  <1>10. CASE Start
    BY <1>10, StartKeeps
  <1>11. CASE CrashSelf
    <2>1. Crash(Self) /\ Lose
      BY <1>11 DEF CrashSelf
    <2>2. DiskTypes' /\ NameInv' /\ Self \notin up'
      BY <1>0, <2>1, CacheAssumption, CrashKeeps
    <2> QED
      BY <1>0, <2>1, <2>2, LoseTypes, Together
  <1>12. CASE Write(Self) /\ UNCHANGED cvars
    BY <1>0, <1>12, CacheAssumption, WriteKeeps, DiskOnly
  <1>13. ASSUME NEW s \in Servers \ {Self}, Neighbour(s) PROVE IInv'
    BY <1>0, <1>13, NeighbourKeeps, DiskOnly
  <1>14. CASE UNCHANGED vars
    <2>1. UNCHANGED <<dir, entries, up, todo, wpc>> /\ UNCHANGED cvars
      BY <1>14 DEF vars, dvars
    <2>2. \A t \in Servers : \A k \in DOMAIN entries'[t] : TrueEntry(t, entries'[t][k])
      BY <1>0, <2>1 DEF NameInv
    <2>3. Quiet
      BY <1>0, <2>1, <2>2, LeftItself DEF Quiet, NameInv, Writing, Item
    <2>4. NameInv'
      BY <1>0, <2>3, QuietKeeps
    <2>5. DiskTypes'
      BY <1>0, <2>1 DEF DiskTypes
    <2> QED
      BY <2>1, <2>4, <2>5, DiskOnly
  <1> QED
    BY <1>1, <1>2, <1>3, <1>4, <1>5, <1>6, <1>7, <1>8, <1>9, <1>10, <1>11, <1>12, <1>13,
       <1>14 DEF Next

\* The names of files, the staging area and the slots are as IInv says, always.
THEOREM PromptInvariant == CSpec => []IInv
  <1>1. CInit => IInv
    BY InitHolds
  <1>2. IInv /\ [Next]_vars => IInv'
    BY NextKeeps
  <1> QED
    BY <1>1, <1>2, PTL DEF CSpec

\* The directory, the indexes, the writes and the cache keep their types, and the main
\* thread is in an operation of the cache only while its server is up.
THEOREM PromptTypes == CSpec => []PromptTypeOK
  <1>1. IInv => PromptTypeOK
    BY DEF IInv
  <1> QED
    BY <1>1, PromptInvariant, PTL

\* write(), scan() and parse_header(): an entry of an index is right about the file of
\* its name, whatever the servers do to the directory at the same time.
THEOREM IndexesAreTrue == CSpec => []IndexIsTrue
  <1>1. IInv => IndexIsTrue
    <2> SUFFICES ASSUME IInv, NEW s \in Servers, NEW i \in DOMAIN entries[s],
                        NEW j \in DOMAIN dir, entries[s][i].id = dir[j].id
                 PROVE  /\ Bin(dir[j]) /\ entries[s][i].prompt = dir[j].prompt
                        /\ entries[s][i].match <=> dir[j].key = Key[s]
      BY DEF IndexIsTrue
    <2>1. TrueEntry(s, entries[s][i])
      BY DEF IInv, NameInv
    <2> QED
      BY <2>1 DEF TrueEntry
  <1> QED
    BY <1>1, PromptInvariant, PTL

\* read(): what load() restores into a slot is never from a damaged file, nor from one of
\* another configuration.
THEOREM NothingWrong == CSpec => []NothingWrongRestored
  <1>1. IInv => NothingWrongRestored
    BY DEF IInv
  <1> QED
    BY <1>1, PromptInvariant, PTL

\* update() and flush_to_disk(): a staged state is written to disk, not dropped.
LEMMA StepSpills ==
    ASSUME IInv, [Next]_vars, staging' # staging
    PROVE  \A e \in {staging[i] : i \in DOMAIN staging} :
              \/ pc \in {"flush", "flushed"} \/ pc' = "down"
              \/ \E i \in DOMAIN todo'[Self] : todo'[Self][i].prompt = e.prompt
  <1> SUFFICES ASSUME NEW k \in DOMAIN staging, pc \notin {"flush", "flushed"}, pc' # "down"
               PROVE  \E i \in DOMAIN todo'[Self] : todo'[Self][i].prompt = staging[k].prompt
    OBVIOUS
  <1>1. DiskTypes /\ CacheTypes /\ StageInv
    BY TypesSplit DEF IInv
  <1>2. staging # <<>> /\ staging[k].main
    BY <1>1 DEF StageInv
  <1>3. pc = "load"
    BY <1>1, <1>2 DEF StageInv
  <1>4. ASSUME NEW from, Proceed(from) PROVE Spill(staging)
    BY <1>4 DEF Proceed
  <1>5. Spill(staging)
    <2>1. CASE LoadNothing \/ LoadRam \/ LoadRamFails \/ LoadRamHalf \/ LoadDisk \/ LoadDiskFails
      BY <1>4, <2>1 DEF LoadNothing, LoadRam, LoadRamFails, LoadRamHalf, LoadDisk, LoadDiskFails
    <2>2. ASSUME NEW i \in Slots, NEW p \in Prompts, SelectSlot(i, p) \/ Continue(i, p)
          PROVE  FALSE
      BY <1>3, <2>2 DEF SelectSlot, Continue, Main
    <2>3. ASSUME NEW i \in Slots, ClearSlot(i) PROVE FALSE
      BY <1>3, <2>3 DEF ClearSlot, Main
    <2>4. ASSUME IdleSlot \/ BusySlot \/ Flush \/ FlushSlot \/ FlushToDisk \/ Leave
          PROVE  FALSE
      BY <1>3, <2>4 DEF IdleSlot, BusySlot, Flush, FlushSlot, FlushToDisk, Leave, Main
    <2>5. ASSUME Start \/ CrashSelf PROVE FALSE
      BY <2>5 DEF Start, CrashSelf, Lose
    <2>6. ASSUME UNCHANGED cvars PROVE FALSE
      BY <2>6 DEF cvars
    <2>7. ~(\E s \in Servers \ {Self} : Neighbour(s)) /\ ~UNCHANGED vars
      BY <2>6 DEF Neighbour, vars, cvars
    <2>8. Next
      BY <2>7
    <2> QED
      BY <2>1, <2>2, <2>3, <2>4, <2>5, <2>6, <2>7, <2>8 DEF Next
  <1> QED
    BY <1>1, <1>2, <1>5, SpillTypes DEF CacheTypes

THEOREM StagedIsWritten == CSpec => StagedIsSpilled
  <1> DEFINE Spills == \A e \in {staging[i] : i \in DOMAIN staging} :
                          \/ pc \in {"flush", "flushed"} \/ pc' = "down"
                          \/ \E i \in DOMAIN todo'[Self] : todo'[Self][i].prompt = e.prompt
  <1>1. IInv /\ [Next]_vars => [Spills]_staging
    BY StepSpills
  <1> QED
    BY <1>1, PromptInvariant, PTL DEF CSpec, StagedIsSpilled

LEMMA RoomAtStart ==
    ASSUME FoundFits, CInit
    PROVE  RoomInv
  <1> SUFFICES ASSUME Limit # 0 PROVE DirSize + MaxSize <= Spare
    BY DEF RoomInv
  <1>1. PICK found \in Found :
           dir = [i \in DOMAIN found |-> [id |-> i, tmp |-> FALSE, key |-> found[i].key,
                                          prompt |-> found[i].prompt, state |-> found[i].state]]
    BY DEF CInit, DInit
  <1>2. DiskTypes /\ NameInv
    BY InitHolds, TypesSplit DEF IInv
  <1>3. /\ DOMAIN dir = DOMAIN found
        /\ \A i \in DOMAIN dir : dir[i].id = i /\ dir[i].prompt = found[i].prompt
    BY <1>1
  <1>4. Sized(found)
    <2>1. \E S : found \in Seq(S)
      BY DiskAssumption
    <2>2. Len(found) \in Nat /\ DOMAIN found = 1 .. Len(found)
      BY <2>1, LenProperties
    <2>3. Sized(dir)
      BY <1>2, SizedTypes DEF DiskTypes
    <2> QED
      BY <1>3, <2>2, <2>3 DEF Sized
  <1>5. /\ Sized(Bins(dir)) /\ Named(Bins(dir))
        /\ \A k \in DOMAIN Bins(dir) : \E i \in DOMAIN dir : Bins(dir)[k] = dir[i]
    BY <1>2, BinsAll DEF DiskTypes, NameInv
  <1>6. DirSize <= Sum(found)
    <2> DEFINE h == [k \in DOMAIN Bins(dir) |-> Bins(dir)[k].id]
    <2>1. h \in [DOMAIN Bins(dir) -> DOMAIN found]
      BY <1>3, <1>5
    <2>2. /\ \A k, l \in DOMAIN Bins(dir) : h[k] = h[l] => k = l
          /\ \A k \in DOMAIN Bins(dir) : found[h[k]].prompt = Bins(dir)[k].prompt
      BY <1>3, <1>5 DEF Named
    <2> HIDE DEF h
    <2> QED
      BY <1>4, <1>5, <2>1, <2>2, SumInjects DEF DirSize
  <1> DEFINE n == Cardinality(Servers)
  <1>7. Sum(found) <= Limit + (n - 1) * MaxSize /\ Sum(found) \in Nat
    BY <1>4, BytesFinite DEF FoundFits
  <1>8. Making = {} /\ Servers \ {} = Servers
    BY DEF CInit, DInit, Making
  <1>9. Spare = Limit + n * MaxSize
    BY <1>8 DEF Spare
  <1>10. n \in Nat /\ MaxSize \in Nat /\ Limit \in Nat /\ DirSize \in Nat
    BY <1>2, SpareOf, MaxSizeBounds, DiskAssumption, DirSizeType
  <1> HIDE DEF n
  <1>11. n * MaxSize = (n - 1) * MaxSize + MaxSize /\ n * MaxSize \in Nat
         /\ (n - 1) * MaxSize \in Int
    BY <1>10
  <1> QED
    BY <1>6, <1>7, <1>9, <1>10, <1>11

\* alloc() and write() make room first: the RAM tier is never over its limit, and the
\* directory by no more than one prompt of each further server.
THEOREM LimitsAreKept ==
    ASSUME FoundFits
    PROVE  CSpec => []WithinLimits
  <1>1. CInit => DownInv /\ RoomInv /\ RamInv
    <2>1. CInit => RoomInv
      BY RoomAtStart
    <2>2. CInit => RamInv
      <3>1. CInit => states = <<>>
        BY DEF CInit
      <3> QED
        BY <3>1, SumEmpty, CacheAssumption DEF RamInv
    <2>3. CInit => DownInv
      BY DEF CInit, DInit, DownInv
    <2> QED
      BY <2>1, <2>2, <2>3
  <1>2. IInv /\ IInv' /\ DownInv /\ RoomInv /\ RamInv /\ [Next]_vars
           => DownInv' /\ RoomInv' /\ RamInv'
    BY DownStep, RoomStep, RamStep
  <1>3. IInv /\ RoomInv /\ RamInv => WithinLimits
    BY TypesSplit, RoomLimits DEF IInv, RamInv, WithinLimits
  <1> QED
    BY <1>1, <1>2, <1>3, PromptInvariant, PTL DEF CSpec

\* A step after which a prompt can no longer be restored is an eviction.
LEMMA LossStep ==
    ASSUME IInv, DownInv, OrderInv, [Next]_vars, NEW k, NEW p \in Prompts,
           Covered(dir, k, p), ~Covered(dir', k, p)
    PROVE  Limit # 0 /\ \E s \in Servers : Evicts(s)
  <1>1. DiskTypes /\ NameInv /\ dir \in Seq(FileRecords)
    BY TypesSplit DEF IInv, DiskTypes
  <1>2. PICK i \in DOMAIN dir : /\ Bin(dir[i]) /\ dir[i].state = "good" /\ dir[i].key = k
                                /\ Contains(dir[i].prompt, p)
    BY DEF Covered
  <1>3. ~Has(dir', dir[i])
    BY <1>2 DEF Covered, Has
  <1>4. ASSUME NEW s \in Servers, Removes(s) \/ MakeRoom(s) PROVE Limit # 0 /\ Evicts(s)
    <2>1. ASSUME NEW j \in DOMAIN dir, Replaces(s, j, i), Has(dir', dir[j]), dir[i].key = Key[s]
          PROVE  FALSE
      <3>1. /\ dir[j].key = k /\ Bin(dir[j]) /\ dir[j].state = "good"
            /\ Contains(dir[j].prompt, dir[i].prompt)
        BY <1>2, <2>1 DEF Replaces
      <3>2. \A h \in DOMAIN dir : dir[h].prompt \in Seq(Nat)
        <4>1. \A h \in DOMAIN dir : dir[h] \in FileRecords
          BY <1>1, ElementOfSeq, LenProperties
        <4> QED
          BY <4>1, DiskAssumption DEF FileRecords
      <3>3. Contains(dir[j].prompt, p)
        BY <1>2, <3>1, <3>2, DiskAssumption, ContainsTransitive
      <3> QED
        BY <2>1, <3>1, <3>3 DEF Has, Covered
    <2> QED
      BY <1>1, <1>2, <1>3, <1>4, <2>1, RemovedFor DEF OrderInv
  <1>5. ASSUME NEW s \in Servers, WriteTmp(s) \/ Rename(s) PROVE FALSE
    <2>1. i \in DOMAIN dir'
      <3>1. CASE WriteTmp(s)
        BY <1>1, <3>1, WriteTmpAdds
      <3>2. CASE Rename(s)
        BY <3>2 DEF Rename
      <3> QED
        BY <1>5, <3>1, <3>2
    <2>2. /\ Bin(dir'[i]) /\ dir'[i].state = "good" /\ dir'[i].key = k
          /\ dir'[i].prompt = dir[i].prompt
      <3>1. CASE WriteTmp(s)
        BY <1>1, <1>2, <3>1, WriteTmpAdds
      <3>2. CASE Rename(s)
        <4>1. dir[i] \in FileRecords
          BY <1>1, ElementOfSeq, LenProperties
        <4> QED
          BY <1>2, <3>2, <4>1 DEF Rename, FileRecords, Bin
      <3> QED
        BY <1>5, <3>1, <3>2
    <2> QED
      BY <1>2, <2>1, <2>2 DEF Covered
  <1>6. CASE ~\E s \in Servers : Adds(s)
    <2>1. dir' = dir \/ \E s \in Servers : Removes(s)
      BY <1>6, DiskSteps
    <2>2. dir' # dir
      BY <1>3 DEF Has
    <2> QED
      BY <1>4, <2>1, <2>2
  <1> QED
    BY <1>4, <1>5, <1>6 DEF Adds

\* write() removes what the new file supersedes only once that file is there: whatever
\* the servers do, and wherever one dies, a prompt on disk is lost only to the limit.
THEOREM LossesMakeRoom == CSpec => LostOnlyForRoom
  <1>1. CInit => DownInv /\ OrderInv
    BY DEF CInit, DInit, DownInv, OrderInv, ScansOrdered, OwnNewest, Replaced, Holds
  <1>2. IInv /\ IInv' /\ DownInv /\ OrderInv /\ [Next]_vars => DownInv' /\ OrderInv'
    BY DownStep, OrderStep
  <1>3. IInv /\ DownInv /\ OrderInv /\ [Next]_vars
          => [\A k \in {Key[s] : s \in Servers}, p \in Prompts :
                Covered(dir, k, p) => Covered(dir', k, p) \/ (Limit # 0 /\ \E s \in Servers : Evicts(s))]_dir
    BY LossStep
  <1> QED
    BY <1>1, <1>2, <1>3, PromptInvariant, PTL DEF CSpec, LostOnlyForRoom
=============================================================================
