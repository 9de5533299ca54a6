---------------------------- MODULE PromptDisk -----------------------------
(***************************************************************************)
(* The disk tier of the prompt cache (server-prompt-cache-disk.cpp): a     *)
(* directory of files, one per prompt, shared by servers that each keep an *)
(* index of it.  A write scans the directory, makes room, writes a ".tmp"  *)
(* file, renames it into place and then removes what it supersedes; every  *)
(* step is one action, so that servers interleave and crash between them.  *)
(*                                                                         *)
(* The directory and the indexes are sequences in the order of the files'  *)
(* modification times, which is the order of eviction.  A file name is an  *)
(* id that no file and no index has (names carry time, pid and a counter). *)
(* What the checksum and the size in the header tell apart is one field of *)
(* a file: "good", "cut" (the header does not parse or the size is wrong)  *)
(* or "flipped" (only the checksum is wrong).                              *)
(***************************************************************************)
EXTENDS Integers, Sequences, FiniteSets, Subsequences

CONSTANTS
    Servers,
    Key,          \* Servers -> the model and KV configuration of each
    OtherKey,     \* a configuration no running server has
    Prompts,      \* sequences of tokens
    Size,         \* Prompts -> the size of the state, in RAM and on disk
    Limit,        \* --cache-disk-limit, 0 for none
    FileIds,      \* bound: names of files
    Found,        \* the directories the first server may find: sequences of
                  \* [key, prompt, state], some of them damaged by a power loss
    MayCrash      \* the servers that may crash

ASSUME DiskAssumption ==
    /\ Prompts \subseteq Seq(Nat) \ {<<>>}
    /\ Size \in [Prompts -> Nat \ {0}]
    /\ \E p \in Prompts : \A q \in Prompts : Size[q] <= Size[p]
    /\ IsFiniteSet(Servers)
    /\ OtherKey \notin {Key[s] : s \in Servers}
    /\ Limit \in Nat /\ MayCrash \subseteq Servers
    /\ IsFiniteSet(FileIds) /\ FileIds \subseteq Nat
    /\ Found \subseteq Seq([key : {Key[s] : s \in Servers} \cup {OtherKey}, prompt : Prompts,
                           state : {"good", "cut", "flipped"}])
    /\ \A q \in Found : DOMAIN q \subseteq FileIds

VARIABLES
    dir,       \* the files, oldest first: [id, tmp, key, prompt, state]
    entries,   \* each server's index: [id, prompt, match]
    up,        \* the servers that have the directory open
    todo,      \* what each of them has left to write: [id, prompt]
    wpc        \* where its write() is

dvars == <<dir, entries, up, todo, wpc>>

NoFile == 0

Bin(f)    == ~f.tmp
Bins(d)   == Picked(d, {i \in DOMAIN d : Bin(d[i])})
MaxSize   == CHOOSE n \in {Size[p] : p \in Prompts} : \A p \in Prompts : Size[p] <= n

\* The size of the states of q together: the number of their bytes.
Sum(q)    == Cardinality({b \in (1..Len(q)) \X (1..MaxSize) : b[2] <= Size[q[b[1]].prompt]})
DirSize   == Sum(Bins(dir))
Ids(q)    == {q[i].id : i \in DOMAIN q}
Without(q, I) == Picked(q, {i \in DOMAIN q : q[i].id \notin I})

\* p is q or a prefix of q (pc_common_prefix).
Contains(q, p) == Len(p) <= Len(q) /\ SubSeq(q, 1, Len(p)) = p

Writing(s) == todo[s] # <<>>

\* What server s is about to write.
Item(s) == Head(todo[s])

Used    == Ids(dir) \cup UNION {Ids(entries[s]) \cup Ids(todo[s]) : s \in Servers}
NewId   == CHOOSE i \in FileIds \ Used : \A j \in FileIds \ Used : i <= j

DInit ==
    /\ \E found \in Found :
         dir = [i \in DOMAIN found |-> [id |-> i, tmp |-> FALSE, key |-> found[i].key,
                                        prompt |-> found[i].prompt, state |-> found[i].state]]
    /\ entries = [s \in Servers |-> <<>>]
    /\ up = {}
    /\ todo = [s \in Servers |-> <<>>]
    /\ wpc = [s \in Servers |-> "begin"]

-----------------------------------------------------------------------------
(* scan() and the eviction of the oldest *)

\* Files whose header is bad are deleted when they are not in the index yet.
ScannedDir(d, e) ==
    Picked(d, {i \in DOMAIN d : d[i].tmp \/ d[i].id \in Ids(e) \/ d[i].state # "cut"})

\* parse_header() sets match; the tokens are loaded when the key matches.
Entry(s, f) == [id |-> f.id, prompt |-> f.prompt, match |-> f.key = Key[s]]

\* Mutant: the names of the files are not looked at.
ScannedAll(s, d, e) ==
    LET files == ScannedDir(d, e)
    IN  [i \in DOMAIN files |->
            IF \E j \in DOMAIN e : e[j].id = files[i].id
            THEN e[CHOOSE j \in DOMAIN e : e[j].id = files[i].id]
            ELSE Entry(s, files[i])]

Scanned(s, d, e) ==
    LET bins == Bins(ScannedDir(d, e))
    IN  [i \in DOMAIN bins |->
            IF \E j \in DOMAIN e : e[j].id = bins[i].id
            THEN e[CHOOSE j \in DOMAIN e : e[j].id = bins[i].id]
            ELSE Entry(s, bins[i])]

\* The index without the oldest entries, until it fits with `total` more bytes.
Fitting(e, total) ==
    LET fits == {n \in 0..Len(e) : Limit = 0 \/ n = Len(e)
                                      \/ Sum(SubSeq(e, n + 1, Len(e))) + total <= Limit}
        n    == CHOOSE n \in fits : \A m \in fits : n <= m
    IN  SubSeq(e, n + 1, Len(e))

\* Scan the directory d, then remove the oldest files beyond the limit.
ScanAndEvict(s, d, e, total) ==
    LET seen == Scanned(s, d, e)
        kept == Fitting(seen, total)
    IN  /\ entries' = [entries EXCEPT ![s] = kept]
        /\ dir' = Without(ScannedDir(d, e), Ids(seen) \ Ids(kept))

\* open(): the index is built anew.  A ".tmp" file older than tmp_stale_s is deleted,
\* though its writer may be only slow.
Open(s) ==
    /\ s \notin up
    /\ up' = up \cup {s}
    /\ \E stale \in SUBSET {f \in {dir[i] : i \in DOMAIN dir} : f.tmp} :
         ScanAndEvict(s, Without(dir, {f.id : f \in stale}), <<>>, 0)

-----------------------------------------------------------------------------
(* write() *)

\* Mutant: the next write goes on where this one stopped.
DoneStill(s) == todo' = [todo EXCEPT ![s] = Tail(@)] /\ UNCHANGED wpc

Done(s) == todo' = [todo EXCEPT ![s] = Tail(@)] /\ wpc' = [wpc EXCEPT ![s] = "begin"]
At(s, l) == s \in up /\ Writing(s) /\ wpc[s] = l
GoTo(s, l) == wpc' = [wpc EXCEPT ![s] = l]

Stored(s) == \E i \in DOMAIN entries[s] :
                entries[s][i].match /\ Contains(entries[s][i].prompt, Item(s).prompt)

\* The index has the prompt: true is returned and nothing written.
WriteSkipped(s) ==
    /\ At(s, "begin")
    /\ Stored(s)
    /\ Done(s)
    /\ UNCHANGED <<dir, entries, up>>

\* Too large for the limit; or the free-space guard says no, or the file cannot be
\* opened or written, in which case its ".tmp" file is removed again.
WriteFails(s) ==
    /\ \/ At(s, "begin") /\ ~Stored(s)
       \/ At(s, "room")
    /\ Done(s)
    /\ UNCHANGED <<dir, entries, up>>

\* Mutant: what the prompt supersedes is removed to make room for it.
MakeRoomSuperseding(s) ==
    LET old == {i \in Ids(entries[s]) : \E j \in DOMAIN entries[s] :
                   /\ entries[s][j].id = i /\ entries[s][j].match
                   /\ Contains(Item(s).prompt, entries[s][j].prompt)}
    IN  /\ At(s, "begin")
        /\ ~Stored(s)
        /\ Limit = 0 \/ Size[Item(s).prompt] <= Limit
        /\ ScanAndEvict(s, Without(dir, old), Without(entries[s], old), Size[Item(s).prompt])
        /\ GoTo(s, "room")
        /\ UNCHANGED <<up, todo>>

\* Mutant: room is made for what is there, not for what comes.
MakeRoomForNone(s) ==
    /\ At(s, "begin")
    /\ ~Stored(s)
    /\ Limit = 0 \/ Size[Item(s).prompt] <= Limit
    /\ ScanAndEvict(s, dir, entries[s], 0)
    /\ GoTo(s, "room")
    /\ UNCHANGED <<up, todo>>

\* "make room first, so the directory never exceeds the limit"
MakeRoom(s) ==
    /\ At(s, "begin")
    /\ ~Stored(s)
    /\ Limit = 0 \/ Size[Item(s).prompt] <= Limit
    /\ ScanAndEvict(s, dir, entries[s], Size[Item(s).prompt])
    /\ GoTo(s, "room")
    /\ UNCHANGED <<up, todo>>

\* The ".tmp" file is the newest file from now on.
WriteTmp(s) ==
    /\ At(s, "room")
    /\ FileIds \ Used # {}
    /\ dir' = Append(dir, [id |-> NewId, tmp |-> TRUE, key |-> Key[s],
                           prompt |-> Item(s).prompt, state |-> "good"])
    /\ todo' = [todo EXCEPT ![s][1].id = NewId]
    /\ GoTo(s, "written")
    /\ UNCHANGED <<entries, up>>

Rename(s) ==
    /\ At(s, "written")
    /\ Item(s).id \in Ids(dir)
    /\ dir' = [i \in DOMAIN dir |-> IF dir[i].id = Item(s).id THEN [dir[i] EXCEPT !.tmp = FALSE]
                                    ELSE dir[i]]
    /\ GoTo(s, "renamed")
    /\ UNCHANGED <<entries, up, todo>>

\* The rename fails, for one because another server took the file for a stale one.
RenameFails(s) ==
    /\ At(s, "written")
    /\ dir' = Without(dir, {Item(s).id})
    /\ Done(s)
    /\ UNCHANGED <<entries, up>>

\* Stored prompts that are a prefix of the new one are removed; it joins the index.
Supersede(s) ==
    LET p   == Item(s).prompt
        old == {e \in {entries[s][i] : i \in DOMAIN entries[s]} :
                  e.match /\ Contains(p, e.prompt)}
        ids == {e.id : e \in old}
    IN  /\ At(s, "renamed")
        /\ dir' = Without(dir, ids)
        /\ entries' = [entries EXCEPT ![s] =
                          Append(Without(@, ids), [id |-> Item(s).id, prompt |-> p, match |-> TRUE])]
        /\ Done(s)
        /\ UNCHANGED <<up>>

Write(s) == WriteSkipped(s) \/ WriteFails(s) \/ MakeRoom(s) \/ WriteTmp(s) \/ Rename(s)
              \/ RenameFails(s) \/ Supersede(s)

-----------------------------------------------------------------------------
(* read() of entry e of the index of s *)

FileOf(e) == {f \in {dir[i] : i \in DOMAIN dir} : f.id = e.id}

\* The file is gone: another server has evicted it.
ReadGone(s, e) ==
    /\ FileOf(e) = {}
    /\ entries' = [entries EXCEPT ![s] = Without(@, {e.id})]
    /\ UNCHANGED dir

\* It does not parse or verify, and is removed.
ReadBad(s, e) ==
    /\ \E f \in FileOf(e) : f.state # "good"
    /\ entries' = [entries EXCEPT ![s] = Without(@, {e.id})]
    /\ dir' = Without(dir, {e.id})

\* Mutant: the checksum is not compared.
ReadUnverified(s, e, f) == f \in FileOf(e) /\ f.key = Key[s] /\ f.state # "cut"

\* What read() returns: the file, when its key, its size and its checksum are right.
ReadGood(s, e, f) == f \in FileOf(e) /\ f.key = Key[s] /\ f.state = "good"

-----------------------------------------------------------------------------
\* A process dies, between any two steps.  The ".tmp" file it leaves is not followed:
\* nobody reads or counts it.
Crash(s) ==
    /\ s \in up \cap MayCrash
    /\ up' = up \ {s}
    /\ dir' = IF wpc[s] = "written" THEN Without(dir, {Item(s).id}) ELSE dir
    /\ todo' = [todo EXCEPT ![s] = <<>>]
    /\ wpc' = [wpc EXCEPT ![s] = "begin"]
    /\ entries' = [entries EXCEPT ![s] = <<>>]

-----------------------------------------------------------------------------
(* Properties *)

\* A prompt of configuration k can be restored from the directory d.
Covered(d, k, p) == \E i \in DOMAIN d : /\ Bin(d[i]) /\ d[i].state = "good" /\ d[i].key = k
                                        /\ Contains(d[i].prompt, p)
=============================================================================
