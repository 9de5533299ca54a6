---------------------------- MODULE PromptCache ----------------------------
(***************************************************************************)
(* The prompt cache of a server (server_prompt_cache in server-task.cpp,   *)
(* its use in get_available_slot(), prompt_cache_flush() and load_model()) *)
(* over the disk tier (PromptDisk): a slot that takes another conversation *)
(* saves its own in RAM, what no longer fits there is spilled to disk, and *)
(* the best stored prompt is restored into the slot.                       *)
(*                                                                         *)
(* One server, Self, is modelled in full; the main thread alone works on   *)
(* its cache.  Its neighbours share the directory: they spill any prompt   *)
(* and read any entry of theirs at any time.                               *)
(*                                                                         *)
(* The contents of a KV cache are not followed, only whether one came from *)
(* a damaged file or from another configuration.  --cache-ram is given a   *)
(* value (fit_ram is off) and --slot-prompt-similarity is not 0.  Sizes    *)
(* exclude the spare buffers and the token limit, which only follow the    *)
(* size limit.  The staging area is never the best match in load(), since  *)
(* the slot has it still.                                                  *)
(***************************************************************************)
EXTENDS PromptDisk

CONSTANTS
    Self,
    Spilled,      \* the prompts the other servers spill
    NSlots,       \* the slots are numbered
    RamLimit,     \* limit_size
    HasDraft,     \* there is a draft context to restore too
    CacheIdleSlots, KvUnified  \* --cache-idle-slots, --kv-unified

ASSUME CacheAssumption ==
    /\ Self \in Servers /\ Spilled \subseteq Prompts
    /\ NSlots \in Nat \ {0} /\ RamLimit \in Nat \ {0}
    /\ {HasDraft, CacheIdleSlots, KvUnified} \subseteq BOOLEAN

VARIABLES
    slot,      \* the prompt of each slot, and whether it was restored wrongly
    states,    \* the RAM tier, oldest first: [prompt, main]
    staging,   \* the state on its way past the RAM tier, <<>> or one
    pc,        \* what the main thread does
    ret, want, \* the slot it has selected, and the prompt it is wanted for
    saving     \* the next slot to be saved, when all of them are

cvars == <<slot, states, staging, pc, ret, want, saving>>
vars  == <<dvars, cvars>>

Slots == 1..NSlots

Empty == [prompt |-> <<>>, wrong |-> FALSE]

CInit ==
    /\ DInit
    /\ slot = [i \in Slots |-> Empty]
    /\ states = <<>> /\ staging = <<>>
    /\ pc = "down" /\ ret = 1 /\ want = <<>> /\ saving = 1

common_prefix(p, q) ==
    Cardinality({n \in 1..Len(p) : n <= Len(q) /\ SubSeq(p, 1, n) = SubSeq(q, 1, n)})

\* disk_spill() of the states of q, in turn; a state without its main part is not written.
Spill(q) ==
    LET data == Picked(q, {i \in DOMAIN q : q[i].main})
    IN  todo' = [todo EXCEPT ![Self] =
                    [i \in DOMAIN data |-> [id |-> NoFile, prompt |-> data[i].prompt]]]

\* The main thread goes on when its writes are over.
Main(l) == pc = l /\ ~Writing(Self)

-----------------------------------------------------------------------------
(* alloc(), which saves the prompt of slot i *)

Kept(i) == \E j \in DOMAIN states : Contains(states[j].prompt, slot[i].prompt)

State(i) == [prompt |-> slot[i].prompt, main |-> TRUE]

\* It fits: the states it contains go, the oldest are spilled to make room for it.
SaveInRam(i) ==
    LET new  == Size[slot[i].prompt]
        rest == Picked(states, {j \in DOMAIN states : ~Contains(slot[i].prompt, states[j].prompt)})
        fits == {n \in 0..Len(rest) : n = Len(rest)
                    \/ Sum(SubSeq(rest, n + 1, Len(rest))) + new <= RamLimit}
        n    == CHOOSE n \in fits : \A m \in fits : n <= m
    IN  /\ Spill(SubSeq(rest, 1, n))
        /\ states' = Append(SubSeq(rest, n + 1, Len(rest)), State(i))
        /\ UNCHANGED staging

\* It is larger than the RAM tier: what was staged before is overwritten.
Stage(i) ==
    /\ staging' = <<State(i)>>
    /\ UNCHANGED <<states, todo>>

prompt_save(i) ==
    IF slot[i].prompt = <<>> \/ Kept(i) THEN UNCHANGED <<states, staging, todo>>
    ELSE IF Size[slot[i].prompt] > RamLimit THEN Stage(i) ELSE SaveInRam(i)

-----------------------------------------------------------------------------
(* A request: get_available_slot() *)

\* Slot i keeps half of its prompt at least (f_keep).
Similar(i, p) ==
    slot[i].prompt # <<>> /\ 2 * common_prefix(slot[i].prompt, p) >= Len(slot[i].prompt)

\* A slot is selected for prompt p and, about to lose most of its own, saves it.
SelectSlot(i, p) ==
    /\ Main("serving")
    /\ ~Similar(i, p)
    /\ ret' = i /\ want' = p
    /\ prompt_save(i)
    /\ pc' = "load"
    /\ UNCHANGED <<dir, entries, up, wpc, slot, saving>>

\* The task is launched in slot i; the idle slots are seen to then.
Launched(i) ==
    /\ pc' = IF CacheIdleSlots THEN "idle" ELSE "serving"
    /\ ret' = IF CacheIdleSlots THEN i ELSE 1
    /\ want' = <<>>

\* A request that goes on with most of the prompt of a slot leaves the cache alone.
Continue(i, p) ==
    /\ Main("serving")
    /\ Similar(i, p)
    /\ slot' = [slot EXCEPT ![i].prompt = p]
    /\ Launched(i)
    /\ UNCHANGED <<dvars, states, staging, saving>>

\* A slot is cleared when its task fails or is erased, or to make room for others.
ClearSlot(i) ==
    /\ Main("serving")
    /\ slot[i] # Empty
    /\ slot' = [slot EXCEPT ![i] = Empty]
    /\ UNCHANGED <<dvars, states, staging, pc, ret, want, saving>>

\* load(): a candidate must keep a quarter of itself and beat the best so far in what
\* it keeps (f_keep) and in what it covers of the new prompt (f_sim).
Better(c, best) ==
    LET n == common_prefix(c.prompt, want)
        m == common_prefix(best.prompt, want)
    IN  /\ 4 * n >= Len(c.prompt)
        /\ best.prompt = <<>> \/ m * Len(c.prompt) < n * Len(best.prompt)
        /\ m < n

Candidates ==
    LET ram    == [j \in DOMAIN states |-> [in |-> "ram", at |-> j, prompt |-> states[j].prompt]]
        disk   == [j \in DOMAIN entries[Self] |->
                     [in |-> "disk", at |-> j, prompt |-> entries[Self][j].prompt]]
    IN  ram \o Picked(disk, {j \in DOMAIN disk : entries[Self][j].match})

Best ==
    LET best[j \in 0..Len(Candidates)] ==
            IF j = 0 THEN [in |-> "slot", at |-> ret, prompt |-> slot[ret].prompt]
            ELSE IF Better(Candidates[j], best[j - 1]) THEN Candidates[j] ELSE best[j - 1]
    IN  best[Len(Candidates)]

\* Mutant: what was staged is dropped when the slot is cleared.
ProceedUnstaged(from) ==
    /\ slot' = [slot EXCEPT ![ret] =
                  [prompt |-> want, wrong |-> from.wrong /\ common_prefix(from.prompt, want) # 0]]
    /\ IF from = Empty THEN UNCHANGED todo ELSE Spill(staging)
    /\ staging' = <<>>
    /\ Launched(ret)
    /\ UNCHANGED <<up, wpc, saving>>

\* The slot goes on from what load() left it: what it shares with the new prompt
\* stays, the rest is computed.  The staged state is spilled by update() before.
Proceed(from) ==
    /\ slot' = [slot EXCEPT ![ret] =
                  [prompt |-> want, wrong |-> from.wrong /\ common_prefix(from.prompt, want) # 0]]
    /\ Spill(staging)
    /\ staging' = <<>>
    /\ Launched(ret)
    /\ UNCHANGED <<up, wpc, saving>>

LoadNothing ==
    /\ Main("load")
    /\ Best.in = "slot"
    /\ Proceed(slot[ret])
    /\ UNCHANGED <<dir, entries, states>>

\* restore() of a RAM state.  A state without its main part restores zero bytes of it,
\* which is no error.
LoadRam ==
    /\ Main("load")
    /\ Best.in = "ram"
    /\ Proceed([prompt |-> states[Best.at].prompt, wrong |-> FALSE])
    /\ states' = Picked(states, DOMAIN states \ {Best.at})
    /\ UNCHANGED <<dir, entries>>

\* The speculative state or the target's cannot be restored: the slot is cleared.
LoadRamFails ==
    /\ Main("load")
    /\ Best.in = "ram"
    /\ Proceed(Empty)
    /\ UNCHANGED <<dir, entries, states>>

\* The draft's state cannot be: the state in RAM has lost its main part by then.
LoadRamHalf ==
    /\ Main("load")
    /\ HasDraft
    /\ Best.in = "ram"
    /\ Proceed(Empty)
    /\ states' = [states EXCEPT ![Best.at].main = FALSE]
    /\ UNCHANGED <<dir, entries>>

BestFile == entries[Self][Best.at]

LoadDisk ==
    /\ Main("load")
    /\ Best.in = "disk"
    /\ \E f \in FileOf(BestFile) :
         /\ ReadGood(Self, BestFile, f)
         /\ Proceed([prompt |-> f.prompt, wrong |-> f.state # "good" \/ f.key # Key[Self]])
    /\ UNCHANGED <<dir, entries, states>>

\* read() fails, or restore() does after it: the slot is cleared.
LoadDiskFails ==
    /\ Main("load")
    /\ Best.in = "disk"
    /\ \/ ReadGone(Self, BestFile)
       \/ ReadBad(Self, BestFile)
       \/ (\E f \in FileOf(BestFile) : ReadGood(Self, BestFile, f)) /\ UNCHANGED <<dir, entries>>
    /\ Proceed(Empty)
    /\ UNCHANGED states

-----------------------------------------------------------------------------
(* The idle slots, once a task has been launched *)

\* prompt_save() and update(): what does not fit in RAM is written at once.
SaveIdle(i) ==
    IF slot[i].prompt = <<>> \/ Kept(i) THEN UNCHANGED <<states, staging, todo>>
    ELSE IF Size[slot[i].prompt] > RamLimit THEN Spill(<<State(i)>>) /\ UNCHANGED <<states, staging>>
    ELSE SaveInRam(i)

NextSlot ==
    IF saving < NSlots THEN saving' = saving + 1 /\ UNCHANGED <<pc, ret>>
    ELSE pc' = "serving" /\ saving' = 1 /\ ret' = 1

\* With a unified KV cache the slot is cleared too.
IdleSlot ==
    /\ Main("idle")
    /\ saving # ret
    /\ SaveIdle(saving)
    /\ slot' = IF KvUnified THEN [slot EXCEPT ![saving] = Empty] ELSE slot
    /\ NextSlot
    /\ UNCHANGED <<dir, entries, up, wpc, want>>

\* A slot that is processing is passed over, as the launched one is.
BusySlot ==
    /\ Main("idle")
    /\ NextSlot
    /\ UNCHANGED <<dvars, slot, states, staging, want>>

-----------------------------------------------------------------------------
(* prompt_cache_flush(), when the loop ends or the server falls asleep *)

Flush ==
    /\ Main("serving")
    /\ pc' = "flush" /\ saving' = 1
    /\ UNCHANGED <<dvars, slot, states, staging, ret, want>>

\* A slot that is still processing is passed over.
FlushSlot ==
    /\ Main("flush")
    /\ saving <= NSlots
    /\ prompt_save(saving) \/ UNCHANGED <<states, staging, todo>>
    /\ saving' = saving + 1
    /\ UNCHANGED <<dir, entries, up, wpc, slot, pc, ret, want>>

\* flush_to_disk()
FlushToDisk ==
    /\ Main("flush")
    /\ saving > NSlots
    /\ Spill(states \o staging)
    /\ staging' = <<>>
    /\ pc' = "flushed"
    /\ UNCHANGED <<dir, entries, up, wpc, slot, states, ret, want, saving>>

Lose ==
    /\ slot' = [i \in Slots |-> Empty]
    /\ states' = <<>> /\ staging' = <<>>
    /\ pc' = "down" /\ ret' = 1 /\ want' = <<>> /\ saving' = 1

\* The process ends, or the contexts are freed until the server wakes up; load_model()
\* then starts with a new cache.
Leave ==
    /\ Main("flushed")
    /\ Lose
    /\ up' = up \ {Self}
    /\ entries' = [entries EXCEPT ![Self] = <<>>]
    /\ UNCHANGED <<dir, todo, wpc>>

\* load_model()
Start ==
    /\ Open(Self)
    /\ pc' = "serving"
    /\ UNCHANGED <<todo, wpc, slot, states, staging, ret, want, saving>>

CrashSelf == Crash(Self) /\ Lose

-----------------------------------------------------------------------------
(* The servers that share the directory *)

Neighbour(s) ==
    /\ \/ Open(s) /\ UNCHANGED <<todo, wpc>>
       \/ Crash(s)
       \/ Write(s)
       \/ /\ s \in up /\ ~Writing(s)
          /\ \E p \in Spilled :
               todo' = [todo EXCEPT ![s] = <<[id |-> NoFile, prompt |-> p]>>]
          /\ UNCHANGED <<dir, entries, up, wpc>>
       \/ /\ s \in up /\ ~Writing(s)
          /\ \E e \in {entries[s][i] : i \in DOMAIN entries[s]} :
               e.match /\ (ReadGone(s, e) \/ ReadBad(s, e))
          /\ UNCHANGED <<up, todo, wpc>>
    /\ UNCHANGED cvars

Next ==
    \/ \E i \in Slots : ClearSlot(i) \/ \E p \in Prompts : SelectSlot(i, p) \/ Continue(i, p)
    \/ IdleSlot \/ BusySlot
    \/ LoadNothing \/ LoadRam \/ LoadRamFails \/ LoadRamHalf \/ LoadDisk \/ LoadDiskFails
    \/ Flush \/ FlushSlot \/ FlushToDisk \/ Leave \/ Start \/ CrashSelf
    \/ Write(Self) /\ UNCHANGED cvars
    \/ \E s \in Servers \ {Self} : Neighbour(s)

CSpec == CInit /\ [][Next]_vars

-----------------------------------------------------------------------------
(* Properties *)

FileRecords  == [id : FileIds, tmp : BOOLEAN, key : {Key[s] : s \in Servers} \cup {OtherKey},
                 prompt : Prompts, state : {"good", "cut", "flipped"}]
EntryRecords == [id : FileIds, prompt : Prompts, match : BOOLEAN]
ItemRecords  == [id : FileIds \cup {NoFile}, prompt : Prompts]
StateRecords == [prompt : Prompts, main : BOOLEAN]

\* Types, and the server's main thread is in a cache operation only while it runs.
PromptTypeOK ==
    /\ dir \in Seq(FileRecords)
    /\ entries \in [Servers -> Seq(EntryRecords)]
    /\ up \subseteq Servers
    /\ todo \in [Servers -> Seq(ItemRecords)]
    /\ wpc \in [Servers -> {"begin", "room", "written", "renamed"}]
    /\ slot \in [Slots -> [prompt : Prompts \cup {<<>>}, wrong : BOOLEAN]]
    /\ states \in Seq(StateRecords)
    /\ staging \in Seq(StateRecords) /\ Len(staging) <= 1
    /\ pc \in {"down", "serving", "load", "idle", "flush", "flushed"}
    /\ ret \in Slots /\ want \in Prompts \cup {<<>>} /\ saving \in 1..(NSlots + 1)
    /\ (pc = "down") = (Self \notin up)

\* "make room first, so the directory never exceeds the limit": it does not with one
\* server; each further server may add the one prompt it was writing meanwhile. And
\* alloc() makes room before it adds a state: the RAM tier is never over its limit.
WithinLimits ==
    /\ Limit # 0 => DirSize <= Limit + (Cardinality(Servers) - 1) * MaxSize
    /\ Sum(states) <= RamLimit

\* The name of a file that is not a ".tmp" file stands for what was written: an entry of
\* an index that matches is of a file of that configuration with those tokens.
IndexIsTrue ==
    \A s \in Servers : \A i \in DOMAIN entries[s], j \in DOMAIN dir :
        LET e == entries[s][i]
            f == dir[j]
        IN  e.id = f.id => Bin(f) /\ e.prompt = f.prompt /\ (e.match <=> f.key = Key[s])

\* What a slot holds was never restored from a damaged file or from another model's.
NothingWrongRestored == \A i \in Slots : ~slot[i].wrong

\* A request spills what it staged: a state leaves the staging area only into the
\* writes of the disk tier, when the process ends, or when flush stages another.
StagedIsSpilled ==
    [][\A e \in {staging[i] : i \in DOMAIN staging} :
         \/ pc \in {"flush", "flushed"} \/ pc' = "down"
         \/ \E i \in DOMAIN todo'[Self] : todo'[Self][i].prompt = e.prompt]_staging

\* Step of server s that evicts: the directory would not fit its limit otherwise.
Evicts(s) ==
    \/ s \in up /\ wpc[s] = "begin" /\ wpc'[s] = "room" /\ DirSize + Size[Item(s).prompt] > Limit
    \/ s \notin up /\ DirSize > Limit

\* "so a restart never loses both": a prompt that can be restored from disk stays so,
\* through writes, failed writes, crashes and restarts of any server, until the
\* directory is full.  What a write supersedes goes after the new file is there.
LostOnlyForRoom ==
    [][\A k \in {Key[s] : s \in Servers}, p \in Prompts :
         Covered(dir, k, p) => Covered(dir', k, p) \/ (Limit # 0 /\ \E s \in Servers : Evicts(s))]_dir
=============================================================================
