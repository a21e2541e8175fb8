------------------------------ MODULE DiskStore ------------------------------
(***************************************************************************)
(* The disk tier with its files (src/serve/disk.rs): one directory per     *)
(* entry with the cache files, written first, and meta.json, written last; *)
(* an index in memory, rebuilt from the meta files when the tier is        *)
(* opened.  The engine thread runs the operations file by file, the        *)
(* write-ahead thread writes the files of one entry beside it, the         *)
(* recorder's thread applies the stored maximum age, and the process may   *)
(* die between any two file operations.  Files outlive the process (the    *)
(* page cache does).  DiskTier has the same operations as a whole; here a  *)
(* commit is checked against it.                                           *)
(***************************************************************************)
EXTENDS Naturals, FiniteSets, FiniteSetsExt

CONSTANTS
    Lineages,      \* what an entry holds: the caches of some lineage
    Size,          \* its bytes, per lineage
    Budgets,       \* the budgets the tier may be opened with at first
    Reopenings,    \* and by a later process
    DurableMax,    \* DURABLE_MAX_ENTRIES
    FlagAge,       \* the maximum age on the command line; 0: forever
    StoredAge,     \* the one in the recorder's database
    MayFail,       \* whether a write may fail
    CrashMayHappen,
    SettleBound,   \* SETTLE_BOUND
    MaxStores,     \* bound: entries written
    MaxTime,       \* bound: seconds that pass
    TickLength,    \* and how many at a time
    None,
    Missing, Half  \* a file that is not there, or half written; else what it holds

ASSUME DiskStoreAssumption ==
    /\ Size \in [Lineages -> Nat \ {0}] /\ Budgets \cup Reopenings \subseteq Nat
    /\ {FlagAge, StoredAge, SettleBound, MaxStores, MaxTime} \subseteq Nat /\ {DurableMax, TickLength} \subseteq Nat \ {0}
    /\ {MayFail, CrashMayHappen} \subseteq BOOLEAN

VARIABLES
    dirs,     \* per entry number: its files
    index,    \* the entries the store knows
    next_id,
    budget,
    jobs,     \* the entries being written: by the engine, and ahead by the thread
    pc,       \* where the engine is in an operation of the store
    subject,       \* what it is in the middle of: an operation, a writer, an entry, or None
    fresh,    \* the entry it is committing, or None
    doomed,   \* the directory it is deleting, or None
    max_age,  \* the runtime settings' handle
    age,      \* what the expiry pass read of it
    settled,  \* the stored settings were read (runtime.rs: settle)
    now,
    created,  \* when the process and its gate were
    before,   \* history: the index the commit started from
    known,    \* history: what was indexed and not deleted, across crashes
    unsaved,  \* history: the entries whose last use could not be written down
    excused   \* history: those a crash found so, half rewritten or half deleted

files    == <<dirs, index, next_id, budget, jobs>>
gateVars == <<max_age, settled, created>>
history  == <<before, known, unsaved, excused>>
diskVars     == <<files, pc, subject, fresh, doomed, age, gateVars, now, history>>

Numbers == 1 .. MaxStores
Writers == {"engine", "ahead"}

(* An entry that is being written. *)
JobType == [id : Numbers, what : Lineages, durable : BOOLEAN,
            file : {"prefix", "ckpt", "written", "failed"}]
EntryType == [id : Numbers, what : Lineages, bytes : Nat, used : Nat, durable : BOOLEAN]

(* None is none of what stands in its place; a file that is not whole is   *)
(* told from every whole one.                                              *)
ASSUME NothingAssumption ==
    /\ None \notin Numbers \cup JobType \cup EntryType
    /\ Missing # Half /\ {Missing, Half} \cap (Lineages \cup (Lineages \X Nat \X BOOLEAN)) = {}

NoFiles == [prefix |-> Missing, ckpt |-> Missing, meta |-> Missing]

(* meta.json describes the entry; the cache files hold the lineage's caches. *)
Meta(e) == <<e.what, e.used, e.durable>>

(* The operations as a whole, as the session store sees them. *)
Tier == INSTANCE DiskTier WITH DiskBudget <- budget, MaxAge <- age

LeastUsed(among) == {e \in among : \A f \in among : e.used =< f.used}

(* remove_dir_all of a directory starts, and runs to its end before the    *)
(* engine does anything else.                                              *)
Delete(id) == doomed' = id
Going      == doomed # None

(* The engine's thread is at `place`. *)
EngineAt(place) == pc = place /\ ~Going

(* An entry leaves the index and its directory goes. *)
Drop(e) ==
    /\ index' = index \ {e} /\ Delete(e.id)
    /\ known' = {k \in known : k.id # e.id} /\ unsaved' = unsaved \ {e.id}
    /\ UNCHANGED <<dirs, next_id, budget, jobs, fresh, age, gateVars, now, before, excused>>

(* Only the place changes. *)
Goto(place, what) ==
    /\ pc' = place /\ subject' = what
    /\ UNCHANGED <<files, fresh, doomed, age, gateVars, now, history>>
-----------------------------------------------------------------------------
DeleteFile ==
    /\ Going
    /\ \E f \in DOMAIN NoFiles :
         /\ dirs[doomed][f] # Missing
         /\ dirs' = [dirs EXCEPT ![doomed][f] = Missing]
    /\ UNCHANGED <<index, next_id, budget, jobs, pc, subject, fresh, doomed, age, gateVars, now, history>>

Deleted ==
    /\ Going /\ dirs[doomed] = NoFiles
    /\ doomed' = None
    /\ UNCHANGED <<files, pc, subject, fresh, age, gateVars, now, history>>

(* expire, before a store and a lookup and at the open: the maximum age is *)
(* read first, ...                                                         *)
ReadAge ==
    /\ age' = max_age /\ pc' = "gate"
    /\ UNCHANGED <<files, fresh, doomed, gateVars, now, history>>

Begin(op) ==
    /\ EngineAt("idle") /\ subject' = op /\ ReadAge
    /\ op = "lookup" \/ next_id \in Numbers
    /\ op = "ahead" => jobs["ahead"] = None

gate_late    == now >= created + SettleBound
is_open == settled \/ gate_late

(* The pass is over: the operation goes on. *)
PassOver ==
    /\ pc' = subject /\ subject' = None /\ age' = 0
    /\ UNCHANGED <<files, fresh, doomed, gateVars, now, history>>

(* Mutant: the gate is not there. *)
GateAlwaysOpen == EngineAt("gate") /\ Goto("expire", subject)

(* ... the gate is asked next, ... *)
Gate ==
    /\ EngineAt("gate")
    /\ IF age = 0 \/ ~is_open THEN PassOver ELSE Goto("expire", subject)

(* ... and what is stale goes. *)
stale == index \ Tier!expire(index, now)

Expire ==
    /\ EngineAt("expire")
    /\ \/ \E e \in stale : Drop(e) /\ UNCHANGED <<pc, subject>>
       \/ stale = {} /\ PassOver
-----------------------------------------------------------------------------
(* Writing an entry. *)

(* reserve: the directory is picked; the files follow. *)
reserve(w, what, durable) ==
    /\ jobs' = [jobs EXCEPT ![w] = [id |-> next_id, what |-> what, durable |-> durable,
                                    file |-> "prefix"]]
    /\ next_id' = next_id + 1 /\ subject' = None
    /\ UNCHANGED <<dirs, index, budget, fresh, doomed, age, gateVars, now, history>>

Store(what, durable) == EngineAt("store") /\ reserve("engine", what, durable) /\ pc' = "write"
StoreAhead(what)     == EngineAt("ahead") /\ reserve("ahead", what, FALSE) /\ pc' = "idle"

(* write_files: each file is created, then filled; a failure ends it. *)
WriteFile(w) ==
    /\ jobs[w] # None /\ jobs[w].file \in {"prefix", "ckpt"} /\ (w = "engine" => ~Going)
    /\ LET j == jobs[w]
           f == j.file
       IN  \/ /\ dirs[j.id][f] # Half
              /\ dirs' = [dirs EXCEPT ![j.id][f] = Half] /\ jobs' = jobs
           \/ /\ dirs[j.id][f] = Half
              /\ dirs' = [dirs EXCEPT ![j.id][f] = j.what]
              /\ jobs' = [jobs EXCEPT ![w].file = IF f = "prefix" THEN "ckpt" ELSE "written"]
           \/ /\ MayFail /\ dirs' = dirs
              /\ jobs' = [jobs EXCEPT ![w].file = "failed"]
    /\ UNCHANGED <<index, next_id, budget, pc, subject, fresh, doomed, age, gateVars, now, history>>

(* abandon: the files of a job that failed, was cancelled or is refused. *)
Abandon(w) ==
    /\ Delete(jobs[w].id)
    /\ jobs' = [jobs EXCEPT ![w] = None]
    /\ fresh' = None /\ before' = {} /\ pc' = "idle" /\ subject' = None
    /\ UNCHANGED <<dirs, index, next_id, budget, age, gateVars, now, known, unsaved, excused>>

WriteFailed == EngineAt("write") /\ jobs["engine"].file = "failed" /\ Abandon("engine")

(* A write ahead that failed, or is cancelled (the thread is joined first). *)
CancelAhead == EngineAt("idle") /\ jobs["ahead"] # None /\ Abandon("ahead")

(* commit: too large an entry is refused, else room is made for it. *)
CommitStore(w) ==
    /\ EngineAt(IF w = "engine" THEN "write" ELSE "idle")
    /\ jobs[w] # None /\ jobs[w].file = "written"
    /\ IF Size[jobs[w].what] > budget THEN Abandon(w)
       ELSE /\ pc' = "room" /\ subject' = w /\ before' = index
            /\ fresh' = [id |-> jobs[w].id, what |-> jobs[w].what, bytes |-> Size[jobs[w].what],
                         used |-> now, durable |-> jobs[w].durable]
            /\ UNCHANGED <<files, doomed, age, gateVars, now, known, unsaved, excused>>

OverBudget(extra) == index # {} /\ Tier!disk_used_bytes(index) + extra > budget

(* Mutant: the newest entry makes room. *)
NewestMakesRoom ==
    /\ EngineAt("room") /\ OverBudget(fresh.bytes)
    /\ \E e \in index : (\A f \in index : f.used =< e.used) /\ Drop(e)
    /\ UNCHANGED <<pc, subject>>

MakeRoom ==
    /\ EngineAt("room") /\ OverBudget(fresh.bytes)
    /\ \E e \in LeastUsed(index) : Drop(e)
    /\ UNCHANGED <<pc, subject>>

(* The volume is short of space, or the meta file cannot be written. *)
Refuse == MayFail /\ (EngineAt("room") \/ EngineAt("meta")) /\ ~OverBudget(fresh.bytes) /\ Abandon(subject)

(* meta.json is written last, ... *)
CreateMeta ==
    /\ EngineAt("room") /\ ~OverBudget(fresh.bytes)
    /\ dirs' = [dirs EXCEPT ![fresh.id].meta = Half] /\ pc' = "meta"
    /\ fresh' = [fresh EXCEPT !.used = now]
    /\ UNCHANGED <<index, next_id, budget, jobs, subject, doomed, age, gateVars, now, history>>

(* ... and the entry is indexed. *)
PushEntry ==
    /\ EngineAt("meta")
    /\ dirs' = [dirs EXCEPT ![fresh.id].meta = Meta(fresh)]
    /\ index' = index \cup {fresh} /\ known' = known \cup {fresh}
    /\ jobs' = [jobs EXCEPT ![subject] = None]
    /\ pc' = (IF fresh.durable THEN "cap" ELSE "fit") /\ subject' = None
    /\ UNCHANGED <<next_id, budget, fresh, doomed, age, gateVars, now, before, unsaved, excused>>

Durable == {e \in index : e.durable}

(* trim_durable, after a durable entry. *)
TrimDurable ==
    /\ EngineAt("cap") /\ Cardinality(Durable) > DurableMax
    /\ \E e \in LeastUsed(Durable) : Drop(e)
    /\ UNCHANGED <<pc, subject>>

Committed == EngineAt("cap") /\ Cardinality(Durable) =< DurableMax /\ Goto("fit", None)

(* trim(0): at the end of a commit and of the open. *)
Fit ==
    /\ EngineAt("fit")
    /\ \/ OverBudget(0) /\ (\E e \in LeastUsed(index) : Drop(e)) /\ UNCHANGED <<pc, subject>>
       \/ /\ ~OverBudget(0)
          /\ pc' = "idle" /\ fresh' = None /\ before' = {}
          /\ UNCHANGED <<files, subject, doomed, age, gateVars, now, known, unsaved, excused>>
-----------------------------------------------------------------------------
(* Using an entry: a lookup, or an eviction between requests. *)

Using == EngineAt("lookup") \/ EngineAt("idle")

(* A live-end hit consumes its entry, a request makes a copy stale. *)
RemoveEntry == Using /\ (\E e \in index : Drop(e)) /\ pc' = "idle" /\ subject' = None

(* Mutant: the use is noted in memory only. *)
TouchInMemory ==
    /\ Using
    /\ \E e \in index :
         /\ index' = (index \ {e}) \cup {[e EXCEPT !.used = now]}
         /\ known' = (known \ {e}) \cup {[e EXCEPT !.used = now]}
    /\ pc' = "idle" /\ subject' = None
    /\ UNCHANGED <<dirs, next_id, budget, jobs, fresh, doomed, age, gateVars, now, before, unsaved, excused>>

(* touch: the entry and its meta file, rewritten in place: emptied and     *)
(* filled.  Either may fail, which is ignored: the entry stays, as it was  *)
(* used, and its file says an earlier use, or nothing that can be read.    *)
Touch ==
    /\ Using
    /\ \E e \in index :
         /\ index' = (index \ {e}) \cup {[e EXCEPT !.used = now]}
         /\ known' = (known \ {e}) \cup {[e EXCEPT !.used = now]}
         /\ \/ /\ dirs' = [dirs EXCEPT ![e.id].meta = Half]
               /\ pc' = "touch" /\ subject' = e.id /\ unsaved' = unsaved
            \/ /\ MayFail /\ dirs' = dirs
               /\ pc' = "idle" /\ subject' = None /\ unsaved' = unsaved \cup {e.id}
    /\ UNCHANGED <<next_id, budget, jobs, fresh, doomed, age, gateVars, now, before, excused>>

Touched ==
    /\ EngineAt("touch")
    /\ \/ /\ \E e \in index : e.id = subject /\ dirs' = [dirs EXCEPT ![subject].meta = Meta(e)]
          /\ unsaved' = unsaved \ {subject}
       \/ MayFail /\ dirs' = dirs /\ unsaved' = unsaved \cup {subject}
    /\ pc' = "idle" /\ subject' = None
    /\ UNCHANGED <<index, next_id, budget, jobs, fresh, doomed, age, gateVars, now, before, known, excused>>

(* The lookup finds nothing to use. *)
Missed == EngineAt("lookup") /\ Goto("idle", None)
-----------------------------------------------------------------------------
(* The process dies, and the tier is opened again. *)
Crash ==
    /\ CrashMayHappen /\ pc # "down"
    /\ index' = {} /\ jobs' = [w \in Writers |-> None]
    /\ pc' = "down" /\ subject' = None /\ fresh' = None /\ doomed' = None /\ before' = {}
    /\ max_age' = FlagAge /\ age' = 0 /\ settled' = FALSE
    /\ excused' = {doomed} \cup unsaved \cup (IF pc = "touch" THEN {subject} ELSE {})
    /\ unsaved' = {}
    /\ UNCHANGED <<dirs, next_id, budget, created, now, known>>

(* Mutant: the cache files are not looked for. *)
LoadsMeta(d) == d.meta \notin {Missing, Half}

(* load_meta: meta.json parses and every cache file it names exists. *)
Loads(d) == d.meta \notin {Missing, Half} /\ d.prefix # Missing /\ d.ckpt # Missing

Loaded == {i \in Numbers : Loads(dirs[i])}

Entry(i) == [id |-> i, what |-> dirs[i].meta[1], bytes |-> Size[dirs[i].meta[1]],
             used |-> dirs[i].meta[2], durable |-> dirs[i].meta[3]]

(* index: what loads is indexed, the rest is deleted; then expire, trim.   *)
Open ==
    /\ EngineAt("down")
    /\ index' = {Entry(i) : i \in Loaded} /\ known' = {Entry(i) : i \in Loaded}
    /\ next_id' = Max({0} \cup Loaded) + 1
    /\ budget' \in Reopenings
    /\ pc' = "sweep" /\ created' = now /\ excused' = {}
    /\ UNCHANGED <<dirs, jobs, subject, fresh, doomed, age, max_age, settled, now, before, unsaved>>

Unreadable == {i \in Numbers : dirs[i] # NoFiles /\ ~Tier!contains(index, i)}

Sweep ==
    /\ EngineAt("sweep")
    /\ \/ /\ \E i \in Unreadable : Delete(i)
          /\ UNCHANGED <<files, pc, subject, fresh, age, gateVars, now, history>>
       \/ Unreadable = {} /\ subject' = "fit" /\ ReadAge
-----------------------------------------------------------------------------
(* The recorder's thread applies the stored settings and then settles them. *)
ApplyStored ==
    /\ pc # "down" /\ ~settled /\ max_age # StoredAge
    /\ max_age' = StoredAge
    /\ UNCHANGED <<files, pc, subject, fresh, doomed, age, settled, created, now, history>>

Settle ==
    /\ pc # "down" /\ ~settled /\ max_age = StoredAge
    /\ settled' = TRUE
    /\ UNCHANGED <<files, pc, subject, fresh, doomed, age, max_age, created, now, history>>

Tick ==
    /\ now < MaxTime /\ now' = now + TickLength
    /\ UNCHANGED <<files, pc, subject, fresh, doomed, age, gateVars, history>>

DiskInit ==
    /\ dirs = [i \in Numbers |-> NoFiles] /\ index = {} /\ next_id = 1 /\ budget \in Budgets
    /\ jobs = [w \in Writers |-> None]
    /\ pc = "idle" /\ subject = None /\ fresh = None /\ doomed = None
    /\ max_age = FlagAge /\ age = 0 /\ settled = FALSE /\ now = 0 /\ created = 0
    /\ before = {} /\ known = {} /\ unsaved = {} /\ excused = {}

DiskNext ==
    \/ DeleteFile \/ Deleted
    \/ \E op \in {"store", "ahead", "lookup"} : Begin(op)
    \/ Gate \/ Expire
    \/ \E what \in Lineages : StoreAhead(what) \/ \E durable \in BOOLEAN : Store(what, durable)
    \/ \E w \in Writers : WriteFile(w) \/ CommitStore(w)
    \/ WriteFailed \/ CancelAhead
    \/ MakeRoom \/ Refuse \/ CreateMeta \/ PushEntry \/ TrimDurable \/ Committed \/ Fit
    \/ RemoveEntry \/ Touch \/ Touched \/ Missed
    \/ Crash \/ Open \/ Sweep \/ ApplyStored \/ Settle \/ Tick

DiskSpec == DiskInit /\ [][DiskNext]_diskVars
-----------------------------------------------------------------------------
(* A meta file that describes the entry as of this use or an earlier one. *)
EarlierUse(meta, e) == meta[1] = e.what /\ meta[2] =< e.used /\ meta[3] = e.durable

(* Every indexed entry can be read: its cache files are whole and its own. *)
(* Its meta file says what the index does, unless it is being rewritten or *)
(* the last rewrite failed: then it is half a file or says an earlier use. *)
IndexReadable ==
    \A e \in index :
        /\ dirs[e.id].prefix = e.what /\ dirs[e.id].ckpt = e.what
        /\ \/ dirs[e.id].meta = Meta(e)
           \/ /\ e.id \in unsaved \/ (pc = "touch" /\ subject = e.id)
              /\ dirs[e.id].meta = Half
                 \/ (dirs[e.id].meta # Missing /\ EarlierUse(dirs[e.id].meta, e))

(* Between operations nothing is on the volume but the indexed entries and *)
(* what is being written ahead: no refused, cancelled or expired entry     *)
(* keeps its bytes, nor what an earlier process left half written.         *)
NoStrayFiles ==
    pc = "idle" /\ ~Going =>
        \A i \in Unreadable : jobs["ahead"] # None /\ jobs["ahead"].id = i

(* Between operations the tier is within the budget it was opened with,    *)
(* which an earlier process may have had more of.  (The cap of durable     *)
(* entries is only restored by the next durable store: a crash between the *)
(* meta file and the deletion leaves one too many.)                        *)
WithinBudget == pc = "idle" => Tier!disk_used_bytes(index) =< budget

(* What an index, the volume behind it and the budget owe each other (the  *)
(* docs of DiskStore::open and of the budget).                             *)
VolumeInOrder == IndexReadable /\ NoStrayFiles /\ WithinBudget

(* A process that dies at any point costs the tier no entry but the one    *)
(* whose meta file it was rewriting or whose directory it was deleting,    *)
(* and those whose last use could not be written down; it brings back none *)
(* it deleted before, none as something else and none as used later.       *)
SurvivesCrash ==
    [][pc = "down" /\ pc' = "sweep" =>
          /\ \A k \in known : k \in index' \/ k.id \in excused
          /\ \A e \in index' : e \in known \/ e.id \in excused
          /\ \A e \in index', k \in known : e.id = k.id => EarlierUse(Meta(e), k)]_diskVars

(* The file by file commit leaves what the commit of DiskTier does, which  *)
(* is the one the session store is modelled with.                          *)
CommitAsTier ==
    [][fresh # None /\ pc' = "idle" =>
          index' \in Tier!commit(before, fresh, pc = "fit")]_diskVars

(* Before the settings are settled or the deadline passed, nothing         *)
(* expires, at the open or later (ExpiryGate).                             *)
NothingExpiresEarly ==
    [][~settled /\ ~gate_late /\ pc = "expire" => index' = index]_diskVars

(* The flag's TTL never deletes what the stored one keeps, unless the      *)
(* settings were not read by the deadline (the doc of ExpiryGate).         *)
StoredAgeKeeps ==
    [][pc = "expire" /\ ~gate_late =>
          \A e \in index \ index' : StoredAge # 0 /\ now - e.used > StoredAge]_diskVars
=============================================================================
