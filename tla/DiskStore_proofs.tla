-------------------------- MODULE DiskStore_proofs --------------------------
(***************************************************************************)
(* The disk tier's files (DiskStore): the volume is in order between       *)
(* operations (VolumeInOrder), a crash costs no entry but the one it found *)
(* half rewritten or half deleted and those whose last use could not be    *)
(* written down (SurvivesCrash), a commit file by file is the whole commit *)
(* of DiskTier (CommitAsTier), and nothing expires before the gate is open *)
(* (NothingExpiresEarly); whatever the lineages, their sizes, the budgets  *)
(* and the ages, with crashes and with writes that fail, a commit's and a  *)
(* touch's.                                                                *)
(*                                                                         *)
(* None of it is inductive.  DiskInv adds where the engine is (InPlace),   *)
(* what every directory holds and to whom it belongs (FilesInOrder), that  *)
(* no use is noted from a time to come (Dated), when the budget is kept    *)
(* (Fits) and how far a commit has come (CommitSoFar).                     *)
(***************************************************************************)
EXTENDS DiskStore, FiniteSums
-----------------------------------------------------------------------------
Places == {"idle", "gate", "expire", "store", "ahead", "lookup", "write", "room", "meta",
           "cap", "fit", "touch", "down", "sweep"}

DirType == [prefix : {Missing, Half} \cup Lineages, ckpt : {Missing, Half} \cup Lineages,
            meta : {Missing, Half} \cup (Lineages \X Nat \X BOOLEAN)]

DiskTypes ==
    /\ dirs \in [Numbers -> DirType]
    /\ index \subseteq EntryType /\ IsFiniteSet(index)
    /\ next_id \in 1 .. MaxStores + 1 /\ budget \in Nat
    /\ jobs \in [Writers -> JobType \cup {None}]
    /\ pc \in Places
    /\ fresh \in EntryType \cup {None} /\ doomed \in Numbers \cup {None}
    /\ max_age \in Nat /\ age \in Nat /\ settled \in BOOLEAN /\ now \in Nat /\ created \in Nat
    /\ before \subseteq EntryType /\ known \subseteq EntryType

(* At `place`, or in the expiry pass on the way there. *)
Towards(place) == pc = place \/ (pc \in {"gate", "expire"} /\ subject = place)

Committing == pc \in {"room", "meta"}

InPlace ==
    /\ pc \in {"gate", "expire"} => subject \in {"store", "ahead", "lookup", "fit"}
    /\ Towards("store") \/ Towards("ahead") => next_id \in Numbers
    /\ Towards("ahead") => jobs["ahead"] = None
    /\ pc = "write" => jobs["engine"] # None
    /\ jobs["engine"] # None => pc = "write" \/ (Committing /\ subject = "engine")
    /\ fresh # None => pc \in {"room", "meta", "cap", "fit"} /\ fresh.bytes =< budget
    /\ pc \in {"room", "meta", "cap"} => fresh # None
    /\ Committing =>
         /\ subject \in Writers /\ jobs[subject] # None /\ jobs[subject].file = "written"
         /\ fresh.id = jobs[subject].id /\ fresh.what = jobs[subject].what
         /\ fresh.bytes = Size[fresh.what]
    /\ pc = "expire" => is_open
    /\ pc = "touch" => \E e \in index : e.id = subject
    /\ pc \in {"down", "sweep"} => \A w \in Writers : jobs[w] = None
    /\ pc = "down" => index = {} /\ doomed = None

Indexed(i) == \E e \in index : e.id = i
InJob(i)   == \E w \in Writers : jobs[w] # None /\ jobs[w].id = i

NumbersApart ==
    /\ \A e, f \in index : e.id = f.id => e = f
    /\ \A e \in index : e.id < next_id /\ e.id # doomed /\ e.bytes = Size[e.what]
    /\ \A w \in Writers : jobs[w] # None =>
         jobs[w].id < next_id /\ jobs[w].id # doomed /\ ~Indexed(jobs[w].id)
    /\ jobs["engine"] # None /\ jobs["ahead"] # None => jobs["engine"].id # jobs["ahead"].id

JobFiles ==
    \A w \in Writers : jobs[w] # None =>
        LET j == jobs[w]
            d == dirs[j.id]
        IN  /\ d.meta = Missing \/ (d.meta = Half /\ pc = "meta" /\ subject = w)
            /\ j.file = "prefix" => d.prefix \in {Missing, Half}
            /\ j.file = "ckpt" => d.prefix = j.what
            /\ j.file = "written" => d.prefix = j.what /\ d.ckpt = j.what

Accounted ==
    pc \notin {"down", "sweep"} =>
        \A i \in Numbers : dirs[i] # NoFiles => Indexed(i) \/ i = doomed \/ InJob(i)

Honest ==
    \A i \in Numbers : dirs[i].meta \notin {Missing, Half} =>
        dirs[i].prefix \in {Missing, dirs[i].meta[1]} /\ dirs[i].ckpt \in {Missing, dirs[i].meta[1]}

LoadsWhatIsKnown ==
    IF pc = "down"
    THEN /\ \A k \in known : k.id \in excused \/ (Loads(dirs[k.id]) /\ Entry(k.id) = k)
         /\ \A i \in Numbers : Loads(dirs[i]) => i \in excused \/ Entry(i) \in known
         /\ \A k \in known : Loads(dirs[k.id]) => EarlierUse(dirs[k.id].meta, k)
    ELSE /\ known = index
         /\ \A i \in Numbers : Loads(dirs[i]) => Indexed(i) \/ i = doomed

FilesInOrder ==
    NumbersApart /\ JobFiles /\ Accounted /\ Honest /\ IndexReadable /\ LoadsWhatIsKnown

(* Nothing was used at a time to come. *)
Dated ==
    /\ \A i \in Numbers : dirs[i].meta \notin {Missing, Half} => dirs[i].meta[2] =< now
    /\ \A e \in index : e.used =< now
    /\ fresh # None => fresh.used =< now

Used(d) == SumOfBytes(d)

Fits ==
    /\ pc \notin {"down", "sweep"} /\ ~Towards("fit") => Used(index) =< budget
    /\ pc = "fit" /\ fresh # None => Used(index) =< budget
    /\ pc = "meta" => Used(index) + fresh.bytes =< budget

(* `left` is what is left of `all` once some of its oldest have gone. *)
OldestGone(all, left) == left \subseteq all /\ \A v \in all \ left, k \in left : v.used =< k.used

RoomSoFar(all, left, extra) ==
    /\ OldestGone(all, left)
    /\ all # left => \E v \in all \ left :
         (\A w \in all \ left : w.used =< v.used) /\ Used(left \cup {v}) + extra > budget

DurableOf(d) == {e \in d : e.durable}

CapSoFar(all, left) ==
    /\ left \subseteq all /\ all \ left \subseteq DurableOf(all)
    /\ OldestGone(DurableOf(all), DurableOf(left))
    /\ all # left => \E v \in all \ left :
         (\A w \in all \ left : w.used =< v.used)
         /\ Cardinality(DurableOf(left \cup {v})) > DurableMax

RoomMade(all, left, extra) ==
    RoomSoFar(all, left, extra) /\ (Used(left) + extra > budget => left = {})

CapKept(all, left) ==
    CapSoFar(all, left) /\ (Cardinality(DurableOf(left)) > DurableMax => DurableOf(left) = {})

CommitSoFar ==
    /\ pc = "room" => RoomSoFar(before, index, fresh.bytes)
    /\ pc = "meta" => RoomMade(before, index, fresh.bytes)
    /\ pc = "cap" => fresh.durable /\
         \E room \in SUBSET before :
             RoomMade(before, room, fresh.bytes) /\ CapSoFar(room \cup {fresh}, index)
    /\ pc = "fit" /\ fresh # None =>
         \E room \in SUBSET before :
             /\ RoomMade(before, room, fresh.bytes)
             /\ IF fresh.durable THEN CapKept(room \cup {fresh}, index)
                                 ELSE index = room \cup {fresh}

DiskInv == DiskTypes /\ InPlace /\ FilesInOrder /\ Dated /\ Fits /\ CommitSoFar
-----------------------------------------------------------------------------
(* Numbers, budgets and what is what. *)

LEMMA NumbersFinite == IsFiniteSet(Numbers) /\ Numbers \subseteq Nat /\ MaxStores \in Nat
<1>1. MaxStores \in Nat
  BY DiskStoreAssumption
<1> QED BY <1>1, FS_Interval DEF Numbers

LEMMA Apart ==
    /\ Missing # Half /\ Missing \notin Lineages /\ Half \notin Lineages
    /\ \A m \in Lineages \X Nat \X BOOLEAN : m \notin {Missing, Half}
    /\ None \notin Numbers /\ None \notin JobType /\ None \notin EntryType
BY NothingAssumption

LEMMA Sizes == \A what \in Lineages : Size[what] \in Nat
BY DiskStoreAssumption

LEMMA MetaIs ==
    \A e \in EntryType :
        /\ Meta(e) \in Lineages \X Nat \X BOOLEAN /\ Meta(e) \notin {Missing, Half}
        /\ Meta(e)[1] = e.what /\ Meta(e)[2] = e.used /\ Meta(e)[3] = e.durable
<1> TAKE e \in EntryType
<1>1. Meta(e) \in Lineages \X Nat \X BOOLEAN
  BY DEF Meta, EntryType
<1> QED BY <1>1, Apart DEF Meta

LEMMA UsedFacts ==
    ASSUME NEW d \in SUBSET EntryType, IsFiniteSet(d)
    PROVE  /\ Used(d) \in Nat /\ Used({}) = 0
           /\ \A x \in d : Used(d) = x.bytes + Used(d \ {x})
           /\ \A t \in SUBSET d : Used(t) =< Used(d) /\ Used(t) \in Nat /\ IsFiniteSet(t)
<1>1. \A s : Used(s) = SumOfBytes(s)
  BY DEF Used
<1>2. \A x \in d : x.bytes \in Nat
  BY DEF EntryType
<1>3. /\ SumOfBytes(d) \in Nat /\ SumOfBytes({}) = 0
      /\ \A x \in d : SumOfBytes(d) = x.bytes + SumOfBytes(d \ {x})
      /\ \A t \in SUBSET d : SumOfBytes(t) =< SumOfBytes(d)
  BY <1>2, SumOfBytesFacts
<1>4. ASSUME NEW t \in SUBSET d PROVE SumOfBytes(t) \in Nat /\ IsFiniteSet(t)
  <2>1. IsFiniteSet(t)
    BY FS_Subset
  <2>2. \A x \in t : x.bytes \in Nat
    BY <1>2
  <2> QED BY <2>1, <2>2, SumOfBytesFacts
<1> QED BY <1>1, <1>3, <1>4

(* One more entry, or another of the same size in its place. *)
LEMMA UsedMore ==
    ASSUME NEW d \in SUBSET EntryType, IsFiniteSet(d), NEW e \in EntryType, e \notin d
    PROVE  IsFiniteSet(d \cup {e}) /\ Used(d \cup {e}) = e.bytes + Used(d)
<1>1. IsFiniteSet(d \cup {e}) /\ d \cup {e} \in SUBSET EntryType
  BY FS_AddElement
<1>2. (d \cup {e}) \ {e} = d
  OBVIOUS
<1> QED BY <1>1, <1>2, UsedFacts

LEMMA UsedReplaced ==
    ASSUME NEW d \in SUBSET EntryType, IsFiniteSet(d), NEW e \in d, NEW f \in EntryType,
           f \notin d \ {e}, f.bytes = e.bytes
    PROVE  IsFiniteSet((d \ {e}) \cup {f}) /\ Used((d \ {e}) \cup {f}) = Used(d)
<1>1. IsFiniteSet(d \ {e}) /\ d \ {e} \in SUBSET EntryType
  BY FS_Subset
<1>2. Used(d) = e.bytes + Used(d \ {e})
  BY UsedFacts
<1> QED BY <1>1, <1>2, UsedMore

LEMMA TierUsed == \A d : Tier!disk_used_bytes(d) = Used(d)
BY DEF Used, Tier!disk_used_bytes, SumOfBytes, Tier!MapThenSumSet, Tier!MapThenFoldSet,
       MapThenSumSet, MapThenFoldSet

LEMMA OverBudgetIs == \A x : OverBudget(x) <=> index # {} /\ Used(index) + x > budget
BY TierUsed DEF OverBudget
-----------------------------------------------------------------------------
(* The types. *)

LEMMA TypesInit == DiskInit => DiskTypes
<1> SUFFICES ASSUME DiskInit PROVE DiskTypes
  OBVIOUS
<1>1. NoFiles \in DirType
  BY DEF NoFiles, DirType
<1>2. budget \in Nat /\ FlagAge \in Nat /\ MaxStores \in Nat
  BY DiskStoreAssumption DEF DiskInit
<1>3. IsFiniteSet({})
  BY FS_EmptySet
<1>4. dirs \in [Numbers -> DirType] /\ jobs \in [Writers -> JobType \cup {None}]
  BY <1>1 DEF DiskInit
<1>5. next_id \in 1 .. MaxStores + 1
  BY <1>2 DEF DiskInit
<1> QED BY <1>2, <1>3, <1>4, <1>5 DEF DiskInit, DiskTypes, Places

(* An action that leaves the entries and the directories where they are. *)
LEMMA TypesKept ==
    ASSUME DiskTypes, InPlace, NumbersApart, DiskNext
    PROVE  DiskTypes'
<1> USE DEF DiskTypes
<1>1. CASE DeleteFile \/ Deleted
  <2>1. ASSUME NEW f \in DOMAIN NoFiles, Going,
               dirs' = [dirs EXCEPT ![doomed][f] = Missing]
        PROVE  dirs' \in [Numbers -> DirType]
    <3>1. dirs[doomed] \in DirType /\ f \in {"prefix", "ckpt", "meta"} /\ doomed \in Numbers
      BY <2>1 DEF Going, NoFiles
    <3>2. [dirs[doomed] EXCEPT ![f] = Missing] \in DirType
      BY <3>1 DEF DirType
    <3> QED BY <2>1, <3>1, <3>2
  <2>2. dirs' \in [Numbers -> DirType]
    BY <1>1, <2>1 DEF DeleteFile, Deleted, files
  <2> QED BY <1>1, <2>2 DEF DeleteFile, Deleted, files, gateVars, history
<1>2. CASE (\E op \in {"store", "ahead", "lookup"} : Begin(op)) \/ Gate
  BY <1>2 DEF Begin, Gate, ReadAge, PassOver, Goto, EngineAt, files, gateVars, history, InPlace,
              Places
<1>3. ASSUME NEW e \in index, Drop(e), pc' \in Places PROVE DiskTypes'
  <2>1. IsFiniteSet(index \ {e}) /\ known' \subseteq EntryType
    BY <1>3, FS_Subset DEF Drop
  <2>2. e.id \in Numbers
    BY DEF EntryType
  <2> QED BY <1>3, <2>1, <2>2 DEF Drop, Delete, gateVars
<1>4. CASE Expire
  <2>1. ASSUME NEW e \in stale, Drop(e), UNCHANGED <<pc, subject>> PROVE DiskTypes'
    BY <1>3, <2>1 DEF stale
  <2>2. CASE PassOver
    BY <1>4, <2>2 DEF Expire, EngineAt, PassOver, files, gateVars, history, InPlace, Places
  <2> QED BY <1>4, <2>1, <2>2 DEF Expire
<1>5. ASSUME NEW w \in Writers, NEW what \in Lineages, NEW durable \in BOOLEAN,
             reserve(w, what, durable), next_id \in Numbers, pc' \in Places
      PROVE  DiskTypes'
  <2>1. [id |-> next_id, what |-> what, durable |-> durable, file |-> "prefix"] \in JobType
    BY <1>5 DEF JobType
  <2>2. next_id + 1 \in 1 .. MaxStores + 1
    BY <1>5, NumbersFinite DEF Numbers
  <2> QED BY <1>5, <2>1, <2>2 DEF reserve, gateVars, history
<1>6. CASE \E what \in Lineages : StoreAhead(what) \/ \E durable \in BOOLEAN : Store(what, durable)
  <2>1. "write" \in Places /\ "idle" \in Places /\ Writers = {"engine", "ahead"}
    BY DEF Places, Writers
  <2> QED BY <1>5, <1>6, <2>1 DEF StoreAhead, Store, EngineAt, InPlace, Towards
<1>7. ASSUME NEW w \in Writers, WriteFile(w) PROVE DiskTypes'
  <2> DEFINE j == jobs[w]
             f == j.file
  <2>1. j \in JobType /\ j.id \in Numbers /\ j.what \in Lineages /\ f \in {"prefix", "ckpt"}
    BY <1>7, Apart DEF WriteFile, JobType
  <2>2. \A v \in {Half, j.what} : [dirs EXCEPT ![j.id][f] = v] \in [Numbers -> DirType]
    <3> TAKE v \in {Half, j.what}
    <3>1. [dirs[j.id] EXCEPT ![f] = v] \in DirType
      BY <2>1 DEF DirType
    <3> QED BY <2>1, <3>1
  <2>3. \A v \in {"ckpt", "written", "failed"} :
            [jobs EXCEPT ![w].file = v] \in [Writers -> JobType \cup {None}]
    <3> TAKE v \in {"ckpt", "written", "failed"}
    <3>1. [j EXCEPT !.file = v] \in JobType
      BY <2>1 DEF JobType
    <3> QED BY <3>1
  <2>4. dirs' \in [Numbers -> DirType] /\ jobs' \in [Writers -> JobType \cup {None}]
    BY <1>7, <2>2, <2>3 DEF WriteFile
  <2> QED BY <1>7, <2>4 DEF WriteFile, gateVars, history
<1>8. ASSUME NEW w \in Writers, jobs[w] # None, Abandon(w) PROVE DiskTypes'
  <2>1. jobs[w].id \in Numbers
    BY <1>8 DEF JobType
  <2> QED BY <1>8, <2>1 DEF Abandon, Delete, gateVars, Places
<1>9. ASSUME NEW w \in Writers, CommitStore(w) PROVE DiskTypes'
  <2>1. CASE Abandon(w)
    BY <1>8, <1>9, <2>1 DEF CommitStore
  <2>2. CASE ~(Size[jobs[w].what] > budget)
    <3>1. jobs[w] \in JobType /\ Size[jobs[w].what] \in Nat
      BY <1>9, Sizes DEF CommitStore, JobType
    <3>2. [id |-> jobs[w].id, what |-> jobs[w].what, bytes |-> Size[jobs[w].what],
           used |-> now, durable |-> jobs[w].durable] \in EntryType
      BY <3>1 DEF JobType, EntryType
    <3> QED BY <1>9, <2>2, <3>2 DEF CommitStore, files, gateVars, Places
  <2> QED BY <1>9, <2>1, <2>2 DEF CommitStore
<1>10. CASE WriteFailed \/ CancelAhead \/ Refuse
  <2>1. CASE WriteFailed
    <3>1. jobs["engine"] # None
      BY <2>1 DEF WriteFailed, EngineAt, InPlace
    <3> QED BY <1>8, <2>1, <3>1 DEF WriteFailed, Writers
  <2>2. CASE CancelAhead
    BY <1>8, <2>2 DEF CancelAhead, Writers
  <2>3. CASE Refuse
    BY <1>8, <2>3 DEF Refuse, EngineAt, InPlace, Committing
  <2> QED BY <1>10, <2>1, <2>2, <2>3
<1>11. CASE MakeRoom \/ TrimDurable \/ Fit
  <2>1. \A e : e \in LeastUsed(index) \/ e \in LeastUsed(Durable) => e \in index
    BY DEF LeastUsed, Durable
  <2>2. CASE \E e \in index : Drop(e) /\ UNCHANGED <<pc, subject>>
    BY <1>3, <2>2
  <2>3. CASE Fit /\ ~OverBudget(0)
    BY <2>3 DEF Fit, files, gateVars, Places
  <2> QED BY <1>11, <2>1, <2>2, <2>3 DEF MakeRoom, TrimDurable, Fit
<1>12. CASE CreateMeta
  <2>1. fresh \in EntryType /\ fresh.id \in Numbers
    BY <1>12, Apart DEF CreateMeta, EngineAt, InPlace, EntryType
  <2>2. [dirs[fresh.id] EXCEPT !.meta = Half] \in DirType
    BY <2>1 DEF DirType
  <2>3. [fresh EXCEPT !.used = now] \in EntryType
    BY <2>1 DEF EntryType
  <2>4. dirs' \in [Numbers -> DirType]
    BY <1>12, <2>1, <2>2 DEF CreateMeta
  <2> QED BY <1>12, <2>3, <2>4 DEF CreateMeta, gateVars, history, Places
<1>13. CASE PushEntry
  <2>1. fresh \in EntryType /\ fresh.id \in Numbers
    BY <1>13, Apart DEF PushEntry, EngineAt, InPlace, EntryType
  <2>2. [dirs[fresh.id] EXCEPT !.meta = Meta(fresh)] \in DirType
    BY <2>1, MetaIs DEF DirType
  <2>3. IsFiniteSet(index \cup {fresh})
    BY FS_AddElement
  <2>4. dirs' \in [Numbers -> DirType]
    BY <1>13, <2>1, <2>2 DEF PushEntry
  <2>5. jobs' \in [Writers -> JobType \cup {None}]
    BY <1>13 DEF PushEntry
  <2> QED BY <1>13, <2>1, <2>3, <2>4, <2>5 DEF PushEntry, gateVars, Places
<1>14. CASE Committed \/ Missed
  BY <1>14 DEF Committed, Missed, Goto, files, gateVars, history, Places
<1>15. CASE RemoveEntry
  <2>1. PICK e \in index : Drop(e)
    BY <1>15 DEF RemoveEntry
  <2> QED BY <1>3, <1>15, <2>1 DEF RemoveEntry, Places
<1>16. CASE Touch
  <2>1. PICK e \in index :
          /\ index' = (index \ {e}) \cup {[e EXCEPT !.used = now]}
          /\ known' = (known \ {e}) \cup {[e EXCEPT !.used = now]}
          /\ dirs' = dirs \/ dirs' = [dirs EXCEPT ![e.id].meta = Half]
    BY <1>16 DEF Touch
  <2>2. [e EXCEPT !.used = now] \in EntryType /\ e.id \in Numbers
    BY DEF EntryType
  <2>3. IsFiniteSet(index')
    BY <2>1, FS_Subset, FS_AddElement
  <2>4. [dirs[e.id] EXCEPT !.meta = Half] \in DirType
    BY <2>2 DEF DirType
  <2>5. dirs' \in [Numbers -> DirType]
    BY <2>1, <2>2, <2>4
  <2> QED BY <1>16, <2>1, <2>2, <2>3, <2>5 DEF Touch, gateVars, Places
<1>17. CASE Touched
  <2>1. ASSUME NEW e \in index, e.id = subject, dirs' = [dirs EXCEPT ![subject].meta = Meta(e)]
        PROVE  dirs' \in [Numbers -> DirType]
    <3>1. e.id \in Numbers /\ [dirs[e.id] EXCEPT !.meta = Meta(e)] \in DirType
      BY MetaIs DEF DirType, EntryType
    <3> QED BY <2>1, <3>1
  <2>3. dirs' \in [Numbers -> DirType]
    BY <1>17, <2>1 DEF Touched
  <2> QED BY <1>17, <2>3 DEF Touched, gateVars, history, Places
<1>18. CASE Crash
  <2>1. IsFiniteSet({}) /\ FlagAge \in Nat
    BY FS_EmptySet, DiskStoreAssumption
  <2> QED BY <1>18, <2>1 DEF Crash, Places
<1>19. CASE Open
  <2>1. \A i \in Loaded : i \in Numbers /\ Entry(i) \in EntryType
    <3> TAKE i \in Loaded
    <3>1. i \in Numbers /\ dirs[i].meta \in Lineages \X Nat \X BOOLEAN
      BY DEF Loaded, Loads, DirType
    <3> QED BY <3>1, Sizes DEF Entry, EntryType
  <2>2. IsFiniteSet(Loaded) /\ Loaded \in SUBSET Numbers
    BY NumbersFinite, FS_Subset DEF Loaded
  <2>3. IsFiniteSet({Entry(i) : i \in Loaded})
    <3> DEFINE h == [i \in Loaded |-> Entry(i)]
           T == {Entry(i) : i \in Loaded}
    <3>1. h \in Surjection(Loaded, T)
      BY DEF Surjection
    <3> HIDE DEF h, T
    <3>2. IsFiniteSet(T)
      BY <2>2, <3>1, FS_Surjection DEF ExistsSurjection
    <3> QED BY <3>2 DEF T
  <2>4. Max({0} \cup Loaded) + 1 \in 1 .. MaxStores + 1
    <3>1. {0} \cup Loaded \subseteq Nat /\ \A x \in {0} \cup Loaded : x =< MaxStores
      BY <2>2, NumbersFinite DEF Numbers
    <3>2. Max({0} \cup Loaded) \in {0} \cup Loaded
      BY <3>1, NumbersFinite, Greatest
    <3> QED BY <3>1, <3>2, NumbersFinite
  <2>5. budget' \in Nat
    BY <1>19, DiskStoreAssumption DEF Open
  <2> HIDE DEF Loaded
  <2> QED BY <1>19, <2>1, <2>3, <2>4, <2>5 DEF Open, Places
<1>20. CASE Sweep
  <2>1. CASE \E i \in Unreadable : Delete(i)
    BY <1>20, <2>1 DEF Sweep, Delete, Unreadable, files, gateVars, history, ReadAge, Places
  <2>2. CASE ReadAge
    BY <1>20, <2>2 DEF Sweep, ReadAge, files, gateVars, history, Places
  <2> QED BY <1>20, <2>1, <2>2 DEF Sweep
<1>21. CASE ApplyStored \/ Settle \/ Tick
  <2>1. StoredAge \in Nat /\ now + TickLength \in Nat
    BY DiskStoreAssumption
  <2> QED BY <1>21, <2>1 DEF ApplyStored, Settle, Tick, files, gateVars, history
<1> QED BY <1>1, <1>2, <1>4, <1>6, <1>7, <1>9, <1>10, <1>11, <1>12, <1>13, <1>14, <1>15, <1>16,
           <1>17, <1>18, <1>19, <1>20, <1>21 DEF DiskNext
-----------------------------------------------------------------------------
(* Where the engine is. *)

LEMMA PlacesInit == DiskInit => InPlace
BY DEF DiskInit, InPlace, Towards, Committing, Writers

(* Nothing but the engine's own steps moves it; the gate stays open. *)
LEMMA StillInPlace ==
    ASSUME DiskTypes, DiskTypes', InPlace, UNCHANGED <<pc, subject, fresh, budget, created>>,
           next_id' = next_id, now' >= now, settled => settled', jobs' = jobs,
           doomed' = doomed \/ pc # "down",
           pc # "expire" => index' = index, pc \in {"touch", "down"} => index' = index
    PROVE  InPlace'
<1>1. pc = "expire" => is_open'
  <2>1. now \in Nat /\ now' \in Nat /\ created \in Nat /\ SettleBound \in Nat
    BY DiskStoreAssumption DEF DiskTypes
  <2> QED BY <2>1 DEF InPlace, is_open, gate_late
<1> QED BY <1>1 DEF InPlace, Towards, Committing

LEMMA PlacesKept ==
    ASSUME DiskTypes, DiskTypes', InPlace, NumbersApart, DiskNext
    PROVE  InPlace'
<1> USE DEF Towards, Committing, EngineAt, Going
<1>0. now >= now
  BY DEF DiskTypes
<1>1. CASE DeleteFile \/ Deleted \/ ApplyStored \/ Settle
  <2>1. CASE DeleteFile
    BY <1>0, <2>1, StillInPlace DEF DeleteFile, gateVars, history
  <2>2. CASE Deleted
    BY <1>0, <2>2, StillInPlace DEF Deleted, InPlace, files, gateVars, history
  <2>3. CASE ApplyStored
    BY <1>0, <2>3, StillInPlace DEF ApplyStored, files, history
  <2>4. CASE Settle
    BY <1>0, <2>4, StillInPlace DEF Settle, files, history
  <2> QED BY <1>1, <2>1, <2>2, <2>3, <2>4
<1>2. CASE Tick
  <2>1. now' >= now
    BY <1>2, DiskStoreAssumption DEF Tick, DiskTypes
  <2> QED BY <1>2, <2>1, StillInPlace DEF Tick, files, gateVars, history
<1>3. CASE \E op \in {"store", "ahead", "lookup"} : Begin(op)
  BY <1>3 DEF Begin, ReadAge, InPlace, files, gateVars, history
<1>4. ASSUME pc = "gate" \/ pc = "expire", PassOver PROVE InPlace'
  BY <1>4 DEF PassOver, InPlace, files, gateVars, history
<1>5. CASE Gate
  <2>1. CASE Goto("expire", subject) /\ is_open
    <3>1. is_open'
      BY <2>1 DEF Goto, is_open, gate_late, gateVars
    <3> QED BY <1>5, <2>1, <3>1 DEF Gate, Goto, InPlace, files, history
  <2> QED BY <1>4, <1>5, <2>1 DEF Gate
<1>6. ASSUME NEW e \in index, Drop(e), UNCHANGED <<pc, subject>>, pc \notin {"touch", "down"},
             pc = "expire" => is_open'
      PROVE  InPlace'
  BY <1>6 DEF Drop, Delete, InPlace
<1>7. CASE Expire
  <2>1. ASSUME NEW e \in stale, Drop(e), UNCHANGED <<pc, subject>> PROVE InPlace'
    <3>1. is_open' /\ e \in index
      BY <1>7, <2>1 DEF Expire, Drop, InPlace, is_open, gate_late, gateVars, stale
    <3> QED BY <1>6, <1>7, <2>1, <3>1 DEF Expire
  <2> QED BY <1>4, <1>7, <2>1 DEF Expire
<1>8. CASE \E what \in Lineages : StoreAhead(what) \/ \E durable \in BOOLEAN : Store(what, durable)
  <2>1. ASSUME NEW what \in Lineages, StoreAhead(what) PROVE InPlace'
    BY <2>1 DEF StoreAhead, reserve, InPlace, Writers, DiskTypes
  <2>2. ASSUME NEW what \in Lineages, NEW durable \in BOOLEAN, Store(what, durable) PROVE InPlace'
    <3>1. [id |-> next_id, what |-> what, durable |-> durable, file |-> "prefix"] \in JobType
      BY <2>2 DEF Store, InPlace, JobType
    <3>2. jobs'["engine"] # None
      BY <2>2, <3>1, Apart DEF Store, reserve, Writers, DiskTypes
    <3> QED BY <2>2, <3>2 DEF Store, reserve, InPlace
  <2> QED BY <1>8, <2>1, <2>2
<1>9. ASSUME NEW w \in Writers, WriteFile(w) PROVE InPlace'
  <2>1. \A x \in Writers : jobs[x] = None <=> jobs'[x] = None
    <3>1. jobs[w] \in JobType /\ jobs[w] # None
      BY <1>9 DEF WriteFile, DiskTypes
    <3>2. \A v \in {"ckpt", "written", "failed"} : [jobs[w] EXCEPT !.file = v] \in JobType
      BY <3>1 DEF JobType
    <3> QED BY <1>9, <3>1, <3>2, Apart DEF WriteFile, DiskTypes
  <2>2. \A x \in Writers : jobs[x].file = "written" => jobs'[x] = jobs[x]
    BY <1>9 DEF WriteFile, DiskTypes
  <2>3. pc = "expire" => is_open'
    BY <1>9 DEF WriteFile, InPlace, is_open, gate_late, gateVars
  <2> QED BY <1>9, <2>1, <2>2, <2>3 DEF WriteFile, InPlace, Writers
<1>10. ASSUME NEW w \in Writers, jobs[w] # None, Abandon(w),
              w = "ahead" => jobs["engine"] = None
       PROVE  InPlace'
  BY <1>10 DEF Abandon, InPlace, Writers, DiskTypes
<1>11. ASSUME NEW w \in Writers, CommitStore(w) PROVE InPlace'
  <2>1. w = "ahead" => jobs["engine"] = None
    BY <1>11 DEF CommitStore, InPlace
  <2>2. CASE Abandon(w)
    BY <1>10, <1>11, <2>1, <2>2 DEF CommitStore
  <2>3. CASE ~(Size[jobs[w].what] > budget)
    <3>0. jobs[w] \in JobType /\ Size[jobs[w].what] \in Nat /\ now \in Nat /\ budget \in Nat
      BY <1>11, Sizes DEF CommitStore, DiskTypes, JobType
    <3>3. fresh' \in EntryType
      BY <1>11, <2>3, <3>0 DEF CommitStore, JobType, EntryType
    <3>1. jobs[w] \in JobType /\ Size[jobs[w].what] =< budget /\ fresh' # None
      BY <2>3, <3>0, <3>3, Apart
    <3> QED BY <1>11, <2>1, <2>3, <3>1 DEF CommitStore, InPlace, Writers, files
  <2> QED BY <1>11, <2>2, <2>3 DEF CommitStore
<1>12. CASE WriteFailed \/ CancelAhead
  BY <1>10, <1>12 DEF WriteFailed, CancelAhead, InPlace, Writers
<1>13. CASE Refuse
  BY <1>10, <1>13 DEF Refuse, InPlace, Writers
<1>14. CASE MakeRoom \/ TrimDurable
  <2>1. \A e : e \in LeastUsed(index) \/ e \in LeastUsed(Durable) => e \in index
    BY DEF LeastUsed, Durable
  <2> QED BY <1>6, <1>14, <2>1 DEF MakeRoom, TrimDurable
<1>15. CASE Fit
  <2>1. \A e : e \in LeastUsed(index) => e \in index
    BY DEF LeastUsed
  <2>2. CASE ~OverBudget(0)
    BY <1>15, <2>2 DEF Fit, InPlace, files
  <2> QED BY <1>6, <1>15, <2>1, <2>2 DEF Fit
<1>16. CASE CreateMeta
  <2>1. /\ fresh' # None /\ fresh'.bytes = fresh.bytes /\ fresh'.id = fresh.id
        /\ fresh'.what = fresh.what
    <3>1. fresh \in EntryType
      BY <1>16 DEF CreateMeta, InPlace, DiskTypes
    <3>2. [fresh EXCEPT !.used = now] \in EntryType
      BY <3>1 DEF DiskTypes, EntryType
    <3> QED BY <1>16, <3>1, <3>2, Apart DEF CreateMeta, EntryType
  <2> QED BY <1>16, <2>1 DEF CreateMeta, InPlace
<1>17. CASE PushEntry
  <2>1. jobs'["engine"] = None
    BY <1>17 DEF PushEntry, InPlace, DiskTypes, Writers
  <2> QED BY <1>17, <2>1 DEF PushEntry, InPlace
<1>18. CASE Committed \/ Missed
  BY <1>18 DEF Committed, Missed, Goto, InPlace, files
<1>19. CASE RemoveEntry
  BY <1>19 DEF RemoveEntry, Using, Drop, InPlace
<1>20. CASE Touch
  <2>1. pc' = "touch" => \E e \in index' : e.id = subject'
    <3>1. PICK e \in index : /\ index' = (index \ {e}) \cup {[e EXCEPT !.used = now]}
                             /\ pc' = "touch" => subject' = e.id
      BY <1>20 DEF Touch
    <3>2. [e EXCEPT !.used = now].id = e.id
      BY DEF DiskTypes, EntryType
    <3> QED BY <3>1, <3>2
  <2> QED BY <1>20, <2>1 DEF Touch, Using, InPlace
<1>21. CASE Touched
  BY <1>21 DEF Touched, InPlace
<1>22. CASE Crash
  BY <1>22 DEF Crash, InPlace, Writers
<1>23. CASE Open
  BY <1>23 DEF Open, InPlace
<1>24. CASE Sweep
  <2>1. CASE \E i \in Unreadable : Delete(i)
    BY <1>24, <2>1 DEF Sweep, InPlace, files, ReadAge
  <2>2. CASE subject' = "fit" /\ ReadAge
    BY <1>24, <2>2 DEF Sweep, InPlace, files, ReadAge, gateVars
  <2> QED BY <1>24, <2>1, <2>2 DEF Sweep
<1> QED BY <1>1, <1>2, <1>3, <1>5, <1>7, <1>8, <1>9, <1>11, <1>12, <1>13, <1>14, <1>15, <1>16,
           <1>17, <1>18, <1>19, <1>20, <1>21, <1>22, <1>23, <1>24 DEF DiskNext
-----------------------------------------------------------------------------
(* What the directories hold. *)

LEMMA FilesInit == DiskInit => FilesInOrder
<1> SUFFICES ASSUME DiskInit PROVE FilesInOrder
  OBVIOUS
<1>1. \A i \in Numbers : ~Loads(dirs[i]) /\ dirs[i] = NoFiles /\ dirs[i].meta = Missing
  BY DEF DiskInit, NoFiles, Loads
<1>2. \A w \in Writers : jobs[w] = None
  BY DEF DiskInit
<1>3. Accounted /\ Honest /\ LoadsWhatIsKnown
  BY <1>1 DEF DiskInit, Accounted, Honest, LoadsWhatIsKnown
<1>4. NumbersApart /\ JobFiles /\ IndexReadable
  BY <1>2 DEF DiskInit, NumbersApart, JobFiles, IndexReadable, Writers
<1> QED BY <1>3, <1>4 DEF FilesInOrder

(* The engine goes on, or time does. *)
LEMMA FilesStand ==
    ASSUME FilesInOrder, UNCHANGED <<dirs, index, jobs, next_id, doomed, known, unsaved, excused>>,
           pc = "down" <=> pc' = "down", pc \in {"meta", "touch"} => UNCHANGED <<pc, subject>>,
           pc = "sweep" /\ pc' # "sweep" => Unreadable = {}
    PROVE  FilesInOrder'
<1>1. NumbersApart'
  BY DEF FilesInOrder, NumbersApart, Indexed
<1>2. JobFiles'
  BY DEF FilesInOrder, JobFiles
<1>3. Accounted'
  <2> SUFFICES ASSUME pc' \notin {"down", "sweep"}, NEW i \in Numbers, dirs[i] # NoFiles
               PROVE  Indexed(i) \/ i = doomed \/ InJob(i)
    BY DEF Accounted, Indexed, InJob
  <2>1. CASE pc = "sweep"
    BY <2>1 DEF Unreadable, Tier!contains, Indexed
  <2>2. CASE pc # "sweep"
    BY <2>2 DEF FilesInOrder, Accounted
  <2> QED BY <2>1, <2>2
<1>4. Honest'
  BY DEF FilesInOrder, Honest
<1>5. IndexReadable'
  BY DEF FilesInOrder, IndexReadable
<1>6. LoadsWhatIsKnown'
  BY DEF FilesInOrder, LoadsWhatIsKnown, Indexed, Loads, Entry
<1> QED BY <1>1, <1>2, <1>3, <1>4, <1>5, <1>6 DEF FilesInOrder

(* An entry is dropped: its directory is next to go. *)
LEMMA DropInOrder ==
    ASSUME DiskTypes, FilesInOrder, NEW e \in index, Drop(e), doomed = None,
           pc \notin {"down", "sweep", "meta", "touch"}, pc' \notin {"down", "sweep"}
    PROVE  FilesInOrder'
<1>0. /\ index' = index \ {e} /\ doomed' = e.id /\ dirs' = dirs /\ jobs' = jobs
      /\ next_id' = next_id /\ known' = {k \in known : k.id # e.id} /\ unsaved' = unsaved \ {e.id}
  BY DEF Drop, Delete
<1>1. NumbersApart'
  BY <1>0 DEF FilesInOrder, NumbersApart, Indexed
<1>2. JobFiles'
  BY <1>0 DEF FilesInOrder, JobFiles
<1>3. Accounted'
  <2> SUFFICES ASSUME NEW i \in Numbers, dirs[i] # NoFiles
               PROVE  Indexed(i)' \/ i = doomed' \/ InJob(i)'
    BY <1>0 DEF Accounted
  <2>1. Indexed(i) \/ InJob(i)
    BY Apart DEF FilesInOrder, Accounted
  <2>2. Indexed(i) => Indexed(i)' \/ i = doomed'
    BY <1>0 DEF Indexed
  <2>3. InJob(i) => InJob(i)'
    BY <1>0 DEF InJob
  <2> QED BY <2>1, <2>2, <2>3
<1>4. Honest'
  BY <1>0 DEF FilesInOrder, Honest
<1>5. IndexReadable'
  <2>1. \A f \in index' : f \in index /\ f.id # e.id
    BY <1>0 DEF FilesInOrder, NumbersApart
  <2> QED BY <1>0, <2>1 DEF FilesInOrder, IndexReadable
<1>6. LoadsWhatIsKnown'
  <2>1. known' = index'
    BY <1>0 DEF FilesInOrder, LoadsWhatIsKnown, NumbersApart
  <2>2. \A i \in Numbers : Loads(dirs[i]) => Indexed(i)' \/ i = doomed'
    BY <1>0, Apart DEF FilesInOrder, LoadsWhatIsKnown, Indexed
  <2> QED BY <1>0, <2>1, <2>2 DEF LoadsWhatIsKnown, Loads
<1> QED BY <1>1, <1>2, <1>3, <1>4, <1>5, <1>6 DEF FilesInOrder

(* A job is given up, and its directory is next to go. *)
LEMMA AbandonInOrder ==
    ASSUME DiskTypes, FilesInOrder, NEW w \in Writers, jobs[w] # None, Abandon(w), doomed = None,
           pc \notin {"down", "sweep", "touch"}, pc = "meta" => subject = w
    PROVE  FilesInOrder'
<1>0. /\ index' = index /\ doomed' = jobs[w].id /\ dirs' = dirs /\ pc' = "idle"
      /\ next_id' = next_id /\ known' = known /\ unsaved' = unsaved
      /\ jobs'[w] = None /\ \A x \in Writers \ {w} : jobs'[x] = jobs[x]
  BY DEF Abandon, Delete, DiskTypes
<1>1. NumbersApart'
  <2>1. \A x \in Writers \ {w} : jobs[x] # None => jobs[x].id # jobs[w].id
    BY DEF FilesInOrder, NumbersApart, Writers
  <2>2. \A x \in Writers : jobs'[x] # None =>
          jobs'[x].id < next_id' /\ jobs'[x].id # doomed' /\ ~Indexed(jobs'[x].id)
    BY <1>0, <2>1 DEF FilesInOrder, NumbersApart
  <2>3. \A f \in index : f.id # jobs[w].id
    BY DEF FilesInOrder, NumbersApart, Indexed
  <2>4. jobs'["engine"] = None \/ jobs'["ahead"] = None
    BY <1>0 DEF Writers
  <2> QED BY <1>0, <2>2, <2>3, <2>4 DEF FilesInOrder, NumbersApart, Indexed
<1>2. JobFiles'
  BY <1>0 DEF FilesInOrder, JobFiles
<1>3. Accounted'
  <2> SUFFICES ASSUME NEW i \in Numbers, dirs[i] # NoFiles
               PROVE  Indexed(i)' \/ i = doomed' \/ InJob(i)'
    BY <1>0 DEF Accounted
  <2>1. Indexed(i) \/ InJob(i)
    BY Apart DEF FilesInOrder, Accounted
  <2>2. Indexed(i) => Indexed(i)'
    BY <1>0 DEF Indexed
  <2>3. InJob(i) => InJob(i)' \/ i = doomed'
    BY <1>0 DEF InJob
  <2> QED BY <2>1, <2>2, <2>3
<1>4. Honest'
  BY <1>0 DEF FilesInOrder, Honest
<1>5. IndexReadable'
  BY <1>0 DEF FilesInOrder, IndexReadable
<1>6. LoadsWhatIsKnown'
  BY <1>0, Apart DEF FilesInOrder, LoadsWhatIsKnown, Loads, Indexed
<1> QED BY <1>1, <1>2, <1>3, <1>4, <1>5, <1>6 DEF FilesInOrder

(* A directory goes, file by file. *)
LEMMA DeleteInOrder ==
    ASSUME DiskTypes, InPlace, FilesInOrder, DeleteFile \/ Deleted
    PROVE  FilesInOrder'
<1>0. /\ index' = index /\ jobs' = jobs /\ next_id' = next_id /\ known' = known
      /\ UNCHANGED <<pc, subject, unsaved>> /\ doomed \in Numbers /\ pc # "down"
  BY DEF DeleteFile, Deleted, Going, DiskTypes, InPlace, files, history
<1>1. CASE DeleteFile
  <2>0. PICK f \in {"prefix", "ckpt", "meta"} : dirs' = [dirs EXCEPT ![doomed][f] = Missing]
    BY <1>1 DEF DeleteFile, NoFiles
  <2>1. doomed' = doomed /\ \A i \in Numbers \ {doomed} : dirs'[i] = dirs[i]
    BY <1>1, <2>0 DEF DeleteFile, DiskTypes
  <2>2. /\ dirs'[doomed].meta \in {Missing, dirs[doomed].meta}
        /\ dirs'[doomed].prefix \in {Missing, dirs[doomed].prefix}
        /\ dirs'[doomed].ckpt \in {Missing, dirs[doomed].ckpt}
    <3>1. dirs'[doomed] = [dirs[doomed] EXCEPT ![f] = Missing] /\ dirs[doomed] \in DirType
      BY <1>0, <2>0 DEF DiskTypes
    <3> QED BY <3>1 DEF DirType
  <2>3. NumbersApart'
    BY <1>0, <2>1 DEF FilesInOrder, NumbersApart, Indexed
  <2>4. JobFiles'
    <3>1. \A w \in Writers : jobs[w] # None => jobs[w].id \in Numbers \ {doomed}
      BY DEF FilesInOrder, NumbersApart, DiskTypes, JobType
    <3> QED BY <1>0, <2>1, <3>1 DEF FilesInOrder, JobFiles
  <2>5. Accounted'
    BY <1>0, <2>1 DEF FilesInOrder, Accounted, Indexed, InJob
  <2>6. Honest'
    BY <2>1, <2>2 DEF FilesInOrder, Honest
  <2>7. IndexReadable'
    <3>1. \A e \in index : e.id \in Numbers \ {doomed}
      BY DEF FilesInOrder, NumbersApart, DiskTypes, EntryType
    <3> QED BY <1>0, <2>1, <3>1 DEF FilesInOrder, IndexReadable
  <2>8. LoadsWhatIsKnown'
    BY <1>0, <2>1 DEF FilesInOrder, LoadsWhatIsKnown, Loads, Indexed
  <2> QED BY <2>3, <2>4, <2>5, <2>6, <2>7, <2>8 DEF FilesInOrder
<1>2. CASE Deleted
  <2>0. doomed' = None /\ dirs' = dirs /\ dirs[doomed] = NoFiles
    BY <1>2 DEF Deleted, files
  <2>1. NumbersApart'
    <3>1. \A e \in index : e.id # None
      BY Apart DEF DiskTypes, EntryType
    <3>2. \A w \in Writers : jobs[w] # None => jobs[w].id # None
      BY Apart DEF DiskTypes, JobType
    <3> QED BY <1>0, <2>0, <3>1, <3>2 DEF FilesInOrder, NumbersApart, Indexed
  <2>2. JobFiles' /\ Honest' /\ IndexReadable'
    BY <1>0, <2>0 DEF FilesInOrder, JobFiles, Honest, IndexReadable
  <2>3. Accounted'
    BY <1>0, <2>0 DEF FilesInOrder, Accounted, Indexed, InJob
  <2>4. LoadsWhatIsKnown'
    <3>1. ~Loads(dirs[doomed])
      BY <2>0 DEF Loads, NoFiles
    <3> QED BY <1>0, <2>0, <3>1 DEF FilesInOrder, LoadsWhatIsKnown, Loads, Indexed
  <2> QED BY <2>1, <2>2, <2>3, <2>4 DEF FilesInOrder
<1> QED BY <1>1, <1>2

(* A job begins in the directory of the next number, which is empty. *)
LEMMA ReserveInOrder ==
    ASSUME DiskTypes, DiskTypes', FilesInOrder, NEW w \in Writers, jobs[w] = None,
           NEW what \in Lineages, NEW durable \in BOOLEAN, reserve(w, what, durable),
           next_id \in Numbers, doomed = None, pc \in {"store", "ahead"}, pc' \in {"write", "idle"}
    PROVE  FilesInOrder'
<1> DEFINE j == [id |-> next_id, what |-> what, durable |-> durable, file |-> "prefix"]
<1>0. /\ index' = index /\ doomed' = None /\ dirs' = dirs /\ known' = known /\ unsaved' = unsaved
      /\ next_id' = next_id + 1 /\ next_id \in Nat
      /\ jobs'[w] = j /\ \A x \in Writers \ {w} : jobs'[x] = jobs[x]
  <2>1. next_id \in Nat
    BY NumbersFinite
  <2>2. /\ index' = index /\ doomed' = None /\ dirs' = dirs /\ known' = known /\ next_id' = next_id + 1
        /\ unsaved' = unsaved
    BY DEF reserve, history
  <2>3. jobs'[w] = j /\ \A x \in Writers \ {w} : jobs'[x] = jobs[x]
    BY DEF reserve, DiskTypes
  <2> QED BY <2>1, <2>2, <2>3
<1>1. \A e \in index : e.id \in Nat /\ e.id < next_id
  BY NumbersFinite DEF FilesInOrder, NumbersApart, DiskTypes, EntryType
<1>2. \A x \in Writers \ {w} : jobs[x] # None => jobs[x].id \in Nat /\ jobs[x].id < next_id
  BY NumbersFinite DEF FilesInOrder, NumbersApart, DiskTypes, JobType
<1>3. ~Indexed(next_id) /\ ~InJob(next_id)
  <2>1. ~Indexed(next_id)
    BY <1>0, <1>1 DEF Indexed
  <2>2. ~InJob(next_id)
    BY <1>0, <1>2 DEF InJob
  <2> QED BY <2>1, <2>2
<1>4. dirs[next_id] = NoFiles
  BY <1>3, Apart DEF FilesInOrder, Accounted
<1>5. NumbersApart'
  <2>1. \A x \in Writers : jobs'[x] # None =>
          jobs'[x].id < next_id' /\ jobs'[x].id # doomed' /\ ~Indexed(jobs'[x].id)
    <3>1. ASSUME NEW x \in Writers \ {w}, jobs'[x] # None
          PROVE  jobs'[x].id < next_id' /\ jobs'[x].id # doomed' /\ ~Indexed(jobs'[x].id)
      BY <1>0, <1>2, <3>1 DEF FilesInOrder, NumbersApart
    <3>2. jobs'[w].id < next_id' /\ jobs'[w].id # doomed' /\ ~Indexed(jobs'[w].id)
      BY <1>0, <1>3, Apart
    <3> QED BY <3>1, <3>2
  <2>2. \A e \in index : e.id < next_id'
    BY <1>0, <1>1
  <2>3. \A x \in Writers \ {w} : jobs'[x] # None => jobs'[x].id # jobs'[w].id
    BY <1>0, <1>2
  <2>4. jobs'["engine"] # None /\ jobs'["ahead"] # None => jobs'["engine"].id # jobs'["ahead"].id
    BY <2>3 DEF Writers
  <2> HIDE DEF j
  <2> QED BY <1>0, <2>1, <2>2, <2>4 DEF FilesInOrder, NumbersApart, Indexed
<1>6. JobFiles'
  <2>1. /\ dirs[next_id].meta = Missing /\ dirs[next_id].prefix = Missing
        /\ j.file = "prefix" /\ j.id = next_id
    BY <1>4 DEF NoFiles
  <2> HIDE DEF j
  <2> QED BY <1>0, <2>1 DEF FilesInOrder, JobFiles
<1>7. Accounted'
  <2> SUFFICES ASSUME NEW i \in Numbers, dirs[i] # NoFiles
               PROVE  Indexed(i)' \/ InJob(i)'
    BY <1>0 DEF Accounted
  <2>1. Indexed(i) \/ InJob(i)
    BY Apart DEF FilesInOrder, Accounted
  <2>2. InJob(i) => InJob(i)'
    BY <1>0 DEF InJob
  <2> QED BY <1>0, <2>1, <2>2 DEF Indexed
<1>8. Honest' /\ IndexReadable'
  BY <1>0 DEF FilesInOrder, Honest, IndexReadable
<1>9. LoadsWhatIsKnown'
  BY <1>0 DEF FilesInOrder, LoadsWhatIsKnown, Loads, Indexed
<1> QED BY <1>5, <1>6, <1>7, <1>8, <1>9 DEF FilesInOrder

(* A job's files are in a directory of its own. *)
LEMMA WriteInOrder ==
    ASSUME DiskTypes, DiskTypes', InPlace, FilesInOrder, NEW w \in Writers, WriteFile(w)
    PROVE  FilesInOrder'
<1> DEFINE j == jobs[w]
           f == j.file
<1>1. /\ j \in JobType /\ j # None /\ j.id \in Numbers /\ j.what \in Lineages
      /\ f \in {"prefix", "ckpt"}
  BY DEF WriteFile, DiskTypes, JobType
<1>2. /\ index' = index /\ doomed' = doomed /\ known' = known /\ next_id' = next_id
      /\ excused' = excused /\ UNCHANGED <<pc, subject, unsaved>>
      /\ \A i \in Numbers \ {j.id} : dirs'[i] = dirs[i]
      /\ \A x \in Writers \ {w} : jobs'[x] = jobs[x]
  BY DEF WriteFile, DiskTypes, history
<1>3. dirs[j.id] \in DirType /\ dirs[j.id].meta \in {Missing, Half}
  BY <1>1 DEF FilesInOrder, JobFiles, DiskTypes
<1>4. /\ jobs'[w] # None /\ jobs'[w].id = j.id /\ jobs'[w].what = j.what
      /\ dirs'[j.id].meta = dirs[j.id].meta
      /\ \/ dirs'[j.id] = dirs[j.id] /\ jobs'[w].file = "failed"
         \/ jobs'[w].file = f /\ dirs'[j.id] = [dirs[j.id] EXCEPT ![f] = Half]
         \/ /\ dirs'[j.id] = [dirs[j.id] EXCEPT ![f] = j.what]
            /\ jobs'[w].file = IF f = "prefix" THEN "ckpt" ELSE "written"
  <2>1. CASE dirs' = [dirs EXCEPT ![j.id][f] = Half] /\ jobs' = jobs
    BY <1>1, <1>3, <2>1 DEF DiskTypes, DirType
  <2>2. CASE /\ dirs' = [dirs EXCEPT ![j.id][f] = j.what]
             /\ jobs' = [jobs EXCEPT ![w].file = IF f = "prefix" THEN "ckpt" ELSE "written"]
    <3>1. jobs'[w] = [j EXCEPT !.file = IF f = "prefix" THEN "ckpt" ELSE "written"]
      BY <2>2 DEF DiskTypes
    <3>2. jobs'[w].id = j.id /\ jobs'[w].what = j.what /\ jobs'[w] \in JobType
          /\ jobs'[w].file = IF f = "prefix" THEN "ckpt" ELSE "written"
      BY <1>1, <3>1 DEF JobType
    <3>3. dirs'[j.id] = [dirs[j.id] EXCEPT ![f] = j.what]
      BY <1>1, <2>2 DEF DiskTypes
    <3>4. dirs'[j.id].meta = dirs[j.id].meta
      BY <1>1, <1>3, <3>3 DEF DirType
    <3> QED BY <3>2, <3>3, <3>4, Apart
  <2>3. CASE dirs' = dirs /\ jobs' = [jobs EXCEPT ![w].file = "failed"]
    <3>1. jobs'[w] = [j EXCEPT !.file = "failed"]
      BY <2>3 DEF DiskTypes
    <3>2. jobs'[w].id = j.id /\ jobs'[w].what = j.what /\ jobs'[w] \in JobType
          /\ jobs'[w].file = "failed"
      BY <1>1, <3>1 DEF JobType
    <3> QED BY <2>3, <3>2, Apart
  <2> QED BY <2>1, <2>2, <2>3 DEF WriteFile
<1>5. \A x \in Writers : (jobs'[x] = None <=> jobs[x] = None) /\ (jobs[x] # None => jobs'[x].id = jobs[x].id)
  BY <1>1, <1>2, <1>4
<1>6. \A e \in index : e.id \in Numbers \ {j.id}
  BY <1>1 DEF FilesInOrder, NumbersApart, Indexed, DiskTypes, EntryType
<1>7. \A x \in Writers \ {w} : jobs[x] # None => jobs[x].id \in Numbers \ {j.id}
  BY <1>1 DEF FilesInOrder, NumbersApart, Writers, DiskTypes, JobType
<1>8. pc \notin {"down", "sweep"}
  BY <1>1 DEF InPlace
<1>9. NumbersApart'
  <2>1. \A x \in Writers : jobs'[x] # None =>
          jobs'[x].id < next_id' /\ jobs'[x].id # doomed' /\ ~Indexed(jobs'[x].id)
    BY <1>2, <1>5 DEF FilesInOrder, NumbersApart
  <2>2. jobs'["engine"] # None /\ jobs'["ahead"] # None => jobs'["engine"].id # jobs'["ahead"].id
    BY <1>5 DEF FilesInOrder, NumbersApart, Writers
  <2> HIDE DEF j, f
  <2> QED BY <1>2, <2>1, <2>2 DEF FilesInOrder, NumbersApart, Indexed
<1>10. JobFiles'
  <2>1. ASSUME NEW x \in Writers \ {w}, jobs'[x] # None
        PROVE  /\ \/ dirs'[jobs'[x].id].meta = Missing
                  \/ dirs'[jobs'[x].id].meta = Half /\ pc' = "meta" /\ subject' = x
               /\ jobs'[x].file = "prefix" => dirs'[jobs'[x].id].prefix \in {Missing, Half}
               /\ jobs'[x].file = "ckpt" => dirs'[jobs'[x].id].prefix = jobs'[x].what
               /\ jobs'[x].file = "written" => /\ dirs'[jobs'[x].id].prefix = jobs'[x].what
                                               /\ dirs'[jobs'[x].id].ckpt = jobs'[x].what
    BY <1>2, <1>7, <2>1 DEF FilesInOrder, JobFiles
  <2>2. /\ f = "prefix" => dirs[j.id].prefix \in {Missing, Half}
        /\ f = "ckpt" => dirs[j.id].prefix = j.what
        /\ dirs[j.id].meta = Missing \/ (dirs[j.id].meta = Half /\ pc = "meta" /\ subject = w)
    BY <1>1 DEF FilesInOrder, JobFiles
  <2>3. /\ jobs'[w].file = "prefix" => dirs'[j.id].prefix \in {Missing, Half}
        /\ jobs'[w].file = "ckpt" => dirs'[j.id].prefix = j.what
        /\ jobs'[w].file = "written" => dirs'[j.id].prefix = j.what /\ dirs'[j.id].ckpt = j.what
    <3> DEFINE d == dirs[j.id]
               d2 == dirs'[j.id]
    <3>1. /\ d \in DirType /\ f \in {"prefix", "ckpt"}
          /\ f = "prefix" => d.prefix \in {Missing, Half}
          /\ f = "ckpt" => d.prefix = j.what
      BY <1>1, <1>3, <2>2
    <3>2. CASE d2 = d /\ jobs'[w].file = "failed"
      BY <3>2
    <3>3. CASE jobs'[w].file = f /\ d2 = [d EXCEPT ![f] = Half]
      BY <3>1, <3>3 DEF DirType
    <3>4. CASE d2 = [d EXCEPT ![f] = j.what] /\ jobs'[w].file = IF f = "prefix" THEN "ckpt" ELSE "written"
      BY <3>1, <3>4 DEF DirType
    <3> QED BY <1>4, <3>2, <3>3, <3>4
  <2> HIDE DEF j, f
  <2>4. \A x \in Writers : x = w \/ x \in Writers \ {w}
    OBVIOUS
  <2> QED BY <1>2, <1>4, <2>1, <2>2, <2>3, <2>4 DEF JobFiles
<1>11. Accounted'
  <2> SUFFICES ASSUME NEW i \in Numbers, dirs'[i] # NoFiles
               PROVE  Indexed(i)' \/ i = doomed' \/ InJob(i)'
    BY DEF Accounted
  <2>1. CASE i = j.id
    BY <1>4, <2>1 DEF InJob
  <2>2. CASE i # j.id
    <3>1. Indexed(i) \/ i = doomed \/ InJob(i)
      BY <1>2, <1>8, <2>2 DEF FilesInOrder, Accounted
    <3>2. InJob(i) => InJob(i)'
      BY <1>5 DEF InJob
    <3> QED BY <1>2, <3>1, <3>2 DEF Indexed
  <2> QED BY <2>1, <2>2
<1> HIDE DEF j, f
<1>12. Honest'
  BY <1>2, <1>3, <1>4 DEF FilesInOrder, Honest
<1>13. IndexReadable'
  BY <1>2, <1>6 DEF FilesInOrder, IndexReadable
<1>14. LoadsWhatIsKnown'
  BY <1>2, <1>3, <1>4, <1>8 DEF FilesInOrder, LoadsWhatIsKnown, Loads, Indexed
<1> QED BY <1>9, <1>10, <1>11, <1>12, <1>13, <1>14 DEF FilesInOrder

(* The meta file is written last. *)
LEMMA CreateInOrder ==
    ASSUME DiskTypes, InPlace, FilesInOrder, CreateMeta
    PROVE  FilesInOrder'
<1> DEFINE n == fresh.id
<1>0. /\ index' = index /\ doomed' = doomed /\ doomed = None /\ known' = known /\ jobs' = jobs
      /\ next_id' = next_id /\ pc = "room" /\ pc' = "meta" /\ subject' = subject /\ unsaved' = unsaved
      /\ dirs' = [dirs EXCEPT ![n].meta = Half]
  BY DEF CreateMeta, EngineAt, Going, history
<1>1. /\ subject \in Writers /\ jobs[subject] # None /\ jobs[subject].id = n /\ n \in Numbers
      /\ jobs[subject].file = "written"
  BY <1>0 DEF InPlace, Committing, DiskTypes, JobType
<1>2. dirs[n] \in DirType /\ dirs'[n] = [dirs[n] EXCEPT !.meta = Half]
  BY <1>0, <1>1 DEF DiskTypes
<1>3. /\ \A i \in Numbers \ {n} : dirs'[i] = dirs[i]
      /\ dirs'[n].meta = Half /\ dirs'[n].prefix = dirs[n].prefix /\ dirs'[n].ckpt = dirs[n].ckpt
  BY <1>0, <1>2 DEF DiskTypes, DirType
<1>4. \A e \in index : e.id \in Numbers \ {n}
  BY <1>1 DEF FilesInOrder, NumbersApart, Indexed, DiskTypes, EntryType
<1>5. \A x \in Writers \ {subject} : jobs[x] # None => jobs[x].id \in Numbers \ {n}
  BY <1>1 DEF FilesInOrder, NumbersApart, Writers, DiskTypes, JobType
<1> HIDE DEF n
<1>6. NumbersApart'
  BY <1>0 DEF FilesInOrder, NumbersApart, Indexed
<1>7. JobFiles'
  BY <1>0, <1>1, <1>3, <1>5 DEF FilesInOrder, JobFiles
<1>8. Accounted'
  <2> SUFFICES ASSUME NEW i \in Numbers, dirs'[i] # NoFiles
               PROVE  Indexed(i)' \/ i = doomed' \/ InJob(i)'
    BY DEF Accounted
  <2>1. CASE i = n
    BY <1>0, <1>1, <2>1 DEF InJob
  <2>2. CASE i # n
    BY <1>0, <1>3, <2>2 DEF FilesInOrder, Accounted, Indexed, InJob
  <2> QED BY <2>1, <2>2
<1>9. Honest'
  BY <1>3 DEF FilesInOrder, Honest
<1>10. IndexReadable'
  BY <1>0, <1>3, <1>4 DEF FilesInOrder, IndexReadable
<1>11. LoadsWhatIsKnown'
  BY <1>0, <1>3 DEF FilesInOrder, LoadsWhatIsKnown, Loads, Indexed
<1> QED BY <1>6, <1>7, <1>8, <1>9, <1>10, <1>11 DEF FilesInOrder

LEMMA PushInOrder ==
    ASSUME DiskTypes, InPlace, FilesInOrder, PushEntry
    PROVE  FilesInOrder' /\ fresh \in EntryType /\ fresh \notin index
<1> DEFINE n == fresh.id
<1>0. /\ index' = index \cup {fresh} /\ doomed' = doomed /\ doomed = None
      /\ known' = known \cup {fresh} /\ jobs' = [jobs EXCEPT ![subject] = None]
      /\ next_id' = next_id /\ pc = "meta" /\ pc' \in {"cap", "fit"} /\ unsaved' = unsaved
      /\ dirs' = [dirs EXCEPT ![n].meta = Meta(fresh)]
  BY DEF PushEntry, EngineAt, Going
<1>1. /\ subject \in Writers /\ jobs[subject] # None /\ jobs[subject].id = n /\ n \in Numbers
      /\ jobs[subject].file = "written" /\ jobs[subject].what = fresh.what
      /\ fresh.bytes = Size[fresh.what] /\ fresh \in EntryType
  BY <1>0 DEF InPlace, Committing, DiskTypes, JobType
<1>2. dirs[n] \in DirType /\ dirs'[n] = [dirs[n] EXCEPT !.meta = Meta(fresh)]
  BY <1>0, <1>1 DEF DiskTypes
<1>3. /\ \A i \in Numbers \ {n} : dirs'[i] = dirs[i]
      /\ dirs'[n].meta = Meta(fresh)
      /\ dirs'[n].prefix = fresh.what /\ dirs'[n].ckpt = fresh.what
  <2>1. dirs[n].prefix = fresh.what /\ dirs[n].ckpt = fresh.what
    BY <1>1 DEF FilesInOrder, JobFiles
  <2> QED BY <1>0, <1>2, <2>1 DEF DiskTypes, DirType
<1>4. \A e \in index : e.id \in Numbers \ {n}
  BY <1>1 DEF FilesInOrder, NumbersApart, Indexed, DiskTypes, EntryType
<1>5. \A x \in Writers \ {subject} : jobs[x] # None => jobs[x].id \in Numbers \ {n}
  BY <1>1 DEF FilesInOrder, NumbersApart, Writers, DiskTypes, JobType
<1>6. jobs'[subject] = None /\ \A x \in Writers \ {subject} : jobs'[x] = jobs[x]
  BY <1>0, <1>1 DEF DiskTypes
<1>7. n < next_id /\ n # doomed
  BY <1>1 DEF FilesInOrder, NumbersApart
<1>8. fresh \notin index
  BY <1>4
<1> HIDE DEF n
<1>9. NumbersApart'
  <2>1. \A e, f \in index' : e.id = f.id => e = f
    BY <1>0, <1>4 DEF FilesInOrder, NumbersApart, n
  <2>2. \A e \in index' : e.id < next_id' /\ e.id # doomed' /\ e.bytes = Size[e.what]
    BY <1>0, <1>1, <1>7 DEF FilesInOrder, NumbersApart, n
  <2>3. ASSUME NEW x \in Writers, jobs'[x] # None
        PROVE  /\ jobs'[x].id < next_id' /\ jobs'[x].id # doomed'
               /\ \A e \in index' : e.id # jobs'[x].id
    <3>1. x \in Writers \ {subject} /\ jobs'[x] = jobs[x] /\ jobs[x].id # n
      BY <1>5, <1>6, <2>3
    <3>2. jobs[x].id < next_id /\ jobs[x].id # doomed /\ \A e \in index : e.id # jobs[x].id
      BY <2>3, <3>1 DEF FilesInOrder, NumbersApart, Indexed
    <3> QED BY <1>0, <3>1, <3>2 DEF n
  <2>4. ~(jobs'["engine"] # None /\ jobs'["ahead"] # None)
    BY <1>1, <1>6 DEF Writers
  <2> QED BY <2>1, <2>2, <2>3, <2>4 DEF NumbersApart, Indexed
<1>10. JobFiles'
  BY <1>0, <1>3, <1>5, <1>6 DEF FilesInOrder, JobFiles
<1>11. Accounted'
  <2> SUFFICES ASSUME NEW i \in Numbers, dirs'[i] # NoFiles
               PROVE  Indexed(i)' \/ i = doomed' \/ InJob(i)'
    BY DEF Accounted
  <2>1. CASE i = n
    BY <1>0, <2>1 DEF Indexed, n
  <2>2. CASE i # n
    <3>1. Indexed(i) \/ i = doomed \/ InJob(i)
      BY <1>0, <1>3, <2>2 DEF FilesInOrder, Accounted
    <3>2. InJob(i) => InJob(i)'
      BY <1>1, <1>6, <2>2 DEF InJob
    <3> QED BY <1>0, <3>1, <3>2 DEF Indexed
  <2> QED BY <2>1, <2>2
<1>12. Honest'
  BY <1>1, <1>3, MetaIs DEF FilesInOrder, Honest
<1>13. IndexReadable'
  BY <1>0, <1>3, <1>4 DEF FilesInOrder, IndexReadable, n
<1>14. LoadsWhatIsKnown'
  BY <1>0, <1>3 DEF FilesInOrder, LoadsWhatIsKnown, Loads, Indexed, n
<1> QED BY <1>1, <1>8, <1>9, <1>10, <1>11, <1>12, <1>13, <1>14 DEF FilesInOrder

(* A use is noted in the entry; its meta file is emptied, or stays. *)
LEMMA TouchInOrder ==
    ASSUME DiskTypes, DiskTypes', InPlace, FilesInOrder, Dated, Touch
    PROVE  FilesInOrder'
<1>0. PICK e \in index :
        /\ index' = (index \ {e}) \cup {[e EXCEPT !.used = now]}
        /\ known' = (known \ {e}) \cup {[e EXCEPT !.used = now]}
        /\ \/ /\ dirs' = [dirs EXCEPT ![e.id].meta = Half]
              /\ pc' = "touch" /\ subject' = e.id /\ unsaved' = unsaved
           \/ dirs' = dirs /\ pc' = "idle" /\ unsaved' = unsaved \cup {e.id}
  BY DEF Touch
<1> DEFINE n == e.id
           f == [e EXCEPT !.used = now]
<1>1. /\ doomed' = doomed /\ jobs' = jobs /\ next_id' = next_id /\ pc \in {"lookup", "idle"}
      /\ pc' \in {"touch", "idle"}
  BY DEF Touch, Using, EngineAt
<1>2. /\ n \in Numbers /\ f.id = n /\ f.what = e.what /\ f.bytes = e.bytes /\ f.used = now
      /\ f.durable = e.durable
  BY DEF DiskTypes, EntryType
<1>3. /\ \A i \in Numbers \ {n} : dirs'[i] = dirs[i]
      /\ dirs'[n].meta \in {Half, dirs[n].meta}
      /\ dirs'[n].prefix = dirs[n].prefix /\ dirs'[n].ckpt = dirs[n].ckpt
  <2>1. CASE dirs' = dirs
    BY <2>1
  <2>2. CASE dirs' = [dirs EXCEPT ![e.id].meta = Half]
    <3>1. dirs[n] \in DirType /\ dirs'[n] = [dirs[n] EXCEPT !.meta = Half]
      BY <1>2, <2>2 DEF DiskTypes
    <3> QED BY <2>2, <3>1 DEF DiskTypes, DirType
  <2> QED BY <1>0, <2>1, <2>2
<1>4. \A g \in index \ {e} : g.id \in Numbers \ {n}
  BY DEF FilesInOrder, NumbersApart, DiskTypes, EntryType
<1>5. \A x \in Writers : jobs[x] # None => jobs[x].id \in Numbers \ {n}
  BY DEF FilesInOrder, NumbersApart, Indexed, DiskTypes, JobType
<1>6. index' = (index \ {e}) \cup {f} /\ known' = (known \ {e}) \cup {f}
  BY <1>0
<1> HIDE DEF f, n
<1>7. \A i : Indexed(i)' <=> Indexed(i)
  BY <1>2, <1>6 DEF Indexed, n
<1>8. NumbersApart'
  <2>1. \A g, h \in index' : g.id = h.id => g = h
    BY <1>2, <1>4, <1>6 DEF FilesInOrder, NumbersApart
  <2>2. n < next_id /\ n # doomed /\ f.bytes = Size[f.what]
    BY <1>2 DEF FilesInOrder, NumbersApart, n
  <2>3. \A g \in index' : g.id < next_id' /\ g.id # doomed' /\ g.bytes = Size[g.what]
    BY <1>1, <1>2, <1>6, <2>2 DEF FilesInOrder, NumbersApart
  <2> QED BY <1>1, <1>7, <2>1, <2>3 DEF FilesInOrder, NumbersApart
<1>9. JobFiles'
  BY <1>1, <1>3, <1>5 DEF FilesInOrder, JobFiles
<1>10. Accounted'
  <2> SUFFICES ASSUME NEW i \in Numbers, dirs'[i] # NoFiles
               PROVE  Indexed(i)' \/ i = doomed' \/ InJob(i)'
    BY DEF Accounted
  <2>1. CASE i = n
    BY <1>2, <1>6, <2>1 DEF Indexed
  <2>2. CASE i # n
    BY <1>1, <1>3, <1>7, <2>2 DEF FilesInOrder, Accounted, InJob
  <2> QED BY <2>1, <2>2
<1>11. Honest'
  BY <1>3 DEF FilesInOrder, Honest
<1>12. IndexReadable'
  <2>1. dirs'[n].prefix = f.what /\ dirs'[n].ckpt = f.what
    BY <1>2, <1>3 DEF FilesInOrder, IndexReadable, n
  <2>2. dirs[n].meta # Half => dirs[n].meta # Missing /\ EarlierUse(dirs[n].meta, f)
    <3>1. dirs[n].meta # Half =>
            /\ dirs[n].meta # Missing /\ dirs[n].meta[1] = e.what /\ dirs[n].meta[3] = e.durable
      BY MetaIs DEF FilesInOrder, IndexReadable, EarlierUse, n, DiskTypes
    <3>2. dirs[n].meta \notin {Missing, Half} => dirs[n].meta[2] =< now
      BY <1>2 DEF Dated
    <3> QED BY <1>2, <3>1, <3>2 DEF EarlierUse
  <2>3. /\ n \in unsaved' \/ (pc' = "touch" /\ subject' = n)
        /\ dirs'[n].meta = Half \/ (dirs'[n].meta # Missing /\ EarlierUse(dirs'[n].meta, f))
    <3>1. n \in unsaved' \/ (pc' = "touch" /\ subject' = n)
      BY <1>0 DEF n
    <3> QED BY <1>3, <2>2, <3>1
  <2>4. ASSUME NEW g \in index \ {e}
        PROVE  /\ dirs'[g.id].prefix = g.what /\ dirs'[g.id].ckpt = g.what
               /\ \/ dirs'[g.id].meta = Meta(g)
                  \/ /\ g.id \in unsaved'
                     /\ dirs'[g.id].meta = Half
                        \/ (dirs'[g.id].meta # Missing /\ EarlierUse(dirs'[g.id].meta, g))
    <3>1. dirs'[g.id] = dirs[g.id] /\ (g.id \in unsaved => g.id \in unsaved')
      BY <1>0, <1>3, <1>4
    <3> QED BY <1>1, <3>1 DEF FilesInOrder, IndexReadable
  <2>5. \A g \in index' : g = f \/ g \in index \ {e}
    BY <1>6
  <2> QED BY <1>2, <2>1, <2>3, <2>4, <2>5 DEF IndexReadable
<1>13. LoadsWhatIsKnown'
  <2>1. known' = index'
    BY <1>1, <1>6 DEF FilesInOrder, LoadsWhatIsKnown
  <2>2. \A i \in Numbers : Loads(dirs'[i]) => Indexed(i) \/ i = doomed'
    BY <1>1, <1>3 DEF FilesInOrder, LoadsWhatIsKnown, Loads
  <2> QED BY <1>1, <1>7, <2>1, <2>2 DEF LoadsWhatIsKnown, Loads
<1> QED BY <1>8, <1>9, <1>10, <1>11, <1>12, <1>13 DEF FilesInOrder

LEMMA TouchedInOrder ==
    ASSUME DiskTypes, InPlace, FilesInOrder, Touched
    PROVE  FilesInOrder'
<1>0. PICK e \in index :
        /\ e.id = subject
        /\ \/ /\ dirs' = [dirs EXCEPT ![subject].meta = Meta(e)] /\ unsaved' = unsaved \ {subject}
           \/ dirs' = dirs /\ unsaved' = unsaved \cup {subject}
  <2>1. PICK g \in index : g.id = subject
    BY DEF Touched, EngineAt, InPlace
  <2> QED BY <2>1 DEF Touched
<1> DEFINE n == e.id
<1>1. /\ doomed' = doomed /\ jobs' = jobs /\ next_id' = next_id /\ index' = index /\ known' = known
      /\ pc = "touch" /\ pc' = "idle"
  BY DEF Touched, EngineAt
<1>2. n \in Numbers /\ e \in EntryType
  BY DEF DiskTypes, EntryType
<1>3. /\ \A i \in Numbers \ {n} : dirs'[i] = dirs[i]
      /\ dirs'[n].prefix = e.what /\ dirs'[n].ckpt = e.what
      /\ \/ dirs'[n].meta = Meta(e) /\ unsaved' = unsaved \ {n}
         \/ dirs'[n].meta = dirs[n].meta /\ unsaved' = unsaved \cup {n}
  <2>1. dirs[n].prefix = e.what /\ dirs[n].ckpt = e.what
    BY DEF FilesInOrder, IndexReadable
  <2>2. CASE dirs' = dirs /\ unsaved' = unsaved \cup {subject}
    BY <1>0, <2>1, <2>2
  <2>3. CASE dirs' = [dirs EXCEPT ![subject].meta = Meta(e)] /\ unsaved' = unsaved \ {subject}
    <3>1. dirs[n] \in DirType /\ dirs'[n] = [dirs[n] EXCEPT !.meta = Meta(e)]
      BY <1>0, <1>2, <2>3 DEF DiskTypes
    <3> QED BY <1>0, <2>1, <2>3, <3>1 DEF DiskTypes, DirType
  <2> QED BY <1>0, <2>2, <2>3
<1>4. \A g \in index \ {e} : g.id \in Numbers \ {n}
  BY DEF FilesInOrder, NumbersApart, DiskTypes, EntryType
<1>5. \A x \in Writers : jobs[x] # None => jobs[x].id \in Numbers \ {n}
  BY DEF FilesInOrder, NumbersApart, Indexed, DiskTypes, JobType
<1>6. n = subject
  BY <1>0
<1>7. NumbersApart'
  BY <1>1 DEF FilesInOrder, NumbersApart, Indexed
<1> HIDE DEF n
<1>8. JobFiles'
  BY <1>1, <1>3, <1>5 DEF FilesInOrder, JobFiles
<1>9. Accounted'
  <2> SUFFICES ASSUME NEW i \in Numbers, dirs'[i] # NoFiles
               PROVE  Indexed(i)' \/ i = doomed' \/ InJob(i)'
    BY DEF Accounted
  <2>1. CASE i = n
    BY <1>1, <2>1 DEF Indexed, n
  <2>2. CASE i # n
    BY <1>1, <1>3, <2>2 DEF FilesInOrder, Accounted, InJob, Indexed
  <2> QED BY <2>1, <2>2
<1>10. Honest'
  <2>1. dirs'[n].meta \notin {Missing, Half} => dirs'[n].meta[1] = e.what
    <3>1. CASE dirs'[n].meta = Meta(e)
      BY <1>2, <3>1, MetaIs
    <3>2. CASE dirs'[n].meta = dirs[n].meta
      BY <1>2, <3>2, MetaIs DEF FilesInOrder, IndexReadable, EarlierUse, n
    <3> QED BY <1>3, <3>1, <3>2
  <2> QED BY <1>3, <2>1 DEF FilesInOrder, Honest
<1>11. IndexReadable'
  <2>1. ASSUME NEW g \in index \ {e}
        PROVE  /\ dirs'[g.id].prefix = g.what /\ dirs'[g.id].ckpt = g.what
               /\ \/ dirs'[g.id].meta = Meta(g)
                  \/ /\ g.id \in unsaved'
                     /\ dirs'[g.id].meta = Half
                        \/ (dirs'[g.id].meta # Missing /\ EarlierUse(dirs'[g.id].meta, g))
    <3>1. dirs'[g.id] = dirs[g.id] /\ g.id # n /\ (g.id \in unsaved => g.id \in unsaved')
      BY <1>3, <1>4
    <3> QED BY <1>6, <3>1 DEF FilesInOrder, IndexReadable
  <2>2. \/ dirs'[n].meta = Meta(e)
        \/ /\ n \in unsaved'
           /\ dirs'[n].meta = Half \/ (dirs'[n].meta # Missing /\ EarlierUse(dirs'[n].meta, e))
    BY <1>3 DEF FilesInOrder, IndexReadable, n
  <2> QED BY <1>1, <1>3, <2>1, <2>2 DEF IndexReadable, n
<1>12. LoadsWhatIsKnown'
  BY <1>1, <1>3 DEF FilesInOrder, LoadsWhatIsKnown, Loads, Indexed, n
<1> QED BY <1>7, <1>8, <1>9, <1>10, <1>11, <1>12 DEF FilesInOrder

(* What a crash leaves are the entries the index had. *)
LEMMA CrashInOrder ==
    ASSUME DiskTypes, InPlace, FilesInOrder, Crash
    PROVE  FilesInOrder'
<1>0. /\ index' = {} /\ dirs' = dirs /\ pc # "down" /\ pc' = "down" /\ known' = known
      /\ \A w \in Writers : jobs'[w] = None
      /\ excused' = {doomed} \cup unsaved \cup (IF pc = "touch" THEN {subject} ELSE {})
  BY DEF Crash
<1>1. NumbersApart' /\ JobFiles' /\ Accounted' /\ IndexReadable'
  BY <1>0 DEF NumbersApart, JobFiles, Accounted, IndexReadable, Writers
<1>2. Honest'
  BY <1>0 DEF FilesInOrder, Honest
<1>3. known = index /\ \A i \in Numbers : Loads(dirs[i]) => Indexed(i) \/ i = doomed
  BY <1>0 DEF FilesInOrder, LoadsWhatIsKnown
<1>4. ASSUME NEW e \in index PROVE e.id \in excused' \/ (Loads(dirs[e.id]) /\ Entry(e.id) = e)
  <2>1. /\ dirs[e.id].prefix = e.what /\ dirs[e.id].ckpt = e.what
        /\ dirs[e.id].meta = Meta(e) \/ e.id \in unsaved \/ (pc = "touch" /\ subject = e.id)
    BY DEF FilesInOrder, IndexReadable
  <2>2. CASE dirs[e.id].meta = Meta(e)
    <3>1. e \in EntryType /\ e.bytes = Size[e.what]
      BY DEF DiskTypes, FilesInOrder, NumbersApart
    <3>2. Entry(e.id) = [id |-> e.id, what |-> e.what, bytes |-> e.bytes, used |-> e.used,
                         durable |-> e.durable]
      BY <2>2, <3>1, MetaIs DEF Entry
    <3>3. Entry(e.id) = e
      BY <3>1, <3>2 DEF EntryType
    <3>4. Loads(dirs[e.id])
      BY <2>1, <2>2, <3>1, MetaIs, Apart DEF Loads, EntryType
    <3> QED BY <3>3, <3>4
  <2> QED BY <1>0, <2>1, <2>2
<1>5. ASSUME NEW i \in Numbers, Loads(dirs[i]) PROVE i \in excused' \/ Entry(i) \in known
  <2>1. CASE i = doomed
    BY <1>0, <2>1
  <2>2. CASE Indexed(i)
    BY <1>0, <1>3, <1>4, <2>2 DEF Indexed
  <2> QED BY <1>3, <1>5, <2>1, <2>2
<1>6. ASSUME NEW e \in index, Loads(dirs[e.id]) PROVE EarlierUse(dirs[e.id].meta, e)
  <2>1. e \in EntryType /\ dirs[e.id].meta # Half
    BY <1>6 DEF DiskTypes, Loads
  <2>2. CASE dirs[e.id].meta = Meta(e)
    <3>1. e.used \in Nat
      BY <2>1 DEF EntryType
    <3> QED BY <2>1, <2>2, <3>1, MetaIs DEF EarlierUse
  <2> QED BY <2>1, <2>2 DEF FilesInOrder, IndexReadable
<1>7. LoadsWhatIsKnown'
  BY <1>0, <1>3, <1>4, <1>5, <1>6 DEF LoadsWhatIsKnown, Loads, Entry
<1> QED BY <1>1, <1>2, <1>7 DEF FilesInOrder

(* What loads is indexed when the tier is opened. *)
LEMMA OpenInOrder ==
    ASSUME DiskTypes, DiskTypes', InPlace, FilesInOrder, Open
    PROVE  FilesInOrder'
<1>0. /\ index' = {Entry(i) : i \in Loaded} /\ known' = index' /\ dirs' = dirs /\ pc = "down"
      /\ pc' = "sweep" /\ doomed' = None /\ next_id' = Max({0} \cup Loaded) + 1 /\ jobs' = jobs
  BY DEF Open, EngineAt, Going
<1>1. \A w \in Writers : jobs'[w] = None
  BY <1>0 DEF InPlace
<1>2. \A i \in Loaded : i \in Numbers /\ Loads(dirs[i]) /\ Entry(i).id = i
  BY DEF Loaded, Entry
<1>3. \A i \in Loaded : i < next_id'
  <2>1. {0} \cup Loaded \subseteq Nat /\ \A x \in {0} \cup Loaded : x =< MaxStores
    BY NumbersFinite DEF Loaded, Numbers
  <2>2. \A x \in {0} \cup Loaded : x =< Max({0} \cup Loaded) /\ Max({0} \cup Loaded) \in Nat
    BY <2>1, NumbersFinite, Greatest
  <2> DEFINE m == Max({0} \cup Loaded)
  <2>3. m \in Nat /\ \A i \in Loaded : i \in Nat /\ i =< m
    BY <2>1, <2>2
  <2>4. next_id' = m + 1
    BY <1>0
  <2> HIDE DEF m
  <2> QED BY <2>3, <2>4
<1>4. ASSUME NEW i \in Loaded
      PROVE  LET e == Entry(i)
             IN  /\ e.bytes = Size[e.what] /\ dirs[i].meta = Meta(e)
                 /\ dirs[i].prefix = e.what /\ dirs[i].ckpt = e.what
  <2> DEFINE e == Entry(i)
             m == dirs[i].meta
  <2>1. m \in Lineages \X Nat \X BOOLEAN /\ dirs[i].prefix # Missing /\ dirs[i].ckpt # Missing
    BY <1>2 DEF Loads, DiskTypes, DirType
  <2>2. e.what = m[1] /\ e.used = m[2] /\ e.durable = m[3] /\ e.bytes = Size[m[1]]
    BY DEF Entry
  <2>3. m = <<m[1], m[2], m[3]>>
    BY <2>1
  <2>4. dirs[i].prefix \in {Missing, m[1]} /\ dirs[i].ckpt \in {Missing, m[1]}
    BY <1>2, <2>1, Apart DEF FilesInOrder, Honest
  <2> QED BY <2>1, <2>2, <2>3, <2>4 DEF Meta
<1> HIDE DEF Loaded
<1>5. NumbersApart'
  <2>1. \A e, f \in index' : e.id = f.id => e = f
    BY <1>0, <1>2
  <2>2. \A e \in index' : e.id < next_id' /\ e.id # doomed' /\ e.bytes = Size[e.what]
    <3> TAKE e \in index'
    <3>1. PICK i \in Loaded : e = Entry(i)
      BY <1>0
    <3>2. e.id = i /\ i \in Numbers /\ i < next_id'
      BY <1>2, <1>3, <3>1
    <3>3. e.bytes = Size[e.what]
      BY <1>4, <3>1
    <3>4. e.id # doomed'
      BY <1>0, <3>2, Apart
    <3> QED BY <3>2, <3>3, <3>4
  <2> QED BY <1>1, <2>1, <2>2 DEF NumbersApart, Writers
<1>6. JobFiles' /\ Accounted'
  BY <1>0, <1>1 DEF JobFiles, Accounted
<1>7. Honest'
  BY <1>0 DEF FilesInOrder, Honest
<1>8. IndexReadable'
  BY <1>0, <1>2, <1>4 DEF IndexReadable
<1>9. LoadsWhatIsKnown'
  <2>1. \A i \in Numbers : Loads(dirs[i]) => i \in Loaded
    BY DEF Loaded
  <2> QED BY <1>0, <1>2, <2>1 DEF LoadsWhatIsKnown, Indexed, Loads
<1> QED BY <1>5, <1>6, <1>7, <1>8, <1>9 DEF FilesInOrder

LEMMA SweepInOrder ==
    ASSUME DiskTypes, InPlace, FilesInOrder, Sweep
    PROVE  FilesInOrder'
<1>1. CASE Unreadable = {} /\ ReadAge
  BY <1>1, FilesStand DEF Sweep, EngineAt, ReadAge, files, history
<1>2. ASSUME NEW i \in Unreadable, Delete(i),
             UNCHANGED <<files, pc, subject, fresh, age, gateVars, now, history>>, EngineAt("sweep")
      PROVE  FilesInOrder'
  <2>0. /\ doomed' = i /\ pc = "sweep" /\ doomed = None /\ ~Indexed(i)
        /\ UNCHANGED <<dirs, index, jobs, next_id, known, unsaved, pc, subject>>
        /\ \A w \in Writers : jobs[w] = None
    BY <1>2 DEF Delete, EngineAt, Going, Unreadable, Tier!contains, Indexed, files, history, InPlace
  <2>1. NumbersApart'
    BY <2>0 DEF FilesInOrder, NumbersApart, Indexed, Writers
  <2>2. JobFiles' /\ Accounted' /\ Honest' /\ IndexReadable'
    BY <2>0 DEF FilesInOrder, JobFiles, Accounted, Honest, IndexReadable
  <2>3. LoadsWhatIsKnown'
    BY <2>0, Apart DEF FilesInOrder, LoadsWhatIsKnown, Indexed, Loads
  <2> QED BY <2>1, <2>2, <2>3 DEF FilesInOrder
<1> QED BY <1>1, <1>2 DEF Sweep

LEMMA FilesKept ==
    ASSUME DiskTypes, DiskTypes', InPlace, FilesInOrder, Dated, DiskNext
    PROVE  FilesInOrder'
<1> USE DEF EngineAt, Going
<1>1. CASE (\E op \in {"store", "ahead", "lookup"} : Begin(op)) \/ Gate \/ Tick \/ ApplyStored \/ Settle
           \/ Committed \/ Missed
  BY <1>1, FilesStand DEF Begin, Gate, Tick, ApplyStored, Settle, Committed, Missed, ReadAge, PassOver,
                          Goto, InPlace, files, history
<1>2. ASSUME NEW e \in index, Drop(e), doomed = None, UNCHANGED <<pc, subject>>,
             pc \in {"expire", "room", "cap", "fit"}
      PROVE  FilesInOrder'
  BY <1>2, DropInOrder
<1>3. CASE Expire
  <2>1. CASE PassOver
    BY <1>3, <2>1, FilesStand DEF Expire, PassOver, InPlace, files, history
  <2> QED BY <1>2, <1>3, <2>1 DEF Expire, stale
<1>4. CASE \E what \in Lineages : StoreAhead(what) \/ \E durable \in BOOLEAN : Store(what, durable)
  <2>1. ASSUME NEW what \in Lineages, StoreAhead(what) PROVE FilesInOrder'
    BY <2>1, ReserveInOrder DEF StoreAhead, InPlace, Towards, Writers
  <2>2. ASSUME NEW what \in Lineages, NEW durable \in BOOLEAN, Store(what, durable) PROVE FilesInOrder'
    <3>1. jobs["engine"] = None
      BY <2>2 DEF Store, InPlace, Committing
    <3> QED BY <2>2, <3>1, ReserveInOrder DEF Store, InPlace, Towards, Writers
  <2> QED BY <1>4, <2>1, <2>2
<1>5. ASSUME NEW w \in Writers, WriteFile(w) PROVE FilesInOrder'
  BY <1>5, WriteInOrder
<1>6. ASSUME NEW w \in Writers, CommitStore(w) PROVE FilesInOrder'
  <2>1. CASE Abandon(w)
    BY <1>6, <2>1, AbandonInOrder DEF CommitStore
  <2>2. CASE UNCHANGED <<files, doomed, age, gateVars, now, known, unsaved, excused>> /\ pc' = "room"
    BY <1>6, <2>2, FilesStand DEF CommitStore, files
  <2> QED BY <1>6, <2>1, <2>2 DEF CommitStore
<1>7. CASE WriteFailed \/ CancelAhead \/ Refuse
  <2>1. CASE WriteFailed
    BY <2>1, AbandonInOrder DEF WriteFailed, InPlace, Writers
  <2>2. CASE CancelAhead
    BY <2>2, AbandonInOrder DEF CancelAhead, Writers
  <2>3. CASE Refuse
    BY <2>3, AbandonInOrder DEF Refuse, InPlace, Committing
  <2> QED BY <1>7, <2>1, <2>2, <2>3
<1>8. CASE MakeRoom \/ TrimDurable
  <2>1. \A e : e \in LeastUsed(index) \/ e \in LeastUsed(Durable) => e \in index
    BY DEF LeastUsed, Durable
  <2> QED BY <1>2, <1>8, <2>1 DEF MakeRoom, TrimDurable
<1>9. CASE Fit
  <2>1. \A e : e \in LeastUsed(index) => e \in index
    BY DEF LeastUsed
  <2>2. CASE ~OverBudget(0)
    BY <1>9, <2>2, FilesStand DEF Fit, files
  <2> QED BY <1>2, <1>9, <2>1, <2>2 DEF Fit
<1>10. CASE RemoveEntry
  BY <1>10, DropInOrder DEF RemoveEntry, Using
<1> QED BY <1>1, <1>3, <1>4, <1>5, <1>6, <1>7, <1>8, <1>9, <1>10, DeleteInOrder, CreateInOrder,
           PushInOrder, TouchInOrder, TouchedInOrder, CrashInOrder, OpenInOrder, SweepInOrder
        DEF DiskNext
-----------------------------------------------------------------------------
(* No use is to come. *)

LEMMA DatedInit == DiskInit => Dated
<1>1. ASSUME DiskInit PROVE \A i \in Numbers : dirs[i].meta = Missing
  BY <1>1 DEF DiskInit, NoFiles
<1> QED BY <1>1 DEF DiskInit, Dated

LEMMA DatedKept ==
    ASSUME DiskTypes, InPlace, Dated, DiskNext
    PROVE  Dated'
<1> DEFINE OnFile == \A i \in Numbers : dirs[i].meta \notin {Missing, Half} => dirs[i].meta[2] =< now
<1> USE DEF EngineAt
<1>1. CASE UNCHANGED <<dirs, index, fresh, now>>
  BY <1>1 DEF Dated
<1>2. CASE UNCHANGED <<dirs, now>> /\ index' \subseteq index /\ fresh' \in {fresh, None}
  BY <1>2 DEF Dated
<1>3. CASE Tick
  <2>1. /\ now \in Nat /\ TickLength \in Nat /\ now' = now + TickLength
        /\ UNCHANGED <<dirs, index, fresh>>
    BY <1>3, DiskStoreAssumption DEF Tick, files, DiskTypes
  <2>2. \A x \in Nat : x =< now => x =< now'
    BY <2>1
  <2>3. \A i \in Numbers : dirs[i].meta \notin {Missing, Half} => dirs[i].meta[2] \in Nat
    BY DEF DiskTypes, DirType
  <2>4. \A e \in EntryType : e.used \in Nat
    BY DEF EntryType
  <2> QED BY <2>1, <2>2, <2>3, <2>4 DEF Dated, DiskTypes
<1>4. ASSUME NEW n \in Numbers, NEW f \in {"prefix", "ckpt", "meta"},
             NEW v, v \in {Missing, Half} \/ f # "meta" \/ v[2] =< now,
             dirs' = [dirs EXCEPT ![n][f] = v], now' = now
      PROVE  OnFile'
  <2>1. dirs[n] \in DirType /\ dirs'[n] = [dirs[n] EXCEPT ![f] = v]
    BY <1>4 DEF DiskTypes
  <2>2. dirs'[n].meta = IF f = "meta" THEN v ELSE dirs[n].meta
    BY <2>1 DEF DirType
  <2>3. \A i \in Numbers \ {n} : dirs'[i] = dirs[i]
    BY <1>4 DEF DiskTypes
  <2> QED BY <1>4, <2>2, <2>3 DEF Dated
<1>5. CASE DeleteFile
  <2>1. doomed \in Numbers /\ UNCHANGED <<index, fresh, now>>
    BY <1>5 DEF DeleteFile, Going, DiskTypes
  <2>2. PICK f \in {"prefix", "ckpt", "meta"} : dirs' = [dirs EXCEPT ![doomed][f] = Missing]
    BY <1>5 DEF DeleteFile, NoFiles
  <2>3. OnFile'
    BY <1>4, <2>1, <2>2
  <2> QED BY <2>1, <2>3 DEF Dated
<1>6. ASSUME NEW w \in Writers, WriteFile(w) PROVE Dated'
  <2>1. /\ jobs[w].id \in Numbers /\ jobs[w].file \in {"prefix", "ckpt"} /\ UNCHANGED <<index, fresh, now>>
    BY <1>6 DEF WriteFile, DiskTypes, JobType
  <2>2. OnFile'
    <3>1. CASE dirs' = dirs
      BY <2>1, <3>1 DEF Dated
    <3>2. ASSUME NEW v, dirs' = [dirs EXCEPT ![jobs[w].id][jobs[w].file] = v] PROVE OnFile'
      BY <1>4, <2>1, <3>2
    <3> QED BY <1>6, <3>1, <3>2 DEF WriteFile
  <2> QED BY <2>1, <2>2 DEF Dated
<1>7. ASSUME NEW w \in Writers, CommitStore(w) PROVE Dated'
  <2>1. CASE Abandon(w)
    BY <1>2, <2>1 DEF Abandon
  <2>2. CASE fresh' = [id |-> jobs[w].id, what |-> jobs[w].what, bytes |-> Size[jobs[w].what],
                       used |-> now, durable |-> jobs[w].durable] /\ UNCHANGED <<files, now>>
    <3>1. fresh'.used = now /\ now \in Nat /\ UNCHANGED <<dirs, index, now>>
      BY <2>2 DEF files, DiskTypes
    <3> QED BY <3>1 DEF Dated
  <2> QED BY <1>7, <2>1, <2>2 DEF CommitStore
<1>8. CASE CreateMeta
  <2>1. fresh \in EntryType /\ fresh.id \in Numbers /\ UNCHANGED <<index, now>> /\ now \in Nat
    BY <1>8 DEF CreateMeta, InPlace, DiskTypes, EntryType
  <2>2. fresh' = [fresh EXCEPT !.used = now] /\ fresh'.used = now
    BY <1>8, <2>1 DEF CreateMeta, EntryType
  <2>3. OnFile'
    BY <1>4, <1>8, <2>1 DEF CreateMeta
  <2> QED BY <2>1, <2>2, <2>3 DEF Dated
<1>9. CASE PushEntry
  <2>1. /\ fresh \in EntryType /\ fresh # None /\ fresh.id \in Numbers /\ UNCHANGED <<fresh, now>>
        /\ index' = index \cup {fresh}
    BY <1>9 DEF PushEntry, InPlace, DiskTypes, EntryType
  <2>2. Meta(fresh)[2] = fresh.used /\ fresh.used =< now
    BY <2>1 DEF Dated, Meta
  <2>3. OnFile'
    BY <1>4, <1>9, <2>1, <2>2 DEF PushEntry
  <2> QED BY <2>1, <2>2, <2>3 DEF Dated
<1>10. ASSUME NEW e \in index, index' = (index \ {e}) \cup {[e EXCEPT !.used = now]},
              \/ dirs' = dirs \/ dirs' = [dirs EXCEPT ![e.id].meta = Half],
              UNCHANGED <<fresh, now>>
       PROVE  Dated'
  <2>1. e \in EntryType /\ e.id \in Numbers /\ now \in Nat
    BY DEF DiskTypes, EntryType
  <2>2. [e EXCEPT !.used = now].used = now
    BY <2>1 DEF EntryType
  <2> DEFINE f == [e EXCEPT !.used = now]
  <2>3. \A g \in index' : g.used =< now
    <3>1. f.used =< now /\ index' = (index \ {e}) \cup {f}
      BY <1>10, <2>1, <2>2
    <3> HIDE DEF f
    <3> QED BY <3>1 DEF Dated
  <2>4. OnFile'
    BY <1>4, <1>10, <2>1 DEF Dated
  <2> QED BY <1>10, <2>3, <2>4 DEF Dated
<1>11. CASE Touch
  BY <1>10, <1>11 DEF Touch
<1>12. CASE Touched
  <2>1. ASSUME NEW e \in index, e.id = subject, dirs' = [dirs EXCEPT ![subject].meta = Meta(e)]
        PROVE  OnFile'
    <3>1. e.id \in Numbers /\ Meta(e)[2] = e.used /\ e.used =< now /\ now' = now
      BY <1>12 DEF Touched, DiskTypes, EntryType, Meta, Dated
    <3> QED BY <1>4, <2>1, <3>1
  <2>2. UNCHANGED <<index, fresh, now>>
    BY <1>12 DEF Touched
  <2> QED BY <1>12, <2>1, <2>2 DEF Touched, Dated
<1>13. CASE Open
  <2>1. index' = {Entry(i) : i \in Loaded} /\ UNCHANGED <<dirs, fresh, now>>
    BY <1>13 DEF Open
  <2>2. \A i \in Loaded : Entry(i).used = dirs[i].meta[2] /\ dirs[i].meta[2] =< now
    BY DEF Loaded, Loads, Entry, Dated
  <2> QED BY <2>1, <2>2 DEF Dated
<1>14. \A e : e \in LeastUsed(index) \/ e \in LeastUsed(Durable) \/ e \in stale => e \in index
  BY DEF LeastUsed, Durable, stale
<1>15. \A e : Drop(e) => Dated'
  BY <1>2 DEF Drop
<1>16. CASE MakeRoom \/ TrimDurable \/ RemoveEntry
  BY <1>15, <1>16 DEF MakeRoom, TrimDurable, RemoveEntry
<1>17. CASE Expire \/ Fit
  <2>1. CASE PassOver \/ (UNCHANGED <<files, now>> /\ fresh' = None)
    BY <1>1, <1>2, <2>1 DEF PassOver, files
  <2> QED BY <1>15, <1>17, <2>1 DEF Expire, Fit
<1>18. CASE WriteFailed \/ CancelAhead \/ Refuse \/ Crash
  BY <1>2, <1>18 DEF WriteFailed, CancelAhead, Refuse, Abandon, Crash
<1>19. CASE Deleted \/ (\E op \in {"store", "ahead", "lookup"} : Begin(op)) \/ Gate \/ Committed
            \/ Missed \/ Sweep \/ ApplyStored \/ Settle
  BY <1>1, <1>19 DEF Deleted, Begin, Gate, Committed, Missed, Sweep, ApplyStored, Settle, ReadAge,
                     PassOver, Goto, files
<1>20. CASE \E what \in Lineages : StoreAhead(what) \/ \E durable \in BOOLEAN : Store(what, durable)
  BY <1>1, <1>20 DEF StoreAhead, Store, reserve
<1> HIDE DEF OnFile
<1> QED BY <1>3, <1>5, <1>6, <1>7, <1>8, <1>9, <1>11, <1>12, <1>13, <1>16, <1>17, <1>18, <1>19, <1>20
        DEF DiskNext

(* The budget, and how far a commit has come. *)

LEMMA FitsInit == DiskInit => Fits /\ CommitSoFar
<1>1. Used({}) = 0
  BY FS_EmptySet, UsedFacts
<1>2. budget \in Nat => 0 =< budget
  OBVIOUS
<1> QED BY <1>1, <1>2, DiskStoreAssumption DEF DiskInit, Fits, CommitSoFar

(* Nothing of a commit changes. *)
LEMMA FitsStand ==
    ASSUME Fits, CommitSoFar, UNCHANGED <<index, budget, fresh, before>>,
           \/ UNCHANGED <<pc, subject>>
           \/ /\ pc' \notin {"room", "meta", "cap", "fit"}
              /\ \/ Towards("fit")' \/ pc' \in {"down", "sweep"}
                 \/ pc \notin {"down", "sweep"} /\ ~Towards("fit")
    PROVE  Fits' /\ CommitSoFar'
<1>1. Fits'
  BY DEF Fits, Towards
<1>2. CommitSoFar'
  BY DEF CommitSoFar, RoomMade, RoomSoFar, CapKept
<1> QED BY <1>1, <1>2

(* One more of the oldest goes. *)
LEMMA OneMoreGone ==
    ASSUME NEW all \in SUBSET EntryType, NEW left, OldestGone(all, left), NEW e \in LeastUsed(left)
    PROVE  /\ OldestGone(all, left \ {e})
           /\ \A w \in all \ (left \ {e}) : w.used =< e.used
<1>1. left \subseteq all /\ e \in left /\ e.used \in Nat /\ \A f \in left : e.used =< f.used
  BY DEF OldestGone, LeastUsed, EntryType
<1>2. \A v \in all \ left, k \in left : v.used =< k.used
  BY DEF OldestGone
<1>3. all \ (left \ {e}) = (all \ left) \cup {e}
  BY <1>1
<1>4. \A w \in all \ (left \ {e}) : w.used =< e.used
  BY <1>1, <1>2, <1>3
<1>5. \A v \in all \ (left \ {e}), k \in left \ {e} : v.used =< k.used
  BY <1>1, <1>2, <1>3
<1> QED BY <1>1, <1>4, <1>5 DEF OldestGone

LEMMA MoreRoom ==
    ASSUME NEW all \in SUBSET EntryType, NEW left, NEW extra, RoomSoFar(all, left, extra),
           NEW e \in LeastUsed(left), Used(left) + extra > budget
    PROVE  RoomSoFar(all, left \ {e}, extra)
<1>1. e \in left /\ left \subseteq all
  BY DEF RoomSoFar, OldestGone, LeastUsed
<1>2. (left \ {e}) \cup {e} = left
  BY <1>1
<1>3. e \in all \ (left \ {e}) /\ all # left \ {e}
  BY <1>1
<1>4. OldestGone(all, left \ {e}) /\ \A w \in all \ (left \ {e}) : w.used =< e.used
  BY OneMoreGone DEF RoomSoFar
<1> QED BY <1>2, <1>3, <1>4 DEF RoomSoFar

LEMMA MoreCapped ==
    ASSUME NEW all \in SUBSET EntryType, NEW left, CapSoFar(all, left),
           NEW e \in LeastUsed(DurableOf(left)), Cardinality(DurableOf(left)) > DurableMax
    PROVE  CapSoFar(all, left \ {e})
<1>1. e \in left /\ left \subseteq all /\ e \in DurableOf(left) /\ e \in DurableOf(all)
  BY DEF CapSoFar, LeastUsed, DurableOf
<1>2. (left \ {e}) \cup {e} = left
  BY <1>1
<1>3. DurableOf(left \ {e}) = DurableOf(left) \ {e}
  BY DEF DurableOf
<1>4. OldestGone(DurableOf(all), DurableOf(left) \ {e})
      /\ \A w \in DurableOf(all) \ (DurableOf(left) \ {e}) : w.used =< e.used
  <2>1. DurableOf(all) \in SUBSET EntryType
    BY DEF DurableOf
  <2> QED BY <2>1, OneMoreGone DEF CapSoFar
<1>5. all \ (left \ {e}) \subseteq DurableOf(all) \ (DurableOf(left) \ {e})
  <2>1. all \ left \subseteq DurableOf(all)
    BY DEF CapSoFar
  <2> QED BY <1>1, <2>1 DEF DurableOf
<1>6. all \ (left \ {e}) \subseteq DurableOf(all)
  BY <1>5
<1>7. e \in all \ (left \ {e}) /\ all # left \ {e}
  BY <1>1
<1> QED BY <1>1, <1>2, <1>3, <1>4, <1>5, <1>6, <1>7 DEF CapSoFar

LEMMA FitsKept ==
    ASSUME DiskTypes, DiskTypes', InPlace, FilesInOrder, Fits, CommitSoFar, DiskNext
    PROVE  Fits' /\ CommitSoFar'
<1> USE DEF EngineAt, Going
<1>0. /\ Used(index) \in Nat /\ budget \in Nat /\ Used({}) = 0
      /\ \A t \in SUBSET index : Used(t) =< Used(index) /\ Used(t) \in Nat /\ IsFiniteSet(t)
      /\ \A e : e \in LeastUsed(index) => e \in index
  BY UsedFacts DEF DiskTypes, LeastUsed
<1>1. CASE DeleteFile \/ Deleted \/ Tick \/ ApplyStored \/ Settle
  BY <1>1, FitsStand DEF DeleteFile, Deleted, Tick, ApplyStored, Settle, files, history, gateVars
<1>2. CASE \E op \in {"store", "ahead", "lookup"} : Begin(op)
  BY <1>2, FitsStand DEF Begin, ReadAge, Towards, files, history
<1>3. ASSUME PassOver, pc \in {"gate", "expire"} PROVE Fits' /\ CommitSoFar'
  <2>1. UNCHANGED <<index, budget, fresh, before>> /\ pc' = subject
    BY <1>3 DEF PassOver, files, history
  <2>2. CASE subject # "fit"
    BY <1>3, <2>1, <2>2, FitsStand DEF InPlace, Towards
  <2>3. CASE subject = "fit"
    BY <1>3, <2>1, <2>3 DEF InPlace, Fits, CommitSoFar, Towards
  <2> QED BY <2>2, <2>3
<1>4. CASE Gate
  <2>1. CASE Goto("expire", subject)
    BY <1>4, <2>1, FitsStand DEF Gate, Goto, Towards, files, history
  <2> QED BY <1>3, <1>4, <2>1 DEF Gate
<1>5. ASSUME NEW e \in index, Drop(e)
      PROVE  /\ index' = index \ {e} /\ Used(index') =< Used(index) /\ Used(index') \in Nat
             /\ UNCHANGED <<budget, fresh, before>>
  BY <1>0, <1>5 DEF Drop
<1>6. CASE Expire
  <2>1. ASSUME NEW e \in index, Drop(e), UNCHANGED <<pc, subject>> PROVE Fits' /\ CommitSoFar'
    <3>1. Fits'
      BY <1>0, <1>5, <1>6, <2>1 DEF Expire, Fits, Towards
    <3> QED BY <1>6, <2>1, <3>1 DEF Expire, CommitSoFar
  <2> QED BY <1>3, <1>6, <2>1 DEF Expire, stale
<1>7. CASE \E what \in Lineages : StoreAhead(what) \/ \E durable \in BOOLEAN : Store(what, durable)
  BY <1>7, FitsStand DEF StoreAhead, Store, reserve, Towards, history
<1>8. ASSUME NEW w \in Writers, WriteFile(w) PROVE Fits' /\ CommitSoFar'
  BY <1>8, FitsStand DEF WriteFile, history
<1>9. ASSUME NEW w \in Writers, Abandon(w), pc \in {"write", "idle", "room", "meta"}
      PROVE  Fits' /\ CommitSoFar'
  <2>1. Fits'
    BY <1>9 DEF Abandon, Fits, Towards
  <2> QED BY <1>9, <2>1 DEF Abandon, CommitSoFar
<1>10. ASSUME NEW w \in Writers, CommitStore(w) PROVE Fits' /\ CommitSoFar'
  <2>1. CASE pc' = "room" /\ before' = index /\ UNCHANGED files
    <3>1. Fits'
      BY <1>10, <2>1 DEF CommitStore, Fits, Towards, files
    <3>2. RoomSoFar(before, index, fresh.bytes)'
      BY <2>1 DEF RoomSoFar, OldestGone, files
    <3> QED BY <2>1, <3>1, <3>2 DEF CommitSoFar
  <2> QED BY <1>9, <1>10, <2>1 DEF CommitStore
<1>11. CASE WriteFailed \/ CancelAhead \/ Refuse
  <2>1. Refuse => subject \in Writers
    BY DEF Refuse, InPlace, Committing
  <2> QED BY <1>9, <1>11, <2>1 DEF WriteFailed, CancelAhead, Refuse, Writers
<1>12. CASE MakeRoom
  <2>1. PICK e \in LeastUsed(index) : Drop(e)
    BY <1>12 DEF MakeRoom
  <2>2. Used(index) + fresh.bytes > budget /\ pc = "room" /\ UNCHANGED <<pc, subject>>
    BY <1>12, OverBudgetIs DEF MakeRoom
  <2>3. index' = index \ {e} /\ Used(index') =< budget /\ UNCHANGED <<budget, fresh, before>>
    BY <1>0, <1>5, <2>1, <2>2 DEF Fits, Towards
  <2>4. RoomSoFar(before, index \ {e}, fresh.bytes)
    BY <2>2, MoreRoom DEF CommitSoFar, DiskTypes
  <2>5. RoomSoFar(before, index \ {e}, fresh.bytes)'
    BY <2>3, <2>4 DEF RoomSoFar
  <2>6. Fits'
    BY <2>2, <2>3 DEF Fits, Towards
  <2> QED BY <2>2, <2>3, <2>4, <2>6 DEF CommitSoFar, RoomSoFar
<1>13. CASE CreateMeta
  <2>0. /\ fresh \in EntryType /\ fresh.bytes \in Nat /\ fresh.bytes =< budget
        /\ pc = "room" /\ pc' = "meta" /\ UNCHANGED <<index, budget, before>>
        /\ fresh'.bytes = fresh.bytes
    BY <1>13, Apart DEF CreateMeta, InPlace, DiskTypes, EntryType, history
  <2>1. index = {} \/ ~(Used(index) + fresh.bytes > budget)
    BY <1>13, OverBudgetIs DEF CreateMeta
  <2>2. Used(index) + fresh.bytes =< budget
    BY <1>0, <2>0, <2>1
  <2>3. Fits'
    BY <2>0, <2>2 DEF Fits, Towards
  <2>4. RoomMade(before, index, fresh.bytes)
    BY <2>0, <2>1 DEF CommitSoFar, RoomMade
  <2> QED BY <2>0, <2>3, <2>4 DEF CommitSoFar, RoomMade, RoomSoFar
<1>14. CASE PushEntry
  <2>0. /\ fresh \in EntryType /\ fresh \notin index /\ fresh.bytes \in Nat /\ fresh # None
        /\ pc = "meta" /\ pc' = (IF fresh.durable THEN "cap" ELSE "fit") /\ subject' = None
        /\ index' = index \cup {fresh} /\ UNCHANGED <<budget, before, fresh>>
    BY <1>14, PushInOrder, Apart DEF PushEntry, EntryType
  <2>1. Used(index') = fresh.bytes + Used(index) /\ index \subseteq before
    BY <2>0, UsedMore DEF DiskTypes, CommitSoFar, RoomMade, RoomSoFar, OldestGone
  <2>2. Used(index') =< budget
    BY <1>0, <2>0, <2>1 DEF Fits
  <2>3. Fits'
    BY <2>0, <2>2 DEF Fits, Towards
  <2>4. RoomMade(before, index, fresh.bytes)
    BY <2>0 DEF CommitSoFar
  <2>5. CapSoFar(index', index')
    <3>1. \A d : CapSoFar(d, d)
      BY DEF CapSoFar, OldestGone
    <3> QED BY <3>1
  <2>6. fresh.durable \in BOOLEAN
    BY <2>0 DEF EntryType
  <2>8. CommitSoFar'
    <3>1. CASE fresh.durable
      BY <2>0, <2>1, <2>4, <2>5, <3>1 DEF CommitSoFar, RoomMade, RoomSoFar
    <3>2. CASE ~fresh.durable
      BY <2>0, <2>1, <2>4, <3>2 DEF CommitSoFar, RoomMade, RoomSoFar
    <3> QED BY <3>1, <3>2
  <2> QED BY <2>3, <2>8
<1>15. CASE TrimDurable
  <2>1. PICK e \in LeastUsed(Durable) : Drop(e)
    BY <1>15 DEF TrimDurable
  <2>2. /\ pc = "cap" /\ UNCHANGED <<pc, subject>> /\ Durable = DurableOf(index) /\ e \in index
        /\ Cardinality(DurableOf(index)) > DurableMax
    BY <1>15 DEF TrimDurable, Durable, DurableOf, LeastUsed
  <2>3. index' = index \ {e} /\ Used(index') =< budget /\ UNCHANGED <<budget, fresh, before>>
    BY <1>0, <1>5, <2>1, <2>2 DEF Fits, Towards
  <2>4. PICK room \in SUBSET before :
          RoomMade(before, room, fresh.bytes) /\ CapSoFar(room \cup {fresh}, index)
    BY <2>2 DEF CommitSoFar
  <2>5. room \cup {fresh} \in SUBSET EntryType /\ fresh.durable
    BY <2>2 DEF DiskTypes, InPlace, CommitSoFar
  <2>6. CapSoFar(room \cup {fresh}, index \ {e})
    BY <2>1, <2>2, <2>4, <2>5, MoreCapped
  <2>7. Fits'
    BY <2>2, <2>3 DEF Fits, Towards
  <2>8. CommitSoFar'
    BY <2>2, <2>3, <2>4, <2>5, <2>6 DEF CommitSoFar, RoomMade, RoomSoFar
  <2> QED BY <2>7, <2>8
<1>16. CASE Committed
  <2>1. /\ pc = "cap" /\ pc' = "fit" /\ subject' = None /\ ~(Cardinality(DurableOf(index)) > DurableMax)
        /\ UNCHANGED <<index, budget, before, fresh>>
    <3>1. Cardinality(DurableOf(index)) =< DurableMax /\ Durable = DurableOf(index)
      BY <1>16 DEF Committed, Durable, DurableOf
    <3>2. Cardinality(DurableOf(index)) \in Nat /\ DurableMax \in Nat
      <4>1. IsFiniteSet(DurableOf(index))
        BY FS_Subset DEF DurableOf, DiskTypes
      <4> QED BY <4>1, FS_CardinalityType, DiskStoreAssumption
    <3> QED BY <1>16, <3>1, <3>2 DEF Committed, Goto, files, history
  <2>2. Fits'
    BY <2>1 DEF Fits, Towards
  <2>3. CommitSoFar'
    BY <2>1 DEF CommitSoFar, RoomMade, RoomSoFar, CapKept
  <2> QED BY <2>2, <2>3
<1>17. CASE Fit
  <2>1. CASE ~OverBudget(0) /\ pc' = "idle" /\ UNCHANGED files
    <3>1. index = {} \/ ~(Used(index) + 0 > budget)
      BY <2>1, OverBudgetIs
    <3>2. Used(index) =< budget
      <4>1. CASE index = {}
        <5>1. Used(index) = 0
          BY <1>0, <4>1
        <5> QED BY <1>0, <5>1
      <4>2. CASE ~(Used(index) + 0 > budget)
        BY <1>0, <4>2
      <4> QED BY <3>1, <4>1, <4>2
    <3>3. Fits'
      BY <2>1, <3>2 DEF Fits, files
    <3> QED BY <2>1, <3>3 DEF CommitSoFar
  <2>2. ASSUME OverBudget(0), NEW e \in index, Drop(e), UNCHANGED <<pc, subject>>, pc = "fit"
        PROVE  Fits' /\ CommitSoFar'
    <3>1. fresh = None
      BY <1>0, <2>2, OverBudgetIs DEF Fits
    <3>2. fresh' = None
      BY <2>2, <3>1, <1>5
    <3> QED BY <2>2, <3>2 DEF Fits, CommitSoFar, Towards
  <2> QED BY <1>0, <1>17, <2>1, <2>2 DEF Fit
<1>18. CASE RemoveEntry
  <2>1. Fits'
    BY <1>0, <1>5, <1>18 DEF RemoveEntry, Using, Fits, Towards
  <2> QED BY <1>18, <2>1 DEF RemoveEntry, CommitSoFar
<1>19. CASE Touch
  <2>1. PICK e \in index : index' = (index \ {e}) \cup {[e EXCEPT !.used = now]}
    BY <1>19 DEF Touch
  <2> DEFINE f == [e EXCEPT !.used = now]
  <2>2. f \in EntryType /\ f.bytes = e.bytes /\ f.id = e.id
    BY DEF DiskTypes, EntryType
  <2>3. f \notin index \ {e}
    BY <2>2 DEF FilesInOrder, NumbersApart
  <2> HIDE DEF f
  <2>4. Used(index') = Used(index)
    BY <2>1, <2>2, <2>3, UsedReplaced DEF DiskTypes, f
  <2>5. Fits'
    BY <1>19, <2>4 DEF Touch, Using, Fits, Towards
  <2> QED BY <1>19, <2>5 DEF Touch, CommitSoFar
<1>20. CASE Touched \/ Missed
  BY <1>20, FitsStand DEF Touched, Missed, Goto, Towards, files, history
<1>21. CASE Crash \/ Open
  BY <1>21 DEF Crash, Open, Fits, CommitSoFar, Towards
<1>22. CASE Sweep
  BY <1>22, FitsStand DEF Sweep, ReadAge, Towards, files, history
<1> QED BY <1>1, <1>2, <1>4, <1>6, <1>7, <1>8, <1>10, <1>11, <1>12, <1>13, <1>14, <1>15, <1>16, <1>17,
           <1>18, <1>19, <1>20, <1>21, <1>22 DEF DiskNext

LEMMA DiskInvAlways == DiskSpec => []DiskInv
<1>1. DiskInit => DiskInv
  BY TypesInit, PlacesInit, FilesInit, DatedInit, FitsInit DEF DiskInv
<1>2. DiskInv /\ [DiskNext]_diskVars => DiskInv'
  <2> SUFFICES ASSUME DiskInv, [DiskNext]_diskVars PROVE DiskInv'
    OBVIOUS
  <2>1. CASE DiskNext
    <3>1. DiskTypes'
      BY <2>1, TypesKept DEF DiskInv, FilesInOrder
    <3>2. InPlace'
      BY <2>1, <3>1, PlacesKept DEF DiskInv, FilesInOrder
    <3>3. FilesInOrder' /\ Dated' /\ Fits' /\ CommitSoFar'
      BY <2>1, <3>1, FilesKept, DatedKept, FitsKept DEF DiskInv
    <3> QED BY <3>1, <3>2, <3>3 DEF DiskInv
  <2>2. CASE UNCHANGED diskVars
    <3>1. /\ UNCHANGED <<dirs, index, next_id, budget, jobs, pc, subject, fresh, doomed, age>>
          /\ UNCHANGED <<max_age, settled, created, now, before, known, unsaved, excused>>
      BY <2>2 DEF diskVars, files, gateVars, history
    <3>2. DiskTypes'
      BY <3>1 DEF DiskInv, DiskTypes
    <3>3. InPlace'
      BY <3>1 DEF DiskInv, InPlace, Towards, Committing, is_open, gate_late
    <3>4. FilesInOrder' /\ Fits' /\ CommitSoFar'
      BY <3>1, FilesStand, FitsStand DEF DiskInv
    <3>5. Dated'
      BY <3>1 DEF DiskInv, Dated
    <3> QED BY <3>2, <3>3, <3>4, <3>5 DEF DiskInv
  <2> QED BY <2>1, <2>2
<1> QED BY <1>1, <1>2, PTL DEF DiskSpec
-----------------------------------------------------------------------------
(* Every indexed entry can be read and is described by its meta file, which *)
(* after a rewrite that failed is half a file or says an earlier use; at    *)
(* rest nothing else is on the volume but what is being written ahead, and  *)
(* the tier is within the budget it was opened with (commit, abandon, trim, *)
(* DiskStore::open), however often the process died.                        *)
THEOREM VolumeIsInOrder == DiskSpec => []VolumeInOrder
<1>1. DiskInv => VolumeInOrder
  <2> SUFFICES ASSUME DiskInv PROVE VolumeInOrder
    OBVIOUS
  <2>1. IndexReadable
    BY DEF DiskInv, FilesInOrder
  <2>2. NoStrayFiles
    <3> SUFFICES ASSUME pc = "idle", ~Going, NEW i \in Unreadable
                 PROVE  jobs["ahead"] # None /\ jobs["ahead"].id = i
      BY DEF NoStrayFiles
    <3>1. i \in Numbers /\ dirs[i] # NoFiles /\ ~Indexed(i) /\ doomed = None
      BY DEF Unreadable, Tier!contains, Indexed, Going
    <3>2. InJob(i)
      BY <3>1, Apart DEF DiskInv, FilesInOrder, Accounted
    <3>3. jobs["engine"] = None
      BY DEF DiskInv, InPlace, Committing
    <3> QED BY <3>2, <3>3 DEF InJob, Writers
  <2>3. WithinBudget
    BY TierUsed DEF DiskInv, Fits, Towards, WithinBudget
  <2> QED BY <2>1, <2>2, <2>3 DEF VolumeInOrder
<1> QED BY <1>1, DiskInvAlways, PTL

(* A process that dies between any two file operations costs the tier no   *)
(* entry but the one whose meta file it was rewriting or whose directory    *)
(* it was deleting, and those whose last touch failed to rewrite theirs; it *)
(* brings back none it deleted before, none as something else and none as   *)
(* used later (load_meta, touch).                                           *)
THEOREM CrashesAreSurvived == DiskSpec => SurvivesCrash
<1>1. DiskInv /\ [DiskNext]_diskVars
      => [pc = "down" /\ pc' = "sweep" =>
            /\ \A k \in known : k \in index' \/ k.id \in excused
            /\ \A e \in index' : e \in known \/ e.id \in excused
            /\ \A e \in index', k \in known : e.id = k.id => EarlierUse(Meta(e), k)]_diskVars
  <2> SUFFICES ASSUME DiskInv, DiskNext, pc = "down", pc' = "sweep"
               PROVE  /\ \A k \in known : k \in index' \/ k.id \in excused
                      /\ \A e \in index' : e \in known \/ e.id \in excused
                      /\ \A e \in index', k \in known : e.id = k.id => EarlierUse(Meta(e), k)
    OBVIOUS
  <2>1. \A w \in Writers : jobs[w] = None
    BY DEF DiskInv, InPlace
  <2>2. Open
    BY <2>1 DEF DiskNext, DeleteFile, Deleted, Begin, Gate, Expire, StoreAhead, Store, WriteFile,
        CommitStore, WriteFailed, CancelAhead, MakeRoom, Refuse, CreateMeta, PushEntry, TrimDurable,
        Committed, Fit, RemoveEntry, Touch, Touched, Missed, Crash, Sweep, ApplyStored, Settle, Tick,
        EngineAt, Using, Writers
  <2>3. /\ \A k \in known : k.id \in excused \/ (Loads(dirs[k.id]) /\ Entry(k.id) = k)
        /\ \A i \in Numbers : Loads(dirs[i]) => i \in excused \/ Entry(i) \in known
        /\ \A k \in known : Loads(dirs[k.id]) => EarlierUse(dirs[k.id].meta, k)
    BY DEF DiskInv, FilesInOrder, LoadsWhatIsKnown
  <2>4. index' = {Entry(i) : i \in Loaded}
    BY <2>2 DEF Open
  <2>5. ASSUME NEW k \in known PROVE k \in index' \/ k.id \in excused
    <3>1. k.id \in Numbers
      BY DEF DiskInv, DiskTypes, EntryType
    <3> QED BY <2>3, <2>4, <3>1 DEF Loaded
  <2>6. ASSUME NEW e \in index' PROVE e \in known \/ e.id \in excused
    <3>1. PICK i \in Loaded : e = Entry(i)
      BY <2>4
    <3>2. e.id = i /\ i \in Numbers /\ Loads(dirs[i])
      BY <3>1 DEF Entry, Loaded
    <3> QED BY <2>3, <3>1, <3>2
  <2>7. ASSUME NEW e \in index', NEW k \in known, e.id = k.id PROVE EarlierUse(Meta(e), k)
    <3>1. PICK i \in Loaded : e = Entry(i)
      BY <2>4
    <3>2. i = k.id /\ Loads(dirs[i])
      BY <2>7, <3>1 DEF Entry, Loaded
    <3>3. EarlierUse(dirs[i].meta, k)
      BY <2>3, <3>2
    <3>4. Meta(e)[1] = dirs[i].meta[1] /\ Meta(e)[2] = dirs[i].meta[2] /\ Meta(e)[3] = dirs[i].meta[3]
      BY <3>1 DEF Entry, Meta
    <3> QED BY <3>3, <3>4 DEF EarlierUse
  <2> QED BY <2>5, <2>6, <2>7
<1> QED BY <1>1, DiskInvAlways, PTL DEF DiskSpec, SurvivesCrash

(* What a commit does as a whole. *)
LEMMA RoomIsTrim ==
    ASSUME NEW all, NEW left, NEW extra, RoomMade(all, left, extra)
    PROVE  left \in Tier!trim(all, extra)
<1> DEFINE V == all \ left
<1>1. V \in SUBSET all /\ left = all \ V /\ left = all \ (all \ left)
  BY DEF RoomMade, RoomSoFar, OldestGone
<1>2. \A v \in V, k \in all \ V : v.used =< k.used
  BY <1>1 DEF RoomMade, RoomSoFar, OldestGone
<1>3. Tier!disk_used_bytes(all \ V) + extra > budget => V = all
  BY <1>1, TierUsed DEF RoomMade
<1>4. V # {} => \E v \in V : /\ \A w \in V : w.used =< v.used
                             /\ Tier!disk_used_bytes((all \ V) \cup {v}) + extra > budget
  <2>1. all = left \/ \E v \in V : /\ \A w \in V : w.used =< v.used
                                   /\ Used(left \cup {v}) + extra > budget
    BY DEF RoomMade, RoomSoFar
  <2> QED BY <1>1, <2>1, TierUsed
<1> HIDE DEF V
<1> QED BY <1>1, <1>2, <1>3, <1>4 DEF Tier!trim, Tier!Trimmed

LEMMA TierCardinality == \A s : Tier!Cardinality(s) = Cardinality(s)
BY DEF Tier!Cardinality, Cardinality

LEMMA CapIsTrim ==
    ASSUME NEW all, NEW left, CapKept(all, left)
    PROVE  left \in Tier!trim_durable(all)
<1> DEFINE V == all \ left
           C == {e \in all : e.durable}
<1>0. C = DurableOf(all)
  BY DEF DurableOf
<1>1. V \in SUBSET C /\ left = all \ V
  BY <1>0 DEF CapKept, CapSoFar
<1>2. C \ V = DurableOf(left) /\ C \ DurableOf(left) = V
  BY <1>1 DEF DurableOf
<1>3. \A v \in V, k \in C \ V : v.used =< k.used
  BY <1>0, <1>2 DEF CapKept, CapSoFar, OldestGone
<1>4. Cardinality({e \in all \ V : e.durable}) > DurableMax => V = C
  <2>1. {e \in all \ V : e.durable} = DurableOf(left)
    BY <1>1 DEF DurableOf
  <2> QED BY <1>2, <2>1 DEF CapKept
<1>5. V # {} => \E v \in V : /\ \A w \in V : w.used =< v.used
                             /\ Cardinality({e \in (all \ V) \cup {v} : e.durable}) > DurableMax
  <2>1. all = left \/ \E v \in V : /\ \A w \in V : w.used =< v.used
                                   /\ Cardinality(DurableOf(left \cup {v})) > DurableMax
    BY DEF CapKept, CapSoFar
  <2>2. \A v : {e \in (all \ V) \cup {v} : e.durable} = DurableOf(left \cup {v})
    BY <1>1 DEF DurableOf
  <2> QED BY <2>1, <2>2
<1>6. Tier!trim_durable(all) =
        {all \ W : W \in {W \in SUBSET C :
            /\ \A v \in W, k \in C \ W : v.used =< k.used
            /\ Cardinality({e \in all \ W : e.durable}) > DurableMax => W = C
            /\ W # {} => \E v \in W : /\ \A w \in W : w.used =< v.used
                                    /\ Cardinality({e \in (all \ W) \cup {v} : e.durable}) > DurableMax}}
  BY TierCardinality DEF Tier!trim_durable, Tier!Trimmed
<1> HIDE DEF V, C
<1> QED BY <1>1, <1>3, <1>4, <1>5, <1>6

(* The commit that runs file by file, with other threads and time between   *)
(* its steps, leaves an index that DiskTier's commit may leave; so the      *)
(* session store, which is modelled with the latter, sees the tier as it is *)
(* (commit, trim, trim_durable).                                            *)
THEOREM CommitsAsTheTier == DiskSpec => CommitAsTier
<1>1. DiskInv /\ [DiskNext]_diskVars
      => [fresh # None /\ pc' = "idle" => index' \in Tier!commit(before, fresh, pc = "fit")]_diskVars
  <2> SUFFICES ASSUME DiskInv, DiskNext, fresh # None, pc' = "idle"
               PROVE  index' \in Tier!commit(before, fresh, pc = "fit")
    OBVIOUS
  <2>1. pc \in {"room", "meta", "cap", "fit"} /\ fresh \in EntryType /\ fresh.bytes =< budget
    BY DEF DiskInv, InPlace, DiskTypes
  <2>2. Refuse \/ (Fit /\ ~OverBudget(0))
    BY <2>1 DEF DiskNext, DeleteFile, Deleted, Begin, Gate, Expire, StoreAhead, Store, WriteFile,
        CommitStore, WriteFailed, CancelAhead, MakeRoom, CreateMeta, PushEntry, TrimDurable,
        Committed, Goto, Fit, RemoveEntry, Touch, Touched, Missed, Crash, Open, Sweep, ApplyStored,
        Settle, Tick, EngineAt, Using, Writers
  <2>3. fresh.bytes \in Nat /\ budget \in Nat /\ ~(fresh.bytes > budget) /\ fresh.durable \in BOOLEAN
    BY <2>1 DEF DiskInv, DiskTypes, EntryType
  <2>4. CASE Refuse
    <3>1. index' = index /\ pc \in {"room", "meta"} /\ ~OverBudget(fresh.bytes)
      BY <2>4 DEF Refuse, EngineAt, Abandon
    <3>2. RoomMade(before, index, fresh.bytes)
      BY <3>1, OverBudgetIs DEF DiskInv, CommitSoFar, RoomMade
    <3>3. index \in Tier!trim(before, fresh.bytes)
      BY <3>2, RoomIsTrim
    <3> QED BY <2>3, <3>1, <3>3 DEF Tier!commit
  <2>5. CASE Fit /\ ~OverBudget(0)
    <3>1. index' = index /\ pc = "fit"
      BY <2>5 DEF Fit, EngineAt, files
    <3>2. PICK room \in SUBSET before :
            /\ RoomMade(before, room, fresh.bytes)
            /\ IF fresh.durable THEN CapKept(room \cup {fresh}, index)
                                ELSE index = room \cup {fresh}
      BY <3>1 DEF DiskInv, CommitSoFar
    <3>3. room \in Tier!trim(before, fresh.bytes)
      BY <3>2, RoomIsTrim
    <3>4. index \in Tier!trim(index, 0)
      <4>1. RoomMade(index, index, 0)
        BY <2>5, OverBudgetIs DEF RoomMade, RoomSoFar, OldestGone
      <4> QED BY <4>1, RoomIsTrim
    <3>5. index \in IF fresh.durable THEN Tier!trim_durable(room \cup {fresh}) ELSE {room \cup {fresh}}
      BY <3>2, CapIsTrim
    <3> DEFINE After(r) == IF fresh.durable THEN Tier!trim_durable(r \cup {fresh}) ELSE {r \cup {fresh}}
    <3>6. index \in UNION {Tier!trim(kept, 0) : kept \in After(room)}
      BY <3>4, <3>5
    <3>7. Tier!commit(before, fresh, TRUE)
            = UNION {UNION {Tier!trim(kept, 0) : kept \in After(r)} : r \in Tier!trim(before, fresh.bytes)}
      BY <2>3 DEF Tier!commit
    <3>8. (pc = "fit") = TRUE
      BY <3>1
    <3> HIDE DEF After
    <3> QED BY <3>1, <3>3, <3>6, <3>7, <3>8
  <2> QED BY <2>2, <2>4, <2>5
<1> QED BY <1>1, DiskInvAlways, PTL DEF DiskSpec, CommitAsTier

(* Before the settings are settled or the deadline has passed nothing      *)
(* expires: the gate, once open, stays open while the pass runs, although   *)
(* the recorder's thread and time go on (ExpiryGate::is_open, expire).      *)
THEOREM ExpiryWaits == DiskSpec => NothingExpiresEarly
<1>1. DiskInv /\ [DiskNext]_diskVars
      => [~settled /\ ~gate_late /\ pc = "expire" => index' = index]_diskVars
  BY DEF DiskInv, InPlace, is_open
<1> QED BY <1>1, DiskInvAlways, PTL DEF DiskSpec, NothingExpiresEarly
=============================================================================
