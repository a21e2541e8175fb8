--------------------------- MODULE SessionSafety_proofs ---------------------------
(***************************************************************************)
(* What the caches of SessionStore hold, whatever the slots, the prompts,  *)
(* the answers and the bounds: a session and an entry are what their       *)
(* tokens say (ContentSound), a request runs on its own prompt             *)
(* (AdmissionSound), the disk tier stays within its bounds (TierSound), a  *)
(* copy written ahead is the session and GPU memory is within its bounds   *)
(* between operations (StoreTidy).  And what no step of it does: lose a    *)
(* session, resume short of what it has, or consume a durable entry.       *)
(*                                                                         *)
(* The argument has four layers.  SInv says what every session, entry and  *)
(* request is, its shape whatever the GPU computed and its content while   *)
(* it computed rightly; DInv, Copied and BudgetInv say the rest, each over *)
(* the layers before it, and first that no two lineages are the same       *)
(* (LineageUnique).                                                        *)
(***************************************************************************)
EXTENDS SessionStore, FiniteSums, SequenceTheorems, TLAPS
-----------------------------------------------------------------------------
(* Lineage ids are unique.                                                 *)

(* What the proof knows of a record: its fields and its lineage. *)
SessionFields ==
    {"tokens", "images", "kv", "rec", "ckpts", "request_start", "answer_start", "last_used",
     "disk", "born", "lineage", "cap"}

EntryFields ==
    {"id", "tokens", "images", "kv", "ckpts", "bytes", "used", "durable", "lineage"}

SessionOK(s) == DOMAIN s = SessionFields /\ s.lineage \in Nat

(* Only the copy of a session shares its lineage. *)
Covers(s, d) == \A e \in d : s.lineage = e.lineage => s.disk = Written(e.id)

Living(s, d, l) == SessionOK(s) /\ s.lineage # 0 /\ s.lineage < l /\ Covers(s, d)

DiskPart(d, i, l) ==
    /\ \A e \in d : /\ DOMAIN e = EntryFields /\ e.id \in Nat /\ e.id < i
                    /\ e.lineage \in Nat /\ e.lineage # 0 /\ e.lineage < l
    /\ \A e, f \in d : e.lineage = f.lineage \/ e.id = f.id => e = f

EntriesPart(en, d, l) ==
    /\ \A s \in en : Living(s, d, l)
    /\ \A s, t \in en : s.lineage = t.lineage => s = t

(* The parked session has no copy yet, and its entry is not indexed. *)
WritingPart(wr, en, d, i, l) ==
    wr # None =>
        /\ DOMAIN wr = {"session", "id", "phase"}
        /\ Living(wr.session, d, l) /\ wr.session.disk = NoCopy
        /\ \A s \in en : s.lineage # wr.session.lineage
        /\ wr.id \in Nat /\ wr.id < i
        /\ \A e \in d : e.id # wr.id

SessionPart(se, en, wr, d, l) ==
    /\ DOMAIN se = Slots
    /\ \A r \in Slots :
         /\ se[r] = NoSession \/ Living(se[r], d, l)
         /\ \A s \in en : s.lineage # se[r].lineage
         /\ wr # None => wr.session.lineage # se[r].lineage
         /\ \A q \in Slots : se[q].lineage = se[r].lineage => q = r \/ se[r] = NoSession

StorePart(en, wr, d, se, i, l) ==
    /\ i \in Nat /\ l \in Nat \ {0}
    /\ DiskPart(d, i, l) /\ EntriesPart(en, d, l)
    /\ WritingPart(wr, en, d, i, l) /\ SessionPart(se, en, wr, d, l)

(* A request that runs has a session. *)
StagePart ==
    /\ stage \in [Slots -> {"none", "acquire", "prefill", "decode", "release"}]
    /\ \A r \in Slots : stage[r] \in {"prefill", "decode", "release"} => session[r].lineage # 0
    /\ pc = "release" => cur \in Slots /\ stage[cur] = "release"

IInv == StorePart(entries, writing, disk, session, next_id, next_lin) /\ StagePart
-----------------------------------------------------------------------------
(* Sessions. *)

LEMMA NewSession ==
    ASSUME NEW cap, NEW lin \in Nat
    PROVE  /\ SessionOK(new_session(cap, lin)) /\ new_session(cap, lin).lineage = lin
           /\ new_session(cap, lin).disk = NoCopy
BY DEF new_session, SessionOK, SessionFields

LEMMA NoSessionOK == SessionOK(NoSession) /\ NoSession.lineage = 0
BY NewSession DEF NoSession

(* What no update of another field changes. *)
Same(t, s) == SessionOK(t) /\ t.lineage = s.lineage /\ t.disk = s.disk

LEMMA FieldsKeep ==
    ASSUME NEW s, SessionOK(s), NEW v
    PROVE  /\ Same([s EXCEPT !.kv = v], s) /\ Same([s EXCEPT !.rec = v], s)
           /\ Same([s EXCEPT !.tokens = v], s) /\ Same([s EXCEPT !.images = v], s)
           /\ Same([s EXCEPT !.ckpts = v], s) /\ Same([s EXCEPT !.born = v], s)
           /\ Same([s EXCEPT !.cap = v], s) /\ Same([s EXCEPT !.last_used = v], s)
           /\ Same([s EXCEPT !.request_start = v], s)
           /\ Same([s EXCEPT !.answer_start = v], s)
BY DEF Same, SessionOK, SessionFields

LEMMA CopyField ==
    ASSUME NEW s, SessionOK(s), NEW v
    PROVE  /\ SessionOK([s EXCEPT !.disk = v]) /\ [s EXCEPT !.disk = v].lineage = s.lineage
           /\ [s EXCEPT !.disk = v].disk = v
BY DEF SessionOK, SessionFields

LEMMA FeedKeeps ==
    ASSUME NEW s, NEW cells, SessionOK(s)
    PROVE  Same(Feed(s, cells), s)
<1> DEFINE computed == IF fault THEN [i \in DOMAIN cells |-> Garbage] ELSE cells
           kv == Prefix(s.kv, Len(s.rec)) \o computed
           rec == s.rec \o computed
           t == [s EXCEPT !.kv = kv]
<1>1. Feed(s, cells) = [t EXCEPT !.rec = rec]
  BY Zenon DEF Feed
<1> HIDE DEF computed, kv, rec
<1>2. Same(t, s)
  BY FieldsKeep
<1> HIDE DEF t
<1>3. Same([t EXCEPT !.rec = rec], t)
  BY <1>2, FieldsKeep DEF Same
<1> QED BY <1>1, <1>2, <1>3 DEF Same

LEMMA Copies == \A i : NoCopy # Written(i) /\ Refused # Written(i)
BY DEF NoCopy, Refused, Written

-----------------------------------------------------------------------------
(* The disk tier. *)

LEMMA TrimWithin ==
    ASSUME NEW d
    PROVE  (\A n : \A t \in trim(d, n) : t \subseteq d) /\ (\A t \in trim_durable(d) : t \subseteq d)
<1>1. ASSUME NEW n, NEW t \in trim(d, n) PROVE t \subseteq d
  BY <1>1, Zenon DEF trim, Trimmed
<1>2. ASSUME NEW t \in trim_durable(d) PROVE t \subseteq d
  BY <1>2, Zenon DEF trim_durable, Trimmed
<1> QED BY <1>1, <1>2

LEMMA CommitWithin ==
    ASSUME NEW d, NEW new, NEW spare, NEW d2 \in commit(d, new, spare)
    PROVE  d2 \subseteq d \cup {new}
<1>1. CASE new.bytes > DiskBudget
  BY <1>1, Zenon DEF commit
<1>2. CASE ~(new.bytes > DiskBudget)
  <2>1. PICK room \in trim(d, new.bytes) :
          d2 \in (IF ~spare THEN {room}
                  ELSE UNION {trim(kept, 0) : kept \in
                        IF new.durable THEN trim_durable(room \cup {new})
                                       ELSE {room \cup {new}}})
    BY <1>2, Zenon DEF commit
  <2>2. room \subseteq d
    BY TrimWithin, Zenon
  <2>3. CASE ~spare
    BY <2>1, <2>2, <2>3
  <2>4. CASE spare
    <3>1. PICK kept \in IF new.durable THEN trim_durable(room \cup {new})
                                       ELSE {room \cup {new}} : d2 \in trim(kept, 0)
      BY <2>1, <2>4, Zenon
    <3>2. kept \subseteq room \cup {new}
      BY <3>1, TrimWithin, Zenon
    <3>3. d2 \subseteq kept
      BY <3>1, TrimWithin, Zenon
    <3> QED BY <2>2, <3>2, <3>3
  <2> QED BY <2>3, <2>4
<1> QED BY <1>1, <1>2

LEMMA StoredWithin ==
    ASSUME NEW d, NEW new, NEW d2 \in Stored(d, new)
    PROVE  d2 \subseteq d \cup {new}
<1>1. CASE d2 = d
  BY <1>1
<1>2. CASE \E spare : d2 \in commit(d, new, spare)
  BY <1>2, CommitWithin, Zenon
<1>3. d2 = d \/ \E spare : d2 \in commit(d, new, spare)
  BY Zenon DEF Stored
<1> QED BY <1>1, <1>2, <1>3

LEMMA NewEntryKeeps ==
    ASSUME NEW s, NEW id
    PROVE  /\ DOMAIN NewEntry(s, id) = EntryFields
           /\ NewEntry(s, id).id = id /\ NewEntry(s, id).lineage = s.lineage
BY DEF NewEntry, EntryFields
-----------------------------------------------------------------------------
(* What each change of one part of the store keeps. *)

LEMMA FewerEntries ==
    ASSUME NEW en, NEW wr, NEW d, NEW se, NEW i, NEW l, StorePart(en, wr, d, se, i, l),
           NEW d2 \in SUBSET d
    PROVE  StorePart(en, wr, d2, se, i, l)
BY DEF StorePart, DiskPart, EntriesPart, WritingPart, SessionPart, Living, Covers

LEMMA FewerSessions ==
    ASSUME NEW en, NEW wr, NEW d, NEW se, NEW i, NEW l, StorePart(en, wr, d, se, i, l),
           NEW en2 \in SUBSET en
    PROVE  StorePart(en2, wr, d, se, i, l)
BY DEF StorePart, EntriesPart, WritingPart, SessionPart

LEMMA NothingParked ==
    ASSUME NEW en, NEW wr, NEW d, NEW se, NEW i, NEW l, StorePart(en, wr, d, se, i, l)
    PROVE  StorePart(en, None, d, se, i, l)
BY DEF StorePart, WritingPart, SessionPart

LEMMA TouchKeeps ==
    ASSUME NEW en, NEW wr, NEW d, NEW se, NEW i, NEW l, StorePart(en, wr, d, se, i, l),
           NEW id, NEW t
    PROVE  StorePart(en, wr, touch(d, id, t), se, i, l)
<1> DEFINE d2 == touch(d, id, t)
<1>1. \A f \in d2 : \E e \in d : /\ f = IF e.id = id THEN [e EXCEPT !.used = t] ELSE e
                                /\ DOMAIN e = EntryFields
  BY DEF touch, StorePart, DiskPart
<1>2. ASSUME NEW e, DOMAIN e = EntryFields
      PROVE  /\ DOMAIN [e EXCEPT !.used = t] = EntryFields
             /\ [e EXCEPT !.used = t].id = e.id /\ [e EXCEPT !.used = t].lineage = e.lineage
  BY <1>2 DEF EntryFields
<1>3. \A f \in d2 : \E e \in d : /\ f = IF e.id = id THEN [e EXCEPT !.used = t] ELSE e
                                /\ DOMAIN f = EntryFields
                                /\ f.id = e.id /\ f.lineage = e.lineage
  <2> TAKE f \in d2
  <2>1. PICK e \in d : /\ f = IF e.id = id THEN [e EXCEPT !.used = t] ELSE e
                       /\ DOMAIN e = EntryFields
    BY <1>1
  <2>2. DOMAIN f = EntryFields /\ f.id = e.id /\ f.lineage = e.lineage
    <3>1. CASE e.id = id
      <4>1. f = [e EXCEPT !.used = t]
        BY <2>1, <3>1
      <4> QED BY <2>1, <4>1, <1>2, Zenon
    <3>2. CASE e.id # id
      BY <2>1, <3>2
    <3> QED BY <3>1, <3>2
  <2> QED BY <2>1, <2>2
<1>4. DiskPart(d2, i, l)
  <2>1. \A f \in d2 : /\ DOMAIN f = EntryFields /\ f.id \in Nat /\ f.id < i
                      /\ f.lineage \in Nat /\ f.lineage # 0 /\ f.lineage < l
    BY <1>3 DEF StorePart, DiskPart
  <2>2. \A f, g \in d2 : f.lineage = g.lineage \/ f.id = g.id => f = g
    BY <1>3 DEF StorePart, DiskPart
  <2> QED BY <2>1, <2>2 DEF DiskPart
<1>5. \A s : Covers(s, d) => Covers(s, d2)
  BY <1>3 DEF Covers
<1>6. wr # None => \A f \in d2 : f.id # wr.id
  BY <1>3 DEF StorePart, WritingPart
<1> HIDE DEF d2
<1>7. \A s : Living(s, d, l) => Living(s, d2, l)
  BY <1>5 DEF Living
<1>8. EntriesPart(en, d2, l) /\ SessionPart(se, en, wr, d2, l)
  BY <1>7 DEF StorePart, EntriesPart, SessionPart
<1>9. WritingPart(wr, en, d2, i, l)
  BY <1>6, <1>7 DEF StorePart, WritingPart
<1> QED BY <1>4, <1>8, <1>9 DEF StorePart, d2

(* A new entry: of no lineage and number on disk, and the copy of whoever  *)
(* shares its lineage.                                                     *)
LEMMA EntryAdded ==
    ASSUME NEW en, NEW wr, NEW d, NEW se, NEW i, NEW l, StorePart(en, wr, d, se, i, l),
           NEW n, DOMAIN n = EntryFields, n.id \in Nat, n.lineage \in Nat \ {0},
           NEW i2 \in Nat, i =< i2, n.id < i2, NEW l2 \in Nat, l =< l2, n.lineage < l2,
           \A e \in d : e.id # n.id /\ e.lineage # n.lineage,
           wr # None => wr.id # n.id /\ wr.session.lineage # n.lineage,
           \A s \in en : s.lineage # n.lineage,
           \A r \in Slots : se[r].lineage # n.lineage,
           NEW d2 \in SUBSET (d \cup {n})
    PROVE  StorePart(en, wr, d2, se, i2, l2)
<1>1. i \in Nat /\ l \in Nat \ {0} /\ l2 \in Nat \ {0}
  BY DEF StorePart
<1>2. \A s : Living(s, d, l) /\ s.lineage # n.lineage => Living(s, d2, l2)
  BY <1>1 DEF Living, Covers, SessionOK
<1>3. DiskPart(d2, i2, l2)
  BY <1>1 DEF StorePart, DiskPart
<1>4. EntriesPart(en, d2, l2)
  BY <1>2 DEF StorePart, EntriesPart
<1>5. WritingPart(wr, en, d2, i2, l2)
  BY <1>1, <1>2 DEF StorePart, WritingPart
<1>6. SessionPart(se, en, wr, d2, l2)
  BY <1>2 DEF StorePart, SessionPart
<1> QED BY <1>1, <1>3, <1>4, <1>5, <1>6 DEF StorePart

(* A session that nobody else holds becomes resident. *)
LEMMA SessionAdded ==
    ASSUME NEW en, NEW wr, NEW d, NEW se, NEW i, NEW l, StorePart(en, wr, d, se, i, l),
           NEW s, Living(s, d, l),
           \A t \in en : t.lineage # s.lineage,
           wr # None => wr.session.lineage # s.lineage,
           \A r \in Slots : se[r].lineage # s.lineage
    PROVE  StorePart(en \cup {s}, wr, d, se, i, l)
BY DEF StorePart, EntriesPart, WritingPart, SessionPart

(* A session that nobody else holds is checked out by slot r, ... *)
LEMMA SessionTaken ==
    ASSUME NEW en, NEW wr, NEW d, NEW se, NEW i, NEW l, StorePart(en, wr, d, se, i, l),
           NEW s, Living(s, d, l), NEW r,
           \A t \in en : t.lineage # s.lineage,
           wr # None => wr.session.lineage # s.lineage,
           \A q \in Slots \ {r} : se[q].lineage # s.lineage
    PROVE  StorePart(en, wr, d, [se EXCEPT ![r] = s], i, l)
BY NoSessionOK DEF StorePart, SessionPart, Living

(* ... and dropped. *)
LEMMA SessionDropped ==
    ASSUME NEW en, NEW wr, NEW d, NEW se, NEW i, NEW l, StorePart(en, wr, d, se, i, l),
           NEW r
    PROVE  StorePart(en, wr, d, [se EXCEPT ![r] = NoSession], i, l)
BY NoSessionOK DEF StorePart, SessionPart, Living, EntriesPart, WritingPart
-----------------------------------------------------------------------------
(* The operations of the store. *)

Now == StorePart(entries, writing, disk, session, next_id, next_lin)

(* finish_write: the parked session is back, with or without its copy. *)
LEMMA Finish ==
    ASSUME Now, writing # None, NEW o \in finish_write
    PROVE  /\ StorePart(entries \cup {o.session}, None, o.disk, session, next_id, next_lin)
           /\ o.session \notin entries
<1> DEFINE w == writing.session
           n == NewEntry(w, writing.id)
<1>1. /\ Living(w, disk, next_lin) /\ w.disk = NoCopy
      /\ \A s \in entries : s.lineage # w.lineage
      /\ writing.id \in Nat /\ writing.id < next_id /\ \A e \in disk : e.id # writing.id
      /\ \A r \in Slots : w.lineage # session[r].lineage
      /\ next_id \in Nat /\ next_lin \in Nat
  BY DEF Now, StorePart, WritingPart, SessionPart
<1>2. StorePart(entries, None, disk, session, next_id, next_lin)
  BY NothingParked DEF Now
<1>3. \A e \in disk : e.lineage # w.lineage
  BY <1>1, Copies DEF Living, Covers
<1>4. ASSUME NEW s, NEW d2, Living(s, d2, next_lin), s.lineage = w.lineage,
             StorePart(entries, None, d2, session, next_id, next_lin)
      PROVE  StorePart(entries \cup {s}, None, d2, session, next_id, next_lin) /\ s \notin entries
  BY <1>1, <1>4, SessionAdded
<1>5. CASE o = [session |-> [w EXCEPT !.disk = Refused], disk |-> disk]
  <2>1. Living([w EXCEPT !.disk = Refused], disk, next_lin)
    BY <1>1, <1>3, CopyField DEF Living, Covers
  <2>2. [w EXCEPT !.disk = Refused].lineage = w.lineage
    BY <1>1, CopyField DEF Living
  <2> QED BY <1>2, <1>4, <1>5, <2>1, <2>2
<1>6. ASSUME NEW spare, NEW d2 \in commit(disk, n, spare),
             o = [session |-> [w EXCEPT !.disk = IF contains(d2, writing.id)
                                                 THEN Written(writing.id) ELSE Refused],
                  disk |-> d2]
      PROVE  /\ StorePart(entries \cup {o.session}, None, o.disk, session, next_id, next_lin)
             /\ o.session \notin entries
  <2> DEFINE c == IF contains(d2, writing.id) THEN Written(writing.id) ELSE Refused
             t == [w EXCEPT !.disk = c]
  <2>1. DOMAIN n = EntryFields /\ n.id = writing.id /\ n.lineage = w.lineage
    BY NewEntryKeeps
  <2>2. d2 \subseteq disk \cup {n}
    BY CommitWithin
  <2>3. t.lineage = w.lineage /\ t.disk = c /\ SessionOK(t)
    BY <1>1, CopyField DEF Living
  <2>4. SessionOK(w) /\ w.lineage # 0 /\ w.lineage < next_lin /\ w.lineage \in Nat
    BY <1>1 DEF Living, SessionOK
  <2> HIDE DEF n, t, w
  <2>5. StorePart(entries, None, d2, session, next_id, next_lin)
    BY <1>1, <1>2, <1>3, <2>1, <2>2, <2>4, EntryAdded
  <2>6. \A e \in d2 : e.lineage = w.lineage => e.id = writing.id
    BY <1>3, <2>1, <2>2
  <2>7. Covers(t, d2)
    BY <2>3, <2>6 DEF Covers, contains
  <2>8. Living(t, d2, next_lin)
    BY <2>3, <2>4, <2>7 DEF Living
  <2>9. o.session = t /\ o.disk = d2
    BY <1>6 DEF t, c, w
  <2> QED BY <1>4, <2>3, <2>5, <2>8, <2>9
<1>7. \/ o = [session |-> [w EXCEPT !.disk = Refused], disk |-> disk]
      \/ \E spare : \E d2 \in commit(disk, n, spare) :
            o = [session |-> [w EXCEPT !.disk = IF contains(d2, writing.id)
                                                THEN Written(writing.id) ELSE Refused],
                 disk |-> d2]
  BY Zenon DEF finish_write
<1> QED BY <1>5, <1>6, <1>7

LEMMA Collect ==
    ASSUME Now, collect_finished
    PROVE  StorePart(entries', writing', disk', session, next_id, next_lin)
<1>1. CASE finished
  <2>1. PICK o \in finish_write : entries' = entries \cup {o.session} /\ disk' = o.disk
    BY <1>1 DEF collect_finished
  <2>2. writing # None /\ writing' = None
    BY <1>1 DEF collect_finished, finished
  <2> QED BY <2>1, <2>2, Finish
<1>2. CASE ~finished
  BY <1>2 DEF collect_finished, Now
<1> QED BY <1>1, <1>2

(* evict: dropped for its copy, spilled, or lost. *)
LEMMA Evicted ==
    ASSUME NEW en, NEW wr, NEW d, StorePart(en, wr, d, session, next_id, next_lin),
           NEW s \in en, evict(s, d)
    PROVE  StorePart(en \ {s}, wr, disk', session, next_id', next_lin)
<1>1. StorePart(en \ {s}, wr, d, session, next_id, next_lin)
  BY FewerSessions
<1>2. CASE has_copy(s, d) /\ disk' = touch(d, s.disk[2], now) /\ next_id' = next_id
  BY <1>1, <1>2, TouchKeeps
<1>3. CASE /\ ~has_copy(s, d)
           /\ disk' \in Stored(expire(d, now), NewEntry(s, next_id)) /\ next_id' = reserve
  <2> DEFINE n == NewEntry(s, next_id)
             fresh == expire(d, now)
  <2>1. DOMAIN n = EntryFields /\ n.id = next_id /\ n.lineage = s.lineage
    BY NewEntryKeeps
  <2>2. fresh \subseteq d
    BY DEF expire
  <2>3. disk' \subseteq fresh \cup {n}
    BY <1>3, StoredWithin
  <2>4. \A e \in fresh : e.lineage # s.lineage
    <3> SUFFICES ASSUME NEW e \in fresh, e.lineage = s.lineage PROVE has_copy(s, d)
      BY <1>3
    <3>1. e \in d /\ s.disk = Written(e.id)
      BY <2>2 DEF StorePart, EntriesPart, Living, Covers
    <3> QED BY <3>1 DEF has_copy, contains, Written
  <2>5. /\ s.lineage \in Nat /\ s.lineage # 0 /\ s.lineage < next_lin
        /\ \A t \in en \ {s} : t.lineage # s.lineage
        /\ wr # None => wr.session.lineage # s.lineage /\ wr.id # next_id
        /\ \A r \in Slots : session[r].lineage # s.lineage
        /\ next_id \in Nat /\ next_lin \in Nat
        /\ \A e \in fresh : e.id # next_id
    BY <2>2 DEF StorePart, EntriesPart, WritingPart, SessionPart, Living, SessionOK, DiskPart
  <2>6. StorePart(en \ {s}, wr, fresh, session, next_id, next_lin)
    BY <1>1, <2>2, FewerEntries
  <2>7. next_id' = next_id + 1
    BY <1>3 DEF reserve
  <2> HIDE DEF n, fresh
  <2> QED BY <2>1, <2>3, <2>4, <2>5, <2>6, <2>7, EntryAdded
<1>4. CASE disk' = d /\ next_id' = next_id
  BY <1>1, <1>4
<1> QED BY <1>2, <1>3, <1>4 DEF evict

LEMMA EvictedLru ==
    ASSUME Now, evict_lru
    PROVE  StorePart(entries', writing', disk', session, next_id', next_lin)
<1>1. CASE /\ writing # None /\ writing' = None /\ entries' = entries
           /\ \E o \in finish_write : evict(o.session, o.disk)
  <2>1. PICK o \in finish_write : evict(o.session, o.disk)
    BY <1>1
  <2>2. /\ StorePart(entries \cup {o.session}, None, o.disk, session, next_id, next_lin)
        /\ o.session \notin entries
    BY <1>1, Finish
  <2>3. StorePart((entries \cup {o.session}) \ {o.session}, None, disk', session, next_id', next_lin)
    BY <2>1, <2>2, Evicted
  <2>4. (entries \cup {o.session}) \ {o.session} = entries
    BY <2>2
  <2> QED BY <1>1, <2>3, <2>4
<1>2. CASE \E s \in entries : evict(s, disk) /\ entries' = entries \ {s} /\ writing' = writing
  BY <1>2, Evicted DEF Now
<1> QED BY <1>1, <1>2 DEF evict_lru
-----------------------------------------------------------------------------
(* The invariant holds at first and after every step. *)

LEMMA InitIInv == Init => IInv
<1> SUFFICES ASSUME Init PROVE IInv
  OBVIOUS
<1>1. StorePart(entries, writing, disk, session, next_id, next_lin)
  BY NoSessionOK DEF Init, StorePart, DiskPart, EntriesPart, WritingPart, SessionPart
<1>2. StagePart
  BY DEF Init, StagePart
<1> QED BY <1>1, <1>2 DEF IInv

(* A step that leaves the requests alone, but for where it goes. *)
LEMMA StageKept ==
    ASSUME StagePart, UNCHANGED <<stage, session>>, pc' # "release"
    PROVE  StagePart'
BY DEF StagePart

(* The lineage counter counts on: nobody has the new number. *)
LEMMA Raised ==
    ASSUME NEW en, NEW wr, NEW d, NEW se, NEW i, NEW l, StorePart(en, wr, d, se, i, l)
    PROVE  /\ StorePart(en, wr, d, se, i, l + 1)
           /\ l \in Nat /\ l # 0 /\ \A e \in d : e.lineage # l
           /\ \A s \in en : s.lineage # l
           /\ wr # None => wr.session.lineage # l
           /\ \A r \in Slots : se[r].lineage # l
<1>1. l \in Nat \ {0}
  BY DEF StorePart
<1>2. \A s : Living(s, d, l) => Living(s, d, l + 1) /\ s.lineage # l
  BY <1>1 DEF Living, SessionOK
<1>3. DiskPart(d, i, l + 1) /\ \A e \in d : e.lineage # l
  BY <1>1 DEF StorePart, DiskPart
<1>4. EntriesPart(en, d, l + 1) /\ \A s \in en : s.lineage # l
  BY <1>2 DEF StorePart, EntriesPart
<1>5. WritingPart(wr, en, d, i, l + 1) /\ (wr # None => wr.session.lineage # l)
  BY <1>2 DEF StorePart, WritingPart
<1>6. SessionPart(se, en, wr, d, l + 1) /\ \A r \in Slots : se[r].lineage # l
  BY <1>1, <1>2, NoSessionOK DEF StorePart, SessionPart
<1> QED BY <1>1, <1>3, <1>4, <1>5, <1>6 DEF StorePart

LEMMA AcquireStep == ASSUME IInv, NEW r \in Slots, NEW p, Acquire(r, p) PROVE IInv'
<1>1. StorePart(entries', writing', disk', session, next_id, next_lin)
  BY Collect DEF Acquire, IInv, Now
<1>2. StorePart(entries, writing, disk, session, next_id, next_lin)'
  BY <1>1 DEF Acquire
<1>3. StagePart'
  BY DEF Acquire, IInv, StagePart
<1> QED BY <1>2, <1>3 DEF IInv

LEMMA ReclaimStep == ASSUME IInv, reclaim_for PROVE IInv'
<1> DEFINE w == writing.session
           t == [w EXCEPT !.disk = NoCopy]
<1>1. UNCHANGED <<disk, session, stage, next_id, next_lin>> /\ pc' = "lookup"
  BY DEF reclaim_for, reqVars
<1>2. CASE writing # None /\ entries' = entries \cup {t} /\ writing' = None
  <2>1. /\ Living(w, disk, next_lin) /\ w.disk = NoCopy
        /\ \A s \in entries : s.lineage # w.lineage
        /\ \A r \in Slots : session[r].lineage # w.lineage
    BY <1>2 DEF IInv, StorePart, WritingPart, SessionPart
  <2>2. t.lineage = w.lineage /\ t.disk = NoCopy /\ SessionOK(t)
    BY <2>1, CopyField DEF Living
  <2>3. Living(t, disk, next_lin)
    BY <2>1, <2>2 DEF Living, Covers
  <2>4. StorePart(entries, None, disk, session, next_id, next_lin)
    BY NothingParked DEF IInv
  <2>5. \A s \in entries : s.lineage # t.lineage
    BY <2>1, <2>2
  <2>6. \A r \in Slots : session[r].lineage # t.lineage
    BY <2>1, <2>2
  <2> HIDE DEF t, w
  <2>7. StorePart(entries \cup {t}, None, disk, session, next_id, next_lin)
    BY <2>3, <2>4, <2>5, <2>6, SessionAdded
  <2> QED BY <1>1, <1>2, <2>7, StageKept DEF IInv
<1>3. CASE UNCHANGED <<entries, writing>>
  BY <1>1, <1>3, StageKept DEF IInv
<1> QED BY <1>2, <1>3 DEF reclaim_for

(* Checkout: the session goes to the slot the engine works for. *)
LEMMA CheckedOut ==
    ASSUME NEW en, NEW d, NEW l, NEW s, NEW reused, NEW cut, StagePart,
           StorePart(en, writing, d, session, next_id, l), Living(s, d, l),
           \A t \in en : t.lineage # s.lineage,
           writing # None => writing.session.lineage # s.lineage,
           \A q \in Slots : session[q].lineage # s.lineage,
           Checkout(s, reused, cut), pc' # "release"
    PROVE  StorePart(en, writing, d, session', next_id, l) /\ StagePart'
<1> DEFINE t1(b) == [s EXCEPT !.request_start = reused]
           t2(b) == [t1(b) EXCEPT !.answer_start = b]
<1>1. PICK b : session' = [session EXCEPT ![cur] = t2(b)]
  BY Zenon DEF Checkout
<1>2. SessionOK(s)
  BY DEF Living
<1>3. Same(t1(b), s)
  BY <1>2, FieldsKeep
<1> HIDE DEF t1
<1>4. Same(t2(b), t1(b))
  BY ONLY ZenonT(30), <1>3, FieldsKeep DEF Same
<1>5. Same(t2(b), s)
  BY <1>3, <1>4 DEF Same
<1> HIDE DEF t2
<1>6. Living(t2(b), d, l) /\ t2(b).lineage = s.lineage
  BY <1>5 DEF Same, Living, Covers
<1>7. StorePart(en, writing, d, session', next_id, l)
  <2>1. \A t \in en : t.lineage # t2(b).lineage
    BY <1>6
  <2>2. writing # None => writing.session.lineage # t2(b).lineage
    BY <1>6
  <2>3. \A q \in Slots \ {cur} : session[q].lineage # t2(b).lineage
    BY <1>6
  <2> QED BY <1>1, <1>6, <2>1, <2>2, <2>3, SessionTaken
<1>8. StagePart'
  <2>1. stage' = [stage EXCEPT ![cur] = "prefill"]
    BY DEF Checkout
  <2>2. DOMAIN session = Slots
    BY DEF StorePart, SessionPart
  <2>3. t2(b).lineage # 0
    BY <1>6 DEF Living
  <2> QED BY <1>1, <2>1, <2>2, <2>3 DEF StagePart
<1> QED BY <1>7, <1>8

LEMMA TakenResident ==
    ASSUME IInv, NEW s \in entries, NEW taken, Same(taken, s), NEW reused, NEW cut,
           TakeResident(s, reused, cut, taken)
    PROVE  IInv'
<1>1. Fresh \subseteq disk
  BY DEF Fresh, expire
<1>2. StorePart(entries \ {s}, writing, Fresh, session, next_id, next_lin)
  BY <1>1, FewerEntries, FewerSessions DEF IInv
<1>3. /\ Living(s, Fresh, next_lin)
      /\ \A t \in entries \ {s} : t.lineage # s.lineage
      /\ writing # None => writing.session.lineage # s.lineage
      /\ \A q \in Slots : session[q].lineage # s.lineage
  BY <1>1 DEF IInv, StorePart, EntriesPart, WritingPart, SessionPart, Living, Covers
<1>4. Living(taken, Fresh, next_lin) /\ taken.lineage = s.lineage
  BY <1>3 DEF Same, Living, Covers
<1>5. Checkout(taken, reused, cut) /\ pc' # "release"
  BY DEF TakeResident
<1>6. StorePart(entries \ {s}, writing, Fresh, session', next_id, next_lin) /\ StagePart'
  <2>1. \A t \in entries \ {s} : t.lineage # taken.lineage
    BY <1>3, <1>4
  <2>2. writing # None => writing.session.lineage # taken.lineage
    BY <1>3, <1>4
  <2>3. \A q \in Slots : session[q].lineage # taken.lineage
    BY <1>3, <1>4
  <2> QED BY <1>2, <1>4, <1>5, <2>1, <2>2, <2>3, CheckedOut DEF IInv
<1> QED BY <1>6 DEF IInv, TakeResident

(* A new state has a new lineage, or takes back that of an entry that is   *)
(* gone from `d` and that no session has.                                  *)
LEMMA TakenNew ==
    ASSUME IInv, NEW s, NEW reused, NEW d, TakeNew(s, reused, d), SessionOK(s),
           StorePart(entries, writing, d, session, next_id, next_lin),
           \/ s.lineage = next_lin
           \/ /\ s.lineage # 0 /\ s.lineage < next_lin
              /\ \A e \in d : e.lineage # s.lineage
              /\ \A t \in entries : t.lineage # s.lineage
              /\ writing # None => writing.session.lineage # s.lineage
              /\ \A q \in Slots : session[q].lineage # s.lineage
    PROVE  IInv'
<1>1. /\ Checkout(s, reused, FALSE) /\ pc' # "release" /\ disk' = d
      /\ UNCHANGED <<entries, writing, next_id>>
      /\ next_lin' = IF s.lineage = next_lin THEN next_lin + 1 ELSE next_lin
  BY DEF TakeNew
<1>2. CASE s.lineage = next_lin
  <2>1. /\ StorePart(entries, writing, d, session, next_id, next_lin + 1)
        /\ next_lin \in Nat /\ next_lin # 0 /\ \A e \in d : e.lineage # next_lin
        /\ \A t \in entries : t.lineage # next_lin
        /\ writing # None => writing.session.lineage # next_lin
        /\ \A q \in Slots : session[q].lineage # next_lin
    BY Raised
  <2>2. Living(s, d, next_lin + 1)
    BY <1>2, <2>1 DEF Living, Covers
  <2>3. StorePart(entries, writing, d, session', next_id, next_lin + 1) /\ StagePart'
    BY <1>1, <1>2, <2>1, <2>2, CheckedOut DEF IInv
  <2> QED BY <1>1, <1>2, <2>3 DEF IInv
<1>3. CASE s.lineage # next_lin
  <2>1. Living(s, d, next_lin)
    BY <1>3 DEF Living, Covers
  <2>2. StorePart(entries, writing, d, session', next_id, next_lin) /\ StagePart'
    BY <1>1, <1>3, <2>1, CheckedOut DEF IInv
  <2> QED BY <1>1, <1>3, <2>2 DEF IInv
<1> QED BY <1>2, <1>3

(* A state that is cut back, forked or read back. *)
LEMMA RebuiltKeeps ==
    ASSUME NEW s, SessionOK(s), NEW a, NEW b, NEW c, NEW d, NEW e
    PROVE  /\ Same([s EXCEPT !.kv = a, !.rec = b, !.tokens = c, !.images = d, !.ckpts = e], s)
           /\ Same([s EXCEPT !.rec = a, !.kv = b, !.tokens = c, !.images = d, !.ckpts = e], s)
<1> DEFINE k1 == [s EXCEPT !.kv = a]     k2 == [k1 EXCEPT !.rec = b]
           r1 == [s EXCEPT !.rec = a]    r2 == [r1 EXCEPT !.kv = b]
           rest(x) == [[[x EXCEPT !.tokens = c] EXCEPT !.images = d] EXCEPT !.ckpts = e]
<1>1. ASSUME NEW x, Same(x, s) PROVE Same(rest(x), s)
  <2> DEFINE x1 == [x EXCEPT !.tokens = c]   x2 == [x1 EXCEPT !.images = d]
  <2>1. Same(x1, x)
    BY <1>1, FieldsKeep DEF Same
  <2> HIDE DEF x1
  <2>2. Same(x2, x1)
    BY <2>1, FieldsKeep DEF Same
  <2> HIDE DEF x2
  <2>3. Same([x2 EXCEPT !.ckpts = e], x2)
    BY <2>2, FieldsKeep DEF Same
  <2>4. rest(x) = [x2 EXCEPT !.ckpts = e]
    BY DEF x2, x1
  <2> QED BY <1>1, <2>1, <2>2, <2>3, <2>4 DEF Same
<1>2. Same(k1, s) /\ Same(r1, s)
  BY FieldsKeep
<1> HIDE DEF k1, r1
<1>3. Same(k2, k1) /\ Same(r2, r1)
  BY <1>2, FieldsKeep DEF Same
<1>4. Same(k2, s) /\ Same(r2, s)
  BY <1>2, <1>3 DEF Same
<1> HIDE DEF k2, r2
<1>5. Same(rest(k2), s) /\ Same(rest(r2), s)
  BY <1>1, <1>4
<1> QED BY <1>5 DEF k1, k2, r1, r2

LEMMA FreshKeeps ==
    ASSUME IInv
    PROVE  Fresh \subseteq disk /\ StorePart(entries, writing, Fresh, session, next_id, next_lin)
<1>1. Fresh \subseteq disk
  BY DEF Fresh, expire
<1> QED BY <1>1, FewerEntries DEF IInv

LEMMA LookupStep == ASSUME IInv, Lookup PROVE IInv'
<1>0. next_lin \in Nat
  BY DEF IInv, StorePart
<1>1. CASE StartFresh
  <2> DEFINE s == new_session(Len(prompt.cells), next_lin)
  <2>1. SessionOK(s) /\ s.lineage = next_lin
    BY <1>0, NewSession
  <2>2. TakeNew(s, 0, Fresh)
    BY <1>1 DEF StartFresh
  <2> HIDE DEF s
  <2> QED BY <2>1, <2>2, FreshKeeps, TakenNew
<1>2. ASSUME NEW s \in entries, Extend(s) PROVE IInv'
  <2>1. Same(s, s)
    BY DEF IInv, StorePart, EntriesPart, Living, Same
  <2> QED BY <1>2, <2>1, TakenResident DEF Extend
<1>3. ASSUME NEW s \in entries, CutBack(s) PROVE IInv'
  <2>1. SessionOK(s)
    BY DEF IInv, StorePart, EntriesPart, Living
  <2>2. \E a, b, c, d, e :
           TakeResident(s, BestGPU, TRUE,
             [s EXCEPT !.rec = a, !.kv = b, !.tokens = c, !.images = d, !.ckpts = e])
    BY <1>3, Zenon DEF CutBack
  <2> QED BY <2>1, <2>2, RebuiltKeeps, TakenResident
<1>4. ASSUME NEW s \in entries, Fork(s) PROVE IInv'
  <2> DEFINE n == new_session(Len(prompt.cells), next_lin)
  <2>1. SessionOK(n) /\ n.lineage = next_lin
    BY <1>0, NewSession
  <2>2. \E a, b, c, d, e :
           TakeNew([n EXCEPT !.kv = a, !.rec = b, !.tokens = c, !.images = d, !.ckpts = e],
                   BestGPU, Fresh)
    BY <1>4, Zenon DEF Fork
  <2>3. PICK a, b, c, d, e :
           TakeNew([n EXCEPT !.kv = a, !.rec = b, !.tokens = c, !.images = d, !.ckpts = e],
                   BestGPU, Fresh)
    BY <2>2
  <2> DEFINE s2 == [n EXCEPT !.kv = a, !.rec = b, !.tokens = c, !.images = d, !.ckpts = e]
  <2> HIDE DEF n
  <2>4. Same(s2, n)
    BY <2>1, RebuiltKeeps, Zenon
  <2>5. TakeNew(s2, BestGPU, Fresh)
    BY <2>3
  <2> HIDE DEF s2
  <2> QED BY <2>1, <2>4, <2>5, FreshKeeps, TakenNew DEF Same
<1>5. ASSUME NEW e \in disk, Restore(e) PROVE IInv'
  <2> DEFINE forked == forks(e, BestDisk)
             lin == IF forked \/ lineage_held(e.lineage) THEN next_lin ELSE e.lineage
             n == new_session(Len(prompt.cells), lin)
             d2 == IF forked THEN touch(Fresh, e.id, now) ELSE remove(Fresh, e.id)
  <2> DEFINE c == CHOOSE k \in e.ckpts : k.pos = BestDisk
             s2 == [n EXCEPT !.kv = Prefix(e.kv, BestDisk), !.rec = c.rec,
                      !.tokens = Prefix(e.tokens, BestDisk),
                      !.images = images_within(e.images, BestDisk),
                      !.ckpts = {[pos |-> BestDisk, decode |-> FALSE, rec |-> c.rec]}]
  <2>1. TakeNew(s2, BestDisk, d2)
    BY <1>5 DEF Restore
  <2>2. e.lineage \in Nat /\ e.lineage # 0 /\ e.lineage < next_lin
    BY DEF IInv, StorePart, DiskPart
  <2>3. SessionOK(n) /\ n.lineage = lin
    BY <1>0, <2>2, NewSession
  <2>4. StorePart(entries, writing, d2, session, next_id, next_lin)
    <3>1. StorePart(entries, writing, touch(Fresh, e.id, now), session, next_id, next_lin)
      BY FreshKeeps, TouchKeeps
    <3>2. remove(Fresh, e.id) \subseteq Fresh
      BY DEF remove
    <3>3. StorePart(entries, writing, remove(Fresh, e.id), session, next_id, next_lin)
      BY <3>2, FreshKeeps, FewerEntries
    <3> QED BY <3>1, <3>3
  <2>5. \/ lin = next_lin
        \/ /\ lin # 0 /\ lin < next_lin
           /\ \A f \in d2 : f.lineage # lin
           /\ \A t \in entries : t.lineage # lin
           /\ writing # None => writing.session.lineage # lin
           /\ \A q \in Slots : session[q].lineage # lin
    <3> SUFFICES ASSUME ~forked, ~lineage_held(e.lineage)
                 PROVE  /\ lin # 0 /\ lin < next_lin
                        /\ \A f \in d2 : f.lineage # lin
                        /\ \A t \in entries : t.lineage # lin
                        /\ writing # None => writing.session.lineage # lin
                        /\ \A q \in Slots : session[q].lineage # lin
      OBVIOUS
    <3>1. lin = e.lineage
      OBVIOUS
    <3>2. \A f \in d2 : f.lineage # e.lineage
      BY FreshKeeps DEF remove, IInv, StorePart, DiskPart
    <3>3. /\ \A t \in entries : t.lineage # e.lineage
          /\ writing # None => writing.session.lineage # e.lineage
      BY DEF lineage_held, parked
    <3>4. \A q \in Slots : session[q].lineage # e.lineage
      BY <2>2, NoSessionOK DEF lineage_held, Busy
    <3> HIDE DEF lin, d2
    <3> QED BY <2>2, <3>1, <3>2, <3>3, <3>4
  <2> HIDE DEF n, d2, lin, forked, c
  <2>6. Same(s2, n)
    BY <2>3, RebuiltKeeps, Zenon
  <2> HIDE DEF s2
  <2> QED BY <2>1, <2>3, <2>4, <2>5, <2>6, TakenNew DEF Same
<1>6. ASSUME NEW e \in disk, DropUnreadable(e) PROVE IInv'
  <2> DEFINE s == new_session(Len(prompt.cells), next_lin)
             d2 == remove(Fresh, e.id)
  <2>1. SessionOK(s) /\ s.lineage = next_lin
    BY <1>0, NewSession
  <2>2. TakeNew(s, 0, d2)
    BY <1>6 DEF DropUnreadable
  <2>3. d2 \subseteq Fresh
    BY DEF remove
  <2>4. StorePart(entries, writing, d2, session, next_id, next_lin)
    BY <2>3, FreshKeeps, FewerEntries
  <2> HIDE DEF s, d2
  <2> QED BY <2>1, <2>2, <2>4, TakenNew
<1> QED BY <1>1, <1>2, <1>3, <1>4, <1>5, <1>6 DEF Lookup

LEMMA RoomSteps ==
    ASSUME IInv, MakeRoom \/ RoomMade \/ TrimReleased \/ Released
    PROVE  IInv'
<1>1. CASE MakeRoom \/ TrimReleased
  <2>1. evict_lru /\ UNCHANGED <<next_lin, session, stage, pc>> /\ pc # "release"
    BY <1>1 DEF MakeRoom, TrimReleased, reqVars
  <2>2. StorePart(entries', writing', disk', session, next_id', next_lin)
    BY <2>1, EvictedLru DEF IInv, Now
  <2> QED BY <2>1, <2>2, StageKept DEF IInv
<1>2. CASE RoomMade \/ Released
  BY <1>2, StageKept DEF RoomMade, Released, storeVars, reqVars, IInv
<1> QED BY <1>1, <1>2

(* A session that runs is fed, or updated, in its slot. *)
LEMMA Worked ==
    ASSUME NEW en, NEW wr, NEW d, NEW i, NEW l, NEW r \in Slots, NEW s,
           StorePart(en, wr, d, session, i, l), session[r].lineage # 0, Same(s, session[r])
    PROVE  StorePart(en, wr, d, [session EXCEPT ![r] = s], i, l)
<1>1. Living(session[r], d, l)
  BY NoSessionOK DEF StorePart, SessionPart
<1>2. Living(s, d, l) /\ s.lineage = session[r].lineage
  BY <1>1 DEF Same, Living, Covers
<1>3. \A t \in en : t.lineage # s.lineage
  BY <1>2 DEF StorePart, SessionPart
<1>4. wr # None => wr.session.lineage # s.lineage
  BY <1>2 DEF StorePart, SessionPart
<1>5. \A q \in Slots \ {r} : session[q].lineage # s.lineage
  BY <1>1, <1>2, NoSessionOK DEF StorePart, SessionPart, Living
<1> QED BY <1>2, <1>3, <1>4, <1>5, SessionTaken

LEMMA Running ==
    ASSUME IInv, NEW r \in Slots, stage[r] \in {"prefill", "decode", "release"}
    PROVE  session[r].lineage # 0 /\ SessionOK(session[r])
BY NoSessionOK DEF IInv, StagePart, StorePart, SessionPart, Living

LEMMA StageMoved ==
    ASSUME IInv, NEW r \in Slots, NEW s, s.lineage # 0, session' = [session EXCEPT ![r] = s],
           NEW place \in {"prefill", "decode", "release"}, stage' = [stage EXCEPT ![r] = place],
           pc' = "release" => cur' = r /\ place = "release"
    PROVE  StagePart'
BY DEF IInv, StagePart, StorePart, SessionPart

LEMMA StoreDurableStep == ASSUME IInv, NEW r \in Slots, StoreDurable(r) PROVE IInv'
<1> DEFINE b == plan[r].boundary
           p == plan[r].prompt
           s == Feed(session[r], SubSeq(p.cells, Len(session[r].rec) + 1, b))
           n == [id |-> next_id, tokens |-> Prefix(tokens(p), b),
                 images |-> images_within(p.images, b), kv |-> Prefix(s.kv, b),
                 ckpts |-> {[pos |-> b, rec |-> s.rec]}, bytes |-> b + 1,
                 used |-> now, durable |-> TRUE, lineage |-> next_lin]
           fresh == expire(disk, now)
<1>1. /\ stage[r] = "prefill" /\ pc = "idle"
      /\ disk' \in Stored(fresh, n) /\ session' = [session EXCEPT ![r] = s]
      /\ next_id' = next_id + 1 /\ next_lin' = next_lin + 1
      /\ UNCHANGED <<entries, writing, stage, pc, cur>>
  BY DEF StoreDurable, reserve
<1>2. DOMAIN n = EntryFields /\ n.id = next_id /\ n.lineage = next_lin
  BY DEF EntryFields
<1>3. Same(s, session[r]) /\ session[r].lineage # 0
  BY <1>1, Running, FeedKeeps
<1> HIDE DEF s
<1>4. fresh \subseteq disk
  BY DEF expire
<1>5. disk' \subseteq fresh \cup {n}
  BY <1>1, StoredWithin
<1> HIDE DEF n, fresh
<1>6. StorePart(entries, writing, fresh, session, next_id, next_lin)
  BY <1>4, FewerEntries DEF IInv
<1>7. StorePart(entries, writing, disk', session, next_id + 1, next_lin + 1)
  <2>1. /\ next_lin \in Nat \ {0} /\ next_id \in Nat /\ \A e \in fresh : e.lineage # next_lin
        /\ \A t \in entries : t.lineage # next_lin
        /\ writing # None => writing.session.lineage # next_lin
        /\ \A q \in Slots : session[q].lineage # next_lin
    BY <1>6, Raised DEF StorePart
  <2>2. \A e \in fresh : e.id # next_id
    BY <2>1, <1>6 DEF StorePart, DiskPart
  <2>3. writing # None => writing.id # next_id
    BY <2>1, <1>6 DEF StorePart, WritingPart
  <2> QED BY <1>2, <1>5, <1>6, <2>1, <2>2, <2>3, EntryAdded
<1>8. StorePart(entries, writing, disk', [session EXCEPT ![r] = s], next_id + 1, next_lin + 1)
  BY <1>3, <1>7, Worked
<1>9. StagePart'
  <2>1. s.lineage # 0
    BY <1>3 DEF Same
  <2> QED BY <1>1, <2>1 DEF IInv, StagePart, StorePart, SessionPart
<1> QED BY <1>1, <1>8, <1>9 DEF IInv

LEMMA FinishPrefillStep == ASSUME IInv, NEW r \in Slots, FinishPrefill(r) PROVE IInv'
<1> DEFINE p == plan[r].prompt
           s == Feed(session[r], SubSeq(p.cells, Len(session[r].rec) + 1, Len(p.cells) - 1))
           k == insert_checkpoint(s.ckpts, Checkpoint(s, FALSE))
           t == [s EXCEPT !.ckpts = k]
<1>1. /\ stage[r] = "prefill" /\ pc' # "release"
      /\ session' = [session EXCEPT ![r] = t] /\ stage' = [stage EXCEPT ![r] = "decode"]
      /\ UNCHANGED <<entries, writing, disk, next_id, next_lin>>
  BY Zenon DEF FinishPrefill, storeVars
<1>2. Same(s, session[r]) /\ session[r].lineage # 0
  BY <1>1, Running, FeedKeeps
<1> HIDE DEF s, k
<1>3. Same(t, s)
  BY <1>2, FieldsKeep DEF Same
<1>4. Same(t, session[r]) /\ t.lineage # 0
  BY <1>2, <1>3 DEF Same
<1> HIDE DEF t
<1>5. StorePart(entries, writing, disk, [session EXCEPT ![r] = t], next_id, next_lin)
  BY <1>2, <1>4, Worked DEF IInv
<1>6. StagePart'
  BY <1>1, <1>4, StageMoved
<1> QED BY <1>1, <1>5, <1>6 DEF IInv

LEMMA GivenBack ==
    ASSUME IInv, NEW r \in Slots, stage[r] \in {"prefill", "decode"}, NEW s,
           Same(s, session[r]), GiveBack(r, s)
    PROVE  IInv'
<1>1. session[r].lineage # 0 /\ s.lineage # 0
  BY Running DEF Same
<1>2. /\ collect_finished /\ session' = [session EXCEPT ![r] = s]
      /\ stage' = [stage EXCEPT ![r] = "release"] /\ pc' = "release" /\ cur' = r
      /\ UNCHANGED <<next_id, next_lin>>
  BY DEF GiveBack
<1>3. StorePart(entries', writing', disk', session, next_id, next_lin)
  BY <1>2, Collect DEF IInv, Now
<1>4. StorePart(entries', writing', disk', [session EXCEPT ![r] = s], next_id, next_lin)
  BY <1>1, <1>3, Worked
<1>5. StagePart'
  BY <1>1, <1>2, StageMoved
<1> QED BY <1>2, <1>4, <1>5 DEF IInv

LEMMA StopPrefillStep == ASSUME IInv, NEW r \in Slots, NEW at, StopPrefill(r, at) PROVE IInv'
<1>1. stage[r] = "prefill" /\ SessionOK(session[r])
  BY Running DEF StopPrefill
<1>2. PICK cells, v : GiveBack(r, [Feed(session[r], cells) EXCEPT !.tokens = v])
  BY Zenon DEF StopPrefill
<1>3. Same(Feed(session[r], cells), session[r])
  BY <1>1, FeedKeeps
<1>4. Same([Feed(session[r], cells) EXCEPT !.tokens = v], Feed(session[r], cells))
  BY <1>3, FieldsKeep DEF Same
<1>5. Same([Feed(session[r], cells) EXCEPT !.tokens = v], session[r])
  BY <1>3, <1>4 DEF Same
<1> QED BY <1>1, <1>2, <1>5, GivenBack

LEMMA AnswerStep == ASSUME IInv, NEW r \in Slots, NEW gen, Answer(r, gen) PROVE IInv'
<1>1. stage[r] = "decode" /\ SessionOK(session[r])
  BY Running DEF Answer
<1>2. PICK cells, a, b, c :
         GiveBack(r, [Feed(session[r], cells) EXCEPT !.tokens = a, !.ckpts = b, !.cap = c])
  BY Zenon DEF Answer
<1> DEFINE s == Feed(session[r], cells)
           s1 == [s EXCEPT !.tokens = a]
           s2 == [s1 EXCEPT !.ckpts = b]
           s3 == [s2 EXCEPT !.cap = c]
<1>3. GiveBack(r, s3)
  BY <1>2
<1>4. Same(s, session[r])
  BY <1>1, FeedKeeps
<1> HIDE DEF s
<1>5. Same(s1, s)
  BY <1>4, FieldsKeep DEF Same
<1> HIDE DEF s1
<1>6. Same(s2, s1)
  BY <1>5, FieldsKeep DEF Same
<1> HIDE DEF s2
<1>7. Same(s3, s2)
  BY <1>6, FieldsKeep DEF Same
<1> HIDE DEF s3
<1>8. Same(s3, session[r])
  BY <1>4, <1>5, <1>6, <1>7 DEF Same
<1> QED BY <1>1, <1>3, <1>8, GivenBack

LEMMA FailStep == ASSUME IInv, NEW r \in Slots, Fail(r) PROVE IInv'
<1>1. /\ session' = [session EXCEPT ![r] = NoSession] /\ stage' = [stage EXCEPT ![r] = "none"]
      /\ pc = "idle" /\ UNCHANGED <<entries, writing, disk, next_id, next_lin, pc>>
  BY DEF Fail, storeVars
<1>2. StorePart(entries, writing, disk, [session EXCEPT ![r] = NoSession], next_id, next_lin)
  BY SessionDropped DEF IInv
<1>3. StagePart'
  BY <1>1 DEF IInv, StagePart, StorePart, SessionPart
<1> QED BY <1>1, <1>2, <1>3 DEF IInv

LEMMA KeptKeeps == ASSUME NEW s, NEW images, SessionOK(s) PROVE Same(Kept(s, images), s)
<1>1. PICK a, b, c :
         Kept(s, images) = [s EXCEPT !.images = a, !.born = FALSE, !.ckpts = b, !.last_used = c]
  BY Zenon DEF Kept
<1> DEFINE s1 == [s EXCEPT !.images = a]
           s2 == [s1 EXCEPT !.born = FALSE]
           s3 == [s2 EXCEPT !.ckpts = b]
           s4 == [s3 EXCEPT !.last_used = c]
<1>2. Kept(s, images) = s4
  BY <1>1
<1>3. Same(s1, s)
  BY FieldsKeep
<1> HIDE DEF s1
<1>4. Same(s2, s1)
  BY <1>3, FieldsKeep DEF Same
<1> HIDE DEF s2
<1>5. Same(s3, s2)
  BY <1>4, FieldsKeep DEF Same
<1> HIDE DEF s3
<1>6. Same(s4, s3)
  BY <1>5, FieldsKeep DEF Same
<1> HIDE DEF s4
<1> QED BY <1>2, <1>3, <1>4, <1>5, <1>6 DEF Same

LEMMA ReleaseStep == ASSUME IInv, Release PROVE IInv'
<1> DEFINE s == session[cur]
           o == DiscardCopy(s)
           k == Kept(o.session, plan[cur].prompt.images)
<1>1. cur \in Slots /\ stage[cur] = "release"
  BY DEF Release, IInv, StagePart
<1>2. /\ session' = [session EXCEPT ![cur] = NoSession]
      /\ stage' = [stage EXCEPT ![cur] = "none"]
      /\ pc' # "release" /\ UNCHANGED <<writing, next_id, next_lin>>
      /\ \/ UNCHANGED <<entries, disk>>
         \/ disk' = o.disk /\ entries' = entries \cup {k}
  BY DEF Release
<1>3. s.lineage # 0 /\ SessionOK(s)
  BY <1>1, Running
<1>4. StagePart'
  <2>1. stage' \in [Slots -> {"none", "acquire", "prefill", "decode", "release"}]
    BY <1>1, <1>2 DEF IInv, StagePart
  <2>2. \A q \in Slots : stage'[q] \in {"prefill", "decode", "release"} => session'[q].lineage # 0
    BY <1>1, <1>2 DEF IInv, StagePart, StorePart, SessionPart
  <2> QED BY <1>2, <2>1, <2>2 DEF StagePart
<1>5. StorePart(entries, writing, disk, session', next_id, next_lin)
  BY <1>2, SessionDropped DEF IInv
<1>6. CASE UNCHANGED <<entries, disk>>
  BY <1>2, <1>4, <1>5, <1>6 DEF IInv
<1>7. CASE disk' = o.disk /\ entries' = entries \cup {k}
  <2>1. o.session = [s EXCEPT !.disk = NoCopy]
    BY DEF DiscardCopy
  <2>2. SessionOK(o.session) /\ o.session.lineage = s.lineage /\ o.session.disk = NoCopy
    BY <1>3, <2>1, CopyField
  <2>3. o.disk = IF s.disk[1] = "written" THEN remove(disk, s.disk[2]) ELSE disk
    BY DEF DiscardCopy
  <2>4. Living(s, disk, next_lin)
    BY <1>1, <1>3, NoSessionOK DEF IInv, StorePart, SessionPart
  <2>5. o.disk \subseteq disk
    BY <2>3 DEF remove
  <2>6. \A e \in o.disk : e.lineage # s.lineage
    <3> SUFFICES ASSUME NEW e \in o.disk, e.lineage = s.lineage PROVE FALSE
      OBVIOUS
    <3>1. s.disk = Written(e.id)
      BY <2>4, <2>5 DEF Living, Covers
    <3>2. s.disk[1] = "written" /\ s.disk[2] = e.id
      BY <3>1 DEF Written
    <3> QED BY <2>3, <3>2 DEF remove
  <2> HIDE DEF o
  <2>7. Same(k, o.session)
    BY <2>2, KeptKeeps
  <2> HIDE DEF k
  <2>8. Living(k, o.disk, next_lin) /\ k.lineage = s.lineage
    BY <2>2, <2>4, <2>6, <2>7 DEF Same, Living, Covers
  <2>9. StorePart(entries, writing, o.disk, session', next_id, next_lin)
    BY <1>5, <2>5, FewerEntries
  <2>10. \A t \in entries : t.lineage # k.lineage
    BY <1>1, <2>8 DEF IInv, StorePart, SessionPart
  <2>11. writing # None => writing.session.lineage # k.lineage
    BY <1>1, <2>8 DEF IInv, StorePart, SessionPart
  <2>12. \A q \in Slots : session'[q].lineage # k.lineage
    BY <1>1, <1>2, <1>3, <2>8, NoSessionOK DEF IInv, StorePart, SessionPart
  <2>13. StorePart(entries \cup {k}, writing, o.disk, session', next_id, next_lin)
    BY <2>8, <2>9, <2>10, <2>11, <2>12, SessionAdded
  <2> QED BY <1>2, <1>4, <1>7, <2>13 DEF IInv
<1> QED BY <1>2, <1>6, <1>7

LEMMA RefreshedKeeps ==
    ASSUME IInv
    PROVE  StorePart(Refreshed, writing, disk, session, next_id, next_lin)
<1> DEFINE now_of(s) == IF s.disk[1] = "written" /\ ~contains(disk, s.disk[2])
                        THEN [s EXCEPT !.disk = NoCopy] ELSE s
<1>1. Refreshed = {now_of(s) : s \in entries}
  BY Zenon DEF Refreshed
<1>2. ASSUME NEW s \in entries
      PROVE  Living(now_of(s), disk, next_lin) /\ now_of(s).lineage = s.lineage
  <2>1. Living(s, disk, next_lin)
    BY DEF IInv, StorePart, EntriesPart
  <2>2. CASE s.disk[1] = "written" /\ ~contains(disk, s.disk[2])
    <3>1. now_of(s) = [s EXCEPT !.disk = NoCopy]
      BY <2>2
    <3>2. SessionOK(now_of(s)) /\ now_of(s).lineage = s.lineage
      BY <2>1, <3>1, CopyField DEF Living
    <3>3. \A e \in disk : e.lineage # s.lineage
      <4> SUFFICES ASSUME NEW e \in disk, e.lineage = s.lineage PROVE FALSE
        OBVIOUS
      <4>1. s.disk = Written(e.id)
        BY <2>1 DEF Living, Covers
      <4> QED BY <2>2, <4>1 DEF Written, contains
    <3> HIDE DEF now_of
    <3> QED BY <2>1, <3>2, <3>3 DEF Living, Covers
  <2>3. CASE ~(s.disk[1] = "written" /\ ~contains(disk, s.disk[2]))
    BY <2>1, <2>3
  <2> QED BY <2>2, <2>3
<1> HIDE DEF now_of
<1>3. EntriesPart(Refreshed, disk, next_lin)
  BY <1>1, <1>2 DEF EntriesPart, IInv, StorePart
<1>4. WritingPart(writing, Refreshed, disk, next_id, next_lin)
  BY <1>1, <1>2 DEF WritingPart, IInv, StorePart
<1>5. SessionPart(session, Refreshed, writing, disk, next_lin)
  BY <1>1, <1>2 DEF SessionPart, IInv, StorePart
<1> QED BY <1>3, <1>4, <1>5 DEF IInv, StorePart

LEMMA NumberTaken ==
    ASSUME NEW en, NEW wr, NEW d, NEW se, NEW i, NEW l, StorePart(en, wr, d, se, i, l)
    PROVE  StorePart(en, wr, d, se, i + 1, l)
BY DEF StorePart, DiskPart, WritingPart

LEMMA StartWriteStep == ASSUME IInv, NEW s \in Refreshed, StartWrite(s) PROVE IInv'
<1> DEFINE rest == Refreshed \ {s}
           t == [s EXCEPT !.disk = Refused]
           w == [session |-> s, id |-> next_id, phase |-> "running"]
           fresh == expire(disk, now)
<1>1. UNCHANGED <<next_lin, session, stage>> /\ pc' # "release" /\ s.disk = NoCopy
  BY DEF StartWrite, reqVars, ToWriteAhead, needs_write
<1>2. StagePart'
  BY <1>1, StageKept DEF IInv
<1>3. StorePart(Refreshed, writing, disk, session, next_id, next_lin)
  BY RefreshedKeeps
<1>4. /\ Living(s, disk, next_lin) /\ \A u \in rest : u.lineage # s.lineage
      /\ writing # None => writing.session.lineage # s.lineage
      /\ \A q \in Slots : session[q].lineage # s.lineage
  BY <1>3 DEF StorePart, EntriesPart, WritingPart, SessionPart
<1>5. StorePart(rest, writing, disk, session, next_id, next_lin)
  BY <1>3, FewerSessions
<1>6. fresh \subseteq disk
  BY DEF expire
<1>7. CASE /\ entries' = rest /\ writing' = w /\ disk' = fresh /\ next_id' = reserve
  <2>1. StorePart(rest, None, fresh, session, next_id + 1, next_lin)
    BY <1>5, <1>6, NothingParked, FewerEntries, NumberTaken
  <2>2. DOMAIN w = {"session", "id", "phase"} /\ w.session = s /\ w.id = next_id
    OBVIOUS
  <2>3. Living(s, fresh, next_lin)
    BY <1>4, <1>6 DEF Living, Covers
  <2>4. next_id \in Nat /\ \A e \in fresh : e.id # next_id
    BY <1>3, <1>6 DEF StorePart, DiskPart
  <2> HIDE DEF w, fresh, rest
  <2>5. WritingPart(w, rest, fresh, next_id + 1, next_lin)
    BY <1>1, <1>4, <2>2, <2>3, <2>4 DEF WritingPart
  <2>6. SessionPart(session, rest, w, fresh, next_lin)
    BY <1>4, <2>1, <2>2 DEF StorePart, SessionPart
  <2>7. StorePart(rest, w, fresh, session, next_id + 1, next_lin)
    BY <2>1, <2>5, <2>6 DEF StorePart
  <2> QED BY <1>1, <1>2, <1>7, <2>7 DEF IInv, reserve
<1>8. CASE entries' = rest \cup {t} /\ UNCHANGED <<writing, disk, next_id>>
  <2>1. SessionOK(t) /\ t.lineage = s.lineage
    BY <1>4, CopyField DEF Living
  <2>2. Living(t, disk, next_lin)
    BY <1>1, <1>4, <2>1, Copies DEF Living, Covers
  <2> HIDE DEF t, rest
  <2>3. \A u \in rest : u.lineage # t.lineage
    BY <1>4, <2>1
  <2>4. writing # None => writing.session.lineage # t.lineage
    BY <1>4, <2>1
  <2>5. \A q \in Slots : session[q].lineage # t.lineage
    BY <1>4, <2>1
  <2>6. StorePart(rest \cup {t}, writing, disk, session, next_id, next_lin)
    BY <1>5, <2>2, <2>3, <2>4, <2>5, SessionAdded
  <2> QED BY <1>1, <1>2, <1>8, <2>6 DEF IInv
<1>9. CASE entries' = Refreshed /\ writing' = writing /\ disk' = fresh /\ next_id' = reserve
  <2>1. StorePart(Refreshed, writing, fresh, session, next_id + 1, next_lin)
    BY <1>3, <1>6, FewerEntries, NumberTaken
  <2> QED BY <1>1, <1>2, <1>9, <2>1 DEF IInv, reserve
<1> QED BY <1>7, <1>8, <1>9 DEF StartWrite

LEMMA AheadSteps ==
    ASSUME IInv, CollectAhead \/ NothingToWrite \/ WriterEnds
    PROVE  IInv'
<1>1. CASE CollectAhead
  <2>1. StorePart(entries', writing', disk', session, next_id, next_lin)
    BY <1>1, Collect DEF CollectAhead, IInv, Now
  <2> QED BY <1>1, <2>1, StageKept DEF CollectAhead, reqVars, IInv
<1>2. CASE NothingToWrite
  BY <1>2, RefreshedKeeps, StageKept DEF NothingToWrite, reqVars, IInv
<1>3. CASE WriterEnds
  <2>1. /\ writing # None /\ UNCHANGED <<entries, disk, session, next_id, next_lin, stage, pc, cur>>
        /\ \E result : writing' = [writing EXCEPT !.phase = result]
    BY <1>3 DEF WriterEnds, reqVars
  <2>2. DOMAIN writing = {"session", "id", "phase"}
    BY <2>1 DEF IInv, StorePart, WritingPart
  <2>3. /\ DOMAIN writing' = {"session", "id", "phase"}
        /\ writing'.session = writing.session /\ writing'.id = writing.id
    BY <2>1, <2>2
  <2>4. WritingPart(writing', entries, disk, next_id, next_lin)
    BY <2>1, <2>3 DEF IInv, StorePart, WritingPart
  <2>5. SessionPart(session, entries, writing', disk, next_lin)
    BY <2>1, <2>3 DEF IInv, StorePart, SessionPart
  <2>6. StagePart'
    BY <2>1 DEF IInv, StagePart
  <2> QED BY <2>1, <2>4, <2>5, <2>6 DEF IInv, StorePart
<1> QED BY <1>1, <1>2, <1>3

LEMMA NewStoreStep ==
    ASSUME IInv, NewStore, next_lin' \in Nat \ {0}, \A e \in disk' : e.lineage < next_lin'
    PROVE  IInv'
<1>1. /\ entries' = {} /\ writing' = None /\ disk' \subseteq disk
      /\ next_id' \in Nat /\ \A e \in disk' : e.id < next_id'
      /\ session' = [r \in Slots |-> NoSession] /\ stage' = [r \in Slots |-> "none"]
      /\ pc' = "idle"
  BY DEF NewStore, expire, IInv, StorePart
<1>2. DiskPart(disk', next_id', next_lin')
  BY <1>1 DEF IInv, StorePart, DiskPart
<1>3. /\ EntriesPart(entries', disk', next_lin')
      /\ WritingPart(writing', entries', disk', next_id', next_lin')
      /\ SessionPart(session', entries', writing', disk', next_lin')
  BY <1>1 DEF EntriesPart, WritingPart, SessionPart
<1>4. StagePart'
  BY <1>1 DEF StagePart
<1> QED BY <1>1, <1>2, <1>3, <1>4 DEF IInv, StorePart

LEMMA LifeSteps ==
    ASSUME IInv,
           \/ Unload \/ UnloadJoin \/ (\E s \in entries : SpillOne(s)) \/ Reload
           \/ Fault \/ Recover \/ Crash \/ Tick \/ Terminated
    PROVE  IInv'
<1>0. next_lin \in Nat \ {0} /\ \A e \in disk : e.lineage < next_lin
  BY DEF IInv, StorePart, DiskPart
<1>1. CASE Unload
  BY <1>1, StageKept DEF Unload, storeVars, reqVars, IInv
<1>2. CASE UnloadJoin
  <2>1. StorePart(entries', writing', disk', session, next_id, next_lin)
    BY <1>2, Collect DEF UnloadJoin, IInv, Now
  <2> QED BY <1>2, <2>1, StageKept DEF UnloadJoin, reqVars, IInv
<1>3. ASSUME NEW s \in entries, SpillOne(s) PROVE IInv'
  <2>1. StorePart(entries \ {s}, writing, disk', session, next_id', next_lin)
    BY <1>3, Evicted DEF SpillOne, IInv
  <2> QED BY <1>3, <2>1, StageKept DEF SpillOne, reqVars, IInv
<1>4. CASE Reload \/ Recover
  <2>1. NewStore /\ next_lin' = next_lin
    BY <1>4 DEF Reload, Recover
  <2>2. disk' \subseteq disk
    BY <2>1 DEF NewStore, expire
  <2> QED BY <1>0, <2>1, <2>2, NewStoreStep
<1>5. CASE Crash
  BY <1>0, <1>5, NewStoreStep DEF Crash
<1>6. CASE Fault \/ Tick
  BY <1>6 DEF Fault, Tick, storeVars, reqVars, IInv, StagePart
<1>7. CASE Terminated
  BY <1>7 DEF Terminated, vars, storeVars, reqVars, IInv, StagePart
<1> QED BY <1>1, <1>2, <1>3, <1>4, <1>5, <1>6, <1>7

LEMMA NextIInv == IInv /\ [Next]_vars => IInv'
<1> SUFFICES ASSUME IInv, [Next]_vars PROVE IInv'
  OBVIOUS
<1>1. ASSUME NEW r \in Slots, Request(r) PROVE IInv'
  BY <1>1, AcquireStep, StoreDurableStep, FinishPrefillStep, FailStep, StopPrefillStep,
     AnswerStep, Zenon DEF Request
<1>2. CASE Inside
  BY <1>2, ReclaimStep, LookupStep, RoomSteps, ReleaseStep, AheadSteps, LifeSteps, Zenon DEF Inside
<1>3. ASSUME NEW s \in Refreshed, StartWrite(s) PROVE IInv'
  BY <1>3, StartWriteStep
<1>4. CASE UNCHANGED vars
  BY <1>4 DEF vars, storeVars, reqVars, IInv, StagePart
<1>5. CASE Next
  BY <1>1, <1>2, <1>3, <1>5, RoomSteps, AheadSteps, LifeSteps, ReleaseStep, Zenon DEF Next
<1> QED BY <1>4, <1>5

LEMMA Invariance == Spec => []IInv
BY InitIInv, NextIInv, PTL DEF Spec

LEMMA IInvUnique == IInv => LineageUnique
<1> SUFFICES ASSUME IInv PROVE LineageUnique
  OBVIOUS
<1>1. \A s, t \in entries \cup parked : s.lineage = t.lineage => s = t
  BY DEF IInv, StorePart, EntriesPart, WritingPart, parked
<1>2. writing # None => writing.session \notin entries
  BY DEF IInv, StorePart, WritingPart
<1>3. ASSUME NEW r \in Busy
      PROVE  /\ \A s \in entries \cup parked : s.lineage # session[r].lineage
             /\ \A q \in Busy \ {r} : session[q].lineage # session[r].lineage
  BY DEF Busy, parked, IInv, StorePart, SessionPart
<1>4. \A e, f \in disk : e.lineage = f.lineage \/ e.id = f.id => e = f
  BY DEF IInv, StorePart, DiskPart
<1>5. ASSUME NEW e \in disk
      PROVE  /\ \A s \in entries \cup parked : s.lineage = e.lineage => s.disk = Written(e.id)
             /\ \A r \in Busy : session[r].lineage = e.lineage => session[r].disk = Written(e.id)
  BY DEF Busy, parked, IInv, StorePart, EntriesPart, WritingPart, SessionPart, Living, Covers
<1> QED BY <1>1, <1>2, <1>3, <1>4, <1>5 DEF LineageUnique

(* Lineage ids are unique among the sessions that live, among the disk     *)
(* entries, and but for a session and its copy between the two, through    *)
(* every acquire, fork, restore, spill, write ahead, unload and restart.   *)
THEOREM LineagesAreUnique == Spec => []LineageUnique
BY Invariance, IInvUnique, PTL
-----------------------------------------------------------------------------
(* The bytes of a set of sessions.                                          *)
LEMMA BytesLink ==
    ASSUME NEW S, IsFiniteSet(S), NEW w, \A x \in S : w[x] = bytes(x), NEW it, IsSum(it, w, S)
    PROVE  MapThenSumSet(bytes, S) = it[S]
<1> DEFINE P(f) == f = [s \in SUBSET S |-> IF s = {} THEN 0 ELSE bytes(AnyOf(s)) + f[s \ {AnyOf(s)}]]
           c == CHOOSE f : P(f)
<1>1. MapThenSumSet(bytes, S) = c[S]
  BY DEF MapThenSumSet, MapThenFoldSet, AnyOf
<1>2. P(it)
  BY PickIn DEF IsSum
<1>3. P(c)
  BY <1>2
<1> HIDE DEF c
<1>4. IsSum(c, w, S)
  BY <1>3, PickIn DEF IsSum
<1>5. c[S] = it[S]
  BY <1>4, SumAgree
<1> QED BY <1>1, <1>5

LEMMA RoomLink ==
    ASSUME NEW S, IsFiniteSet(S), NEW w, \A r \in S : w[r] = bytes(session[r]),
           NEW it, IsSum(it, w, S)
    PROVE  MapThenSumSet(LAMBDA r : bytes(session[r]), S) = it[S]
<1> DEFINE P(f) == f = [s \in SUBSET S |-> IF s = {} THEN 0
                                           ELSE bytes(session[AnyOf(s)]) + f[s \ {AnyOf(s)}]]
           c == CHOOSE f : P(f)
<1>1. MapThenSumSet(LAMBDA r : bytes(session[r]), S) = c[S]
  BY DEF MapThenSumSet, MapThenFoldSet, AnyOf
<1>2. P(it)
  BY PickIn DEF IsSum
<1>3. P(c)
  BY <1>2
<1> HIDE DEF c
<1>4. IsSum(c, w, S)
  BY <1>3, PickIn DEF IsSum
<1>5. c[S] = it[S]
  BY <1>4, SumAgree
<1> QED BY <1>1, <1>5

Bytes(S) == MapThenSumSet(bytes, S)

LEMMA BytesOfSubset ==
    ASSUME NEW S, IsFiniteSet(S), NEW w, \A x \in S : w[x] = bytes(x), NEW it, IsSum(it, w, S),
           NEW t \in SUBSET S
    PROVE  Bytes(t) = it[t]
<1>1. IsFiniteSet(t)
  BY FS_Subset
<1>2. PICK jt : IsSum(jt, w, t)
  BY <1>1, SumExists
<1>3. Bytes(t) = jt[t]
  BY <1>1, <1>2, BytesLink DEF Bytes
<1>4. jt[t] = it[t]
  <2>1. t \in (SUBSET t) \cap (SUBSET S)
    OBVIOUS
  <2> QED BY ONLY <1>1, <1>2, <2>1, SumAgree, IsSum(it, w, S)
<1> QED BY <1>3, <1>4

LEMMA BytesFacts ==
    ASSUME NEW S, IsFiniteSet(S), \A x \in S : bytes(x) \in Nat
    PROVE  /\ Bytes(S) \in Nat
           /\ \A x \in S : Bytes(S) = bytes(x) + Bytes(S \ {x})
           /\ \A t \in SUBSET S : Bytes(t) =< Bytes(S)
<1>1. PICK w : \A x \in S : w[x] = bytes(x)
  <2> WITNESS [x \in S |-> bytes(x)]
  <2> QED OBVIOUS
<1>2. PICK it : IsSum(it, w, S)
  BY SumExists
<1>3. \A t \in SUBSET S : Bytes(t) = it[t]
  BY <1>1, <1>2, BytesOfSubset
<1>0. \A x \in S : w[x] \in Nat
  BY <1>1
<1>4. SumLaw(it, w, S)
  BY <1>0, <1>2, SumWithout
<1>5. \A t \in SUBSET S : it[t] =< it[S]
  BY <1>0, <1>4, SumFewer
<1>6. /\ S \in SUBSET S /\ {} \in SUBSET S
      /\ \A x \in S : S \ {x} \in SUBSET S
  OBVIOUS
<1>7. /\ it[S] \in Nat /\ it[{}] = 0 /\ \A x \in S : it[S] = w[x] + it[S \ {x}]
  BY <1>4, <1>6 DEF SumLaw
<1>8. \A x \in S : Bytes(S) = bytes(x) + Bytes(S \ {x})
  BY <1>1, <1>3, <1>6, <1>7
<1> QED BY <1>3, <1>5, <1>6, <1>7, <1>8

LEMMA BytesRenamed ==
    ASSUME NEW A, IsFiniteSet(A), NEW B, NEW h \in [A -> B], B = {h[x] : x \in A},
           \A x, y \in A : h[x] = h[y] => x = y,
           \A x \in A : bytes(x) \in Nat /\ bytes(h[x]) = bytes(x)
    PROVE  IsFiniteSet(B) /\ Cardinality(B) = Cardinality(A) /\ Bytes(B) = Bytes(A)
<1>1. h \in Bijection(A, B)
  BY DEF Bijection, Injection, Surjection, IsInjective
<1>2. IsFiniteSet(B) /\ Cardinality(B) = Cardinality(A)
  BY <1>1, FS_Bijection DEF ExistsBijection
<1>9. PICK w : \A x \in A : w[x] = bytes(x)
  <2> WITNESS [x \in A |-> bytes(x)]
  <2> QED OBVIOUS
<1>10. PICK v : \A y \in B : v[y] = bytes(y)
  <2> WITNESS [y \in B |-> bytes(y)]
  <2> QED OBVIOUS
<1>3. (\A x \in A : w[x] = bytes(x)) /\ \A y \in B : v[y] = bytes(y)
  BY <1>9, <1>10
<1>4. PICK a, b : IsSum(a, w, A) /\ IsSum(b, v, B)
  BY <1>2, SumExists
<1>5. h \in [A -> B] /\ {h[x] : x \in A} = B
  OBVIOUS
<1>8. (\A x \in A : w[x] = v[h[x]]) /\ \A y \in B : v[y] \in Nat
  BY <1>3
<1>6. \A s \in SUBSET A : a[s] = b[{h[x] : x \in s}]
  BY ONLY <1>2, <1>4, <1>8, h \in [A -> B], SumRenamed, IsFiniteSet(A),
          \A x, y \in A : h[x] = h[y] => x = y
<1>7. Bytes(A) = a[A] /\ Bytes(B) = b[B]
  BY <1>2, <1>3, <1>4, BytesOfSubset
<1> QED BY <1>2, <1>5, <1>6, <1>7

(* The bytes of a set of entries. *)
LEMMA UsedIsSum == \A S : disk_used_bytes(S) = SumOfBytes(S)
BY DEF disk_used_bytes, SumOfBytes

LEMMA UsedFacts ==
    ASSUME NEW S, IsFiniteSet(S), \A x \in S : x.bytes \in Nat
    PROVE  /\ disk_used_bytes(S) \in Nat /\ disk_used_bytes({}) = 0
           /\ \A x \in S : disk_used_bytes(S) = x.bytes + disk_used_bytes(S \ {x})
           /\ \A t \in SUBSET S : disk_used_bytes(t) =< disk_used_bytes(S)
BY UsedIsSum, SumOfBytesFacts

LEMMA UsedRenamed ==
    ASSUME NEW A, IsFiniteSet(A), NEW B, NEW h \in [A -> B], B = {h[x] : x \in A},
           \A x, y \in A : h[x] = h[y] => x = y,
           \A x \in A : x.bytes \in Nat /\ h[x].bytes = x.bytes
    PROVE  disk_used_bytes(B) = disk_used_bytes(A)
BY UsedIsSum, SumOfBytesRenamed

-----------------------------------------------------------------------------
(* Sequences. *)

LEMMA SliceIs ==
    ASSUME NEW S, NEW s \in Seq(S), NEW a \in Nat, NEW b \in Nat, a =< b, b =< Len(s)
    PROVE  /\ SubSeq(s, a + 1, b) \in Seq(S) /\ Len(SubSeq(s, a + 1, b)) = b - a
           /\ \A i \in 1 .. b - a : SubSeq(s, a + 1, b)[i] = s[a + i]
<1>1. \A i \in a + 1 .. b : s[i] \in S
  BY LenProperties, ElementOfSeq
<1>2. /\ SubSeq(s, a + 1, b) \in Seq(S)
      /\ Len(SubSeq(s, a + 1, b)) = IF a + 1 <= b THEN b - (a + 1) + 1 ELSE 0
      /\ \A i \in 1 .. b - (a + 1) + 1 : SubSeq(s, a + 1, b)[i] = s[a + 1 + i - 1]
  <2>1. a + 1 \in Int /\ b \in Int
    OBVIOUS
  <2> QED BY <1>1, <2>1, SubSeqProperties
<1>3. b - (a + 1) + 1 = b - a /\ (~(a + 1 <= b) => b - a = 0)
  OBVIOUS
<1>4. \A i \in 1 .. b - a : a + 1 + i - 1 = a + i
  OBVIOUS
<1> QED BY <1>2, <1>3, <1>4

LEMMA PrefixIs ==
    ASSUME NEW S, NEW s \in Seq(S), NEW n \in Nat, n =< Len(s)
    PROVE  /\ Prefix(s, n) \in Seq(S) /\ Len(Prefix(s, n)) = n
           /\ \A i \in 1 .. n : Prefix(s, n)[i] = s[i]
<1>1. \A i \in 1 .. n : s[i] \in S
  BY LenProperties, ElementOfSeq
<1>2. /\ SubSeq(s, 1, n) \in Seq(S)
      /\ Len(SubSeq(s, 1, n)) = IF 1 <= n THEN n - 1 + 1 ELSE 0
      /\ \A i \in 1 .. n - 1 + 1 : SubSeq(s, 1, n)[i] = s[1 + i - 1]
  <2>1. 1 \in Int /\ n \in Int
    OBVIOUS
  <2> QED BY <1>1, <2>1, SubSeqProperties
<1>3. n - 1 + 1 = n /\ (~(1 <= n) => n = 0)
  OBVIOUS
<1>4. \A i \in 1 .. n : 1 + i - 1 = i
  OBVIOUS
<1> QED BY <1>2, <1>3, <1>4 DEF Prefix

LEMMA PrefixMeans ==
    ASSUME NEW S, NEW s \in Seq(S), NEW T, NEW t \in Seq(T), NEW n \in Nat, n =< Len(t),
           Len(s) = n, \A i \in 1 .. n : s[i] = t[i]
    PROVE  s = Prefix(t, n)
<1>1. s \in Seq(S \cup T) /\ Prefix(t, n) \in Seq(S \cup T)
  BY PrefixIs, SeqMonotonic
<1>2. Len(Prefix(t, n)) = n /\ \A i \in 1 .. n : Prefix(t, n)[i] = t[i]
  BY PrefixIs
<1> HIDE DEF Prefix
<1>3. Len(s) = Len(Prefix(t, n)) /\ \A i \in 1 .. Len(s) : s[i] = Prefix(t, n)[i]
  BY <1>2
<1> QED BY <1>1, <1>3, SeqEqual

LEMMA PrefixAll ==
    ASSUME NEW S, NEW s \in Seq(S)
    PROVE  Prefix(s, Len(s)) = s
BY SubSeqFull DEF Prefix

LEMMA PrefixOfPrefix ==
    ASSUME NEW S, NEW s \in Seq(S), NEW a \in Nat, a =< Len(s), NEW b \in Nat, b =< a
    PROVE  Prefix(Prefix(s, a), b) = Prefix(s, b)
<1> DEFINE u == Prefix(s, a)
           v == Prefix(u, b)
<1>1. u \in Seq(S) /\ Len(u) = a /\ \A i \in 1 .. a : u[i] = s[i]
  BY PrefixIs
<1> HIDE DEF u
<1>2. v \in Seq(S) /\ Len(v) = b /\ \A i \in 1 .. b : v[i] = u[i]
  BY <1>1, PrefixIs
<1> HIDE DEF v
<1>3. \A i \in 1 .. b : v[i] = s[i]
  BY <1>1, <1>2
<1>4. v = Prefix(s, b)
  BY <1>2, <1>3, PrefixMeans
<1> QED BY <1>4 DEF v, u

LEMMA PrefixOfConcat ==
    ASSUME NEW S, NEW s \in Seq(S), NEW t \in Seq(S), NEW n \in Nat, n =< Len(s)
    PROVE  Prefix(s \o t, n) = Prefix(s, n)
<1> DEFINE u == s \o t
           v == Prefix(u, n)
<1>0. Len(s) \in Nat /\ Len(t) \in Nat
  BY LenProperties
<1>1. u \in Seq(S) /\ Len(u) = Len(s) + Len(t) /\ \A i \in 1 .. Len(s) : u[i] = s[i]
  BY <1>0, ConcatProperties
<1> HIDE DEF u
<1>2. v \in Seq(S) /\ Len(v) = n /\ \A i \in 1 .. n : v[i] = u[i]
  BY SMTT(30), <1>0, <1>1, PrefixIs
<1> HIDE DEF v
<1>3. \A i \in 1 .. n : v[i] = s[i]
  BY <1>0, <1>1, <1>2
<1>4. v = Prefix(s, n)
  BY <1>2, <1>3, PrefixMeans
<1> QED BY <1>4 DEF v, u

LEMMA Joined ==
    ASSUME NEW S, NEW s \in Seq(S), NEW a \in Nat, NEW b \in Nat, a =< b, b =< Len(s)
    PROVE  Prefix(s, a) \o SubSeq(s, a + 1, b) = Prefix(s, b)
<1> DEFINE u == Prefix(s, a)
           v == SubSeq(s, a + 1, b)
           w == u \o v
<1>0. Len(s) \in Nat /\ a =< Len(s)
  BY LenProperties
<1>1. u \in Seq(S) /\ Len(u) = a /\ \A i \in 1 .. a : u[i] = s[i]
  BY <1>0, PrefixIs
<1>2. v \in Seq(S) /\ Len(v) = b - a /\ \A i \in 1 .. b - a : v[i] = s[a + i]
  BY SliceIs
<1> HIDE DEF u, v
<1>3. w \in Seq(S) /\ Len(w) = a + (b - a)
      /\ \A i \in 1 .. a + (b - a) : w[i] = IF i <= a THEN u[i] ELSE v[i - a]
  BY <1>1, <1>2, ConcatProperties
<1> HIDE DEF w
<1>4. Len(w) = b
  BY <1>3
<1>5. ASSUME NEW i \in 1 .. b PROVE w[i] = s[i]
  <2>1. CASE i =< a
    BY <1>1, <1>3, <2>1
  <2>2. CASE ~(i =< a)
    <3>1. i - a \in 1 .. b - a /\ a + (i - a) = i
      BY <2>2
    <3>2. v[i - a] = s[i]
      BY <1>2, <3>1
    <3> QED BY <1>3, <2>2, <3>2
  <2> QED BY <2>1, <2>2
<1>6. w = Prefix(s, b)
  BY SMTT(30), <1>3, <1>4, <1>5, PrefixMeans
<1> QED BY <1>6 DEF w, v, u

(* The token of a cell. *)
Tok(c) == IF c \in Images THEN Pad ELSE c

LEMMA TokensMean ==
    ASSUME NEW T, NEW t \in Seq(T), NEW C, NEW kv \in Seq(C)
    PROVE  t = TokensOf(kv) <=> /\ Len(t) = Len(kv)
                                /\ \A i \in 1 .. Len(kv) : t[i] = Tok(kv[i])
<1>1. DOMAIN t = 1 .. Len(t) /\ DOMAIN kv = 1 .. Len(kv) /\ Len(t) \in Nat /\ Len(kv) \in Nat
  BY LenProperties
<1>2. TokensOf(kv) = [i \in 1 .. Len(kv) |-> Tok(kv[i])]
  BY <1>1 DEF TokensOf, Tok
<1>3. t = [i \in DOMAIN t |-> t[i]]
  OBVIOUS
<1>4. 1 .. Len(t) = 1 .. Len(kv) <=> Len(t) = Len(kv)
  <2> DEFINE m == Len(t)
             n == Len(kv)
  <2>1. m \in Nat /\ n \in Nat
    BY <1>1
  <2> HIDE DEF m, n
  <2>2. ASSUME 1 .. m = 1 .. n PROVE m = n
    <3>1. ASSUME m < n PROVE FALSE
      <4>1. n \in 1 .. n /\ n \notin 1 .. m
        BY <2>1, <3>1
      <4> QED BY <2>2, <4>1
    <3>2. ASSUME n < m PROVE FALSE
      <4>1. m \in 1 .. m /\ m \notin 1 .. n
        BY <2>1, <3>2
      <4> QED BY <2>2, <4>1
    <3> QED BY <2>1, <3>1, <3>2
  <2>3. 1 .. m = 1 .. n <=> m = n
    BY <2>2
  <2> QED BY <2>3 DEF m, n
<1> HIDE DEF Tok
<1> QED BY <1>1, <1>2, <1>3, <1>4

LEMMA TokensAre ==
    ASSUME NEW s \in Seq(Cell)
    PROVE  /\ TokensOf(s) \in Seq(Token) /\ Len(TokensOf(s)) = Len(s)
           /\ \A i \in 1 .. Len(s) : TokensOf(s)[i] = Tok(s[i])
<1>1. DOMAIN s = 1 .. Len(s) /\ Len(s) \in Nat /\ \A i \in 1 .. Len(s) : s[i] \in Cell
  BY LenProperties, ElementOfSeq
<1>2. TokensOf(s) = [i \in 1 .. Len(s) |-> Tok(s[i])]
  BY <1>1 DEF TokensOf, Tok
<1>3. \A i \in 1 .. Len(s) : Tok(s[i]) \in Token
  BY <1>1 DEF Tok, Cell, Token
<1> HIDE DEF Tok
<1>4. TokensOf(s) \in [1 .. Len(s) -> Token]
  BY <1>2, <1>3
<1>5. TokensOf(s) \in Seq(Token)
  BY <1>1, <1>4, SeqDef
<1>6. Len(TokensOf(s)) = Len(s)
  <2>1. DOMAIN TokensOf(s) = 1 .. Len(s)
    BY <1>2
  <2>2. DOMAIN TokensOf(s) = 1 .. Len(TokensOf(s)) /\ Len(TokensOf(s)) \in Nat
    BY <1>5, LenProperties
  <2> HIDE DEF TokensOf
  <2> QED BY <1>1, <2>1, <2>2
<1> QED BY <1>2, <1>5, <1>6
-----------------------------------------------------------------------------
(* How lineages are compared. *)

LEMMA LeastOfTwo ==
    ASSUME NEW a \in Nat, NEW b \in Nat
    PROVE  Min({a, b}) \in Nat /\ Min({a, b}) =< a /\ Min({a, b}) =< b
           /\ (Min({a, b}) = a \/ Min({a, b}) = b)
<1>1. {a, b} \subseteq Nat /\ {a, b} # {} /\ a \in {a, b} /\ b \in {a, b}
  OBVIOUS
<1>2. Min({a, b}) \in {a, b} /\ \A x \in {a, b} : Min({a, b}) =< x
  BY ONLY <1>1, Least
<1> QED BY <1>1, <1>2

(* A position at most `b` of a set of numbers: the greatest, 0 if none. *)
LEMMA GreatestOrZero ==
    ASSUME NEW S, S \subseteq Nat, NEW b \in Nat, \A x \in S : x =< b
    PROVE  /\ Max({0} \cup S) \in Nat /\ Max({0} \cup S) =< b
           /\ Max({0} \cup S) = 0 \/ Max({0} \cup S) \in S
           /\ \A x \in S : x =< Max({0} \cup S)
<1> DEFINE T == {0} \cup S
<1>1. T \subseteq Nat /\ T # {} /\ \A x \in T : x =< b
  OBVIOUS
<1> HIDE DEF T
<1>2. Max(T) \in T /\ \A x \in T : x =< Max(T)
  BY <1>1, Greatest
<1> QED BY <1>1, <1>2 DEF T

LEMMA CommonPrefix ==
    ASSUME NEW A, NEW a \in Seq(A), NEW B, NEW b \in Seq(B)
    PROVE  /\ common_prefix_len(a, b) \in Nat
           /\ common_prefix_len(a, b) =< Len(a) /\ common_prefix_len(a, b) =< Len(b)
           /\ \A i \in 1 .. common_prefix_len(a, b) : a[i] = b[i]
<1> DEFINE m == Min({Len(a), Len(b)})
           S == {n \in 0 .. m : \A i \in 1 .. n : a[i] = b[i]}
<1>0. Len(a) \in Nat /\ Len(b) \in Nat
  BY LenProperties
<1>1. m \in Nat /\ m =< Len(a) /\ m =< Len(b)
  BY <1>0, LeastOfTwo
<1>2. common_prefix_len(a, b) = Max(S)
  BY DEF common_prefix_len
<1> HIDE DEF m
<1>3. S \subseteq Nat /\ 0 \in S /\ \A x \in S : x =< m
  BY <1>1
<1>4. Max(S) \in S
  <2> HIDE DEF S
  <2> QED BY <1>1, <1>3, Greatest
<1> QED BY <1>0, <1>1, <1>2, <1>4

Agree(a, b, n) == \A k \in 1 .. n : a[k] = b[k]

LEMMA SharedPrefix ==
    ASSUME NEW A, NEW a \in Seq(A), NEW ia \in SUBSET SpanType,
           NEW B, NEW b \in Seq(B), NEW ib \in SUBSET SpanType
    PROVE  /\ shared_prefix(a, ia, b, ib) \in Nat
           /\ shared_prefix(a, ia, b, ib) =< Len(a) /\ shared_prefix(a, ia, b, ib) =< Len(b)
           /\ Agree(a, b, shared_prefix(a, ia, b, ib))
           /\ \A i \in ib : i.start < shared_prefix(a, ia, b, ib) => i \in ia
<1> DEFINE c == common_prefix_len(a, b)
           S == {c} \cup {i.start : i \in SymDiff(ia, ib)}
<1>1. /\ c \in Nat /\ c =< Len(a) /\ c =< Len(b) /\ \A k \in 1 .. c : a[k] = b[k]
      /\ Len(a) \in Nat /\ Len(b) \in Nat
  BY CommonPrefix, LenProperties
<1>2. shared_prefix(a, ia, b, ib) = Min(S)
  BY DEF shared_prefix
<1> HIDE DEF c
<1>3. S \subseteq Nat /\ c \in S /\ \A i \in ib : i \notin ia => i.start \in S
  BY <1>1 DEF SymDiff, SpanType
<1>4. \A i \in ib : i.start \in Nat
  BY DEF SpanType
<1> HIDE DEF S
<1> DEFINE m == Min(S)
<1>5. m \in S /\ \A x \in S : m =< x
  BY <1>3, Least
<1> HIDE DEF m
<1>6. m \in Nat /\ m =< c /\ \A i \in ib : i \notin ia => m =< i.start
  BY <1>3, <1>5
<1>7. m =< Len(a) /\ m =< Len(b) /\ \A k \in 1 .. m : a[k] = b[k]
  BY <1>1, <1>6
<1>8. \A i \in ib : i.start < m => i \in ia
  BY <1>4, <1>6
<1>9. Agree(a, b, m)
  BY <1>7 DEF Agree
<1> QED BY <1>2, <1>6, <1>7, <1>8, <1>9 DEF m

LEMMA ResumeIs ==
    ASSUME NEW l, l.tokens \in Seq(Token), l.images \in SUBSET SpanType,
           NEW positions \in SUBSET Nat,
           NEW t \in Seq(Token), Len(t) > 0, NEW images \in SUBSET SpanType
    PROVE  LET pos == resume_position(l, positions, t, images)
           IN  /\ pos \in Nat /\ pos =< Len(t) - 1
               /\ pos =< shared_prefix(l.tokens, l.images, t, images)
               /\ pos = 0 \/ pos = Len(l.tokens) \/ pos \in positions
<1> DEFINE sp == shared_prefix(l.tokens, l.images, t, images)
           m == Min({sp, Len(t) - 1})
           S == {p \in positions \cup {Len(l.tokens)} : p =< m}
           pos == resume_position(l, positions, t, images)
<1>1. sp \in Nat /\ Len(t) - 1 \in Nat /\ Len(l.tokens) \in Nat
  <2>1. sp \in Nat
    BY SharedPrefix
  <2>2. Len(t) \in Nat /\ Len(l.tokens) \in Nat
    BY LenProperties
  <2> HIDE DEF sp
  <2> QED BY <2>1, <2>2
<1>2. pos = Max({0} \cup S)
  BY DEF resume_position
<1> HIDE DEF sp, pos
<1>3. m \in Nat /\ m =< sp /\ m =< Len(t) - 1
  BY <1>1, LeastOfTwo
<1> HIDE DEF m
<1>4. S \subseteq Nat /\ \A x \in S : x =< m
  BY <1>1
<1>5. /\ Max({0} \cup S) \in Nat /\ Max({0} \cup S) =< m
      /\ Max({0} \cup S) = 0 \/ Max({0} \cup S) \in S
  <2> HIDE DEF S
  <2> QED BY <1>3, <1>4, GreatestOrZero
<1>6. /\ pos \in Nat /\ pos =< Len(t) - 1 /\ pos =< sp
      /\ pos = 0 \/ pos = Len(l.tokens) \/ pos \in positions
  BY <1>1, <1>2, <1>3, <1>5
<1> QED BY <1>6 DEF sp, pos

LEMMA AgreementIs ==
    ASSUME NEW t \in Seq(Token), Len(t) > 0, NEW images \in SUBSET SpanType,
           NEW L, \A l \in L : l.tokens \in Seq(Token) /\ l.images \in SUBSET SpanType
    PROVE  LET a == agreement(t, images, L)
           IN  /\ a \in Nat /\ a =< Len(t) - 1
               /\ \A l \in L, p \in Nat :
                     p =< Len(t) - 1 /\ p =< shared_prefix(l.tokens, l.images, t, images) => p =< a
<1> DEFINE sp(l) == shared_prefix(l.tokens, l.images, t, images)
           m(l) == Min({sp(l), Len(t) - 1})
           S == {m(l) : l \in L}
           a == agreement(t, images, L)
<1>0. Len(t) - 1 \in Nat
  BY LenProperties
<1>1. \A l \in L : sp(l) \in Nat
  BY SharedPrefix
<1>2. a = Max({0} \cup S)
  BY DEF agreement
<1> HIDE DEF sp, a
<1>3. \A l \in L : m(l) \in Nat /\ m(l) =< Len(t) - 1 /\ (m(l) = sp(l) \/ m(l) = Len(t) - 1)
  BY <1>0, <1>1, LeastOfTwo
<1> HIDE DEF m
<1>4. S \subseteq Nat /\ (\A x \in S : x =< Len(t) - 1) /\ \A l \in L : m(l) \in S
  BY <1>3
<1> HIDE DEF S
<1>5. /\ Max({0} \cup S) \in Nat /\ Max({0} \cup S) =< Len(t) - 1
      /\ \A x \in S : x =< Max({0} \cup S)
  BY <1>0, <1>4, GreatestOrZero
<1>6. \A l \in L : m(l) =< a
  BY <1>2, <1>4, <1>5
<1>7. ASSUME NEW l \in L, NEW p \in Nat, p =< Len(t) - 1, p =< sp(l) PROVE p =< a
  <2> DEFINE n == Len(t) - 1
  <2>1. n \in Nat /\ sp(l) \in Nat /\ m(l) \in Nat /\ (m(l) = sp(l) \/ m(l) = n)
    BY <1>0, <1>1, <1>3
  <2>2. p =< sp(l) /\ p =< n /\ m(l) =< a /\ a \in Nat
    BY <1>2, <1>5, <1>6, <1>7
  <2> HIDE DEF n
  <2> QED BY <2>1, <2>2
<1>8. a \in Nat /\ a =< Len(t) - 1
  BY <1>2, <1>5
<1> QED BY <1>7, <1>8 DEF sp, a

LEMMA UserTurnIs ==
    ASSUME NEW t \in Seq(Token)
    PROVE  last_user_turn(t, Opener) \in Nat
<1> DEFINE S == {e \in Len(Opener) .. Len(t) :
                    Opener # <<>> /\ SubSeq(t, e - Len(Opener) + 1, e) = Opener}
<1>1. Len(t) \in Nat /\ Len(Opener) \in Nat
  BY SessionStoreAssumption, LenProperties
<1>2. last_user_turn(t, Opener) = Max({0} \cup S)
  BY DEF last_user_turn
<1>3. S \subseteq Nat /\ \A x \in S : x =< Len(t)
  BY <1>1
<1> HIDE DEF S
<1> QED BY <1>1, <1>2, <1>3, GreatestOrZero

LEMMA BoundaryIs ==
    ASSUME NEW agreed \in Nat, NEW reused \in Nat, NEW n \in Nat, NEW cut, NEW turn \in Nat
    PROVE  LET b == boundary_position(agreed, reused, n, DurableMin, cut, turn)
           IN  b \in Nat /\ (b # 0 => reused < b /\ b =< agreed)
<1>1. DurableMin \in Nat
  BY SessionStoreAssumption
<1> QED BY <1>1 DEF boundary_position
-----------------------------------------------------------------------------
(* What a session is made of, whatever was computed. *)

CkptType  == [pos : Nat, decode : BOOLEAN, rec : Seq(CellType)]

SessionShape(s) ==
    /\ s \in SessionType /\ IsFiniteSet(s.ckpts) /\ Len(s.kv) = Len(s.rec)
    /\ \A c \in s.ckpts : Len(c.rec) = c.pos /\ c.pos =< Len(s.rec)

HomeShape(s) == SessionShape(s) /\ Len(s.tokens) = Len(s.rec)

EntryShape(e) ==
    /\ e \in EntryType /\ Len(e.tokens) = Len(e.kv)
    /\ \E c \in e.ckpts : c.pos = Len(e.tokens)
    /\ \A c \in e.ckpts : Len(c.rec) = c.pos /\ c.pos =< Len(e.kv)

(* What was computed.  No checkpoint lies inside an image: a prompt with   *)
(* the image could not be resumed there.                                   *)
Clear(l, images) ==
    \A c \in l.ckpts : \A i \in images : ~(i.start < c.pos /\ c.pos < End(i))

Faithful(l) == Sound(l) /\ Clear(l, l.images)

Home(s, f) == HomeShape(s) /\ (f \/ (Faithful(s) /\ s.rec = s.kv))
Archived(e) == EntryShape(e) /\ Faithful(e)

(* The caches of a request hold the beginning of its prompt, ... *)
OnPrompt(s, p) ==
    /\ s.rec = Prefix(p.cells, Len(s.rec)) /\ s.kv = s.rec
    /\ \A c \in s.ckpts : c.rec = Prefix(p.cells, c.pos)
    /\ Clear(s, p.images)

(* ... and at the end the prompt and the answer. *)
Answered(s, p) ==
    /\ s.tokens = TokensOf(s.kv) /\ s.rec = s.kv
    /\ \A i \in p.images : End(i) =< Len(s.kv) => \A k \in i.start + 1 .. End(i) : s.kv[k] = i.digest
    /\ \A c \in s.ckpts : c.rec = Prefix(s.kv, c.pos)
    /\ Clear(s, p.images)

Planned(s, q) ==
    /\ q.reused =< Len(s.rec) /\ Len(s.rec) =< Len(q.prompt.cells) - 1
    /\ Len(s.tokens) = q.reused
    /\ q.reused =< q.agreement /\ q.agreement < Len(q.prompt.cells)
    /\ q.boundary # 0 => /\ q.reused < q.boundary /\ q.boundary =< q.agreement
                         /\ Len(s.rec) = q.reused

Outside(n, images) == \A i \in images : ~(i.start < n /\ n < End(i))

SlotGood(st, s, q, f) ==
    /\ SessionShape(s)
    /\ st # "none" => q \in PlanType /\ q.prompt \in Prompts
    /\ st \in {"prefill", "decode"} =>
         /\ Planned(s, q)
         /\ f \/ (OnPrompt(s, q.prompt) /\ s.tokens = Prefix(tokens(q.prompt), q.reused))
    /\ st = "prefill" =>
         f \/ (Outside(q.reused, q.prompt.images) /\ (Sound(s) \/ Len(s.rec) > q.reused))
    /\ st = "decode" => Len(s.rec) = Len(q.prompt.cells) - 1
    /\ st = "release" => Len(s.tokens) = Len(s.rec) /\ (f \/ Answered(s, q.prompt))

StoreGood(en, wr, d, f) ==
    /\ \A s \in en : Home(s, f)
    /\ wr # None => wr \in WriteType /\ Home(wr.session, FALSE)
    /\ \A e \in d : Archived(e)

SlotsGood(st, se, pl, f) ==
    /\ st \in [Slots -> {"none", "acquire", "prefill", "decode", "release"}]
    /\ se \in [Slots -> SessionType] /\ DOMAIN pl = Slots
    /\ \A r \in Slots : SlotGood(st[r], se[r], pl[r], f) /\ (pl[r] = None \/ pl[r] \in PlanType)

CountersGood ==
    /\ {next_id, next_lin} \subseteq Nat \ {0} /\ {clock, now, served} \subseteq Nat
    /\ recent_new \in Seq(Nat)
    /\ pc \in {"idle", "reclaim", "lookup", "room", "release", "budget", "ahead",
               "unload", "spill"}
    /\ cur \in Slots \cup {None} /\ fault \in BOOLEAN

PlaceGood ==
    /\ pc \in {"reclaim", "lookup"} => cur \in Slots /\ stage[cur] = "acquire"
    /\ pc = "release" => cur \in Slots /\ stage[cur] = "release"

SInv ==
    /\ StoreGood(entries, writing, disk, fault) /\ SlotsGood(stage, session, plan, fault)
    /\ CountersGood /\ PlaceGood
    /\ pc = "ahead" => ~fault /\ Busy = {}
-----------------------------------------------------------------------------
(* The records. *)

LEMMA EmptySeqs == <<>> \in Seq(Token) /\ <<>> \in Seq(CellType) /\ Len(<<>>) = 0
OBVIOUS

LEMMA NewFields ==
    ASSUME NEW cap \in Nat, NEW lin \in Nat
    PROVE  LET u == new_session(cap, lin)
           IN  /\ u \in SessionType /\ u.tokens = <<>> /\ u.images = {} /\ u.kv = <<>>
               /\ u.rec = <<>> /\ u.ckpts = {} /\ u.disk = NoCopy /\ u.cap = cap
               /\ u.lineage = lin
<1>1. NoCopy \in CopyType
  BY DEF CopyType
<1> QED BY <1>1, EmptySeqs DEF new_session, SessionType

LEMMA NewShape ==
    ASSUME NEW cap \in Nat, NEW lin \in Nat
    PROVE  HomeShape(new_session(cap, lin))
<1> DEFINE u == new_session(cap, lin)
<1>1. /\ u \in SessionType /\ u.tokens = <<>> /\ u.kv = <<>> /\ u.rec = <<>> /\ u.ckpts = {}
  BY NewFields
<1>2. IsFiniteSet({})
  BY FS_EmptySet
<1> HIDE DEF u
<1>3. HomeShape(u)
  BY <1>1, <1>2 DEF HomeShape, SessionShape
<1> QED BY <1>3 DEF u

LEMMA FedFields ==
    ASSUME NEW s \in SessionType, NEW a \in Seq(CellType), NEW b \in Seq(CellType)
    PROVE  LET u == [s EXCEPT !.kv = a, !.rec = b]
           IN  /\ u \in SessionType /\ u.tokens = s.tokens /\ u.images = s.images /\ u.kv = a
               /\ u.rec = b /\ u.ckpts = s.ckpts /\ u.cap = s.cap
BY DEF SessionType

LEMMA StartFields ==
    ASSUME NEW s \in SessionType, NEW a \in Nat, NEW b \in Nat
    PROVE  LET u == [s EXCEPT !.request_start = a, !.answer_start = b]
           IN  /\ u \in SessionType /\ u.tokens = s.tokens /\ u.images = s.images /\ u.kv = s.kv
               /\ u.rec = s.rec /\ u.ckpts = s.ckpts
BY DEF SessionType

LEMMA CkptsFields ==
    ASSUME NEW s \in SessionType, NEW e \in SUBSET CkptType
    PROVE  LET u == [s EXCEPT !.ckpts = e]
           IN  /\ u \in SessionType /\ u.tokens = s.tokens /\ u.images = s.images /\ u.kv = s.kv
               /\ u.rec = s.rec /\ u.ckpts = e
BY DEF SessionType, CkptType

LEMMA TokensFields ==
    ASSUME NEW s \in SessionType, NEW t \in Seq(Token)
    PROVE  LET u == [s EXCEPT !.tokens = t]
           IN  /\ u \in SessionType /\ u.tokens = t /\ u.images = s.images /\ u.kv = s.kv
               /\ u.rec = s.rec /\ u.ckpts = s.ckpts
BY DEF SessionType

LEMMA AnswerFields ==
    ASSUME NEW s \in SessionType, NEW t \in Seq(Token), NEW e \in SUBSET CkptType, NEW c \in Nat
    PROVE  LET u == [s EXCEPT !.tokens = t, !.ckpts = e, !.cap = c]
           IN  /\ u \in SessionType /\ u.tokens = t /\ u.images = s.images /\ u.kv = s.kv
               /\ u.rec = s.rec /\ u.ckpts = e
BY DEF SessionType, CkptType

LEMMA KeptFields ==
    ASSUME NEW s \in SessionType, NEW i \in SUBSET SpanType, NEW e \in SUBSET CkptType,
           NEW c \in Nat
    PROVE  LET u == [s EXCEPT !.images = i, !.born = FALSE, !.ckpts = e, !.last_used = c]
           IN  /\ u \in SessionType /\ u.tokens = s.tokens /\ u.images = i /\ u.kv = s.kv
               /\ u.rec = s.rec /\ u.ckpts = e /\ u.disk = s.disk
BY DEF SessionType, CkptType

LEMMA DiskFields ==
    ASSUME NEW s \in SessionType, NEW d \in CopyType
    PROVE  LET u == [s EXCEPT !.disk = d]
           IN  /\ u \in SessionType /\ u.tokens = s.tokens /\ u.images = s.images /\ u.kv = s.kv
               /\ u.rec = s.rec /\ u.ckpts = s.ckpts /\ u.cap = s.cap /\ u.disk = d
               /\ u.lineage = s.lineage
BY DEF SessionType

LEMMA SessionParts ==
    ASSUME NEW s \in SessionType
    PROVE  /\ s.tokens \in Seq(Token) /\ s.images \in SUBSET SpanType /\ s.kv \in Seq(CellType)
           /\ s.rec \in Seq(CellType) /\ s.ckpts \in SUBSET CkptType
           /\ s.request_start \in Nat /\ s.answer_start \in Nat /\ s.last_used \in Nat
           /\ s.disk \in CopyType /\ s.lineage \in Nat /\ s.cap \in Nat
           /\ Len(s.tokens) \in Nat /\ Len(s.kv) \in Nat /\ Len(s.rec) \in Nat
<1>1. /\ s.tokens \in Seq(Token) /\ s.images \in SUBSET SpanType /\ s.kv \in Seq(CellType)
      /\ s.rec \in Seq(CellType) /\ s.ckpts \in SUBSET CkptType
      /\ s.request_start \in Nat /\ s.answer_start \in Nat /\ s.last_used \in Nat
      /\ s.disk \in CopyType /\ s.lineage \in Nat /\ s.cap \in Nat
  BY DEF SessionType, CkptType
<1> QED BY <1>1, LenProperties

LEMMA CkptParts ==
    ASSUME NEW c \in CkptType
    PROVE  c.pos \in Nat /\ c.decode \in BOOLEAN /\ c.rec \in Seq(CellType)
BY DEF CkptType

LEMMA EntryParts ==
    ASSUME NEW e \in EntryType
    PROVE  /\ e.tokens \in Seq(Token) /\ e.images \in SUBSET SpanType /\ e.kv \in Seq(CellType)
           /\ e.bytes \in Nat /\ e.id \in Nat /\ e.lineage \in Nat /\ e.durable \in BOOLEAN
           /\ \A c \in e.ckpts : c.pos \in Nat /\ c.rec \in Seq(CellType)
           /\ Len(e.tokens) \in Nat /\ Len(e.kv) \in Nat
<1>1. /\ e.tokens \in Seq(Token) /\ e.images \in SUBSET SpanType /\ e.kv \in Seq(CellType)
      /\ e.bytes \in Nat /\ e.id \in Nat /\ e.lineage \in Nat /\ e.durable \in BOOLEAN
      /\ \A c \in e.ckpts : c.pos \in Nat /\ c.rec \in Seq(CellType)
  BY DEF EntryType
<1> QED BY <1>1, LenProperties

(* The disk field is all that changes in a session when it is written. *)
LEMMA CopyKeepsHome ==
    ASSUME NEW s, NEW f, Home(s, f), NEW d \in CopyType
    PROVE  Home([s EXCEPT !.disk = d], f)
<1> DEFINE u == [s EXCEPT !.disk = d]
<1>1. s \in SessionType
  BY DEF Home, HomeShape, SessionShape
<1>2. /\ u \in SessionType /\ u.tokens = s.tokens /\ u.images = s.images /\ u.kv = s.kv
      /\ u.rec = s.rec /\ u.ckpts = s.ckpts
  BY <1>1, DiskFields
<1> HIDE DEF u
<1>3. HomeShape(u)
  BY <1>2 DEF Home, HomeShape, SessionShape
<1>4. Faithful(s) => Faithful(u)
  BY <1>2 DEF Faithful, Sound, Clear
<1>5. Home(u, f)
  BY <1>2, <1>3, <1>4 DEF Home
<1> QED BY <1>5 DEF u
-----------------------------------------------------------------------------
(* To disk and back. *)

Tier(d) == \A e \in d : Archived(e)

LEMMA SpanEnds == \A i \in SpanType : i.start \in Nat /\ i.len \in Nat /\ End(i) \in Nat
BY DEF SpanType, End

LEMMA HomeWeak == ASSUME NEW s, NEW f, Home(s, FALSE) PROVE Home(s, f)
BY DEF Home

LEMMA FiniteImage ==
    ASSUME NEW S, IsFiniteSet(S), NEW T, NEW f \in [S -> T], T = {f[x] : x \in S}
    PROVE  IsFiniteSet(T)
<1>1. f \in Surjection(S, T)
  BY DEF Surjection
<1> QED BY <1>1, FS_Surjection

(* Plan::of: the checkpoints inside and the live end. *)
LEMMA PlanIs ==
    ASSUME NEW s, HomeShape(s)
    PROVE  /\ IsFiniteSet(PlanOf(s)) /\ PlanOf(s) \in SUBSET [pos : Nat, rec : Seq(CellType)]
           /\ \E k \in PlanOf(s) : k.pos = Len(s.tokens)
           /\ \A k \in PlanOf(s) : \/ k.pos = Len(s.rec) /\ k.rec = s.rec
                                   \/ \E c \in s.ckpts : k.pos = c.pos /\ k.rec = c.rec
<1> DEFINE inside == {d \in s.ckpts : 0 < d.pos /\ d.pos < Len(s.tokens)}
           I == {[pos |-> c.pos, rec |-> c.rec] : c \in inside}
           live == [pos |-> Len(s.tokens), rec |-> s.rec]
<1>1. /\ s.ckpts \in SUBSET CkptType /\ IsFiniteSet(s.ckpts) /\ s.rec \in Seq(CellType)
      /\ Len(s.rec) \in Nat /\ Len(s.tokens) = Len(s.rec)
  BY SessionParts DEF HomeShape, SessionShape
<1>2. PlanOf(s) = I \cup {live}
  BY DEF PlanOf
<1>3. IsFiniteSet(inside) /\ inside \subseteq s.ckpts
  BY <1>1, FS_Subset
<1> HIDE DEF inside
<1>4. IsFiniteSet(I)
  <2> DEFINE f == [c \in inside |-> [pos |-> c.pos, rec |-> c.rec]]
  <2>1. f \in [inside -> I] /\ I = {f[x] : x \in inside}
    OBVIOUS
  <2> HIDE DEF f, I
  <2> QED BY <1>3, <2>1, FiniteImage
<1>5. IsFiniteSet(I \cup {live})
  BY <1>4, FS_AddElement
<1>6. \A c \in inside : c.pos \in Nat /\ c.rec \in Seq(CellType)
  BY <1>1, <1>3, CkptParts
<1>7. I \in SUBSET [pos : Nat, rec : Seq(CellType)]
  BY <1>6
<1>8. /\ live \in [pos : Nat, rec : Seq(CellType)]
      /\ live.pos = Len(s.rec) /\ live.pos = Len(s.tokens) /\ live.rec = s.rec
  BY <1>1
<1>9. \A k \in I : \E c \in s.ckpts : k.pos = c.pos /\ k.rec = c.rec
  BY <1>3
<1> HIDE DEF live, I
<1> QED BY <1>2, <1>5, <1>7, <1>8, <1>9

LEMMA NewEntryFields ==
    ASSUME NEW s, HomeShape(s), NEW id \in Nat, now \in Nat
    PROVE  LET e == NewEntry(s, id)
           IN  /\ e \in EntryType /\ e.tokens = s.tokens /\ e.images = s.images /\ e.kv = s.kv
               /\ e.ckpts = PlanOf(s) /\ e.durable = FALSE /\ e.id = id /\ e.lineage = s.lineage
<1> DEFINE n == Len(s.tokens) + Cardinality(PlanOf(s))
<1>1. IsFiniteSet(PlanOf(s)) /\ PlanOf(s) \in SUBSET [pos : Nat, rec : Seq(CellType)]
  BY PlanIs
<1>2. /\ s.tokens \in Seq(Token) /\ s.images \in SUBSET SpanType /\ s.kv \in Seq(CellType)
      /\ s.lineage \in Nat /\ Len(s.tokens) \in Nat
  BY SessionParts DEF HomeShape, SessionShape
<1>3. Cardinality(PlanOf(s)) \in Nat
  BY <1>1, FS_CardinalityType
<1>4. n \in Nat
  BY <1>2, <1>3
<1>5. NewEntry(s, id) = [id |-> id, tokens |-> s.tokens, images |-> s.images, kv |-> s.kv,
                         ckpts |-> PlanOf(s), bytes |-> n,
                         used |-> now, durable |-> FALSE, lineage |-> s.lineage]
  BY DEF NewEntry
<1> HIDE DEF n
<1> QED BY <1>1, <1>2, <1>4, <1>5 DEF EntryType

LEMMA SpilledIsArchived ==
    ASSUME NEW s, Home(s, FALSE), NEW id \in Nat, now \in Nat
    PROVE  Archived(NewEntry(s, id))
<1> DEFINE e == NewEntry(s, id)
<1>0. HomeShape(s) /\ Sound(s) /\ Clear(s, s.images) /\ s.rec = s.kv
  BY DEF Home, Faithful
<1>1. /\ e \in EntryType /\ e.tokens = s.tokens /\ e.images = s.images /\ e.kv = s.kv
      /\ e.ckpts = PlanOf(s)
  BY <1>0, NewEntryFields
<1>8. \E k \in e.ckpts : k.pos = Len(s.tokens)
  BY <1>0, <1>1, PlanIs
<1>2. \A k \in e.ckpts : \/ k.pos = Len(s.rec) /\ k.rec = s.rec
                         \/ \E c \in s.ckpts : k.pos = c.pos /\ k.rec = c.rec
  BY <1>0, <1>1, PlanIs
<1>3. /\ Len(s.tokens) = Len(s.kv) /\ Len(s.kv) = Len(s.rec) /\ Len(s.rec) \in Nat
      /\ s.kv \in Seq(CellType)
      /\ \A c \in s.ckpts : Len(c.rec) = c.pos /\ c.pos =< Len(s.rec)
  BY <1>0, SessionParts DEF HomeShape, SessionShape
<1> HIDE DEF e
<1>4. EntryShape(e)
  BY <1>1, <1>2, <1>3, <1>8 DEF EntryShape
<1>5. Prefix(s.kv, Len(s.kv)) = s.kv
  BY <1>3, PrefixAll
<1>6. Sound(e)
  <2>1. \A k \in e.ckpts : k.pos =< Len(e.kv) /\ k.rec = Prefix(e.kv, k.pos)
    <3> TAKE k \in e.ckpts
    <3>1. CASE k.pos = Len(s.rec) /\ k.rec = s.rec
      BY <1>0, <1>1, <1>3, <1>5, <3>1
    <3>2. CASE \E c \in s.ckpts : k.pos = c.pos /\ k.rec = c.rec
      BY <1>0, <1>1, <3>2 DEF Sound
    <3> QED BY <1>2, <3>1, <3>2
  <2> QED BY <1>0, <1>1, <2>1 DEF Sound
<1>7. Clear(e, e.images)
  <2> SUFFICES ASSUME NEW k \in e.ckpts, NEW i \in s.images
               PROVE  ~(i.start < k.pos /\ k.pos < End(i))
    BY <1>1 DEF Clear
  <2>1. CASE k.pos = Len(s.rec)
    <3>1. End(i) =< Len(s.kv) /\ End(i) \in Nat
      BY <1>0, SpanEnds, SessionParts DEF Sound, HomeShape, SessionShape
    <3> QED BY <1>3, <2>1, <3>1
  <2>2. CASE \E c \in s.ckpts : k.pos = c.pos /\ k.rec = c.rec
    BY <1>0, <2>2 DEF Clear
  <2> QED BY <1>2, <2>1, <2>2
<1> QED BY <1>4, <1>6, <1>7 DEF Archived, Faithful, e

LEMMA TouchedIsArchived ==
    ASSUME NEW e, Archived(e), NEW t \in Nat
    PROVE  Archived([e EXCEPT !.used = t])
<1> DEFINE u == [e EXCEPT !.used = t]
<1>1. /\ u \in EntryType /\ u.tokens = e.tokens /\ u.images = e.images /\ u.kv = e.kv
      /\ u.ckpts = e.ckpts
  BY DEF Archived, EntryShape, EntryType
<1> HIDE DEF u
<1>2. Archived(u)
  BY <1>1 DEF Archived, EntryShape, Faithful, Sound, Clear
<1> QED BY <1>2 DEF u

LEMMA TouchTier ==
    ASSUME NEW d, Tier(d), NEW id, NEW t \in Nat
    PROVE  Tier(touch(d, id, t))
<1> SUFFICES ASSUME NEW f \in touch(d, id, t) PROVE Archived(f)
  BY DEF Tier
<1>1. PICK e \in d : f = IF e.id = id THEN [e EXCEPT !.used = t] ELSE e
  BY DEF touch
<1>2. Archived(e)
  BY DEF Tier
<1>3. Archived([e EXCEPT !.used = t])
  BY <1>2, TouchedIsArchived
<1> QED BY <1>1, <1>2, <1>3, Zenon

LEMMA EvictTier ==
    ASSUME NEW s, Home(s, fault), NEW d, Tier(d), evict(s, d),
           next_id \in Nat \ {0}, now \in Nat, fault \in BOOLEAN
    PROVE  Tier(disk') /\ next_id' \in Nat \ {0}
<1>1. CASE has_copy(s, d) /\ disk' = touch(d, s.disk[2], now) /\ next_id' = next_id
  BY <1>1, TouchTier
<1>2. CASE /\ spillable(s)
           /\ disk' \in Stored(expire(d, now), NewEntry(s, next_id)) /\ next_id' = reserve
  <2>1. fault = FALSE
    BY <1>2 DEF spillable
  <2>2. Archived(NewEntry(s, next_id))
    BY <2>1, SpilledIsArchived
  <2>3. disk' \subseteq expire(d, now) \cup {NewEntry(s, next_id)}
    BY <1>2, StoredWithin
  <2>4. expire(d, now) \subseteq d
    BY DEF expire
  <2>5. next_id' \in Nat \ {0}
    BY <1>2 DEF reserve
  <2> QED BY <2>2, <2>3, <2>4, <2>5 DEF Tier
<1>3. CASE disk' = d /\ next_id' = next_id
  BY <1>3
<1> QED BY <1>1, <1>2, <1>3 DEF evict

LEMMA FinishGood ==
    ASSUME StoreGood(entries, writing, disk, fault), writing # None, NEW o \in finish_write,
           now \in Nat
    PROVE  Home(o.session, FALSE) /\ Tier(o.disk)
<1> DEFINE w == writing.session
           n == NewEntry(w, writing.id)
<1>1. Home(w, FALSE) /\ writing.id \in Nat /\ Tier(disk)
  BY DEF StoreGood, WriteType, Tier
<1>2. CASE o = [session |-> [w EXCEPT !.disk = Refused], disk |-> disk]
  <2>1. Refused \in CopyType
    BY DEF CopyType
  <2>2. Home([w EXCEPT !.disk = Refused], FALSE)
    BY <1>1, <2>1, CopyKeepsHome
  <2> QED BY <1>1, <1>2, <2>2
<1>3. ASSUME NEW spare, NEW d2 \in commit(disk, n, spare),
             o = [session |-> [w EXCEPT !.disk = IF contains(d2, writing.id)
                                                 THEN Written(writing.id) ELSE Refused],
                  disk |-> d2]
      PROVE  Home(o.session, FALSE) /\ Tier(o.disk)
  <2> DEFINE c == IF contains(d2, writing.id) THEN Written(writing.id) ELSE Refused
  <2>1. c \in CopyType
    BY <1>1 DEF CopyType, Written
  <2>2. Archived(n)
    BY <1>1, SpilledIsArchived
  <2>3. d2 \subseteq disk \cup {n}
    BY CommitWithin
  <2>4. o.session = [w EXCEPT !.disk = c] /\ o.disk = d2
    BY <1>3
  <2> HIDE DEF c, n, w
  <2>5. Home([w EXCEPT !.disk = c], FALSE)
    BY <1>1, <2>1, CopyKeepsHome
  <2> QED BY <1>1, <2>2, <2>3, <2>4, <2>5 DEF Tier
<1>4. \/ o = [session |-> [w EXCEPT !.disk = Refused], disk |-> disk]
      \/ \E spare : \E d2 \in commit(disk, n, spare) :
            o = [session |-> [w EXCEPT !.disk = IF contains(d2, writing.id)
                                                THEN Written(writing.id) ELSE Refused],
                 disk |-> d2]
  BY Zenon DEF finish_write
<1> QED BY <1>2, <1>3, <1>4

LEMMA CollectGood ==
    ASSUME StoreGood(entries, writing, disk, fault), collect_finished, now \in Nat
    PROVE  StoreGood(entries', writing', disk', fault)
<1>1. CASE finished
  <2>1. PICK o \in finish_write : entries' = entries \cup {o.session} /\ disk' = o.disk
    BY <1>1 DEF collect_finished
  <2>2. writing # None /\ writing' = None
    BY <1>1 DEF collect_finished, finished
  <2>3. Home(o.session, fault) /\ Tier(o.disk)
    BY <2>2, FinishGood, HomeWeak
  <2> QED BY <2>1, <2>2, <2>3 DEF StoreGood, Tier
<1>2. CASE ~finished
  BY <1>2 DEF collect_finished
<1> QED BY <1>1, <1>2

LEMMA LruGood ==
    ASSUME StoreGood(entries, writing, disk, fault), evict_lru,
           next_id \in Nat \ {0}, now \in Nat, fault \in BOOLEAN
    PROVE  StoreGood(entries', writing', disk', fault) /\ next_id' \in Nat \ {0}
<1>1. CASE /\ writing # None /\ writing' = None /\ entries' = entries
           /\ \E o \in finish_write : evict(o.session, o.disk)
  <2>1. PICK o \in finish_write : evict(o.session, o.disk)
    BY <1>1
  <2>2. Home(o.session, fault) /\ Tier(o.disk)
    BY <1>1, FinishGood, HomeWeak
  <2>3. Tier(disk') /\ next_id' \in Nat \ {0}
    BY <2>1, <2>2, EvictTier
  <2> QED BY <1>1, <2>3 DEF StoreGood, Tier
<1>2. CASE \E s \in entries : evict(s, disk) /\ entries' = entries \ {s} /\ writing' = writing
  <2>1. PICK s \in entries : evict(s, disk) /\ entries' = entries \ {s} /\ writing' = writing
    BY <1>2
  <2>2. Home(s, fault) /\ Tier(disk)
    BY DEF StoreGood, Tier
  <2>3. Tier(disk') /\ next_id' \in Nat \ {0}
    BY <2>1, <2>2, EvictTier
  <2> QED BY <2>1, <2>3 DEF StoreGood, Tier
<1> QED BY <1>1, <1>2 DEF evict_lru
-----------------------------------------------------------------------------
(* What a lookup finds. *)

LEMMA PromptParts ==
    ASSUME NEW p \in Prompts
    PROVE  /\ p \in PromptType /\ p.cells \in Seq(Cell) /\ p.images \in SUBSET SpanType
           /\ Len(p.cells) \in Nat \ {0}
           /\ tokens(p) \in Seq(Token) /\ Len(tokens(p)) = Len(p.cells)
           /\ \A i \in 1 .. Len(p.cells) : tokens(p)[i] = Tok(p.cells[i])
<1>1. /\ p \in PromptType /\ p.cells # <<>>
  BY RequestsAssumption DEF IsPrompt
<1>2. p.cells \in Seq(Cell) /\ p.images \in SUBSET SpanType
  BY <1>1 DEF PromptType
<1>3. Len(p.cells) \in Nat /\ Len(p.cells) # 0
  BY <1>1, <1>2, EmptySeq, LenProperties
<1>4. /\ tokens(p) \in Seq(Token) /\ Len(tokens(p)) = Len(p.cells)
      /\ \A i \in 1 .. Len(p.cells) : tokens(p)[i] = Tok(p.cells[i])
  BY <1>2, TokensAre DEF tokens
<1> QED BY <1>1, <1>2, <1>3, <1>4

LEMMA PromptImages ==
    ASSUME NEW p \in Prompts
    PROVE  /\ \A i \in p.images : /\ End(i) < Len(p.cells)
                                  /\ \A k \in i.start + 1 .. End(i) : p.cells[k] = i.digest
           /\ \A k \in 1 .. Len(p.cells) :
                p.cells[k] \in Images => \E i \in p.images : i.start < k /\ k =< End(i)
<1>1. IsPrompt(p)
  BY RequestsAssumption
<1>2. DOMAIN p.cells = 1 .. Len(p.cells)
  BY PromptParts, LenProperties
<1> QED BY <1>1, <1>2 DEF IsPrompt

(* What can be looked up. *)
Known(l) == /\ l.tokens \in Seq(Token) /\ l.images \in SUBSET SpanType
            /\ \A c \in l.ckpts : c.pos \in Nat

SharedWith(l, p) == shared_prefix(l.tokens, l.images, tokens(p), p.images)

LEMMA HomeKnown == ASSUME NEW s, HomeShape(s) PROVE Known(s)
BY SessionParts, CkptParts DEF HomeShape, SessionShape, Known

LEMMA EntryKnown == ASSUME NEW e, EntryShape(e) PROVE Known(e)
BY EntryParts DEF EntryShape, Known

LEMMA SharedIs ==
    ASSUME NEW l, Known(l), NEW p \in Prompts
    PROVE  /\ SharedWith(l, p) \in Nat
           /\ SharedWith(l, p) =< Len(l.tokens) /\ SharedWith(l, p) =< Len(p.cells)
           /\ \A k \in 1 .. SharedWith(l, p) : l.tokens[k] = tokens(p)[k]
           /\ \A i \in p.images : i.start < SharedWith(l, p) => i \in l.images
<1>1. /\ tokens(p) \in Seq(Token) /\ p.images \in SUBSET SpanType
      /\ Len(tokens(p)) = Len(p.cells)
  BY PromptParts
<1>2. l.tokens \in Seq(Token) /\ l.images \in SUBSET SpanType
  BY DEF Known
<1>3. /\ SharedWith(l, p) \in Nat
      /\ SharedWith(l, p) =< Len(l.tokens) /\ SharedWith(l, p) =< Len(tokens(p))
      /\ Agree(l.tokens, tokens(p), SharedWith(l, p))
      /\ \A i \in p.images : i.start < SharedWith(l, p) => i \in l.images
  BY <1>1, <1>2, SharedPrefix DEF SharedWith
<1> QED BY <1>1, <1>3 DEF Agree

LEMMA ResumeWhere ==
    ASSUME NEW l, Known(l), NEW p \in Prompts
    PROVE  /\ ResumeAt(l, p) \in Nat /\ ResumeAt(l, p) =< Len(p.cells) - 1
           /\ ResumeAt(l, p) =< SharedWith(l, p) /\ ResumeAt(l, p) =< Len(l.tokens)
           /\ \/ ResumeAt(l, p) = 0 \/ ResumeAt(l, p) = Len(l.tokens)
              \/ \E c \in l.ckpts : c.pos = ResumeAt(l, p)
<1> DEFINE pos == resume_position(l, Positions(l), tokens(p), p.images)
<1>1. /\ tokens(p) \in Seq(Token) /\ p.images \in SUBSET SpanType
      /\ Len(tokens(p)) = Len(p.cells) /\ Len(p.cells) \in Nat \ {0}
  BY PromptParts
<1>2. l.tokens \in Seq(Token) /\ l.images \in SUBSET SpanType /\ Positions(l) \in SUBSET Nat
  BY DEF Known, Positions
<1> HIDE DEF tokens
<1>3. Len(tokens(p)) > 0
  BY <1>1
<1>4. /\ pos \in Nat /\ pos =< Len(tokens(p)) - 1
      /\ pos =< shared_prefix(l.tokens, l.images, tokens(p), p.images)
      /\ pos = 0 \/ pos = Len(l.tokens) \/ pos \in Positions(l)
  BY <1>1, <1>2, <1>3, ResumeIs
<1> HIDE DEF pos
<1>5. pos \in Positions(l) => \E c \in l.ckpts : c.pos = pos
  BY DEF Positions
<1>6. pos =< SharedWith(l, p)
  BY <1>4 DEF SharedWith
<1>7. SharedWith(l, p) \in Nat /\ SharedWith(l, p) =< Len(l.tokens) /\ Len(l.tokens) \in Nat
  BY <1>2, SharedIs, LenProperties
<1>8. pos =< Len(l.tokens)
  BY <1>4, <1>6, <1>7
<1>9. pos =< Len(p.cells) - 1
  BY <1>1, <1>4
<1>10. ResumeAt(l, p) = pos
  BY DEF ResumeAt, pos
<1> QED BY <1>4, <1>5, <1>6, <1>8, <1>9, <1>10

(* What agrees with the prompt was computed from it: the tokens tell the   *)
(* text, and an image shared in part is shared.                            *)
LEMMA SharedCells ==
    ASSUME NEW l, Known(l), l.kv \in Seq(CellType), Len(l.tokens) = Len(l.kv), Sound(l),
           NEW p \in Prompts, NEW k \in 1 .. SharedWith(l, p)
    PROVE  l.kv[k] = p.cells[k]
<1>1. /\ SharedWith(l, p) \in Nat /\ SharedWith(l, p) =< Len(l.tokens)
      /\ SharedWith(l, p) =< Len(p.cells) /\ l.tokens[k] = tokens(p)[k]
      /\ \A i \in p.images : i.start < SharedWith(l, p) => i \in l.images
  BY SharedIs
<1>2. /\ p.cells \in Seq(Cell) /\ p.images \in SUBSET SpanType /\ Len(p.cells) \in Nat
      /\ \A i \in 1 .. Len(p.cells) : tokens(p)[i] = Tok(p.cells[i])
  BY PromptParts
<1>3. l.tokens \in Seq(Token) /\ Len(l.tokens) \in Nat
  BY LenProperties DEF Known
<1> HIDE DEF tokens
<1>4. k \in 1 .. Len(p.cells) /\ k \in 1 .. Len(l.kv)
  BY <1>1, <1>2, <1>3
<1>5. l.tokens[k] = Tok(l.kv[k])
  BY <1>3, <1>4, TokensMean DEF Sound
<1>6. Tok(l.kv[k]) = Tok(p.cells[k])
  BY <1>1, <1>2, <1>4, <1>5
<1>7. CASE p.cells[k] \in Images
  <2>1. PICK i \in p.images : i.start < k /\ k =< End(i)
    BY <1>4, <1>7, PromptImages
  <2>2. i.start \in Nat /\ End(i) \in Nat
    BY <1>2, <2>1, SpanEnds
  <2>3. i.start < SharedWith(l, p) /\ k \in i.start + 1 .. End(i)
    BY <1>1, <2>1, <2>2
  <2>4. i \in l.images
    BY <1>1, <2>1, <2>3
  <2>5. l.kv[k] = i.digest
    BY <2>3, <2>4 DEF Sound
  <2>6. p.cells[k] = i.digest
    BY <2>1, <2>3, PromptImages
  <2> QED BY <2>5, <2>6
<1>8. CASE p.cells[k] \notin Images
  <2>1. p.cells[k] \in Cell
    BY <1>2, <1>4, ElementOfSeq
  <2>2. p.cells[k] \in Text /\ Tok(p.cells[k]) = p.cells[k]
    BY <1>8, <2>1 DEF Cell, Tok
  <2>3. Tok(l.kv[k]) # Pad
    BY <1>6, <2>2, PadAssumption
  <2> QED BY <1>6, <2>2, <2>3 DEF Tok
<1> QED BY <1>7, <1>8

(* No resume splits one of the prompt's images. *)
LEMMA SharedOutside ==
    ASSUME NEW l, Known(l), Len(l.tokens) = Len(l.kv), Faithful(l),
           NEW p \in Prompts, NEW n \in Nat, n =< SharedWith(l, p),
           n = 0 \/ n = Len(l.tokens) \/ \E c \in l.ckpts : c.pos = n
    PROVE  Outside(n, p.images)
<1> SUFFICES ASSUME NEW i \in p.images, i.start < n, n < End(i) PROVE FALSE
  BY DEF Outside
<1>1. /\ SharedWith(l, p) \in Nat
      /\ \A j \in p.images : j.start < SharedWith(l, p) => j \in l.images
  BY SharedIs
<1>2. i.start \in Nat /\ End(i) \in Nat
  BY PromptParts, SpanEnds
<1>3. i \in l.images
  BY <1>1, <1>2
<1>4. End(i) =< Len(l.tokens) /\ Clear(l, l.images) /\ Len(l.tokens) \in Nat
  BY <1>3, LenProperties DEF Faithful, Sound, Known
<1>5. n # 0 /\ n # Len(l.tokens)
  BY <1>2, <1>4
<1> QED BY <1>3, <1>4, <1>5 DEF Clear
-----------------------------------------------------------------------------
(* What a request resumes from. *)

(* `u` is the lineage `l` up to `n`. *)
UpTo(u, l, n) ==
    /\ u.kv = Prefix(l.kv, n) /\ u.tokens = Prefix(l.tokens, n)
    /\ u.images = images_within(l.images, n)
    /\ \A c \in u.ckpts : \E d \in l.ckpts : c.pos = d.pos /\ c.rec = d.rec /\ c.pos =< n

(* A session the request of `p` may start from at `n`. *)
Fits(u, p, n) ==
    /\ OnPrompt(u, p) /\ u.tokens = Prefix(tokens(p), n) /\ Outside(n, p.images) /\ Sound(u)

LEMMA PrefixTokens ==
    ASSUME NEW C, NEW kv \in Seq(C), NEW t \in Seq(Token), t = TokensOf(kv),
           NEW n \in Nat, n =< Len(kv)
    PROVE  Prefix(t, n) = TokensOf(Prefix(kv, n))
<1>1. Len(t) = Len(kv) /\ \A i \in 1 .. Len(kv) : t[i] = Tok(kv[i])
  BY TokensMean
<1> DEFINE u == Prefix(t, n)
           v == Prefix(kv, n)
<1>2. /\ u \in Seq(Token) /\ Len(u) = n /\ v \in Seq(C) /\ Len(v) = n
      /\ \A i \in 1 .. n : u[i] = t[i]
      /\ \A i \in 1 .. n : v[i] = kv[i]
  <2>1. Len(kv) \in Nat /\ n =< Len(t)
    BY <1>1, LenProperties
  <2> QED BY <2>1, PrefixIs
<1> HIDE DEF u, v
<1>3. \A i \in 1 .. Len(v) : u[i] = Tok(v[i])
  <2> TAKE i \in 1 .. Len(v)
  <2>1. i \in 1 .. n /\ i \in 1 .. Len(kv)
    BY <1>2, LenProperties
  <2> QED BY <1>1, <1>2, <2>1
<1>4. Len(u) = Len(v)
  BY <1>2
<1>5. u = TokensOf(v)
  BY <1>2, <1>3, <1>4, TokensMean
<1> QED BY <1>5 DEF u, v

LEMMA PrefixSound ==
    ASSUME NEW l, Known(l), l.kv \in Seq(CellType), Sound(l), NEW n \in Nat, n =< Len(l.kv),
           NEW u, UpTo(u, l, n)
    PROVE  Sound(u)
<1>1. u.kv \in Seq(CellType) /\ Len(u.kv) = n /\ \A k \in 1 .. n : u.kv[k] = l.kv[k]
  BY PrefixIs DEF UpTo
<1>2. u.tokens = TokensOf(u.kv)
  BY PrefixTokens DEF UpTo, Sound, Known
<1>3. ASSUME NEW i \in u.images
      PROVE  End(i) =< Len(u.kv) /\ \A k \in i.start + 1 .. End(i) : u.kv[k] = i.digest
  <2>1. i \in l.images /\ End(i) =< n
    BY <1>3 DEF UpTo, images_within
  <2>2. i.start \in Nat /\ End(i) \in Nat
    BY <2>1, SpanEnds DEF Known
  <2>3. \A k \in i.start + 1 .. End(i) : l.kv[k] = i.digest /\ k \in 1 .. n
    BY <2>1, <2>2 DEF Sound
  <2> QED BY <1>1, <2>1, <2>3
<1>4. ASSUME NEW c \in u.ckpts PROVE c.pos =< Len(u.kv) /\ c.rec = Prefix(u.kv, c.pos)
  <2>1. PICK d \in l.ckpts : c.pos = d.pos /\ c.rec = d.rec /\ c.pos =< n
    BY DEF UpTo
  <2>2. c.pos \in Nat /\ c.rec = Prefix(l.kv, c.pos)
    BY <2>1 DEF Sound, Known
  <2>3. Prefix(Prefix(l.kv, n), c.pos) = Prefix(l.kv, c.pos)
    BY <2>1, <2>2, PrefixOfPrefix
  <2> QED BY <1>1, <2>1, <2>2, <2>3 DEF UpTo
<1> QED BY <1>2, <1>3, <1>4 DEF Sound

LEMMA ResumeFits ==
    ASSUME NEW l, Known(l), l.kv \in Seq(CellType), Len(l.tokens) = Len(l.kv), Faithful(l),
           NEW p \in Prompts, NEW n \in Nat, n =< SharedWith(l, p),
           n = 0 \/ n = Len(l.tokens) \/ \E c \in l.ckpts : c.pos = n,
           NEW u, UpTo(u, l, n), u.rec = u.kv
    PROVE  Fits(u, p, n)
<1>0. /\ SharedWith(l, p) \in Nat /\ SharedWith(l, p) =< Len(l.tokens)
      /\ SharedWith(l, p) =< Len(p.cells) /\ l.tokens \in Seq(Token)
      /\ Len(p.cells) \in Nat /\ Len(l.tokens) \in Nat /\ p.cells \in Seq(Cell)
      /\ Len(tokens(p)) = Len(p.cells) /\ tokens(p) \in Seq(Token)
  BY SharedIs, PromptParts, LenProperties DEF Known
<1>1. n =< Len(l.kv) /\ n =< Len(p.cells) /\ n =< Len(l.tokens) /\ n =< Len(tokens(p))
  BY <1>0
<1>2. Sound(u)
  BY <1>1, PrefixSound DEF Faithful
<1>3. Outside(n, p.images)
  BY SharedOutside
<1>4. ASSUME NEW m \in Nat, m =< n PROVE Prefix(l.kv, m) = Prefix(p.cells, m)
  <2>1. \A k \in 1 .. m : l.kv[k] = p.cells[k]
    <3> TAKE k \in 1 .. m
    <3>1. k \in 1 .. SharedWith(l, p)
      BY <1>0, <1>4
    <3> QED BY <3>1, SharedCells DEF Faithful
  <2>2. m =< Len(l.kv) /\ m =< Len(p.cells)
    BY <1>0, <1>1, <1>4
  <2> DEFINE v == Prefix(l.kv, m)
  <2>3. v \in Seq(CellType) /\ Len(v) = m /\ \A k \in 1 .. m : v[k] = l.kv[k]
    BY <2>2, PrefixIs
  <2> HIDE DEF v
  <2>4. \A k \in 1 .. m : v[k] = p.cells[k]
    BY <2>1, <2>3
  <2>5. v = Prefix(p.cells, m)
    BY ONLY SMTT(30), <1>0, <2>2, <2>3, <2>4, PrefixMeans
  <2> QED BY <2>5 DEF v
<1>5. u.tokens = Prefix(tokens(p), n)
  <2> DEFINE t == tokens(p)
             v == Prefix(l.tokens, n)
  <2>0. t \in Seq(Token) /\ n =< Len(t)
    BY <1>0, <1>1
  <2>1. v \in Seq(Token) /\ Len(v) = n /\ \A k \in 1 .. n : v[k] = l.tokens[k]
    BY <1>0, <1>1, PrefixIs
  <2> HIDE DEF v
  <2>2. \A k \in 1 .. n : l.tokens[k] = t[k]
    <3>1. \A k \in 1 .. SharedWith(l, p) : l.tokens[k] = t[k]
      BY SharedIs
    <3>2. \A k \in 1 .. n : k \in 1 .. SharedWith(l, p)
      BY <1>0
    <3> QED BY <3>1, <3>2
  <2> HIDE DEF t
  <2>3. v = Prefix(t, n)
    BY <2>0, <2>1, <2>2, PrefixMeans
  <2> QED BY <2>3 DEF v, t, UpTo
<1>6. u.rec = Prefix(p.cells, Len(u.rec))
  <2>1. u.rec = Prefix(p.cells, n)
    BY <1>4 DEF UpTo
  <2>2. Len(u.rec) = n
    BY <1>0, <1>1, <2>1, PrefixIs
  <2> QED BY <2>1, <2>2
<1>7. \A c \in u.ckpts : c.rec = Prefix(p.cells, c.pos)
  <2> TAKE c \in u.ckpts
  <2>1. PICK d \in l.ckpts : c.pos = d.pos /\ c.rec = d.rec /\ c.pos =< n
    BY DEF UpTo
  <2>2. c.pos \in Nat /\ c.rec = Prefix(l.kv, c.pos)
    BY <2>1 DEF Faithful, Sound, Known
  <2> QED BY <1>4, <2>1, <2>2
<1>8. Clear(u, p.images)
  <2> SUFFICES ASSUME NEW c \in u.ckpts PROVE Outside(c.pos, p.images)
    BY DEF Clear, Outside
  <2>1. PICK d \in l.ckpts : c.pos = d.pos /\ c.pos =< n
    BY DEF UpTo
  <2>2. c.pos \in Nat /\ c.pos =< SharedWith(l, p)
    BY <1>0, <2>1 DEF Known
  <2> QED BY <2>1, <2>2, SharedOutside
<1> QED BY <1>2, <1>3, <1>5, <1>6, <1>7, <1>8 DEF Fits, OnPrompt

(* Nothing is the beginning of every prompt. *)
LEMMA FreshFits ==
    ASSUME NEW u, u.kv = <<>>, u.rec = <<>>, u.tokens = <<>>, u.images = {}, u.ckpts = {},
           NEW p \in Prompts
    PROVE  Fits(u, p, 0)
<1>1. p.cells \in Seq(Cell) /\ tokens(p) \in Seq(Token) /\ p.images \in SUBSET SpanType
  BY PromptParts
<1>2. Len(p.cells) \in Nat /\ Len(tokens(p)) \in Nat /\ Len(<<>>) = 0 /\ <<>> \in Seq(Cell)
  BY <1>1, LenProperties
<1>3. Prefix(p.cells, 0) = <<>>
  <2>1. Prefix(p.cells, 0) \in Seq(Cell) /\ Len(Prefix(p.cells, 0)) = 0
    BY <1>1, <1>2, PrefixIs
  <2> QED BY <2>1, EmptySeq
<1>4. Prefix(tokens(p), 0) = <<>>
  <2>1. Prefix(tokens(p), 0) \in Seq(Token) /\ Len(Prefix(tokens(p), 0)) = 0
    BY <1>1, <1>2, PrefixIs
  <2> QED BY <2>1, EmptySeq
<1>5. <<>> = TokensOf(<<>>)
  <2> DEFINE o == <<>>
  <2>1. o \in Seq(Token) /\ o \in Seq(Cell) /\ Len(o) = 0
    OBVIOUS
  <2> HIDE DEF o
  <2>2. \A i \in 1 .. Len(o) : o[i] = Tok(o[i])
    BY <2>1
  <2>3. o = TokensOf(o)
    BY <2>1, <2>2, TokensMean
  <2> QED BY <2>3 DEF o
<1>6. Outside(0, p.images)
  BY <1>1, SpanEnds DEF Outside
<1> QED BY <1>2, <1>3, <1>4, <1>5, <1>6 DEF Fits, OnPrompt, Clear, Sound

(* The shape of what is rebuilt. *)
Rebuild(s, l, n, rec, e) ==
    [s EXCEPT !.kv = Prefix(l.kv, n), !.rec = rec, !.tokens = Prefix(l.tokens, n),
              !.images = images_within(l.images, n), !.ckpts = e]

CutTo(s, n, rec, e) ==
    [s EXCEPT !.rec = rec, !.kv = Prefix(@, n), !.tokens = Prefix(@, n),
              !.images = images_within(@, n), !.ckpts = e]

LEMMA RebuiltShape ==
    ASSUME NEW s \in SessionType, NEW l, Known(l), l.kv \in Seq(CellType),
           NEW n \in Nat, n =< Len(l.kv), n =< Len(l.tokens),
           NEW rec \in Seq(CellType), Len(rec) = n,
           NEW e \in SUBSET CkptType, IsFiniteSet(e),
           \A c \in e : Len(c.rec) = c.pos /\ c.pos =< n,
           NEW u, u = Rebuild(s, l, n, rec, e) \/ (l = s /\ u = CutTo(s, n, rec, e))
    PROVE  /\ SessionShape(u) /\ Len(u.rec) = n /\ Len(u.tokens) = n
           /\ u.kv = Prefix(l.kv, n) /\ u.tokens = Prefix(l.tokens, n)
           /\ u.images = images_within(l.images, n) /\ u.rec = rec /\ u.ckpts = e
<1> DEFINE kv == Prefix(l.kv, n)
           t == Prefix(l.tokens, n)
           im == images_within(l.images, n)
<1>1. kv \in Seq(CellType) /\ Len(kv) = n /\ t \in Seq(Token) /\ Len(t) = n
  BY PrefixIs DEF Known
<1>2. im \in SUBSET SpanType
  BY DEF images_within, Known
<1> HIDE DEF kv, t, im
<1>3. \/ u = [s EXCEPT !.kv = kv, !.rec = rec, !.tokens = t, !.images = im, !.ckpts = e]
      \/ u = [s EXCEPT !.rec = rec, !.kv = kv, !.tokens = t, !.images = im, !.ckpts = e]
  <2>1. CASE u = Rebuild(s, l, n, rec, e)
    BY <2>1 DEF Rebuild, kv, t, im
  <2>2. CASE l = s /\ u = CutTo(s, n, rec, e)
    <3>1. u = [s EXCEPT !.rec = rec, !.kv = Prefix(s.kv, n), !.tokens = Prefix(s.tokens, n),
                        !.images = images_within(s.images, n), !.ckpts = e]
      BY <2>2 DEF CutTo
    <3> QED BY <2>2, <3>1 DEF kv, t, im
  <2> QED BY <2>1, <2>2
<1>4. /\ u \in SessionType /\ u.tokens = t /\ u.images = im /\ u.kv = kv
      /\ u.rec = rec /\ u.ckpts = e
  <2>1. /\ s \in SessionType /\ kv \in Seq(CellType) /\ rec \in Seq(CellType) /\ t \in Seq(Token)
        /\ im \in SUBSET SpanType /\ e \in SUBSET CkptType
    BY <1>1, <1>2
  <2> QED BY ONLY ZenonT(30), <2>1, <1>3 DEF SessionType, CkptType
<1>5. SessionShape(u)
  BY <1>1, <1>4 DEF SessionShape
<1> QED BY <1>1, <1>4, <1>5 DEF kv, t, im
-----------------------------------------------------------------------------
(* acquire. *)

Reachable == entries \cup parked \cup Fresh

LEMMA ReachableKnown ==
    ASSUME StoreGood(entries, writing, disk, fault)
    PROVE  /\ \A s \in entries \cup parked : Home(s, fault) /\ Known(s)
           /\ \A e \in Fresh : Archived(e) /\ Known(e) /\ e \in disk
<1>1. \A s \in entries \cup parked : Home(s, fault)
  BY HomeWeak DEF StoreGood, parked
<1>2. \A e \in Fresh : Archived(e) /\ e \in disk
  BY DEF StoreGood, Fresh, expire
<1> QED BY <1>1, <1>2, HomeKnown, EntryKnown DEF Home, Archived

(* The lookup's best: the furthest resume in each tier. *)
LEMMA BestIs ==
    ASSUME StoreGood(entries, writing, disk, fault), prompt \in Prompts
    PROVE  BestGPU \in Nat /\ BestDisk \in Nat
<1> DEFINE b == Len(prompt.cells) - 1
           S == {ResumeAt(s, prompt) : s \in entries}
           T == {ResumeAt(e, prompt) : e \in Fresh}
<1>1. b \in Nat
  BY PromptParts
<1>2. S \subseteq Nat /\ \A x \in S : x =< b
  BY ReachableKnown, ResumeWhere
<1>3. T \subseteq Nat /\ \A x \in T : x =< b
  BY ReachableKnown, ResumeWhere
<1>4. BestGPU = Max({0} \cup S) /\ BestDisk = Max({0} \cup T)
  BY DEF BestGPU, BestDisk
<1> HIDE DEF S, T, b
<1> QED BY <1>1, <1>2, <1>3, <1>4, GreatestOrZero

(* What the admission decides of a resume at `n`. *)
LEMMA AgreedIs ==
    ASSUME StoreGood(entries, writing, disk, fault), NEW p \in Prompts, NEW n \in Nat,
           n =< Len(p.cells) - 1,
           n = 0 \/ \E l \in Reachable : n =< SharedWith(l, p)
    PROVE  LET a == agreement(tokens(p), p.images, Reachable)
           IN  a \in Nat /\ n =< a /\ a < Len(p.cells)
<1> DEFINE a == agreement(tokens(p), p.images, Reachable)
<1>1. /\ tokens(p) \in Seq(Token) /\ p.images \in SUBSET SpanType
      /\ Len(tokens(p)) = Len(p.cells) /\ Len(p.cells) \in Nat \ {0}
  BY PromptParts
<1>2. \A l \in Reachable : l.tokens \in Seq(Token) /\ l.images \in SUBSET SpanType
  BY ReachableKnown DEF Reachable, Known
<1>3. Len(tokens(p)) > 0
  BY <1>1
<1>4. /\ a \in Nat /\ a =< Len(tokens(p)) - 1
      /\ \A l \in Reachable, m \in Nat :
            m =< Len(tokens(p)) - 1 /\ m =< shared_prefix(l.tokens, l.images, tokens(p), p.images)
            => m =< a
  BY <1>1, <1>2, <1>3, AgreementIs
<1> HIDE DEF a
<1>5. n =< a
  <2>1. CASE n = 0
    BY <1>4, <2>1
  <2>2. CASE \E l \in Reachable : n =< SharedWith(l, p)
    BY <1>1, <1>4, <2>2 DEF SharedWith
  <2> QED BY <2>1, <2>2
<1>6. a < Len(p.cells)
  BY <1>1, <1>4
<1> QED BY <1>4, <1>5, <1>6 DEF a

(* One slot's request moves on, the others stay where they are. *)
LEMMA SlotMoved ==
    ASSUME SlotsGood(stage, session, plan, fault), NEW r \in Slots,
           NEW st \in {"none", "acquire", "prefill", "decode", "release"},
           NEW s, NEW q, SlotGood(st, s, q, fault), q = None \/ q \in PlanType,
           NEW st2, st2 = [stage EXCEPT ![r] = st],
           NEW se2, se2 = [session EXCEPT ![r] = s],
           NEW pl2, pl2 = [plan EXCEPT ![r] = q] \/ (pl2 = plan /\ q = plan[r])
    PROVE  SlotsGood(st2, se2, pl2, fault)
<1>1. /\ stage \in [Slots -> {"none", "acquire", "prefill", "decode", "release"}]
      /\ session \in [Slots -> SessionType] /\ DOMAIN plan = Slots
      /\ \A k \in Slots : /\ SlotGood(stage[k], session[k], plan[k], fault)
                          /\ plan[k] = None \/ plan[k] \in PlanType
  BY DEF SlotsGood
<1>2. s \in SessionType
  BY DEF SlotGood, SessionShape
<1>3. st2 \in [Slots -> {"none", "acquire", "prefill", "decode", "release"}]
  BY <1>1
<1>4. se2 \in [Slots -> SessionType] /\ DOMAIN pl2 = Slots
  BY <1>1, <1>2
<1>5. ASSUME NEW k \in Slots
      PROVE  SlotGood(st2[k], se2[k], pl2[k], fault) /\ (pl2[k] = None \/ pl2[k] \in PlanType)
  <2>1. CASE k = r
    <3>1. st2[k] = st /\ se2[k] = s /\ pl2[k] = q
      BY <1>1, <2>1
    <3> QED BY <3>1
  <2>2. CASE k # r
    <3>1. st2[k] = stage[k] /\ se2[k] = session[k] /\ pl2[k] = plan[k]
      BY <1>1, <2>2
    <3> QED BY <1>1, <3>1
  <2> QED BY <2>1, <2>2
<1> QED BY <1>3, <1>4, <1>5 DEF SlotsGood

LEMMA CheckoutGood ==
    ASSUME SInv, pc = "lookup", NEW s, NEW n \in Nat, NEW cut \in BOOLEAN, Checkout(s, n, cut),
           SessionShape(s), Len(s.rec) = n, Len(s.tokens) = n,
           n =< Len(prompt.cells) - 1,
           n = 0 \/ \E l \in Reachable : n =< SharedWith(l, prompt),
           fault \/ Fits(s, prompt, n)
    PROVE  SlotsGood(stage', session', plan', fault)
<1>1. /\ SlotsGood(stage, session, plan, fault) /\ StoreGood(entries, writing, disk, fault)
      /\ cur \in Slots /\ stage[cur] = "acquire"
  BY DEF SInv, PlaceGood
<1>2. plan[cur] \in PlanType /\ prompt \in Prompts
  BY <1>1 DEF SlotsGood, SlotGood, prompt
<1> DEFINE p == prompt
           a == agreement(tokens(p), p.images, Reachable)
           turn == IF a > n THEN last_user_turn(Prefix(tokens(p), a), Opener) ELSE 0
           b == boundary_position(a, n, Len(p.cells), DurableMin, cut, turn)
           q == [plan[cur] EXCEPT !.reused = n, !.agreement = a, !.cut_back = cut,
                                  !.boundary = b]
           u == [s EXCEPT !.request_start = n, !.answer_start = Len(p.cells) - 1]
<1>3. /\ session' = [session EXCEPT ![cur] = u] /\ plan' = [plan EXCEPT ![cur] = q]
      /\ stage' = [stage EXCEPT ![cur] = "prefill"]
  BY Zenon DEF Checkout, Reachable
<1>4. a \in Nat /\ n =< a /\ a < Len(p.cells)
  BY <1>1, <1>2, AgreedIs
<1>5. /\ Len(p.cells) \in Nat \ {0} /\ tokens(p) \in Seq(Token) /\ Len(tokens(p)) = Len(p.cells)
  BY <1>2, PromptParts
<1> HIDE DEF p, a
<1>6. turn \in Nat
  <2>1. a =< Len(tokens(p))
    BY <1>4, <1>5
  <2>2. Prefix(tokens(p), a) \in Seq(Token)
    BY <1>4, <1>5, <2>1, PrefixIs
  <2>3. last_user_turn(Prefix(tokens(p), a), Opener) \in Nat
    BY <2>2, UserTurnIs
  <2> QED BY <2>3
<1> HIDE DEF turn
<1>7. b \in Nat /\ (b # 0 => n < b /\ b =< a)
  BY <1>4, <1>5, <1>6, BoundaryIs
<1> HIDE DEF b
<1>8. /\ q \in PlanType /\ q.prompt = p /\ q.reused = n /\ q.agreement = a /\ q.boundary = b
  BY <1>2, <1>4, <1>7 DEF PlanType, p, prompt
<1>9. /\ u \in SessionType /\ u.tokens = s.tokens /\ u.images = s.images /\ u.kv = s.kv
      /\ u.rec = s.rec /\ u.ckpts = s.ckpts
  <2>1. s \in SessionType /\ Len(p.cells) - 1 \in Nat
    BY <1>5 DEF SessionShape
  <2> QED BY <2>1, StartFields
<1> HIDE DEF q, u
<1>10. SessionShape(u)
  BY <1>9 DEF SessionShape
<1>11. Planned(u, q)
  <2>1. n =< Len(p.cells) - 1
    BY DEF p
  <2> QED BY <1>4, <1>5, <1>7, <1>8, <1>9, <2>1 DEF Planned
<1>12. Fits(s, p, n) => Fits(u, p, n)
  BY <1>9 DEF Fits, OnPrompt, Clear, Sound
<1>13. fault \/ Fits(u, p, n)
  BY <1>12 DEF p
<1>14. SlotGood("prefill", u, q, fault)
  BY <1>2, <1>8, <1>10, <1>11, <1>13 DEF SlotGood, Fits, p
<1> QED BY <1>1, <1>3, <1>8, <1>14, SlotMoved

LEMMA ResidentTaken ==
    ASSUME SInv, pc = "lookup", NEW s, NEW u, NEW n \in Nat, NEW cut \in BOOLEAN,
           TakeResident(s, n, cut, u), SessionShape(u), Len(u.rec) = n, Len(u.tokens) = n,
           n =< Len(prompt.cells) - 1,
           n = 0 \/ \E l \in Reachable : n =< SharedWith(l, prompt),
           fault \/ Fits(u, prompt, n)
    PROVE  SInv'
<1>1. /\ Checkout(u, n, cut) /\ entries' = entries \ {s} /\ disk' = Fresh
      /\ pc' = "idle" /\ cur' = None
      /\ UNCHANGED <<writing, next_id, next_lin, clock, recent_new, fault, now, served>>
  BY DEF TakeResident
<1>2. SlotsGood(stage', session', plan', fault)
  BY <1>1, CheckoutGood
<1>3. StoreGood(entries', writing', disk', fault')
  BY <1>1 DEF SInv, StoreGood, Fresh, expire
<1>4. CountersGood'
  BY <1>1 DEF SInv, CountersGood
<1> QED BY <1>1, <1>2, <1>3, <1>4 DEF SInv, PlaceGood

LEMMA NewTaken ==
    ASSUME SInv, pc = "lookup", NEW u, NEW n \in Nat, NEW d, TakeNew(u, n, d), Tier(d),
           SessionShape(u), Len(u.rec) = n, Len(u.tokens) = n,
           n =< Len(prompt.cells) - 1,
           n = 0 \/ \E l \in Reachable : n =< SharedWith(l, prompt),
           fault \/ Fits(u, prompt, n)
    PROVE  SInv'
<1>1. /\ Checkout(u, n, FALSE) /\ disk' = d
      /\ next_lin' = (IF u.lineage = next_lin THEN next_lin + 1 ELSE next_lin)
      /\ pc' = "room"
      /\ UNCHANGED <<entries, writing, next_id, clock, recent_new, cur, fault, now, served>>
  BY DEF TakeNew
<1>2. SlotsGood(stage', session', plan', fault)
  BY <1>1, CheckoutGood
<1>3. StoreGood(entries', writing', disk', fault')
  BY <1>1 DEF SInv, StoreGood, Tier
<1>4. CountersGood'
  BY <1>1 DEF SInv, CountersGood
<1> QED BY <1>1, <1>2, <1>3, <1>4 DEF SInv, PlaceGood

LEMMA AtLookup ==
    ASSUME SInv, pc = "lookup"
    PROVE  /\ StoreGood(entries, writing, disk, fault) /\ prompt \in Prompts
           /\ Len(prompt.cells) \in Nat \ {0} /\ next_lin \in Nat /\ now \in Nat
           /\ Tier(Fresh) /\ Tier(disk)
<1>1. prompt \in Prompts
  BY DEF SInv, PlaceGood, SlotsGood, SlotGood, prompt
<1>2. Len(prompt.cells) \in Nat \ {0}
  BY <1>1, PromptParts
<1>3. StoreGood(entries, writing, disk, fault) /\ next_lin \in Nat /\ now \in Nat
  BY DEF SInv, CountersGood
<1> QED BY <1>1, <1>2, <1>3 DEF StoreGood, Tier, Fresh, expire

LEMMA StartsFresh ==
    ASSUME SInv, pc = "lookup", NEW d, Tier(d),
           TakeNew(new_session(Len(prompt.cells), next_lin), 0, d)
    PROVE  SInv'
<1> DEFINE u == new_session(Len(prompt.cells), next_lin)
<1>0. Len(prompt.cells) \in Nat \ {0} /\ next_lin \in Nat /\ prompt \in Prompts
  BY AtLookup
<1>1. u.tokens = <<>> /\ u.images = {} /\ u.kv = <<>> /\ u.rec = <<>> /\ u.ckpts = {}
  BY <1>0, NewFields
<1>5. SessionShape(u)
  BY <1>0, NewShape DEF HomeShape
<1>2. TakeNew(u, 0, d)
  OBVIOUS
<1> HIDE DEF u
<1>3. Fits(u, prompt, 0)
  BY <1>0, <1>1, FreshFits
<1>4. Len(u.rec) = 0 /\ Len(u.tokens) = 0 /\ 0 =< Len(prompt.cells) - 1
  BY <1>0, <1>1, EmptySeqs
<1> QED BY <1>1, <1>2, <1>3, <1>4, <1>5, NewTaken

(* Cut back or taken as it is, forked or restored. *)
LEMMA ShapeOfBest ==
    ASSUME StoreGood(entries, writing, disk, fault), NEW s \in entries
    PROVE  /\ Home(s, fault) /\ s \in SessionType /\ Known(s) /\ s.kv \in Seq(CellType)
           /\ s.tokens \in Seq(Token) /\ s.images \in SUBSET SpanType
           /\ s.rec \in Seq(CellType) /\ s.ckpts \in SUBSET CkptType /\ IsFiniteSet(s.ckpts)
           /\ Len(s.tokens) = Len(s.kv) /\ Len(s.rec) = Len(s.kv) /\ Len(s.kv) \in Nat
           /\ \A c \in s.ckpts : c.pos \in Nat /\ Len(c.rec) = c.pos /\ c.pos =< Len(s.kv)
           /\ s \in Reachable
           /\ fault \/ (Faithful(s) /\ s.rec = s.kv)
<1>1. Home(s, fault) /\ HomeShape(s) /\ SessionShape(s) /\ s \in SessionType
  BY DEF StoreGood, Home, HomeShape, SessionShape
<1>2. /\ s.kv \in Seq(CellType) /\ s.rec \in Seq(CellType) /\ s.ckpts \in SUBSET CkptType
      /\ Len(s.kv) \in Nat /\ s.tokens \in Seq(Token) /\ s.images \in SUBSET SpanType
  BY <1>1, SessionParts
<1>3. \A c \in s.ckpts : c.pos \in Nat
  BY <1>2, CkptParts
<1> QED BY <1>1, <1>2, <1>3, HomeKnown DEF Reachable, Home, HomeShape, SessionShape

LEMMA ExtendGood == ASSUME SInv, NEW s \in entries, Extend(s) PROVE SInv'
<1>0. pc = "lookup" /\ BestGPU = Len(s.tokens) /\ ResumeAt(s, prompt) = BestGPU
      /\ TakeResident(s, BestGPU, FALSE, s)
  BY DEF Extend, BestResident
<1>1. StoreGood(entries, writing, disk, fault) /\ prompt \in Prompts
  BY <1>0, AtLookup
<1> DEFINE n == Len(s.tokens)
<1>2. /\ SessionShape(s) /\ Known(s) /\ s.kv \in Seq(CellType) /\ Len(s.tokens) = Len(s.kv)
      /\ Len(s.rec) = Len(s.kv) /\ Len(s.kv) \in Nat /\ s \in Reachable
      /\ s.tokens \in Seq(Token) /\ s.images \in SUBSET SpanType
      /\ \A c \in s.ckpts : c.pos =< Len(s.kv)
      /\ fault \/ (Faithful(s) /\ s.rec = s.kv)
  BY <1>1, ShapeOfBest DEF Home, HomeShape
<1>3. n \in Nat /\ n =< Len(prompt.cells) - 1 /\ n =< SharedWith(s, prompt)
  BY <1>0, <1>1, <1>2, ResumeWhere
<1>4. ASSUME ~fault PROVE Fits(s, prompt, n)
  <2>1. Faithful(s) /\ s.rec = s.kv
    BY <1>2, <1>4
  <2>2. Prefix(s.kv, n) = s.kv /\ Prefix(s.tokens, n) = s.tokens
    BY <1>2, PrefixAll
  <2>3. images_within(s.images, n) = s.images
    BY <1>2, <2>1 DEF images_within, Faithful, Sound
  <2>4. UpTo(s, s, n)
    BY <1>2, <2>2, <2>3 DEF UpTo
  <2> QED BY <1>1, <1>2, <1>3, <2>1, <2>4, ResumeFits
<1> QED BY <1>0, <1>2, <1>3, <1>4, ResidentTaken

LEMMA CutBackGood == ASSUME SInv, NEW s \in entries, CutBack(s) PROVE SInv'
<1> DEFINE n == BestGPU
           c == checkpoint_at(s, n)
           e == {d \in s.ckpts : d.pos =< n}
           u == CutTo(s, n, c.rec, e)
<1>0. /\ pc = "lookup" /\ n # Len(s.tokens) /\ ResumeAt(s, prompt) = n /\ n > 0
      /\ TakeResident(s, n, TRUE, u)
  BY Zenon DEF CutBack, BestResident, CutTo
<1>1. StoreGood(entries, writing, disk, fault) /\ prompt \in Prompts
  BY <1>0, AtLookup
<1>2. /\ s \in SessionType /\ Known(s) /\ s.kv \in Seq(CellType) /\ Len(s.tokens) = Len(s.kv)
      /\ s.ckpts \in SUBSET CkptType /\ IsFiniteSet(s.ckpts) /\ s \in Reachable
      /\ \A d \in s.ckpts : Len(d.rec) = d.pos
      /\ fault \/ Faithful(s)
  BY <1>1, ShapeOfBest
<1>3. /\ n \in Nat /\ n =< Len(prompt.cells) - 1 /\ n =< SharedWith(s, prompt)
      /\ n =< Len(s.tokens)
      /\ \E d \in s.ckpts : d.pos = n
  <2>1. /\ ResumeAt(s, prompt) \in Nat /\ ResumeAt(s, prompt) =< Len(prompt.cells) - 1
        /\ ResumeAt(s, prompt) =< SharedWith(s, prompt) /\ ResumeAt(s, prompt) =< Len(s.tokens)
        /\ \/ ResumeAt(s, prompt) = 0 \/ ResumeAt(s, prompt) = Len(s.tokens)
           \/ \E k \in s.ckpts : k.pos = ResumeAt(s, prompt)
    BY <1>1, <1>2, ResumeWhere
  <2> HIDE DEF n
  <2> QED BY <1>0, <2>1
<1>4. c \in s.ckpts /\ c.pos = n
  BY <1>3, Zenon DEF checkpoint_at
<1>5. c.rec \in Seq(CellType) /\ Len(c.rec) = n
  BY <1>2, <1>4, CkptParts
<1>6. e \in SUBSET CkptType /\ IsFiniteSet(e) /\ \A d \in e : d \in s.ckpts /\ d.pos =< n
  BY <1>2, FS_Subset
<1> HIDE DEF c, e, n
<1>7. /\ SessionShape(u) /\ Len(u.rec) = n /\ Len(u.tokens) = n
      /\ u.kv = Prefix(s.kv, n) /\ u.tokens = Prefix(s.tokens, n)
      /\ u.images = images_within(s.images, n) /\ u.rec = c.rec /\ u.ckpts = e
  BY <1>2, <1>3, <1>5, <1>6, RebuiltShape
<1> HIDE DEF u
<1>8. ASSUME ~fault PROVE Fits(u, prompt, n)
  <2>1. Faithful(s)
    BY <1>2, <1>8
  <2>2. u.rec = u.kv
    BY <1>4, <1>7, <2>1 DEF Faithful, Sound
  <2>3. UpTo(u, s, n)
    BY <1>6, <1>7 DEF UpTo
  <2> QED BY <1>1, <1>2, <1>3, <2>1, <2>2, <2>3, ResumeFits
<1> QED BY <1>0, <1>2, <1>3, <1>7, <1>8, ResidentTaken

(* A state of its own behind a checkpoint of `l`. *)
LEMMA Branched ==
    ASSUME SInv, pc = "lookup", NEW l \in Reachable, Known(l), l.kv \in Seq(CellType),
           Len(l.tokens) = Len(l.kv), fault \/ Faithful(l),
           NEW n, n = ResumeAt(l, prompt),
           NEW c \in l.ckpts, c.pos = n, Len(c.rec) = n, c.rec \in Seq(CellType),
           NEW k, k \in CkptType, k.pos = n, k.rec = c.rec,
           NEW lin \in Nat, NEW d, Tier(d),
           TakeNew(Rebuild(new_session(Len(prompt.cells), lin), l, n, c.rec, {k}), n, d)
    PROVE  SInv'
<1> DEFINE s == new_session(Len(prompt.cells), lin)
           K == {k}
           u == Rebuild(s, l, n, c.rec, K)
<1>0. TakeNew(u, n, d)
  OBVIOUS
<1>1. prompt \in Prompts /\ Len(prompt.cells) \in Nat
  BY AtLookup
<1>2. s \in SessionType
  BY <1>1, NewFields
<1>3. /\ n \in Nat /\ n =< Len(prompt.cells) - 1 /\ n =< SharedWith(l, prompt)
      /\ n =< Len(l.tokens)
  BY <1>1, ResumeWhere
<1>4. K \in SUBSET CkptType /\ IsFiniteSet(K) /\ \A m \in K : m = k
  BY FS_Singleton
<1> HIDE DEF s, K
<1>5. \A m \in K : Len(m.rec) = m.pos /\ m.pos =< n
  BY <1>3, <1>4
<1>6. /\ SessionShape(u) /\ Len(u.rec) = n /\ Len(u.tokens) = n
      /\ u.kv = Prefix(l.kv, n) /\ u.tokens = Prefix(l.tokens, n)
      /\ u.images = images_within(l.images, n) /\ u.rec = c.rec /\ u.ckpts = K
  BY <1>2, <1>3, <1>4, <1>5, RebuiltShape
<1> HIDE DEF u
<1>7. ASSUME ~fault PROVE Fits(u, prompt, n)
  <2>1. Faithful(l)
    BY <1>7
  <2>2. u.rec = u.kv
    BY <1>6, <2>1 DEF Faithful, Sound
  <2>3. UpTo(u, l, n)
    BY <1>3, <1>4, <1>6 DEF UpTo
  <2> QED BY <1>1, <1>3, <2>1, <2>2, <2>3, ResumeFits
<1> QED BY <1>0, <1>3, <1>6, <1>7, NewTaken

LEMMA ForkGood == ASSUME SInv, NEW s \in entries, Fork(s) PROVE SInv'
<1> DEFINE n == BestGPU
           c == checkpoint_at(s, n)
<1>0. /\ pc = "lookup" /\ n # Len(s.tokens) /\ ResumeAt(s, prompt) = n /\ n > 0
      /\ TakeNew(Rebuild(new_session(Len(prompt.cells), next_lin), s, n, c.rec, {c}), n, Fresh)
  BY Zenon DEF Fork, BestResident, Rebuild
<1>1. /\ StoreGood(entries, writing, disk, fault) /\ prompt \in Prompts /\ next_lin \in Nat
      /\ Tier(Fresh)
  BY <1>0, AtLookup
<1>2. /\ Known(s) /\ s.kv \in Seq(CellType) /\ Len(s.tokens) = Len(s.kv)
      /\ s.ckpts \in SUBSET CkptType /\ s \in Reachable
      /\ \A d \in s.ckpts : Len(d.rec) = d.pos
      /\ fault \/ Faithful(s)
  BY <1>1, ShapeOfBest
<1>3. \E d \in s.ckpts : d.pos = n
  <2>1. \/ ResumeAt(s, prompt) = 0 \/ ResumeAt(s, prompt) = Len(s.tokens)
        \/ \E k \in s.ckpts : k.pos = ResumeAt(s, prompt)
    BY <1>1, <1>2, ResumeWhere
  <2> HIDE DEF n
  <2> QED BY <1>0, <2>1
<1>4. c \in s.ckpts /\ c.pos = n
  BY <1>3, Zenon DEF checkpoint_at
<1>5. c.rec \in Seq(CellType) /\ Len(c.rec) = n /\ c \in CkptType
  BY <1>2, <1>4, CkptParts
<1> HIDE DEF c, n
<1>6. n = ResumeAt(s, prompt)
  BY <1>0
<1> QED BY <1>0, <1>1, <1>2, <1>4, <1>5, <1>6, Branched

LEMMA RestoreGood == ASSUME SInv, NEW e \in disk, Restore(e) PROVE SInv'
<1> DEFINE n == BestDisk
           c == CHOOSE d \in e.ckpts : d.pos = n
           forked == forks(e, n)
           lin == IF forked \/ lineage_held(e.lineage) THEN next_lin ELSE e.lineage
           k == [pos |-> n, decode |-> FALSE, rec |-> c.rec]
           d2 == IF forked THEN touch(Fresh, e.id, now) ELSE remove(Fresh, e.id)
<1>0. /\ pc = "lookup" /\ e \in Fresh /\ ResumeAt(e, prompt) = n /\ n > BestGPU
      /\ TakeNew(Rebuild(new_session(Len(prompt.cells), lin), e, n, c.rec, {k}), n, d2)
  BY Zenon DEF Restore, BestOnDisk, Rebuild
<1>1. /\ StoreGood(entries, writing, disk, fault) /\ prompt \in Prompts /\ next_lin \in Nat
      /\ Tier(Fresh) /\ now \in Nat
  BY <1>0, AtLookup
<1>2. /\ Archived(e) /\ Known(e) /\ e \in Reachable
  BY <1>0, <1>1, ReachableKnown DEF Reachable
<1>3. /\ e \in EntryType /\ Len(e.tokens) = Len(e.kv) /\ Faithful(e)
      /\ (\E d \in e.ckpts : d.pos = Len(e.tokens))
      /\ \A d \in e.ckpts : Len(d.rec) = d.pos
  BY <1>2 DEF Archived, EntryShape
<1>4. e.kv \in Seq(CellType) /\ e.lineage \in Nat /\ \A d \in e.ckpts : d.rec \in Seq(CellType)
  BY <1>3, EntryParts
<1>5. n \in Nat /\ n # 0
  BY <1>0, <1>1, BestIs
<1>6. \E d \in e.ckpts : d.pos = n
  <2>1. \/ ResumeAt(e, prompt) = 0 \/ ResumeAt(e, prompt) = Len(e.tokens)
        \/ \E j \in e.ckpts : j.pos = ResumeAt(e, prompt)
    BY <1>1, <1>2, ResumeWhere
  <2> HIDE DEF n
  <2> QED BY <1>0, <1>3, <1>5, <2>1
<1>7. c \in e.ckpts /\ c.pos = n
  BY <1>6, Zenon
<1> HIDE DEF c, n
<1>8. c.rec \in Seq(CellType) /\ Len(c.rec) = n
  BY <1>3, <1>4, <1>7
<1>9. k \in CkptType /\ k.pos = n /\ k.rec = c.rec
  BY <1>5, <1>8 DEF CkptType
<1>10. lin \in Nat
  BY <1>1, <1>4
<1>11. Tier(d2)
  <2>1. Tier(touch(Fresh, e.id, now))
    BY <1>1, TouchTier
  <2>2. Tier(remove(Fresh, e.id))
    BY <1>1 DEF Tier, remove
  <2> QED BY <2>1, <2>2
<1> HIDE DEF lin, k, d2, forked
<1>12. n = ResumeAt(e, prompt)
  BY <1>0
<1> QED BY <1>0, <1>2, <1>3, <1>4, <1>7, <1>8, <1>9, <1>10, <1>11, <1>12, Branched

LEMMA LookupGood == ASSUME SInv, Lookup PROVE SInv'
<1>1. CASE StartFresh
  BY <1>1, AtLookup, StartsFresh DEF StartFresh
<1>2. ASSUME NEW e \in disk, DropUnreadable(e) PROVE SInv'
  <2>1. pc = "lookup" /\ TakeNew(new_session(Len(prompt.cells), next_lin), 0, remove(Fresh, e.id))
    BY <1>2 DEF DropUnreadable
  <2>2. Tier(remove(Fresh, e.id))
    BY <2>1, AtLookup DEF Tier, remove
  <2> QED BY <2>1, <2>2, StartsFresh
<1> QED BY <1>1, <1>2, ExtendGood, CutBackGood, ForkGood, RestoreGood DEF Lookup
-----------------------------------------------------------------------------
(* The request: what it feeds. *)

LEMMA SeqTyped ==
    ASSUME NEW S, NEW n \in Nat, NEW f \in [1 .. n -> S]
    PROVE  f \in Seq(S) /\ Len(f) = n
<1>1. f \in Seq(S)
  BY SeqDef
<1> DEFINE m == Len(f)
<1>2. m \in Nat /\ 1 .. m = 1 .. n
  BY <1>1, LenProperties
<1> HIDE DEF m
<1>3. ~(m < n)
  <2>1. SUFFICES ASSUME m < n PROVE FALSE
    OBVIOUS
  <2>2. n \in 1 .. n /\ n \notin 1 .. m
    BY <1>2, <2>1
  <2> QED BY <1>2, <2>2
<1>4. ~(n < m)
  <2>1. SUFFICES ASSUME n < m PROVE FALSE
    OBVIOUS
  <2>2. m \in 1 .. m /\ m \notin 1 .. n
    BY <1>2, <2>1
  <2> QED BY <1>2, <2>2
<1>5. m = n
  BY <1>2, <1>3, <1>4
<1> QED BY <1>1, <1>5 DEF m

(* A feed moves the position by what is fed; without a fault it is the     *)
(* cells that lie there then.                                              *)
LEMMA FeedIs ==
    ASSUME NEW s, SessionShape(s), NEW cells \in Seq(Cell)
    PROVE  LET u == Feed(s, cells)
           IN  /\ SessionShape(u) /\ u.tokens = s.tokens /\ u.images = s.images
               /\ u.ckpts = s.ckpts /\ Len(u.rec) = Len(s.rec) + Len(cells)
               /\ u.cap \in Nat
               /\ ~fault => /\ u.rec = s.rec \o cells
                            /\ s.kv = s.rec => u.kv = u.rec
<1> DEFINE computed == IF fault THEN [i \in DOMAIN cells |-> Garbage] ELSE cells
           a == Prefix(s.kv, Len(s.rec)) \o computed
           b == s.rec \o computed
           u == [s EXCEPT !.kv = a, !.rec = b]
<1>1. /\ s \in SessionType /\ s.kv \in Seq(CellType) /\ s.rec \in Seq(CellType)
      /\ Len(s.kv) = Len(s.rec) /\ Len(s.rec) \in Nat /\ IsFiniteSet(s.ckpts) /\ s.cap \in Nat
      /\ \A c \in s.ckpts : Len(c.rec) = c.pos /\ c.pos =< Len(s.rec) /\ c.pos \in Nat
  BY SessionParts, CkptParts DEF SessionShape
<1>2. Prefix(s.kv, Len(s.rec)) = s.kv
  BY <1>1, PrefixAll
<1>3. computed \in Seq(CellType) /\ Len(computed) = Len(cells) /\ Len(cells) \in Nat
  <2>1. DOMAIN cells = 1 .. Len(cells) /\ Len(cells) \in Nat
    BY LenProperties
  <2>2. CASE fault
    <3> DEFINE g == [i \in 1 .. Len(cells) |-> Garbage]
    <3>1. g \in [1 .. Len(cells) -> CellType]
      BY DEF CellType
    <3>2. g \in Seq(CellType) /\ Len(g) = Len(cells)
      BY <2>1, <3>1, SeqTyped
    <3>3. computed = g
      BY <2>1, <2>2
    <3> QED BY <2>1, <3>2, <3>3
  <2>3. CASE ~fault
    <3>1. Cell \subseteq CellType
      BY DEF CellType
    <3>2. \A i \in 1 .. Len(cells) : cells[i] \in CellType
      BY <3>1, ElementOfSeq
    <3>3. cells \in [1 .. Len(cells) -> CellType]
      BY <2>1, <3>2, LenProperties
    <3>4. cells \in Seq(CellType)
      BY <2>1, <3>3, SeqTyped
    <3> QED BY <2>1, <2>3, <3>4
  <2> QED BY <2>2, <2>3
<1>4. ~fault => computed = cells
  OBVIOUS
<1> HIDE DEF computed
<1>5. /\ a \in Seq(CellType) /\ Len(a) = Len(s.rec) + Len(cells) /\ a = s.kv \o computed
      /\ b \in Seq(CellType) /\ Len(b) = Len(s.rec) + Len(cells)
  <2>1. a = s.kv \o computed
    BY <1>2
  <2>2. s.kv \o computed \in Seq(CellType) /\ Len(s.kv \o computed) = Len(s.kv) + Len(computed)
    BY ONLY <1>1, <1>3, ConcatProperties
  <2>3. b \in Seq(CellType) /\ Len(b) = Len(s.rec) + Len(computed)
    BY ONLY <1>1, <1>3, ConcatProperties
  <2> QED BY <1>1, <1>3, <2>1, <2>2, <2>3
<1>6. s.kv = s.rec => a = b
  BY <1>2
<1> HIDE DEF a, b
<1>7. /\ u \in SessionType /\ u.tokens = s.tokens /\ u.images = s.images /\ u.kv = a
      /\ u.rec = b /\ u.ckpts = s.ckpts /\ u.cap = s.cap
  BY <1>1, <1>5 DEF SessionType
<1>8. u = Feed(s, cells)
  BY DEF Feed, computed, a, b
<1> HIDE DEF u
<1>9. \A c \in s.ckpts : c.pos =< Len(b)
  BY <1>1, <1>3, <1>5
<1>10. SessionShape(u)
  BY <1>1, <1>5, <1>7, <1>9 DEF SessionShape
<1>11. ~fault => b = s.rec \o cells
  BY <1>4 DEF b
<1> QED BY <1>1, <1>5, <1>6, <1>7, <1>8, <1>10, <1>11

(* The prompt fed up to `at`. *)
FedUpTo(s, p, at) == Feed(s, SubSeq(p.cells, Len(s.rec) + 1, at))

LEMMA PromptFed ==
    ASSUME NEW s, SessionShape(s), NEW p \in Prompts, NEW at \in Nat, Len(s.rec) =< at,
           at =< Len(p.cells)
    PROVE  LET u == FedUpTo(s, p, at)
           IN  /\ SessionShape(u) /\ u.tokens = s.tokens /\ u.images = s.images
               /\ u.ckpts = s.ckpts /\ Len(u.rec) = at /\ u.cap \in Nat
               /\ ~fault /\ OnPrompt(s, p) => OnPrompt(u, p)
<1> DEFINE k == Len(s.rec)
           cells == SubSeq(p.cells, k + 1, at)
           u == Feed(s, cells)
<1>1. k \in Nat /\ p.cells \in Seq(Cell) /\ Len(p.cells) \in Nat
  BY SessionParts, PromptParts DEF SessionShape
<1>2. cells \in Seq(Cell) /\ Len(cells) = at - k
  <2>1. k =< at /\ at =< Len(p.cells)
    OBVIOUS
  <2> HIDE DEF k
  <2> QED BY <1>1, <2>1, SliceIs
<1> HIDE DEF cells
<1>3. /\ SessionShape(u) /\ u.tokens = s.tokens /\ u.images = s.images
      /\ u.ckpts = s.ckpts /\ Len(u.rec) = k + Len(cells) /\ u.cap \in Nat
      /\ ~fault => /\ u.rec = s.rec \o cells
                   /\ s.kv = s.rec => u.kv = u.rec
  BY <1>2, FeedIs
<1>4. Len(u.rec) = at
  BY <1>1, <1>2, <1>3
<1>5. Prefix(p.cells, k) \o cells = Prefix(p.cells, at)
  BY <1>1, Joined DEF cells
<1>6. FedUpTo(s, p, at) = u
  BY DEF FedUpTo, cells
<1> HIDE DEF u, k
<1>7. ASSUME ~fault, OnPrompt(s, p) PROVE OnPrompt(u, p)
  <2>1. u.rec = Prefix(p.cells, at) /\ u.kv = u.rec
    BY <1>3, <1>5, <1>7 DEF OnPrompt, k
  <2>2. Clear(u, p.images)
    BY <1>3, <1>7 DEF OnPrompt, Clear
  <2> QED BY <1>3, <1>4, <1>7, <2>1, <2>2 DEF OnPrompt
<1> QED BY <1>3, <1>4, <1>6, <1>7
-----------------------------------------------------------------------------
(* The steps of the store and of the requests. *)

(* What every step of an operation needs of the state it starts in. *)
LEMMA StateParts ==
    ASSUME SInv
    PROVE  /\ StoreGood(entries, writing, disk, fault) /\ SlotsGood(stage, session, plan, fault)
           /\ next_id \in Nat \ {0} /\ next_lin \in Nat \ {0} /\ clock \in Nat /\ now \in Nat
           /\ served \in Nat /\ recent_new \in Seq(Nat) /\ fault \in BOOLEAN
           /\ cur \in Slots \cup {None}
BY DEF SInv, CountersGood

LEMMA AcquireGood == ASSUME SInv, NEW r \in Slots, NEW p \in Prompts, Acquire(r, p) PROVE SInv'
<1> DEFINE q == [prompt |-> p, reused |-> 0, agreement |-> 0, cut_back |-> FALSE, boundary |-> 0]
<1>1. /\ stage' = [stage EXCEPT ![r] = "acquire"] /\ plan' = [plan EXCEPT ![r] = q]
      /\ pc' = "reclaim" /\ cur' = r /\ served' = served + 1 /\ collect_finished
      /\ UNCHANGED <<session, next_id, next_lin, clock, recent_new, fault, now>>
  BY DEF Acquire
<1>2. q \in PlanType /\ q.prompt = p
  BY PromptParts DEF PlanType
<1> HIDE DEF q
<1>3. SlotGood("acquire", session[r], q, fault)
  BY <1>2, StateParts DEF SlotsGood, SlotGood
<1>4. session' = [session EXCEPT ![r] = session[r]]
  BY <1>1, StateParts DEF SlotsGood
<1>5. SlotsGood(stage', session', plan', fault)
  BY <1>1, <1>2, <1>3, <1>4, StateParts, SlotMoved
<1>6. StoreGood(entries', writing', disk', fault')
  BY <1>1, StateParts, CollectGood
<1>7. CountersGood'
  BY <1>1 DEF SInv, CountersGood
<1>8. stage'[r] = "acquire"
  BY <1>1, StateParts DEF SlotsGood
<1> QED BY <1>1, <1>5, <1>6, <1>7, <1>8 DEF SInv, PlaceGood

LEMMA ReclaimGood == ASSUME SInv, reclaim_for PROVE SInv'
<1>1. /\ pc = "reclaim" /\ pc' = "lookup"
      /\ UNCHANGED <<disk, next_id, next_lin, clock, recent_new, reqVars, cur, fault, now, served>>
      /\ \/ /\ writing # None /\ writing' = None
            /\ entries' = entries \cup {[writing.session EXCEPT !.disk = NoCopy]}
         \/ UNCHANGED <<entries, writing>>
  BY Zenon DEF reclaim_for
<1>2. StoreGood(entries', writing', disk', fault')
  <2>1. CASE UNCHANGED <<entries, writing>>
    BY <1>1, <2>1, StateParts
  <2>2. CASE /\ writing # None /\ writing' = None
             /\ entries' = entries \cup {[writing.session EXCEPT !.disk = NoCopy]}
    <3>1. Home(writing.session, FALSE) /\ NoCopy \in CopyType
      BY <2>2, StateParts DEF StoreGood, CopyType
    <3>2. Home([writing.session EXCEPT !.disk = NoCopy], FALSE)
      BY <3>1, CopyKeepsHome
    <3> DEFINE w == [writing.session EXCEPT !.disk = NoCopy]
    <3>3. Home(w, fault)
      BY <3>2, HomeWeak
    <3> HIDE DEF w
    <3> QED BY <1>1, <2>2, <3>3, StateParts DEF StoreGood, w
  <2> QED BY <1>1, <2>1, <2>2
<1>3. SlotsGood(stage', session', plan', fault')
  BY <1>1, StateParts DEF reqVars
<1>4. CountersGood'
  BY <1>1 DEF SInv, CountersGood
<1> QED BY <1>1, <1>2, <1>3, <1>4 DEF SInv, PlaceGood, reqVars

LEMMA RoomGood ==
    ASSUME SInv, MakeRoom \/ RoomMade \/ TrimReleased \/ Released PROVE SInv'
<1>1. CASE MakeRoom \/ TrimReleased
  <2>1. /\ pc \in {"room", "budget"} /\ evict_lru
        /\ UNCHANGED <<next_lin, clock, recent_new, reqVars, pc, cur, fault, now, served>>
    BY <1>1 DEF MakeRoom, TrimReleased
  <2>2. StoreGood(entries', writing', disk', fault') /\ next_id' \in Nat \ {0}
    BY <2>1, StateParts, LruGood
  <2>3. SlotsGood(stage', session', plan', fault')
    BY <2>1, StateParts DEF reqVars
  <2>4. CountersGood'
    BY <2>1, <2>2 DEF SInv, CountersGood
  <2> QED BY <2>1, <2>2, <2>3, <2>4 DEF SInv, PlaceGood
<1>2. CASE RoomMade \/ Released
  <2>1. /\ pc' = "idle" /\ cur' = None
        /\ UNCHANGED <<entries, writing, disk, next_id, clock, recent_new, next_lin, reqVars,
                       fault, now, served>>
    BY <1>2 DEF RoomMade, Released, storeVars
  <2>2. StoreGood(entries', writing', disk', fault') /\ SlotsGood(stage', session', plan', fault')
    BY <2>1, StateParts DEF reqVars
  <2>3. CountersGood'
    BY <2>1 DEF SInv, CountersGood
  <2> QED BY <2>1, <2>2, <2>3 DEF SInv, PlaceGood
<1> QED BY <1>1, <1>2

(* What a request that runs knows of itself. *)
LEMMA RunningParts ==
    ASSUME SInv, NEW r \in Slots, stage[r] # "none"
    PROVE  /\ SlotGood(stage[r], session[r], plan[r], fault)
           /\ plan[r] \in PlanType /\ plan[r].prompt \in Prompts /\ SessionShape(session[r])
           /\ plan[r].reused \in Nat /\ plan[r].boundary \in Nat /\ plan[r].agreement \in Nat
<1>1. SlotGood(stage[r], session[r], plan[r], fault)
  BY StateParts DEF SlotsGood
<1>2. plan[r] \in PlanType /\ plan[r].prompt \in Prompts /\ SessionShape(session[r])
  BY <1>1 DEF SlotGood
<1> QED BY <1>1, <1>2 DEF PlanType

LEMMA FailGood == ASSUME SInv, NEW r \in Slots, Fail(r) PROVE SInv'
<1>1. /\ pc = "idle"
      /\ session' = [session EXCEPT ![r] = NoSession]
      /\ plan' = [plan EXCEPT ![r] = None]
      /\ stage' = [stage EXCEPT ![r] = "none"]
      /\ UNCHANGED <<entries, writing, disk, next_id, clock, recent_new, next_lin, pc, cur, fault,
                     now, served>>
  BY DEF Fail, storeVars
<1>2. SessionShape(NoSession)
  BY NewShape DEF NoSession, HomeShape
<1>3. SlotGood("none", NoSession, None, fault)
  BY <1>2 DEF SlotGood
<1>4. SlotsGood(stage', session', plan', fault)
  BY <1>1, <1>3, StateParts, SlotMoved
<1>5. StoreGood(entries', writing', disk', fault')
  BY <1>1, StateParts
<1>6. CountersGood'
  BY <1>1 DEF SInv, CountersGood
<1> QED BY <1>1, <1>4, <1>5, <1>6 DEF SInv, PlaceGood
-----------------------------------------------------------------------------
(* The prefill. *)

(* The beginning of a prompt, as a lineage. *)
LEMMA PrefixOfPrompt ==
    ASSUME NEW p \in Prompts, NEW b \in Nat, b =< Len(p.cells),
           NEW l, l.kv = Prefix(p.cells, b), l.tokens = Prefix(tokens(p), b),
           l.images = images_within(p.images, b),
           \A c \in l.ckpts : c.pos = b /\ c.rec = Prefix(p.cells, b)
    PROVE  Faithful(l) /\ Len(l.kv) = b /\ Len(l.tokens) = b
<1>1. /\ p.cells \in Seq(Cell) /\ p.images \in SUBSET SpanType /\ tokens(p) \in Seq(Token)
      /\ Len(tokens(p)) = Len(p.cells) /\ tokens(p) = TokensOf(p.cells) /\ Len(p.cells) \in Nat
  BY PromptParts DEF tokens
<1>2. l.tokens = TokensOf(l.kv)
  BY <1>1, PrefixTokens
<1>3. /\ Len(Prefix(p.cells, b)) = b
      /\ \A i \in 1 .. b : Prefix(p.cells, b)[i] = p.cells[i]
      /\ Prefix(p.cells, b) \in Seq(Cell)
  BY <1>1, PrefixIs
<1>4. Len(Prefix(tokens(p), b)) = b
  BY <1>1, PrefixIs
<1>5. Prefix(Prefix(p.cells, b), b) = Prefix(p.cells, b)
  BY <1>3, PrefixAll
<1>6. ASSUME NEW i \in l.images
      PROVE  End(i) =< Len(l.kv) /\ \A k \in i.start + 1 .. End(i) : l.kv[k] = i.digest
  <2>1. i \in p.images /\ End(i) =< b /\ i \in SpanType
    BY <1>1 DEF images_within
  <2>2. \A k \in i.start + 1 .. End(i) : p.cells[k] = i.digest
    BY <2>1, PromptImages
  <2>3. i.start \in Nat /\ End(i) \in Nat
    BY <2>1, SpanEnds
  <2>4. \A k \in i.start + 1 .. End(i) : k \in 1 .. b
    BY <2>1, <2>3
  <2> QED BY <1>3, <2>1, <2>2, <2>4
<1>7. \A c \in l.ckpts : c.pos =< Len(l.kv) /\ c.rec = Prefix(l.kv, c.pos)
  BY <1>3, <1>5
<1>8. Clear(l, l.images)
  <2>1. \A i \in l.images : i \in SpanType /\ End(i) =< b
    BY <1>1 DEF images_within
  <2>2. \A i \in l.images : End(i) \in Nat
    BY <2>1, SpanEnds
  <2> QED BY <2>1, <2>2 DEF Clear
<1>9. Sound(l)
  BY <1>2, <1>6, <1>7 DEF Sound
<1> QED BY <1>3, <1>4, <1>8, <1>9 DEF Faithful

(* The durable entry a prefill leaves behind. *)
DurableOf(p, b, s) ==
    [id |-> next_id, tokens |-> Prefix(tokens(p), b),
     images |-> images_within(p.images, b), kv |-> Prefix(s.kv, b),
     ckpts |-> {[pos |-> b, rec |-> s.rec]}, bytes |-> b + 1,
     used |-> now, durable |-> TRUE, lineage |-> next_lin]

LEMMA DurableIsArchived ==
    ASSUME NEW p \in Prompts, NEW b \in Nat, b =< Len(p.cells),
           NEW s, SessionShape(s), OnPrompt(s, p), Len(s.rec) = b,
           next_id \in Nat, next_lin \in Nat, now \in Nat
    PROVE  Archived(DurableOf(p, b, s)) /\ DurableOf(p, b, s).bytes \in Nat
<1> DEFINE e == DurableOf(p, b, s)
           t == Prefix(tokens(p), b)
           im == images_within(p.images, b)
           kv == Prefix(s.kv, b)
           k == [pos |-> b, rec |-> s.rec]
<1>1. /\ s.rec \in Seq(CellType) /\ s.kv = s.rec /\ s.rec = Prefix(p.cells, b)
      /\ Prefix(s.rec, b) = s.rec
  BY SessionParts, PrefixAll DEF SessionShape, OnPrompt
<1>2. /\ e.tokens = t /\ e.images = im /\ e.kv = kv /\ e.ckpts = {k} /\ e.bytes = b + 1
      /\ e.lineage = next_lin /\ e.id = next_id
      /\ e = [id |-> next_id, tokens |-> t, images |-> im, kv |-> kv, ckpts |-> {k},
              bytes |-> b + 1, used |-> now, durable |-> TRUE, lineage |-> next_lin]
  BY DEF DurableOf
<1>3. /\ tokens(p) \in Seq(Token) /\ Len(tokens(p)) = Len(p.cells)
      /\ p.images \in SUBSET SpanType /\ Len(p.cells) \in Nat
  BY PromptParts
<1>4. t \in Seq(Token)
  BY <1>3, PrefixIs
<1>5. im \in SUBSET SpanType
  BY <1>3 DEF images_within
<1>6. k \in [pos : Nat, rec : Seq(CellType)] /\ k.pos = b /\ k.rec = s.rec
  BY <1>1
<1>7. kv \in Seq(CellType) /\ kv = Prefix(p.cells, b)
  BY <1>1
<1> HIDE DEF t, im, kv, k
<1>8. e \in EntryType
  BY <1>2, <1>4, <1>5, <1>6, <1>7 DEF EntryType
<1>9. \A c \in e.ckpts : c.pos = b /\ c.rec = Prefix(p.cells, b)
  BY <1>1, <1>2, <1>6
<1>10. e.kv = Prefix(p.cells, b) /\ e.tokens = Prefix(tokens(p), b)
       /\ e.images = images_within(p.images, b)
  BY <1>2, <1>7 DEF t, im
<1> HIDE DEF e
<1>11. Faithful(e) /\ Len(e.kv) = b /\ Len(e.tokens) = b
  BY <1>9, <1>10, PrefixOfPrompt
<1>12. \A c \in e.ckpts : Len(c.rec) = c.pos /\ c.pos =< Len(e.kv)
  BY <1>9, <1>10, <1>11
<1>13. \E c \in e.ckpts : c.pos = Len(e.tokens)
  BY <1>2, <1>6, <1>11
<1>14. Archived(e)
  BY <1>8, <1>11, <1>12, <1>13 DEF Archived, EntryShape
<1> QED BY <1>2, <1>14 DEF e

LEMMA StoreDurableGood == ASSUME SInv, NEW r \in Slots, StoreDurable(r) PROVE SInv'
<1> DEFINE p == plan[r].prompt
           b == plan[r].boundary
           s == FedUpTo(session[r], p, b)
           e == DurableOf(p, b, s)
           q == [plan[r] EXCEPT !.boundary = 0]
<1>1. /\ pc = "idle" /\ ~fault /\ stage[r] = "prefill" /\ b > 0
      /\ disk' \in Stored(expire(disk, now), e)
      /\ session' = [session EXCEPT ![r] = s]
      /\ next_id' = reserve /\ next_lin' = next_lin + 1
      /\ plan' = [plan EXCEPT ![r].boundary = 0]
      /\ UNCHANGED <<entries, writing, clock, recent_new, stage, pc, cur, fault, now, served>>
  BY DEF StoreDurable, FedUpTo, DurableOf
<1>2. /\ SlotGood("prefill", session[r], plan[r], fault)
      /\ plan[r] \in PlanType /\ p \in Prompts /\ SessionShape(session[r])
      /\ plan[r].reused \in Nat /\ b \in Nat /\ plan[r].agreement \in Nat
  BY <1>1, RunningParts
<1>3. /\ plan[r].reused < b /\ b =< plan[r].agreement /\ Len(session[r].rec) = plan[r].reused
      /\ plan[r].agreement < Len(p.cells) /\ plan[r].reused =< plan[r].agreement
      /\ Len(session[r].tokens) = plan[r].reused
      /\ OnPrompt(session[r], p) /\ session[r].tokens = Prefix(tokens(p), plan[r].reused)
      /\ Outside(plan[r].reused, p.images)
  BY <1>1, <1>2 DEF SlotGood, Planned
<1>4. Len(p.cells) \in Nat
  BY <1>2, PromptParts
<1>5. Len(session[r].rec) =< b /\ b =< Len(p.cells) /\ b =< Len(p.cells) - 1
  BY SMTT(30), <1>2, <1>3, <1>4
<1>6. /\ SessionShape(s) /\ s.tokens = session[r].tokens /\ Len(s.rec) = b /\ OnPrompt(s, p)
  BY <1>1, <1>2, <1>3, <1>5, PromptFed
<1>7. Archived(e)
  BY <1>2, <1>5, <1>6, StateParts, DurableIsArchived
<1>8. /\ q \in PlanType /\ q.prompt = p /\ q.reused = plan[r].reused
      /\ q.agreement = plan[r].agreement /\ q.boundary = 0
  BY <1>2 DEF PlanType
<1>9. plan' = [plan EXCEPT ![r] = q]
  BY <1>1, StateParts DEF SlotsGood
<1>10. stage' = [stage EXCEPT ![r] = "prefill"]
  BY <1>1, StateParts DEF SlotsGood
<1>11. Tier(disk')
  <2>1. disk' \subseteq expire(disk, now) \cup {e}
    BY <1>1, StoredWithin
  <2>2. expire(disk, now) \subseteq disk
    BY DEF expire
  <2> HIDE DEF e
  <2> QED BY <1>7, <2>1, <2>2, StateParts DEF Tier, StoreGood
<1> HIDE DEF s, q, e
<1>12. Planned(s, q)
  BY <1>2, <1>3, <1>5, <1>6, <1>8 DEF Planned
<1>13. SlotGood("prefill", s, q, fault)
  BY <1>2, <1>3, <1>6, <1>8, <1>12 DEF SlotGood
<1>14. SlotsGood(stage', session', plan', fault)
  <2>1. session' = [session EXCEPT ![r] = s]
    BY <1>1
  <2> QED BY <1>8, <1>9, <1>10, <1>13, <2>1, StateParts, SlotMoved
<1>15. StoreGood(entries', writing', disk', fault')
  BY <1>1, <1>11, StateParts DEF StoreGood, Tier
<1>16. CountersGood'
  BY <1>1, StateParts DEF SInv, CountersGood, reserve
<1> QED BY <1>1, <1>14, <1>15, <1>16 DEF SInv, PlaceGood

LEMMA FinishPrefillGood == ASSUME SInv, NEW r \in Slots, FinishPrefill(r) PROVE SInv'
<1> DEFINE p == plan[r].prompt
           n == Len(p.cells) - 1
           s == FedUpTo(session[r], p, n)
           k == Checkpoint(s, FALSE)
           e == insert_checkpoint(s.ckpts, k)
           u == [s EXCEPT !.ckpts = e]
<1>1. /\ pc = "idle" /\ ~fault /\ stage[r] = "prefill"
      /\ session' = [session EXCEPT ![r] = u]
      /\ stage' = [stage EXCEPT ![r] = "decode"]
      /\ UNCHANGED <<entries, writing, disk, next_id, clock, recent_new, next_lin, plan, pc, cur,
                     fault, now, served>>
  BY DEF FinishPrefill, FedUpTo, storeVars
<1>2. /\ SlotGood("prefill", session[r], plan[r], fault)
      /\ plan[r] \in PlanType /\ p \in Prompts /\ SessionShape(session[r])
      /\ plan[r].reused \in Nat /\ plan[r].agreement \in Nat
  BY <1>1, RunningParts
<1>3. Planned(session[r], plan[r]) /\ OnPrompt(session[r], p)
      /\ session[r].tokens = Prefix(tokens(p), plan[r].reused)
  BY <1>1, <1>2 DEF SlotGood
<1>4. Len(p.cells) \in Nat \ {0} /\ p.cells \in Seq(Cell) /\ p.images \in SUBSET SpanType
  BY <1>2, PromptParts
<1>5. n \in Nat /\ n =< Len(p.cells) /\ Len(session[r].rec) =< n
  <2>1. Len(session[r].rec) =< n
    BY <1>3 DEF Planned
  <2>2. n \in Nat /\ n =< Len(p.cells)
    <3>1. \A m \in Nat \ {0} : m - 1 \in Nat /\ m - 1 =< m
      OBVIOUS
    <3> QED BY ONLY <1>4, <3>1
  <2> QED BY <2>1, <2>2
<1>6. /\ SessionShape(s) /\ s.tokens = session[r].tokens /\ s.images = session[r].images
      /\ s.ckpts = session[r].ckpts /\ Len(s.rec) = n /\ OnPrompt(s, p)
  BY ZenonT(30), <1>1, <1>2, <1>3, <1>5, PromptFed
<1> HIDE DEF s
<1>7. /\ s \in SessionType /\ s.rec \in Seq(CellType) /\ s.ckpts \in SUBSET CkptType
      /\ IsFiniteSet(s.ckpts)
  BY <1>6, SessionParts DEF SessionShape
<1>8. k.pos = n /\ k.rec = s.rec /\ k \in CkptType
  BY <1>5, <1>6, <1>7 DEF Checkpoint, CkptType
<1> HIDE DEF k
<1>9. e \in SUBSET CkptType /\ IsFiniteSet(e) /\ \A c \in e : c \in s.ckpts \/ c = k
  BY <1>7, <1>8, FS_AddElement DEF insert_checkpoint
<1> HIDE DEF e
<1>10. /\ u \in SessionType /\ u.tokens = s.tokens /\ u.images = s.images /\ u.kv = s.kv
       /\ u.rec = s.rec /\ u.ckpts = e
  BY <1>7, <1>9, CkptsFields
<1> HIDE DEF u
<1>11. SessionShape(u)
  <2>1. \A c \in e : Len(c.rec) = c.pos /\ c.pos =< n
    <3>1. \A c \in s.ckpts : Len(c.rec) = c.pos /\ c.pos =< Len(s.rec)
      BY <1>6 DEF SessionShape
    <3>2. Len(k.rec) = k.pos /\ k.pos =< n
      BY <1>5, <1>6, <1>8
    <3> QED BY <1>6, <1>9, <3>1, <3>2
  <2>2. Len(u.kv) = Len(u.rec) /\ Len(u.rec) = n
    BY <1>6, <1>10 DEF SessionShape
  <2> QED BY <1>9, <1>10, <2>1, <2>2 DEF SessionShape
<1>12. OnPrompt(u, p)
  <2>1. s.rec = Prefix(p.cells, n) /\ s.kv = s.rec
    BY <1>6 DEF OnPrompt
  <2>2. \A c \in e : c.rec = Prefix(p.cells, c.pos)
    BY <1>6, <1>8, <1>9, <2>1 DEF OnPrompt
  <2>3. \A i \in p.images : ~(n < End(i))
    BY <1>2, <1>4, PromptImages, SpanEnds
  <2>4. Clear(u, p.images)
    BY <1>6, <1>8, <1>9, <1>10, <2>3 DEF OnPrompt, Clear
  <2> QED BY <1>6, <1>10, <2>1, <2>2, <2>4 DEF OnPrompt
<1>13. plan[r].boundary = 0
  BY DEF FinishPrefill
<1>14. Planned(u, plan[r])
  BY <1>3, <1>5, <1>6, <1>10, <1>13 DEF Planned
<1>15. SlotGood("decode", u, plan[r], fault)
  BY <1>2, <1>3, <1>6, <1>10, <1>11, <1>12, <1>14 DEF SlotGood
<1>17. SlotsGood(stage', session', plan', fault)
  BY <1>1, <1>2, <1>15, StateParts, SlotMoved
<1>18. StoreGood(entries', writing', disk', fault')
  BY <1>1, StateParts
<1>19. CountersGood'
  BY <1>1 DEF SInv, CountersGood
<1> QED BY <1>1, <1>17, <1>18, <1>19 DEF SInv, PlaceGood
-----------------------------------------------------------------------------
(* The session comes back. *)

LEMMA GivenBackGood ==
    ASSUME SInv, NEW r \in Slots, stage[r] # "none", NEW s, GiveBack(r, s),
           SlotGood("release", s, plan[r], fault)
    PROVE  SInv'
<1>1. /\ session' = [session EXCEPT ![r] = s]
      /\ stage' = [stage EXCEPT ![r] = "release"]
      /\ pc' = "release" /\ cur' = r
      /\ collect_finished
      /\ UNCHANGED <<next_id, next_lin, clock, recent_new, plan, fault, now, served>>
  BY DEF GiveBack
<1>2. plan[r] \in PlanType
  BY RunningParts
<1>3. SlotsGood(stage', session', plan', fault)
  BY <1>1, <1>2, StateParts, SlotMoved
<1>4. StoreGood(entries', writing', disk', fault')
  BY <1>1, StateParts, CollectGood
<1>5. CountersGood'
  BY <1>1 DEF SInv, CountersGood
<1>6. stage'[r] = "release"
  BY <1>1, StateParts DEF SlotsGood
<1> QED BY <1>1, <1>3, <1>4, <1>5, <1>6 DEF SInv, PlaceGood

(* What was resumed, and the prompt behind it. *)
Continued(s, t, a, b) == s \o SubSeq(t, a + 1, b)

LEMMA ContinuedIs ==
    ASSUME NEW S, NEW t \in Seq(S), NEW a \in Nat, NEW b \in Nat, a =< b, b =< Len(t),
           NEW s \in Seq(S), Len(s) = a
    PROVE  /\ Continued(s, t, a, b) \in Seq(S) /\ Len(Continued(s, t, a, b)) = b
           /\ s = Prefix(t, a) => Continued(s, t, a, b) = Prefix(t, b)
<1> DEFINE v == SubSeq(t, a + 1, b)
<1>1. v \in Seq(S) /\ Len(v) = b - a
  BY SliceIs
<1>2. Prefix(t, a) \o v = Prefix(t, b)
  BY Joined
<1>0. Continued(s, t, a, b) = s \o v
  BY DEF Continued
<1> HIDE DEF v
<1>3. s \o v \in Seq(S) /\ Len(s \o v) = Len(s) + Len(v)
  BY ONLY ZenonT(30), <1>1, ConcatProperties
<1>4. a + (b - a) = b
  OBVIOUS
<1> QED BY <1>0, <1>1, <1>2, <1>3, <1>4

LEMMA StopPrefillGood ==
    ASSUME SInv, NEW r \in Slots, NEW at \in Nat, StopPrefill(r, at) PROVE SInv'
<1> DEFINE q == plan[r]
           p == q.prompt
           s == session[r]
           v == FedUpTo(s, p, at)
           t == Prefix(v.tokens, q.reused) \o SubSeq(tokens(p), q.reused + 1, at)
           u == [v EXCEPT !.tokens = t]
<1>1. /\ pc = "idle" /\ stage[r] = "prefill" /\ Len(s.rec) =< at
      /\ at =< (IF q.boundary > 0 THEN q.boundary ELSE Len(p.cells) - 1)
      /\ GiveBack(r, u)
  BY DEF StopPrefill, FedUpTo
<1>2. /\ SlotGood("prefill", s, q, fault)
      /\ q \in PlanType /\ p \in Prompts /\ SessionShape(s)
      /\ q.reused \in Nat /\ q.agreement \in Nat /\ q.boundary \in Nat
  BY <1>1, RunningParts
<1>3. /\ Planned(s, q) /\ Len(s.tokens) = q.reused /\ q.reused =< Len(s.rec)
      /\ fault \/ (OnPrompt(s, p) /\ s.tokens = Prefix(tokens(p), q.reused))
  BY <1>2 DEF SlotGood, Planned
<1>4. /\ Len(p.cells) \in Nat /\ p.cells \in Seq(Cell) /\ p.images \in SUBSET SpanType
      /\ tokens(p) \in Seq(Token) /\ Len(tokens(p)) = Len(p.cells) /\ tokens(p) = TokensOf(p.cells)
  BY <1>2, PromptParts DEF tokens
<1>5. at =< Len(p.cells)
  <2>1. CASE q.boundary > 0
    BY <1>1, <1>2, <1>3, <1>4, <2>1 DEF Planned
  <2>2. CASE ~(q.boundary > 0)
    <3>1. at =< Len(p.cells) - 1
      BY <1>1, <2>2
    <3>2. \A m \in Nat : at =< m - 1 => at =< m
      OBVIOUS
    <3> QED BY ONLY <1>4, <3>1, <3>2
  <2> QED BY <2>1, <2>2
<1>6. Len(s.rec) \in Nat /\ s.tokens \in Seq(Token)
  BY <1>2, SessionParts DEF SessionShape
<1>7. q.reused =< at
  BY <1>1, <1>2, <1>3, <1>6
<1>8. /\ SessionShape(v) /\ v.tokens = s.tokens /\ v.ckpts = s.ckpts
      /\ Len(v.rec) = at /\ (~fault /\ OnPrompt(s, p) => OnPrompt(v, p))
  BY <1>1, <1>2, <1>5, PromptFed
<1>9. Prefix(v.tokens, q.reused) = s.tokens
  BY <1>3, <1>6, <1>8, PrefixAll
<1>10. t \in Seq(Token) /\ Len(t) = at /\ (~fault => t = Prefix(tokens(p), at))
  <2>1. at =< Len(tokens(p))
    BY <1>4, <1>5
  <2>2. t = Continued(s.tokens, tokens(p), q.reused, at)
    BY <1>9 DEF Continued
  <2> HIDE DEF t, s, p, q
  <2> QED BY <1>2, <1>3, <1>4, <1>6, <1>7, <2>1, <2>2, ContinuedIs
<1> HIDE DEF t, v
<1>12. /\ u \in SessionType /\ u.tokens = t /\ u.kv = v.kv /\ u.rec = v.rec
       /\ u.ckpts = v.ckpts
  BY <1>8, <1>10, TokensFields DEF SessionShape
<1> HIDE DEF u
<1>13. SessionShape(u) /\ Len(u.tokens) = Len(u.rec)
  BY <1>8, <1>10, <1>12 DEF SessionShape
<1>14. ASSUME ~fault PROVE Answered(u, p)
  <2>1. OnPrompt(v, p)
    BY <1>3, <1>8, <1>14
  <2>2. v.rec = Prefix(p.cells, at) /\ v.kv = v.rec
    BY <1>8, <2>1 DEF OnPrompt
  <2>3. u.tokens = TokensOf(u.kv)
    BY <1>4, <1>5, <1>10, <1>12, <1>14, <2>2, PrefixTokens
  <2>4. /\ Len(Prefix(p.cells, at)) = at
        /\ \A i \in 1 .. at : Prefix(p.cells, at)[i] = p.cells[i]
    BY <1>4, <1>5, PrefixIs
  <2>5. ASSUME NEW i \in p.images, End(i) =< Len(u.kv)
        PROVE  \A k \in i.start + 1 .. End(i) : u.kv[k] = i.digest
    <3>1. \A k \in i.start + 1 .. End(i) : p.cells[k] = i.digest
      BY <1>2, PromptImages
    <3>2. i.start \in Nat /\ End(i) \in Nat /\ End(i) =< at
      BY <1>4, <1>12, <2>2, <2>4, <2>5, SpanEnds
    <3>3. \A k \in i.start + 1 .. End(i) : k \in 1 .. at
      BY <3>2
    <3> QED BY <1>12, <2>2, <2>4, <3>1, <3>3
  <2>6. ASSUME NEW c \in u.ckpts PROVE c.rec = Prefix(u.kv, c.pos)
    <3>1. c.pos \in Nat /\ c.pos =< at /\ c.rec = Prefix(p.cells, c.pos)
      BY <1>8, <1>12, <2>1, SessionParts, CkptParts DEF OnPrompt, SessionShape
    <3>2. Prefix(Prefix(p.cells, at), c.pos) = Prefix(p.cells, c.pos)
      BY <1>4, <1>5, <3>1, PrefixOfPrefix
    <3> QED BY <1>12, <2>2, <3>1, <3>2
  <2>7. Clear(u, p.images)
    BY <1>12, <2>1 DEF OnPrompt, Clear
  <2> QED BY <1>12, <2>2, <2>3, <2>5, <2>6, <2>7 DEF Answered
<1>15. SlotGood("release", u, q, fault)
  BY <1>2, <1>13, <1>14, StateParts DEF SlotGood
<1>16. stage[r] # "none" /\ GiveBack(r, u)
  BY <1>1
<1> QED BY <1>15, <1>16, GivenBackGood

LEMMA PositionsWithin ==
    ASSUME NEW interval, NEW max, NEW start \in Nat, NEW end \in Nat
    PROVE  /\ decode_positions(interval, max, start, end) \in SUBSET (start .. end)
           /\ IsFiniteSet(decode_positions(interval, max, start, end))
<1>1. decode_positions(interval, max, start, end) \subseteq start .. end
  BY DEF decode_positions
<1>2. IsFiniteSet(start .. end)
  BY FS_Interval
<1> QED BY <1>1, <1>2, FS_Subset

(* `b` lies in `w` behind its first `m`. *)
Behind(w, b, m, k) == \A i \in 1 .. k : w[m + i] = b[i]

LEMMA ConcatIs ==
    ASSUME NEW S, NEW a \in Seq(S), NEW b \in Seq(S)
    PROVE  /\ a \o b \in Seq(S) /\ Len(a \o b) = Len(a) + Len(b)
           /\ Agree(a \o b, a, Len(a)) /\ Behind(a \o b, b, Len(a), Len(b))
<1> DEFINE w == a \o b
           m == Len(a)
           k == Len(b)
<1>0. m \in Nat /\ k \in Nat
  BY LenProperties
<1>1. /\ w \in Seq(S) /\ Len(w) = Len(a) + Len(b)
      /\ \A i \in 1 .. Len(a) + Len(b) : w[i] = IF i <= Len(a) THEN a[i] ELSE b[i - Len(a)]
  BY ConcatProperties
<1>2. \A i \in 1 .. m + k : w[i] = IF i <= m THEN a[i] ELSE b[i - m]
  BY <1>1
<1> HIDE DEF w, m, k
<1>3. ASSUME NEW i \in 1 .. m PROVE w[i] = a[i]
  <2>1. i \in 1 .. m + k /\ i <= m
    BY <1>0
  <2> QED BY <1>2, <2>1
<1>4. ASSUME NEW i \in 1 .. k PROVE w[m + i] = b[i]
  <2> DEFINE j == m + i
  <2>1. j \in 1 .. m + k /\ ~(j <= m) /\ j - m = i
    BY <1>0
  <2> HIDE DEF j
  <2>2. w[j] = b[j - m]
    BY <1>2, <2>1
  <2> QED BY <2>1, <2>2 DEF j
<1>5. Agree(w, a, m) /\ Behind(w, b, m, k)
  BY <1>3, <1>4 DEF Agree, Behind
<1> QED BY <1>1, <1>5 DEF w, m, k

(* The prompt and the answer behind it, as cells and as tokens. *)
AnswerCells(p, gen) == Prefix(p.cells, Len(p.cells) - 1) \o (<<p.cells[Len(p.cells)]>> \o gen)

LEMMA AnswerFed ==
    ASSUME NEW p \in Prompts, NEW gen \in Seq(Text)
    PROVE  /\ AnswerCells(p, gen) \in Seq(Cell)
           /\ Len(AnswerCells(p, gen)) = Len(p.cells) + Len(gen)
           /\ Agree(AnswerCells(p, gen), p.cells, Len(p.cells))
           /\ Behind(AnswerCells(p, gen), gen, Len(p.cells), Len(gen))
           /\ tokens(p) \o gen = TokensOf(AnswerCells(p, gen))
<1> DEFINE n == Len(p.cells)
           kv == AnswerCells(p, gen)
           t == tokens(p) \o gen
           m == n - 1
           g == Len(gen)
           a == Prefix(p.cells, m)
           b == <<p.cells[n]>>
           f == b \o gen
<1>1. /\ p.cells \in Seq(Cell) /\ n \in Nat \ {0} /\ tokens(p) \in Seq(Token)
      /\ Len(tokens(p)) = n /\ \A i \in 1 .. n : tokens(p)[i] = Tok(p.cells[i])
  BY PromptParts
<1>2. m \in Nat /\ m =< n /\ n \in 1 .. n /\ n = m + 1
  BY <1>1
<1>3. a \in Seq(Cell) /\ Len(a) = m /\ \A i \in 1 .. m : a[i] = p.cells[i]
  <2> HIDE DEF m
  <2> QED BY <1>1, <1>2, PrefixIs
<1>4. p.cells[n] \in Cell
  BY <1>1, <1>2, ElementOfSeq
<1>5. b \in Seq(Cell) /\ Len(b) = 1 /\ b[1] = p.cells[n]
  BY <1>4
<1>6. gen \in Seq(Cell) /\ gen \in Seq(Token) /\ g \in Nat
      /\ \A i \in 1 .. g : gen[i] \in Text
  <2>1. DOMAIN gen = 1 .. Len(gen) /\ Len(gen) \in Nat /\ \A i \in 1 .. Len(gen) : gen[i] \in Text
    BY LenProperties, ElementOfSeq
  <2>2. gen \in [1 .. Len(gen) -> Cell] /\ gen \in [1 .. Len(gen) -> Token]
    BY <2>1, LenProperties DEF Cell, Token
  <2> QED BY <2>1, <2>2, SeqTyped
<1>7. kv = a \o f /\ f = b \o gen /\ Len(gen) = g
  BY DEF AnswerCells
<1> HIDE DEF a, b, f, g, m, kv, t
<1>8. /\ f \in Seq(Cell) /\ Len(f) = 1 + g
      /\ \A i \in 1 .. 1 : f[i] = b[i]
      /\ \A i \in 1 .. g : f[1 + i] = gen[i]
  <2>1. f \in Seq(Cell) /\ Len(f) = 1 + g /\ Agree(f, b, 1) /\ Behind(f, gen, 1, g)
    BY <1>5, <1>6, <1>7, ConcatIs
  <2> QED BY <2>1 DEF Agree, Behind
<1>9. 1 + g \in Nat
  BY <1>6
<1>10. /\ kv \in Seq(Cell) /\ Len(kv) = m + (1 + g)
       /\ \A i \in 1 .. m : kv[i] = a[i]
       /\ \A i \in 1 .. 1 + g : kv[m + i] = f[i]
  <2> DEFINE h == 1 + g
  <2>1. h \in Nat /\ Len(f) = h
    BY <1>8, <1>9
  <2> HIDE DEF h
  <2>2. kv \in Seq(Cell) /\ Len(kv) = m + h /\ Agree(kv, a, m) /\ Behind(kv, f, m, h)
    <3>1. /\ a \in Seq(Cell) /\ f \in Seq(Cell) /\ m \in Nat /\ Len(a) = m /\ kv = a \o f
      BY <1>2, <1>3, <1>7, <1>8
    <3> QED BY ONLY <2>1, <3>1, ConcatIs
  <2>3. /\ kv \in Seq(Cell) /\ Len(kv) = m + h
        /\ \A i \in 1 .. m : kv[i] = a[i]
        /\ \A i \in 1 .. h : kv[m + i] = f[i]
    BY <2>2 DEF Agree, Behind
  <2> QED BY <2>3 DEF h
<1>11. Len(kv) = n + g
  BY <1>2, <1>6, <1>10
<1>12. ASSUME NEW i \in 1 .. n PROVE kv[i] = p.cells[i]
  <2>1. CASE i =< m
    <3>1. i \in 1 .. m
      BY <1>1, <1>2, <2>1
    <3> QED BY <1>3, <1>10, <3>1
  <2>2. CASE ~(i =< m)
    <3>1. i = m + 1 /\ i = n /\ 1 \in 1 .. 1 + g /\ 1 \in 1 .. 1
      BY <1>2, <1>6, <2>2
    <3>2. kv[m + 1] = f[1] /\ f[1] = b[1]
      BY <1>8, <1>10, <3>1
    <3> QED BY <1>5, <3>1, <3>2
  <2> QED BY <2>1, <2>2
<1>13. ASSUME NEW i \in 1 .. g PROVE kv[n + i] = gen[i]
  <2>1. 1 + i \in 1 .. 1 + g /\ n + i = m + (1 + i)
    BY <1>2, <1>6
  <2>2. kv[m + (1 + i)] = f[1 + i]
    BY <1>10, <2>1
  <2> QED BY <1>8, <2>1, <2>2
<1>0. n \in Nat /\ tokens(p) \in Seq(Token) /\ Len(tokens(p)) = n /\ t = tokens(p) \o gen
  BY <1>1 DEF t
<1>14. /\ t \in Seq(Token) /\ Len(t) = n + g
       /\ \A i \in 1 .. n : t[i] = tokens(p)[i]
       /\ \A i \in 1 .. g : t[n + i] = gen[i]
  <2>1. t \in Seq(Token) /\ Len(t) = n + g /\ Agree(t, tokens(p), n) /\ Behind(t, gen, n, g)
    <3> HIDE DEF n
    <3>1. gen \in Seq(Token) /\ Len(gen) = g /\ g \in Nat
      BY <1>6, <1>7
    <3> QED BY ONLY <1>0, <3>1, ConcatIs
  <2> QED BY <2>1 DEF Agree, Behind
<1>15. ASSUME NEW i \in 1 .. n + g PROVE t[i] = Tok(kv[i])
  <2>1. CASE i =< n
    <3>1. i \in 1 .. n
      BY <1>1, <2>1
    <3> QED BY <1>1, <1>12, <1>14, <3>1
  <2>2. CASE ~(i =< n)
    <3>1. i - n \in 1 .. g /\ n + (i - n) = i
      BY ONLY <1>0, <1>6, <2>2, i \in 1 .. n + g
    <3>2. kv[i] = gen[i - n] /\ gen[i - n] \in Text /\ t[i] = gen[i - n]
      BY <1>6, <1>13, <1>14, <3>1
    <3>3. Tok(gen[i - n]) = gen[i - n]
      BY <3>2, PadAssumption DEF Tok
    <3> QED BY <3>2, <3>3
  <2> QED BY <2>1, <2>2
<1>16. t = TokensOf(kv)
  <2>1. Len(t) = Len(kv) /\ \A i \in 1 .. Len(kv) : t[i] = Tok(kv[i])
    BY <1>11, <1>14, <1>15
  <2> QED BY ONLY <1>10, <1>14, <2>1, TokensMean
<1>17. Agree(kv, p.cells, n)
  BY <1>12 DEF Agree
<1>18. Behind(kv, gen, n, g)
  BY <1>13 DEF Behind
<1> QED BY <1>7, <1>10, <1>11, <1>16, <1>17, <1>18 DEF kv, t

(* The decode checkpoints of an answer that ended at `asked`. *)
DecodeAt(v, start, asked) ==
    {[pos |-> i, decode |-> TRUE, rec |-> Prefix(v.rec, i)]
        : i \in decode_positions(DecodeInterval, MaxDecode, start, asked) \ Positions(v)}

LEMMA DecodeAtIs ==
    ASSUME NEW v, v.rec \in Seq(CellType), NEW start \in Nat, NEW asked \in Nat,
           asked =< Len(v.rec)
    PROVE  /\ DecodeAt(v, start, asked) \in SUBSET CkptType
           /\ IsFiniteSet(DecodeAt(v, start, asked))
           /\ \A c \in DecodeAt(v, start, asked) :
                /\ start =< c.pos /\ c.pos =< Len(v.rec) /\ Len(c.rec) = c.pos
                /\ c.rec = Prefix(v.rec, c.pos)
<1> DEFINE P == decode_positions(DecodeInterval, MaxDecode, start, asked) \ Positions(v)
           at(i) == [pos |-> i, decode |-> TRUE, rec |-> Prefix(v.rec, i)]
           f == [i \in P |-> at(i)]
           D == DecodeAt(v, start, asked)
<1>1. P \subseteq start .. asked /\ IsFiniteSet(P)
  BY PositionsWithin, FS_Subset
<1>2. D = {at(i) : i \in P}
  BY DEF DecodeAt
<1> HIDE DEF P, D
<1>3. ASSUME NEW i \in P
      PROVE  /\ i \in Nat /\ start =< i /\ i =< Len(v.rec)
             /\ Prefix(v.rec, i) \in Seq(CellType) /\ Len(Prefix(v.rec, i)) = i
  <2>1. i \in Nat /\ start =< i /\ i =< Len(v.rec) /\ Len(v.rec) \in Nat
    BY <1>1, LenProperties
  <2> QED BY <2>1, PrefixIs
<1>4. ASSUME NEW c \in D
      PROVE  /\ c \in CkptType /\ start =< c.pos /\ c.pos =< Len(v.rec) /\ Len(c.rec) = c.pos
             /\ c.rec = Prefix(v.rec, c.pos)
  <2>1. PICK i \in P : c = at(i)
    BY <1>2
  <2>2. c.pos = i /\ c.rec = Prefix(v.rec, i) /\ c.decode = TRUE
    BY <2>1
  <2>3. c \in CkptType
    BY <1>3, <2>1 DEF CkptType
  <2> QED BY <1>3, <2>2, <2>3
<1>5. IsFiniteSet(D)
  <2>1. D = {f[i] : i \in P}
    BY <1>2
  <2>2. f \in [P -> D]
    BY <1>2
  <2> HIDE DEF f
  <2> QED BY <1>1, <2>1, <2>2, FiniteImage
<1> QED BY <1>4, <1>5 DEF D

LEMMA AnswerGood ==
    ASSUME SInv, NEW r \in Slots, NEW gen \in Answers, Answer(r, gen) PROVE SInv'
<1> DEFINE q == plan[r]
           p == q.prompt
           s == session[r]
           n == Len(p.cells)
           cells == <<p.cells[n]>> \o gen
           v == Feed(s, cells)
           t == Prefix(v.tokens, q.reused) \o SubSeq(tokens(p), q.reused + 1, n) \o gen
<1>1. PICK asked \in {n - 1 + Len(gen), n + Len(gen)} :
        /\ pc = "idle" /\ stage[r] = "decode"
        /\ GiveBack(r, [v EXCEPT !.tokens = t,
                                 !.ckpts = @ \cup DecodeAt(v, n - 1, asked),
                                 !.cap = Max({@, Len(v.rec)})])
  BY DEF Answer, DecodeAt
<1>2. /\ SlotGood("decode", s, q, fault)
      /\ q \in PlanType /\ p \in Prompts /\ SessionShape(s) /\ q.reused \in Nat
  BY <1>1, RunningParts
<1>3. /\ Len(s.tokens) = q.reused /\ q.reused =< Len(s.rec) /\ Len(s.rec) = n - 1
      /\ fault \/ (OnPrompt(s, p) /\ s.tokens = Prefix(tokens(p), q.reused))
  BY <1>2 DEF SlotGood, Planned
<1>4. /\ n \in Nat \ {0} /\ p.cells \in Seq(Cell) /\ p.images \in SUBSET SpanType
      /\ tokens(p) \in Seq(Token) /\ Len(tokens(p)) = n
  BY <1>2, PromptParts
<1>5. gen \in Seq(Text) /\ Len(gen) \in Nat
  BY RequestsAssumption, LenProperties
<1>6. /\ s.tokens \in Seq(Token) /\ Len(s.rec) \in Nat /\ s.rec \in Seq(CellType)
      /\ s.ckpts \in SUBSET CkptType
  BY <1>2, SessionParts DEF SessionShape
<1>7. n - 1 \in Nat /\ n - 1 =< n /\ n \in 1 .. n /\ q.reused =< n
  <2>1. q.reused =< n - 1
    BY <1>3
  <2> HIDE DEF n
  <2> QED BY <1>2, <1>4, <2>1
<1>8. cells \in Seq(Cell) /\ gen \in Seq(Token) /\ Len(cells) = 1 + Len(gen)
  <2>1. p.cells[n] \in Cell
    BY <1>4, <1>7, ElementOfSeq
  <2>2. gen \in Seq(Cell) /\ gen \in Seq(Token)
    <3>1. DOMAIN gen = 1 .. Len(gen) /\ \A i \in 1 .. Len(gen) : gen[i] \in Text
      BY <1>5, LenProperties, ElementOfSeq
    <3>2. gen \in [1 .. Len(gen) -> Cell] /\ gen \in [1 .. Len(gen) -> Token]
      BY <1>5, <3>1, LenProperties DEF Cell, Token
    <3> QED BY <1>5, <3>2, SeqTyped
  <2> DEFINE b == <<p.cells[n]>>
  <2>3. b \in Seq(Cell) /\ Len(b) = 1
    BY <2>1
  <2> HIDE DEF b
  <2>4. b \o gen \in Seq(Cell) /\ Len(b \o gen) = Len(b) + Len(gen)
    BY <2>2, <2>3, ConcatProperties
  <2> QED BY <2>2, <2>3, <2>4 DEF b
<1> DEFINE m == n - 1
           g == Len(gen)
<1>9. /\ SessionShape(v) /\ v.tokens = s.tokens /\ v.ckpts = s.ckpts
      /\ Len(v.rec) = n + g /\ v.cap \in Nat
      /\ ~fault => /\ v.rec = s.rec \o cells
                   /\ s.kv = s.rec => v.kv = v.rec
  <2> HIDE DEF cells
  <2>1. /\ SessionShape(v) /\ v.tokens = s.tokens /\ v.ckpts = s.ckpts
        /\ Len(v.rec) = Len(s.rec) + Len(cells) /\ v.cap \in Nat
        /\ ~fault => /\ v.rec = s.rec \o cells
                     /\ s.kv = s.rec => v.kv = v.rec
    BY <1>2, <1>8, FeedIs
  <2> HIDE DEF v
  <2>2. Len(v.rec) = n + g
    <3>1. Len(v.rec) = (n - 1) + (1 + g) /\ n \in Nat /\ g \in Nat
      BY <1>3, <1>4, <1>5, <1>8, <2>1
    <3> HIDE DEF n, g
    <3>2. (n - 1) + (1 + g) = n + g
      BY <3>1
    <3> QED BY <3>1, <3>2
  <2> QED BY <2>1, <2>2
<1> DEFINE w == Continued(s.tokens, tokens(p), q.reused, n)
<1>10. w \in Seq(Token) /\ Len(w) = n /\ (~fault => w = tokens(p))
  <2>1. Prefix(tokens(p), n) = tokens(p)
    BY <1>4, PrefixAll
  <2> DEFINE T == tokens(p)
             a == q.reused
             x == s.tokens
  <2>2. /\ T \in Seq(Token) /\ Len(T) = n /\ a \in Nat /\ n \in Nat /\ a =< n
        /\ x \in Seq(Token) /\ Len(x) = a /\ Prefix(T, n) = T
        /\ (~fault => x = Prefix(T, a))
    BY <1>2, <1>3, <1>4, <1>6, <1>7, <2>1
  <2> HIDE DEF T, a, x, n
  <2>3. n =< Len(T)
    BY <2>2
  <2>4. /\ Continued(x, T, a, n) \in Seq(Token) /\ Len(Continued(x, T, a, n)) = n
        /\ ~fault => Continued(x, T, a, n) = T
    BY ONLY SMTT(30), <2>2, <2>3, ContinuedIs
  <2> QED BY <2>4 DEF T, a, x
<1>11. t = w \o gen
  <2>1. Prefix(v.tokens, q.reused) = s.tokens
    BY <1>3, <1>6, <1>9, PrefixAll
  <2> QED BY <2>1 DEF Continued
<1>12. t \in Seq(Token) /\ Len(t) = n + g /\ (~fault => t = tokens(p) \o gen)
  <2> HIDE DEF w, t
  <2>1. w \o gen \in Seq(Token) /\ Len(w \o gen) = Len(w) + Len(gen)
    BY <1>8, <1>10, ConcatProperties
  <2> QED BY <1>10, <1>11, <2>1
<1> DEFINE D == DecodeAt(v, m, asked)
           e == v.ckpts \cup D
           c == Max({v.cap, Len(v.rec)})
           u == [v EXCEPT !.tokens = t, !.ckpts = e, !.cap = c]
<1>13. GiveBack(r, u)
  BY <1>1
<1>14. asked \in Nat /\ asked =< n + g /\ m \in Nat
  BY <1>1, <1>4, <1>5
<1>15. c \in Nat
  <2> DEFINE C == {v.cap, Len(v.rec)}
             top == v.cap + Len(v.rec)
  <2>1. v.cap \in Nat /\ Len(v.rec) \in Nat
    BY SMTT(30), <1>4, <1>5, <1>9
  <2>2. C \subseteq Nat /\ C # {} /\ top \in Nat /\ \A x \in C : x =< top
    BY <2>1
  <2> HIDE DEF C, top
  <2>3. Max(C) \in Nat
    BY <2>2, Greatest
  <2> QED BY <2>3 DEF C
<1>16. /\ D \in SUBSET CkptType /\ IsFiniteSet(D)
       /\ \A k \in D : /\ m =< k.pos /\ k.pos =< Len(v.rec) /\ Len(k.rec) = k.pos
                       /\ k.rec = Prefix(v.rec, k.pos)
  <2>1. v.rec \in Seq(CellType) /\ asked =< Len(v.rec)
    BY <1>9, <1>14, SessionParts DEF SessionShape
  <2> HIDE DEF v, m
  <2> QED BY ONLY SMTT(30), <1>14, <2>1, DecodeAtIs
<1> HIDE DEF D, c, t, v
<1>17. /\ v \in SessionType /\ v.ckpts \in SUBSET CkptType /\ IsFiniteSet(v.ckpts)
       /\ Len(v.kv) = Len(v.rec)
       /\ \A k \in v.ckpts : Len(k.rec) = k.pos /\ k.pos =< Len(v.rec)
  BY <1>9, SessionParts DEF SessionShape
<1>18. e \in SUBSET CkptType /\ IsFiniteSet(e)
  BY <1>16, <1>17, FS_Union
<1>19. \A k \in e : Len(k.rec) = k.pos /\ k.pos =< Len(v.rec)
  BY <1>16, <1>17
<1>20. \A k \in e : k \in s.ckpts \/ k \in D
  BY <1>9
<1> HIDE DEF e
<1>21. /\ u \in SessionType /\ u.tokens = t /\ u.kv = v.kv /\ u.rec = v.rec /\ u.ckpts = e
  BY <1>12, <1>15, <1>17, <1>18 DEF SessionType, CkptType
<1> HIDE DEF u
<1>22. SessionShape(u) /\ Len(u.tokens) = Len(u.rec)
  BY <1>9, <1>12, <1>17, <1>18, <1>19, <1>21 DEF SessionShape
<1>23. ASSUME ~fault PROVE Answered(u, p)
  <2>1. OnPrompt(s, p)
    BY <1>3, <1>23
  <2>2. s.rec = Prefix(p.cells, m) /\ s.kv = s.rec /\ v.rec = s.rec \o cells /\ v.kv = v.rec
    BY <1>3, <1>9, <1>23, <2>1 DEF OnPrompt
  <2> DEFINE kv == v.rec
  <2>3. kv = AnswerCells(p, gen) /\ t = tokens(p) \o gen
    BY <1>12, <1>23, <2>2 DEF AnswerCells
  <2>4. /\ kv \in Seq(Cell) /\ Len(kv) = n + Len(gen)
        /\ \A i \in 1 .. n : kv[i] = p.cells[i]
        /\ t = TokensOf(kv)
    BY <1>2, <1>5, <2>3, AnswerFed DEF Agree
  <2>5. u.kv = kv /\ u.rec = kv
    BY <1>21, <2>2
  <2>6. ASSUME NEW i \in p.images
        PROVE  /\ End(i) =< m
               /\ \A k \in i.start + 1 .. End(i) : u.kv[k] = i.digest
    <3>1. /\ End(i) < n /\ \A k \in i.start + 1 .. End(i) : p.cells[k] = i.digest
          /\ i \in SpanType
      BY <1>2, <1>4, PromptImages
    <3>2. i.start \in Nat /\ End(i) \in Nat
      BY <3>1, SpanEnds
    <3>3. \A k \in i.start + 1 .. End(i) : k \in 1 .. n
      BY <1>4, <3>1, <3>2
    <3>4. End(i) =< m
      BY <1>4, <3>1, <3>2
    <3> QED BY <2>4, <2>5, <3>1, <3>3, <3>4
  <2>7. ASSUME NEW k \in e PROVE k.rec = Prefix(u.kv, k.pos)
    <3>1. CASE k \in D
      BY ONLY SMTT(30), <1>16, <2>5, <3>1
    <3>2. CASE k \in s.ckpts
      <4>1. k.pos \in Nat /\ k.pos =< m /\ k.rec = Prefix(p.cells, k.pos)
        BY <1>2, <1>3, <1>6, <2>1, <3>2, CkptParts DEF OnPrompt, SessionShape
      <4>2. k.rec = Prefix(s.rec, k.pos)
        <5>1. Prefix(Prefix(p.cells, m), k.pos) = Prefix(p.cells, k.pos)
          <6> HIDE DEF m
          <6>1. m =< Len(p.cells)
            BY <1>7 DEF m
          <6> QED BY <1>4, <1>14, <4>1, <6>1, PrefixOfPrefix
        <5> QED BY <2>2, <4>1, <5>1
      <4>3. Prefix(s.rec \o cells, k.pos) = Prefix(s.rec, k.pos)
        <5>1. s.rec \in Seq(Cell) /\ k.pos =< Len(s.rec)
          <6> HIDE DEF m
          <6>1. m =< Len(p.cells) /\ m = Len(s.rec)
            BY <1>3, <1>7 DEF m
          <6>2. Prefix(p.cells, m) \in Seq(Cell)
            BY <1>4, <1>14, <6>1, PrefixIs
          <6> QED BY <2>2, <4>1, <6>1, <6>2
        <5> HIDE DEF cells, s
        <5> QED BY ONLY SMTT(30), <1>8, <4>1, <5>1, PrefixOfConcat
      <4> QED BY <2>2, <2>5, <4>2, <4>3
    <3> QED BY <1>20, <3>1, <3>2
  <2>8. Clear(u, p.images)
    <3>1. ASSUME NEW k \in e, NEW i \in p.images PROVE ~(i.start < k.pos /\ k.pos < End(i))
      <4>1. CASE k \in D
        <5>1. m =< k.pos /\ End(i) =< m /\ k.pos \in Nat
          BY <1>16, <2>6, <4>1, CkptParts
        <5>2. End(i) \in Nat
          BY <1>4, SpanEnds
        <5> QED BY <1>14, <5>1, <5>2
      <4>2. CASE k \in s.ckpts
        BY <2>1, <4>2 DEF OnPrompt, Clear
      <4> QED BY <1>20, <4>1, <4>2
    <3> QED BY <1>21, <3>1 DEF Clear
  <2> HIDE DEF kv
  <2>9. u.tokens = TokensOf(u.kv) /\ u.rec = u.kv
    BY <1>21, <2>4, <2>5
  <2> QED BY <1>21, <2>6, <2>7, <2>8, <2>9 DEF Answered
<1>24. SlotGood("release", u, q, fault)
  BY <1>2, <1>22, <1>23, StateParts DEF SlotGood
<1>25. stage[r] # "none"
  BY <1>1
<1>26. GiveBack(r, u)
  BY <1>13 DEF u, t, v, e, c, D
<1> QED BY <1>24, <1>25, <1>26, GivenBackGood
-----------------------------------------------------------------------------
(* The release. *)

LEMMA KeepsSome ==
    ASSUME NEW C, NEW decode, NEW max
    PROVE  keep_newest(C, decode, max) \subseteq C
BY DEF keep_newest

LEMMA LastIs ==
    ASSUME NEW seq \in Seq(Nat), NEW n \in Nat
    PROVE  LastOf(seq, n) \in Seq(Nat)
<1> DEFINE d == Len(seq) - n
           C == {0, d}
<1>1. Len(seq) \in Nat /\ d \in Int /\ d =< Len(seq)
  BY LenProperties
<1> HIDE DEF d
<1>2. \E x \in C : \A y \in C : x >= y
  BY <1>1
<1>3. Max(C) \in C
  BY <1>2 DEF Max
<1>4. Max(C) >= 0
  <2>1. \A y \in C : Max(C) >= y
    BY <1>2 DEF Max
  <2> QED BY <2>1
<1>5. Max(C) \in Nat /\ Max(C) =< Len(seq)
  BY <1>1, <1>3, <1>4
<1> HIDE DEF C
<1>6. SubSeq(seq, Max(C) + 1, Len(seq)) \in Seq(Nat)
  BY <1>1, <1>5, SliceIs
<1> QED BY <1>6 DEF LastOf, C, d

(* What the cache keeps of a session is as good as what the request left. *)
LEMMA KeptIsHome ==
    ASSUME NEW s, SessionShape(s), Len(s.tokens) = Len(s.rec), NEW p \in Prompts, NEW f,
           f \/ Answered(s, p), NEW k, k = Kept([s EXCEPT !.disk = NoCopy], p.images),
           clock \in Nat
    PROVE  /\ Home(k, f) /\ k.disk = NoCopy /\ bytes(k) \in Nat
           /\ k.lineage = s.lineage
<1> DEFINE n == Len(s.tokens)
           u == [s EXCEPT !.disk = NoCopy]
           inside == {c \in u.ckpts : /\ c.pos =< Len(u.tokens)
                                      /\ c.decode => u.request_start < c.pos /\ c.pos < Len(u.tokens)}
           e == keep_newest(keep_newest(inside, FALSE, MaxCheckpoints), TRUE, MaxDecode)
           im == images_within(p.images, Len(u.tokens))
<1>1. /\ s \in SessionType /\ IsFiniteSet(s.ckpts) /\ s.ckpts \in SUBSET CkptType
      /\ Len(s.kv) = Len(s.rec) /\ Len(s.kv) \in Nat /\ s.cap \in Nat
      /\ \A c \in s.ckpts : Len(c.rec) = c.pos /\ c.pos =< Len(s.rec)
  BY SessionParts DEF SessionShape
<1>2. NoCopy \in CopyType
  BY DEF CopyType
<1>3. /\ u \in SessionType /\ u.tokens = s.tokens /\ u.kv = s.kv /\ u.rec = s.rec
      /\ u.ckpts = s.ckpts /\ u.disk = NoCopy /\ u.lineage = s.lineage /\ u.cap = s.cap
  BY <1>1, <1>2 DEF SessionType
<1>4. e \subseteq s.ckpts
  <2>1. inside \subseteq s.ckpts
    BY <1>3
  <2> HIDE DEF inside
  <2> QED BY <2>1, KeepsSome
<1>5. p.images \in SUBSET SpanType /\ im = images_within(p.images, n)
  BY <1>3, PromptParts
<1>6. im \subseteq p.images /\ \A i \in im : End(i) =< n
  BY <1>5 DEF images_within
<1>7. k = [u EXCEPT !.images = im, !.born = FALSE, !.ckpts = e, !.last_used = clock + 1]
  BY DEF Kept
<1> HIDE DEF e, im, u
<1>8. /\ k \in SessionType /\ k.tokens = u.tokens /\ k.images = im /\ k.kv = u.kv
      /\ k.rec = u.rec /\ k.ckpts = e /\ k.disk = u.disk /\ k.lineage = u.lineage
      /\ k.cap = u.cap
  <2>1. im \in SUBSET SpanType /\ e \in SUBSET CkptType /\ clock + 1 \in Nat /\ u \in SessionType
    BY <1>1, <1>3, <1>4, <1>5, <1>6
  <2> QED BY <1>7, <2>1 DEF SessionType, CkptType
<1>9. IsFiniteSet(e)
  BY <1>1, <1>4, FS_Subset
<1>10. HomeShape(k)
  <2>1. \A c \in e : Len(c.rec) = c.pos /\ c.pos =< Len(s.rec)
    BY <1>1, <1>4
  <2> QED BY <1>1, <1>3, <1>8, <1>9, <2>1 DEF HomeShape, SessionShape
<1>11. ASSUME Answered(s, p) PROVE Faithful(k) /\ k.rec = k.kv
  <2>1. k.tokens = TokensOf(k.kv) /\ k.rec = k.kv
    BY <1>3, <1>8, <1>11 DEF Answered
  <2>2. \A i \in k.images : End(i) =< Len(k.kv) /\ \A j \in i.start + 1 .. End(i) : k.kv[j] = i.digest
    BY <1>1, <1>3, <1>6, <1>8, <1>11 DEF Answered
  <2>3. \A c \in k.ckpts : c.pos =< Len(k.kv) /\ c.rec = Prefix(k.kv, c.pos)
    BY <1>1, <1>3, <1>4, <1>8, <1>11 DEF Answered
  <2>4. Clear(k, k.images)
    BY <1>4, <1>6, <1>8, <1>11 DEF Answered, Clear
  <2> QED BY <2>1, <2>2, <2>3, <2>4 DEF Faithful, Sound
<1>12. bytes(k) \in Nat
  <2>1. Cardinality(e) \in Nat
    BY <1>9, FS_CardinalityType
  <2> QED BY <1>1, <1>3, <1>8, <2>1 DEF bytes
<1> QED BY <1>3, <1>8, <1>10, <1>11, <1>12 DEF Home

LEMMA ReleaseGood == ASSUME SInv, Release PROVE SInv'
<1> DEFINE s == session[cur]
           o == DiscardCopy(s)
           k == Kept(o.session, plan[cur].prompt.images)
<1>1. /\ pc = "release"
      /\ session' = [session EXCEPT ![cur] = NoSession]
      /\ plan' = [plan EXCEPT ![cur] = None]
      /\ stage' = [stage EXCEPT ![cur] = "none"]
      /\ UNCHANGED <<writing, next_id, next_lin, fault, now, served>>
  BY DEF Release
<1>2. \/ pc' = "idle" /\ cur' = None /\ UNCHANGED <<entries, disk, clock, recent_new>>
      \/ /\ disk' = o.disk /\ entries' = entries \cup {k}
         /\ recent_new' = (IF s.born THEN LastOf(Append(recent_new, bytes(k)), RecentNew)
                                     ELSE recent_new)
         /\ clock' = clock + 1 /\ pc' = "budget" /\ cur' = cur
  BY Zenon DEF Release
<1>3. cur \in Slots /\ stage[cur] = "release"
  BY <1>1 DEF SInv, PlaceGood
<1>4. /\ SlotGood("release", s, plan[cur], fault) /\ plan[cur].prompt \in Prompts
      /\ SessionShape(s)
  BY <1>3, RunningParts
<1>5. o.session = [s EXCEPT !.disk = NoCopy] /\ o.disk \subseteq disk
  BY DEF DiscardCopy, remove
<1>6. Home(k, fault) /\ bytes(k) \in Nat
  <2>1. Len(s.tokens) = Len(s.rec) /\ (fault \/ Answered(s, plan[cur].prompt))
    BY <1>4 DEF SlotGood
  <2> DEFINE w == [s EXCEPT !.disk = NoCopy]
             p == plan[cur].prompt
  <2>2. k = Kept(w, p.images) /\ p \in Prompts
    BY <1>4, <1>5
  <2> HIDE DEF k
  <2> QED BY <1>4, <2>1, <2>2, StateParts, KeptIsHome
<1> HIDE DEF k, o
<1>7. SlotsGood(stage', session', plan', fault)
  <2>1. SessionShape(NoSession)
    BY NewShape DEF NoSession, HomeShape
  <2>2. SlotGood("none", NoSession, None, fault)
    BY <2>1 DEF SlotGood
  <2> QED BY <1>1, <1>3, <2>2, StateParts, SlotMoved
<1>8. StoreGood(entries', writing', disk', fault')
  BY <1>1, <1>2, <1>5, <1>6, StateParts DEF StoreGood
<1>9. recent_new' \in Seq(Nat) /\ clock' \in Nat /\ pc' \in {"idle", "budget"} /\ cur' \in Slots \cup {None}
  <2>1. LastOf(Append(recent_new, bytes(k)), RecentNew) \in Seq(Nat)
    <3>1. Append(recent_new, bytes(k)) \in Seq(Nat)
      BY <1>6, StateParts, AppendProperties
    <3>2. RecentNew \in Nat
      BY SessionStoreAssumption
    <3> QED BY <3>1, <3>2, LastIs
  <2> QED BY <1>2, <1>3, <2>1, StateParts
<1>10. CountersGood'
  BY <1>1, <1>9 DEF SInv, CountersGood
<1> QED BY <1>1, <1>7, <1>8, <1>9, <1>10 DEF SInv, PlaceGood
-----------------------------------------------------------------------------
(* Between requests. *)

LEMMA RefreshedHome ==
    ASSUME StoreGood(entries, writing, disk, fault), NEW s \in Refreshed
    PROVE  Home(s, fault)
<1>1. PICK t \in entries : s = t \/ s = [t EXCEPT !.disk = NoCopy]
  BY DEF Refreshed
<1>2. Home(t, fault) /\ NoCopy \in CopyType
  BY DEF StoreGood, CopyType
<1> QED BY <1>1, <1>2, CopyKeepsHome

LEMMA NothingToWriteGood == ASSUME SInv, NothingToWrite PROVE SInv'
<1>1. /\ entries' = Refreshed /\ pc' = "idle"
      /\ UNCHANGED <<writing, disk, next_id, next_lin, clock, recent_new, stage, session, plan,
                     cur, fault, now, served>>
  BY DEF NothingToWrite, reqVars
<1>2. StoreGood(entries', writing', disk', fault')
  BY <1>1, StateParts, RefreshedHome DEF StoreGood
<1> QED BY <1>1, <1>2 DEF SInv, CountersGood, PlaceGood

LEMMA StartWriteGood == ASSUME SInv, NEW s \in Refreshed, StartWrite(s) PROVE SInv'
<1>1. /\ pc = "ahead" \/ (pc = "idle" /\ Quiet /\ writing = None)
      /\ pc' = "idle"
      /\ \/ /\ entries' = Refreshed \ {s}
            /\ writing' = [session |-> s, id |-> next_id, phase |-> "running"]
            /\ disk' = expire(disk, now) /\ next_id' = reserve
         \/ /\ entries' = (Refreshed \ {s}) \cup {[s EXCEPT !.disk = Refused]}
            /\ UNCHANGED <<writing, disk, next_id>>
         \/ /\ entries' = Refreshed /\ writing' = writing
            /\ disk' = expire(disk, now) /\ next_id' = reserve
      /\ UNCHANGED <<next_lin, clock, recent_new, stage, session, plan, cur, fault, now, served>>
  BY DEF StartWrite, reqVars
<1>2. ~fault
  BY <1>1 DEF SInv, Quiet
<1>3. Home(s, FALSE) /\ (\A t \in Refreshed : Home(t, fault))
  BY <1>2, StateParts, RefreshedHome
<1>4. Home([s EXCEPT !.disk = Refused], FALSE)
  <2>1. Refused \in CopyType
    BY DEF CopyType
  <2> QED BY <1>3, <2>1, CopyKeepsHome
<1>5. [session |-> s, id |-> next_id, phase |-> "running"] \in WriteType
  BY <1>3, StateParts DEF WriteType, Home, HomeShape, SessionShape
<1>6. \A e \in expire(disk, now) : Archived(e)
  BY StateParts DEF StoreGood, expire
<1> DEFINE u == [s EXCEPT !.disk = Refused]
           w == [session |-> s, id |-> next_id, phase |-> "running"]
<1>7. Home(u, FALSE) /\ w \in WriteType /\ w.session = s
  BY <1>4, <1>5
<1>8. \/ entries' = Refreshed \ {s} /\ writing' = w /\ disk' = expire(disk, now)
      \/ entries' = (Refreshed \ {s}) \cup {u} /\ UNCHANGED <<writing, disk>>
      \/ entries' = Refreshed /\ writing' = writing /\ disk' = expire(disk, now)
  BY <1>1
<1> HIDE DEF u, w
<1>9. StoreGood(entries', writing', disk', fault')
  <2>1. \A t \in entries' : Home(t, fault')
    <3>1. Home(u, fault)
      BY <1>7, HomeWeak
    <3> QED BY <1>1, <1>3, <1>8, <3>1, StateParts DEF StoreGood
  <2>2. writing' # None => writing' \in WriteType /\ Home(writing'.session, FALSE)
    BY <1>3, <1>7, <1>8, StateParts DEF StoreGood
  <2>3. \A e \in disk' : Archived(e)
    BY <1>6, <1>8, StateParts DEF StoreGood
  <2> QED BY <2>1, <2>2, <2>3 DEF StoreGood
<1>10. CountersGood'
  <2>1. next_id' \in Nat \ {0}
    BY <1>1, StateParts DEF reserve
  <2> QED BY <1>1, <2>1 DEF SInv, CountersGood
<1> QED BY <1>1, <1>9, <1>10, StateParts DEF SInv, PlaceGood

LEMMA AheadGood ==
    ASSUME SInv, CollectAhead \/ WriterEnds \/ Unload \/ UnloadJoin PROVE SInv'
<1>1. CASE WriterEnds
  <2>1. PICK result \in {"written", "failed"} :
          /\ writing # None /\ writing' = [writing EXCEPT !.phase = result]
          /\ UNCHANGED <<entries, disk, next_id, next_lin, clock, recent_new, stage, session, plan,
                         pc, cur, fault, now, served>>
    BY <1>1 DEF WriterEnds, reqVars
  <2>2. writing \in WriteType /\ Home(writing.session, FALSE)
    BY <2>1, StateParts DEF StoreGood
  <2>3. writing' \in WriteType /\ writing'.session = writing.session
    BY <2>1, <2>2 DEF WriteType
  <2>4. StoreGood(entries', writing', disk', fault')
    BY <2>1, <2>2, <2>3, StateParts DEF StoreGood
  <2> QED BY <2>1, <2>4 DEF SInv, CountersGood, PlaceGood, Busy
<1>2. CASE CollectAhead \/ UnloadJoin
  <2>1. /\ collect_finished /\ pc' \in {"ahead", "spill"}
        /\ pc' = "ahead" => Quiet
        /\ UNCHANGED <<next_id, next_lin, clock, recent_new, stage, session, plan, cur, fault,
                       now, served>>
    BY <1>2 DEF CollectAhead, UnloadJoin, reqVars
  <2>2. StoreGood(entries', writing', disk', fault')
    BY <2>1, StateParts, CollectGood
  <2> QED BY <2>1, <2>2 DEF SInv, CountersGood, PlaceGood, Busy, Quiet
<1>3. CASE Unload
  <2>1. /\ pc' = "unload"
        /\ UNCHANGED <<entries, writing, disk, next_id, clock, recent_new, next_lin, stage,
                       session, plan, cur, fault, now, served>>
    BY <1>3 DEF Unload, storeVars, reqVars
  <2> QED BY <2>1 DEF SInv, CountersGood, PlaceGood
<1> QED BY <1>1, <1>2, <1>3

LEMMA SpillOneGood == ASSUME SInv, NEW s \in entries, SpillOne(s) PROVE SInv'
<1>1. /\ pc = "spill" /\ evict(s, disk) /\ entries' = entries \ {s}
      /\ UNCHANGED <<writing, next_lin, clock, recent_new, stage, session, plan, pc, cur, fault,
                     now, served>>
  BY DEF SpillOne, reqVars
<1>2. Home(s, fault) /\ Tier(disk)
  BY StateParts DEF StoreGood, Tier
<1>3. Tier(disk') /\ next_id' \in Nat \ {0}
  BY <1>1, <1>2, StateParts, EvictTier
<1>4. StoreGood(entries', writing', disk', fault')
  BY <1>1, <1>3, StateParts DEF StoreGood, Tier
<1> QED BY <1>1, <1>3, <1>4 DEF SInv, CountersGood, PlaceGood
-----------------------------------------------------------------------------
(* The engine's life. *)

LEMMA NewStoreGood ==
    ASSUME SInv, NewStore, next_lin' \in Nat \ {0} PROVE SInv'
<1>1. /\ entries' = {} /\ writing' = None /\ clock' = 0 /\ recent_new' = <<>>
      /\ disk' = expire(disk, now) /\ next_id' \in 1 .. next_id
      /\ stage' = [r \in Slots |-> "none"]
      /\ session' = [r \in Slots |-> NoSession] /\ plan' = [r \in Slots |-> None]
      /\ pc' = "idle" /\ cur' = None /\ fault' = FALSE
      /\ UNCHANGED <<now, served>>
  BY DEF NewStore
<1>2. SessionShape(NoSession)
  BY NewShape DEF NoSession, HomeShape
<1>3. SlotGood("none", NoSession, None, FALSE) /\ NoSession \in SessionType
  BY <1>2 DEF SlotGood, SessionShape
<1> HIDE DEF NoSession
<1>4. SlotsGood(stage', session', plan', fault')
  <2>1. \A r \in Slots : stage'[r] = "none" /\ session'[r] = NoSession /\ plan'[r] = None
    BY <1>1
  <2>2. /\ stage' \in [Slots -> {"none", "acquire", "prefill", "decode", "release"}]
        /\ session' \in [Slots -> SessionType] /\ DOMAIN plan' = Slots
    BY <1>1, <1>3
  <2>3. \A r \in Slots : /\ SlotGood(stage'[r], session'[r], plan'[r], fault')
                         /\ plan'[r] = None \/ plan'[r] \in PlanType
    BY <1>1, <1>3, <2>1
  <2> QED BY <2>2, <2>3 DEF SlotsGood
<1>5. StoreGood(entries', writing', disk', fault')
  BY <1>1, StateParts DEF StoreGood, expire
<1>6. CountersGood'
  <2>1. next_id' \in Nat \ {0} /\ now' \in Nat /\ served' \in Nat /\ clock' \in Nat
    BY <1>1, StateParts
  <2>2. recent_new' \in Seq(Nat)
    BY <1>1
  <2>3. pc' = "idle" /\ cur' \in Slots \cup {None} /\ fault' \in BOOLEAN
    BY <1>1
  <2> QED BY <2>1, <2>2, <2>3 DEF CountersGood
<1> QED BY <1>1, <1>4, <1>5, <1>6 DEF SInv, PlaceGood

LEMMA LifeGood ==
    ASSUME SInv, Reload \/ Recover \/ Crash \/ Fault \/ Tick PROVE SInv'
<1>1. CASE Reload \/ Recover \/ Crash
  <2>1. NewStore /\ next_lin' \in Nat \ {0}
    BY <1>1, StateParts DEF Reload, Recover, Crash
  <2> QED BY <2>1, NewStoreGood
<1>2. CASE Fault
  <2>1. /\ fault' = TRUE /\ Busy # {}
        /\ UNCHANGED <<entries, writing, disk, next_id, clock, recent_new, next_lin, stage,
                       session, plan, pc, cur, now, served>>
    BY <1>2 DEF Fault, storeVars, reqVars
  <2>2. StoreGood(entries', writing', disk', fault')
    BY <2>1, StateParts DEF StoreGood, Home
  <2>3. SlotsGood(stage', session', plan', fault')
    <3>1. \A st, s, q : SlotGood(st, s, q, fault) => SlotGood(st, s, q, TRUE)
      BY DEF SlotGood
    <3> QED BY <2>1, <3>1, StateParts DEF SlotsGood
  <2>4. pc # "ahead"
    BY <2>1 DEF SInv
  <2> QED BY <2>1, <2>2, <2>3, <2>4 DEF SInv, CountersGood, PlaceGood
<1>3. CASE Tick
  <2>1. /\ now' = now + 1
        /\ UNCHANGED <<entries, writing, disk, next_id, clock, recent_new, next_lin, stage,
                       session, plan, pc, cur, fault, served>>
    BY <1>3 DEF Tick, storeVars, reqVars
  <2> QED BY <2>1 DEF SInv, CountersGood, PlaceGood, Busy
<1> QED BY <1>1, <1>2, <1>3

LEMMA InitSInv == Init => SInv
<1> SUFFICES ASSUME Init PROVE SInv
  OBVIOUS
<1>1. /\ entries = {} /\ writing = None /\ disk = {} /\ next_id = 1
      /\ next_lin = 1 /\ clock = 0 /\ recent_new = <<>>
      /\ stage = [r \in Slots |-> "none"]
      /\ session = [r \in Slots |-> NoSession] /\ plan = [r \in Slots |-> None]
      /\ pc = "idle" /\ cur = None /\ fault = FALSE /\ now = 0 /\ served = 0
  BY DEF Init
<1>2. SessionShape(NoSession)
  BY NewShape DEF NoSession, HomeShape
<1>3. SlotGood("none", NoSession, None, FALSE) /\ NoSession \in SessionType
  BY <1>2 DEF SlotGood, SessionShape
<1> HIDE DEF NoSession
<1>4. SlotsGood(stage, session, plan, fault)
  <2>1. \A r \in Slots : stage[r] = "none" /\ session[r] = NoSession /\ plan[r] = None
    BY <1>1
  <2>2. /\ stage \in [Slots -> {"none", "acquire", "prefill", "decode", "release"}]
        /\ session \in [Slots -> SessionType] /\ DOMAIN plan = Slots
    BY <1>1, <1>3
  <2> QED BY <1>1, <1>3, <2>1, <2>2 DEF SlotsGood
<1>5. StoreGood(entries, writing, disk, fault)
  BY <1>1 DEF StoreGood
<1>6. CountersGood
  <2>1. recent_new \in Seq(Nat)
    BY <1>1
  <2>2. pc = "idle" /\ cur \in Slots \cup {None} /\ fault \in BOOLEAN
    BY <1>1, Zenon
  <2> QED BY <1>1, <2>1, <2>2 DEF CountersGood
<1> QED BY <1>1, <1>4, <1>5, <1>6 DEF SInv, PlaceGood

LEMMA NextSInv == SInv /\ [Next]_vars => SInv'
<1> SUFFICES ASSUME SInv, [Next]_vars PROVE SInv'
  OBVIOUS
<1>1. CASE \E r \in Slots : Request(r)
  <2>1. PICK r \in Slots : Request(r)
    BY <1>1
  <2>2. ASSUME NEW p \in Prompts, Acquire(r, p) PROVE SInv'
    BY <2>2, AcquireGood
  <2>3. CASE StoreDurable(r) \/ FinishPrefill(r) \/ Fail(r)
    BY <2>3, StoreDurableGood, FinishPrefillGood, FailGood
  <2>4. ASSUME NEW at \in 0 .. Max({Len(p.cells) : p \in Prompts}), StopPrefill(r, at) PROVE SInv'
    BY <2>4, StopPrefillGood
  <2>5. ASSUME NEW gen \in Answers, Answer(r, gen) PROVE SInv'
    BY <2>5, AnswerGood
  <2> QED BY <2>1, <2>2, <2>3, <2>4, <2>5 DEF Request
<1>2. CASE Inside
  BY <1>2, ReclaimGood, LookupGood, RoomGood, ReleaseGood, NothingToWriteGood, AheadGood, LifeGood,
     SpillOneGood DEF Inside
<1>3. CASE CollectAhead \/ (\E s \in Refreshed : StartWrite(s)) \/ WriterEnds \/ Unload
  BY <1>3, AheadGood, StartWriteGood
<1>4. CASE Fault \/ Recover \/ Crash \/ Tick
  BY <1>4, LifeGood
<1>5. CASE Terminated \/ UNCHANGED vars
  <2>1. UNCHANGED <<entries, writing, disk, next_id, clock, recent_new, next_lin, stage, session,
                    plan, pc, cur, fault, now, served>>
    BY <1>5 DEF Terminated, vars, storeVars, reqVars
  <2> QED BY <2>1 DEF SInv, CountersGood, PlaceGood, Busy
<1> QED BY <1>1, <1>2, <1>3, <1>4, <1>5 DEF Next
-----------------------------------------------------------------------------
(* What the caches must be: the theorems. *)

LEMMA SInvAlways == Spec => []SInv
BY InitSInv, NextSInv, PTL DEF Spec

LEMMA SInvContent == SInv => ContentSound
<1> SUFFICES ASSUME SInv PROVE ContentSound
  OBVIOUS
<1>1. \A e \in disk : Sound(e)
  BY StateParts DEF StoreGood, Archived, Faithful
<1>2. ASSUME ~fault, NEW s \in entries \cup parked PROVE Sound(s) /\ s.rec = s.kv
  <2>1. Home(s, fault)
    BY StateParts, HomeWeak DEF StoreGood, parked
  <2> QED BY <1>2, <2>1 DEF Home, Faithful
<1> QED BY <1>1, <1>2 DEF ContentSound

LEMMA SInvAdmission == SInv => AdmissionSound
<1> SUFFICES ASSUME SInv PROVE AdmissionSound
  OBVIOUS
<1>1. ResumeSound
  <2> SUFFICES ASSUME NEW r \in Slots, stage[r] = "prefill", ~fault
               PROVE  LET p == plan[r].prompt
                          s == session[r]
                      IN  /\ s.rec = Prefix(p.cells, Len(s.rec)) /\ s.kv = s.rec
                          /\ Sound(s) \/ Len(s.rec) > plan[r].reused
                          /\ \A i \in p.images :
                               ~(i.start < plan[r].reused /\ plan[r].reused < End(i))
    BY DEF ResumeSound
  <2>1. SlotGood("prefill", session[r], plan[r], fault)
    BY StateParts DEF SlotsGood
  <2> QED BY <2>1 DEF SlotGood, OnPrompt, Outside
<1>2. AgreementCovers
  <2> SUFFICES ASSUME NEW r \in Slots, stage[r] \in {"prefill", "decode"}
               PROVE  LET q == plan[r]
                      IN  /\ q.reused =< q.agreement /\ q.agreement < Len(q.prompt.cells)
                          /\ q.boundary # 0 => q.reused < q.boundary /\ q.boundary =< q.agreement
    BY DEF AgreementCovers
  <2>1. SlotGood(stage[r], session[r], plan[r], fault)
    BY StateParts DEF SlotsGood
  <2> QED BY <2>1 DEF SlotGood, Planned
<1> QED BY <1>1, <1>2 DEF AdmissionSound

LEMMA SInvTypes == SInv => TypeOK
<1> SUFFICES ASSUME SInv PROVE TypeOK
  OBVIOUS
<1>1. \A s \in entries : s \in SessionType
  BY StateParts DEF StoreGood, Home, HomeShape, SessionShape
<1>2. writing # None => writing \in WriteType
  BY StateParts DEF StoreGood
<1>3. \A e \in disk : e \in EntryType
  BY StateParts DEF StoreGood, Archived, EntryShape
<1>4. /\ stage \in [Slots -> {"none", "acquire", "prefill", "decode", "release"}]
      /\ session \in [Slots -> SessionType] /\ DOMAIN plan = Slots
      /\ \A r \in Slots : plan[r] = None \/ plan[r] \in PlanType
  BY StateParts DEF SlotsGood
<1> QED BY <1>1, <1>2, <1>3, <1>4 DEF SInv, CountersGood, TypeOK, WriteType

(* Whatever was cancelled, cut back, forked, restored, refused or crashed   *)
(* on the way: every entry on disk, and every resident or parked session    *)
(* while the GPU has not faulted, holds caches computed from exactly its    *)
(* tokens and images (the caches the store hands out and writes).           *)
THEOREM ContentIsSound == Spec => []ContentSound
BY SInvAlways, SInvContent, PTL

(* A request that prefills runs on caches computed from its own prompt,     *)
(* resumes inside none of its images and has something left to feed, and    *)
(* its durable boundary lies between resume and agreement (acquire).        *)
THEOREM AdmissionIsSound == Spec => []AdmissionSound
BY SInvAlways, SInvAdmission, PTL
-----------------------------------------------------------------------------
(* The disk tier within its bounds. *)

DiskFits(d) ==
    /\ IsFiniteSet(d) /\ \A e \in d : e.bytes \in Nat
    /\ disk_used_bytes(d) =< DiskBudget
    /\ Cardinality({e \in d : e.durable}) =< DurableMax

LEMMA FewerFit == ASSUME NEW d, DiskFits(d), NEW d2 \in SUBSET d PROVE DiskFits(d2)
<1>1. IsFiniteSet(d2) /\ IsFiniteSet(d) /\ \A e \in d : e.bytes \in Nat
  BY FS_Subset DEF DiskFits
<1>2. disk_used_bytes(d2) =< disk_used_bytes(d) /\ disk_used_bytes(d) \in Nat
      /\ disk_used_bytes(d2) \in Nat
  BY <1>1, UsedFacts
<1> DEFINE D == {e \in d : e.durable}
           D2 == {e \in d2 : e.durable}
<1>3. D2 \subseteq D /\ IsFiniteSet(D)
  BY <1>1, FS_Subset
<1>4. Cardinality(D) =< DurableMax
  BY DEF DiskFits
<1> HIDE DEF D, D2
<1>5. Cardinality(D2) =< Cardinality(D) /\ Cardinality(D2) \in Nat /\ Cardinality(D) \in Nat
  BY <1>3, FS_Subset, FS_CardinalityType
<1>6. Cardinality(D2) =< DurableMax
  BY <1>4, <1>5, DiskTierAssumption
<1>7. disk_used_bytes(d2) =< DiskBudget
  BY <1>2, DiskTierAssumption DEF DiskFits
<1> QED BY <1>1, <1>6, <1>7 DEF DiskFits, D2

(* trim stops when the rest fits, or when nothing is left. *)
LEMMA TrimFits ==
    ASSUME NEW d, IsFiniteSet(d), \A e \in d : e.bytes \in Nat, NEW n \in Nat, n =< DiskBudget,
           NEW t \in trim(d, n)
    PROVE  t \subseteq d /\ disk_used_bytes(t) + n =< DiskBudget
<1>1. PICK V \in SUBSET d : t = d \ V /\ (disk_used_bytes(d \ V) + n > DiskBudget => V = d)
  BY Zenon DEF trim, Trimmed
<1>2. disk_used_bytes({}) = 0
  BY UsedFacts
<1>3. t \subseteq d /\ disk_used_bytes(t) \in Nat
  <2>1. IsFiniteSet(t) /\ t \subseteq d
    BY <1>1, FS_Subset
  <2> QED BY <2>1, UsedFacts
<1>4. CASE V = d
  <2>1. t = {}
    BY <1>1, <1>4
  <2> QED BY <1>2, <2>1
<1>5. CASE V # d
  BY <1>1, <1>3, <1>5, DiskTierAssumption
<1> QED BY <1>4, <1>5

LEMMA CapFits ==
    ASSUME NEW d, IsFiniteSet(d), NEW t \in trim_durable(d)
    PROVE  t \subseteq d /\ Cardinality({e \in t : e.durable}) =< DurableMax
<1>1. PICK V \in SUBSET {e \in d : e.durable} :
        /\ t = d \ V
        /\ Cardinality({e \in d \ V : e.durable}) > DurableMax => V = {e \in d : e.durable}
  BY Zenon DEF trim_durable, Trimmed
<1> DEFINE D == {e \in t : e.durable}
<1>2. IsFiniteSet(D)
  BY <1>1, FS_Subset
<1>3. D = {} \/ ~(Cardinality(D) > DurableMax)
  BY <1>1
<1> HIDE DEF D
<1>4. Cardinality(D) \in Nat /\ Cardinality({}) = 0
  BY <1>2, FS_CardinalityType, FS_EmptySet
<1>5. Cardinality(D) =< DurableMax
  BY <1>3, <1>4, DiskTierAssumption
<1> QED BY <1>1, <1>5 DEF D

LEMMA CommitFits ==
    ASSUME NEW d, DiskFits(d), NEW new, new.bytes \in Nat, NEW spare, NEW d2 \in commit(d, new, spare)
    PROVE  DiskFits(d2)
<1>1. CASE new.bytes > DiskBudget
  <2>1. d2 = d
    BY <1>1, Zenon DEF commit
  <2> QED BY <2>1
<1>2. CASE ~(new.bytes > DiskBudget)
  <2>1. PICK room \in trim(d, new.bytes) :
          d2 \in (IF ~spare THEN {room}
                  ELSE UNION {trim(kept, 0) : kept \in
                        IF new.durable THEN trim_durable(room \cup {new})
                                       ELSE {room \cup {new}}})
    BY <1>2, Zenon DEF commit
  <2>2. room \subseteq d
    BY TrimWithin, Zenon
  <2>3. DiskFits(room)
    BY <2>2, FewerFit
  <2>4. CASE ~spare
    BY <2>1, <2>3, <2>4
  <2>5. CASE spare
    <3> DEFINE all == room \cup {new}
    <3>1. PICK kept \in IF new.durable THEN trim_durable(all) ELSE {all} : d2 \in trim(kept, 0)
      BY <2>1, <2>5, Zenon
    <3>2. IsFiniteSet(all) /\ \A e \in all : e.bytes \in Nat
      BY <2>3, FS_AddElement DEF DiskFits
    <3>3. kept \subseteq all /\ Cardinality({e \in kept : e.durable}) =< DurableMax
      <4>1. CASE new.durable
        <5> HIDE DEF all
        <5>1. kept \in trim_durable(all)
          BY <3>1, <4>1
        <5> QED BY <3>2, <5>1, CapFits
      <4>2. CASE ~new.durable
        <5>1. kept = all
          BY <3>1, <4>2
        <5>2. {e \in kept : e.durable} = {e \in room : e.durable}
          BY <5>1, <4>2
        <5> QED BY <2>3, <5>1, <5>2 DEF DiskFits
      <4> QED BY <4>1, <4>2
    <3> HIDE DEF all
    <3>4. IsFiniteSet(kept) /\ \A e \in kept : e.bytes \in Nat
      BY <3>2, <3>3, FS_Subset
    <3>5. 0 \in Nat /\ 0 =< DiskBudget
      BY DiskTierAssumption
    <3>6. d2 \subseteq kept /\ disk_used_bytes(d2) + 0 =< DiskBudget
      BY <3>1, <3>4, <3>5, TrimFits
    <3>7. IsFiniteSet(d2) /\ \A e \in d2 : e.bytes \in Nat
      BY <3>4, <3>6, FS_Subset
    <3>8. disk_used_bytes(d2) \in Nat
      BY <3>7, UsedFacts
    <3>9. Cardinality({e \in d2 : e.durable}) =< DurableMax
      <4> DEFINE D == {e \in kept : e.durable}
                 D2 == {e \in d2 : e.durable}
      <4>1. D2 \subseteq D /\ IsFiniteSet(D)
        BY <3>4, <3>6, FS_Subset
      <4>2. Cardinality(D) =< DurableMax
        BY <3>3
      <4> HIDE DEF D, D2
      <4>3. Cardinality(D2) =< Cardinality(D) /\ Cardinality(D2) \in Nat /\ Cardinality(D) \in Nat
        BY <4>1, FS_Subset, FS_CardinalityType
      <4>4. Cardinality(D2) =< DurableMax
        BY <4>2, <4>3, DiskTierAssumption
      <4> QED BY <4>4 DEF D2
    <3> QED BY <3>6, <3>7, <3>8, <3>9, DiskTierAssumption DEF DiskFits
  <2> QED BY <2>4, <2>5
<1> QED BY <1>1, <1>2

LEMMA StoredFits ==
    ASSUME NEW d, DiskFits(d), NEW new, new.bytes \in Nat, NEW d2 \in Stored(d, new)
    PROVE  DiskFits(d2)
<1>1. d2 = d \/ \E spare : d2 \in commit(d, new, spare)
  BY Zenon DEF Stored
<1> QED BY <1>1, CommitFits

LEMMA ExpireFits == ASSUME NEW d, DiskFits(d) PROVE DiskFits(expire(d, now))
<1>1. expire(d, now) \subseteq d
  BY DEF expire
<1> QED BY <1>1, FewerFit

LEMMA RemoveFits == ASSUME NEW d, NEW id, DiskFits(d) PROVE DiskFits(remove(d, id))
<1>1. remove(d, id) \subseteq d
  BY DEF remove
<1> QED BY <1>1, FewerFit

(* A hit changes only when an entry was last used. *)
LEMMA TouchFits ==
    ASSUME NEW d, DiskFits(d), \A e \in d : e \in EntryType, \A e, f \in d : e.id = f.id => e = f,
           NEW id, NEW t
    PROVE  DiskFits(touch(d, id, t))
<1> DEFINE g(e) == IF e.id = id THEN [e EXCEPT !.used = t] ELSE e
           h == [e \in d |-> g(e)]
           d2 == touch(d, id, t)
<1>1. d2 = {h[e] : e \in d} /\ h \in [d -> d2]
  BY DEF touch
<1>2. \A e \in d : h[e].id = e.id /\ h[e].bytes = e.bytes /\ h[e].durable = e.durable
  <2> TAKE e \in d
  <2>1. e \in EntryType /\ h[e] = g(e)
    OBVIOUS
  <2> QED BY <2>1 DEF EntryType
<1> HIDE DEF h, d2
<1>3. \A e, f \in d : h[e] = h[f] => e = f
  BY <1>2
<1>4. \A e \in d : e.bytes \in Nat /\ h[e].bytes = e.bytes
  BY <1>2 DEF DiskFits
<1>5. IsFiniteSet(d)
  BY DEF DiskFits
<1>6. disk_used_bytes(d2) = disk_used_bytes(d)
  BY <1>1, <1>3, <1>4, <1>5, UsedRenamed
<1>7. IsFiniteSet(d2)
  BY <1>1, <1>5, FiniteImage
<1> DEFINE D == {e \in d : e.durable}
           D2 == {e \in d2 : e.durable}
           k == [e \in D |-> h[e]]
<1>8. Cardinality(D2) = Cardinality(D)
  <2>1. D2 = {k[e] : e \in D}
    <3>1. \A e \in D : k[e] = h[e] /\ e \in d /\ h[e] \in D2
      BY <1>1, <1>2
    <3>2. \A f \in D2 : \E e \in D : f = h[e]
      BY <1>1, <1>2
    <3> HIDE DEF k, D, D2
    <3> QED BY <3>1, <3>2
  <2>0. k \in [D -> D2]
    BY <2>1
  <2>2. \A e, f \in D : k[e] = k[f] => e = f
    BY <1>3
  <2>3. IsFiniteSet(D)
    BY <1>5, FS_Subset
  <2> HIDE DEF D, D2, k
  <2>4. k \in Bijection(D, D2)
    BY <2>0, <2>1, <2>2 DEF Bijection, Injection, Surjection, IsInjective
  <2> QED BY <2>3, <2>4, FS_Bijection DEF ExistsBijection
<1>9. \A e \in d2 : e.bytes \in Nat
  BY <1>1, <1>4
<1>10. DiskFits(d2)
  BY <1>6, <1>7, <1>8, <1>9 DEF DiskFits
<1> QED BY <1>10 DEF d2

LEMMA EvictFits ==
    ASSUME NEW s, Home(s, fault), NEW d, Tier(d), \A e, f \in d : e.id = f.id => e = f,
           DiskFits(d), evict(s, d), next_id \in Nat, now \in Nat
    PROVE  DiskFits(disk')
<1>1. CASE has_copy(s, d) /\ disk' = touch(d, s.disk[2], now)
  <2>1. \A e \in d : e \in EntryType
    BY DEF Tier, Archived, EntryShape
  <2> QED BY <1>1, <2>1, TouchFits
<1>2. CASE disk' \in Stored(expire(d, now), NewEntry(s, next_id))
  <2> DEFINE n == NewEntry(s, next_id)
  <2>1. n \in EntryType
    BY NewEntryFields DEF Home
  <2>2. n.bytes \in Nat
    BY <2>1, EntryParts
  <2> HIDE DEF n
  <2>3. DiskFits(expire(d, now))
    BY ExpireFits
  <2> QED BY <1>2, <2>2, <2>3, StoredFits DEF n
<1>3. CASE disk' = d
  BY <1>3
<1> QED BY <1>1, <1>2, <1>3 DEF evict

LEMMA FinishFits ==
    ASSUME StoreGood(entries, writing, disk, fault), writing # None, NEW o \in finish_write,
           now \in Nat, DiskFits(disk)
    PROVE  DiskFits(o.disk)
<1> DEFINE w == writing.session
           n == NewEntry(w, writing.id)
<1>1. HomeShape(w) /\ writing.id \in Nat
  BY DEF StoreGood, WriteType, Home
<1>2. n.bytes \in Nat
  BY <1>1, NewEntryFields, EntryParts
<1>3. o.disk = disk \/ \E spare : o.disk \in commit(disk, n, spare)
  <2>1. \/ o = [session |-> [w EXCEPT !.disk = Refused], disk |-> disk]
        \/ \E spare : \E d2 \in commit(disk, n, spare) :
              o = [session |-> [w EXCEPT !.disk = IF contains(d2, writing.id)
                                                  THEN Written(writing.id) ELSE Refused],
                   disk |-> d2]
    BY Zenon DEF finish_write
  <2> QED BY <2>1
<1> HIDE DEF n
<1> QED BY <1>2, <1>3, CommitFits

LEMMA CollectFits ==
    ASSUME StoreGood(entries, writing, disk, fault), collect_finished, now \in Nat, DiskFits(disk)
    PROVE  DiskFits(disk')
<1>1. CASE finished
  <2>1. PICK o \in finish_write : disk' = o.disk
    BY <1>1 DEF collect_finished
  <2>2. writing # None
    BY <1>1 DEF finished
  <2> QED BY <2>1, <2>2, FinishFits
<1>2. CASE ~finished
  BY <1>2 DEF collect_finished
<1> QED BY <1>1, <1>2

LEMMA IdsDiffer ==
    ASSUME NEW en, NEW wr, NEW d, NEW se, NEW i, NEW l, StorePart(en, wr, d, se, i, l)
    PROVE  \A e, f \in d : e.id = f.id => e = f
BY DEF StorePart, DiskPart

LEMMA LruFits ==
    ASSUME SInv, Now, evict_lru, DiskFits(disk)
    PROVE  DiskFits(disk')
<1>0. /\ StoreGood(entries, writing, disk, fault) /\ next_id \in Nat /\ now \in Nat
  BY StateParts
<1>1. CASE writing # None /\ \E o \in finish_write : evict(o.session, o.disk)
  <2>1. PICK o \in finish_write : evict(o.session, o.disk)
    BY <1>1
  <2>2. Home(o.session, fault) /\ Tier(o.disk) /\ DiskFits(o.disk)
    BY <1>0, <1>1, FinishGood, FinishFits, HomeWeak
  <2>3. StorePart(entries \cup {o.session}, None, o.disk, session, next_id, next_lin)
    BY <1>1, Finish
  <2>4. \A e, f \in o.disk : e.id = f.id => e = f
    BY <2>3, IdsDiffer
  <2> QED BY <1>0, <2>1, <2>2, <2>4, EvictFits
<1>2. CASE \E s \in entries : evict(s, disk)
  <2>1. PICK s \in entries : evict(s, disk)
    BY <1>2
  <2>2. Home(s, fault) /\ Tier(disk)
    BY <1>0 DEF StoreGood, Tier
  <2>3. \A e, f \in disk : e.id = f.id => e = f
    BY IdsDiffer DEF Now
  <2> QED BY <1>0, <2>1, <2>2, <2>3, EvictFits
<1> QED BY <1>1, <1>2 DEF evict_lru

(* What a lookup may do to the store, whoever wins it. *)
Taken(d) ==
    /\ disk' = d /\ entries' \subseteq entries
    /\ UNCHANGED <<writing, next_id>> /\ pc' \in {"idle", "room"}

LEMMA LookupMoves ==
    ASSUME Lookup
    PROVE  /\ pc = "lookup"
           /\ Taken(Fresh) \/ \E id : Taken(touch(Fresh, id, now)) \/ Taken(remove(Fresh, id))
<1>1. ASSUME NEW s, NEW n, NEW c, NEW u, TakeResident(s, n, c, u) PROVE Taken(Fresh)
  BY <1>1 DEF TakeResident, Taken
<1>2. ASSUME NEW u, NEW n, NEW d, TakeNew(u, n, d) PROVE Taken(d)
  BY <1>2 DEF TakeNew, Taken
<1>3. CASE StartFresh
  <2>1. pc = "lookup" /\ \E u, n : TakeNew(u, n, Fresh)
    BY <1>3, Zenon DEF StartFresh
  <2> QED BY <2>1, <1>2
<1>4. ASSUME NEW s, Extend(s) \/ CutBack(s) PROVE pc = "lookup" /\ Taken(Fresh)
  <2>1. pc = "lookup" /\ \E n, c, u : TakeResident(s, n, c, u)
    BY <1>4, Zenon DEF Extend, CutBack
  <2> QED BY <2>1, <1>1
<1>5. ASSUME NEW s, Fork(s) PROVE pc = "lookup" /\ Taken(Fresh)
  <2>1. pc = "lookup" /\ \E u, n : TakeNew(u, n, Fresh)
    BY <1>5, Zenon DEF Fork
  <2> QED BY <2>1, <1>2
<1>6. ASSUME NEW e, Restore(e)
      PROVE  pc = "lookup" /\ (Taken(touch(Fresh, e.id, now)) \/ Taken(remove(Fresh, e.id)))
  <2>1. pc = "lookup" /\ \E u, n, forked :
          TakeNew(u, n, IF forked THEN touch(Fresh, e.id, now) ELSE remove(Fresh, e.id))
    BY <1>6, Zenon DEF Restore
  <2>2. PICK forked : Taken(IF forked THEN touch(Fresh, e.id, now) ELSE remove(Fresh, e.id))
    BY <2>1, <1>2
  <2> QED BY <2>1, <2>2
<1>7. ASSUME NEW e, DropUnreadable(e) PROVE pc = "lookup" /\ Taken(remove(Fresh, e.id))
  <2>1. pc = "lookup" /\ \E u, n : TakeNew(u, n, remove(Fresh, e.id))
    BY <1>7, Zenon DEF DropUnreadable
  <2> QED BY <2>1, <1>2
<1> QED BY <1>3, <1>4, <1>5, <1>6, <1>7 DEF Lookup

LEMMA LookupFits ==
    ASSUME SInv, Now, Lookup, DiskFits(disk)
    PROVE  DiskFits(disk')
<1>0. Fresh \subseteq disk /\ DiskFits(Fresh)
  BY ExpireFits DEF Fresh, expire
<1>1. \A e, f \in Fresh : e.id = f.id => e = f
  BY <1>0, IdsDiffer DEF Now
<1>2. \A e \in Fresh : e \in EntryType
  BY <1>0, StateParts DEF StoreGood, Archived, EntryShape
<1>3. disk' = Fresh \/ \E id : disk' = touch(Fresh, id, now) \/ disk' = remove(Fresh, id)
  BY LookupMoves DEF Taken
<1> QED BY <1>0, <1>1, <1>2, <1>3, TouchFits, RemoveFits

LEMMA DurableFits ==
    ASSUME SInv, NEW r \in Slots, StoreDurable(r), DiskFits(disk)
    PROVE  DiskFits(disk')
<1> DEFINE p == plan[r].prompt
           b == plan[r].boundary
           s == FedUpTo(session[r], p, b)
           e == DurableOf(p, b, s)
<1>1. b > 0 /\ stage[r] = "prefill" /\ ~fault /\ disk' \in Stored(expire(disk, now), e)
  BY Zenon DEF StoreDurable, FedUpTo, DurableOf
<1>2. /\ SlotGood("prefill", session[r], plan[r], fault) /\ p \in Prompts /\ b \in Nat
      /\ SessionShape(session[r])
  BY <1>1, RunningParts
<1>3. /\ Planned(session[r], plan[r]) /\ OnPrompt(session[r], p)
  BY <1>1, <1>2 DEF SlotGood
<1>4. /\ Len(session[r].rec) =< b /\ b =< Len(p.cells)
  <2>1. /\ plan[r].reused < b /\ b =< plan[r].agreement /\ plan[r].agreement < Len(p.cells)
        /\ Len(session[r].rec) = plan[r].reused
    BY <1>1, <1>2, <1>3 DEF Planned
  <2>2. plan[r].agreement \in Nat /\ plan[r].reused \in Nat /\ Len(p.cells) \in Nat
    BY <1>1, <1>2, RunningParts, PromptParts
  <2> QED BY <1>2, <2>1, <2>2
<1>5. SessionShape(s) /\ OnPrompt(s, p) /\ Len(s.rec) = b
  <2> HIDE DEF p, b
  <2> QED BY <1>1, <1>2, <1>3, <1>4, PromptFed
<1> HIDE DEF s, p, b
<1>6. e.bytes \in Nat
  BY <1>2, <1>4, <1>5, StateParts, DurableIsArchived
<1> HIDE DEF e
<1> QED BY <1>1, <1>6, ExpireFits, StoredFits

LEMMA NextFits ==
    ASSUME SInv, IInv, [Next]_vars, DiskFits(disk)
    PROVE  DiskFits(disk')
<1>0. /\ StoreGood(entries, writing, disk, fault) /\ next_id \in Nat /\ now \in Nat
  BY StateParts
<1>1. Now
  BY DEF IInv, Now
<1>2. CASE collect_finished
  BY <1>0, <1>2, CollectFits
<1>3. CASE disk' \in {disk, expire(disk, now)}
  BY <1>3, ExpireFits
<1>4. ASSUME NEW r \in Slots, Request(r) PROVE DiskFits(disk')
  <2>1. CASE StoreDurable(r)
    BY <2>1, DurableFits
  <2>2. CASE FinishPrefill(r) \/ Fail(r)
    BY <1>3, <2>2 DEF FinishPrefill, Fail, storeVars
  <2>3. ASSUME NEW p, Acquire(r, p) PROVE DiskFits(disk')
    BY <1>2, <2>3 DEF Acquire
  <2>4. ASSUME NEW at, StopPrefill(r, at) PROVE DiskFits(disk')
    <3>1. \E s : GiveBack(r, s)
      BY <2>4, Zenon DEF StopPrefill
    <3> QED BY <1>2, <3>1 DEF GiveBack
  <2>5. ASSUME NEW gen, Answer(r, gen) PROVE DiskFits(disk')
    <3>1. \E s : GiveBack(r, s)
      BY <2>5, Zenon DEF Answer
    <3> QED BY <1>2, <3>1 DEF GiveBack
  <2> QED BY <1>4, <2>1, <2>2, <2>3, <2>4, <2>5 DEF Request
<1>5. CASE Inside
  <2>1. CASE reclaim_for \/ RoomMade \/ Released \/ NothingToWrite
    BY <1>3, <2>1 DEF reclaim_for, RoomMade, Released, NothingToWrite, storeVars
  <2>2. CASE Lookup
    BY <1>1, <2>2, LookupFits
  <2>3. CASE MakeRoom \/ TrimReleased
    BY <1>1, <2>3, LruFits DEF MakeRoom, TrimReleased
  <2>4. CASE Release
    <3>1. disk' = disk \/ disk' = DiscardCopy(session[cur]).disk
      BY <2>4 DEF Release
    <3>2. DiscardCopy(session[cur]).disk \in {disk, remove(disk, session[cur].disk[2])}
      BY DEF DiscardCopy
    <3> QED BY <3>1, <3>2, RemoveFits
  <2>5. CASE UnloadJoin
    BY <1>2, <2>5 DEF UnloadJoin
  <2>6. CASE Reload
    BY <1>3, <2>6 DEF Reload, NewStore
  <2>7. ASSUME NEW s \in entries, SpillOne(s) PROVE DiskFits(disk')
    <3>1. evict(s, disk)
      BY <2>7 DEF SpillOne
    <3>2. Home(s, fault) /\ Tier(disk)
      BY <1>0 DEF StoreGood, Tier
    <3>3. \A e, f \in disk : e.id = f.id => e = f
      BY <1>1, IdsDiffer DEF Now
    <3> QED BY <1>0, <3>1, <3>2, <3>3, EvictFits
  <2> QED BY <1>5, <2>1, <2>2, <2>3, <2>4, <2>5, <2>6, <2>7 DEF Inside
<1>6. CASE CollectAhead
  BY <1>2, <1>6 DEF CollectAhead
<1>7. ASSUME NEW s, StartWrite(s) PROVE DiskFits(disk')
  BY <1>3, <1>7 DEF StartWrite
<1>8. CASE WriterEnds \/ Unload \/ Fault \/ Recover \/ Crash \/ Tick \/ Terminated \/ UNCHANGED vars
  BY <1>3, <1>8 DEF WriterEnds, Unload, Fault, Recover, Crash, NewStore, Tick, Terminated, vars,
     storeVars
<1> QED BY <1>4, <1>5, <1>6, <1>7, <1>8 DEF Next

LEMMA InitFits == Init => DiskFits(disk)
<1> SUFFICES ASSUME disk = {} PROVE DiskFits(disk)
  BY DEF Init
<1>1. IsFiniteSet({}) /\ Cardinality({}) = 0
  BY FS_EmptySet
<1>2. {e \in {} : e.durable} = {}
  OBVIOUS
<1>3. disk_used_bytes({}) = 0
  BY <1>1, UsedFacts
<1> QED BY <1>1, <1>2, <1>3, DiskTierAssumption DEF DiskFits

DInv == DiskFits(disk)

LEMMA FitsAlways == Spec => []DInv
<1>1. SInv /\ IInv /\ DInv /\ [Next]_vars => DInv'
  BY NextFits DEF DInv
<1>2. Init => DInv
  BY InitFits DEF DInv
<1> QED BY <1>1, <1>2, SInvAlways, Invariance, PTL DEF Spec

(* Every variable is of its type; the disk tier never holds more bytes than *)
(* its budget nor more durable entries than the cap, whichever entries of   *)
(* the same second trim and trim_durable take first.                        *)
THEOREM TierIsSound == Spec => []TierSound
<1>1. SInv /\ DInv => TierSound
  BY SInvTypes DEF TierSound, DInv, DiskFits, DiskWithinBudget
<1> QED BY <1>1, SInvAlways, FitsAlways, PTL
-----------------------------------------------------------------------------
(* The copies written ahead. *)

Matches(s, e) ==
    /\ e.lineage = s.lineage /\ e.tokens = s.tokens /\ e.images = s.images
    /\ e.kv = s.kv /\ e.ckpts = PlanOf(s)

(* A number once given to a session's copy goes to no other entry. *)
CopyGood(en, wr, d, i) ==
    \A s \in en :
        /\ \A e \in d : s.disk = Written(e.id) => Matches(s, e)
        /\ \A k : s.disk = Written(k) => k \in Nat /\ k < i /\ (wr # None => k # wr.id)

LEMMA WrittenSame == \A a, b : Written(a) = Written(b) => a = b
BY DEF Written

LEMMA FewerCopies ==
    ASSUME NEW en, NEW wr, NEW d, NEW i, CopyGood(en, wr, d, i), NEW en2 \in SUBSET en,
           NEW d2 \in SUBSET d, NEW wr2, wr2 \in {wr, None}
    PROVE  CopyGood(en2, wr2, d2, i)
BY DEF CopyGood

LEMMA TouchMatches ==
    ASSUME NEW en, NEW wr, NEW d, NEW i, CopyGood(en, wr, d, i), \A e \in d : e \in EntryType,
           NEW id, NEW t
    PROVE  CopyGood(en, wr, touch(d, id, t), i)
<1>1. \A f \in touch(d, id, t) : \E e \in d :
        /\ f.id = e.id /\ f.lineage = e.lineage /\ f.tokens = e.tokens /\ f.images = e.images
        /\ f.kv = e.kv /\ f.ckpts = e.ckpts
  <2> TAKE f \in touch(d, id, t)
  <2>1. PICK e \in d : f = IF e.id = id THEN [e EXCEPT !.used = t] ELSE e
    BY DEF touch
  <2>2. e \in EntryType
    OBVIOUS
  <2>3. /\ f.id = e.id /\ f.lineage = e.lineage /\ f.tokens = e.tokens /\ f.images = e.images
        /\ f.kv = e.kv /\ f.ckpts = e.ckpts
    BY <2>1, <2>2 DEF EntryType
  <2> QED BY <2>3
<1> QED BY <1>1 DEF CopyGood, Matches

LEMMA EntryForeign ==
    ASSUME NEW en, NEW wr, NEW d, NEW i \in Nat, CopyGood(en, wr, d, i), NEW n,
           \A s \in en : s.disk # Written(n.id),
           NEW d2 \in SUBSET (d \cup {n}), NEW i2 \in Nat, i =< i2
    PROVE  CopyGood(en, wr, d2, i2)
<1>1. ASSUME NEW s \in en, NEW e \in d2, s.disk = Written(e.id) PROVE e \in d
  BY <1>1
<1> QED BY <1>1 DEF CopyGood

LEMMA FreshNumber ==
    ASSUME NEW en, NEW wr, NEW d, NEW i \in Nat, CopyGood(en, wr, d, i)
    PROVE  \A s \in en : s.disk # Written(i)
BY DEF CopyGood

LEMMA EvictMatches ==
    ASSUME NEW en, NEW wr, NEW d, CopyGood(en, wr, d, next_id), Tier(d), NEW s, evict(s, d),
           next_id \in Nat
    PROVE  CopyGood(en, wr, disk', next_id')
<1>1. CASE has_copy(s, d) /\ disk' = touch(d, s.disk[2], now) /\ next_id' = next_id
  <2>1. \A e \in d : e \in EntryType
    BY DEF Tier, Archived, EntryShape
  <2> QED BY <1>1, <2>1, TouchMatches
<1>2. CASE disk' \in Stored(expire(d, now), NewEntry(s, next_id)) /\ next_id' = reserve
  <2> DEFINE n == NewEntry(s, next_id)
  <2>1. n.id = next_id
    BY NewEntryKeeps
  <2>2. disk' \subseteq expire(d, now) \cup {n}
    BY <1>2, StoredWithin
  <2>3. expire(d, now) \subseteq d
    BY DEF expire
  <2>4. next_id' \in Nat /\ next_id =< next_id'
    BY <1>2 DEF reserve
  <2> HIDE DEF n
  <2>5. \A t \in en : t.disk # Written(n.id)
    BY <2>1, FreshNumber
  <2>6. disk' \in SUBSET (d \cup {n})
    BY <2>2, <2>3
  <2> QED BY <2>4, <2>5, <2>6, EntryForeign
<1>3. CASE disk' = d /\ next_id' = next_id
  BY <1>3
<1> QED BY <1>1, <1>2, <1>3 DEF evict

(* finish_write: the number was the parked session's alone. *)
LEMMA FinishMatches ==
    ASSUME SInv, Now, writing # None, NEW o \in finish_write,
           CopyGood(entries, writing, disk, next_id)
    PROVE  /\ CopyGood(entries, None, o.disk, next_id)
           /\ CopyGood(entries \cup {o.session}, None, o.disk, next_id)
<1> DEFINE w == writing.session
           n == NewEntry(w, writing.id)
<1>0. /\ HomeShape(w) /\ w \in SessionType /\ writing.id \in Nat /\ next_id \in Nat
      /\ now \in Nat
  BY StateParts DEF StoreGood, WriteType, Home
<1>1. writing.id < next_id /\ \A e \in disk : e.id # writing.id
  BY DEF Now, StorePart, WritingPart
<1>2. /\ n.id = writing.id /\ n.lineage = w.lineage /\ n.tokens = w.tokens
      /\ n.images = w.images /\ n.kv = w.kv /\ n.ckpts = PlanOf(w)
  BY <1>0, NewEntryFields
<1>3. \A s \in entries : s.disk # Written(writing.id)
  BY DEF CopyGood
<1>4. CopyGood(entries, None, disk, next_id)
  BY FewerCopies
<1>5. CASE o = [session |-> [w EXCEPT !.disk = Refused], disk |-> disk]
  <2> DEFINE u == [w EXCEPT !.disk = Refused]
  <2>1. u.disk = Refused /\ o.session = u /\ o.disk = disk
    BY <1>0, <1>5 DEF SessionType
  <2> HIDE DEF u
  <2>2. \A k : u.disk # Written(k)
    BY <2>1, Copies
  <2> QED BY <1>4, <2>1, <2>2 DEF CopyGood
<1>6. ASSUME NEW spare, NEW d2 \in commit(disk, n, spare),
             o = [session |-> [w EXCEPT !.disk = IF contains(d2, writing.id)
                                                 THEN Written(writing.id) ELSE Refused],
                  disk |-> d2]
      PROVE  /\ CopyGood(entries, None, o.disk, next_id)
             /\ CopyGood(entries \cup {o.session}, None, o.disk, next_id)
  <2> DEFINE c == IF contains(d2, writing.id) THEN Written(writing.id) ELSE Refused
             u == [w EXCEPT !.disk = c]
  <2>1. o.session = u /\ o.disk = d2 /\ d2 \subseteq disk \cup {n}
    BY <1>6, CommitWithin
  <2>2. /\ u.disk = c /\ u.tokens = w.tokens /\ u.images = w.images /\ u.kv = w.kv
        /\ u.lineage = w.lineage /\ u.ckpts = w.ckpts /\ u.rec = w.rec
    BY <1>0 DEF SessionType
  <2>3. \A k : c = Written(k) => k = writing.id
    BY Copies, WrittenSame
  <2> HIDE DEF n, u, c
  <2>4. PlanOf(u) = PlanOf(w)
    BY <2>2 DEF PlanOf
  <2>5. CopyGood(entries, None, d2, next_id)
    BY <1>0, <1>2, <1>3, <1>4, <2>1, EntryForeign
  <2>6. \A e \in d2 : u.disk = Written(e.id) => Matches(u, e)
    <3> SUFFICES ASSUME NEW e \in d2, u.disk = Written(e.id) PROVE Matches(u, e)
      OBVIOUS
    <3>1. e = n
      BY <1>1, <2>1, <2>2, <2>3
    <3> QED BY <1>2, <2>2, <2>4, <3>1 DEF Matches
  <2>7. \A k : u.disk = Written(k) => k \in Nat /\ k < next_id
    BY <1>0, <1>1, <2>2, <2>3
  <2>8. CopyGood(entries \cup {u}, None, d2, next_id)
    BY <2>5, <2>6, <2>7 DEF CopyGood
  <2> QED BY <2>1, <2>5, <2>8
<1>7. \/ o = [session |-> [w EXCEPT !.disk = Refused], disk |-> disk]
      \/ \E spare : \E d2 \in commit(disk, n, spare) :
            o = [session |-> [w EXCEPT !.disk = IF contains(d2, writing.id)
                                                THEN Written(writing.id) ELSE Refused],
                 disk |-> d2]
  BY Zenon DEF finish_write
<1> QED BY <1>5, <1>6, <1>7

LEMMA CollectMatches ==
    ASSUME SInv, Now, CopyGood(entries, writing, disk, next_id), collect_finished
    PROVE  CopyGood(entries', writing', disk', next_id)
<1>1. CASE finished
  <2>1. PICK o \in finish_write : entries' = entries \cup {o.session} /\ disk' = o.disk
    BY <1>1 DEF collect_finished
  <2>2. writing # None /\ writing' = None
    BY <1>1 DEF collect_finished, finished
  <2> QED BY <2>1, <2>2, FinishMatches
<1>2. CASE ~finished
  BY <1>2 DEF collect_finished
<1> QED BY <1>1, <1>2

LEMMA LruMatches ==
    ASSUME SInv, Now, CopyGood(entries, writing, disk, next_id), evict_lru
    PROVE  CopyGood(entries', writing', disk', next_id')
<1>0. StoreGood(entries, writing, disk, fault) /\ next_id \in Nat /\ now \in Nat
  BY StateParts
<1>1. CASE /\ writing # None /\ writing' = None /\ entries' = entries
           /\ \E o \in finish_write : evict(o.session, o.disk)
  <2>1. PICK o \in finish_write : evict(o.session, o.disk)
    BY <1>1
  <2>2. CopyGood(entries, None, o.disk, next_id) /\ Tier(o.disk)
    BY <1>0, <1>1, FinishMatches, FinishGood
  <2> QED BY <1>0, <1>1, <2>1, <2>2, EvictMatches
<1>2. CASE \E s \in entries : evict(s, disk) /\ entries' = entries \ {s} /\ writing' = writing
  <2>1. PICK s \in entries : evict(s, disk) /\ entries' = entries \ {s} /\ writing' = writing
    BY <1>2
  <2>2. Tier(disk)
    BY <1>0 DEF StoreGood, Tier
  <2>3. CopyGood(entries, writing, disk', next_id')
    BY <1>0, <2>1, <2>2, EvictMatches
  <2>4. entries \ {s} \in SUBSET entries
    OBVIOUS
  <2> QED BY <2>1, <2>3, <2>4, FewerCopies
<1> QED BY <1>1, <1>2 DEF evict_lru

LEMMA RefreshedMatches ==
    ASSUME NEW wr, NEW d, NEW i, CopyGood(entries, wr, d, i), \A s \in entries : s \in SessionType
    PROVE  CopyGood(Refreshed, wr, d, i)
<1> SUFFICES ASSUME NEW s \in Refreshed
             PROVE  /\ \A e \in d : s.disk = Written(e.id) => Matches(s, e)
                    /\ \A k : s.disk = Written(k) => k \in Nat /\ k < i /\ (wr # None => k # wr.id)
  BY DEF CopyGood
<1>1. PICK t \in entries : s = t \/ s = [t EXCEPT !.disk = NoCopy]
  BY DEF Refreshed
<1>2. CASE s = t
  BY <1>2 DEF CopyGood
<1>3. CASE s = [t EXCEPT !.disk = NoCopy]
  <2>1. s.disk = NoCopy
    BY <1>3 DEF SessionType
  <2> QED BY <2>1, Copies
<1> QED BY <1>1, <1>2, <1>3

Copied == CopyGood(entries, writing, disk, next_id)

LEMMA LookupMatches == ASSUME SInv, Copied, Lookup PROVE Copied'
<1>0. Fresh \subseteq disk /\ \A e \in Fresh : e \in EntryType
  BY StateParts DEF Fresh, expire, StoreGood, Archived, EntryShape
<1>1. ASSUME NEW d, CopyGood(entries, writing, d, next_id), Taken(d) PROVE Copied'
  BY <1>1, FewerCopies DEF Taken, Copied
<1>2. CopyGood(entries, writing, Fresh, next_id)
  BY <1>0, FewerCopies DEF Copied
<1>3. ASSUME NEW id PROVE CopyGood(entries, writing, touch(Fresh, id, now), next_id)
  BY <1>0, <1>2, TouchMatches
<1>4. ASSUME NEW id PROVE CopyGood(entries, writing, remove(Fresh, id), next_id)
  <2>1. remove(Fresh, id) \subseteq Fresh
    BY DEF remove
  <2> QED BY <1>2, <2>1, FewerCopies
<1> QED BY <1>1, <1>2, <1>3, <1>4, LookupMoves

LEMMA DurableMatches == ASSUME SInv, Copied, NEW r, StoreDurable(r) PROVE Copied'
<1> DEFINE b == plan[r].boundary
           p == plan[r].prompt
           e == DurableOf(p, b, FedUpTo(session[r], p, b))
<1>1. /\ disk' \in Stored(expire(disk, now), e) /\ next_id' = reserve
      /\ UNCHANGED <<entries, writing>>
  BY Zenon DEF StoreDurable, FedUpTo, DurableOf
<1>2. e.id = next_id
  BY DEF DurableOf
<1>3. next_id \in Nat /\ next_id' \in Nat /\ next_id =< next_id'
  BY <1>1, StateParts DEF reserve
<1> HIDE DEF e
<1>4. disk' \subseteq expire(disk, now) \cup {e}
  BY <1>1, StoredWithin
<1>5. expire(disk, now) \subseteq disk
  BY DEF expire
<1>6. \A s \in entries : s.disk # Written(e.id)
  BY <1>2, <1>3, FreshNumber DEF Copied
<1>7. disk' \in SUBSET (disk \cup {e})
  BY <1>4, <1>5
<1>8. CopyGood(entries, writing, disk', next_id')
  BY <1>3, <1>6, <1>7, EntryForeign DEF Copied
<1> QED BY <1>1, <1>8 DEF Copied

LEMMA ReleaseMatches == ASSUME SInv, Copied, Release PROVE Copied'
<1> DEFINE s == session[cur]
           k == Kept(DiscardCopy(s).session, plan[cur].prompt.images)
<1>0. UNCHANGED <<writing, next_id>>
  BY DEF Release
<1>1. CASE UNCHANGED <<entries, disk>>
  BY <1>0, <1>1 DEF Copied
<1>2. CASE disk' = DiscardCopy(s).disk /\ entries' = entries \cup {k}
  <2>1. DiscardCopy(s).disk \subseteq disk
    BY DEF DiscardCopy, remove
  <2>2. k.disk = NoCopy
    <3>1. /\ cur \in Slots /\ stage[cur] = "release"
      BY DEF Release, SInv, PlaceGood
    <3>2. SlotGood("release", s, plan[cur], fault)
      BY <3>1, StateParts DEF SlotsGood
    <3>3. /\ SessionShape(s) /\ plan[cur].prompt \in Prompts /\ Len(s.tokens) = Len(s.rec)
          /\ fault \/ Answered(s, plan[cur].prompt)
      BY <3>2 DEF SlotGood
    <3>4. k = Kept([s EXCEPT !.disk = NoCopy], plan[cur].prompt.images)
      BY DEF DiscardCopy
    <3> HIDE DEF s, k
    <3> QED BY <3>3, <3>4, StateParts, KeptIsHome
  <2> HIDE DEF k
  <2>3. CopyGood(entries, writing, disk', next_id)
    BY <1>2, <2>1, FewerCopies DEF Copied
  <2> QED BY <1>0, <1>2, <2>2, <2>3, Copies DEF Copied, CopyGood
<1> QED BY <1>1, <1>2, Zenon DEF Release

LEMMA StartWriteMatches == ASSUME SInv, Copied, NEW s, StartWrite(s) PROVE Copied'
<1>0. next_id \in Nat /\ \A t \in entries : t \in SessionType
  BY StateParts DEF StoreGood, Home, HomeShape, SessionShape
<1>1. CopyGood(Refreshed, writing, disk, next_id)
  BY <1>0, RefreshedMatches DEF Copied
<1>2. expire(disk, now) \subseteq disk
  BY DEF expire
<1>3. CASE /\ entries' = Refreshed \ {s}
           /\ writing' = [session |-> s, id |-> next_id, phase |-> "running"]
           /\ disk' = expire(disk, now) /\ next_id' = reserve
  <2>1. writing'.id = next_id /\ next_id' = next_id + 1
    BY <1>3 DEF reserve
  <2>2. entries' \subseteq Refreshed /\ disk' \subseteq disk
    BY <1>2, <1>3
  <2> QED BY <1>0, <1>1, <2>1, <2>2 DEF Copied, CopyGood
<1>4. CASE /\ entries' = (Refreshed \ {s}) \cup {[s EXCEPT !.disk = Refused]}
           /\ s \in ToWriteAhead
           /\ UNCHANGED <<writing, disk, next_id>>
  <2> DEFINE u == [s EXCEPT !.disk = Refused]
  <2>1. u.disk = Refused
    <3>1. PICK t \in entries : s = t \/ s = [t EXCEPT !.disk = NoCopy]
      BY <1>4 DEF ToWriteAhead, Refreshed
    <3>2. t \in SessionType /\ NoCopy \in CopyType
      BY <1>0 DEF CopyType
    <3>3. s \in SessionType
      BY <3>1, <3>2, DiskFields
    <3> QED BY <3>3 DEF SessionType
  <2>2. entries' \subseteq Refreshed \cup {u}
    BY <1>4
  <2> HIDE DEF u
  <2> QED BY <1>1, <1>4, <2>1, <2>2, Copies DEF Copied, CopyGood
<1>5. CASE /\ entries' = Refreshed /\ writing' = writing
           /\ disk' = expire(disk, now) /\ next_id' = reserve
  <2>1. next_id' = next_id + 1
    BY <1>5 DEF reserve
  <2> QED BY <1>0, <1>1, <1>2, <1>5, <2>1 DEF Copied, CopyGood
<1> QED BY <1>3, <1>4, <1>5 DEF StartWrite

LEMMA NextMatches == ASSUME SInv, IInv, Copied, [Next]_vars PROVE Copied'
<1>0. /\ StoreGood(entries, writing, disk, fault) /\ next_id \in Nat /\ now \in Nat
      /\ CopyGood(entries, writing, disk, next_id)
  BY StateParts DEF Copied
<1>1. Now
  BY DEF IInv, Now
<1>2. CASE collect_finished /\ UNCHANGED next_id
  BY <1>0, <1>1, <1>2, CollectMatches DEF Copied
<1>3. CASE UNCHANGED <<entries, writing, disk, next_id>>
  BY <1>3 DEF Copied
<1>4. ASSUME NEW r \in Slots, Request(r) PROVE Copied'
  <2>1. CASE StoreDurable(r)
    BY <2>1, DurableMatches
  <2>2. CASE FinishPrefill(r) \/ Fail(r)
    BY <1>3, <2>2 DEF FinishPrefill, Fail, storeVars
  <2>3. ASSUME NEW p, Acquire(r, p) PROVE Copied'
    BY <1>2, <2>3 DEF Acquire
  <2>4. ASSUME NEW at, StopPrefill(r, at) PROVE Copied'
    <3>1. \E s : GiveBack(r, s)
      BY <2>4, Zenon DEF StopPrefill
    <3> QED BY <1>2, <3>1 DEF GiveBack
  <2>5. ASSUME NEW gen, Answer(r, gen) PROVE Copied'
    <3>1. \E s : GiveBack(r, s)
      BY <2>5, Zenon DEF Answer
    <3> QED BY <1>2, <3>1 DEF GiveBack
  <2> QED BY <1>4, <2>1, <2>2, <2>3, <2>4, <2>5 DEF Request
<1>5. CASE Inside
  <2>1. CASE RoomMade \/ Released
    BY <1>3, <2>1 DEF RoomMade, Released, storeVars
  <2>2. CASE reclaim_for
    <3>1. /\ UNCHANGED <<disk, next_id>>
          /\ \/ /\ writing # None /\ writing' = None
                /\ entries' = entries \cup {[writing.session EXCEPT !.disk = NoCopy]}
             \/ UNCHANGED <<entries, writing>>
      BY <2>2, Zenon DEF reclaim_for
    <3>2. CASE /\ writing # None /\ writing' = None
               /\ entries' = entries \cup {[writing.session EXCEPT !.disk = NoCopy]}
      <4> DEFINE u == [writing.session EXCEPT !.disk = NoCopy]
      <4>1. u.disk = NoCopy
        BY <1>0, <3>2 DEF StoreGood, WriteType, SessionType
      <4> HIDE DEF u
      <4> QED BY <1>0, <3>1, <3>2, <4>1, Copies DEF Copied, CopyGood, u
    <3> QED BY <1>3, <3>1, <3>2
  <2>3. CASE Lookup
    BY <2>3, LookupMatches
  <2>4. CASE MakeRoom \/ TrimReleased
    BY <1>0, <1>1, <2>4, LruMatches DEF MakeRoom, TrimReleased, Copied
  <2>5. CASE Release
    BY <2>5, ReleaseMatches
  <2>6. CASE NothingToWrite
    <3>1. \A s \in entries : s \in SessionType
      BY <1>0 DEF StoreGood, Home, HomeShape, SessionShape
    <3> QED BY <1>0, <2>6, <3>1, RefreshedMatches DEF NothingToWrite, Copied
  <2>7. CASE UnloadJoin
    BY <1>2, <2>7 DEF UnloadJoin
  <2>8. CASE Reload
    BY <2>8 DEF Reload, NewStore, Copied, CopyGood
  <2>9. ASSUME NEW s \in entries, SpillOne(s) PROVE Copied'
    <3>1. evict(s, disk) /\ entries' = entries \ {s} /\ writing' = writing
      BY <2>9 DEF SpillOne
    <3>2. Tier(disk)
      BY <1>0 DEF StoreGood, Tier
    <3>3. CopyGood(entries, writing, disk', next_id')
      BY <1>0, <3>1, <3>2, EvictMatches
    <3> QED BY <3>1, <3>3, FewerCopies DEF Copied
  <2> QED BY <1>5, <2>1, <2>2, <2>3, <2>4, <2>5, <2>6, <2>7, <2>8, <2>9 DEF Inside
<1>6. CASE CollectAhead
  BY <1>2, <1>6 DEF CollectAhead
<1>7. ASSUME NEW s, StartWrite(s) PROVE Copied'
  BY <1>7, StartWriteMatches
<1>8. CASE Unload \/ Fault \/ Tick \/ Terminated \/ UNCHANGED vars
  BY <1>3, <1>8 DEF Unload, Fault, Tick, Terminated, vars, storeVars
<1>9. CASE Recover \/ Crash
  BY <1>9 DEF Recover, Crash, NewStore, Copied, CopyGood
<1>10. CASE WriterEnds
  <2>1. writing'.id = writing.id /\ writing # None /\ UNCHANGED <<entries, disk, next_id>>
    BY <1>0, <1>10 DEF WriterEnds, StoreGood, WriteType
  <2> QED BY <2>1 DEF Copied, CopyGood
<1> QED BY <1>4, <1>5, <1>6, <1>7, <1>8, <1>9, <1>10 DEF Next

LEMMA CopiedAlways == Spec => []Copied
<1>1. SInv /\ IInv /\ Copied /\ [Next]_vars => Copied'
  BY NextMatches
<1>2. Init => Copied
  BY DEF Init, Copied, CopyGood
<1> QED BY <1>1, <1>2, SInvAlways, Invariance, PTL DEF Spec

LEMMA CopiedMatches == Copied => CopyMatches
BY DEF Copied, CopyGood, CopyMatches, Matches
-----------------------------------------------------------------------------
(* GPU memory between operations. *)

Held(en, wr) == en \cup (IF wr = None THEN {} ELSE {wr.session})

Roomy(H) ==
    Cardinality(H) =< MaxSessions /\ (Bytes(H) =< Budget \/ Cardinality(H) =< 1)

Weighed(H) == IsFiniteSet(H) /\ \A s \in H : bytes(s) \in Nat

BudgetInv ==
    /\ IsFiniteSet(entries)
    /\ pc # "budget" => Roomy(Held(entries, writing))
    /\ pc = "ahead" => writing = None

LEMMA Bounds == MaxSessions \in Nat \ {0} /\ Budget \in Nat /\ IsFiniteSet(Slots)
BY SessionStoreAssumption

LEMMA BytesIsNat == ASSUME NEW s, SessionShape(s) PROVE bytes(s) \in Nat
<1>1. IsFiniteSet(s.ckpts) /\ s.cap \in Nat
  BY SessionParts DEF SessionShape
<1>2. Cardinality(s.ckpts) \in Nat
  BY <1>1, FS_CardinalityType
<1> QED BY <1>1, <1>2 DEF bytes

LEMMA HeldWeighed ==
    ASSUME StoreGood(entries, writing, disk, fault), IsFiniteSet(entries)
    PROVE  Weighed(Held(entries, writing))
<1>1. IsFiniteSet(Held(entries, writing))
  BY FS_AddElement DEF Held
<1>2. ASSUME NEW s \in Held(entries, writing) PROVE bytes(s) \in Nat
  <2>1. SessionShape(s)
    BY DEF StoreGood, Held, Home, HomeShape
  <2> QED BY <2>1, BytesIsNat
<1> QED BY <1>1, <1>2 DEF Weighed

LEMMA FewerRoomy ==
    ASSUME NEW H, Weighed(H), Roomy(H), NEW G \in SUBSET H
    PROVE  Weighed(G) /\ Roomy(G)
<1>1. IsFiniteSet(H) /\ IsFiniteSet(G) /\ (\A s \in H : bytes(s) \in Nat)
  BY FS_Subset DEF Weighed
<1>2. Cardinality(G) =< Cardinality(H) /\ Cardinality(G) \in Nat /\ Cardinality(H) \in Nat
  BY <1>1, FS_Subset, FS_CardinalityType
<1>3. Bytes(G) =< Bytes(H) /\ Bytes(H) \in Nat /\ Bytes(G) \in Nat
  BY <1>1, BytesFacts
<1> QED BY <1>1, <1>2, <1>3, Bounds DEF Roomy, Weighed

LEMMA RenamedRoomy ==
    ASSUME NEW A, Weighed(A), Roomy(A), NEW B, NEW h \in [A -> B], B = {h[x] : x \in A},
           \A x, y \in A : h[x] = h[y] => x = y, \A x \in A : bytes(h[x]) = bytes(x)
    PROVE  Weighed(B) /\ Roomy(B)
<1>1. IsFiniteSet(A) /\ \A x \in A : bytes(x) \in Nat /\ bytes(h[x]) = bytes(x)
  BY DEF Weighed
<1>2. IsFiniteSet(B) /\ Cardinality(B) = Cardinality(A) /\ Bytes(B) = Bytes(A)
  BY <1>1, BytesRenamed
<1>3. \A y \in B : bytes(y) \in Nat
  BY <1>1
<1> QED BY <1>2, <1>3 DEF Weighed, Roomy

(* One session in the place of another of its lineage and size. *)
LEMMA SwappedRoomy ==
    ASSUME NEW A, Weighed(A), Roomy(A), \A s, t \in A : s.lineage = t.lineage => s = t,
           NEW x \in A, NEW u, u.lineage = x.lineage, bytes(u) = bytes(x),
           NEW B, B = (A \ {x}) \cup {u}
    PROVE  Weighed(B) /\ Roomy(B)
<1> DEFINE h == [s \in A |-> IF s = x THEN u ELSE s]
<1>1. h \in [A -> B] /\ B = {h[s] : s \in A}
  OBVIOUS
<1>2. \A s \in A : h[s].lineage = s.lineage /\ bytes(h[s]) = bytes(s)
  OBVIOUS
<1> HIDE DEF h
<1>3. \A s, t \in A : h[s] = h[t] => s = t
  BY <1>2
<1> QED BY <1>1, <1>2, <1>3, RenamedRoomy

(* The parked session is taken back. *)
LEMMA BackHome ==
    ASSUME SInv, Now, BudgetInv, pc # "budget", writing # None,
           NEW u, u.lineage = writing.session.lineage, bytes(u) = bytes(writing.session)
    PROVE  IsFiniteSet(entries \cup {u}) /\ Roomy(Held(entries \cup {u}, None))
<1> DEFINE w == writing.session
           A == Held(entries, writing)
           B == entries \cup {u}
<1>1. Weighed(A) /\ Roomy(A)
  BY StateParts, HeldWeighed DEF BudgetInv
<1>2. /\ \A s, t \in entries : s.lineage = t.lineage => s = t
      /\ \A s \in entries : s.lineage # w.lineage
  BY DEF Now, StorePart, EntriesPart, WritingPart
<1>3. A = entries \cup {w} /\ B = (A \ {w}) \cup {u} /\ w \in A
  BY <1>2 DEF Held
<1> HIDE DEF A, w
<1>4. \A s, t \in A : s.lineage = t.lineage => s = t
  BY <1>2, <1>3
<1>5. u.lineage = w.lineage /\ bytes(u) = bytes(w)
  BY DEF w
<1> HIDE DEF B
<1>6. Weighed(B) /\ Roomy(B)
  BY <1>1, <1>3, <1>4, <1>5, SwappedRoomy
<1> QED BY <1>6 DEF Weighed, Held, B

LEMMA CopyWeighsSame ==
    ASSUME NEW s \in SessionType, NEW c
    PROVE  /\ bytes([s EXCEPT !.disk = c]) = bytes(s)
           /\ [s EXCEPT !.disk = c].lineage = s.lineage
<1> DEFINE u == [s EXCEPT !.disk = c]
<1>1. u.cap = s.cap /\ u.ckpts = s.ckpts /\ u.lineage = s.lineage
  BY DEF SessionType
<1> HIDE DEF u
<1>2. bytes(u) = bytes(s) /\ u.lineage = s.lineage
  BY <1>1 DEF bytes
<1> QED BY <1>2 DEF u

LEMMA CollectRoomy ==
    ASSUME SInv, Now, BudgetInv, pc # "budget", collect_finished
    PROVE  /\ IsFiniteSet(entries') /\ Roomy(Held(entries', writing'))
           /\ finished => writing' = None
<1>1. CASE finished
  <2>1. PICK o \in finish_write : entries' = entries \cup {o.session}
    BY <1>1 DEF collect_finished
  <2>2. writing # None /\ writing' = None
    BY <1>1 DEF collect_finished, finished
  <2>3. writing.session \in SessionType
    BY <2>2, StateParts DEF StoreGood, WriteType
  <2>4. PICK c : o.session = [writing.session EXCEPT !.disk = c]
    <3> DEFINE w == writing.session
    <3>1. \/ o = [session |-> [w EXCEPT !.disk = Refused], disk |-> disk]
          \/ \E d2 \in UNION {commit(disk, NewEntry(w, writing.id), spare) : spare \in Spare} :
                o = [session |-> [w EXCEPT !.disk = IF contains(d2, writing.id)
                                                    THEN Written(writing.id) ELSE Refused],
                     disk |-> d2]
      BY Zenon DEF finish_write
    <3>2. ASSUME NEW d2,
                 o = [session |-> [w EXCEPT !.disk = IF contains(d2, writing.id)
                                                     THEN Written(writing.id) ELSE Refused],
                      disk |-> d2]
          PROVE  \E c : o.session = [w EXCEPT !.disk = c]
      <4>1. o.session = [w EXCEPT !.disk = IF contains(d2, writing.id)
                                           THEN Written(writing.id) ELSE Refused]
        BY <3>2
      <4> QED BY <4>1, Zenon
    <3>3. ASSUME o = [session |-> [w EXCEPT !.disk = Refused], disk |-> disk]
          PROVE  \E c : o.session = [w EXCEPT !.disk = c]
      <4>1. o.session = [w EXCEPT !.disk = Refused]
        BY <3>3
      <4> QED BY <4>1, Zenon
    <3> QED BY <3>1, <3>2, <3>3, Zenon
  <2> DEFINE u == o.session
  <2>5. u.lineage = writing.session.lineage /\ bytes(u) = bytes(writing.session)
    BY <2>3, <2>4, CopyWeighsSame
  <2> HIDE DEF u
  <2>6. IsFiniteSet(entries \cup {u}) /\ Roomy(Held(entries \cup {u}, None))
    BY <2>2, <2>5, BackHome
  <2> QED BY <2>1, <2>2, <2>6 DEF u
<1>2. CASE ~finished
  BY <1>2 DEF collect_finished, BudgetInv
<1> QED BY <1>1, <1>2

LEMMA FewerHeld ==
    ASSUME SInv, BudgetInv, entries' \subseteq entries, writing' \in {writing, None},
           pc' = "ahead" => pc = "ahead" /\ writing' = writing,
           pc = "budget" => pc' = "budget"
    PROVE  BudgetInv'
<1>1. IsFiniteSet(entries')
  BY FS_Subset DEF BudgetInv
<1>2. ASSUME pc' # "budget" PROVE Roomy(Held(entries', writing'))
  <2>1. Roomy(Held(entries, writing)) /\ Weighed(Held(entries, writing))
    BY <1>2, StateParts, HeldWeighed DEF BudgetInv
  <2>2. Held(entries', writing') \subseteq Held(entries, writing)
    BY DEF Held
  <2> QED BY <2>1, <2>2, FewerRoomy
<1>3. pc' = "ahead" => writing' = None
  BY DEF BudgetInv
<1> QED BY <1>1, <1>2, <1>3 DEF BudgetInv

LEMMA LruDrops ==
    ASSUME evict_lru PROVE entries' \subseteq entries /\ writing' \in {writing, None}
BY DEF evict_lru

(* Refreshed: the same sessions, without the copies the tier deleted. *)
LEMMA RefreshedRoomy ==
    ASSUME SInv, Now, BudgetInv, pc # "budget", writing = None
    PROVE  /\ Weighed(Refreshed) /\ Roomy(Refreshed)
           /\ \A s, t \in Refreshed : s.lineage = t.lineage => s = t
           /\ \A s \in Refreshed : s \in SessionType
<1> DEFINE h == [s \in entries |-> IF s.disk[1] = "written" /\ ~contains(disk, s.disk[2])
                                   THEN [s EXCEPT !.disk = NoCopy] ELSE s]
<1>1. h \in [entries -> Refreshed] /\ Refreshed = {h[s] : s \in entries}
  BY DEF Refreshed
<1>0. \A s \in entries : s \in SessionType
  BY StateParts DEF StoreGood, Home, HomeShape, SessionShape
<1>2. \A s \in entries : h[s].lineage = s.lineage /\ bytes(h[s]) = bytes(s) /\ h[s] \in SessionType
  <2> TAKE s \in entries
  <2>1. s \in SessionType /\ NoCopy \in CopyType
    BY <1>0 DEF CopyType
  <2>2. h[s] = s \/ h[s] = [s EXCEPT !.disk = NoCopy]
    OBVIOUS
  <2>3. [s EXCEPT !.disk = NoCopy] \in SessionType
    BY <2>1, DiskFields
  <2> HIDE DEF h
  <2> QED BY <2>1, <2>2, <2>3, CopyWeighsSame
<1> HIDE DEF h
<1>3. \A s, t \in entries : s.lineage = t.lineage => s = t
  BY DEF Now, StorePart, EntriesPart
<1>4. \A s, t \in entries : h[s] = h[t] => s = t
  BY <1>2, <1>3
<1>5. Weighed(entries) /\ Roomy(entries)
  <2>1. Held(entries, writing) = entries
    BY DEF Held
  <2> QED BY <2>1, StateParts, HeldWeighed DEF BudgetInv
<1>6. Weighed(Refreshed) /\ Roomy(Refreshed)
  BY <1>1, <1>2, <1>4, <1>5, RenamedRoomy
<1> QED BY <1>1, <1>2, <1>3, <1>6

(* in_flight_bytes is a number. *)
LEMMA InFlightIsNat == ASSUME SInv PROVE in_flight_bytes \in Nat
<1> DEFINE S == Busy \ {cur}
<1>1. IsFiniteSet(S)
  BY Bounds, FS_Subset DEF Busy
<1>2. ASSUME NEW r \in S PROVE bytes(session[r]) \in Nat
  <2>1. SessionShape(session[r])
    BY StateParts DEF Busy, SlotsGood, SlotGood
  <2> QED BY <2>1, BytesIsNat
<1> HIDE DEF S
<1>3. PICK w : \A r \in S : w[r] = bytes(session[r])
  <2> WITNESS [r \in S |-> bytes(session[r])]
  <2> QED OBVIOUS
<1>4. PICK it : IsSum(it, w, S)
  BY <1>1, SumExists
<1>5. MapThenSumSet(LAMBDA r : bytes(session[r]), S) = it[S]
  BY <1>1, <1>3, <1>4, RoomLink
<1>6. \A r \in S : w[r] \in Nat
  BY <1>2, <1>3
<1>7. SumLaw(it, w, S)
  BY <1>1, <1>4, <1>6, SumWithout
<1>8. it[S] \in Nat
  <2>1. S \in SUBSET S
    OBVIOUS
  <2> QED BY <1>7, <2>1 DEF SumLaw
<1> QED BY <1>5, <1>8 DEF in_flight_bytes, S

LEMMA ReclaimRoomy == ASSUME SInv, Now, BudgetInv, reclaim_for PROVE BudgetInv'
<1>1. /\ pc = "reclaim" /\ pc' = "lookup"
      /\ \/ /\ writing # None /\ writing' = None
            /\ entries' = entries \cup {[writing.session EXCEPT !.disk = NoCopy]}
         \/ UNCHANGED <<entries, writing>>
  BY Zenon DEF reclaim_for
<1>2. CASE UNCHANGED <<entries, writing>>
  BY <1>1, <1>2 DEF BudgetInv
<1>3. CASE /\ writing # None /\ writing' = None
           /\ entries' = entries \cup {[writing.session EXCEPT !.disk = NoCopy]}
  <2> DEFINE u == [writing.session EXCEPT !.disk = NoCopy]
  <2>1. writing.session \in SessionType
    BY <1>3, StateParts DEF StoreGood, WriteType
  <2>2. u.lineage = writing.session.lineage /\ bytes(u) = bytes(writing.session)
    BY <2>1, CopyWeighsSame
  <2>3. entries' = entries \cup {u}
    BY <1>3
  <2> HIDE DEF u
  <2>4. IsFiniteSet(entries \cup {u}) /\ Roomy(Held(entries \cup {u}, None))
    BY <1>1, <1>3, <2>2, BackHome
  <2> QED BY <1>1, <1>3, <2>3, <2>4 DEF BudgetInv
<1> QED BY <1>1, <1>2, <1>3

LEMMA StartWriteRoomy ==
    ASSUME SInv, Now, BudgetInv, NEW s \in Refreshed, StartWrite(s) PROVE BudgetInv'
<1>1. pc # "budget" /\ writing = None /\ pc' = "idle"
  BY DEF StartWrite, BudgetInv
<1>2. /\ Weighed(Refreshed) /\ Roomy(Refreshed)
      /\ \A x, t \in Refreshed : x.lineage = t.lineage => x = t
      /\ s \in SessionType
  BY <1>1, RefreshedRoomy
<1> DEFINE u == [s EXCEPT !.disk = Refused]
<1>3. \/ /\ entries' = Refreshed \ {s}
         /\ writing' = [session |-> s, id |-> next_id, phase |-> "running"]
      \/ entries' = (Refreshed \ {s}) \cup {u} /\ writing' = writing
      \/ entries' = Refreshed /\ writing' = writing
  BY DEF StartWrite
<1>4. u.lineage = s.lineage /\ bytes(u) = bytes(s)
  BY <1>2, CopyWeighsSame
<1> HIDE DEF u
<1>5. CASE /\ entries' = Refreshed \ {s}
           /\ writing' = [session |-> s, id |-> next_id, phase |-> "running"]
  <2>1. Held(entries', writing') = Refreshed \/ Held(entries', writing') = Refreshed \ {s}
    BY <1>5 DEF Held
  <2>2. Refreshed \ {s} \in SUBSET Refreshed
    OBVIOUS
  <2>3. Roomy(Held(entries', writing'))
    BY <1>2, <2>1, <2>2, FewerRoomy
  <2>4. IsFiniteSet(entries')
    BY <1>2, <1>5, <2>2, FS_Subset DEF Weighed
  <2> QED BY <1>1, <2>3, <2>4 DEF BudgetInv
<1>6. CASE entries' = (Refreshed \ {s}) \cup {u} /\ writing' = writing
  <2>1. Weighed(entries') /\ Roomy(entries')
    BY <1>2, <1>4, <1>6, SwappedRoomy
  <2>2. Held(entries', writing') = entries'
    BY <1>1, <1>6 DEF Held
  <2> QED BY <1>1, <2>1, <2>2 DEF BudgetInv, Weighed
<1>7. CASE entries' = Refreshed /\ writing' = writing
  <2>1. Held(entries', writing') = entries'
    BY <1>1, <1>7 DEF Held
  <2> QED BY <1>1, <1>2, <1>7, <2>1 DEF BudgetInv, Weighed
<1> QED BY <1>3, <1>5, <1>6, <1>7

LEMMA NothingToWriteRoomy == ASSUME SInv, Now, BudgetInv, NothingToWrite PROVE BudgetInv'
<1>1. /\ pc # "budget" /\ writing = None /\ pc' = "idle" /\ entries' = Refreshed
      /\ writing' = writing
  BY DEF NothingToWrite, BudgetInv
<1>2. Weighed(Refreshed) /\ Roomy(Refreshed)
  BY <1>1, RefreshedRoomy
<1>3. Held(entries', writing') = entries'
  BY <1>1 DEF Held
<1> QED BY <1>1, <1>2, <1>3 DEF BudgetInv, Weighed

LEMMA ReleasedRoomy == ASSUME SInv, BudgetInv, Released PROVE BudgetInv'
<1>1. ~OverBudget /\ pc' = "idle" /\ UNCHANGED <<entries, writing>>
  BY DEF Released, storeVars
<1> DEFINE H == Held(entries, writing)
<1>2. Weighed(H)
  BY StateParts, HeldWeighed DEF BudgetInv
<1>3. used_bytes = Bytes(H) /\ len = Cardinality(H)
  BY DEF used_bytes, len, Bytes, Held, parked
<1> HIDE DEF H
<1>4. Bytes(H) \in Nat /\ Cardinality(H) \in Nat /\ in_flight_bytes \in Nat
  BY <1>2, BytesFacts, FS_CardinalityType, InFlightIsNat DEF Weighed
<1>5. Roomy(H)
  BY <1>1, <1>3, <1>4, Bounds DEF OverBudget, Roomy
<1> QED BY <1>1, <1>5 DEF BudgetInv, H

LEMMA NewStoreRoomy == ASSUME NewStore PROVE BudgetInv'
<1>1. entries' = {} /\ writing' = None /\ pc' = "idle"
  BY DEF NewStore
<1>2. IsFiniteSet({}) /\ Cardinality({}) = 0
  BY FS_EmptySet
<1>3. Held({}, None) = {}
  BY DEF Held
<1>4. Roomy({})
  BY <1>2, Bounds DEF Roomy
<1> QED BY <1>1, <1>2, <1>3, <1>4 DEF BudgetInv

LEMMA NextRoomy == ASSUME SInv, IInv, BudgetInv, [Next]_vars PROVE BudgetInv'
<1>1. Now
  BY DEF IInv, Now
<1>2. CASE collect_finished /\ pc # "budget" /\ (pc' = "ahead" => finished)
  BY <1>1, <1>2, CollectRoomy DEF BudgetInv
<1>3. CASE /\ UNCHANGED <<entries, writing>>
           /\ pc' = pc \/ (pc # "budget" /\ pc' # "ahead")
  BY <1>3 DEF BudgetInv
<1>4. ASSUME NEW r \in Slots, Request(r) PROVE BudgetInv'
  <2>1. CASE StoreDurable(r) \/ FinishPrefill(r) \/ Fail(r)
    BY <1>3, <2>1 DEF StoreDurable, FinishPrefill, Fail, storeVars
  <2>2. ASSUME NEW p, Acquire(r, p) PROVE BudgetInv'
    BY <1>2, <2>2 DEF Acquire
  <2>3. ASSUME NEW at, StopPrefill(r, at) PROVE BudgetInv'
    <3>1. pc = "idle" /\ \E s : GiveBack(r, s)
      BY <2>3, Zenon DEF StopPrefill
    <3> QED BY <1>2, <3>1 DEF GiveBack
  <2>4. ASSUME NEW gen, Answer(r, gen) PROVE BudgetInv'
    <3>1. pc = "idle" /\ \E s : GiveBack(r, s)
      BY <2>4, Zenon DEF Answer
    <3> QED BY <1>2, <3>1 DEF GiveBack
  <2> QED BY <1>4, <2>1, <2>2, <2>3, <2>4 DEF Request
<1>5. CASE Inside
  <2>1. CASE RoomMade
    BY <1>3, <2>1 DEF RoomMade, storeVars
  <2>2. CASE reclaim_for
    BY <1>1, <2>2, ReclaimRoomy
  <2>3. CASE Lookup
    <3>1. /\ pc = "lookup" /\ entries' \subseteq entries /\ writing' = writing
          /\ pc' \in {"idle", "room"}
      BY <2>3, LookupMoves DEF Taken
    <3> QED BY <3>1, FewerHeld
  <2>4. CASE MakeRoom \/ TrimReleased
    <3>1. evict_lru /\ pc' = pc /\ pc # "ahead"
      BY <2>4 DEF MakeRoom, TrimReleased
    <3> QED BY <3>1, LruDrops, FewerHeld
  <2>5. CASE Release
    <3>1. /\ pc = "release" /\ UNCHANGED writing
          /\ \/ pc' = "idle" /\ UNCHANGED entries
             \/ pc' = "budget" /\ \E k : entries' = entries \cup {k}
      BY <2>5, Zenon DEF Release
    <3>2. CASE pc' = "idle" /\ UNCHANGED entries
      BY <1>3, <3>1, <3>2
    <3>3. CASE pc' = "budget" /\ \E k : entries' = entries \cup {k}
      <4>1. PICK k : entries' = entries \cup {k}
        BY <3>3
      <4>2. IsFiniteSet(entries \cup {k})
        BY FS_AddElement DEF BudgetInv
      <4> QED BY <3>3, <4>1, <4>2 DEF BudgetInv
    <3> QED BY <3>1, <3>2, <3>3
  <2>6. CASE Released
    BY <2>6, ReleasedRoomy
  <2>7. CASE NothingToWrite
    BY <1>1, <2>7, NothingToWriteRoomy
  <2>8. CASE UnloadJoin
    BY <1>2, <2>8 DEF UnloadJoin
  <2>9. CASE Reload
    BY <2>9, NewStoreRoomy DEF Reload
  <2>10. ASSUME NEW s \in entries, SpillOne(s) PROVE BudgetInv'
    <3>1. pc = "spill" /\ pc' = pc /\ entries' = entries \ {s} /\ writing' = writing
      BY <2>10 DEF SpillOne
    <3> QED BY <3>1, FewerHeld
  <2> QED BY <1>5, <2>1, <2>2, <2>3, <2>4, <2>5, <2>6, <2>7, <2>8, <2>9, <2>10 DEF Inside
<1>6. CASE CollectAhead
  BY <1>2, <1>6 DEF CollectAhead
<1>7. ASSUME NEW s \in Refreshed, StartWrite(s) PROVE BudgetInv'
  BY <1>1, <1>7, StartWriteRoomy
<1>8. CASE Unload \/ Fault \/ Tick \/ Terminated \/ UNCHANGED vars
  BY <1>3, <1>8 DEF Unload, Fault, Tick, Terminated, vars, storeVars
<1>9. CASE Recover \/ Crash
  BY <1>9, NewStoreRoomy DEF Recover, Crash
<1>10. CASE WriterEnds
  <2>1. PICK result : writing' = [writing EXCEPT !.phase = result]
    BY <1>10 DEF WriterEnds
  <2>2. writing # None /\ UNCHANGED <<entries, pc>>
    BY <1>10 DEF WriterEnds
  <2>3. writing'.session = writing.session
    BY <2>1, <2>2, StateParts DEF StoreGood, WriteType
  <2>4. pc # "ahead"
    BY <2>2 DEF BudgetInv
  <2>5. Held(entries', writing') \subseteq Held(entries, writing)
    BY <2>2, <2>3 DEF Held
  <2>6. ASSUME pc # "budget" PROVE Roomy(Held(entries', writing'))
    <3>1. Roomy(Held(entries, writing)) /\ Weighed(Held(entries, writing))
      BY <2>6, StateParts, HeldWeighed DEF BudgetInv
    <3> QED BY <2>5, <3>1, FewerRoomy
  <2> QED BY <2>2, <2>4, <2>6 DEF BudgetInv
<1> QED BY <1>4, <1>5, <1>6, <1>7, <1>8, <1>9, <1>10 DEF Next

LEMMA InitRoomy == Init => BudgetInv
<1> SUFFICES ASSUME entries = {}, writing = None, pc = "idle" PROVE BudgetInv
  BY DEF Init
<1>1. IsFiniteSet({}) /\ Cardinality({}) = 0
  BY FS_EmptySet
<1>2. Held({}, None) = {}
  BY DEF Held
<1>3. Roomy({})
  BY <1>1, Bounds DEF Roomy
<1> QED BY <1>1, <1>2, <1>3 DEF BudgetInv

LEMMA RoomyAlways == Spec => []BudgetInv
<1>1. SInv /\ IInv /\ BudgetInv /\ [Next]_vars => BudgetInv'
  BY NextRoomy
<1> QED BY <1>1, InitRoomy, SInvAlways, Invariance, PTL DEF Spec

LEMMA RoomyBudget == BudgetInv => QuiescentBudget
<1> SUFFICES ASSUME BudgetInv, pc = "idle"
             PROVE  len =< MaxSessions /\ (used_bytes =< Budget \/ len =< 1)
  BY DEF QuiescentBudget
<1>1. used_bytes = Bytes(Held(entries, writing)) /\ len = Cardinality(Held(entries, writing))
  BY DEF used_bytes, len, Bytes, Held, parked
<1> QED BY <1>1 DEF BudgetInv, Roomy

(* A copy written ahead that is still indexed is the session as it is, so   *)
(* dropping the session for it loses nothing (has_copy, evict); and between *)
(* operations the store keeps its count, and its bytes unless one session   *)
(* alone exceeds them (trim after release).                                 *)
THEOREM StoreIsTidy == Spec => []StoreTidy
<1>1. Copied /\ BudgetInv => StoreTidy
  BY CopiedMatches, RoomyBudget DEF StoreTidy
<1> QED BY <1>1, CopiedAlways, RoomyAlways, PTL
-----------------------------------------------------------------------------
(* What leaves GPU memory.  Without I/O errors nothing is refused but what *)
(* the tier could never hold.                                              *)

Size(s) == Len(s.tokens) + Cardinality(PlanOf(s))

OnDisk(s, d) == \E e \in d : e.lineage = s.lineage /\ e.kv = s.kv /\ e.ckpts = PlanOf(s)

NothingRefused ==
    /\ \A s \in entries : s.disk = Refused => Size(s) > DiskBudget
    /\ writing # None => writing.phase # "failed"
    /\ pc = "spill" => writing = None

LEMMA SizeIs == \A s, id : NewEntry(s, id).bytes = Size(s)
BY DEF NewEntry, Size

LEMMA SizeIsNat == ASSUME NEW s, HomeShape(s) PROVE Size(s) \in Nat
<1>1. IsFiniteSet(PlanOf(s))
  BY PlanIs
<1>2. Len(s.tokens) \in Nat
  BY SessionParts DEF HomeShape, SessionShape
<1> QED BY <1>1, <1>2, FS_CardinalityType DEF Size

LEMMA CopyElse ==
    ASSUME NEW s \in SessionType, NEW c, NEW u, u = [s EXCEPT !.disk = c]
    PROVE  /\ u.disk = c /\ u.tokens = s.tokens /\ u.images = s.images /\ u.kv = s.kv
           /\ u.lineage = s.lineage /\ u.ckpts = s.ckpts /\ u.rec = s.rec
           /\ PlanOf(u) = PlanOf(s) /\ Size(u) = Size(s)
<1>1. /\ u.disk = c /\ u.tokens = s.tokens /\ u.images = s.images /\ u.kv = s.kv
      /\ u.lineage = s.lineage /\ u.ckpts = s.ckpts /\ u.rec = s.rec
  BY DEF SessionType
<1>2. PlanOf(u) = PlanOf(s)
  BY <1>1 DEF PlanOf
<1> QED BY <1>1, <1>2 DEF Size

(* A commit that finds room keeps what it committed. *)
LEMMA CommitKeeps ==
    ASSUME NEW d, DiskFits(d), NEW n, n.bytes \in Nat, n.bytes =< DiskBudget, n.durable = FALSE,
           NEW d2 \in commit(d, n, TRUE)
    PROVE  n \in d2
<1>0. ~(n.bytes > DiskBudget)
  BY DiskTierAssumption
<1>1. PICK room \in trim(d, n.bytes) : d2 \in trim(room \cup {n}, 0)
  BY <1>0, Zenon DEF commit
<1>2. IsFiniteSet(d) /\ \A e \in d : e.bytes \in Nat
  BY DEF DiskFits
<1>3. room \subseteq d /\ disk_used_bytes(room) + n.bytes =< DiskBudget
  BY <1>1, <1>2, TrimFits
<1> DEFINE all == room \cup {n}
<1>4. IsFiniteSet(room) /\ IsFiniteSet(all) /\ \A e \in all : e.bytes \in Nat
  BY <1>2, <1>3, FS_Subset, FS_AddElement
<1>5. disk_used_bytes(all) =< DiskBudget /\ disk_used_bytes(all) \in Nat
  <2>0. disk_used_bytes(room) \in Nat /\ disk_used_bytes(all) \in Nat
    BY <1>3, <1>4, UsedFacts
  <2>1. CASE n \in room
    <3>1. all = room
      BY <2>1
    <3> HIDE DEF all
    <3>2. disk_used_bytes(all) = disk_used_bytes(room)
      BY <3>1
    <3>3. n.bytes \in Nat /\ DiskBudget \in Nat
      BY DiskTierAssumption
    <3> HIDE DEF disk_used_bytes
    <3> QED BY <1>3, <2>0, <3>2, <3>3
  <2>2. CASE n \notin room
    <3>1. all \ {n} = room /\ n \in all
      BY <2>2
    <3> HIDE DEF all
    <3>2. disk_used_bytes(all) = n.bytes + disk_used_bytes(all \ {n})
      BY <1>4, <3>1, UsedFacts
    <3> QED BY <1>3, <2>0, <3>1, <3>2, DiskTierAssumption
  <2> QED BY <2>1, <2>2
<1>6. PICK V \in SUBSET all :
        /\ d2 = all \ V
        /\ V # {} => \E v \in V : disk_used_bytes((all \ V) \cup {v}) + 0 > DiskBudget
  BY <1>1, Zenon DEF trim, Trimmed
<1>7. V = {}
  <2> SUFFICES ASSUME V # {} PROVE FALSE
    OBVIOUS
  <2>1. PICK v \in V : disk_used_bytes((all \ V) \cup {v}) + 0 > DiskBudget
    BY <1>6
  <2> DEFINE part == (all \ V) \cup {v}
  <2>2. part \in SUBSET all
    OBVIOUS
  <2>3. IsFiniteSet(part) /\ \A e \in part : e.bytes \in Nat
    BY <1>4, <2>2, FS_Subset
  <2> HIDE DEF all, part
  <2>4. disk_used_bytes(part) =< disk_used_bytes(all) /\ disk_used_bytes(part) \in Nat
    BY <1>4, <2>2, <2>3, UsedFacts
  <2>5. disk_used_bytes(part) + 0 > DiskBudget
    BY <2>1 DEF part
  <2> QED BY <1>5, <2>4, <2>5, DiskTierAssumption
<1> QED BY <1>6, <1>7

LEMMA StoredKeeps ==
    ASSUME ~MayFail, NEW d, DiskFits(d), NEW n, n.bytes \in Nat, n.bytes =< DiskBudget,
           n.durable = FALSE, NEW d2 \in Stored(d, n)
    PROVE  n \in d2
<1>1. d2 \in commit(d, n, TRUE)
  <2>1. MayFail = FALSE
    BY SessionStoreAssumption
  <2>2. Spare = {TRUE}
    BY <2>1 DEF Spare
  <2> QED BY <2>1, <2>2, Zenon DEF Stored
<1> QED BY <1>1, CommitKeeps

LEMMA CopyIsNumber ==
    ASSUME NEW c \in CopyType, c[1] = "written"
    PROVE  c = Written(c[2])
BY DEF CopyType, NoCopy, Refused, Written

(* An eviction leaves the session on disk. *)
LEMMA EvictKeeps ==
    ASSUME ~MayFail, ~fault, NEW s, HomeShape(s), NEW d, Tier(d), DiskFits(d), evict(s, d),
           next_id \in Nat, now \in Nat,
           Len(s.tokens) >= MinDisk, Size(s) =< DiskBudget, s.disk # Refused,
           \A e \in d : s.disk = Written(e.id) => Matches(s, e)
    PROVE  OnDisk(s, disk')
<1>1. CASE has_copy(s, d) /\ disk' = touch(d, s.disk[2], now)
  <2>1. s.disk = Written(s.disk[2]) /\ contains(d, s.disk[2])
    <3>1. s.disk \in CopyType
      BY SessionParts DEF HomeShape, SessionShape
    <3> QED BY <1>1, <3>1, CopyIsNumber DEF has_copy
  <2>2. PICK e \in d : e.id = s.disk[2]
    BY <2>1 DEF contains
  <2>3. Matches(s, e)
    BY <2>1, <2>2
  <2> DEFINE f == [e EXCEPT !.used = now]
  <2>4. e \in EntryType
    BY DEF Tier, Archived, EntryShape
  <2>5. f \in disk'
    BY <1>1, <2>2 DEF touch
  <2>6. f.lineage = e.lineage /\ f.kv = e.kv /\ f.ckpts = e.ckpts
    BY <2>4 DEF EntryType
  <2> HIDE DEF f
  <2> QED BY <2>3, <2>5, <2>6 DEF OnDisk, Matches
<1>2. CASE disk' \in Stored(expire(d, now), NewEntry(s, next_id))
  <2> DEFINE n == NewEntry(s, next_id)
  <2>1. /\ n.lineage = s.lineage /\ n.kv = s.kv /\ n.ckpts = PlanOf(s) /\ n.durable = FALSE
    BY NewEntryFields
  <2>2. n.bytes = Size(s)
    BY SizeIs
  <2> HIDE DEF n
  <2>3. n.bytes \in Nat /\ n.bytes =< DiskBudget
    BY <2>2, SizeIsNat
  <2>4. n \in disk'
    BY <1>2, <2>1, <2>3, ExpireFits, StoredKeeps DEF n
  <2> QED BY <2>1, <2>4 DEF OnDisk
<1>3. CASE ~has_copy(s, d) /\ (s.disk = Refused \/ ~spillable(s))
  <2>1. Len(s.rec) = Len(s.tokens)
    BY DEF HomeShape
  <2> QED BY <1>3, <2>1 DEF spillable, at_rest
<1> QED BY <1>1, <1>2, <1>3 DEF evict

(* A write that ended well is collected with its copy. *)
LEMMA FinishKeeps ==
    ASSUME ~MayFail, SInv, Now, DInv, NothingRefused, writing # None, NEW o \in finish_write
    PROVE  /\ o.session.lineage = writing.session.lineage /\ o.session.kv = writing.session.kv
           /\ o.session.tokens = writing.session.tokens
           /\ PlanOf(o.session) = PlanOf(writing.session)
           /\ Size(o.session) = Size(writing.session)
           /\ o.session.disk = Refused => Size(o.session) > DiskBudget
<1> DEFINE w == writing.session
           n == NewEntry(w, writing.id)
<1>0. HomeShape(w) /\ w \in SessionType /\ writing.id \in Nat /\ now \in Nat
  BY StateParts DEF StoreGood, WriteType, Home
<1>1. PICK d2 \in commit(disk, n, TRUE) :
        o = [session |-> [w EXCEPT !.disk = IF contains(d2, writing.id)
                                            THEN Written(writing.id) ELSE Refused],
             disk |-> d2]
  <2>1. MayFail = FALSE
    BY SessionStoreAssumption
  <2>2. Spare = {TRUE} /\ ~(writing.phase = "failed")
    BY <2>1 DEF Spare, NothingRefused
  <2>3. \E d2 \in UNION {commit(disk, n, spare) : spare \in Spare} :
          o = [session |-> [w EXCEPT !.disk = IF contains(d2, writing.id)
                                              THEN Written(writing.id) ELSE Refused],
               disk |-> d2]
    BY <2>2, Zenon DEF finish_write
  <2> QED BY <2>2, <2>3, Zenon
<1> DEFINE c == IF contains(d2, writing.id) THEN Written(writing.id) ELSE Refused
<1>2. o.session = [w EXCEPT !.disk = c]
  BY <1>1
<1>3. n.id = writing.id /\ n.durable = FALSE /\ n.bytes = Size(w)
  BY <1>0, NewEntryFields, SizeIs
<1>4. Size(w) \in Nat
  BY <1>0, SizeIsNat
<1> HIDE DEF n
<1>5. Size(w) =< DiskBudget => contains(d2, writing.id)
  <2> SUFFICES ASSUME Size(w) =< DiskBudget PROVE contains(d2, writing.id)
    OBVIOUS
  <2>1. n \in d2
    BY <1>1, <1>3, <1>4, CommitKeeps DEF DInv
  <2> QED BY <1>3, <2>1 DEF contains
<1>6. c = Refused => Size(w) > DiskBudget
  BY <1>4, <1>5, Copies, DiskTierAssumption
<1> HIDE DEF w, c
<1> QED BY <1>0, <1>2, <1>6, CopyElse DEF w
-----------------------------------------------------------------------------
(* Nothing is refused, ever, when no I/O fails. *)

TooLarge(en) == \A s \in en : s.disk = Refused => Size(s) > DiskBudget

Unfailed(wr) == wr # None => wr.phase # "failed"

LEMMA RefusedIs ==
    NothingRefused <=> TooLarge(entries) /\ Unfailed(writing) /\ (pc = "spill" => writing = None)
BY DEF NothingRefused, TooLarge, Unfailed

LEMMA CollectUnrefused ==
    ASSUME ~MayFail, SInv, Now, DInv, NothingRefused, collect_finished
    PROVE  TooLarge(entries') /\ Unfailed(writing') /\ writing' \in {writing, None}
<1>1. CASE ~finished
  BY <1>1, RefusedIs DEF collect_finished
<1>2. CASE finished
  <2>1. writing # None /\ writing' = None
    BY <1>2 DEF finished, collect_finished
  <2>2. PICK o \in finish_write : entries' = entries \cup {o.session}
    BY <1>2 DEF collect_finished
  <2>3. o.session.disk = Refused => Size(o.session) > DiskBudget
    BY <2>1, FinishKeeps
  <2> QED BY <2>1, <2>2, <2>3, RefusedIs DEF TooLarge, Unfailed
<1> QED BY <1>1, <1>2

LEMMA ReclaimUnrefused == ASSUME SInv, NothingRefused, reclaim_for PROVE NothingRefused'
<1>1. /\ pc' = "lookup"
      /\ \/ /\ writing # None /\ writing' = None
            /\ entries' = entries \cup {[writing.session EXCEPT !.disk = NoCopy]}
         \/ UNCHANGED <<entries, writing>>
  BY Zenon DEF reclaim_for
<1>2. CASE UNCHANGED <<entries, writing>>
  BY <1>1, <1>2 DEF NothingRefused
<1>3. CASE /\ writing # None /\ writing' = None
           /\ entries' = entries \cup {[writing.session EXCEPT !.disk = NoCopy]}
  <2>1. writing.session \in SessionType
    BY <1>3, StateParts DEF StoreGood, WriteType
  <2>2. [writing.session EXCEPT !.disk = NoCopy].disk = NoCopy
    BY <2>1, CopyElse
  <2>3. NoCopy # Refused
    BY DEF NoCopy, Refused
  <2> QED BY <1>1, <1>3, <2>2, <2>3 DEF NothingRefused
<1> QED BY <1>1, <1>2, <1>3

LEMMA ReleaseUnrefused == ASSUME SInv, NothingRefused, Release PROVE NothingRefused'
<1> DEFINE s == session[cur]
           k == Kept(DiscardCopy(s).session, plan[cur].prompt.images)
<1>1. /\ pc = "release" /\ UNCHANGED writing /\ pc' # "spill"
      /\ UNCHANGED entries \/ entries' = entries \cup {k}
  BY Zenon DEF Release
<1>2. cur \in Slots /\ stage[cur] = "release"
  BY <1>1 DEF SInv, PlaceGood
<1>3. SlotGood(stage[cur], s, plan[cur], fault) /\ plan[cur].prompt \in Prompts
      /\ SessionShape(s)
  BY <1>2, RunningParts
<1>4. k = Kept([s EXCEPT !.disk = NoCopy], plan[cur].prompt.images)
  BY DEF DiscardCopy
<1>5. clock \in Nat
  BY StateParts
<1>6. Len(s.tokens) = Len(s.rec) /\ (fault \/ Answered(s, plan[cur].prompt))
  BY <1>2, <1>3 DEF SlotGood
<1> HIDE DEF s, k
<1>7. k.disk = NoCopy
  BY <1>3, <1>4, <1>5, <1>6, KeptIsHome
<1>8. NoCopy # Refused
  BY DEF NoCopy, Refused
<1> QED BY <1>1, <1>7, <1>8 DEF NothingRefused

LEMMA RefreshedUnrefused ==
    ASSUME SInv, TooLarge(entries)
    PROVE  TooLarge(Refreshed)
<1> SUFFICES ASSUME NEW u \in Refreshed, u.disk = Refused PROVE Size(u) > DiskBudget
  BY DEF TooLarge
<1>1. PICK s \in entries :
        u = IF s.disk[1] = "written" /\ ~contains(disk, s.disk[2])
            THEN [s EXCEPT !.disk = NoCopy] ELSE s
  BY DEF Refreshed
<1>2. s \in SessionType
  BY StateParts DEF StoreGood, Home, HomeShape, SessionShape
<1>3. NoCopy # Refused
  BY DEF NoCopy, Refused
<1>4. u = s
  BY <1>1, <1>2, <1>3, CopyElse
<1> QED BY <1>4 DEF TooLarge

LEMMA StartWriteUnrefused ==
    ASSUME ~MayFail, SInv, NothingRefused, NEW s, StartWrite(s) PROVE NothingRefused'
<1>1. /\ pc' = "idle" /\ entries' = Refreshed \ {s}
      /\ writing' = [session |-> s, id |-> next_id, phase |-> "running"]
  BY DEF StartWrite
<1>2. TooLarge(Refreshed)
  BY RefreshedUnrefused, RefusedIs
<1> QED BY <1>1, <1>2 DEF NothingRefused, TooLarge

LEMMA NextUnrefused ==
    ASSUME ~MayFail, SInv, IInv, DInv, NothingRefused, [Next]_vars PROVE NothingRefused'
<1>0. Now
  BY DEF IInv, Now
<1>1. CASE entries' \subseteq entries /\ writing' \in {writing, None} /\ (pc' = "spill" => pc = "spill")
  BY <1>1 DEF NothingRefused
<1>2. CASE collect_finished /\ (pc' = "spill" => writing = None \/ finished)
  <2>1. TooLarge(entries') /\ Unfailed(writing') /\ writing' \in {writing, None}
    BY <1>0, <1>2, CollectUnrefused
  <2>2. pc' = "spill" => writing' = None
    BY <1>2, <2>1 DEF collect_finished
  <2> QED BY <2>1, <2>2 DEF NothingRefused, TooLarge, Unfailed
<1>3. ASSUME NEW r \in Slots, Request(r) PROVE NothingRefused'
  <2>1. CASE StoreDurable(r) \/ FinishPrefill(r) \/ Fail(r)
    BY <1>1, <2>1 DEF StoreDurable, FinishPrefill, Fail, storeVars
  <2>2. ASSUME NEW p, Acquire(r, p) PROVE NothingRefused'
    BY <1>2, <2>2 DEF Acquire
  <2>3. ASSUME NEW at, StopPrefill(r, at) PROVE NothingRefused'
    <3>1. \E s : GiveBack(r, s)
      BY <2>3, Zenon DEF StopPrefill
    <3> QED BY <1>2, <3>1 DEF GiveBack
  <2>4. ASSUME NEW gen, Answer(r, gen) PROVE NothingRefused'
    <3>1. \E s : GiveBack(r, s)
      BY <2>4, Zenon DEF Answer
    <3> QED BY <1>2, <3>1 DEF GiveBack
  <2> QED BY <1>3, <2>1, <2>2, <2>3, <2>4 DEF Request
<1>4. CASE NewStore
  BY <1>1, <1>4 DEF NewStore
<1>5. CASE Inside
  <2>1. CASE RoomMade \/ Released
    BY <1>1, <2>1 DEF RoomMade, Released, storeVars
  <2>2. CASE reclaim_for
    BY <2>2, ReclaimUnrefused
  <2>3. CASE Lookup
    <3>1. entries' \subseteq entries /\ writing' = writing /\ pc' \in {"idle", "room"}
      BY <2>3, LookupMoves DEF Taken
    <3> QED BY <1>1, <3>1
  <2>4. CASE MakeRoom \/ TrimReleased
    <3>1. evict_lru /\ pc' = pc
      BY <2>4 DEF MakeRoom, TrimReleased
    <3> QED BY <1>1, <3>1, LruDrops
  <2>5. CASE Release
    BY <2>5, ReleaseUnrefused
  <2>6. CASE NothingToWrite
    <3>1. entries' = Refreshed /\ pc' = "idle" /\ writing' = writing
      BY <2>6 DEF NothingToWrite
    <3>2. TooLarge(Refreshed)
      BY RefreshedUnrefused, RefusedIs
    <3> QED BY <3>1, <3>2 DEF NothingRefused, TooLarge
  <2>7. CASE UnloadJoin
    BY <1>2, <2>7 DEF UnloadJoin
  <2>8. CASE Reload
    BY <1>4, <2>8 DEF Reload
  <2>9. ASSUME NEW s \in entries, SpillOne(s) PROVE NothingRefused'
    BY <1>1, <2>9 DEF SpillOne
  <2> QED BY <1>5, <2>1, <2>2, <2>3, <2>4, <2>5, <2>6, <2>7, <2>8, <2>9 DEF Inside
<1>6. CASE CollectAhead
  BY <1>2, <1>6 DEF CollectAhead
<1>7. ASSUME NEW s \in Refreshed, StartWrite(s) PROVE NothingRefused'
  BY <1>7, StartWriteUnrefused
<1>8. CASE Unload \/ Fault \/ Tick \/ Terminated \/ UNCHANGED vars
  BY <1>1, <1>8 DEF Unload, Fault, Tick, Terminated, vars, storeVars
<1>9. CASE Recover \/ Crash
  BY <1>4, <1>9 DEF Recover, Crash
<1>10. CASE WriterEnds
  <2>1. writing # None /\ writing' = [writing EXCEPT !.phase = "written"]
        /\ UNCHANGED <<entries, pc>>
    BY <1>10 DEF WriterEnds
  <2>2. writing'.phase = "written"
    BY <2>1, StateParts DEF StoreGood, WriteType
  <2> QED BY <2>1, <2>2 DEF NothingRefused
<1> QED BY <1>3, <1>5, <1>6, <1>7, <1>8, <1>9, <1>10 DEF Next

LEMMA NeverRefused == ~MayFail => (Spec => []NothingRefused)
<1> SUFFICES ASSUME ~MayFail PROVE Spec => []NothingRefused
  OBVIOUS
<1>1. SInv /\ IInv /\ DInv /\ NothingRefused /\ [Next]_vars => NothingRefused'
  BY NextUnrefused
<1>2. Init => NothingRefused
  BY DEF Init, NothingRefused
<1> QED BY <1>1, <1>2, SInvAlways, Invariance, FitsAlways, PTL DEF Spec
-----------------------------------------------------------------------------
(* Where a session is after a step: in the store, with a request, on disk. *)

InStore(s) == \E t \in (entries \cup parked)' : t.lineage = s.lineage

WithRequest(s) == \E r \in Busy' : session'[r].lineage = s.lineage

StillThere(s) == InStore(s) \/ WithRequest(s) \/ OnDisk(s, disk')

Losable(s) == fault \/ Len(s.tokens) < MinDisk \/ Size(s) > DiskBudget

KeepsAll == \A s \in entries \cup parked : Losable(s) \/ StillThere(s)

LEMMA SameStore ==
    ASSUME entries \subseteq entries', writing' = writing
    PROVE  KeepsAll
<1>1. parked' = parked
  BY DEF parked
<1> QED BY <1>1 DEF KeepsAll, StillThere, InStore

LEMMA CollectKeeps ==
    ASSUME ~MayFail, SInv, Now, DInv, NothingRefused, collect_finished
    PROVE  KeepsAll
<1>1. CASE ~finished
  BY <1>1, SameStore DEF collect_finished
<1>2. CASE finished
  <2>1. writing # None /\ writing' = None
    BY <1>2 DEF finished, collect_finished
  <2>2. PICK o \in finish_write : entries' = entries \cup {o.session}
    BY <1>2 DEF collect_finished
  <2>3. o.session.lineage = writing.session.lineage
    BY <2>1, FinishKeeps
  <2>4. parked = {writing.session}
    BY <2>1 DEF parked
  <2>5. o.session \in (entries \cup parked)' /\ entries \subseteq (entries \cup parked)'
    BY <2>2
  <2> QED BY <2>3, <2>4, <2>5 DEF KeepsAll, StillThere, InStore
<1> QED BY <1>1, <1>2

LEMMA ReclaimKeeps == ASSUME SInv, reclaim_for PROVE KeepsAll
<1>1. \/ /\ writing # None /\ writing' = None
         /\ entries' = entries \cup {[writing.session EXCEPT !.disk = NoCopy]}
      \/ UNCHANGED <<entries, writing>>
  BY Zenon DEF reclaim_for
<1>2. CASE UNCHANGED <<entries, writing>>
  BY <1>2, SameStore
<1>3. CASE /\ writing # None /\ writing' = None
           /\ entries' = entries \cup {[writing.session EXCEPT !.disk = NoCopy]}
  <2> DEFINE u == [writing.session EXCEPT !.disk = NoCopy]
  <2>1. writing.session \in SessionType
    BY <1>3, StateParts DEF StoreGood, WriteType
  <2>2. u.lineage = writing.session.lineage
    BY <2>1, CopyElse
  <2>3. parked = {writing.session}
    BY <1>3 DEF parked
  <2>4. u \in (entries \cup parked)' /\ entries \subseteq (entries \cup parked)'
    BY <1>3
  <2> HIDE DEF u
  <2> QED BY <2>2, <2>3, <2>4 DEF KeepsAll, StillThere, InStore
<1> QED BY <1>1, <1>2, <1>3

(* A resident session a request takes is the request's. *)
LEMMA TakenKeeps ==
    ASSUME SInv, IInv, pc = "lookup", NEW s \in entries, NEW u, Same(u, s), NEW n, NEW cut,
           TakeResident(s, n, cut, u)
    PROVE  KeepsAll
<1>1. cur \in Slots /\ DOMAIN session = Slots
  <2>1. cur \in Slots
    BY DEF SInv, PlaceGood
  <2>2. DOMAIN session = Slots
    BY StateParts DEF SlotsGood
  <2> QED BY <2>1, <2>2
<1> DEFINE v == [u EXCEPT !.request_start = n, !.answer_start = Len(prompt.cells) - 1]
<1>2. session' = [session EXCEPT ![cur] = v] /\ entries' = entries \ {s} /\ writing' = writing
  BY DEF TakeResident, Checkout
<1>3. SessionOK(u) /\ u.lineage = s.lineage /\ s.lineage # 0
  BY DEF Same, IInv, StorePart, EntriesPart, Living
<1>4. v.lineage = s.lineage
  BY <1>3 DEF SessionOK, SessionFields
<1> HIDE DEF v
<1>5. session'[cur] = v
  BY <1>1, <1>2
<1>6. cur \in Busy'
  BY <1>1, <1>3, <1>4, <1>5, NoSessionOK DEF Busy
<1>7. parked' = parked
  BY <1>2 DEF parked
<1>8. WithRequest(s)
  BY <1>4, <1>5, <1>6 DEF WithRequest
<1>9. \A t \in entries \cup parked : t # s => t \in (entries \cup parked)'
  BY <1>2, <1>7
<1> QED BY <1>8, <1>9 DEF KeepsAll, StillThere, InStore

LEMMA LookupKeeps == ASSUME SInv, IInv, Lookup PROVE KeepsAll
<1>1. ASSUME NEW u, NEW n, NEW d, TakeNew(u, n, d) PROVE KeepsAll
  BY <1>1, SameStore DEF TakeNew
<1>2. CASE StartFresh
  <2>1. \E u, n, d : TakeNew(u, n, d)
    BY <1>2, Zenon DEF StartFresh
  <2> QED BY <1>1, <2>1
<1>3. ASSUME NEW s \in entries, Extend(s) PROVE KeepsAll
  <2>1. pc = "lookup" /\ TakeResident(s, BestGPU, FALSE, s)
    BY <1>3 DEF Extend
  <2>2. Same(s, s)
    BY DEF Same, IInv, StorePart, EntriesPart, Living
  <2> QED BY <2>1, <2>2, TakenKeeps
<1>4. ASSUME NEW s \in entries, CutBack(s) PROVE KeepsAll
  <2> DEFINE u == [s EXCEPT !.rec = checkpoint_at(s, BestGPU).rec,
                            !.kv = Prefix(@, BestGPU), !.tokens = Prefix(@, BestGPU),
                            !.images = images_within(@, BestGPU),
                            !.ckpts = {c \in @ : c.pos =< BestGPU}]
  <2>1. pc = "lookup" /\ TakeResident(s, BestGPU, TRUE, u)
    BY <1>4, Zenon DEF CutBack
  <2>2. SessionOK(s)
    BY DEF IInv, StorePart, EntriesPart, Living
  <2>3. Same(u, s)
    BY <2>2, RebuiltKeeps
  <2> HIDE DEF u
  <2> QED BY <2>1, <2>3, TakenKeeps
<1>5. ASSUME NEW s, Fork(s) PROVE KeepsAll
  <2>1. \E u, n, d : TakeNew(u, n, d)
    BY <1>5, Zenon DEF Fork
  <2> QED BY <1>1, <2>1
<1>6. ASSUME NEW e, Restore(e) \/ DropUnreadable(e) PROVE KeepsAll
  <2>1. \E u, n, d : TakeNew(u, n, d)
    BY <1>6, Zenon DEF Restore, DropUnreadable
  <2> QED BY <1>1, <2>1
<1> QED BY <1>2, <1>3, <1>4, <1>5, <1>6 DEF Lookup

(* What the store holds is at rest and matches its copy. *)
LEMMA ResidentEvicted ==
    ASSUME ~MayFail, SInv, DInv, Copied, NothingRefused, NEW s \in entries, evict(s, disk)
    PROVE  Losable(s) \/ OnDisk(s, disk')
<1> SUFFICES ASSUME ~Losable(s) PROVE OnDisk(s, disk')
  OBVIOUS
<1>1. HomeShape(s) /\ Tier(disk)
  BY StateParts DEF StoreGood, Home, Tier
<1>2. ~fault /\ Len(s.tokens) >= MinDisk /\ Size(s) =< DiskBudget
  <2>1. Size(s) \in Nat /\ Len(s.tokens) \in Nat
    BY <1>1, SizeIsNat, SessionParts DEF HomeShape, SessionShape
  <2>2. ~fault /\ ~(Len(s.tokens) < MinDisk) /\ ~(Size(s) > DiskBudget)
    BY Zenon DEF Losable
  <2>3. MinDisk \in Nat /\ DiskBudget \in Nat
    BY DiskTierAssumption, SessionStoreAssumption
  <2>4. Len(s.tokens) >= MinDisk /\ Size(s) =< DiskBudget
    BY <2>1, <2>2, <2>3
  <2> QED BY <2>2, <2>4
<1>3. s.disk # Refused
  <2>1. Size(s) \in Nat
    BY <1>1, SizeIsNat
  <2> QED BY <1>2, <2>1, DiskTierAssumption DEF NothingRefused
<1>4. \A e \in disk : s.disk = Written(e.id) => Matches(s, e)
  BY DEF Copied, CopyGood
<1> QED BY <1>1, <1>2, <1>3, <1>4, StateParts, EvictKeeps DEF DInv

LEMMA ParkedEvicted ==
    ASSUME ~MayFail, SInv, Now, DInv, Copied, NothingRefused, writing # None,
           NEW o \in finish_write, evict(o.session, o.disk)
    PROVE  Losable(writing.session) \/ OnDisk(writing.session, disk')
<1> DEFINE w == writing.session
           u == o.session
<1> SUFFICES ASSUME ~Losable(w) PROVE OnDisk(w, disk')
  OBVIOUS
<1>1. /\ u.lineage = w.lineage /\ u.kv = w.kv /\ u.tokens = w.tokens
      /\ PlanOf(u) = PlanOf(w) /\ Size(u) = Size(w)
      /\ u.disk = Refused => Size(u) > DiskBudget
  BY FinishKeeps
<1>2. Home(u, FALSE) /\ Tier(o.disk)
  BY StateParts, FinishGood
<1>3. HomeShape(u)
  BY <1>2 DEF Home
<1>4. DiskFits(o.disk)
  BY StateParts, FinishFits DEF DInv
<1>5. \A e \in o.disk : u.disk = Written(e.id) => Matches(u, e)
  BY FinishMatches DEF Copied, CopyGood
<1>6. Size(u) \in Nat /\ Len(u.tokens) \in Nat
  BY <1>3, SizeIsNat, SessionParts DEF HomeShape, SessionShape
<1> HIDE DEF w, u
<1>7. ~fault /\ Len(u.tokens) >= MinDisk /\ Size(u) =< DiskBudget /\ u.disk # Refused
  <2>1. ~fault /\ ~(Len(w.tokens) < MinDisk) /\ ~(Size(w) > DiskBudget)
    BY Zenon DEF Losable, w
  <2>2. Len(u.tokens) = Len(w.tokens) /\ Size(u) = Size(w)
    BY <1>1
  <2>3. MinDisk \in Nat /\ DiskBudget \in Nat
    BY DiskTierAssumption, SessionStoreAssumption
  <2>4. Len(u.tokens) >= MinDisk /\ Size(u) =< DiskBudget /\ ~(Size(u) > DiskBudget)
    BY <1>6, <2>1, <2>2, <2>3
  <2> QED BY <1>1, <2>1, <2>4
<1>8. OnDisk(u, disk')
  BY <1>2, <1>3, <1>4, <1>5, <1>7, StateParts, EvictKeeps DEF u
<1> QED BY <1>1, <1>8 DEF OnDisk

LEMMA LruKeeps ==
    ASSUME ~MayFail, SInv, Now, DInv, Copied, NothingRefused, evict_lru
    PROVE  KeepsAll
<1>1. CASE /\ writing # None /\ writing' = None /\ entries' = entries
           /\ \E o \in finish_write : evict(o.session, o.disk)
  <2>1. Losable(writing.session) \/ OnDisk(writing.session, disk')
    BY <1>1, ParkedEvicted
  <2>2. parked = {writing.session} /\ entries \subseteq (entries \cup parked)'
    BY <1>1 DEF parked
  <2> QED BY <2>1, <2>2 DEF KeepsAll, StillThere, InStore
<1>2. ASSUME NEW s \in entries, evict(s, disk), entries' = entries \ {s}, writing' = writing
      PROVE  KeepsAll
  <2>1. Losable(s) \/ OnDisk(s, disk')
    BY <1>2, ResidentEvicted
  <2>2. parked' = parked
    BY <1>2 DEF parked
  <2>3. \A t \in entries \cup parked : t # s => t \in (entries \cup parked)'
    BY <1>2, <2>2
  <2> QED BY <2>1, <2>3 DEF KeepsAll, StillThere, InStore
<1> QED BY <1>1, <1>2, Zenon DEF evict_lru
-----------------------------------------------------------------------------
LEMMA RefreshedLineage ==
    ASSUME SInv
    PROVE  /\ \A t \in entries : \E u \in Refreshed : u.lineage = t.lineage
           /\ \A u \in Refreshed : u \in SessionType
<1>1. \A t \in entries : t \in SessionType
  BY StateParts DEF StoreGood, Home, HomeShape, SessionShape
<1>2. ASSUME NEW t \in entries PROVE \E u \in Refreshed : u.lineage = t.lineage
  <2> DEFINE c == [t EXCEPT !.disk = NoCopy]
             u == IF t.disk[1] = "written" /\ ~contains(disk, t.disk[2]) THEN c ELSE t
  <2>1. c.lineage = t.lineage
    BY <1>1, CopyElse
  <2>2. u \in Refreshed
    BY DEF Refreshed
  <2>3. u.lineage = t.lineage
    BY <2>1
  <2> HIDE DEF u
  <2> QED BY <2>2, <2>3
<1>3. ASSUME NEW u \in Refreshed PROVE u \in SessionType
  BY RefreshedHome, StateParts DEF Home, HomeShape, SessionShape
<1> QED BY <1>2, <1>3

LEMMA StartWriteKeeps ==
    ASSUME ~MayFail, SInv, BudgetInv, NEW s \in Refreshed, StartWrite(s)
    PROVE  KeepsAll
<1> DEFINE w == [session |-> s, id |-> next_id, phase |-> "running"]
<1>1. entries' = Refreshed \ {s} /\ writing' = w
  BY DEF StartWrite
<1>2. writing = None
  BY DEF StartWrite, BudgetInv
<1>3. w \in WriteType /\ w.session = s
  BY StateParts, RefreshedLineage DEF WriteType
<1> HIDE DEF w
<1>4. writing' # None
  BY <1>1, <1>3, NoneAssumption
<1>5. parked = {} /\ parked' = {s}
  BY <1>1, <1>2, <1>3, <1>4 DEF parked
<1>6. Refreshed \subseteq (entries \cup parked)'
  BY <1>1, <1>5
<1>7. \A t \in entries : \E u \in Refreshed : u.lineage = t.lineage
  BY RefreshedLineage
<1> QED BY <1>5, <1>6, <1>7 DEF KeepsAll, StillThere, InStore

LEMMA NothingToWriteKeeps == ASSUME SInv, NothingToWrite PROVE KeepsAll
<1>1. entries' = Refreshed /\ writing' = writing
  BY DEF NothingToWrite
<1>2. parked' = parked
  BY <1>1 DEF parked
<1>3. Refreshed \subseteq (entries \cup parked)' /\ parked \subseteq (entries \cup parked)'
  BY <1>1, <1>2
<1>4. \A t \in entries : \E u \in Refreshed : u.lineage = t.lineage
  BY RefreshedLineage
<1> QED BY <1>3, <1>4 DEF KeepsAll, StillThere, InStore

LEMMA SpillKeeps ==
    ASSUME ~MayFail, SInv, DInv, Copied, NothingRefused, NEW s \in entries, SpillOne(s)
    PROVE  KeepsAll
<1>1. evict(s, disk) /\ entries' = entries \ {s} /\ writing' = writing
  BY DEF SpillOne
<1>2. Losable(s) \/ OnDisk(s, disk')
  BY <1>1, ResidentEvicted
<1>3. parked' = parked
  BY <1>1 DEF parked
<1>4. \A t \in entries \cup parked : t # s => t \in (entries \cup parked)'
  BY <1>1, <1>3
<1> QED BY <1>2, <1>4 DEF KeepsAll, StillThere, InStore

LEMMA NextKeeps ==
    ASSUME ~MayFail, ~CrashMayHappen, SInv, IInv, DInv, Copied, BudgetInv, NothingRefused,
           [Next]_vars
    PROVE  KeepsAll
<1>0. Now
  BY DEF IInv, Now
<1>1. CASE entries \subseteq entries' /\ writing' = writing
  BY <1>1, SameStore
<1>2. CASE collect_finished
  BY <1>0, <1>2, CollectKeeps
<1>3. ASSUME NEW r \in Slots, Request(r) PROVE KeepsAll
  <2>1. CASE StoreDurable(r) \/ FinishPrefill(r) \/ Fail(r)
    BY <1>1, <2>1 DEF StoreDurable, FinishPrefill, Fail, storeVars
  <2>2. ASSUME NEW p, Acquire(r, p) PROVE KeepsAll
    BY <1>2, <2>2 DEF Acquire
  <2>3. ASSUME NEW at, StopPrefill(r, at) PROVE KeepsAll
    <3>1. \E s : GiveBack(r, s)
      BY <2>3, Zenon DEF StopPrefill
    <3> QED BY <1>2, <3>1 DEF GiveBack
  <2>4. ASSUME NEW gen, Answer(r, gen) PROVE KeepsAll
    <3>1. \E s : GiveBack(r, s)
      BY <2>4, Zenon DEF Answer
    <3> QED BY <1>2, <3>1 DEF GiveBack
  <2> QED BY <1>3, <2>1, <2>2, <2>3, <2>4 DEF Request
<1>4. CASE Inside
  <2>1. CASE RoomMade \/ Released
    BY <1>1, <2>1 DEF RoomMade, Released, storeVars
  <2>2. CASE reclaim_for
    BY <2>2, ReclaimKeeps
  <2>3. CASE Lookup
    BY <2>3, LookupKeeps
  <2>4. CASE MakeRoom \/ TrimReleased
    <3>1. evict_lru
      BY <2>4 DEF MakeRoom, TrimReleased
    <3> QED BY <1>0, <3>1, LruKeeps
  <2>5. CASE Release
    <3>1. UNCHANGED writing /\ entries \subseteq entries'
      BY <2>5, Zenon DEF Release
    <3> QED BY <1>1, <3>1
  <2>6. CASE NothingToWrite
    BY <2>6, NothingToWriteKeeps
  <2>7. CASE UnloadJoin
    BY <1>2, <2>7 DEF UnloadJoin
  <2>8. CASE Reload
    <3>1. entries = {} /\ writing = None
      BY <2>8 DEF Reload, NothingRefused
    <3> QED BY <3>1 DEF KeepsAll, parked
  <2>9. ASSUME NEW s \in entries, SpillOne(s) PROVE KeepsAll
    BY <2>9, SpillKeeps
  <2> QED BY <1>4, <2>1, <2>2, <2>3, <2>4, <2>5, <2>6, <2>7, <2>8, <2>9 DEF Inside
<1>5. CASE CollectAhead
  BY <1>2, <1>5 DEF CollectAhead
<1>6. ASSUME NEW s \in Refreshed, StartWrite(s) PROVE KeepsAll
  BY <1>6, StartWriteKeeps
<1>7. CASE Unload \/ Fault \/ Tick \/ Terminated \/ UNCHANGED vars
  BY <1>1, <1>7 DEF Unload, Fault, Tick, Terminated, vars, storeVars
<1>8. CASE Recover
  BY <1>8 DEF Recover, KeepsAll, Losable
<1>9. CASE Crash
  BY <1>9 DEF Crash
<1>10. CASE WriterEnds
  <2>1. writing # None /\ writing' = [writing EXCEPT !.phase = "written"] /\ entries' = entries
    BY <1>10 DEF WriterEnds
  <2>2. writing' \in WriteType /\ writing'.session = writing.session
    BY <2>1, StateParts DEF StoreGood, WriteType
  <2>3. parked' = parked
    BY <2>1, <2>2, NoneAssumption DEF parked
  <2>4. entries \cup parked \subseteq (entries \cup parked)'
    BY <2>1, <2>3
  <2> QED BY <2>4 DEF KeepsAll, StillThere, InStore
<1> QED BY <1>3, <1>4, <1>5, <1>6, <1>7, <1>8, <1>9, <1>10 DEF Next

(* While the process lives and no I/O fails, a session leaves the store     *)
(* only for a request or for the disk tier, with its caches and all its     *)
(* checkpoints; lost is only what is too short to write, what the tier      *)
(* could never hold, and a fault's work (evict, write_ahead, spill_all).    *)
THEOREM NothingIsLost == ~MayFail /\ ~CrashMayHappen => (Spec => NoSilentLoss)
<1> SUFFICES ASSUME ~MayFail, ~CrashMayHappen PROVE Spec => NoSilentLoss
  OBVIOUS
<1>1. ASSUME KeepsAll
      PROVE  \A s \in entries \cup parked :
          \/ fault \/ Len(s.tokens) < MinDisk \/ NewEntry(s, 0).bytes > DiskBudget
          \/ \E t \in (entries \cup parked)' : t.lineage = s.lineage
          \/ \E r \in Busy' : session'[r].lineage = s.lineage
          \/ \E e \in disk' : e.lineage = s.lineage /\ e.kv = s.kv /\ e.ckpts = PlanOf(s)
  BY <1>1, SizeIs DEF KeepsAll, Losable, StillThere, InStore, WithRequest, OnDisk
<1>2. SInv /\ IInv /\ DInv /\ Copied /\ BudgetInv /\ NothingRefused /\ [Next]_vars => KeepsAll
  BY NextKeeps
<1>3. /\ SInv /\ IInv /\ DInv /\ Copied /\ BudgetInv /\ NothingRefused
      /\ [Next]_vars
      => [\A s \in entries \cup parked :
            \/ fault \/ Len(s.tokens) < MinDisk \/ NewEntry(s, 0).bytes > DiskBudget
            \/ \E t \in (entries \cup parked)' : t.lineage = s.lineage
            \/ \E r \in Busy' : session'[r].lineage = s.lineage
            \/ \E e \in disk' : e.lineage = s.lineage /\ e.kv = s.kv /\ e.ckpts = PlanOf(s)]_vars
  BY <1>1, <1>2
<1>4. Spec => []NothingRefused
  BY NeverRefused
<1> QED BY <1>3, <1>4, SInvAlways, Invariance, FitsAlways, CopiedAlways, RoomyAlways, PTL
        DEF Spec, NoSilentLoss
-----------------------------------------------------------------------------
(* How far a prompt resumes.  Between reclaim_for and the lookup nothing   *)
(* that beats the parked session goes away, without an age limit.          *)

Beaten(w) ==
    \/ ResumeAt(w, prompt) = 0
    \/ \E l \in entries \cup disk : ResumeAt(w, prompt) < ResumeAt(l, prompt)

LookInv == pc = "lookup" /\ writing # None => Beaten(writing.session)

LEMMA ReclaimBeats == ASSUME SInv, reclaim_for PROVE LookInv'
<1>1. pc = "reclaim" /\ UNCHANGED <<disk, cur, plan>>
  BY DEF reclaim_for, reqVars
<1>2. prompt \in Prompts /\ prompt' = prompt
  BY <1>1 DEF SInv, PlaceGood, SlotsGood, SlotGood, prompt
<1>3. SUFFICES ASSUME writing' # None PROVE Beaten(writing.session)'
  BY DEF LookInv
<1> DEFINE pos == ResumeAt(writing.session, prompt)
<1>4. /\ writing' = writing /\ entries' = entries
      /\ ~(/\ writing # None /\ pos > 0
           /\ \A l \in entries \cup disk : ResumeAt(l, prompt) =< pos)
  BY <1>3, Zenon DEF reclaim_for
<1>5. writing # None
  BY <1>3, <1>4
<1>6. Home(writing.session, FALSE) /\ (\A l \in entries : Home(l, fault))
      /\ \A e \in disk : Archived(e)
  BY <1>5, StateParts DEF StoreGood
<1>7. pos \in Nat /\ \A l \in entries \cup disk : ResumeAt(l, prompt) \in Nat
  BY <1>2, <1>6, HomeKnown, EntryKnown, ResumeWhere DEF Home, Archived
<1>8. pos = 0 \/ \E l \in entries \cup disk : pos < ResumeAt(l, prompt)
  BY <1>4, <1>5, <1>7
<1>9. Beaten(writing.session)
  BY <1>8 DEF Beaten
<1> QED BY <1>1, <1>2, <1>4, <1>9 DEF Beaten

(* What a thread, the clock or a fault does in the meantime. *)
LEMMA StillBeaten ==
    ASSUME LookInv, UNCHANGED <<entries, disk, plan, cur>>,
           writing # None => writing' = None \/ writing'.session = writing.session,
           writing' # None => writing # None,
           pc' = "lookup" => pc = "lookup"
    PROVE  LookInv'
<1>1. prompt' = prompt
  BY DEF prompt
<1> QED BY <1>1 DEF LookInv, Beaten

LEMMA NextBeaten == ASSUME SInv, LookInv, [Next]_vars PROVE LookInv'
<1>1. CASE pc' # "lookup"
  BY <1>1 DEF LookInv
<1>2. CASE UNCHANGED <<entries, disk, plan, cur, writing, pc>>
  BY <1>2, StillBeaten
<1>3. ASSUME NEW r \in Slots, Request(r) PROVE LookInv'
  <2>1. CASE StoreDurable(r) \/ FinishPrefill(r) \/ Fail(r)
    BY <1>1, <2>1 DEF StoreDurable, FinishPrefill, Fail
  <2>2. ASSUME NEW p, Acquire(r, p) PROVE LookInv'
    BY <1>1, <2>2 DEF Acquire
  <2>3. ASSUME NEW at, StopPrefill(r, at) PROVE LookInv'
    <3>1. \E s : GiveBack(r, s)
      BY <2>3, Zenon DEF StopPrefill
    <3> QED BY <1>1, <3>1 DEF GiveBack
  <2>4. ASSUME NEW gen, Answer(r, gen) PROVE LookInv'
    <3>1. \E s : GiveBack(r, s)
      BY <2>4, Zenon DEF Answer
    <3> QED BY <1>1, <3>1 DEF GiveBack
  <2> QED BY <1>3, <2>1, <2>2, <2>3, <2>4 DEF Request
<1>4. CASE NewStore
  BY <1>1, <1>4 DEF NewStore
<1>5. CASE Inside
  <2>1. CASE RoomMade \/ Released \/ MakeRoom \/ TrimReleased \/ NothingToWrite \/ UnloadJoin
    BY <1>1, <2>1 DEF RoomMade, Released, MakeRoom, TrimReleased, NothingToWrite, UnloadJoin
  <2>2. CASE reclaim_for
    BY <2>2, ReclaimBeats
  <2>3. CASE Lookup
    BY <1>1, <2>3, LookupMoves DEF Taken
  <2>4. CASE Release
    <3>1. pc' \in {"idle", "budget"}
      BY <2>4, Zenon DEF Release
    <3> QED BY <1>1, <3>1
  <2>5. CASE Reload
    BY <1>4, <2>5 DEF Reload
  <2>6. ASSUME NEW s, SpillOne(s) PROVE LookInv'
    BY <1>1, <2>6 DEF SpillOne
  <2> QED BY <1>5, <2>1, <2>2, <2>3, <2>4, <2>5, <2>6 DEF Inside
<1>6. CASE CollectAhead
  BY <1>1, <1>6 DEF CollectAhead
<1>7. ASSUME NEW s, StartWrite(s) PROVE LookInv'
  BY <1>1, <1>7 DEF StartWrite
<1>8. CASE Unload \/ Fault \/ Tick \/ Terminated \/ UNCHANGED vars
  BY <1>1, <1>2, <1>8 DEF Unload, Fault, Tick, Terminated, vars, storeVars, reqVars
<1>9. CASE Recover \/ Crash
  BY <1>4, <1>9 DEF Recover, Crash
<1>10. CASE WriterEnds
  <2>1. PICK result : writing' = [writing EXCEPT !.phase = result]
    BY <1>10 DEF WriterEnds
  <2>2. writing # None /\ UNCHANGED <<entries, disk, plan, cur, pc>>
    BY <1>10 DEF WriterEnds, reqVars
  <2>3. writing'.session = writing.session
    BY <2>1, <2>2, StateParts DEF StoreGood, WriteType
  <2> QED BY <2>2, <2>3, StillBeaten
<1> QED BY <1>3, <1>5, <1>6, <1>7, <1>8, <1>9, <1>10 DEF Next

LEMMA BeatenAlways == Spec => []LookInv
<1>1. SInv /\ LookInv /\ [Next]_vars => LookInv'
  BY NextBeaten
<1>2. Init => LookInv
  BY DEF Init, LookInv
<1> QED BY <1>1, <1>2, SInvAlways, PTL DEF Spec

(* The best of either tier is no less than any of its entries. *)
LEMMA BestBounds ==
    ASSUME SInv, pc = "lookup"
    PROVE  /\ BestGPU \in Nat /\ BestDisk \in Nat
           /\ \A s \in entries : ResumeAt(s, prompt) =< BestGPU
           /\ \A e \in Fresh : ResumeAt(e, prompt) =< BestDisk
<1> DEFINE b == Len(prompt.cells) - 1
           S == {ResumeAt(s, prompt) : s \in entries}
           T == {ResumeAt(e, prompt) : e \in Fresh}
<1>0. StoreGood(entries, writing, disk, fault) /\ prompt \in Prompts
  BY AtLookup
<1>1. b \in Nat
  BY <1>0, PromptParts
<1>2. S \subseteq Nat /\ \A x \in S : x =< b
  BY <1>0, ReachableKnown, ResumeWhere
<1>3. T \subseteq Nat /\ \A x \in T : x =< b
  BY <1>0, ReachableKnown, ResumeWhere
<1>4. BestGPU = Max({0} \cup S) /\ BestDisk = Max({0} \cup T)
  BY DEF BestGPU, BestDisk
<1>5. (\A s \in entries : ResumeAt(s, prompt) \in S) /\ \A e \in Fresh : ResumeAt(e, prompt) \in T
  OBVIOUS
<1> HIDE DEF S, T, b
<1>6. BestGPU \in Nat /\ \A x \in S : x =< BestGPU
  BY <1>1, <1>2, <1>4, GreatestOrZero
<1>7. BestDisk \in Nat /\ \A x \in T : x =< BestDisk
  BY <1>1, <1>3, <1>4, GreatestOrZero
<1> QED BY <1>5, <1>6, <1>7

LEMMA LookupReuses ==
    ASSUME ~MayFail, SInv, pc = "lookup", Lookup
    PROVE  \E n \in Nat : plan'[cur].reused = n /\ BestGPU =< n /\ BestDisk =< n
<1>0. BestGPU \in Nat /\ BestDisk \in Nat
  BY BestBounds
<1>1. ASSUME NEW s, NEW n \in Nat, NEW cut, Checkout(s, n, cut), BestGPU =< n, BestDisk =< n
      PROVE  \E k \in Nat : plan'[cur].reused = k /\ BestGPU =< k /\ BestDisk =< k
  <2>1. cur \in Slots /\ stage[cur] = "acquire"
    BY DEF SInv, PlaceGood
  <2>2. plan[cur] \in PlanType /\ DOMAIN plan = Slots
    BY <2>1, RunningParts, StateParts DEF SlotsGood
  <2>3. \E a, b : plan' = [plan EXCEPT ![cur] =
            [@ EXCEPT !.reused = n, !.agreement = a, !.cut_back = cut, !.boundary = b]]
    BY <1>1, Zenon DEF Checkout
  <2>4. PICK a, b : plan' = [plan EXCEPT ![cur] =
            [@ EXCEPT !.reused = n, !.agreement = a, !.cut_back = cut, !.boundary = b]]
    BY <2>3
  <2>5. plan'[cur].reused = n
    BY <2>1, <2>2, <2>4 DEF PlanType
  <2> QED BY <1>1, <2>5
<1>2. ASSUME NEW s, NEW n \in Nat, NEW d, TakeNew(s, n, d), BestGPU =< n, BestDisk =< n
      PROVE  \E k \in Nat : plan'[cur].reused = k /\ BestGPU =< k /\ BestDisk =< k
  BY <1>1, <1>2 DEF TakeNew
<1>3. ASSUME NEW s, NEW n \in Nat, NEW cut, NEW u, TakeResident(s, n, cut, u),
             BestGPU =< n, BestDisk =< n
      PROVE  \E k \in Nat : plan'[cur].reused = k /\ BestGPU =< k /\ BestDisk =< k
  BY <1>1, <1>3 DEF TakeResident
<1>4. BestGPU =< BestGPU /\ BestDisk =< BestDisk /\ 0 =< 0 /\ 0 \in Nat
  BY <1>0
<1>5. CASE StartFresh
  <2>1. BestGPU = 0 /\ BestDisk = 0 /\ \E s, d : TakeNew(s, 0, d)
    BY <1>5, Zenon DEF StartFresh
  <2> QED BY <1>2, <1>4, <2>1
<1>6. ASSUME NEW s, Extend(s) \/ CutBack(s)
      PROVE  \E k \in Nat : plan'[cur].reused = k /\ BestGPU =< k /\ BestDisk =< k
  <2>1. BestDisk =< BestGPU /\ \E cut, u : TakeResident(s, BestGPU, cut, u)
    BY <1>6, Zenon DEF Extend, CutBack, BestResident
  <2> QED BY <1>0, <1>3, <1>4, <2>1
<1>7. ASSUME NEW s, Fork(s)
      PROVE  \E k \in Nat : plan'[cur].reused = k /\ BestGPU =< k /\ BestDisk =< k
  <2>1. BestDisk =< BestGPU /\ \E u, d : TakeNew(u, BestGPU, d)
    BY <1>7, Zenon DEF Fork, BestResident
  <2> QED BY <1>0, <1>2, <1>4, <2>1
<1>8. ASSUME NEW e, Restore(e)
      PROVE  \E k \in Nat : plan'[cur].reused = k /\ BestGPU =< k /\ BestDisk =< k
  <2>1. BestDisk > BestGPU /\ \E u, d : TakeNew(u, BestDisk, d)
    BY <1>8, Zenon DEF Restore, BestOnDisk
  <2>2. BestGPU =< BestDisk
    BY <1>0, <2>1
  <2> QED BY <1>0, <1>2, <1>4, <2>1, <2>2
<1>9. ASSUME NEW e PROVE ~DropUnreadable(e)
  BY DEF DropUnreadable
<1> QED BY <1>5, <1>6, <1>7, <1>8, <1>9 DEF Lookup

FurthestNow ==
    pc = "lookup" /\ stage'[cur] = "prefill" =>
        \A l \in entries \cup parked \cup Fresh : ResumeAt(l, prompt) =< plan'[cur].reused

LEMMA LookupFurthest ==
    ASSUME ~MayFail, MaxAge = 0, SInv, LookInv, pc = "lookup", Lookup PROVE FurthestNow
<1>1. PICK n \in Nat : plan'[cur].reused = n /\ BestGPU =< n /\ BestDisk =< n
  BY LookupReuses
<1>2. Fresh = disk
  BY DEF Fresh, expire
<1>3. StoreGood(entries, writing, disk, fault) /\ prompt \in Prompts
  BY AtLookup
<1>4. \A l \in entries \cup parked \cup Fresh : ResumeAt(l, prompt) \in Nat
  BY <1>3, ReachableKnown, ResumeWhere
<1>5. BestGPU \in Nat /\ BestDisk \in Nat
  BY BestBounds
<1>6. \A l \in entries \cup Fresh : ResumeAt(l, prompt) =< n
  <2>1. \A s \in entries : ResumeAt(s, prompt) =< BestGPU
    BY BestBounds
  <2>2. \A e \in Fresh : ResumeAt(e, prompt) =< BestDisk
    BY BestBounds
  <2>3. ASSUME NEW k \in Nat, NEW m \in Nat, k =< m, m =< n PROVE k =< n
    BY <2>3
  <2> QED BY <1>1, <1>4, <1>5, <2>1, <2>2, <2>3
<1>7. ASSUME NEW l \in parked PROVE ResumeAt(l, prompt) =< n
  <2>1. writing # None /\ l = writing.session
    BY DEF parked
  <2>2. ResumeAt(l, prompt) \in Nat
    BY <1>4
  <2>3. CASE ResumeAt(l, prompt) = 0
    BY <2>3
  <2>4. ASSUME NEW k \in entries \cup disk, ResumeAt(l, prompt) < ResumeAt(k, prompt)
        PROVE  ResumeAt(l, prompt) =< n
    <3>1. ResumeAt(k, prompt) =< n /\ ResumeAt(k, prompt) \in Nat
      BY <1>2, <1>4, <1>6
    <3> QED BY <2>2, <2>4, <3>1
  <2> QED BY <2>1, <2>3, <2>4 DEF LookInv, Beaten
<1> QED BY <1>1, <1>6, <1>7 DEF FurthestNow

(* Only a checkout makes the request at the lookup one that prefills. *)
LEMMA NextFurthest ==
    ASSUME ~MayFail, MaxAge = 0, SInv, LookInv, [Next]_vars PROVE FurthestNow
<1> SUFFICES ASSUME pc = "lookup", stage'[cur] = "prefill" PROVE FurthestNow
  BY DEF FurthestNow
<1>1. cur \in Slots /\ stage[cur] = "acquire"
  BY DEF SInv, PlaceGood
<1>2. stage' # stage
  BY <1>1
<1>3. ASSUME NewStore PROVE FALSE
  BY <1>1, <1>3 DEF NewStore
<1>4. ASSUME NEW r, Request(r) PROVE FALSE
  <2>1. pc = "idle"
    <3>1. ASSUME NEW p, Acquire(r, p) PROVE pc = "idle"
      BY <3>1 DEF Acquire
    <3>2. ASSUME NEW at, StopPrefill(r, at) PROVE pc = "idle"
      BY <3>2 DEF StopPrefill
    <3>3. ASSUME NEW gen, Answer(r, gen) PROVE pc = "idle"
      BY <3>3 DEF Answer
    <3> QED BY <1>4, <3>1, <3>2, <3>3 DEF Request, StoreDurable, FinishPrefill, Fail
  <2> QED BY <2>1
<1>5. CASE Inside
  <2>1. CASE Lookup
    BY <2>1, LookupFurthest
  <2>2. ASSUME \/ reclaim_for \/ MakeRoom \/ RoomMade \/ Release \/ TrimReleased \/ Released
               \/ NothingToWrite \/ UnloadJoin \/ Reload \/ \E s \in entries : SpillOne(s)
        PROVE  pc # "lookup"
    <3>1. ASSUME NothingToWrite \/ \E s \in entries : SpillOne(s) PROVE pc # "lookup"
      BY <3>1 DEF NothingToWrite, SpillOne
    <3>2. ASSUME reclaim_for \/ Release PROVE pc # "lookup"
      BY <3>2, Zenon DEF reclaim_for, Release
    <3> QED BY <2>2, <3>1, <3>2 DEF MakeRoom, RoomMade, TrimReleased, Released, UnloadJoin, Reload
  <2> QED BY <1>5, <2>1, <2>2 DEF Inside
<1>6. ASSUME \/ CollectAhead \/ (\E s \in Refreshed : StartWrite(s)) \/ WriterEnds
             \/ Unload \/ Fault \/ Tick \/ Terminated \/ UNCHANGED vars
      PROVE  stage' = stage
  <2>1. ASSUME NEW s, StartWrite(s) PROVE stage' = stage
    BY <2>1 DEF StartWrite, reqVars
  <2> QED BY <1>6, <2>1 DEF CollectAhead, WriterEnds, Unload, Fault, Tick, Terminated, vars, reqVars
<1>7. ASSUME Recover \/ Crash PROVE NewStore
  BY <1>7 DEF Recover, Crash
<1> QED BY <1>2, <1>3, <1>4, <1>5, <1>6, <1>7 DEF Next

(* Without an age limit and failing reads, a prompt resumes no earlier than *)
(* the furthest position anything resident, parked or on disk offers it,    *)
(* although acquire decides about the parked session before it looks the    *)
(* rest up (reclaim_for, acquire).  With an age limit this is false.        *)
THEOREM ResumesFurthest == ~MayFail /\ MaxAge = 0 => (Spec => FurthestResume)
<1> SUFFICES ASSUME ~MayFail, MaxAge = 0 PROVE Spec => FurthestResume
  OBVIOUS
<1>1. SInv /\ LookInv /\ [Next]_vars
      => [pc = "lookup" /\ stage'[cur] = "prefill" =>
            \A l \in entries \cup parked \cup Fresh :
                ResumeAt(l, prompt) =< plan'[cur].reused]_vars
  BY NextFurthest DEF FurthestNow
<1> QED BY <1>1, SInvAlways, BeatenAlways, PTL DEF Spec, FurthestResume
-----------------------------------------------------------------------------
(* A lookup takes away at most the entry it consumes, never a durable one. *)

DurablesStay == pc = "lookup" => \A e \in Fresh : e.durable => contains(disk', e.id)

LEMMA TouchContains ==
    ASSUME NEW d, \A e \in d : e \in EntryType, NEW id, NEW t
    PROVE  \A e \in d : contains(touch(d, id, t), e.id)
<1> SUFFICES ASSUME NEW e \in d PROVE contains(touch(d, id, t), e.id)
  OBVIOUS
<1> DEFINE f == IF e.id = id THEN [e EXCEPT !.used = t] ELSE e
<1>1. f \in touch(d, id, t)
  BY DEF touch
<1>2. f.id = e.id
  BY DEF EntryType
<1> HIDE DEF f
<1> QED BY <1>1, <1>2 DEF contains

LEMMA LookupStays ==
    ASSUME ~MayFail, SInv, IInv, Lookup PROVE DurablesStay
<1>1. CASE disk' = Fresh
  BY <1>1 DEF DurablesStay, contains
<1>2. ASSUME NEW s, NEW n, NEW d, TakeNew(s, n, d) PROVE disk' = d
  BY <1>2 DEF TakeNew
<1>3. ASSUME NEW s, NEW n, NEW cut, NEW u, TakeResident(s, n, cut, u) PROVE disk' = Fresh
  BY <1>3 DEF TakeResident
<1>4. CASE StartFresh
  <2>1. \E u, n : TakeNew(u, n, Fresh)
    BY <1>4, Zenon DEF StartFresh
  <2> QED BY <1>1, <1>2, <2>1
<1>5. ASSUME NEW s, Extend(s) \/ CutBack(s) PROVE DurablesStay
  <2>1. \E n, c, u : TakeResident(s, n, c, u)
    BY <1>5, Zenon DEF Extend, CutBack
  <2> QED BY <1>1, <1>3, <2>1
<1>6. ASSUME NEW s, Fork(s) PROVE DurablesStay
  <2>1. \E u, n : TakeNew(u, n, Fresh)
    BY <1>6, Zenon DEF Fork
  <2> QED BY <1>1, <1>2, <2>1
<1>7. ASSUME NEW e, Restore(e) PROVE DurablesStay
  <2>1. e \in Fresh /\ \E u, n :
          TakeNew(u, n, IF forks(e, n) THEN touch(Fresh, e.id, now) ELSE remove(Fresh, e.id))
    BY <1>7, Zenon DEF Restore, BestOnDisk
  <2>2. PICK n : disk' = IF forks(e, n) THEN touch(Fresh, e.id, now) ELSE remove(Fresh, e.id)
    BY <1>2, <2>1
  <2>3. CASE forks(e, n)
    <3>1. pc = "lookup" => \A f \in Fresh : f \in EntryType
      BY AtLookup DEF Tier, Archived, EntryShape
    <3> QED BY <2>2, <2>3, <3>1, TouchContains DEF DurablesStay
  <2>4. CASE ~forks(e, n)
    <3>1. ~e.durable /\ disk' = remove(Fresh, e.id)
      BY <2>2, <2>4 DEF forks
    <3>2. \A f, g \in Fresh : f.id = g.id => f = g
      BY FreshKeeps, IdsDiffer
    <3> QED BY <2>1, <3>1, <3>2 DEF DurablesStay, contains, remove
  <2> QED BY <2>3, <2>4
<1>8. ASSUME NEW e PROVE ~DropUnreadable(e)
  BY DEF DropUnreadable
<1> QED BY <1>4, <1>5, <1>6, <1>7, <1>8 DEF Lookup

LEMMA NextStays == ASSUME ~MayFail, SInv, IInv, [Next]_vars PROVE DurablesStay
<1> SUFFICES ASSUME pc = "lookup" PROVE DurablesStay
  BY DEF DurablesStay
<1>1. CASE disk' = disk \/ disk' = Fresh
  BY <1>1 DEF DurablesStay, contains, Fresh, expire
<1>2. CASE NewStore
  BY <1>1, <1>2 DEF NewStore, Fresh
<1>3. ASSUME NEW r, Request(r) PROVE FALSE
  <2>1. ASSUME NEW p, Acquire(r, p) PROVE pc = "idle"
    BY <2>1 DEF Acquire
  <2>2. ASSUME NEW at, StopPrefill(r, at) PROVE pc = "idle"
    BY <2>2 DEF StopPrefill
  <2>3. ASSUME NEW gen, Answer(r, gen) PROVE pc = "idle"
    BY <2>3 DEF Answer
  <2>4. pc = "idle"
    BY <1>3, <2>1, <2>2, <2>3 DEF Request, StoreDurable, FinishPrefill, Fail
  <2> QED BY <2>4
<1>4. CASE Inside
  <2>1. CASE Lookup
    BY <2>1, LookupStays
  <2>2. ASSUME NothingToWrite \/ \E s \in entries : SpillOne(s) PROVE FALSE
    BY <2>2 DEF NothingToWrite, SpillOne
  <2>3. ASSUME reclaim_for \/ Release PROVE FALSE
    BY <2>3, Zenon DEF reclaim_for, Release
  <2> QED BY <1>4, <2>1, <2>2, <2>3
          DEF Inside, MakeRoom, RoomMade, TrimReleased, Released, UnloadJoin, Reload
<1>5. CASE WriterEnds \/ Fault \/ Tick \/ Terminated \/ UNCHANGED vars
  BY <1>1, <1>5 DEF WriterEnds, Fault, Tick, Terminated, vars, storeVars
<1>6. ASSUME CollectAhead \/ Unload PROVE FALSE
  BY <1>6 DEF CollectAhead, Unload
<1>7. ASSUME NEW s, StartWrite(s) PROVE FALSE
  BY <1>7 DEF StartWrite
<1>8. CASE Recover \/ Crash
  BY <1>2, <1>8 DEF Recover, Crash
<1> QED BY <1>3, <1>4, <1>5, <1>6, <1>7, <1>8 DEF Next

(* Without failing reads a lookup, or anything that happens during one,     *)
(* leaves every durable entry that has not expired (acquire_from_disk).     *)
THEOREM DurablesSurvive == ~MayFail => (Spec => DurableSurvivesHits)
<1> SUFFICES ASSUME ~MayFail PROVE Spec => DurableSurvivesHits
  OBVIOUS
<1>1. SInv /\ IInv /\ [Next]_vars
      => [pc = "lookup" => \A e \in Fresh : e.durable => contains(disk', e.id)]_vars
  BY NextStays DEF DurablesStay
<1> QED BY <1>1, SInvAlways, Invariance, PTL DEF Spec, DurableSurvivesHits
=============================================================================
