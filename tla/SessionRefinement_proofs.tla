---------------------- MODULE SessionRefinement_proofs ----------------------
(***************************************************************************)
(* SessionStore implements PromptCache: what the requests see of the tiers,*)
(* the write ahead, the forks and the restarts is a cache of prefixes.     *)
(*                                                                         *)
(* The store's steps only move what it knows (Comes), a request adds what  *)
(* it computed, and a lookup starts from the longest state there is: a     *)
(* state the abstract cache offers is one resume_position finds, because   *)
(* what a lineage holds comes from a prompt (FromPrompt) and an image that *)
(* two prompts share in part they share (Offers).                          *)
(***************************************************************************)
EXTENDS SessionRefinement, SessionSafety_proofs
-----------------------------------------------------------------------------
(* What the store knows, moved. *)

KeptOf(H, d) == {c.rec : c \in UNION {l.ckpts : l \in H \cup d}} \cup {s.rec : s \in H}

SameState(t, s) == /\ t.kv = s.kv /\ t.rec = s.rec /\ t.ckpts = s.ckpts
                   /\ t.images = s.images
SameFile(f, e)  == f.kv = e.kv /\ f.ckpts = e.ckpts /\ f.images = e.images
CopyOf(f, s)    == f.kv = s.kv /\ f.ckpts = PlanOf(s) /\ f.images = s.images

FileOf(f, H, d) == (\E e \in d : SameFile(f, e)) \/ \E s \in H : CopyOf(f, s)

(* Sessions H2 and entries d2 come from the sessions H and the entries d. *)
Comes(H2, d2, H, d) ==
    /\ \A t \in H2 : \E s \in H : SameState(t, s)
    /\ \A f \in d2 : FileOf(f, H, d)

(* The cells are the beginning of the prompt, and text behind it. *)
Wrote(kv, p) ==
    \A k \in 1 .. Len(kv) : IF k =< Len(p.cells) THEN kv[k] = p.cells[k] ELSE kv[k] \in Text

FromPrompt(l) ==
    \E p \in Prompts : l.images = images_within(p.images, Len(l.kv)) /\ Wrote(l.kv, p)

AllFromPrompts(H, d) == \A l \in H \cup d : FromPrompt(l)

LEMMA PlannedKept ==
    ASSUME NEW s, NEW c \in PlanOf(s)
    PROVE  c.rec = s.rec \/ \E k \in s.ckpts : c.rec = k.rec
BY DEF PlanOf

LEMMA ComesKept ==
    ASSUME NEW H2, NEW d2, NEW H, NEW d, Comes(H2, d2, H, d)
    PROVE  KeptOf(H2, d2) \subseteq KeptOf(H, d)
<1> SUFFICES ASSUME NEW x \in KeptOf(H2, d2) PROVE x \in KeptOf(H, d)
  OBVIOUS
<1>1. ASSUME NEW s \in H, NEW c \in s.ckpts PROVE c.rec \in KeptOf(H, d)
  BY DEF KeptOf
<1>2. ASSUME NEW e \in d, NEW c \in e.ckpts PROVE c.rec \in KeptOf(H, d)
  BY DEF KeptOf
<1>3. ASSUME NEW s \in H PROVE s.rec \in KeptOf(H, d)
  BY DEF KeptOf
<1>4. ASSUME NEW t \in H2, x = t.rec \/ \E c \in t.ckpts : x = c.rec PROVE x \in KeptOf(H, d)
  <2>1. PICK s \in H : SameState(t, s)
    BY DEF Comes
  <2> QED BY <1>1, <1>3, <1>4, <2>1 DEF SameState
<1>5. ASSUME NEW f \in d2, NEW c \in f.ckpts, x = c.rec PROVE x \in KeptOf(H, d)
  <2>1. CASE \E e \in d : SameFile(f, e)
    BY <1>2, <1>5, <2>1 DEF SameFile
  <2>2. ASSUME NEW s \in H, CopyOf(f, s) PROVE x \in KeptOf(H, d)
    <3>1. c \in PlanOf(s)
      BY <2>2 DEF CopyOf
    <3>2. x = s.rec \/ \E k \in s.ckpts : x = k.rec
      BY <1>5, <3>1, PlannedKept
    <3> QED BY <1>1, <1>3, <3>2
  <2> QED BY <2>1, <2>2 DEF Comes, FileOf
<1>6. \/ \E t \in H2 : x = t.rec \/ \E c \in t.ckpts : x = c.rec
      \/ \E f \in d2 : \E c \in f.ckpts : x = c.rec
  BY DEF KeptOf
<1> QED BY <1>4, <1>5, <1>6

LEMMA SameFrom ==
    ASSUME NEW l, FromPrompt(l), NEW u, u.kv = l.kv, u.images = l.images
    PROVE  FromPrompt(u)
BY DEF FromPrompt

LEMMA ComesFrom ==
    ASSUME NEW H2, NEW d2, NEW H, NEW d, Comes(H2, d2, H, d), AllFromPrompts(H, d)
    PROVE  AllFromPrompts(H2, d2)
<1>1. ASSUME NEW t \in H2 PROVE FromPrompt(t)
  <2>1. PICK s \in H : SameState(t, s)
    BY DEF Comes
  <2> QED BY <2>1, SameFrom DEF AllFromPrompts, SameState
<1>2. ASSUME NEW f \in d2 PROVE FromPrompt(f)
  <2>1. CASE \E e \in d : SameFile(f, e)
    BY <2>1, SameFrom DEF AllFromPrompts, SameFile
  <2>2. CASE \E s \in H : CopyOf(f, s)
    BY <2>2, SameFrom DEF AllFromPrompts, CopyOf
  <2> QED BY <2>1, <2>2 DEF Comes, FileOf
<1> QED BY <1>1, <1>2 DEF AllFromPrompts

(* Fewer sessions and entries. *)
LEMMA FewerCome ==
    ASSUME NEW H2, NEW d2, NEW H, NEW d, H2 \subseteq H, d2 \subseteq d
    PROVE  Comes(H2, d2, H, d)
BY DEF Comes, FileOf, SameState, SameFile

LEMMA TouchComes ==
    ASSUME NEW d, NEW f, NEW id, NEW t, f \in touch(d, id, t), \A e \in d : e \in EntryType
    PROVE  \E e \in d : SameFile(f, e)
<1>1. PICK e \in d : f = e \/ f = [e EXCEPT !.used = t]
  BY DEF touch
<1>2. e \in EntryType
  OBVIOUS
<1>3. SameFile(f, e)
  BY <1>1, <1>2 DEF SameFile, EntryType
<1> QED BY <1>3

LEMMA EntryIsCopy == \A s, id : CopyOf(NewEntry(s, id), s)
BY DEF NewEntry, CopyOf
-----------------------------------------------------------------------------
(* The moves of the store. *)

Sessions == entries \cup parked

LEMMA EvictComes ==
    ASSUME NEW s, NEW d, Tier(d), evict(s, d), NEW f \in disk'
    PROVE  (\E e \in d : SameFile(f, e)) \/ CopyOf(f, s)
<1>1. CASE disk' = touch(d, s.disk[2], now)
  <2>1. \A e \in d : e \in EntryType
    BY DEF Tier, Archived, EntryShape
  <2> QED BY <1>1, <2>1, TouchComes
<1>2. CASE disk' \in Stored(expire(d, now), NewEntry(s, next_id))
  <2>1. disk' \subseteq expire(d, now) \cup {NewEntry(s, next_id)}
    BY <1>2, StoredWithin
  <2>2. expire(d, now) \subseteq d
    BY DEF expire
  <2>3. f \in d \/ f = NewEntry(s, next_id)
    BY <2>1, <2>2
  <2> QED BY <2>3, EntryIsCopy DEF SameFile
<1>3. CASE disk' = d
  BY <1>3 DEF SameFile
<1> QED BY <1>1, <1>2, <1>3, Zenon DEF evict

LEMMA FinishComes ==
    ASSUME StoreGood(entries, writing, disk, fault), writing # None, NEW o \in finish_write
    PROVE  /\ SameState(o.session, writing.session)
           /\ \A f \in o.disk : (\E e \in disk : SameFile(f, e)) \/ CopyOf(f, writing.session)
<1> DEFINE w == writing.session
           n == NewEntry(w, writing.id)
<1>1. w \in SessionType
  BY DEF StoreGood, WriteType
<1>2. ASSUME NEW c, NEW u, u = [w EXCEPT !.disk = c] PROVE SameState(u, w)
  BY <1>1, <1>2, CopyElse DEF SameState
<1>3. ASSUME NEW d2, d2 \subseteq disk \cup {n}, NEW f \in d2
      PROVE  (\E e \in disk : SameFile(f, e)) \/ CopyOf(f, w)
  <2>1. f \in disk \/ f = n
    BY <1>3
  <2> QED BY <2>1, EntryIsCopy DEF SameFile
<1>4. \/ o = [session |-> [w EXCEPT !.disk = Refused], disk |-> disk]
      \/ \E spare : \E d2 \in commit(disk, n, spare) :
            o = [session |-> [w EXCEPT !.disk = IF contains(d2, writing.id)
                                                THEN Written(writing.id) ELSE Refused],
                 disk |-> d2]
  BY Zenon DEF finish_write
<1> HIDE DEF n, w
<1>5. \E c : o.session = [w EXCEPT !.disk = c]
  <2>1. CASE o = [session |-> [w EXCEPT !.disk = Refused], disk |-> disk]
    <3>1. o.session = [w EXCEPT !.disk = Refused]
      BY <2>1
    <3> QED BY <3>1
  <2>2. ASSUME NEW d2, NEW c, o = [session |-> [w EXCEPT !.disk = c], disk |-> d2]
        PROVE  \E k : o.session = [w EXCEPT !.disk = k]
    <3>1. o.session = [w EXCEPT !.disk = c]
      BY <2>2
    <3> QED BY <3>1
  <2> QED BY <1>4, <2>1, <2>2
<1>6. o.disk \subseteq disk \cup {n}
  <2>1. CASE o.disk = disk
    BY <2>1
  <2>2. ASSUME NEW spare, NEW d2 \in commit(disk, n, spare), o.disk = d2
        PROVE  o.disk \subseteq disk \cup {n}
    BY <2>2, CommitWithin
  <2> QED BY <1>4, <2>1, <2>2
<1> QED BY <1>2, <1>3, <1>5, <1>6 DEF w

LEMMA CollectComes ==
    ASSUME StoreGood(entries, writing, disk, fault), collect_finished
    PROVE  Comes(Sessions', disk', Sessions, disk)
<1>1. CASE finished
  <2>1. PICK o \in finish_write : entries' = entries \cup {o.session} /\ disk' = o.disk
    BY <1>1 DEF collect_finished
  <2>2. writing # None /\ writing' = None
    BY <1>1 DEF collect_finished, finished
  <2>3. Sessions' = entries \cup {o.session} /\ Sessions = entries \cup {writing.session}
    BY <2>1, <2>2 DEF Sessions, parked
  <2>4. /\ SameState(o.session, writing.session)
        /\ \A f \in o.disk : (\E e \in disk : SameFile(f, e)) \/ CopyOf(f, writing.session)
    BY <2>2, FinishComes
  <2> QED BY <2>1, <2>3, <2>4 DEF Comes, FileOf, SameState
<1>2. CASE ~finished
  <2>1. Sessions' = Sessions /\ disk' = disk
    BY <1>2 DEF collect_finished, Sessions, parked
  <2> QED BY <2>1, FewerCome
<1> QED BY <1>1, <1>2

LEMMA LruComes ==
    ASSUME StoreGood(entries, writing, disk, fault), evict_lru, now \in Nat
    PROVE  Comes(Sessions', disk', Sessions, disk)
<1>1. CASE /\ writing # None /\ writing' = None /\ entries' = entries
           /\ \E o \in finish_write : evict(o.session, o.disk)
  <2>1. PICK o \in finish_write : evict(o.session, o.disk)
    BY <1>1
  <2>2. /\ SameState(o.session, writing.session)
        /\ \A f \in o.disk : (\E e \in disk : SameFile(f, e)) \/ CopyOf(f, writing.session)
    BY <1>1, FinishComes
  <2>3. Tier(o.disk)
    BY <1>1, FinishGood
  <2>4. Sessions' \subseteq Sessions /\ writing.session \in Sessions
    BY <1>1 DEF Sessions, parked
  <2>5. ASSUME NEW f \in disk' PROVE FileOf(f, Sessions, disk)
    <3>1. CASE CopyOf(f, o.session)
      <4>0. Len(o.session.tokens) = Len(writing.session.tokens)
        <5>1. Home(o.session, FALSE)
          BY <1>1, <2>1, FinishGood
        <5>2. Home(writing.session, FALSE)
          BY <1>1 DEF StoreGood
        <5> QED BY <2>2, <5>1, <5>2 DEF Home, HomeShape, SameState
      <4>1. PlanOf(o.session) = PlanOf(writing.session)
        BY <2>2, <4>0 DEF SameState, PlanOf
      <4>2. CopyOf(f, writing.session)
        BY <2>2, <3>1, <4>1 DEF CopyOf, SameState
      <4> QED BY <2>4, <4>2 DEF FileOf
    <3>2. ASSUME NEW e \in o.disk, SameFile(f, e) PROVE FileOf(f, Sessions, disk)
      BY <2>2, <2>4, <3>2 DEF FileOf, SameFile, CopyOf
    <3> QED BY <2>1, <2>3, <3>1, <3>2, EvictComes
  <2> QED BY <2>4, <2>5 DEF Comes, SameState
<1>2. CASE \E s \in entries : evict(s, disk) /\ entries' = entries \ {s} /\ writing' = writing
  <2>1. PICK s \in entries : evict(s, disk) /\ entries' = entries \ {s} /\ writing' = writing
    BY <1>2
  <2>2. Tier(disk)
    BY DEF StoreGood, Tier
  <2>3. Sessions' \subseteq Sessions /\ s \in Sessions
    BY <2>1 DEF Sessions, parked
  <2>4. \A f \in disk' : FileOf(f, Sessions, disk)
    BY <2>1, <2>2, <2>3, EvictComes DEF FileOf
  <2> QED BY <2>3, <2>4 DEF Comes, SameState
<1> QED BY <1>1, <1>2 DEF evict_lru

LEMMA ReclaimComes == ASSUME SInv, reclaim_for PROVE Comes(Sessions', disk', Sessions, disk)
<1>1. /\ disk' = disk
      /\ \/ /\ writing # None /\ writing' = None
            /\ entries' = entries \cup {[writing.session EXCEPT !.disk = NoCopy]}
         \/ UNCHANGED <<entries, writing>>
  BY Zenon DEF reclaim_for
<1>2. CASE /\ writing # None /\ writing' = None
           /\ entries' = entries \cup {[writing.session EXCEPT !.disk = NoCopy]}
  <2> DEFINE w == writing.session
             u == [w EXCEPT !.disk = NoCopy]
  <2>1. w \in SessionType
    BY <1>2, StateParts DEF StoreGood, WriteType
  <2>2. SameState(u, w)
    BY <2>1, CopyElse DEF SameState
  <2>3. Sessions' = entries \cup {u} /\ Sessions = entries \cup {w}
    BY <1>2 DEF Sessions, parked
  <2> HIDE DEF u, w
  <2> QED BY <1>1, <2>2, <2>3 DEF Comes, FileOf, SameFile, SameState
<1>3. CASE UNCHANGED <<entries, writing>>
  <2>1. Sessions' = Sessions
    BY <1>3 DEF Sessions, parked
  <2> QED BY <1>1, <2>1, FewerCome
<1> QED BY <1>1, <1>2, <1>3

LEMMA RefreshedSame ==
    ASSUME StoreGood(entries, writing, disk, fault), NEW t \in Refreshed
    PROVE  \E s \in entries : SameState(t, s)
<1>1. PICK s \in entries : t = s \/ t = [s EXCEPT !.disk = NoCopy]
  BY DEF Refreshed
<1>2. s \in SessionType
  BY DEF StoreGood, Home, HomeShape, SessionShape
<1>3. SameState(t, s)
  BY <1>1, <1>2, CopyElse DEF SameState
<1> QED BY <1>3

LEMMA NothingToWriteComes ==
    ASSUME SInv, NothingToWrite PROVE Comes(Sessions', disk', Sessions, disk)
<1>1. entries' = Refreshed /\ writing' = writing /\ disk' = disk
  BY DEF NothingToWrite
<1>2. Sessions' = Refreshed \cup parked /\ Sessions = entries \cup parked
  BY <1>1 DEF Sessions, parked
<1> QED BY <1>1, <1>2, StateParts, RefreshedSame DEF Comes, FileOf, SameFile, SameState

LEMMA StartWriteComes ==
    ASSUME SInv, NEW s \in Refreshed, StartWrite(s) PROVE Comes(Sessions', disk', Sessions, disk)
<1> DEFINE u == [s EXCEPT !.disk = Refused]
           w == [session |-> s, id |-> next_id, phase |-> "running"]
<1>0. expire(disk, now) \subseteq disk
  BY DEF expire
<1>1. /\ disk' \subseteq disk
      /\ \/ entries' = Refreshed \ {s} /\ writing' = w
         \/ entries' = (Refreshed \ {s}) \cup {u} /\ writing' = writing
         \/ entries' = Refreshed /\ writing' = writing
  BY <1>0 DEF StartWrite
<1>2. Home(s, fault)
  BY StateParts, RefreshedHome
<1>3. SameState(u, s)
  <2>1. s \in SessionType
    BY <1>2 DEF Home, HomeShape, SessionShape
  <2> QED BY <2>1, CopyElse DEF SameState
<1>4. w.session = s
  OBVIOUS
<1> HIDE DEF u, w
<1>5. Sessions' \subseteq Refreshed \cup {u} \cup parked
  BY <1>1, <1>4 DEF Sessions, parked
<1>6. ASSUME NEW t \in Refreshed \cup {u} \cup parked PROVE \E k \in Sessions : SameState(t, k)
  <2>1. CASE t \in parked
    BY <2>1 DEF Sessions, SameState
  <2>2. CASE t \in Refreshed
    BY <2>2, StateParts, RefreshedSame DEF Sessions
  <2>3. CASE t = u
    BY <1>3, <2>3, StateParts, RefreshedSame DEF Sessions, SameState
  <2> QED BY <1>6, <2>1, <2>2, <2>3
<1> QED BY <1>1, <1>5, <1>6 DEF Comes, FileOf, SameFile
-----------------------------------------------------------------------------
(* What a lineage offers a prompt. *)

LEMMA CommonReaches ==
    ASSUME NEW A, NEW a \in Seq(A), NEW B, NEW b \in Seq(B), NEW n \in Nat,
           n =< Len(a), n =< Len(b), Agree(a, b, n)
    PROVE  n =< common_prefix_len(a, b) /\ common_prefix_len(a, b) \in Nat
<1> DEFINE m == Min({Len(a), Len(b)})
           S == {k \in 0 .. m : \A i \in 1 .. k : a[i] = b[i]}
<1>0. Len(a) \in Nat /\ Len(b) \in Nat
  BY LenProperties
<1>1. m \in Nat /\ n =< m
  BY <1>0, LeastOfTwo
<1>2. common_prefix_len(a, b) = Max(S)
  BY DEF common_prefix_len
<1> HIDE DEF m
<1>3. S \subseteq Nat /\ n \in S /\ \A x \in S : x =< m
  BY <1>1 DEF Agree
<1> HIDE DEF S
<1>4. Max(S) \in S /\ \A x \in S : x =< Max(S)
  BY <1>1, <1>3, Greatest
<1> QED BY <1>2, <1>3, <1>4

LEMMA SharedReaches ==
    ASSUME NEW A, NEW a \in Seq(A), NEW ia \in SUBSET SpanType,
           NEW B, NEW b \in Seq(B), NEW ib \in SUBSET SpanType,
           NEW n \in Nat, n =< Len(a), n =< Len(b), Agree(a, b, n),
           \A i \in ia : i \notin ib => n =< i.start,
           \A i \in ib : i \notin ia => n =< i.start
    PROVE  n =< shared_prefix(a, ia, b, ib)
<1> DEFINE c == common_prefix_len(a, b)
           S == {c} \cup {i.start : i \in SymDiff(ia, ib)}
<1>1. n =< c /\ c \in Nat
  BY CommonReaches
<1>2. shared_prefix(a, ia, b, ib) = Min(S)
  BY DEF shared_prefix
<1> HIDE DEF c
<1>3. S \subseteq Nat /\ S # {} /\ \A x \in S : n =< x
  BY <1>1 DEF SymDiff, SpanType
<1> HIDE DEF S
<1>4. Min(S) \in S
  BY <1>3, Least
<1> QED BY <1>2, <1>3, <1>4

LEMMA ResumeReaches ==
    ASSUME NEW l, Known(l), NEW p \in Prompts, NEW n \in Nat,
           n =< SharedWith(l, p), n < Len(p.cells),
           n = Len(l.tokens) \/ \E c \in l.ckpts : c.pos = n
    PROVE  n =< ResumeAt(l, p)
<1> DEFINE sp == SharedWith(l, p)
           m == Min({sp, Len(tokens(p)) - 1})
           S == {k \in Positions(l) \cup {Len(l.tokens)} : k =< m}
<1>1. /\ Len(tokens(p)) = Len(p.cells) /\ Len(p.cells) \in Nat \ {0} /\ sp \in Nat
      /\ l.tokens \in Seq(Token) /\ Len(l.tokens) \in Nat
  BY PromptParts, SharedIs, LenProperties DEF Known
<1>2. ResumeAt(l, p) = Max({0} \cup S)
  BY DEF ResumeAt, resume_position, SharedWith
<1>3. sp \in Nat /\ Len(tokens(p)) - 1 \in Nat /\ n =< sp /\ n =< Len(tokens(p)) - 1
  BY <1>1
<1> HIDE DEF sp
<1>4. m \in Nat /\ n =< m
  <2> DEFINE b == Len(tokens(p)) - 1
  <2>1. sp \in Nat /\ b \in Nat /\ n =< sp /\ n =< b
    BY <1>3
  <2> HIDE DEF b
  <2>2. Min({sp, b}) \in Nat /\ n =< Min({sp, b})
    BY <2>1, LeastOfTwo
  <2> QED BY <2>2 DEF b
<1> HIDE DEF m
<1>5. S \subseteq Nat /\ (\A x \in S : x =< m) /\ n \in S
  <2>1. Positions(l) \subseteq Nat
    BY DEF Known, Positions
  <2>2. n \in Positions(l) \cup {Len(l.tokens)}
    BY DEF Positions
  <2> QED BY <1>1, <1>4, <2>1, <2>2
<1> HIDE DEF S
<1> QED BY <1>2, <1>4, <1>5, GreatestOrZero

(* Where an image begins, text ends; equal images are equally long. *)
LEMMA PromptFrames ==
    ASSUME NEW p \in Prompts
    PROVE  \A i \in p.images : /\ i.start \in Nat /\ i.len \in Nat \ {0} /\ i.digest \in Images
                               /\ End(i) = i.start + i.len /\ i \in SpanType
                               /\ i.start > 0 => p.cells[i.start] \in Text
<1>1. IsPrompt(p) /\ p.images \in SUBSET SpanType
  BY RequestsAssumption, PromptParts
<1> QED BY <1>1 DEF IsPrompt, SpanType, End

LEMMA SpanEqual ==
    ASSUME NEW i \in SpanType, NEW j \in SpanType, i.start = j.start, i.len = j.len,
           i.digest = j.digest
    PROVE  i = j
BY DEF SpanType

(* Two prompts with the same cells up to within an image share the image.  *)
LEMMA SameImage ==
    ASSUME NEW p \in Prompts, NEW q \in Prompts, NEW i \in p.images, NEW n \in Nat,
           i.start < n, n =< Len(p.cells), n =< Len(q.cells),
           \A k \in 1 .. n : p.cells[k] = q.cells[k]
    PROVE  i \in q.images
<1> DEFINE k == i.start + 1
<1>1. /\ i.start \in Nat /\ i.len \in Nat \ {0} /\ i.digest \in Images
      /\ End(i) = i.start + i.len /\ i \in SpanType /\ (i.start > 0 => p.cells[i.start] \in Text)
  BY PromptFrames
<1>2. k \in 1 .. n /\ k \in i.start + 1 .. End(i) /\ Len(q.cells) \in Nat
  BY <1>1, PromptParts
<1>3. p.cells[k] = i.digest /\ q.cells[k] = i.digest
  BY <1>2, PromptImages
<1>4. k \in 1 .. Len(q.cells)
  BY <1>2
<1>5. PICK j \in q.images : j.start < k /\ k =< End(j)
  BY <1>1, <1>3, <1>4, PromptImages
<1>6. /\ j.start \in Nat /\ j.len \in Nat \ {0} /\ j \in SpanType /\ End(j) = j.start + j.len
      /\ j.digest \in Images /\ (j.start > 0 => q.cells[j.start] \in Text)
  BY PromptFrames
<1>7. q.cells[k] = j.digest
  <2>1. k \in j.start + 1 .. End(j)
    BY <1>1, <1>5, <1>6
  <2> QED BY <2>1, PromptImages
<1>8. i.digest = j.digest /\ i.len = j.len
  <2>1. i.digest = j.digest
    BY <1>3, <1>7
  <2>2. \A a \in p.images, b \in q.images : a.digest = b.digest => a.len = b.len
    BY DigestAssumption
  <2> QED BY <2>1, <2>2
<1>9. i.start = j.start
  <2> SUFFICES ASSUME j.start < i.start PROVE FALSE
    BY <1>1, <1>5, <1>6
  <2>1. i.start \in 1 .. n /\ i.start \in j.start + 1 .. End(j)
    BY <1>1, <1>5, <1>6
  <2>2. q.cells[i.start] = j.digest /\ p.cells[i.start] = q.cells[i.start]
    BY <2>1, PromptImages
  <2>3. p.cells[i.start] \in Text
    BY <1>1, <2>1
  <2> QED BY <1>6, <2>2, <2>3, PadAssumption
<1> QED BY <1>1, <1>6, <1>8, <1>9, SpanEqual

(* What a lineage computed of a prompt, not ending within one of its       *)
(* images, is found: a resume position as far as that.                     *)
LEMMA Offers ==
    ASSUME NEW l, Known(l), l.kv \in Seq(CellType), Len(l.tokens) = Len(l.kv), Sound(l),
           FromPrompt(l), NEW p \in Prompts, NEW n \in Nat, n =< Len(l.kv), n < Len(p.cells),
           n = Len(l.tokens) \/ \E c \in l.ckpts : c.pos = n,
           \A k \in 1 .. n : l.kv[k] = p.cells[k],
           n = 0 \/ ~({p.cells[n], p.cells[n + 1]} \subseteq Images)
    PROVE  n =< ResumeAt(l, p)
<1>1. PICK q \in Prompts : l.images = images_within(q.images, Len(l.kv)) /\ Wrote(l.kv, q)
  BY DEF FromPrompt
<1>2. /\ Len(p.cells) \in Nat /\ p.cells \in Seq(Cell) /\ tokens(p) \in Seq(Token)
      /\ Len(tokens(p)) = Len(p.cells) /\ p.images \in SUBSET SpanType
      /\ \A k \in 1 .. Len(p.cells) : tokens(p)[k] = Tok(p.cells[k])
  BY PromptParts
<1>3. Len(l.kv) \in Nat /\ l.tokens \in Seq(Token) /\ l.images \in SUBSET SpanType
  BY LenProperties DEF Known
<1>4. Len(q.cells) \in Nat /\ q.images \in SUBSET SpanType
  BY PromptParts
<1>5. Agree(l.tokens, tokens(p), n)
  <2>1. \A k \in 1 .. Len(l.kv) : l.tokens[k] = Tok(l.kv[k])
    BY <1>3, TokensMean DEF Sound
  <2> SUFFICES ASSUME NEW k \in 1 .. n PROVE l.tokens[k] = tokens(p)[k]
    BY DEF Agree
  <2>2. k \in 1 .. Len(l.kv) /\ k \in 1 .. Len(p.cells)
    BY <1>2, <1>3
  <2> QED BY <1>2, <2>1, <2>2
<1>6. ASSUME NEW k \in 1 .. n, k =< Len(q.cells) PROVE p.cells[k] = q.cells[k]
  <2>1. k \in 1 .. Len(l.kv)
    BY <1>3
  <2> QED BY <1>1, <1>6, <2>1 DEF Wrote
<1>7. ASSUME NEW k \in 1 .. n, p.cells[k] \in Images PROVE k =< Len(q.cells)
  <2>1. k \in 1 .. Len(l.kv) /\ l.kv[k] \in Images
    BY <1>3, <1>7
  <2> QED BY <1>1, <2>1, PadAssumption DEF Wrote
<1>8. ASSUME NEW i \in l.images, i \notin p.images, i.start < n PROVE FALSE
  <2>1. i \in q.images /\ End(i) =< Len(l.kv)
    BY <1>1, <1>8 DEF images_within
  <2>2. /\ i.start \in Nat /\ i.len \in Nat \ {0} /\ End(i) = i.start + i.len
        /\ i.digest \in Images
    BY <2>1, PromptFrames
  <2> DEFINE m == i.start + 1
  <2>3. m \in 1 .. n /\ m \in i.start + 1 .. End(i) /\ End(i) < Len(q.cells)
    <3>1. End(i) < Len(q.cells)
      BY <2>1, PromptImages
    <3>2. i.start + 1 \in 1 .. n
      BY <1>8, <2>2
    <3>3. i.start + 1 \in i.start + 1 .. End(i)
      BY <2>2
    <3> QED BY <3>1, <3>2, <3>3
  <2>4. m =< Len(q.cells) /\ m =< Len(p.cells) /\ m \in Nat
    BY <1>2, <1>4, <2>2, <2>3
  <2>5. \A k \in 1 .. m : p.cells[k] = q.cells[k]
    <3> TAKE k \in 1 .. m
    <3>1. k \in 1 .. n /\ k =< Len(q.cells)
      BY <1>4, <2>3, <2>4
    <3> QED BY <1>6, <3>1
  <2>6. i.start < m
    BY <2>2
  <2> HIDE DEF m
  <2>7. i \in p.images
    BY <2>1, <2>4, <2>5, <2>6, SameImage
  <2> QED BY <1>8, <2>7
<1>9. ASSUME NEW i \in p.images, i \notin l.images, i.start < n PROVE FALSE
  <2>1. /\ i.start \in Nat /\ i.len \in Nat \ {0} /\ End(i) = i.start + i.len
        /\ i.digest \in Images
    BY PromptFrames
  <2>2. \A k \in i.start + 1 .. End(i) : p.cells[k] = i.digest
    BY PromptImages
  <2>3. End(i) =< n
    <3> SUFFICES ASSUME n < End(i) PROVE FALSE
      BY <2>1
    <3>1. n \in i.start + 1 .. End(i) /\ n + 1 \in i.start + 1 .. End(i)
      BY <1>9, <2>1
    <3>2. p.cells[n] \in Images /\ p.cells[n + 1] \in Images
      BY <2>1, <2>2, <3>1
    <3>3. n # 0
      BY <1>9, <2>1
    <3> QED BY <3>2, <3>3
  <2> DEFINE m == i.start + 1
  <2>4. m \in 1 .. n /\ m \in i.start + 1 .. End(i)
    BY <1>9, <2>1
  <2>5. m =< Len(q.cells) /\ m =< Len(p.cells) /\ m \in Nat
    <3>1. m \in Nat /\ m =< n /\ m =< Len(p.cells)
      BY <1>2, <2>1, <2>4
    <3>2. p.cells[m] \in Images
      BY <2>1, <2>2, <2>4
    <3> HIDE DEF m
    <3> QED BY <1>7, <2>4, <3>1, <3>2
  <2>6. \A k \in 1 .. m : p.cells[k] = q.cells[k]
    <3> TAKE k \in 1 .. m
    <3>1. k \in 1 .. n /\ k =< Len(q.cells)
      BY <1>4, <2>4, <2>5
    <3> QED BY <1>6, <3>1
  <2>7. i.start < m
    BY <2>1
  <2> HIDE DEF m
  <2>8. i \in q.images
    BY <2>5, <2>6, <2>7, SameImage
  <2>9. End(i) =< Len(l.kv)
    BY <1>3, <2>1, <2>3
  <2> QED BY <1>1, <1>9, <2>8, <2>9 DEF images_within
<1>10. n =< SharedWith(l, p)
  <2>1. \A i \in l.images : i \notin p.images => n =< i.start
    BY <1>3, <1>8, SpanEnds
  <2>2. \A i \in p.images : i \notin l.images => n =< i.start
    BY <1>2, <1>9, SpanEnds
  <2>3. n =< Len(l.tokens) /\ n =< Len(tokens(p))
    BY <1>2
  <2> QED BY <1>2, <1>3, <1>5, <2>1, <2>2, <2>3, SharedReaches DEF SharedWith
<1> QED BY <1>10, ResumeReaches
-----------------------------------------------------------------------------
(* The abstract cache, seen from the store's variables. *)

RunsOf(se, pl) ==
    [r \in Slots |-> IF se[r] = NoSession THEN None
                     ELSE [prompt |-> pl[r].prompt.cells, done |-> se[r].rec]]

LEMMA KeptIs ==
    KeptStates = KeptOf(Sessions, disk) /\ KeptStates' = KeptOf(Sessions', disk')
BY DEF KeptStates, KeptOf, Sessions

LEMMA RunningIs ==
    RunningRequests = RunsOf(session, plan) /\ RunningRequests' = RunsOf(session', plan')
BY DEF RunningRequests, RunsOf

(* Nothing runs without a session, and what a request leaves behind is its *)
(* prompt and text.                                                        *)
SlotFrom(st, s, q) ==
    /\ st \in {"none", "acquire"} => s = NoSession
    /\ st = "release" => Wrote(s.kv, q.prompt)

RInv ==
    /\ ~fault /\ AllFromPrompts(Sessions, disk)
    /\ \A r \in Slots : SlotFrom(stage[r], session[r], plan[r])

LEMMA NoRecord ==
    ASSUME NEW c \in Seq(Cell), NEW d \in Seq(CellType)
    PROVE  [prompt |-> c, done |-> d] # None
BY IdleAssumption

(* A step of the store that only moves what it knows. *)
LEMMA QuietStep ==
    ASSUME RInv, Comes(Sessions', disk', Sessions, disk), UNCHANGED <<session, plan, stage, fault>>
    PROVE  RInv' /\ Cache!Next
<1>1. AllFromPrompts(Sessions', disk') /\ KeptOf(Sessions', disk') \subseteq KeptOf(Sessions, disk)
  BY ComesFrom, ComesKept DEF RInv
<1>2. RInv'
  BY <1>1 DEF RInv
<1>3. Cache!Forget
  BY <1>1, KeptIs, RunningIs DEF Cache!Forget
<1> QED BY <1>2, <1>3 DEF Cache!Next

(* The others run on. *)
LEMMA OthersRun ==
    ASSUME NEW r \in Slots, DOMAIN session = Slots, NEW u, session' = [session EXCEPT ![r] = u],
           \A q \in Slots \ {r} : plan'[q] = plan[q]
    PROVE  RunsOf(session', plan') =
             [RunsOf(session, plan) EXCEPT ![r] =
                IF u = NoSession THEN None
                ELSE [prompt |-> plan'[r].prompt.cells, done |-> u.rec]]
BY DEF RunsOf

LEMMA BeginStep ==
    ASSUME NEW r \in Slots, DOMAIN session = Slots, NEW u, session' = [session EXCEPT ![r] = u],
           \A q \in Slots \ {r} : plan'[q] = plan[q],
           session[r] = NoSession, u # NoSession,
           NEW p \in Prompts, plan'[r].prompt = p,
           u.rec \in Cache!Usable(p.cells),
           \A other \in Cache!Usable(p.cells) : Len(other) =< Len(u.rec),
           KeptOf(Sessions', disk') \subseteq KeptOf(Sessions, disk)
    PROVE  Cache!Next
<1>1. RunningRequests' = [RunningRequests EXCEPT ![r] = [prompt |-> p.cells, done |-> u.rec]]
  BY OthersRun, RunningIs
<1>2. RunningRequests[r] = None
  BY DEF RunningRequests
<1>3. KeptStates' \subseteq KeptStates
  BY KeptIs
<1>4. Cache!Begin(r, p.cells)
  BY <1>1, <1>2, <1>3 DEF Cache!Begin
<1> QED BY <1>4 DEF Cache!Next

LEMMA ComputeStep ==
    ASSUME NEW r \in Slots, DOMAIN session = Slots, NEW u, session' = [session EXCEPT ![r] = u],
           \A q \in Slots \ {r} : plan'[q] = plan[q], plan'[r].prompt = plan[r].prompt,
           session[r] # NoSession, u # NoSession,
           plan[r].prompt.cells \in Seq(Cell), session[r].rec \in Seq(CellType),
           u.rec \in Seq(CellType),
           Cache!IsPrefix(session[r].rec, u.rec),
           \/ Cache!IsPrefix(plan[r].prompt.cells, u.rec)
           \/ Cache!IsPrefix(u.rec, plan[r].prompt.cells),
           KeptOf(Sessions', disk') \subseteq KeptOf(Sessions, disk) \cup Cache!Behind(u.rec)
    PROVE  Cache!Next
<1> DEFINE now2 == [prompt |-> plan[r].prompt.cells, done |-> u.rec]
<1>1. RunningRequests' = [RunningRequests EXCEPT ![r] = now2]
  BY OthersRun, RunningIs
<1>2. RunningRequests[r] = [prompt |-> plan[r].prompt.cells, done |-> session[r].rec]
  BY DEF RunningRequests
<1>3. RunningRequests[r] # None /\ now2 # None
  BY <1>2, NoRecord
<1>4. DOMAIN RunningRequests = Slots
  BY DEF RunningRequests
<1>5. RunningRequests'[r] = now2
  BY <1>1, <1>4
<1>6. RunningRequests' = [RunningRequests EXCEPT ![r].done = RunningRequests'[r].done]
  <2>1. [RunningRequests[r] EXCEPT !.done = u.rec] = now2
    BY <1>2
  <2>2. RunningRequests'[r].done = u.rec
    BY <1>5
  <2> HIDE DEF now2
  <2> QED BY <1>1, <2>1, <2>2
<1>7. Cache!Compute(r)
  BY <1>2, <1>3, <1>5, <1>6, KeptIs DEF Cache!Compute
<1> QED BY <1>7 DEF Cache!Next

LEMMA EndStep ==
    ASSUME NEW r \in Slots, DOMAIN session = Slots, session' = [session EXCEPT ![r] = NoSession],
           \A q \in Slots \ {r} : plan'[q] = plan[q],
           session[r] # NoSession,
           plan[r].prompt.cells \in Seq(Cell), session[r].rec \in Seq(CellType),
           KeptOf(Sessions', disk') \subseteq
               KeptOf(Sessions, disk) \cup Cache!Behind(session[r].rec)
    PROVE  Cache!Next
<1>1. RunningRequests' = [RunningRequests EXCEPT ![r] = None]
  BY OthersRun, RunningIs
<1>2. RunningRequests[r] = [prompt |-> plan[r].prompt.cells, done |-> session[r].rec]
  BY DEF RunningRequests
<1>3. RunningRequests[r] # None
  BY <1>2, NoRecord
<1>4. Cache!End(r)
  BY <1>1, <1>2, <1>3, KeptIs DEF Cache!End
<1> QED BY <1>4 DEF Cache!Next

LEMMA RestartStep ==
    ASSUME RInv, NewStore PROVE RInv' /\ Cache!Next
<1>1. /\ entries' = {} /\ writing' = None /\ disk' = expire(disk, now)
      /\ stage' = [r \in Slots |-> "none"]
      /\ session' = [r \in Slots |-> NoSession] /\ plan' = [r \in Slots |-> None]
      /\ fault' = FALSE
  BY DEF NewStore
<1>2. Sessions' = {} /\ disk' \subseteq disk
  BY <1>1 DEF Sessions, parked, expire
<1>3. Comes(Sessions', disk', Sessions, disk)
  BY <1>2, FewerCome
<1>4. AllFromPrompts(Sessions', disk') /\ KeptOf(Sessions', disk') \subseteq KeptOf(Sessions, disk)
  BY <1>3, ComesFrom, ComesKept DEF RInv
<1>5. RInv'
  BY <1>1, <1>4 DEF RInv, SlotFrom
<1>6. RunningRequests' = [r \in Slots |-> None]
  BY <1>1 DEF RunningRequests
<1>7. Cache!Restart
  BY <1>4, <1>6, KeptIs DEF Cache!Restart
<1> QED BY <1>5, <1>7 DEF Cache!Next
-----------------------------------------------------------------------------
(* Prefixes. *)

LEMMA PrefixesNest ==
    ASSUME NEW S, NEW s \in Seq(S), NEW a \in Nat, NEW b \in Nat, a =< b, b =< Len(s)
    PROVE  Cache!IsPrefix(Prefix(s, a), Prefix(s, b))
<1> DEFINE x == Prefix(s, a)
           y == Prefix(s, b)
<1>0. Len(s) \in Nat /\ a =< Len(s)
  BY LenProperties
<1>1. x \in Seq(S) /\ Len(x) = a /\ y \in Seq(S) /\ Len(y) = b
  BY <1>0, PrefixIs
<1>2. Prefix(x, a) = x /\ Prefix(y, a) = x
  BY <1>0, PrefixOfPrefix
<1> HIDE DEF x, y
<1>3. Cache!IsPrefix(x, y)
  BY <1>1, <1>2 DEF Cache!IsPrefix, Prefix
<1> QED BY <1>3 DEF x, y

LEMMA PrefixOfWhole ==
    ASSUME NEW S, NEW s \in Seq(S), NEW a \in Nat, a =< Len(s)
    PROVE  Cache!IsPrefix(Prefix(s, a), s)
<1>1. Len(s) \in Nat /\ Prefix(s, Len(s)) = s
  BY LenProperties, PrefixAll
<1>2. Cache!IsPrefix(Prefix(s, a), Prefix(s, Len(s)))
  BY <1>1, PrefixesNest
<1> QED BY <1>1, <1>2

(* A proper prefix is shorter, and says what the sequence says. *)
LEMMA StrictMeans ==
    ASSUME NEW S, NEW k \in Seq(S), NEW T, NEW t \in Seq(T), Cache!IsStrictPrefix(k, t)
    PROVE  Len(k) < Len(t) /\ \A i \in 1 .. Len(k) : k[i] = t[i]
<1> DEFINE n == Len(k)
<1>0. n \in Nat /\ Len(t) \in Nat
  BY LenProperties
<1>1. n =< Len(t) /\ Prefix(k, n) = Prefix(t, n) /\ k # t
  BY DEF Cache!IsStrictPrefix, Cache!IsPrefix, Prefix
<1>2. Prefix(k, n) = k /\ Prefix(t, Len(t)) = t
  BY PrefixAll
<1>3. \A i \in 1 .. n : Prefix(t, n)[i] = t[i]
  BY <1>0, <1>1, PrefixIs
<1>4. n # Len(t)
  BY <1>1, <1>2
<1> HIDE DEF n
<1>5. n < Len(t) /\ \A i \in 1 .. n : k[i] = t[i]
  BY <1>0, <1>1, <1>2, <1>3, <1>4
<1> QED BY <1>5 DEF n

LEMMA StrictIs ==
    ASSUME NEW S, NEW s \in Seq(S), NEW a \in Nat, a < Len(s)
    PROVE  Cache!IsStrictPrefix(Prefix(s, a), s)
<1>1. Len(s) \in Nat /\ a =< Len(s)
  BY LenProperties
<1>2. Cache!IsPrefix(Prefix(s, a), s) /\ Len(Prefix(s, a)) = a
  BY <1>1, PrefixOfWhole, PrefixIs
<1> QED BY <1>2 DEF Cache!IsStrictPrefix

LEMMA IsBehind ==
    ASSUME NEW S, NEW s \in Seq(S), NEW a \in Nat, a =< Len(s)
    PROVE  Prefix(s, a) \in Cache!Behind(s)
<1>1. a \in 0 .. Len(s)
  BY LenProperties
<1> QED BY <1>1 DEF Cache!Behind, Prefix
-----------------------------------------------------------------------------
(* The lookup. *)

(* What the store kept of a prompt, not ending in an image, is usable. *)
LEMMA IsUsable ==
    ASSUME NEW p \in Prompts, NEW n \in Nat, n =< Len(p.cells) - 1, Outside(n, p.images),
           NEW k, k = Prefix(p.cells, n), k \in KeptOf(Sessions, disk) \cup {<<>>}
    PROVE  k \in Cache!Usable(p.cells)
<1>1. Len(p.cells) \in Nat /\ p.cells \in Seq(Cell) /\ p.images \in SUBSET SpanType
  BY PromptParts
<1>2. n < Len(p.cells) /\ Len(k) = n
  <2>1. n =< Len(p.cells) /\ n < Len(p.cells)
    BY <1>1
  <2> DEFINE c == p.cells
  <2>2. c \in Seq(Cell) /\ n =< Len(c)
    BY <1>1, <2>1
  <2> HIDE DEF c
  <2>3. Len(Prefix(c, n)) = n
    BY ONLY <2>2, n \in Nat, PrefixIs
  <2> QED BY <2>1, <2>3 DEF c
<1>3. Cache!IsStrictPrefix(k, p.cells)
  BY <1>1, <1>2, StrictIs
<1>4. ASSUME Cache!Torn(k, p.cells) PROVE FALSE
  <2>1. k # <<>> /\ p.cells[n] \in Images /\ p.cells[n + 1] \in Images
    BY <1>2, <1>4 DEF Cache!Torn
  <2>2. k \in Seq(Cell)
    BY <1>1, <1>2, PrefixIs
  <2>3. n # 0
    BY <1>2, <2>1, <2>2, EmptySeq
  <2>4. n + 1 \in 1 .. Len(p.cells) /\ n \in 1 .. Len(p.cells)
    BY <1>1, <1>2, <2>3
  <2>5. PICK i \in p.images : i.start < n + 1 /\ n + 1 =< End(i)
    BY <2>1, <2>4, PromptImages
  <2>6. i.start \in Nat /\ End(i) \in Nat /\ (i.start > 0 => p.cells[i.start] \in Text)
    BY <1>1, <2>5, SpanEnds, PromptFrames
  <2>7. ~(i.start < n /\ n < End(i))
    BY <2>5 DEF Outside
  <2>8. i.start = n
    BY <2>5, <2>6, <2>7
  <2> QED BY <2>1, <2>3, <2>6, <2>8, PadAssumption
<1> QED BY <1>3, <1>4, KeptIs DEF Cache!Usable

(* What lineages the store has, all of them known. *)
LEMMA Holds ==
    ASSUME SInv, RInv, NEW l \in Sessions \cup disk
    PROVE  /\ Known(l) /\ l.kv \in Seq(CellType) /\ Len(l.tokens) = Len(l.kv) /\ Sound(l)
           /\ FromPrompt(l) /\ Len(l.kv) \in Nat
           /\ \A c \in l.ckpts : /\ c.rec = Prefix(l.kv, c.pos) /\ c.pos \in Nat
                                 /\ c.pos =< Len(l.kv)
           /\ l \in Sessions => l.rec = l.kv
<1>1. FromPrompt(l)
  BY DEF RInv, AllFromPrompts
<1>2. ~fault
  BY DEF RInv
<1>3. CASE l \in Sessions
  <2>1. Home(l, FALSE)
    BY <1>2, <1>3, StateParts DEF StoreGood, Sessions, parked, Home
  <2>2. /\ Known(l) /\ l.kv \in Seq(CellType) /\ Len(l.kv) \in Nat
        /\ Len(l.tokens) = Len(l.kv) /\ Sound(l) /\ l.rec = l.kv
    BY <2>1, HomeKnown, SessionParts DEF Home, HomeShape, SessionShape, Faithful
  <2> QED BY <1>1, <2>2 DEF Sound, Known
<1>4. CASE l \in disk /\ l \notin Sessions
  <2>1. Archived(l)
    BY <1>4, StateParts DEF StoreGood
  <2>2. /\ Known(l) /\ l.kv \in Seq(CellType) /\ Len(l.kv) \in Nat
        /\ Len(l.tokens) = Len(l.kv) /\ Sound(l)
    BY <2>1, EntryKnown, EntryParts DEF Archived, EntryShape, Faithful
  <2> QED BY <1>1, <1>4, <2>2 DEF Sound, Known
<1> QED BY <1>3, <1>4

(* The abstract cache has nothing better than the lookup's best. *)
LEMMA NoFurther ==
    ASSUME SInv, RInv, NEW p \in Prompts, NEW n \in Nat,
           \A l \in Sessions \cup disk : ResumeAt(l, p) =< n,
           NEW k \in Cache!Usable(p.cells)
    PROVE  Len(k) =< n
<1>1. /\ k \in KeptOf(Sessions, disk) \cup {<<>>} /\ Cache!IsStrictPrefix(k, p.cells)
      /\ ~Cache!Torn(k, p.cells)
  BY KeptIs DEF Cache!Usable
<1>2. Len(p.cells) \in Nat /\ p.cells \in Seq(Cell)
  BY PromptParts
<1>3. ASSUME NEW l \in Sessions \cup disk, NEW m \in Nat, m =< Len(l.kv), k = Prefix(l.kv, m),
             m = Len(l.tokens) \/ \E c \in l.ckpts : c.pos = m
      PROVE  Len(k) =< n
  <2>1. /\ Known(l) /\ l.kv \in Seq(CellType) /\ Len(l.tokens) = Len(l.kv) /\ Sound(l)
        /\ FromPrompt(l)
    BY Holds
  <2>2. k \in Seq(CellType) /\ Len(k) = m /\ \A i \in 1 .. m : k[i] = l.kv[i]
    BY <1>3, <2>1, PrefixIs
  <2>3. m < Len(p.cells) /\ \A i \in 1 .. m : k[i] = p.cells[i]
    BY <1>1, <1>2, <2>2, StrictMeans
  <2>4. \A i \in 1 .. m : l.kv[i] = p.cells[i]
    BY <2>2, <2>3
  <2>5. m = 0 \/ ~({p.cells[m], p.cells[m + 1]} \subseteq Images)
    BY <1>1, <2>2 DEF Cache!Torn
  <2>6. m =< ResumeAt(l, p)
    BY <1>3, <2>1, <2>3, <2>4, <2>5, Offers
  <2>7. ResumeAt(l, p) \in Nat /\ ResumeAt(l, p) =< n
    BY <2>1, ResumeWhere
  <2> QED BY <2>2, <2>6, <2>7
<1>4. CASE k = <<>>
  BY <1>4
<1>5. ASSUME NEW l \in Sessions, k = l.rec PROVE Len(k) =< n
  <2>1. /\ l.rec = l.kv /\ l.kv \in Seq(CellType) /\ Len(l.kv) \in Nat
        /\ Len(l.tokens) = Len(l.kv)
    BY Holds
  <2>2. k = Prefix(l.kv, Len(l.kv))
    BY <1>5, <2>1, PrefixAll
  <2> QED BY <1>3, <2>1, <2>2
<1>6. ASSUME NEW l \in Sessions \cup disk, NEW c \in l.ckpts, k = c.rec PROVE Len(k) =< n
  <2>1. c.rec = Prefix(l.kv, c.pos) /\ c.pos \in Nat /\ c.pos =< Len(l.kv)
    BY Holds
  <2> QED BY <1>3, <1>6, <2>1
<1> QED BY <1>1, <1>4, <1>5, <1>6 DEF KeptOf

(* What is checked out, and where it resumes. *)
ChecksOut(s, n, cut) ==
    /\ Checkout(s, n, cut)
    /\ "rec" \in DOMAIN s /\ Len(s.rec) = n /\ s.rec \in KeptOf(Sessions, disk) \cup {<<>>}

SomeCheckOut == \E s : \E n \in Nat : \E cut : ChecksOut(s, n, cut)

LEMMA RecOfRebuild ==
    ASSUME NEW s \in SessionType, NEW l, NEW n, NEW rec, NEW e
    PROVE  /\ "rec" \in DOMAIN Rebuild(s, l, n, rec, e) /\ Rebuild(s, l, n, rec, e).rec = rec
           /\ "rec" \in DOMAIN CutTo(s, n, rec, e) /\ CutTo(s, n, rec, e).rec = rec
BY DEF Rebuild, CutTo, SessionType

LEMMA CkptKept ==
    ASSUME NEW l \in Sessions \cup disk, NEW c \in l.ckpts
    PROVE  c.rec \in KeptOf(Sessions, disk)
BY DEF KeptOf

LEMMA FreshChecksOut ==
    ASSUME SInv, StartFresh PROVE SomeCheckOut
<1> DEFINE u == new_session(Len(prompt.cells), next_lin)
<1>1. pc = "lookup" /\ TakeNew(u, 0, Fresh)
  BY DEF StartFresh
<1>2. u \in SessionType /\ u.rec = <<>>
  BY <1>1, AtLookup, NewFields
<1> HIDE DEF u
<1>3. Checkout(u, 0, FALSE)
  BY <1>1 DEF TakeNew
<1>4. "rec" \in DOMAIN u
  BY <1>2 DEF SessionType
<1>5. ChecksOut(u, 0, FALSE)
  BY <1>2, <1>3, <1>4, EmptySeqs, Zenon DEF ChecksOut
<1> QED BY <1>5, Zenon DEF SomeCheckOut

LEMMA ExtendChecksOut ==
    ASSUME SInv, NEW s \in entries, Extend(s) PROVE SomeCheckOut
<1>1. pc = "lookup" /\ BestGPU = Len(s.tokens) /\ TakeResident(s, BestGPU, FALSE, s)
  BY DEF Extend
<1>2. StoreGood(entries, writing, disk, fault)
  BY <1>1, AtLookup
<1>3. /\ s \in SessionType /\ Len(s.rec) = Len(s.tokens) /\ Len(s.tokens) \in Nat
  BY <1>2, ShapeOfBest
<1>4. Checkout(s, Len(s.tokens), FALSE)
  BY <1>1 DEF TakeResident
<1>5. "rec" \in DOMAIN s
  BY <1>3 DEF SessionType
<1>6. s.rec \in KeptOf(Sessions, disk)
  BY DEF KeptOf, Sessions
<1>7. ChecksOut(s, Len(s.tokens), FALSE)
  BY <1>3, <1>4, <1>5, <1>6, Zenon DEF ChecksOut
<1> QED BY <1>3, <1>7, Zenon DEF SomeCheckOut

LEMMA CutBackChecksOut ==
    ASSUME SInv, NEW s \in entries, CutBack(s) PROVE SomeCheckOut
<1> DEFINE n == BestGPU
           c == checkpoint_at(s, n)
           e == {d \in s.ckpts : d.pos =< n}
           u == CutTo(s, n, c.rec, e)
<1>1. /\ pc = "lookup" /\ n # Len(s.tokens) /\ ResumeAt(s, prompt) = n /\ n > 0
      /\ TakeResident(s, n, TRUE, u)
  BY Zenon DEF CutBack, BestResident, CutTo
<1>2. StoreGood(entries, writing, disk, fault) /\ prompt \in Prompts
  BY <1>1, AtLookup
<1>3. s \in SessionType /\ Known(s) /\ \A d \in s.ckpts : Len(d.rec) = d.pos
  BY <1>2, ShapeOfBest
<1>4. n \in Nat /\ \E d \in s.ckpts : d.pos = n
  <2>1. /\ ResumeAt(s, prompt) \in Nat
        /\ \/ ResumeAt(s, prompt) = 0 \/ ResumeAt(s, prompt) = Len(s.tokens)
           \/ \E d \in s.ckpts : d.pos = ResumeAt(s, prompt)
    BY <1>2, <1>3, ResumeWhere
  <2> HIDE DEF n
  <2> QED BY <1>1, <2>1
<1>5. c \in s.ckpts /\ c.pos = n
  BY <1>4, Zenon DEF checkpoint_at
<1> HIDE DEF c, e, n
<1>6. c.rec \in KeptOf(Sessions, disk)
  BY <1>5, CkptKept DEF Sessions
<1>7. "rec" \in DOMAIN u /\ u.rec = c.rec
  BY <1>3, RecOfRebuild
<1> HIDE DEF u
<1>8. Checkout(u, n, TRUE)
  BY <1>1 DEF TakeResident
<1>9. ChecksOut(u, n, TRUE)
  BY <1>3, <1>5, <1>6, <1>7, <1>8, Zenon DEF ChecksOut
<1> QED BY <1>4, <1>9, Zenon DEF SomeCheckOut

LEMMA BranchChecksOut ==
    ASSUME SInv, pc = "lookup", NEW l \in Sessions \cup disk, NEW c \in l.ckpts, NEW n \in Nat,
           Len(c.rec) = n, NEW lin \in Nat, NEW e, NEW d,
           TakeNew(Rebuild(new_session(Len(prompt.cells), lin), l, n, c.rec, e), n, d)
    PROVE  SomeCheckOut
<1> DEFINE s == new_session(Len(prompt.cells), lin)
           u == Rebuild(s, l, n, c.rec, e)
<1>1. s \in SessionType
  BY AtLookup, NewFields
<1>2. TakeNew(u, n, d)
  OBVIOUS
<1> HIDE DEF s
<1>3. "rec" \in DOMAIN u /\ u.rec = c.rec
  BY <1>1, RecOfRebuild
<1> HIDE DEF u
<1>4. Checkout(u, n, FALSE)
  BY <1>2 DEF TakeNew
<1>5. c.rec \in KeptOf(Sessions, disk)
  BY CkptKept
<1>6. ChecksOut(u, n, FALSE)
  BY <1>3, <1>4, <1>5, Zenon DEF ChecksOut
<1> QED BY <1>6, Zenon DEF SomeCheckOut

LEMMA ForkChecksOut ==
    ASSUME SInv, NEW s \in entries, Fork(s) PROVE SomeCheckOut
<1> DEFINE n == BestGPU
           c == checkpoint_at(s, n)
<1>1. /\ pc = "lookup" /\ n # Len(s.tokens) /\ ResumeAt(s, prompt) = n /\ n > 0
      /\ TakeNew(Rebuild(new_session(Len(prompt.cells), next_lin), s, n, c.rec, {c}), n, Fresh)
  BY Zenon DEF Fork, BestResident, Rebuild
<1>2. /\ StoreGood(entries, writing, disk, fault) /\ prompt \in Prompts /\ next_lin \in Nat
  BY <1>1, AtLookup
<1>3. Known(s) /\ \A d \in s.ckpts : Len(d.rec) = d.pos
  BY <1>2, ShapeOfBest
<1>4. n \in Nat /\ \E d \in s.ckpts : d.pos = n
  <2>1. /\ ResumeAt(s, prompt) \in Nat
        /\ \/ ResumeAt(s, prompt) = 0 \/ ResumeAt(s, prompt) = Len(s.tokens)
           \/ \E d \in s.ckpts : d.pos = ResumeAt(s, prompt)
    BY <1>2, <1>3, ResumeWhere
  <2> HIDE DEF n
  <2> QED BY <1>1, <2>1
<1>5. c \in s.ckpts /\ c.pos = n
  BY <1>4, Zenon DEF checkpoint_at
<1> HIDE DEF c, n
<1>6. s \in Sessions \cup disk
  BY DEF Sessions
<1> QED BY <1>1, <1>2, <1>3, <1>4, <1>5, <1>6, BranchChecksOut

LEMMA RestoreChecksOut ==
    ASSUME SInv, NEW e \in disk, Restore(e) PROVE SomeCheckOut
<1> DEFINE n == BestDisk
           c == CHOOSE d \in e.ckpts : d.pos = n
           forked == forks(e, n)
           lin == IF forked \/ lineage_held(e.lineage) THEN next_lin ELSE e.lineage
           k == [pos |-> n, decode |-> FALSE, rec |-> c.rec]
           d2 == IF forked THEN touch(Fresh, e.id, now) ELSE remove(Fresh, e.id)
<1>1. /\ pc = "lookup" /\ ResumeAt(e, prompt) = n /\ n > BestGPU
      /\ TakeNew(Rebuild(new_session(Len(prompt.cells), lin), e, n, c.rec, {k}), n, d2)
  BY Zenon DEF Restore, BestOnDisk, Rebuild
<1>2. /\ StoreGood(entries, writing, disk, fault) /\ prompt \in Prompts /\ next_lin \in Nat
  BY <1>1, AtLookup
<1>3. Archived(e)
  BY <1>2 DEF StoreGood
<1>4. /\ Known(e) /\ e \in EntryType /\ (\E d \in e.ckpts : d.pos = Len(e.tokens))
      /\ \A d \in e.ckpts : Len(d.rec) = d.pos
  BY <1>3, EntryKnown DEF Archived, EntryShape
<1>5. n \in Nat /\ n # 0
  BY <1>1, <1>2, BestIs
<1>6. \E d \in e.ckpts : d.pos = n
  <2>1. \/ ResumeAt(e, prompt) = 0 \/ ResumeAt(e, prompt) = Len(e.tokens)
        \/ \E j \in e.ckpts : j.pos = ResumeAt(e, prompt)
    BY <1>2, <1>4, ResumeWhere
  <2> HIDE DEF n
  <2> QED BY <1>1, <1>4, <1>5, <2>1
<1>7. c \in e.ckpts /\ c.pos = n
  BY <1>6, Zenon
<1>8. lin \in Nat
  BY <1>2, <1>4, EntryParts
<1> HIDE DEF c, n, lin, k, d2, forked
<1> QED BY <1>1, <1>4, <1>5, <1>7, <1>8, BranchChecksOut

LEMMA LookupChecksOut ==
    ASSUME ~MayFail, SInv, Lookup PROVE SomeCheckOut
<1>1. ASSUME NEW e PROVE ~DropUnreadable(e)
  BY DEF DropUnreadable
<1> QED BY <1>1, FreshChecksOut, ExtendChecksOut, CutBackChecksOut, ForkChecksOut,
           RestoreChecksOut DEF Lookup

LEMMA LookupComes ==
    ASSUME SInv, Lookup PROVE Comes(Sessions', disk', Sessions, disk)
<1>1. /\ entries' \subseteq entries /\ writing' = writing
      /\ disk' = Fresh \/ \E id : disk' = touch(Fresh, id, now) \/ disk' = remove(Fresh, id)
  BY LookupMoves DEF Taken
<1>2. Sessions' \subseteq Sessions
  BY <1>1 DEF Sessions, parked
<1>3. Fresh \subseteq disk /\ \A e \in disk : e \in EntryType
  BY StateParts DEF StoreGood, Archived, EntryShape, Fresh, expire
<1>4. ASSUME NEW f \in disk' PROVE \E e \in disk : SameFile(f, e)
  <2>1. CASE f \in Fresh
    BY <1>3, <2>1 DEF SameFile
  <2>2. ASSUME NEW id, f \in touch(Fresh, id, now) PROVE \E e \in disk : SameFile(f, e)
    BY <1>3, <2>2, TouchComes
  <2>3. ASSUME NEW id, disk' = remove(Fresh, id) PROVE f \in Fresh
    BY <2>3 DEF remove
  <2> QED BY <1>1, <2>1, <2>2, <2>3
<1> QED BY <1>2, <1>4 DEF Comes, FileOf, SameState

(* A request begins. *)
LEMMA LookupBegins ==
    ASSUME ~MayFail, MaxAge = 0, SInv, SInv', IInv', LookInv, RInv, Lookup
    PROVE  RInv' /\ Cache!Next
<1>0. pc = "lookup"
  BY LookupMoves
<1>1. PICK s : \E m \in Nat : \E c : ChecksOut(s, m, c)
  BY LookupChecksOut DEF SomeCheckOut
<1>2. PICK n \in Nat : \E c : ChecksOut(s, n, c)
  BY <1>1
<1>a. PICK cut : ChecksOut(s, n, cut)
  BY <1>2
<1>3. /\ cur \in Slots /\ stage[cur] = "acquire" /\ prompt \in Prompts
      /\ plan[cur] \in PlanType /\ DOMAIN plan = Slots /\ DOMAIN session = Slots
      /\ DOMAIN stage = Slots
  <2>1. cur \in Slots /\ stage[cur] = "acquire"
    BY <1>0 DEF SInv, PlaceGood
  <2> QED BY <1>0, <2>1, AtLookup, RunningParts, StateParts DEF SlotsGood
<1> DEFINE p == prompt
           u == [s EXCEPT !.request_start = n, !.answer_start = Len(p.cells) - 1]
<1>4. /\ session' = [session EXCEPT ![cur] = u]
      /\ stage' = [stage EXCEPT ![cur] = "prefill"]
      /\ \E a, b : plan' = [plan EXCEPT ![cur] =
            [@ EXCEPT !.reused = n, !.agreement = a, !.cut_back = cut, !.boundary = b]]
  BY <1>a, Zenon DEF ChecksOut, Checkout
<1>5. u.rec = s.rec
  BY <1>a DEF ChecksOut
<1> HIDE DEF u
<1>6. /\ plan'[cur].reused = n /\ plan'[cur].prompt = p
      /\ \A q \in Slots \ {cur} : plan'[q] = plan[q]
  <2>1. PICK a, b : plan' = [plan EXCEPT ![cur] =
            [@ EXCEPT !.reused = n, !.agreement = a, !.cut_back = cut, !.boundary = b]]
    BY <1>4
  <2> QED BY <1>3, <2>1 DEF PlanType, prompt
<1>7. stage'[cur] = "prefill" /\ session'[cur] = u
  BY <1>3, <1>4
<1>8. SlotGood("prefill", u, plan'[cur], fault')
  <2>1. SlotsGood(stage', session', plan', fault')
    BY DEF SInv
  <2> QED BY <1>3, <1>7, <2>1 DEF SlotsGood
<1>9. fault' = FALSE
  <2>1. UNCHANGED fault
    <3>1. ASSUME NEW w, NEW m, NEW c, NEW v, TakeResident(w, m, c, v) PROVE UNCHANGED fault
      BY <3>1 DEF TakeResident
    <3>2. ASSUME NEW w, NEW m, NEW d, TakeNew(w, m, d) PROVE UNCHANGED fault
      BY <3>2 DEF TakeNew
    <3>3. \/ \E w, m, c, v : TakeResident(w, m, c, v)
          \/ \E w, m, d : TakeNew(w, m, d)
      BY Zenon DEF Lookup, StartFresh, Extend, CutBack, Fork, Restore, DropUnreadable
    <3> QED BY <3>1, <3>2, <3>3
  <2> QED BY <2>1, StateParts DEF RInv
<1>10. /\ OnPrompt(u, p) /\ Outside(n, p.images) /\ Len(u.rec) = n
       /\ n =< Len(p.cells) - 1
  BY <1>a, <1>5, <1>6, <1>8, <1>9 DEF SlotGood, Planned, ChecksOut
<1>11. u.rec \in Cache!Usable(p.cells)
  <2>1. u.rec = Prefix(p.cells, n)
    BY <1>10 DEF OnPrompt
  <2>2. u.rec \in KeptOf(Sessions, disk) \cup {<<>>}
    BY <1>a, <1>5 DEF ChecksOut
  <2> QED BY <1>3, <1>10, <2>1, <2>2, IsUsable
<1>12. \A l \in Sessions \cup disk : ResumeAt(l, p) =< n
  <2>1. FurthestNow
    BY <1>0, LookupFurthest
  <2>2. Fresh = disk
    BY DEF Fresh, expire
  <2> QED BY <1>0, <1>6, <1>7, <2>1, <2>2 DEF FurthestNow, Sessions
<1>13. \A k \in Cache!Usable(p.cells) : Len(k) =< Len(u.rec)
  BY <1>3, <1>10, <1>12, NoFurther
<1>14. /\ KeptOf(Sessions', disk') \subseteq KeptOf(Sessions, disk)
       /\ AllFromPrompts(Sessions', disk')
  BY LookupComes, ComesKept, ComesFrom DEF RInv
<1>15. session[cur] = NoSession
  BY <1>3 DEF RInv, SlotFrom
<1>16. u # NoSession
  <2>1. session'[cur].lineage # 0
    BY <1>3, <1>7 DEF IInv, StagePart
  <2> QED BY <1>7, <2>1, NoSessionOK
<1>17. Cache!Next
  BY <1>3, <1>4, <1>6, <1>11, <1>13, <1>14, <1>15, <1>16, BeginStep
<1>18. RInv'
  <2>1. \A q \in Slots : SlotFrom(stage'[q], session'[q], plan'[q])
    <3> TAKE q \in Slots
    <3>1. CASE q = cur
      BY <1>7, <3>1 DEF SlotFrom
    <3>2. CASE q # cur
      <4>1. stage'[q] = stage[q] /\ session'[q] = session[q] /\ plan'[q] = plan[q]
        BY <1>3, <1>4, <1>6, <3>2
      <4> QED BY <4>1 DEF RInv
    <3> QED BY <3>1, <3>2
  <2> QED BY <1>9, <1>14, <2>1 DEF RInv
<1> QED BY <1>17, <1>18
-----------------------------------------------------------------------------
(* The steps that only move what the store knows. *)

LEMMA SpillComes ==
    ASSUME SInv, NEW s \in entries, SpillOne(s) PROVE Comes(Sessions', disk', Sessions, disk)
<1>1. evict(s, disk) /\ entries' = entries \ {s} /\ writing' = writing
  BY DEF SpillOne
<1>2. Tier(disk)
  BY StateParts DEF StoreGood, Tier
<1>3. Sessions' \subseteq Sessions /\ s \in Sessions
  BY <1>1 DEF Sessions, parked
<1>4. \A f \in disk' : FileOf(f, Sessions, disk)
  BY <1>1, <1>2, <1>3, EvictComes DEF FileOf
<1> QED BY <1>3, <1>4 DEF Comes, SameState

LEMMA WriterComes ==
    ASSUME SInv, WriterEnds PROVE Comes(Sessions', disk', Sessions, disk)
<1>1. PICK result : writing' = [writing EXCEPT !.phase = result]
  BY DEF WriterEnds
<1>2. writing # None /\ entries' = entries /\ disk' = disk
  BY DEF WriterEnds
<1>3. writing'.session = writing.session
  BY <1>1, <1>2, StateParts DEF StoreGood, WriteType
<1>4. Sessions' \subseteq Sessions
  BY <1>2, <1>3 DEF Sessions, parked
<1> QED BY <1>2, <1>4, FewerCome

Moves ==
    \/ reclaim_for \/ MakeRoom \/ RoomMade \/ TrimReleased \/ Released
    \/ NothingToWrite \/ UnloadJoin \/ CollectAhead \/ WriterEnds \/ Unload \/ Tick \/ Terminated
    \/ (\E s \in entries : SpillOne(s)) \/ (\E s \in Refreshed : StartWrite(s))
    \/ UNCHANGED vars

LEMMA MovesCome ==
    ASSUME SInv, Moves PROVE Comes(Sessions', disk', Sessions, disk)
<1>1. CASE reclaim_for
  BY <1>1, ReclaimComes
<1>2. CASE MakeRoom \/ TrimReleased
  <2>1. evict_lru
    BY <1>2 DEF MakeRoom, TrimReleased
  <2> QED BY <2>1, StateParts, LruComes
<1>3. CASE RoomMade \/ Released \/ Unload \/ Tick \/ Terminated \/ UNCHANGED vars
  <2>1. UNCHANGED storeVars
    BY <1>3 DEF RoomMade, Released, Unload, Tick, Terminated, vars
  <2>2. Sessions' = Sessions /\ disk' = disk
    BY <2>1 DEF storeVars, Sessions, parked
  <2> QED BY <2>2, FewerCome
<1>4. CASE NothingToWrite
  BY <1>4, NothingToWriteComes
<1>5. CASE UnloadJoin \/ CollectAhead
  <2>1. collect_finished
    BY <1>5 DEF UnloadJoin, CollectAhead
  <2> QED BY <2>1, StateParts, CollectComes
<1>6. CASE WriterEnds
  BY <1>6, WriterComes
<1>7. ASSUME NEW s \in entries, SpillOne(s) PROVE Comes(Sessions', disk', Sessions, disk)
  BY <1>7, SpillComes
<1>8. ASSUME NEW s \in Refreshed, StartWrite(s) PROVE Comes(Sessions', disk', Sessions, disk)
  BY <1>8, StartWriteComes
<1> QED BY <1>1, <1>2, <1>3, <1>4, <1>5, <1>6, <1>7, <1>8 DEF Moves

LEMMA MovesStep == ASSUME SInv, RInv, Moves PROVE RInv' /\ Cache!Next
<1>1. UNCHANGED <<session, plan, stage, fault>>
  <2>1. ASSUME NEW s, SpillOne(s) \/ StartWrite(s) PROVE UNCHANGED <<session, plan, stage, fault>>
    BY <2>1 DEF SpillOne, StartWrite, reqVars
  <2>2. ASSUME reclaim_for PROVE UNCHANGED <<session, plan, stage, fault>>
    BY <2>2, Zenon DEF reclaim_for, reqVars
  <2>3. ASSUME \/ MakeRoom \/ RoomMade \/ TrimReleased \/ Released
               \/ NothingToWrite \/ UnloadJoin \/ CollectAhead
        PROVE  UNCHANGED <<session, plan, stage, fault>>
    BY <2>3 DEF MakeRoom, RoomMade, TrimReleased, Released, NothingToWrite, UnloadJoin,
                CollectAhead, reqVars
  <2>4. ASSUME WriterEnds \/ Unload \/ Tick \/ Terminated \/ UNCHANGED vars
        PROVE  UNCHANGED <<session, plan, stage, fault>>
    BY <2>4 DEF WriterEnds, Unload, Tick, Terminated, vars, reqVars
  <2> QED BY <2>1, <2>2, <2>3, <2>4 DEF Moves
<1> QED BY <1>1, MovesCome, QuietStep

(* A request is admitted: its prompt is known, and nothing runs yet. *)
LEMMA AcquireRefines ==
    ASSUME SInv, RInv, NEW r \in Slots, NEW p \in Prompts, Acquire(r, p)
    PROVE  RInv' /\ Cache!Next
<1>1. /\ stage[r] = "none" /\ collect_finished
      /\ stage' = [stage EXCEPT ![r] = "acquire"]
      /\ \E q : plan' = [plan EXCEPT ![r] = q]
      /\ UNCHANGED <<session, fault>>
  BY Zenon DEF Acquire
<1>2. DOMAIN stage = Slots /\ DOMAIN plan = Slots
  BY StateParts DEF SlotsGood
<1>3. session[r] = NoSession
  BY <1>1 DEF RInv, SlotFrom
<1>4. \A k \in Slots \ {r} : plan'[k] = plan[k] /\ stage'[k] = stage[k]
  BY <1>1, <1>2
<1>5. Comes(Sessions', disk', Sessions, disk)
  BY <1>1, StateParts, CollectComes
<1>6. AllFromPrompts(Sessions', disk') /\ KeptOf(Sessions', disk') \subseteq KeptOf(Sessions, disk)
  BY <1>5, ComesFrom, ComesKept DEF RInv
<1>7. \A k \in Slots : SlotFrom(stage'[k], session'[k], plan'[k])
  <2> TAKE k \in Slots
  <2>1. CASE k = r
    <3>1. stage'[k] = "acquire" /\ session'[k] = NoSession
      BY <1>1, <1>2, <1>3, <2>1
    <3> QED BY <3>1 DEF SlotFrom
  <2>2. CASE k # r
    BY <1>1, <1>4, <2>2 DEF RInv
  <2> QED BY <2>1, <2>2
<1>8. RunningRequests' = RunningRequests
  <2>1. \A k \in Slots : session[k] = NoSession \/ plan'[k] = plan[k]
    BY <1>3, <1>4
  <2>2. RunsOf(session, plan') = RunsOf(session, plan)
    BY <2>1 DEF RunsOf
  <2> QED BY <1>1, <2>2, RunningIs
<1>9. Cache!Forget
  BY <1>6, <1>8, KeptIs DEF Cache!Forget
<1>10. RInv'
  BY <1>1, <1>6, <1>7 DEF RInv
<1> QED BY <1>9, <1>10 DEF Cache!Next
-----------------------------------------------------------------------------
(* The steps of a request that runs. *)

LEMMA Sessioned ==
    ASSUME IInv, NEW r \in Slots, stage[r] \in {"prefill", "decode", "release"}
    PROVE  session[r] # NoSession
BY NoSessionOK DEF IInv, StagePart

LEMMA SessionedNext ==
    ASSUME IInv', NEW r \in Slots, stage'[r] \in {"prefill", "decode", "release"}
    PROVE  session'[r] # NoSession
BY NoSessionOK DEF IInv, StagePart

(* One entry, or one session, more. *)
LEMMA EntryKept ==
    ASSUME NEW H, NEW d, NEW e, NEW d2, d2 \subseteq d \cup {e}, NEW B,
           \A c \in e.ckpts : c.rec \in B
    PROVE  KeptOf(H, d2) \subseteq KeptOf(H, d) \cup B
BY DEF KeptOf

LEMMA SessionKept ==
    ASSUME NEW H, NEW d, NEW s, NEW H2, H2 \subseteq H \cup {s}, NEW d2, d2 \subseteq d, NEW B,
           s.rec \in B, \A c \in s.ckpts : c.rec \in B
    PROVE  KeptOf(H2, d2) \subseteq KeptOf(H, d) \cup B
BY DEF KeptOf

LEMMA PrefixWrote ==
    ASSUME NEW p \in Prompts, NEW b \in Nat, b =< Len(p.cells)
    PROVE  Wrote(Prefix(p.cells, b), p) /\ Len(Prefix(p.cells, b)) = b
<1>1. p.cells \in Seq(Cell) /\ Len(p.cells) \in Nat
  BY PromptParts
<1>2. Len(Prefix(p.cells, b)) = b /\ \A i \in 1 .. b : Prefix(p.cells, b)[i] = p.cells[i]
  BY <1>1, PrefixIs
<1>3. \A k \in 1 .. b : k =< Len(p.cells)
  BY <1>1
<1> QED BY <1>2, <1>3 DEF Wrote

(* The prompt is computed up to `b`. *)
LEMMA PromptStep ==
    ASSUME SInv, IInv, IInv', NEW r \in Slots, stage[r] = "prefill",
           ~fault, NEW u, session' = [session EXCEPT ![r] = u],
           stage'[r] \in {"prefill", "decode", "release"},
           \A q \in Slots \ {r} : plan'[q] = plan[q], plan'[r].prompt = plan[r].prompt,
           NEW b \in Nat, Len(session[r].rec) =< b, b =< Len(plan[r].prompt.cells),
           u.rec = Prefix(plan[r].prompt.cells, b),
           KeptOf(Sessions', disk') \subseteq KeptOf(Sessions, disk) \cup Cache!Behind(u.rec)
    PROVE  Cache!Next
<1> DEFINE p == plan[r].prompt
           a == Len(session[r].rec)
<1>1. /\ SlotGood("prefill", session[r], plan[r], fault) /\ p \in Prompts
      /\ SessionShape(session[r])
  BY RunningParts
<1>2. session[r].rec = Prefix(p.cells, a) /\ session[r].rec \in Seq(CellType) /\ a \in Nat
  BY <1>1, SessionParts DEF SlotGood, OnPrompt, SessionShape
<1>3. p.cells \in Seq(Cell) /\ Len(p.cells) \in Nat
  BY <1>1, PromptParts
<1>4. Cache!IsPrefix(session[r].rec, u.rec) /\ Cache!IsPrefix(u.rec, p.cells)
  <2>1. a =< b /\ b =< Len(p.cells)
    OBVIOUS
  <2> HIDE DEF a, p
  <2>2. Cache!IsPrefix(Prefix(p.cells, a), Prefix(p.cells, b))
    BY <1>2, <1>3, <2>1, PrefixesNest
  <2>3. Cache!IsPrefix(Prefix(p.cells, b), p.cells)
    BY <1>3, <2>1, PrefixOfWhole
  <2> QED BY <1>2, <2>2, <2>3 DEF p
<1>5. session[r] # NoSession
  BY Sessioned
<1>6. u # NoSession
  <2>1. DOMAIN session = Slots /\ session'[r] # NoSession
    BY StateParts, SessionedNext DEF SlotsGood
  <2> QED BY <2>1
<1>7. u.rec \in Seq(CellType)
  <2>1. Prefix(p.cells, b) \in Seq(Cell) /\ Cell \subseteq CellType
    BY <1>3, PrefixIs DEF CellType
  <2> QED BY <2>1, SeqMonotonic
<1>8. DOMAIN session = Slots
  BY StateParts DEF SlotsGood
<1> QED BY <1>2, <1>3, <1>4, <1>5, <1>6, <1>7, <1>8, ComputeStep

(* A request moves, the others stay. *)
LEMMA SlotsFrom ==
    ASSUME SInv, RInv, NEW r \in Slots, NEW u, session' = [session EXCEPT ![r] = u],
           NEW st, stage' = [stage EXCEPT ![r] = st],
           \A q \in Slots \ {r} : plan'[q] = plan[q], SlotFrom(st, u, plan'[r])
    PROVE  \A q \in Slots : SlotFrom(stage'[q], session'[q], plan'[q])
<1> TAKE q \in Slots
<1>1. DOMAIN session = Slots /\ DOMAIN stage = Slots
  BY StateParts DEF SlotsGood
<1>2. CASE q = r
  BY <1>1, <1>2
<1>3. CASE q # r
  <2>1. session'[q] = session[q] /\ stage'[q] = stage[q] /\ plan'[q] = plan[q]
    BY <1>1, <1>3
  <2> QED BY <2>1 DEF RInv
<1> QED BY <1>2, <1>3

LEMMA DurableFrom ==
    ASSUME NEW p \in Prompts, NEW b \in Nat, b =< Len(p.cells), NEW s, OnPrompt(s, p),
           Len(s.rec) = b, s.rec \in Seq(CellType)
    PROVE  /\ FromPrompt(DurableOf(p, b, s))
           /\ \A c \in DurableOf(p, b, s).ckpts : c.rec = s.rec
<1> DEFINE e == DurableOf(p, b, s)
<1>1. e.kv = Prefix(s.kv, b) /\ e.images = images_within(p.images, b)
  BY DEF DurableOf
<1>2. Prefix(s.kv, b) = Prefix(p.cells, b)
  <2>1. s.kv = s.rec /\ s.rec = Prefix(p.cells, b)
    BY DEF OnPrompt
  <2> QED BY <2>1, PrefixAll
<1>3. e.ckpts = {[pos |-> b, rec |-> s.rec]}
  BY DEF DurableOf
<1> HIDE DEF e
<1>4. Wrote(e.kv, p) /\ Len(e.kv) = b
  BY <1>1, <1>2, PrefixWrote
<1>5. FromPrompt(e)
  BY <1>1, <1>4 DEF FromPrompt
<1>6. \A c \in e.ckpts : c.rec = s.rec
  BY <1>3
<1> QED BY <1>5, <1>6 DEF e

LEMMA StoreDurableRefines ==
    ASSUME SInv, IInv, IInv', RInv, NEW r \in Slots, StoreDurable(r) PROVE RInv' /\ Cache!Next
<1> DEFINE p == plan[r].prompt
           b == plan[r].boundary
           s == FedUpTo(session[r], p, b)
           e == DurableOf(p, b, s)
<1>1. /\ ~fault /\ stage[r] = "prefill" /\ b > 0
      /\ disk' \in Stored(expire(disk, now), e)
      /\ session' = [session EXCEPT ![r] = s]
      /\ plan' = [plan EXCEPT ![r].boundary = 0]
      /\ UNCHANGED <<entries, writing, stage, fault>>
  BY DEF StoreDurable, FedUpTo, DurableOf
<1>2. /\ SlotGood("prefill", session[r], plan[r], fault)
      /\ plan[r] \in PlanType /\ p \in Prompts /\ SessionShape(session[r])
      /\ b \in Nat /\ plan[r].agreement \in Nat
  BY <1>1, RunningParts
<1>3. /\ plan[r].reused < b /\ b =< plan[r].agreement /\ Len(session[r].rec) = plan[r].reused
      /\ plan[r].agreement < Len(p.cells) /\ OnPrompt(session[r], p) /\ plan[r].reused \in Nat
  BY <1>1, <1>2, RunningParts DEF SlotGood, Planned
<1>4. Len(p.cells) \in Nat
  BY <1>2, PromptParts
<1>5. Len(session[r].rec) =< b /\ b =< Len(p.cells)
  BY <1>2, <1>3, <1>4
<1>6. SessionShape(s) /\ Len(s.rec) = b /\ OnPrompt(s, p)
  BY <1>1, <1>2, <1>3, <1>5, PromptFed
<1> HIDE DEF s
<1>7. s.rec \in Seq(CellType) /\ s.rec = Prefix(p.cells, b)
  BY <1>6, SessionParts DEF SessionShape, OnPrompt
<1>8. FromPrompt(e) /\ \A c \in e.ckpts : c.rec = s.rec
  BY <1>2, <1>5, <1>6, <1>7, DurableFrom
<1>9. disk' \subseteq disk \cup {e}
  <2>1. disk' \subseteq expire(disk, now) \cup {e}
    BY <1>1, StoredWithin
  <2> QED BY <2>1 DEF expire
<1> HIDE DEF e
<1>10. Sessions' = Sessions
  BY <1>1 DEF Sessions, parked
<1>11. s.rec \in Cache!Behind(s.rec)
  <2>1. Len(s.rec) \in Nat /\ Prefix(s.rec, Len(s.rec)) = s.rec
    BY <1>7, LenProperties, PrefixAll
  <2> QED BY <1>7, <2>1, IsBehind
<1>12. KeptOf(Sessions', disk') \subseteq KeptOf(Sessions, disk) \cup Cache!Behind(s.rec)
  BY <1>8, <1>9, <1>10, <1>11, EntryKept
<1>13. /\ \A q \in Slots \ {r} : plan'[q] = plan[q]
       /\ plan'[r].prompt = p
  BY <1>1, <1>2, StateParts DEF SlotsGood, PlanType
<1>14. Cache!Next
  BY <1>1, <1>2, <1>5, <1>7, <1>12, <1>13, PromptStep
<1>15. AllFromPrompts(Sessions', disk')
  BY <1>8, <1>9, <1>10 DEF RInv, AllFromPrompts
<1>16. stage' = [stage EXCEPT ![r] = "prefill"]
  BY <1>1, StateParts DEF SlotsGood
<1>17. \A q \in Slots : SlotFrom(stage'[q], session'[q], plan'[q])
  <2>1. SlotFrom("prefill", s, plan'[r])
    BY DEF SlotFrom
  <2> QED BY <1>1, <1>13, <1>16, <2>1, SlotsFrom
<1>18. RInv'
  BY <1>1, <1>15, <1>17 DEF RInv
<1> QED BY <1>14, <1>18

LEMMA FinishPrefillRefines ==
    ASSUME SInv, IInv, IInv', RInv, NEW r \in Slots, FinishPrefill(r) PROVE RInv' /\ Cache!Next
<1> DEFINE p == plan[r].prompt
           n == Len(p.cells) - 1
           s == FedUpTo(session[r], p, n)
           u == [s EXCEPT !.ckpts = insert_checkpoint(@, Checkpoint(s, FALSE))]
<1>1. /\ ~fault /\ stage[r] = "prefill"
      /\ session' = [session EXCEPT ![r] = u]
      /\ stage' = [stage EXCEPT ![r] = "decode"]
      /\ UNCHANGED <<entries, writing, disk, plan, fault>>
  BY DEF FinishPrefill, FedUpTo, storeVars
<1>2. /\ SlotGood("prefill", session[r], plan[r], fault)
      /\ p \in Prompts /\ SessionShape(session[r])
  BY <1>1, RunningParts
<1>3. Len(session[r].rec) =< n /\ OnPrompt(session[r], p)
  BY <1>1, <1>2 DEF SlotGood, Planned
<1>4. n \in Nat /\ n =< Len(p.cells)
  <2> DEFINE m == Len(p.cells)
  <2>1. m \in Nat \ {0}
    BY <1>2, PromptParts
  <2> HIDE DEF m
  <2>2. m - 1 \in Nat /\ m - 1 =< m
    BY <2>1
  <2> QED BY <2>2 DEF m
<1>5. SessionShape(s) /\ Len(s.rec) = n /\ OnPrompt(s, p)
  <2> HIDE DEF n, p
  <2> QED BY <1>1, <1>2, <1>3, <1>4, PromptFed
<1> HIDE DEF s
<1>6. u.rec = s.rec
  BY <1>5 DEF SessionShape, SessionType
<1>7. u.rec = Prefix(p.cells, n)
  BY <1>5, <1>6 DEF OnPrompt
<1> HIDE DEF u, n
<1>8. Sessions' = Sessions /\ disk' = disk
  BY <1>1 DEF Sessions, parked
<1>9. stage'[r] = "decode"
  BY <1>1, StateParts DEF SlotsGood
<1>10. Cache!Next
  BY <1>1, <1>3, <1>4, <1>7, <1>8, <1>9, PromptStep
<1>11. \A q \in Slots : SlotFrom(stage'[q], session'[q], plan'[q])
  <2>1. SlotFrom("decode", u, plan'[r])
    BY DEF SlotFrom
  <2> QED BY <1>1, <2>1, SlotsFrom
<1>12. RInv'
  BY <1>1, <1>8, <1>11 DEF RInv
<1> QED BY <1>10, <1>12

(* The session given back. *)
LEMMA GivenBackFrom ==
    ASSUME SInv, RInv, NEW r \in Slots, NEW u, GiveBack(r, u), Wrote(u.kv, plan[r].prompt)
    PROVE  /\ RInv' /\ KeptOf(Sessions', disk') \subseteq KeptOf(Sessions, disk)
           /\ session' = [session EXCEPT ![r] = u] /\ plan' = plan /\ stage'[r] = "release"
<1>1. /\ session' = [session EXCEPT ![r] = u]
      /\ stage' = [stage EXCEPT ![r] = "release"]
      /\ collect_finished /\ UNCHANGED <<plan, fault>>
  BY DEF GiveBack
<1>2. Comes(Sessions', disk', Sessions, disk)
  BY <1>1, StateParts, CollectComes
<1>3. AllFromPrompts(Sessions', disk') /\ KeptOf(Sessions', disk') \subseteq KeptOf(Sessions, disk)
  BY <1>2, ComesFrom, ComesKept DEF RInv
<1>4. \A q \in Slots : SlotFrom(stage'[q], session'[q], plan'[q])
  <2>1. SlotFrom("release", u, plan'[r])
    BY <1>1 DEF SlotFrom
  <2> QED BY <1>1, <2>1, SlotsFrom
<1>5. RInv'
  BY <1>1, <1>3, <1>4 DEF RInv
<1>6. stage'[r] = "release"
  BY <1>1, StateParts DEF SlotsGood
<1> QED BY <1>1, <1>3, <1>5, <1>6

LEMMA StopPrefillRefines ==
    ASSUME SInv, IInv, IInv', RInv, NEW r \in Slots, NEW at \in Nat, StopPrefill(r, at)
    PROVE  RInv' /\ Cache!Next
<1> DEFINE q == plan[r]
           p == q.prompt
           s == session[r]
           v == FedUpTo(s, p, at)
           t == Prefix(v.tokens, q.reused) \o SubSeq(tokens(p), q.reused + 1, at)
           u == [v EXCEPT !.tokens = t]
<1>1. /\ stage[r] = "prefill" /\ Len(s.rec) =< at
      /\ at =< (IF q.boundary > 0 THEN q.boundary ELSE Len(p.cells) - 1)
      /\ GiveBack(r, u)
  BY DEF StopPrefill, FedUpTo
<1>2. /\ SlotGood("prefill", s, q, fault) /\ p \in Prompts /\ SessionShape(s)
      /\ q.agreement \in Nat /\ q.boundary \in Nat
  BY <1>1, RunningParts
<1>3. Planned(s, q) /\ OnPrompt(s, p) /\ ~fault
  BY <1>2 DEF SlotGood, RInv
<1>4. Len(p.cells) \in Nat
  BY <1>2, PromptParts
<1>5. at =< Len(p.cells)
  <2>1. CASE q.boundary > 0
    BY <1>1, <1>2, <1>3, <1>4, <2>1 DEF Planned
  <2>2. CASE ~(q.boundary > 0)
    <3>1. at =< Len(p.cells) - 1
      BY <1>1, <2>2
    <3>2. \A m \in Nat : at =< m - 1 => at =< m
      OBVIOUS
    <3> QED BY ONLY <1>4, <3>1, <3>2
  <2> QED BY <2>1, <2>2
<1>6. SessionShape(v) /\ Len(v.rec) = at /\ OnPrompt(v, p)
  BY <1>1, <1>2, <1>3, <1>5, PromptFed
<1> HIDE DEF v
<1>7. u.rec = v.rec /\ u.kv = v.kv
  BY <1>6 DEF SessionShape, SessionType
<1> HIDE DEF u
<1>8. u.rec = Prefix(p.cells, at) /\ u.kv = u.rec
  BY <1>6, <1>7 DEF OnPrompt
<1>9. Wrote(u.kv, p)
  BY <1>2, <1>5, <1>8, PrefixWrote
<1>10. /\ RInv' /\ KeptOf(Sessions', disk') \subseteq KeptOf(Sessions, disk)
       /\ session' = [session EXCEPT ![r] = u] /\ plan' = plan /\ stage'[r] = "release"
  BY <1>1, <1>9, GivenBackFrom
<1>11. Cache!Next
  BY <1>1, <1>3, <1>5, <1>8, <1>10, PromptStep
<1> QED BY <1>10, <1>11

(* What an answer computed. *)
LEMMA AnswerComputed ==
    ASSUME NEW p \in Prompts, NEW gen \in Seq(Text), NEW w, w = AnswerCells(p, gen)
    PROVE  /\ w \in Seq(CellType) /\ Wrote(w, p) /\ Cache!IsPrefix(p.cells, w)
           /\ Cache!IsPrefix(Prefix(p.cells, Len(p.cells) - 1), w)
<1> DEFINE n == Len(p.cells)
           g == Len(gen)
<1>1. /\ w \in Seq(Cell) /\ Len(w) = n + g
      /\ \A i \in 1 .. n : w[i] = p.cells[i]
      /\ \A i \in 1 .. g : w[n + i] = gen[i]
  BY AnswerFed DEF Agree, Behind
<1>2. /\ n \in Nat \ {0} /\ p.cells \in Seq(Cell) /\ g \in Nat
      /\ \A i \in 1 .. g : gen[i] \in Text
  BY PromptParts, LenProperties, ElementOfSeq
<1> HIDE DEF n, g
<1>3. w \in Seq(CellType)
  <2>1. Cell \subseteq CellType
    BY DEF CellType
  <2> QED BY <1>1, <2>1, SeqMonotonic
<1>4. Wrote(w, p)
  <2> SUFFICES ASSUME NEW k \in 1 .. Len(w)
               PROVE  IF k =< n THEN w[k] = p.cells[k] ELSE w[k] \in Text
    BY DEF Wrote, n
  <2>1. CASE k =< n
    <3>1. k \in 1 .. n
      BY <1>1, <1>2, <2>1
    <3> QED BY <1>1, <2>1, <3>1
  <2>2. CASE ~(k =< n)
    <3> DEFINE j == k - n
    <3>1. j \in 1 .. g /\ k = n + j
      BY <1>1, <1>2, <2>2
    <3> HIDE DEF j
    <3>2. w[n + j] = gen[j] /\ gen[j] \in Text
      BY <1>1, <1>2, <3>1
    <3>3. w[k] \in Text
      BY ONLY <3>1, <3>2
    <3> QED BY <2>2, <3>3
  <2> QED BY <2>1, <2>2
<1>5. p.cells = Prefix(w, n)
  <2>1. n =< Len(w) /\ Len(p.cells) = n /\ \A i \in 1 .. n : p.cells[i] = w[i]
    BY <1>1, <1>2 DEF n
  <2> DEFINE c == p.cells
  <2>2. c \in Seq(Cell) /\ w \in Seq(Cell) /\ n \in Nat
    BY <1>1, <1>2
  <2>3. n =< Len(w) /\ Len(c) = n /\ \A i \in 1 .. n : c[i] = w[i]
    BY <2>1
  <2> HIDE DEF c
  <2>4. c = Prefix(w, n)
    BY ONLY <2>2, <2>3, PrefixMeans
  <2> QED BY <2>4 DEF c
<1>6. n - 1 \in Nat /\ n - 1 =< n /\ n =< Len(w)
  BY <1>1, <1>2
<1>7. Cache!IsPrefix(Prefix(w, n), w)
  BY <1>1, <1>2, <1>6, PrefixOfWhole
<1>8. Prefix(p.cells, n - 1) = Prefix(w, n - 1)
  <2> DEFINE m == n - 1
  <2>1. m \in Nat /\ m =< n /\ n \in Nat /\ n =< Len(w) /\ w \in Seq(Cell)
    BY <1>1, <1>2
  <2> HIDE DEF m
  <2>2. Prefix(Prefix(w, n), m) = Prefix(w, m)
    BY ONLY <2>1, PrefixOfPrefix
  <2> QED BY <1>5, <2>2 DEF m
<1>9. Cache!IsPrefix(Prefix(w, n - 1), w)
  <2> DEFINE m == n - 1
  <2>1. m \in Nat /\ m =< Len(w)
    BY <1>1, <1>2
  <2> HIDE DEF m
  <2>2. Cache!IsPrefix(Prefix(w, m), w)
    BY <1>1, <2>1, PrefixOfWhole
  <2> QED BY <2>2 DEF m
<1> QED BY <1>3, <1>4, <1>5, <1>7, <1>8, <1>9 DEF n

LEMMA AnswerFeeds ==
    ASSUME NEW p \in Prompts, NEW gen \in Seq(Text)
    PROVE  <<p.cells[Len(p.cells)]>> \o gen \in Seq(Cell)
<1> DEFINE n == Len(p.cells)
           b == <<p.cells[n]>>
<1>1. p.cells[n] \in Cell
  <2>1. p.cells \in Seq(Cell) /\ n \in 1 .. n
    BY PromptParts
  <2> QED BY <2>1, ElementOfSeq
<1>2. b \in Seq(Cell)
  BY <1>1
<1>3. gen \in Seq(Cell)
  <2>1. Text \subseteq Cell
    BY DEF Cell
  <2> QED BY <2>1, SeqMonotonic
<1> HIDE DEF b
<1>4. b \o gen \in Seq(Cell)
  BY <1>2, <1>3, ConcatProperties
<1> QED BY <1>4 DEF b

LEMMA AnswerRefines ==
    ASSUME SInv, IInv, IInv', RInv, NEW r \in Slots, NEW gen \in Answers, Answer(r, gen)
    PROVE  RInv' /\ Cache!Next
<1> DEFINE q == plan[r]
           p == q.prompt
           n == Len(p.cells)
           s == session[r]
           cells == <<p.cells[n]>> \o gen
           v == Feed(s, cells)
<1>1. stage[r] = "decode" /\ \E t, d, c : GiveBack(r, [v EXCEPT !.tokens = t, !.ckpts = d, !.cap = c])
  BY Zenon DEF Answer
<1>2. /\ SlotGood("decode", s, q, fault) /\ p \in Prompts /\ SessionShape(s) /\ ~fault
  BY <1>1, RunningParts DEF RInv
<1>3. OnPrompt(s, p) /\ Len(s.rec) = n - 1
  BY <1>2 DEF SlotGood
<1>4. gen \in Seq(Text)
  BY RequestsAssumption
<1>5. cells \in Seq(Cell)
  BY <1>2, <1>4, AnswerFeeds
<1>6. s.rec = Prefix(p.cells, n - 1) /\ s.kv = s.rec
  BY <1>3 DEF OnPrompt
<1>7. s.rec \o cells = AnswerCells(p, gen)
  BY <1>6 DEF AnswerCells
<1> HIDE DEF cells
<1>8. SessionShape(v) /\ v.rec = s.rec \o cells /\ v.kv = v.rec
  BY <1>2, <1>5, <1>6, FeedIs
<1> HIDE DEF v
<1>9. PICK u : GiveBack(r, u) /\ u.rec = v.rec /\ u.kv = v.kv
  <2>1. PICK t, d, c : GiveBack(r, [v EXCEPT !.tokens = t, !.ckpts = d, !.cap = c])
    BY <1>1
  <2> DEFINE w == [v EXCEPT !.tokens = t, !.ckpts = d, !.cap = c]
  <2>2. w.rec = v.rec /\ w.kv = v.kv
    BY <1>8 DEF SessionShape, SessionType
  <2>3. GiveBack(r, w)
    BY <2>1
  <2> HIDE DEF w
  <2> QED BY <2>2, <2>3
<1>10. u.rec = AnswerCells(p, gen) /\ u.kv = u.rec
  BY <1>7, <1>8, <1>9
<1>11. /\ u.rec \in Seq(CellType) /\ Wrote(u.kv, p) /\ Cache!IsPrefix(p.cells, u.rec)
       /\ Cache!IsPrefix(s.rec, u.rec)
  BY <1>2, <1>4, <1>6, <1>10, AnswerComputed
<1>12. /\ RInv' /\ KeptOf(Sessions', disk') \subseteq KeptOf(Sessions, disk)
       /\ session' = [session EXCEPT ![r] = u] /\ plan' = plan /\ stage'[r] = "release"
  BY <1>9, <1>11, GivenBackFrom
<1>13. /\ DOMAIN session = Slots /\ s # NoSession /\ u # NoSession
       /\ p.cells \in Seq(Cell) /\ s.rec \in Seq(CellType)
  <2>1. DOMAIN session = Slots
    BY StateParts DEF SlotsGood
  <2>2. s # NoSession
    BY <1>1, Sessioned
  <2>3. session'[r] # NoSession
    BY <1>12, SessionedNext
  <2>4. s.rec \in Seq(CellType)
    BY <1>2, SessionParts DEF SessionShape
  <2> QED BY <1>2, <1>12, <2>1, <2>2, <2>3, <2>4, PromptParts
<1>14. Cache!Next
  BY <1>11, <1>12, <1>13, ComputeStep
<1> QED BY <1>12, <1>14
-----------------------------------------------------------------------------
(* A request ends, and the process. *)

LEMMA KeptOfSession ==
    ASSUME NEW s \in SessionType, NEW images, NEW k, k = Kept([s EXCEPT !.disk = NoCopy], images)
    PROVE  /\ k.kv = s.kv /\ k.rec = s.rec /\ k.ckpts \subseteq s.ckpts
           /\ k.images = images_within(images, Len(s.tokens))
<1> DEFINE u == [s EXCEPT !.disk = NoCopy]
           inside == {c \in u.ckpts : /\ c.pos =< Len(u.tokens)
                                      /\ c.decode => u.request_start < c.pos /\ c.pos < Len(u.tokens)}
           e == keep_newest(keep_newest(inside, FALSE, MaxCheckpoints), TRUE, MaxDecode)
           im == images_within(images, Len(u.tokens))
<1>1. /\ DOMAIN u = DOMAIN s /\ u.kv = s.kv /\ u.rec = s.rec /\ u.ckpts = s.ckpts
      /\ u.tokens = s.tokens
  BY DEF SessionType
<1>2. e \subseteq s.ckpts
  <2>1. inside \subseteq s.ckpts
    BY <1>1
  <2> HIDE DEF inside
  <2> QED BY <2>1, KeepsSome
<1>3. k = [u EXCEPT !.images = im, !.born = FALSE, !.ckpts = e, !.last_used = clock + 1]
  BY DEF Kept
<1>4. im = images_within(images, Len(s.tokens))
  BY <1>1
<1> HIDE DEF u, e, im
<1>5. k.kv = u.kv /\ k.rec = u.rec /\ k.ckpts = e /\ k.images = im
  BY <1>1, <1>3 DEF SessionType
<1> QED BY <1>1, <1>2, <1>4, <1>5

LEMMA ReleaseRefines == ASSUME SInv, IInv, RInv, Release PROVE RInv' /\ Cache!Next
<1> DEFINE s == session[cur]
           p == plan[cur].prompt
           o == DiscardCopy(s)
           k == Kept(o.session, p.images)
<1>1. /\ pc = "release"
      /\ session' = [session EXCEPT ![cur] = NoSession]
      /\ plan' = [plan EXCEPT ![cur] = None]
      /\ stage' = [stage EXCEPT ![cur] = "none"]
      /\ UNCHANGED <<writing, fault>>
  BY DEF Release
<1>2. \/ UNCHANGED <<entries, disk>>
      \/ disk' = o.disk /\ entries' = entries \cup {k}
  BY Zenon DEF Release
<1>3. cur \in Slots /\ stage[cur] = "release"
  BY <1>1 DEF SInv, PlaceGood
<1>4. /\ SlotGood("release", s, plan[cur], fault) /\ p \in Prompts /\ SessionShape(s) /\ ~fault
  BY <1>3, RunningParts DEF RInv
<1>5. Len(s.tokens) = Len(s.rec) /\ Answered(s, p) /\ Wrote(s.kv, p)
  BY <1>3, <1>4 DEF SlotGood, RInv, SlotFrom
<1>6. o.session = [s EXCEPT !.disk = NoCopy] /\ o.disk \subseteq disk
  BY DEF DiscardCopy, remove
<1>7. /\ k.kv = s.kv /\ k.rec = s.rec /\ k.ckpts \subseteq s.ckpts
      /\ k.images = images_within(p.images, Len(s.tokens))
  <2>1. k = Kept([s EXCEPT !.disk = NoCopy], p.images) /\ s \in SessionType
    BY <1>4, <1>6 DEF SessionShape
  <2> HIDE DEF k
  <2> QED BY <2>1, KeptOfSession
<1> HIDE DEF k, o
<1>8. FromPrompt(k)
  <2>1. Len(k.kv) = Len(s.tokens)
    BY <1>4, <1>5, <1>7 DEF SessionShape
  <2> QED BY <1>4, <1>5, <1>7, <2>1 DEF FromPrompt
<1>9. s.rec \in Seq(CellType) /\ s.ckpts \in SUBSET CkptType
  BY <1>4, SessionParts DEF SessionShape
<1>10. s.rec \in Cache!Behind(s.rec)
  <2>1. Len(s.rec) \in Nat /\ Prefix(s.rec, Len(s.rec)) = s.rec
    BY <1>9, LenProperties, PrefixAll
  <2> QED BY <1>9, <2>1, IsBehind
<1>11. ASSUME NEW c \in k.ckpts PROVE c.rec \in Cache!Behind(s.rec)
  <2>1. c \in s.ckpts /\ c \in CkptType
    BY <1>7, <1>9
  <2>2. c.rec = Prefix(s.rec, c.pos) /\ c.pos =< Len(s.rec) /\ c.pos \in Nat
    BY <1>4, <1>5, <2>1, CkptParts DEF Answered, SessionShape
  <2> QED BY <1>9, <2>2, IsBehind
<1>12. /\ Sessions' \subseteq Sessions \cup {k} /\ disk' \subseteq disk
  BY <1>1, <1>2, <1>6 DEF Sessions, parked
<1>13. KeptOf(Sessions', disk') \subseteq KeptOf(Sessions, disk) \cup Cache!Behind(s.rec)
  <2> DEFINE B == Cache!Behind(s.rec)
  <2>1. k.rec \in B /\ \A c \in k.ckpts : c.rec \in B
    BY <1>7, <1>10, <1>11
  <2> HIDE DEF B
  <2>2. KeptOf(Sessions', disk') \subseteq KeptOf(Sessions, disk) \cup B
    BY <1>12, <2>1, SessionKept
  <2> QED BY <2>2 DEF B
<1>14. AllFromPrompts(Sessions', disk')
  BY <1>8, <1>12 DEF RInv, AllFromPrompts
<1>15. /\ DOMAIN session = Slots /\ DOMAIN plan = Slots /\ s # NoSession /\ p.cells \in Seq(Cell)
  BY <1>3, <1>4, StateParts, Sessioned, PromptParts DEF SlotsGood
<1>16. \A q \in Slots \ {cur} : plan'[q] = plan[q]
  BY <1>1, <1>15
<1>17. Cache!Next
  BY <1>1, <1>3, <1>9, <1>13, <1>15, <1>16, EndStep
<1>18. \A q \in Slots : SlotFrom(stage'[q], session'[q], plan'[q])
  <2>1. SlotFrom("none", NoSession, plan'[cur])
    BY DEF SlotFrom
  <2> QED BY <1>1, <1>3, <1>16, <2>1, SlotsFrom
<1>19. RInv'
  BY <1>1, <1>4, <1>14, <1>18 DEF RInv
<1> QED BY <1>17, <1>19
-----------------------------------------------------------------------------
(* The store implements the cache. *)

LEMMA InitRefines == Init => RInv /\ Cache!Init
<1> SUFFICES ASSUME Init PROVE RInv /\ Cache!Init
  OBVIOUS
<1>1. /\ entries = {} /\ writing = None /\ disk = {} /\ fault = FALSE
      /\ stage = [r \in Slots |-> "none"] /\ session = [r \in Slots |-> NoSession]
  BY DEF Init
<1>2. Sessions = {} /\ AllFromPrompts(Sessions, disk)
  BY <1>1 DEF Sessions, parked, AllFromPrompts
<1>3. RInv
  BY <1>1, <1>2 DEF RInv, SlotFrom
<1>4. KeptStates = {} /\ RunningRequests = [r \in Slots |-> None]
  <2>1. KeptOf(Sessions, disk) = {}
    BY <1>1, <1>2 DEF KeptOf
  <2> QED BY <1>1, <2>1, KeptIs DEF RunningRequests
<1> QED BY <1>3, <1>4 DEF Cache!Init

LEMMA NextRefines ==
    ASSUME ~MayFail, ~FaultMayHappen, MaxAge = 0, SInv, SInv', IInv, IInv', LookInv, RInv,
           [Next]_vars
    PROVE  RInv' /\ Cache!Next
<1>1. CASE Moves
  BY <1>1, MovesStep
<1>2. ASSUME NEW r \in Slots, Request(r) PROVE RInv' /\ Cache!Next
  <2>1. ASSUME NEW p \in Prompts, Acquire(r, p) PROVE RInv' /\ Cache!Next
    BY <2>1, AcquireRefines
  <2>2. CASE StoreDurable(r)
    BY <2>2, StoreDurableRefines
  <2>3. CASE FinishPrefill(r)
    BY <2>3, FinishPrefillRefines
  <2>4. ASSUME NEW at, StopPrefill(r, at), at \in 0 .. Max({Len(p.cells) : p \in Prompts})
        PROVE  RInv' /\ Cache!Next
    <3>1. at \in Nat
      BY <2>4
    <3> QED BY <2>4, <3>1, StopPrefillRefines
  <2>5. ASSUME NEW gen \in Answers, Answer(r, gen) PROVE RInv' /\ Cache!Next
    BY <2>5, AnswerRefines
  <2>6. ~Fail(r)
    BY DEF Fail, RInv
  <2> QED BY <1>2, <2>1, <2>2, <2>3, <2>4, <2>5, <2>6 DEF Request
<1>3. CASE Lookup
  BY <1>3, LookupBegins
<1>4. CASE Release
  BY <1>4, ReleaseRefines
<1>5. CASE Reload \/ Recover \/ Crash
  <2>1. NewStore
    BY <1>5 DEF Reload, Recover, Crash
  <2> QED BY <2>1, RestartStep
<1>6. ~Fault
  BY DEF Fault
<1> QED BY <1>1, <1>2, <1>3, <1>4, <1>5, <1>6 DEF Next, Inside, Moves

(* While nothing fails and nothing expires, a request always starts from    *)
(* the longest decode state of its prompt that the store ever computed and  *)
(* still has, whatever tier it lies in, and the store offers nothing that   *)
(* no request computed: not after forks, cut-backs, cancelled prefills,     *)
(* writes ahead, spills, unloads or restarts (acquire, release).            *)
THEOREM StoreImplementsPromptCache ==
    ~MayFail /\ ~FaultMayHappen /\ MaxAge = 0 => (Spec => ImplementsPromptCache)
<1> SUFFICES ASSUME ~MayFail, ~FaultMayHappen, MaxAge = 0 PROVE Spec => ImplementsPromptCache
  OBVIOUS
<1>1. Init => RInv /\ Cache!Init
  BY InitRefines
<1>2. /\ SInv /\ SInv' /\ IInv /\ IInv' /\ LookInv /\ RInv /\ [Next]_vars
      => RInv' /\ [Cache!Next]_<<KeptStates, RunningRequests>>
  BY NextRefines
<1> QED BY <1>1, <1>2, SInvAlways, Invariance, BeatenAlways, PTL
        DEF Spec, ImplementsPromptCache, Cache!Spec
=============================================================================
