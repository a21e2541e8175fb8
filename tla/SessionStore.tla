---------------------------- MODULE SessionStore ----------------------------
(***************************************************************************)
(* The session cache of the server (src/serve/session.rs) with the disk    *)
(* tier below it and the requests that use it (admission and answer of     *)
(* src/serve/request.rs, one or several in flight as src/serve/batch.rs    *)
(* schedules them).  Three parties act: the engine thread, which runs      *)
(* every store operation and whose place within one is `pc`; the           *)
(* write-ahead thread, which copies one parked session to disk; and the    *)
(* environment (clients leaving, GPU faults, write errors, time, crashes). *)
(*                                                                         *)
(* A decode state is what it was computed from: `kv`, the cells behind the *)
(* per-token caches, and `rec`, the cells behind the recurrent state,      *)
(* whose number is the state's position.  The code sees neither, only the  *)
(* tokens; that is what can go wrong.                                      *)
(***************************************************************************)
EXTENDS PrefixMatch, DecodeSpacing, DiskTier

CONSTANTS
    Slots,            \* the requests that can be in flight at once
    Prompts,          \* the prompts clients send: [cells, images]
    Answers,          \* the generated tokens that get fed, as sequences
    Opener,           \* the tokens that open a user turn
    Budget,           \* GPU bytes of the store
    MaxSessions,      \* max_sessions
    MaxCheckpoints,   \* CHECKPOINTS_PER_SESSION
    DecodeInterval,   \* decode_interval; 0: no decode checkpoints
    MaxDecode,        \* DECODE_CHECKPOINTS_PER_SESSION
    MinDisk,          \* MIN_DISK_TOKENS
    DurableMin,       \* durable_min_tokens; 0: no durable entries
    WriteAheadFloor,  \* write_ahead_floor
    RecentNew,        \* RECENT_NEW_SESSIONS
    Growth,           \* ADMIT_GROWTH_TOKENS
    MayFail,          \* whether disk I/O and requests may fail
    FaultMayHappen,   \* whether the GPU may fault
    CrashMayHappen,   \* whether the process may die
    MaxRequests,      \* bound: requests served
    MaxTime,          \* bound: seconds that pass
    MaxEntryId,       \* bound: entries named before the write ahead stops
    Garbage,          \* what a faulted GPU computes
    None

ASSUME SessionStoreAssumption ==
    /\ IsFiniteSet(Slots) /\ Opener \in Seq(Text)
    /\ {Budget, MaxSessions, DecodeInterval, MaxDecode, DurableMin, MinDisk,
        WriteAheadFloor, Growth, MaxRequests, MaxTime, MaxEntryId} \subseteq Nat
    /\ {MaxSessions, MaxCheckpoints, RecentNew} \subseteq Nat \ {0}
    /\ {MayFail, FaultMayHappen, CrashMayHappen} \subseteq BOOLEAN
    /\ Garbage \notin Cell

VARIABLES
    entries,    \* the resident sessions
    writing,    \* the write ahead: None or [session, id, phase]
    disk,       \* the disk tier's index
    next_id,    \* the number of the disk tier's next entry
    next_lin,   \* the lineage counter
    clock,      \* the store's use counter
    recent_new, \* sizes of the latest new sessions, the newest last
    stage,      \* per slot: "none", "acquire", "prefill", "decode", "release"
    session,    \* per slot: the session checked out, or NoSession
    plan,       \* per slot: what the acquire found out for the request, or None
    pc,         \* where the engine thread is
    cur,        \* the slot it works for, or None
    fault,      \* the context recorded a GPU fault
    now,        \* seconds
    served      \* requests so far

storeVars == <<entries, writing, disk, next_id, clock, recent_new>>
reqVars   == <<stage, session, plan>>
vars      == <<storeVars, next_lin, reqVars, pc, cur, fault, now, served>>
-----------------------------------------------------------------------------
(* Sessions and what they cost. *)

(* DiskCopy *)
NoCopy      == <<"none">>
Refused     == <<"refused">>
Written(id) == <<"written", id>>

new_session(cap, lineage) ==
    [tokens |-> <<>>, images |-> {}, kv |-> <<>>, rec |-> <<>>, ckpts |-> {},
     request_start |-> 0, answer_start |-> 0, last_used |-> 0, disk |-> NoCopy,
     born |-> TRUE, lineage |-> lineage, cap |-> cap]

(* No lineage has the number 0 (Lineages::starting_at). *)
NoSession == new_session(0, 0)

Checkpoint(s, decode) == [pos |-> Len(s.rec), decode |-> decode, rec |-> s.rec]

(* Duplicates by position are dropped. *)
insert_checkpoint(ckpts, c) ==
    IF \E d \in ckpts : d.pos = c.pos THEN ckpts ELSE ckpts \cup {c}

checkpoint_at(s, pos) == CHOOSE c \in s.ckpts : c.pos = pos

(* A state's caches have a capacity; every checkpoint is a snapshot more. *)
bytes(s) == s.cap + Cardinality(s.ckpts)

at_rest(s) == Len(s.rec) = Len(s.tokens)

Prefix(s, n) == SubSeq(s, 1, n)

(* The state computes `cells` behind its position. *)
Feed(s, cells) ==
    LET computed == IF fault THEN [i \in DOMAIN cells |-> Garbage] ELSE cells
    IN  [s EXCEPT !.kv = Prefix(@, Len(s.rec)) \o computed, !.rec = @ \o computed]

parked == IF writing = None THEN {} ELSE {writing.session}

used_bytes == MapThenSumSet(bytes, entries \cup parked)
len        == Cardinality(entries \cup parked)

Busy == {r \in Slots : session[r] # NoSession}

(* in_flight_bytes: the sessions of the requests other than `cur`. *)
in_flight_bytes == MapThenSumSet(LAMBDA r : bytes(session[r]), Busy \ {cur})

HeldInStore(id) == \E s \in entries \cup parked : s.lineage = id \* mutant: forgets requests
lineage_held(id) ==
    \/ \E s \in entries \cup parked : s.lineage = id
    \/ \E r \in Busy : session[r].lineage = id
-----------------------------------------------------------------------------
(* What the store writes to disk. *)

(* Plan::of: the checkpoints strictly inside, then the live end. *)
PlanOf(s) ==
    {[pos |-> c.pos, rec |-> c.rec] : c \in {d \in s.ckpts : 0 < d.pos /\ d.pos < Len(s.tokens)}}
      \cup {[pos |-> Len(s.tokens), rec |-> s.rec]}

NewEntry(s, id) ==
    [id |-> id, tokens |-> s.tokens, images |-> s.images, kv |-> s.kv,
     ckpts |-> PlanOf(s), bytes |-> Len(s.tokens) + Cardinality(PlanOf(s)),
     used |-> now, durable |-> FALSE, lineage |-> s.lineage]

(* Whether the volume keeps its free-space margin. *)
Spare == IF MayFail THEN BOOLEAN ELSE {TRUE}

(* The indexes a write of `new` may leave: committed, or failed. *)
Stored(d, new) ==
    (UNION {commit(d, new, spare) : spare \in Spare}) \cup (IF MayFail THEN {d} ELSE {})

(* reserve: the next entry's directory is picked, its number never again.  *)
reserve == next_id + 1

FinishedWell == writing # None /\ writing.phase = "written" \* mutant: a failed write is not noticed
finished == writing # None /\ writing.phase # "running"

(* finish_write(false) on a finished write: the session with its copy      *)
(* recorded, and the index.                                                *)
finish_write ==
    LET s == writing.session
    IN  IF writing.phase = "failed"
        THEN {[session |-> [s EXCEPT !.disk = Refused], disk |-> disk]}
        ELSE {[session |-> [s EXCEPT !.disk = IF contains(d, writing.id)
                                              THEN Written(writing.id) ELSE Refused],
               disk |-> d]
                : d \in UNION {commit(disk, NewEntry(s, writing.id), spare) : spare \in Spare}}

(* A finished write's session becomes resident again. *)
collect_finished ==
    IF finished
    THEN /\ \E o \in finish_write : entries' = entries \cup {o.session} /\ disk' = o.disk
         /\ writing' = None
    ELSE UNCHANGED <<entries, disk, writing>>

SpillableFaulted(s) == Len(s.tokens) >= MinDisk /\ at_rest(s) \* mutant: spills after a fault
spillable(s) == Len(s.tokens) >= MinDisk /\ at_rest(s) /\ ~fault

(* Whether the copy written ahead of `s` is still in the index. *)
TrustsCopy(s, d) == s.disk[1] = "written" \* mutant: the tier may have deleted it
has_copy(s, d) == s.disk[1] = "written" /\ contains(d, s.disk[2])

(* Takes `s` out of GPU memory, the index being `d`: a drop when its copy  *)
(* is on disk, else a spill, when it can and may be written.               *)
evict(s, d) ==
    \/ has_copy(s, d) /\ disk' = touch(d, s.disk[2], now) /\ next_id' = next_id
    \/ /\ ~has_copy(s, d) /\ s.disk # Refused /\ spillable(s)
       /\ disk' \in Stored(expire(d, now), NewEntry(s, next_id))
       /\ next_id' = reserve
    \/ /\ ~has_copy(s, d) /\ (s.disk = Refused \/ ~spillable(s))
       /\ disk' = d /\ next_id' = next_id

(* The least recently used session goes, the parked one included: its      *)
(* eviction waits for the write.                                           *)
evict_lru ==
    \/ /\ writing # None
       /\ \A s \in entries : writing.session.last_used < s.last_used
       /\ finished
       /\ \E o \in finish_write : evict(o.session, o.disk)
       /\ writing' = None
       /\ entries' = entries
    \/ \E s \in entries :
       /\ \A t \in entries : s.last_used =< t.last_used
       /\ writing # None => writing.session.last_used >= s.last_used
       /\ evict(s, disk)
       /\ entries' = entries \ {s}
       /\ writing' = writing
-----------------------------------------------------------------------------
(* acquire *)

Positions(l) == {c.pos : c \in l.ckpts}
tokens(p)    == TokensOf(p.cells)
ResumeAt(l, p) == resume_position(l, Positions(l), tokens(p), p.images)

(* admits: with nothing running a request always starts. *)
fits(p) ==
    Busy = {} \/ in_flight_bytes + Len(p.cells) + Growth + 1
                 + decode_checkpoints_within(DecodeInterval, MaxDecode, Growth) =< Budget

(* A job is admitted (one at a time) and its acquire starts by collecting. *)
Acquire(r, p) ==
    /\ pc = "idle" /\ ~fault /\ served < MaxRequests
    /\ stage[r] = "none" /\ \A q \in Slots : stage[q] # "prefill"
    /\ fits(p)
    /\ collect_finished
    /\ stage' = [stage EXCEPT ![r] = "acquire"]
    /\ plan' = [plan EXCEPT ![r] = [prompt |-> p, reused |-> 0, agreement |-> 0,
                                    cut_back |-> FALSE, boundary |-> 0]]
    /\ pc' = "reclaim" /\ cur' = r /\ served' = served + 1
    /\ UNCHANGED <<session, next_id, next_lin, clock, recent_new, fault, now>>

prompt == plan[cur].prompt

(* Mutant: a parked session is never taken back. *)
NeverReclaim ==
    /\ pc = "reclaim" /\ pc' = "lookup"
    /\ UNCHANGED <<entries, writing, disk, next_id, next_lin, clock, recent_new, reqVars, cur,
                   fault, now, served>>

(* The parked session is taken back when nothing resumes the prompt        *)
(* further: its write is cancelled, whatever became of it.                 *)
reclaim_for ==
    /\ pc = "reclaim"
    /\ IF /\ writing # None
          /\ LET pos == ResumeAt(writing.session, prompt)
             IN  pos > 0 /\ \A l \in entries \cup disk : ResumeAt(l, prompt) =< pos
       THEN entries' = entries \cup {[writing.session EXCEPT !.disk = NoCopy]} /\ writing' = None
       ELSE UNCHANGED <<entries, writing>>
    /\ pc' = "lookup"
    /\ UNCHANGED <<disk, next_id, next_lin, clock, recent_new, reqVars, cur, fault, now, served>>

(* The lookup expires the tier first. *)
Fresh    == expire(disk, now)
BestGPU  == Max({0} \cup {ResumeAt(s, prompt) : s \in entries})
BestDisk == Max({0} \cup {ResumeAt(e, prompt) : e \in Fresh})

(* `s`, resumed at `reused`, is checked out by `cur`; the admission then   *)
(* decides whether a durable entry is worth writing on the way.            *)
Checkout(s, reused, cut) ==
    LET n      == Len(prompt.cells)
        agreed == agreement(tokens(prompt), prompt.images, entries \cup parked \cup Fresh)
        turn   == IF agreed > reused THEN last_user_turn(Prefix(tokens(prompt), agreed), Opener)
                                     ELSE 0
    IN  /\ session' = [session EXCEPT ![cur] =
                        [s EXCEPT !.request_start = reused, !.answer_start = n - 1]]
        /\ plan' = [plan EXCEPT ![cur] =
                        [@ EXCEPT !.reused = reused, !.agreement = agreed, !.cut_back = cut,
                                  !.boundary = boundary_position(agreed, reused, n, DurableMin,
                                                                 cut, turn)]]
        /\ stage' = [stage EXCEPT ![cur] = "prefill"]

(* Taken as it is: nothing is allocated, so no room is made. *)
TakeResident(s, reused, cut, taken) ==
    /\ Checkout(taken, reused, cut)
    /\ entries' = entries \ {s} /\ disk' = Fresh
    /\ pc' = "idle" /\ cur' = None
    /\ UNCHANGED <<writing, next_id, next_lin, clock, recent_new, fault, now, served>>

(* A new state: the store makes room for it next. *)
TakeNew(s, reused, d) ==
    /\ Checkout(s, reused, FALSE)
    /\ disk' = d
    /\ next_lin' = IF s.lineage = next_lin THEN next_lin + 1 ELSE next_lin
    /\ pc' = "room"
    /\ UNCHANGED <<entries, writing, next_id, clock, recent_new, cur, fault, now, served>>

StartFresh ==
    /\ pc = "lookup" /\ BestGPU = 0 /\ BestDisk = 0
    /\ TakeNew(new_session(Len(prompt.cells), next_lin), 0, Fresh)

BestResident(s) ==
    s \in entries /\ BestGPU > 0 /\ BestDisk =< BestGPU /\ ResumeAt(s, prompt) = BestGPU

Extend(s) ==
    /\ pc = "lookup" /\ BestResident(s) /\ BestGPU = Len(s.tokens)
    /\ TakeResident(s, BestGPU, FALSE, s)

(* Only what the session's latest request generated is discarded. *)
CutBack(s) ==
    /\ pc = "lookup" /\ BestResident(s)
    /\ BestGPU # Len(s.tokens) /\ BestGPU >= s.answer_start
    /\ TakeResident(s, BestGPU, TRUE,
         [s EXCEPT !.rec = checkpoint_at(s, BestGPU).rec,
                   !.kv = Prefix(@, BestGPU), !.tokens = Prefix(@, BestGPU),
                   !.images = images_within(@, BestGPU),
                   !.ckpts = {c \in @ : c.pos =< BestGPU}])

Fork(s) ==
    /\ pc = "lookup" /\ BestResident(s)
    /\ BestGPU # Len(s.tokens) /\ BestGPU < s.answer_start
    /\ LET c == checkpoint_at(s, BestGPU)
       IN  TakeNew([new_session(Len(prompt.cells), next_lin) EXCEPT
                      !.kv = Prefix(s.kv, BestGPU), !.rec = c.rec,
                      !.tokens = Prefix(s.tokens, BestGPU),
                      !.images = images_within(s.images, BestGPU), !.ckpts = {c}],
                   BestGPU, Fresh)

(* The disk tier wins only when it resumes strictly further. *)
BestOnDisk(e) ==
    e \in Fresh /\ BestDisk > BestGPU /\ ResumeAt(e, prompt) = BestDisk

(* A hit forks from the entry unless it is the live end of a session. *)
ForksBehindEnd(e, pos) == pos # Len(e.tokens) \* mutant: consumes durable entries
forks(e, pos) == pos # Len(e.tokens) \/ e.durable

(* acquire_from_disk: a live-end hit consumes the entry and takes its      *)
(* lineage back, unless a living session holds it; others fork from it.    *)
Restore(e) ==
    /\ pc = "lookup" /\ BestOnDisk(e)
    /\ LET pos    == BestDisk
           c      == CHOOSE d \in e.ckpts : d.pos = pos
           forked == forks(e, pos)
           lin    == IF forked \/ lineage_held(e.lineage) THEN next_lin ELSE e.lineage
       IN  TakeNew([new_session(Len(prompt.cells), lin) EXCEPT
                      !.kv = Prefix(e.kv, pos), !.rec = c.rec,
                      !.tokens = Prefix(e.tokens, pos), !.images = images_within(e.images, pos),
                      !.ckpts = {[pos |-> pos, decode |-> FALSE, rec |-> c.rec]}],
                   pos, IF forked THEN touch(Fresh, e.id, now) ELSE remove(Fresh, e.id))

(* A damaged entry goes, and the prompt starts from nothing. *)
DropUnreadable(e) ==
    /\ pc = "lookup" /\ MayFail /\ BestOnDisk(e)
    /\ TakeNew(new_session(Len(prompt.cells), next_lin), 0, remove(Fresh, e.id))

Lookup ==
    \/ StartFresh
    \/ \E s \in entries : Extend(s) \/ CutBack(s) \/ Fork(s)
    \/ \E e \in disk : Restore(e) \/ DropUnreadable(e)

(* trim: until the new session fits, or nothing is left to evict. *)
OverWith(extra) == len > 0 /\ used_bytes + in_flight_bytes + extra > Budget

MakeRoom ==
    /\ pc = "room" /\ OverWith(bytes(session[cur]))
    /\ evict_lru
    /\ UNCHANGED <<next_lin, clock, recent_new, reqVars, pc, cur, fault, now, served>>

RoomMade ==
    /\ pc = "room" /\ ~OverWith(bytes(session[cur]))
    /\ pc' = "idle" /\ cur' = None
    /\ UNCHANGED <<storeVars, next_lin, reqVars, fault, now, served>>
-----------------------------------------------------------------------------
(* The request between its acquire and its release. *)

(* The prefill stops at the boundary and writes the durable entry. *)
StoreDurable(r) ==
    /\ pc = "idle" /\ ~fault /\ stage[r] = "prefill" /\ plan[r].boundary > 0
    /\ LET b == plan[r].boundary
           p == plan[r].prompt
           s == Feed(session[r], SubSeq(p.cells, Len(session[r].rec) + 1, b))
       IN  /\ disk' \in Stored(expire(disk, now),
                [id |-> next_id, tokens |-> Prefix(tokens(p), b),
                 images |-> images_within(p.images, b), kv |-> Prefix(s.kv, b),
                 ckpts |-> {[pos |-> b, rec |-> s.rec]}, bytes |-> b + 1,
                 used |-> now, durable |-> TRUE, lineage |-> next_lin])
           /\ session' = [session EXCEPT ![r] = s]
    /\ next_id' = reserve /\ next_lin' = next_lin + 1
    /\ plan' = [plan EXCEPT ![r].boundary = 0]
    /\ UNCHANGED <<entries, writing, clock, recent_new, stage, pc, cur, fault, now, served>>

(* The prefill ends before the last prompt token, with a checkpoint. *)
FinishPrefill(r) ==
    /\ pc = "idle" /\ ~fault /\ stage[r] = "prefill" /\ plan[r].boundary = 0
    /\ LET p == plan[r].prompt
           s == Feed(session[r], SubSeq(p.cells, Len(session[r].rec) + 1, Len(p.cells) - 1))
       IN  session' = [session EXCEPT ![r] =
                        [s EXCEPT !.ckpts = insert_checkpoint(@, Checkpoint(s, FALSE))]]
    /\ stage' = [stage EXCEPT ![r] = "decode"]
    /\ UNCHANGED <<storeVars, next_lin, plan, pc, cur, fault, now, served>>

(* The session comes back: release() starts by collecting. *)
GiveBack(r, s) ==
    /\ session' = [session EXCEPT ![r] = s]
    /\ stage' = [stage EXCEPT ![r] = "release"]
    /\ pc' = "release" /\ cur' = r
    /\ collect_finished
    /\ UNCHANGED <<next_id, next_lin, clock, recent_new, plan, fault, now, served>>

(* The client left (or the server stops): the prefill ends at `at`, a      *)
(* chunk boundary, and the session keeps what was fed (stop_at).           *)
StopPrefill(r, at) ==
    /\ pc = "idle" /\ stage[r] = "prefill"
    /\ Len(session[r].rec) =< at
    /\ at =< IF plan[r].boundary > 0 THEN plan[r].boundary ELSE Len(plan[r].prompt.cells) - 1
    /\ LET p == plan[r].prompt
           s == session[r]
       IN  GiveBack(r, [Feed(s, SubSeq(p.cells, Len(s.rec) + 1, at)) EXCEPT
                          !.tokens = Prefix(@, plan[r].reused)
                                       \o SubSeq(tokens(p), plan[r].reused + 1, at)])

(* The generation ended: the last prompt token and `gen` were fed, with    *)
(* decode checkpoints on the way.  The loop last asked where it ended or,  *)
(* when a parked step ran on the final draw, one token before.             *)
Answer(r, gen) ==
    /\ pc = "idle" /\ stage[r] = "decode"
    /\ LET p == plan[r].prompt
           n == Len(p.cells)
           s == Feed(session[r], <<p.cells[n]>> \o gen)
       IN  \E asked \in {n - 1 + Len(gen), n + Len(gen)} :
             LET at == decode_positions(DecodeInterval, MaxDecode, n - 1, asked)
             IN  GiveBack(r, [s EXCEPT
                   !.tokens = Prefix(@, plan[r].reused)
                                \o SubSeq(tokens(p), plan[r].reused + 1, n) \o gen,
                   !.ckpts = @ \cup {[pos |-> i, decode |-> TRUE, rec |-> Prefix(s.rec, i)]
                                       : i \in at \ Positions(s)},
                   !.cap = Max({@, Len(s.rec)})])

(* The request failed: its session is dropped with it. *)
Fail(r) ==
    /\ pc = "idle" /\ stage[r] \in {"prefill", "decode"}
    /\ MayFail \/ fault
    /\ session' = [session EXCEPT ![r] = NoSession]
    /\ plan' = [plan EXCEPT ![r] = None]
    /\ stage' = [stage EXCEPT ![r] = "none"]
    /\ UNCHANGED <<storeVars, next_lin, pc, cur, fault, now, served>>
-----------------------------------------------------------------------------
(* release *)

(* What the cache keeps of a session after a request. *)
Kept(s, images) ==
    LET n == Len(s.tokens)
        inside == {c \in s.ckpts : /\ c.pos =< n
                                   /\ c.decode => s.request_start < c.pos /\ c.pos < n}
    IN  [s EXCEPT !.images = images_within(images, n), !.born = FALSE,
                  !.ckpts = keep_newest(keep_newest(inside, FALSE, MaxCheckpoints),
                                        TRUE, MaxDecode),
                  !.last_used = clock + 1]

(* Mutant: a request leaves the copy written ahead of its session alone. *)
CopyStays(s) == [session |-> s, disk |-> disk]

(* The copy written ahead of what the session was is stale and goes. *)
DiscardCopy(s) ==
    [session |-> [s EXCEPT !.disk = NoCopy],
     disk |-> IF s.disk[1] = "written" THEN remove(disk, s.disk[2]) ELSE disk]

LastOf(seq, n) == SubSeq(seq, Max({0, Len(seq) - n}) + 1, Len(seq))

Release ==
    /\ pc = "release"
    /\ LET s == session[cur]
           o == DiscardCopy(s)
           k == Kept(o.session, plan[cur].prompt.images)
       IN  IF ~at_rest(s) \/ s.tokens = <<>>
           THEN /\ pc' = "idle" /\ cur' = None
                /\ UNCHANGED <<entries, disk, clock, recent_new>>
           ELSE /\ disk' = o.disk
                /\ entries' = entries \cup {k}
                /\ recent_new' = IF s.born THEN LastOf(Append(recent_new, bytes(k)), RecentNew)
                                           ELSE recent_new
                /\ clock' = clock + 1
                /\ pc' = "budget" /\ cur' = cur
    /\ session' = [session EXCEPT ![cur] = NoSession]
    /\ plan' = [plan EXCEPT ![cur] = None]
    /\ stage' = [stage EXCEPT ![cur] = "none"]
    /\ UNCHANGED <<writing, next_id, next_lin, fault, now, served>>

OverBudget == len > MaxSessions \/ (used_bytes + in_flight_bytes > Budget /\ len > 1)

TrimReleased ==
    /\ pc = "budget" /\ OverBudget
    /\ evict_lru
    /\ UNCHANGED <<next_lin, clock, recent_new, reqVars, pc, cur, fault, now, served>>

Released ==
    /\ pc = "budget" /\ ~OverBudget
    /\ pc' = "idle" /\ cur' = None
    /\ UNCHANGED <<storeVars, next_lin, reqVars, fault, now, served>>
-----------------------------------------------------------------------------
(* Between requests: write_ahead, and the thread it starts. *)

Quiet == Busy = {} /\ ~fault

CollectAhead ==
    /\ pc = "idle" /\ Quiet /\ finished
    /\ collect_finished
    /\ pc' = "ahead"
    /\ UNCHANGED <<next_id, next_lin, clock, recent_new, reqVars, cur, fault, now, served>>

(* The copies the tier deleted since no longer count. *)
Refreshed ==
    {IF s.disk[1] = "written" /\ ~contains(disk, s.disk[2]) THEN [s EXCEPT !.disk = NoCopy] ELSE s
        : s \in entries}

needs_write(s) == s.disk = NoCopy /\ Len(s.tokens) >= MinDisk /\ at_rest(s)

headroom_target == Min({Max({WriteAheadFloor} \cup Range(recent_new)), Budget})

(* The first in eviction order that would need a write before the room     *)
(* that costs none reaches the target; never the most recently used.       *)
ToWriteAhead ==
    {s \in Refreshed :
        LET older == {t \in Refreshed : t.last_used < s.last_used}
        IN  /\ \E t \in Refreshed : s.last_used < t.last_used
            /\ needs_write(s) /\ \A t \in older : ~needs_write(t)
            /\ Max({0, Budget - used_bytes}) + MapThenSumSet(bytes, older) < headroom_target}

NothingToWrite ==
    /\ pc = "ahead" \/ (pc = "idle" /\ Quiet /\ writing = None /\ Refreshed # entries)
    /\ ToWriteAhead = {} \/ next_id > MaxEntryId
    /\ entries' = Refreshed /\ pc' = "idle"
    /\ UNCHANGED <<writing, disk, next_id, next_lin, clock, recent_new, reqVars, cur, fault, now, served>>

(* start_write parks the session and starts the thread that copies it; the *)
(* layout or the thread may fail, and the session stays resident.          *)
StartWrite(s) ==
    /\ pc = "ahead" \/ (pc = "idle" /\ Quiet /\ writing = None)
    /\ s \in ToWriteAhead /\ next_id =< MaxEntryId
    /\ pc' = "idle"
    /\ \/ /\ entries' = Refreshed \ {s}
          /\ writing' = [session |-> s, id |-> next_id, phase |-> "running"]
          /\ disk' = expire(disk, now) /\ next_id' = reserve
       \/ /\ MayFail
          /\ entries' = (Refreshed \ {s}) \cup {[s EXCEPT !.disk = Refused]}
          /\ UNCHANGED <<writing, disk, next_id>>
       \/ /\ MayFail
          /\ entries' = Refreshed /\ writing' = writing
          /\ disk' = expire(disk, now) /\ next_id' = reserve
    /\ UNCHANGED <<next_lin, clock, recent_new, reqVars, cur, fault, now, served>>

(* The thread finished, or a write failed it. *)
WriterEnds ==
    /\ writing # None /\ writing.phase = "running"
    /\ \E result \in {"written"} \cup (IF MayFail THEN {"failed"} ELSE {}) :
         writing' = [writing EXCEPT !.phase = result]
    /\ UNCHANGED <<entries, disk, next_id, next_lin, clock, recent_new, reqVars, pc, cur,
                   fault, now, served>>
-----------------------------------------------------------------------------
(* The engine's life (src/serve.rs): unload, faults, restarts, time. *)

(* spill_all: the write ahead is finished first, then every session goes   *)
(* to disk as an eviction.                                                 *)
Unload ==
    /\ pc = "idle" /\ Quiet /\ entries \cup parked # {}
    /\ pc' = "unload"
    /\ UNCHANGED <<storeVars, next_lin, reqVars, cur, fault, now, served>>

UnloadJoin ==
    /\ pc = "unload" /\ (writing = None \/ finished)
    /\ collect_finished
    /\ pc' = "spill"
    /\ UNCHANGED <<next_id, next_lin, clock, recent_new, reqVars, cur, fault, now, served>>

SpillOne(s) ==
    /\ pc = "spill" /\ s \in entries
    /\ evict(s, disk)
    /\ entries' = entries \ {s}
    /\ UNCHANGED <<writing, next_lin, clock, recent_new, reqVars, pc, cur, fault, now, served>>

(* A store is built: the tier is opened (index, expire), the sessions of   *)
(* the store before it are gone.                                           *)
NewStore ==
    /\ entries' = {} /\ writing' = None /\ clock' = 0 /\ recent_new' = <<>>
    /\ disk' = expire(disk, now)
    /\ next_id' \in {i \in 1 .. next_id : /\ \A e \in disk' : e.id < i
                                         /\ (i = 1 \/ \E e \in disk' : e.id = i - 1)}
    /\ stage' = [r \in Slots |-> "none"]
    /\ session' = [r \in Slots |-> NoSession] /\ plan' = [r \in Slots |-> None]
    /\ pc' = "idle" /\ cur' = None /\ fault' = FALSE
    /\ UNCHANGED <<now, served>>

(* Unloaded and loaded again, by the same process. *)
Reload ==
    /\ pc = "spill" /\ entries = {}
    /\ NewStore /\ UNCHANGED next_lin

(* The GPU faults while it works for a request. *)
Fault ==
    /\ FaultMayHappen /\ ~fault /\ Busy # {}
    /\ fault' = TRUE
    /\ UNCHANGED <<storeVars, next_lin, reqVars, pc, cur, now, served>>

(* Every request failed: drop_all (a write ahead is cancelled), and reload. *)
Recover ==
    /\ pc = "idle" /\ fault /\ Busy = {}
    /\ NewStore /\ UNCHANGED next_lin

(* The process dies and starts again.  Its lineage counter is seeded from  *)
(* the clock, which may have gone back, and raised above the tier's ids.   *)
Crash ==
    /\ CrashMayHappen
    /\ NewStore
    /\ next_lin' \in {l \in 1 .. next_lin : \A e \in disk' : e.lineage < l}

Tick ==
    /\ now < MaxTime /\ now' = now + 1
    /\ UNCHANGED <<storeVars, next_lin, reqVars, pc, cur, fault, served>>

(* All the requests of the bound are done and nothing is left to do. *)
Terminated ==
    /\ pc = "idle" /\ Quiet /\ served = MaxRequests /\ now = MaxTime
    /\ entries \cup parked = {}
    /\ UNCHANGED vars
-----------------------------------------------------------------------------
Init ==
    /\ entries = {} /\ writing = None /\ disk = {} /\ next_id = 1
    /\ next_lin = 1 /\ clock = 0 /\ recent_new = <<>>
    /\ stage = [r \in Slots |-> "none"]
    /\ session = [r \in Slots |-> NoSession] /\ plan = [r \in Slots |-> None]
    /\ pc = "idle" /\ cur = None /\ fault = FALSE /\ now = 0 /\ served = 0

Request(r) ==
    \/ \E p \in Prompts : Acquire(r, p)
    \/ StoreDurable(r) \/ FinishPrefill(r) \/ Fail(r)
    \/ \E at \in 0 .. Max({Len(p.cells) : p \in Prompts}) : StopPrefill(r, at)
    \/ \E gen \in Answers : Answer(r, gen)

(* The engine thread inside a store operation. *)
Inside ==
    \/ reclaim_for \/ Lookup \/ MakeRoom \/ RoomMade
    \/ Release \/ TrimReleased \/ Released
    \/ NothingToWrite \/ UnloadJoin \/ Reload
    \/ \E s \in entries : SpillOne(s)

Next ==
    \/ \E r \in Slots : Request(r)
    \/ Inside
    \/ CollectAhead \/ (\E s \in Refreshed : StartWrite(s)) \/ WriterEnds
    \/ Unload \/ Fault \/ Recover \/ Crash \/ Tick \/ Terminated

Spec == Init /\ [][Next]_vars

(* The engine thread carries on inside an operation, polls a write ahead   *)
(* between requests (WRITE_AHEAD_POLL), and ends every generation it runs; *)
(* the write-ahead thread ends.  Nobody has to send a request.             *)
Fairness ==
    /\ WF_vars(Inside \/ (pc = "ahead" /\ \E s \in Refreshed : StartWrite(s)))
    /\ WF_vars(CollectAhead)
    /\ WF_vars(\E r \in Slots : StoreDurable(r) \/ FinishPrefill(r) \/ \E gen \in Answers : Answer(r, gen))
    /\ WF_vars(fault /\ \E r \in Slots : Fail(r)) /\ WF_vars(Recover)
    /\ WF_vars(WriterEnds)

FairSpec == Spec /\ Fairness
-----------------------------------------------------------------------------
(* Types. *)

SpanType  == [start : Nat, len : Nat, digest : Images]
CellType  == Cell \cup {Garbage}
CopyType  == {NoCopy, Refused} \cup ({"written"} \X Nat)
PromptType == [cells : Seq(Cell), images : SUBSET SpanType]

SessionType ==
    [tokens : Seq(Token), images : SUBSET SpanType, kv : Seq(CellType), rec : Seq(CellType),
     ckpts : SUBSET [pos : Nat, decode : BOOLEAN, rec : Seq(CellType)],
     request_start : Nat, answer_start : Nat, last_used : Nat, disk : CopyType,
     born : BOOLEAN, lineage : Nat, cap : Nat]

EntryType ==
    [id : Nat, tokens : Seq(Token), images : SUBSET SpanType, kv : Seq(CellType),
     ckpts : SUBSET [pos : Nat, rec : Seq(CellType)], bytes : Nat, used : Nat,
     durable : BOOLEAN, lineage : Nat]

PlanType == [prompt : PromptType, reused : Nat, agreement : Nat, cut_back : BOOLEAN,
             boundary : Nat]

WriteType == [session : SessionType, id : Nat, phase : {"running", "written", "failed"}]

(* None is no write ahead (an Option of the code). *)
ASSUME NoneAssumption == None \notin WriteType

(* What a prompt is: not empty, its placeholders its images', in cells as   *)
(* in spans, and text before and after every image (the template writes     *)
(* markers around it; the last prompt token is fed on its own).  What is    *)
(* generated is text.                                                       *)
IsPrompt(p) ==
    /\ p \in PromptType /\ p.cells # <<>>
    /\ \A i \in p.images : /\ i.len > 0 /\ i.digest \in Images /\ End(i) < Len(p.cells)
                           /\ \A k \in i.start + 1 .. End(i) : p.cells[k] = i.digest
                           /\ i.start > 0 => p.cells[i.start] \in Text
    /\ \A k \in DOMAIN p.cells :
         p.cells[k] \in Images => \E i \in p.images : i.start < k /\ k =< End(i)

(* A digest is of the grid as well as of the pixels (image_digest).         *)
ASSUME DigestAssumption ==
    \A p, q \in Prompts : \A i \in p.images, j \in q.images : i.digest = j.digest => i.len = j.len

ASSUME RequestsAssumption == (\A p \in Prompts : IsPrompt(p)) /\ Answers \subseteq Seq(Text)

(* Every variable holds what the code's type for it allows. *)
TypeOK ==
    /\ \A s \in entries : s \in SessionType
    /\ writing # None => writing \in WriteType
    /\ \A e \in disk : e \in EntryType
    /\ {next_id, next_lin} \subseteq Nat \ {0}
    /\ {clock, now, served} \subseteq Nat
    /\ recent_new \in Seq(Nat)
    /\ stage \in [Slots -> {"none", "acquire", "prefill", "decode", "release"}]
    /\ session \in [Slots -> SessionType]
    /\ DOMAIN plan = Slots
    /\ \A r \in Slots : plan[r] = None \/ plan[r] \in PlanType
    /\ pc \in {"idle", "reclaim", "lookup", "room", "release", "budget", "ahead",
               "unload", "spill"}
    /\ cur \in Slots \cup {None} /\ fault \in BOOLEAN
-----------------------------------------------------------------------------
(* What the caches must be. *)

(* A lineage is what it says: its tokens and spans describe the cells its  *)
(* caches were computed from, and so does every checkpoint.                *)
Sound(l) ==
    /\ l.tokens = TokensOf(l.kv)
    /\ \A i \in l.images : /\ End(i) =< Len(l.kv)
                           /\ \A k \in i.start + 1 .. End(i) : l.kv[k] = i.digest
    /\ \A c \in l.ckpts : c.pos =< Len(l.kv) /\ c.rec = Prefix(l.kv, c.pos)

(* Whatever sits in the cache, in either tier, holds exactly what its      *)
(* tokens and images say, whatever was cancelled, cut back, forked,        *)
(* restored or written before; a faulted GPU's work never reaches disk.    *)
ContentSound ==
    /\ \A e \in disk : Sound(e)
    /\ fault \/ \A s \in entries \cup parked : Sound(s) /\ s.rec = s.kv

(* A request only ever runs on caches computed from its own prompt, images *)
(* included, and never resumes inside one of its images.                   *)
ResumeSound ==
    \A r \in Slots : stage[r] = "prefill" /\ ~fault =>
        LET p == plan[r].prompt
            s == session[r]
        IN  /\ s.rec = Prefix(p.cells, Len(s.rec)) /\ s.kv = s.rec
            /\ Sound(s) \/ Len(s.rec) > plan[r].reused
            /\ \A i \in p.images : ~(i.start < plan[r].reused /\ plan[r].reused < End(i))

(* The ensures of the admission: something is left to feed, no resume past *)
(* the agreement, and a boundary strictly between the two.                 *)
AgreementCovers ==
    \A r \in Slots : stage[r] \in {"prefill", "decode"} =>
        LET q == plan[r]
        IN  /\ q.reused =< q.agreement /\ q.agreement < Len(q.prompt.cells)
            /\ q.boundary # 0 => q.reused < q.boundary /\ q.boundary =< q.agreement

(* A copy written ahead that is still indexed is the session as it is now: *)
(* dropping the session for it loses nothing.                              *)
CopyMatches ==
    \A s \in entries, e \in disk : s.disk = Written(e.id) =>
        /\ e.lineage = s.lineage /\ e.tokens = s.tokens /\ e.images = s.images
        /\ e.kv = s.kv /\ e.ckpts = PlanOf(s)

(* Lineage ids: no two sessions that live (resident, parked, checked out)  *)
(* share one, no two disk entries do, and a session shares one with an     *)
(* entry only when the entry is its copy.  Restarts included.              *)
LineageUnique ==
    /\ \A s, t \in entries \cup parked : s.lineage = t.lineage => s = t
    /\ writing # None => writing.session \notin entries
    /\ \A r \in Busy : /\ \A s \in entries \cup parked : s.lineage # session[r].lineage
                       /\ \A q \in Busy \ {r} : session[q].lineage # session[r].lineage
    /\ \A e, f \in disk : e.lineage = f.lineage \/ e.id = f.id => e = f
    /\ \A e \in disk : /\ \A s \in entries \cup parked :
                             s.lineage = e.lineage => s.disk = Written(e.id)
                       /\ \A r \in Busy :
                             session[r].lineage = e.lineage => session[r].disk = Written(e.id)

(* The disk tier stays within its budget and its cap of durable entries.   *)
DiskWithinBudget ==
    /\ disk_used_bytes(disk) =< DiskBudget
    /\ Cardinality({e \in disk : e.durable}) =< DurableMax

(* Between operations the count is kept; with nothing in flight, so is the *)
(* byte budget, unless one session alone exceeds it.                       *)
QuiescentBudget ==
    pc = "idle" => /\ len =< MaxSessions
                   /\ Busy = {} => used_bytes =< Budget \/ len =< 1

(* Between two requests a session can be dropped for its copy, and memory  *)
(* is within its bounds (write_ahead, has_copy, trim).                     *)
StoreTidy == CopyMatches /\ QuiescentBudget

(* What a request may rely on from its admission to its answer (acquire).  *)
AdmissionSound == ResumeSound /\ AgreementCovers

(* Every variable is of its type, and the tier within its bounds (trim,    *)
(* trim_durable).                                                          *)
TierSound == TypeOK /\ DiskWithinBudget

(* A session leaves GPU memory for a request, or to disk; lost is only     *)
(* what is too short, what the tier can never hold, and a fault's work.    *)
NoSilentLoss ==
    [][\A s \in entries \cup parked :
          \/ fault \/ Len(s.tokens) < MinDisk \/ NewEntry(s, 0).bytes > DiskBudget
          \/ \E t \in (entries \cup parked)' : t.lineage = s.lineage
          \/ \E r \in Busy' : session'[r].lineage = s.lineage
          \/ \E e \in disk' : e.lineage = s.lineage /\ e.kv = s.kv /\ e.ckpts = PlanOf(s)]_vars

(* A prompt resumes from the furthest position of anything the store       *)
(* knows: resident, parked for a write ahead, or on disk.                  *)
FurthestResume ==
    [][pc = "lookup" /\ stage'[cur] = "prefill" =>
          \A l \in entries \cup parked \cup Fresh : ResumeAt(l, prompt) =< plan'[cur].reused]_vars

(* A durable prefix outlives its hits: a lookup never takes one away.      *)
DurableSurvivesHits ==
    [][pc = "lookup" => \A e \in Fresh : e.durable => contains(disk', e.id)]_vars

(* The engine comes back from every store operation, even one that has to  *)
(* wait for a write ahead.                                                 *)
EngineReturns == (pc # "idle") ~> (pc = "idle")

(* A parked session does not stay out of reach of the lookups forever.     *)
ParkedReturns == (writing # None) ~> (writing = None)

(* Both: a failed write is over too.                                       *)
StoreReturns == EngineReturns /\ ParkedReturns
=============================================================================
