----------------------------- MODULE DecodeLoop -----------------------------
(***************************************************************************)
(* One generation after its first draw: Generator::resume with its decode  *)
(* loop (steps parked on the GPU, or only encoded ahead) and the           *)
(* speculative loop, over the session's state, the shared event a parked   *)
(* step waits for and the GPU's queue.  What the GPU writes is not a       *)
(* number here but the tokens it was computed from: a pass that reads      *)
(* anything but its inputs leaves Garbage.  Positions count from the end   *)
(* of the prompt.                                                          *)
(***************************************************************************)
EXTENDS Integers, Sequences, Bags, SequencesExt

CONSTANTS MaxTokens,    \* options.max_tokens
          CapStep,      \* CAPACITY_STEP
          Rooms,        \* room the prefill left in the caches
          DraftTokens,  \* k, and MAX_DRAFTS
          CloseLen,     \* tokens the thinking control inserts
          Distances,    \* distance of decode checkpoints; 0: none
          MaxActs       \* bound: how often the control acts

ASSUME LoopAssumption ==
    /\ {MaxTokens, CapStep, DraftTokens, CloseLen} \subseteq Nat \ {0}
    /\ Rooms \subseteq Nat /\ Distances \subseteq Nat /\ MaxActs \in Nat

(* A token is named after its place: the one the draft head also proposes, *)
(* another one, one the control inserts; or the stop token.                *)
Stop        == 0
Likely(i)   == i
Other(i)    == 100 + i
Inserted(i) == 200 + i
Garbage     == <<-1>>

VARIABLES
    mode,         \* "park", "ahead" or "speculate"
    spaced,       \* distance of the decode checkpoints
    pc,           \* where the host is
    tokens,       \* drawn and inserted so far
    heard,        \* the draws the host decided on, a bag
    slot_in,      \* the slot holding the next step's input
    step_parked,  \* a step is parked
    ahead,        \* the step encoded ahead, or NoneAhead
    may_act,      \* what ThinkingHook::may_act_next said of the next draw
    acts,         \* how often the control may still act
    finish,       \* why the generation ends, or "none"
    parked_draw,  \* Resumed::parked_draw, or NoDraw
    spec,         \* SpecPending with the rows kept and inserted, or NoSpec
    proposals,    \* the tokens to verify next
    place, hashed, capacity, conv_slot,  \* DecodeState
    snap,         \* the last decode checkpoint
    queue,        \* the passes committed and not finished
    sync_armed, event,   \* StepSync
    mem           \* what the GPU and the host both see

hostVars  == <<mode, spaced, tokens, heard, slot_in, step_parked, ahead, may_act, acts,
               finish, parked_draw, spec, proposals>>
stateVars == <<place, hashed, capacity, conv_slot>>
gpuVars   == <<queue, mem>>
decodeVars == <<hostVars, pc, stateVars, snap, gpuVars, sync_armed, event>>

NoneAhead == [kind |-> "none"]
NoDraw    == [tok |-> -1, step |-> 0, ctx |-> <<>>, seen |-> EmptyBag]
NoSpec    == [rows |-> <<>>]
CacheRows == 1..(MaxTokens + 2 * DraftTokens + 1)

Fed(n) == SubSeq(tokens, 1, n)
Input  == Last(tokens)
One(t) == SetToBag({t})

(* The prompt is fed and its draw delivered; the slots hold anything.      *)
DecodeInit ==
    /\ mode \in {"park", "ahead", "speculate"} /\ spaced \in Distances
    /\ pc = IF mode = "speculate" THEN "draft" ELSE "resume"
    /\ tokens = <<Likely(1)>> /\ heard = One(Likely(1))
    /\ slot_in = 0 /\ step_parked = FALSE /\ ahead = NoneAhead /\ may_act = FALSE /\ acts = MaxActs
    /\ finish = "none" /\ parked_draw = NoDraw /\ spec = NoSpec /\ proposals = <<>>
    /\ place = 0 /\ hashed = <<>> /\ capacity \in Rooms /\ conv_slot = 0
    /\ snap = [pos |-> 0, rec |-> <<>>, conv |-> <<>>, hist |-> <<>>, hidden |-> <<>>]
    /\ queue = <<>> /\ sync_armed = 0 /\ event = 0
    /\ mem = [rec |-> <<>>, conv |-> [s \in {0, 1} |-> IF s = 0 THEN <<>> ELSE Garbage],
              kv |-> [r \in CacheRows |-> Garbage], hidden |-> <<>>, stage |-> Garbage,
              slots |-> [s \in {0, 1} |-> NoDraw], counts |-> One(Likely(1)),
              mid |-> <<>>, sampled |-> <<>>, drafts |-> <<>>]
-----------------------------------------------------------------------------
(* DecodeState: ensure_capacity, the hash history, snapshot.               *)
GrownTo(n) == IF n <= capacity THEN capacity
              ELSE capacity + CapStep * ((n - capacity + CapStep - 1) \div CapStep)

CheckpointDue(p) == spaced > 0 /\ p - snap.pos >= spaced

Snapshot == [pos |-> place, rec |-> mem.rec, conv |-> mem.conv[conv_slot], hist |-> hashed,
             hidden |-> mem.hidden]

(* What a pass that feeds ts at position p leaves, computed from the       *)
(* recurrent state, a convolution window, the staged n-gram rows.          *)
Content(p, window, ts) ==
    IF p = Len(mem.rec) /\ window = mem.rec /\ mem.stage = mem.rec \o ts
    THEN mem.rec \o ts ELSE Garbage

(* The caches with a pass's rows in them; a pass encoded before the caches *)
(* grew writes the buffers they had.                                       *)
Cached(p, cap, contents) ==
    [r \in CacheRows |-> IF cap = capacity /\ r \in (p + 1)..(p + Len(contents)) /\ r <= cap
                    THEN contents[r - p] ELSE mem.kv[r]]

RowContents(c, n) ==
    [j \in 1..n |-> IF c = Garbage THEN c ELSE SubSeq(c, 1, Len(c) - n + j)]

(* encode_decode_step: what the pass will read and write is fixed here.    *)
FeedStep(in, out, step, value) ==
    [kind |-> "decode", in |-> in, out |-> out, pos |-> place, cap |-> capacity,
     conv |-> conv_slot, step |-> step, value |-> value]

(* The GPU: the oldest pass runs, once the event has its value.            *)
RunDecode(p) ==
    LET now == Content(p.pos, mem.conv[p.conv], <<mem.slots[p.in].tok>>)
    IN \E tok \in {Likely(Len(now) + 1), Stop} :
        mem' = [mem EXCEPT !.rec = now, !.conv[p.conv] = now, !.counts = @ (+) One(tok),
                           !.kv = Cached(p.pos, p.cap, <<now>>),
                           !.slots[p.out] = [tok |-> tok, step |-> p.step, ctx |-> now,
                                             seen |-> mem.counts]]

(* The draws of a verify pass: the first n confirm the draft behind them,  *)
(* the next one does not.                                                  *)
VerifyDraws(rows) ==
    LET other(j) == Other(Len(mem.rec) + j + 1)
        draws(n, fresh) == [j \in 1..Len(rows) |-> IF j <= n THEN rows[j + 1]
                                                   ELSE IF j = n + 1 THEN fresh ELSE other(j)]
        confirms(n, fresh) == n + 1 < Len(rows) /\ fresh = rows[n + 2]
    IN {draws(n, fresh) : <<n, fresh>> \in
           {<<n, f>> \in (0..(Len(rows) - 1)) \X ({Stop} \cup {other(j) : j \in 1..Len(rows)}) :
               f \in {Stop, other(n + 1)} /\ ~confirms(n, f)}}

RunVerify(p) ==
    LET m   == Len(p.rows)
        now == Content(p.pos, mem.conv[1 - p.conv], p.rows)
        mid == RowContents(now, m)
        seen(draws, j) == mem.counts (+) FoldLeft(LAMBDA b, t : b (+) One(t), EmptyBag,
                                                  SubSeq(draws, 1, j - 1))
    IN \E draws \in VerifyDraws(p.rows) :
        mem' = [mem EXCEPT !.rec = now, !.conv[p.conv] = now, !.mid = mid,
                           !.kv = Cached(p.pos, p.cap, mid), !.counts = seen(draws, m + 1),
                           !.sampled = [j \in 1..m |-> [tok |-> draws[j], step |-> p.step + j - 1,
                                                        ctx |-> mid[j], seen |-> seen(draws, j)]]]

(* The drafts the pass behind confirmed: the leading rows whose draw is    *)
(* the draft after them (spec_accept, gpu_accepted).                       *)
Confirmed(rows) ==
    CHOOSE n \in 0..(Len(rows) - 1) :
        /\ \A j \in 1..n : mem.sampled[j].tok = rows[j + 1]
        /\ n + 1 < Len(rows) => mem.sampled[n + 1].tok # rows[n + 2]

(* Back to the first n + 1 rows of a verify pass.                          *)
RolledBack(n, conv) ==
    [mem EXCEPT !.rec = mem.mid[n + 1], !.conv[conv] = mem.mid[n + 1], !.hidden = mem.mid[n + 1]]

(* What the head may propose after a state that holds n tokens and whose   *)
(* next one is drawn: its guesses, or the stop token last.                 *)
Guesses(n) == {[i \in 1..DraftTokens |-> IF i = s THEN Stop ELSE Likely(n + 1 + i)] : s \in {0, DraftTokens}}

RunDraft(p) ==
    LET back == RolledBack(Confirmed(p.rows), p.conv)
    IN \E g \in Guesses(p.pos + Confirmed(p.rows) + 1) : mem' = [back EXCEPT !.drafts = g]

Gpu ==
    /\ queue # <<>> /\ event >= Head(queue).value
    /\ queue' = Tail(queue)
    /\ \/ Head(queue).kind = "decode" /\ RunDecode(Head(queue))
       \/ Head(queue).kind = "verify" /\ RunVerify(Head(queue))
       \/ Head(queue).kind = "draft" /\ RunDraft(Head(queue))
    /\ UNCHANGED <<hostVars, pc, stateVars, snap, sync_armed, event>>
-----------------------------------------------------------------------------
(* decode_loop.  The first step reads slot 0, whatever it held.            *)
Resume ==
    /\ pc = "resume" /\ pc' = "top"
    /\ slot_in' = 0 /\ mem' = [mem EXCEPT !.slots[0].tok = Input]
    /\ UNCHANGED <<mode, spaced, tokens, heard, step_parked, ahead, may_act, acts, finish,
                   parked_draw, spec, proposals, stateVars, snap, queue, sync_armed, event>>

(* An ensure! that fails is an error of its own, "bail".                   *)
Grow ==
    IF place < capacity THEN UNCHANGED <<capacity, ahead>>
    ELSE capacity' = GrownTo(place + 1) /\ ahead' = NoneAhead

Top ==
    /\ pc = "top"
    /\ pc' = IF Len(tokens) >= MaxTokens THEN "done"
             ELSE IF place >= capacity /\ step_parked THEN "bail" ELSE "feed"
    /\ finish' = IF Len(tokens) >= MaxTokens THEN "Length" ELSE finish
    /\ IF pc' = "feed"
       THEN /\ Grow
            /\ snap' = IF ~step_parked /\ ahead' = NoneAhead /\ CheckpointDue(place) THEN Snapshot ELSE snap
       ELSE UNCHANGED <<capacity, ahead, snap>>
    /\ UNCHANGED <<mode, spaced, tokens, heard, slot_in, step_parked, may_act, acts, parked_draw,
                   spec, proposals, place, hashed, conv_slot, gpuVars, sync_armed, event>>

(* prepare_step_inputs                                                     *)
Stage(ts) == mem' = [mem EXCEPT !.stage = hashed \o ts] /\ hashed' = hashed \o ts

FeedParked ==
    /\ pc = "feed" /\ step_parked /\ pc' = "release"
    /\ Stage(<<Input>>)
    /\ UNCHANGED <<hostVars, place, capacity, conv_slot, snap, queue, sync_armed, event>>

release == event' = (IF sync_armed = 0 THEN event ELSE sync_armed) /\ sync_armed' = 0

Release ==
    /\ pc = "release" /\ pc' = "next"
    /\ release /\ step_parked' = FALSE
    /\ UNCHANGED <<mode, spaced, tokens, heard, slot_in, ahead, may_act, acts, finish,
                   parked_draw, spec, proposals, stateVars, snap, gpuVars>>

FeedFresh ==
    /\ pc = "feed" /\ ~step_parked /\ pc' = "next"
    /\ Stage(<<Input>>)
    /\ queue' = Append(queue, IF ahead # NoneAhead THEN ahead
                              ELSE FeedStep(slot_in, 1 - slot_in, Len(tokens), 0))
    /\ ahead' = NoneAhead /\ place' = place + 1
    /\ UNCHANGED <<mode, spaced, tokens, heard, slot_in, step_parked, may_act, acts, finish,
                   parked_draw, spec, proposals, capacity, conv_slot, snap, sync_armed, event>>

(* Mutant: the caches' room is not asked for.                              *)
RunsAheadFull == Len(tokens) + 1 < MaxTokens /\ ~CheckpointDue(place) /\ ~may_act'

(* Whether the step after the current one is encoded while this one runs.  *)
RunsAhead ==
    Len(tokens) + 1 < MaxTokens /\ place + 1 < capacity /\ ~CheckpointDue(place) /\ ~may_act'

EncodeNext ==
    /\ pc = "next"
    /\ may_act' \in (IF acts > 0 THEN BOOLEAN ELSE {FALSE})
    /\ LET value == event + 1
           step  == FeedStep(1 - slot_in, slot_in, Len(tokens) + 1, IF mode = "park" THEN value ELSE 0)
       IN CASE RunsAhead /\ mode = "park" /\ sync_armed # 0 ->
                 pc' = "bail" /\ UNCHANGED <<step_parked, ahead, place, queue, sync_armed>>
            [] RunsAhead /\ mode = "park" /\ sync_armed = 0 ->
                 /\ step_parked' = TRUE /\ sync_armed' = value /\ pc' = "wait"
                 /\ queue' = Append(queue, step) /\ place' = place + 1
                 /\ UNCHANGED ahead
            [] RunsAhead /\ mode = "ahead" ->
                 ahead' = step /\ pc' = "wait" /\ UNCHANGED <<step_parked, place, queue, sync_armed>>
            [] OTHER -> pc' = "wait" /\ UNCHANGED <<step_parked, ahead, place, queue, sync_armed>>
    /\ UNCHANGED <<mode, spaced, tokens, heard, slot_in, acts, finish, parked_draw, spec,
                   proposals, hashed, capacity, conv_slot, snap, mem, event>>

(* The step waited for is done once only the parked one is left.           *)
AwaitStep ==
    /\ pc = "wait" /\ Len(queue) = (IF step_parked THEN 1 ELSE 0)
    /\ pc' = "decide" /\ slot_in' = 1 - slot_in
    /\ heard' = heard (+) One(mem.slots[1 - slot_in].tok)
    /\ UNCHANGED <<mode, spaced, tokens, step_parked, ahead, may_act, acts, finish, parked_draw,
                   spec, proposals, stateVars, snap, gpuVars, sync_armed, event>>

(* What the thinking control inserts at a draw: in front of it, after it,  *)
(* or in place of a stop token.                                            *)
CloseTokens == [i \in 1..CloseLen |-> Inserted(Len(tokens) + i)]

(* push_group: only max_tokens cuts a group short.                         *)
Pushed(ts, g) == ts \o SubSeq(g, 1, Min({Len(g), MaxTokens - Len(ts)}))
GroupEnded(ts, stopped) ==
    IF stopped THEN "Callback" ELSE IF Len(ts) >= MaxTokens THEN "Length" ELSE "none"

Keep(d) ==
    /\ tokens' = Append(tokens, d.tok)
    /\ finish' \in (IF d.tok = Stop THEN {"StopToken"} ELSE {"none", "Callback"})
    /\ pc' = IF finish' = "none" THEN "top" ELSE IF step_parked THEN "drain" ELSE "done"
    /\ UNCHANGED acts

(* emit_acted                                                              *)
Act(d) ==
    /\ may_act /\ acts > 0 /\ acts' = acts - 1
    /\ IF step_parked \/ ahead # NoneAhead THEN pc' = "bail" /\ UNCHANGED <<tokens, finish>>
       ELSE \E stopped \in BOOLEAN :
              /\ pc' = "insert"
              /\ \/ d.tok = Stop /\ tokens' = Pushed(tokens, CloseTokens)
                 \/ d.tok # Stop /\ tokens' = Pushed(tokens, Append(CloseTokens, d.tok))
                 \/ d.tok # Stop /\ tokens' = Pushed(Append(tokens, d.tok), CloseTokens)
              /\ finish' = GroupEnded(tokens', stopped)

Decide ==
    /\ pc = "decide"
    /\ Keep(mem.slots[slot_in]) \/ Act(mem.slots[slot_in])
    /\ UNCHANGED <<mode, spaced, heard, slot_in, step_parked, ahead, may_act, parked_draw, spec,
                   proposals, stateVars, snap, gpuVars, sync_armed, event>>

(* A parked step eats the final token, and its draw is kept.               *)
DrainLoop ==
    /\ pc = "drain" /\ pc' = "drain_release"
    /\ Stage(<<Input>>)
    /\ UNCHANGED <<hostVars, place, capacity, conv_slot, snap, queue, sync_armed, event>>

DrainRelease ==
    /\ pc = "drain_release" /\ pc' = "drain_wait"
    /\ release /\ step_parked' = FALSE
    /\ UNCHANGED <<mode, spaced, tokens, heard, slot_in, ahead, may_act, acts, finish,
                   parked_draw, spec, proposals, stateVars, snap, gpuVars>>

DrainWait ==
    /\ pc = "drain_wait" /\ queue = <<>> /\ pc' = "done"
    /\ parked_draw' = mem.slots[1 - slot_in]
    /\ UNCHANGED <<mode, spaced, tokens, heard, slot_in, step_parked, ahead, may_act, acts,
                   finish, spec, proposals, stateVars, snap, gpuVars, sync_armed, event>>

(* A prefill without a draw of ts, chunk by chunk.                         *)
Prefilled(ts, out) ==
    LET now == IF place = Len(mem.rec) /\ mem.conv[conv_slot] = mem.rec /\ hashed = mem.rec
               THEN mem.rec \o ts ELSE Garbage
        row(r) == RowContents(now, Len(ts))[r - place]
    IN [mem EXCEPT !.rec = now, !.conv[out] = now, !.hidden = now, !.stage = hashed \o ts,
                   !.kv = [r \in CacheRows |-> IF r \in (place + 1)..(place + Len(ts))
                                               THEN row(r) ELSE @[r]]]

(* feed_inserted: all but the last token.                                  *)
Insert ==
    /\ pc = "insert" /\ queue = <<>>
    /\ LET rest == Len(tokens) - 1
           ts   == SubSeq(tokens, place + 1, rest)
       IN IF place > rest THEN pc' = "bail" /\ UNCHANGED <<stateVars, mem, snap>>
          ELSE /\ IF place = rest THEN UNCHANGED <<stateVars, mem>>
                  ELSE /\ mem' = Prefilled(ts, 1 - conv_slot)
                       /\ conv_slot' = 1 - conv_slot /\ place' = rest /\ hashed' = hashed \o ts
                       /\ capacity' = GrownTo(rest)
               /\ pc' = CASE finish # "none" -> "done"
                          [] mode = "speculate" -> "rest"
                          [] OTHER -> "resume"
               /\ UNCHANGED snap
    /\ UNCHANGED <<hostVars, queue, sync_armed, event>>
-----------------------------------------------------------------------------
(* speculate_checkpointed                                                  *)
Rest ==
    /\ pc = "rest" /\ pc' = "draft"
    /\ IF CheckpointDue(place) THEN snap' = Snapshot ELSE UNCHANGED snap
    /\ UNCHANGED <<hostVars, stateVars, gpuVars, sync_armed, event>>

(* draft_initial                                                           *)
DraftInitial ==
    /\ pc = "draft" /\ queue = <<>>
    /\ capacity' = GrownTo(place + 1 + 2 * DraftTokens)
    /\ proposals' \in Guesses(place) /\ pc' = "verify"
    /\ UNCHANGED <<mode, spaced, tokens, heard, slot_in, step_parked, ahead, may_act, acts, finish,
                   parked_draw, spec, place, hashed, conv_slot, snap, gpuVars, sync_armed, event>>

Verify ==
    /\ pc = "verify" /\ queue = <<>> /\ pc' = "verified"
    /\ LET rows == <<Input>> \o proposals
           cap  == GrownTo(place + Len(rows) + DraftTokens)
           pass(kind) == [kind |-> kind, rows |-> rows, pos |-> place, cap |-> cap, value |-> 0,
                          conv |-> 1 - conv_slot, step |-> Len(tokens)]
       IN /\ spec' = [rows |-> rows, pos |-> place, hist |-> hashed, kept |-> 0, group |-> <<>>]
          /\ Stage(rows) /\ capacity' = cap /\ place' = place + Len(rows)
          /\ queue' = <<pass("verify"), pass("draft")>>
    /\ conv_slot' = 1 - conv_slot
    /\ UNCHANGED <<mode, spaced, tokens, heard, slot_in, step_parked, ahead, may_act, acts, finish,
                   parked_draw, proposals, snap, sync_armed, event>>

Verified ==
    /\ pc = "verified" /\ Len(queue) <= 1 /\ pc' = "emit"
    /\ UNCHANGED <<hostVars, stateVars, snap, gpuVars, sync_armed, event>>

(* One confirmed row's token, put to the control and to the callback.      *)
Emitted == mem.sampled[spec.kept + 1].tok

KeepRow ==
    /\ tokens' = Append(tokens, Emitted)
    /\ \E stopped \in BOOLEAN :
         finish' = IF Emitted = Stop THEN "StopToken" ELSE GroupEnded(tokens', stopped)
    /\ IF finish' = "none" /\ spec.kept < Len(proposals)
          /\ proposals[spec.kept + 1] = Emitted
       THEN spec' = [spec EXCEPT !.kept = @ + 1] /\ UNCHANGED pc
       ELSE pc' = "finish" /\ UNCHANGED spec
    /\ UNCHANGED acts

ActRow ==
    /\ acts > 0 /\ acts' = acts - 1 /\ pc' = "finish"
    /\ \/ /\ spec' = [spec EXCEPT !.group = IF Emitted = Stop THEN CloseTokens
                                            ELSE Append(CloseTokens, Emitted)]
          /\ UNCHANGED <<tokens, finish>>
       \/ /\ Emitted # Stop /\ tokens' = Append(tokens, Emitted)
          /\ \E stopped \in BOOLEAN : finish' = GroupEnded(tokens', stopped)
          /\ spec' = [spec EXCEPT !.group = IF finish' = "Length" THEN <<>>
                                            ELSE [i \in 1..CloseLen |-> Inserted(Len(tokens') + i)]]

EmitRow ==
    /\ pc = "emit"
    /\ heard' = heard (+) One(Emitted)
    /\ KeepRow \/ ActRow
    /\ UNCHANGED <<mode, spaced, slot_in, step_parked, ahead, may_act, parked_draw, proposals,
                   stateVars, snap, gpuVars, sync_armed, event>>

(* finish_speculation, the host's part: it may run while the draft pass    *)
(* does.  uncount takes the rejected rows' draws back.                     *)
Rejected == FoldLeft(LAMBDA b, d : b (+) One(d.tok), EmptyBag,
                     SubSeq(mem.sampled, spec.kept + 2, Len(mem.sampled)))

Finish ==
    /\ pc = "finish"
    /\ pc' = IF spec.kept <= Confirmed(spec.rows) THEN "collect" ELSE "bail"
    /\ place' = spec.pos + spec.kept + 1
    /\ hashed' = spec.hist \o SubSeq(spec.rows, 1, spec.kept + 1)
    /\ mem' = [mem EXCEPT !.counts = @ (-) Rejected]
    /\ UNCHANGED <<hostVars, capacity, conv_slot, snap, queue, sync_armed, event>>

(* The scratch of a step is not read after it.                             *)
Cleared(m) == [m EXCEPT !.mid = <<>>, !.sampled = <<>>, !.drafts = <<>>]

Proposes == spec.group = <<>> /\ finish = "none" /\ ~CheckpointDue(Len(tokens) - 1)

(* The draft pass is awaited, its proposals read if they are wanted.       *)
collect_drafts(chain) ==
    /\ queue = <<>> /\ proposals' = IF chain THEN mem.drafts ELSE proposals

(* Where the host kept fewer rows than the GPU confirmed, a further pass   *)
(* rolls back to them.                                                     *)
Collect ==
    /\ pc = "collect" /\ collect_drafts(Proposes)
    /\ LET kept  == spec.kept
           whole == kept = Confirmed(spec.rows)
       IN IF Proposes
          THEN /\ pc' = IF whole THEN "verify" ELSE "bail"
               /\ mem' = Cleared(mem)
               /\ UNCHANGED <<tokens, finish>>
          ELSE /\ mem' = Cleared(IF whole THEN mem ELSE RolledBack(kept, conv_slot))
               /\ tokens' = Pushed(tokens, spec.group)
               /\ IF spec.group = <<>> \/ finish # "none" THEN UNCHANGED finish
                  ELSE \E stopped \in BOOLEAN : finish' = GroupEnded(tokens', stopped)
               /\ pc' = CASE spec.group # <<>> -> "insert"
                          [] finish # "none" -> "done"
                          [] OTHER -> IF place = Len(tokens) - 1 THEN "rest" ELSE "bail"
    /\ spec' = NoSpec
    /\ UNCHANGED <<mode, spaced, heard, slot_in, step_parked, ahead, may_act, acts, parked_draw,
                   stateVars, snap, queue, sync_armed, event>>
-----------------------------------------------------------------------------
(* A call that fails with passes in flight (with none it just returns):    *)
(* ReleaseOnExit lets a parked step go, and the passes are waited for as   *)
(* they are dropped.                                                       *)
Running == pc \notin {"done", "failed", "bail", "unwind"}

(* Mutant: an error returns with the step parked.                          *)
FailParked ==
    /\ Running /\ queue # <<>> /\ pc' = "unwind"
    /\ UNCHANGED <<hostVars, stateVars, snap, gpuVars, sync_armed, event>>

Fail ==
    /\ Running /\ queue # <<>> /\ pc' = "unwind"
    /\ release /\ step_parked' = FALSE
    /\ UNCHANGED <<mode, spaced, tokens, heard, slot_in, ahead, may_act, acts, finish,
                   parked_draw, spec, proposals, stateVars, snap, gpuVars>>

Unwind ==
    /\ pc = "unwind" /\ queue = <<>> /\ pc' = "failed"
    /\ UNCHANGED <<hostVars, stateVars, snap, gpuVars, sync_armed, event>>

DecodeHost ==
    \/ Resume \/ Top \/ FeedParked \/ Release \/ FeedFresh \/ EncodeNext \/ AwaitStep \/ Decide
    \/ DrainLoop \/ DrainRelease \/ DrainWait \/ Insert
    \/ Rest \/ DraftInitial \/ Verify \/ Verified \/ EmitRow \/ Finish \/ Collect
    \/ Unwind

DecodeNext == DecodeHost \/ Fail \/ Gpu

DecodeSpec == DecodeInit /\ [][DecodeNext]_decodeVars /\ WF_decodeVars(DecodeHost) /\ WF_decodeVars(Gpu)
-----------------------------------------------------------------------------
(* Every draw the host decides on was made for its place: with its index,  *)
(* from the tokens before it and the counts of the draws before it, in     *)
(* whichever loop (GenerateOptions::thinking, sample_f32).                 *)
Made(d, before) ==
    d.step = Len(tokens) /\ d.ctx = tokens /\ d.seen = before

DrawsInPlace ==
    /\ pc = "decide" => LET d == mem.slots[slot_in] IN Made(d, heard (-) One(d.tok))
    /\ pc = "emit" => Made(mem.sampled[spec.kept + 1], heard)
    /\ parked_draw # NoDraw => Made(parked_draw, heard)

(* At rest the state is that of the tokens it counts, everywhere: what the *)
(* next request, a checkpoint or the disk takes from it (DecodeState).     *)
LoopAtRest == pc \in {"done", "draft", "rest", "resume"}

RestsWhole ==
    LoopAtRest =>
        /\ queue = <<>> /\ sync_armed = 0 /\ spec = NoSpec
        /\ place = Len(tokens) - (IF parked_draw = NoDraw THEN 1 ELSE 0)
        /\ hashed = Fed(place) /\ mem.rec = Fed(place) /\ mem.conv[conv_slot] = Fed(place)
        /\ mode = "speculate" => mem.hidden = Fed(place)
        /\ \A r \in 1..place : mem.kv[r] = Fed(r)
        /\ mem.counts = heard (+) (IF parked_draw = NoDraw THEN EmptyBag ELSE One(parked_draw.tok))

(* A decode checkpoint is a state at rest too (DecodeCheckpointer).        *)
SnapshotWhole ==
    LET fed == Fed(snap.pos)
    IN /\ snap.rec = fed /\ snap.conv = fed /\ snap.hist = fed
       /\ mode = "speculate" => snap.hidden = fed

(* What the control inserts stays in one piece, cut by the length alone,   *)
(* and a stop token it replaced is never emitted.                          *)
GroupsWhole ==
    LET closes == {i \in 1..Len(tokens) : tokens[i] > 200}
    IN /\ Cardinality(closes) % CloseLen # 0 => Len(tokens) = MaxTokens
       /\ \A i \in 1..(Len(tokens) - 1) : tokens[i] # Stop

(* The four together: a generation is exact in any loop, and no ensure! of *)
(* the loops or of the state ever fails.                                   *)
GenerationExact ==
    /\ pc # "bail" /\ Len(tokens) <= MaxTokens
    /\ DrawsInPlace /\ RestsWhole /\ SnapshotWhole /\ GroupsWhole
    /\ pc = "failed" => queue = <<>> /\ sync_armed = 0

(* The generation is over: answered, or failed with its passes waited for. *)
GenerationOver == pc \in {"done", "failed"}
=============================================================================
