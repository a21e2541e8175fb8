---------------------------- MODULE ExpertCache ----------------------------
(***************************************************************************)
(* The expert cache of small-memory machines (qwen4exp/expert_cache.rs):   *)
(* one slab of slots, a slot table per layer that the GPU reads through,   *)
(* the service thread that resolves a layer's routing while the GPU waits  *)
(* (`routed` up, `ready` back), the placement (expert_store.rs,            *)
(* SlotPolicy) and the prefetch with its own readers (expert_prefetch.rs). *)
(* A slice is <<layer, expert>>; scores and predictions are free choices.  *)
(***************************************************************************)
EXTENDS Integers, Sequences, FiniteSets, SequencesExt, FiniteSetsExt

CONSTANTS CacheLayers,   \* layers with routed experts
          CacheExperts,  \* experts of a layer
          CacheSlots,    \* n_slots
          PinnedSlots,   \* of them pinned
          TopK,          \* experts a decode pass routes a layer to
          ReadDepth,     \* prefetch reads in flight at most
          TopPicks,      \* a plane's picks for a layer at most (`top`)
          CutLayers,     \* layers after which a new plane is issued
          Predictions,   \* how a prediction file may be served: "none", "start", "cuts", "replace"
          AbandonAfter,  \* layers after which the encoding of a pass may fail
          CachePasses,   \* bound: passes encoded
          PromoteEvery,  \* requests served between promotions
          PredictedTokens  \* bound: decode passes whose position the file has

Layers  == 1..CacheLayers
Experts == 1..CacheExperts
SlotIds == 1..CacheSlots
Slices  == Layers \X Experts

(* The loader's checks: two layers' worth of slots, and a layer's whole    *)
(* routing in the slots a miss may take (weights.rs, lru_share_for).       *)
ASSUME CacheAssumption ==
    /\ {CacheLayers, CacheExperts, TopK, TopPicks, ReadDepth, CachePasses, PromoteEvery} \subseteq Nat \ {0}
    /\ CacheSlots \in Nat /\ PinnedSlots \in 0..CacheSlots
    /\ PinnedSlots <= CacheLayers * CacheExperts
    /\ CacheSlots >= 2 * CacheExperts /\ CacheSlots - PinnedSlots >= CacheExperts
    /\ PredictedTokens \in Nat /\ Predictions \subseteq {"none", "start", "cuts", "replace"}
    /\ TopK <= CacheExperts /\ CutLayers \cup AbandonAfter \subseteq 1..(CacheLayers - 1)

NoSlice == <<0, 0>>
Torn    == <<-1, -1>>   \* a slot being written
NoEntry == 0            \* NONE in a slot table
NoRequest == [seq |-> 0, layer |-> 0, decode |-> FALSE, routes |-> 0]

VARIABLES
    prefetch,    \* "none", planes at a token's "start", after the "cuts" too, which may "replace"
    encoded, next_seq,   \* passes encoded, the last seq
    requests,    \* Service::requests
    gpu_passes,  \* committed passes: [first, decode]
    gpu_layer, gpu_stage,   \* "run" up to the router, "wait" for ready, "experts"
    chosen,         \* the indices buffer: the experts routed to last
    routed, ready,       \* the two events
    serving,     \* "pop", "issue", "spin", "read", "publish", "after", "abort"
    request, last_ready,
    targets,     \* layers whose row of the plane is still to be read
    picks,       \* slices of the last row read, still to be picked
    after_cut,   \* the plane is a cut's
    missed,      \* reads of this resolution: [slice, slot]
    awaited,     \* prefetches in flight the layer waits for
    slice, used, role,   \* SlotPolicy: per slot its slice and last tick; the pinned ones
    read_queue, flying,   \* Reads: [slice, slot]
    landed_reads,         \* of a slice that landed twice, the first
    outstanding, stamped, \* Prefetcher
    in_token,    \* a decode pass is served whose position the file has
    tokens_fed,  \* such passes so far
    table,       \* the slot tables the GPU reads
    slab         \* what a slot's memory holds

cacheHostVars == <<prefetch, encoded, next_seq>>
gpuSideVars == <<gpu_passes, gpu_layer, gpu_stage, chosen, routed>>
planeVars   == <<targets, picks, after_cut>>
serviceVars == <<serving, request, last_ready, planeVars, missed, awaited, ready>>
policyVars  == <<slice, used, role>>
tokenVars   == <<in_token, tokens_fed>>
readVars    == <<read_queue, flying, landed_reads, outstanding, stamped, tokenVars>>
cacheVars   == <<cacheHostVars, requests, gpuSideVars, serviceVars, policyVars, readVars, table, slab>>

(* SlotPolicy::new and the initial fill: the ranking's best slices, the    *)
(* first of them pinned.                                                   *)
Ranked(i) == <<((i - 1) % CacheLayers) + 1, ((i - 1) \div CacheLayers) + 1>>
InFill(i) == i <= CacheLayers * CacheExperts

CacheInit ==
    /\ prefetch \in Predictions
    /\ encoded = 0 /\ tokens_fed = 0 /\ next_seq = 0 /\ requests = <<>>
    /\ gpu_passes = <<>> /\ gpu_layer = 1 /\ gpu_stage = "run" /\ chosen = {} /\ routed = 0 /\ ready = 0
    /\ serving = "pop" /\ request = NoRequest /\ last_ready = 0 /\ targets = <<>> /\ picks = {}
    /\ after_cut = FALSE
    /\ missed = {} /\ awaited = {}
    /\ slice = [s \in SlotIds |-> IF InFill(s) THEN Ranked(s) ELSE NoSlice]
    /\ used = [s \in SlotIds |-> 0] /\ role = 1..PinnedSlots
    /\ read_queue = <<>> /\ flying = {} /\ landed_reads = {}
    /\ outstanding = {} /\ stamped = [tick |-> 0, n |-> 0] /\ in_token = FALSE
    /\ table = [x \in Slices |-> IF \E s \in SlotIds : InFill(s) /\ Ranked(s) = x
                                 THEN CHOOSE s \in SlotIds : Ranked(s) = x ELSE NoEntry]
    /\ slab = slice
-----------------------------------------------------------------------------
(* The host encodes a pass: a request per layer, then the commit.  One     *)
(* pass may be parked behind the one that runs.                            *)
Requests(n, decode) ==
    [l \in 1..n |-> [seq |-> next_seq + l, layer |-> l, decode |-> decode,
                     routes |-> IF decode THEN TopK ELSE CacheExperts]]

Encode(decode) ==
    /\ encoded < CachePasses /\ Len(gpu_passes) < 2
    /\ encoded' = encoded + 1 /\ next_seq' = next_seq + CacheLayers
    /\ requests' = requests \o Requests(CacheLayers, decode)
    /\ gpu_passes' = Append(gpu_passes, [first |-> next_seq, decode |-> decode])
    /\ UNCHANGED <<prefetch, gpu_layer, gpu_stage, chosen, routed, serviceVars, policyVars, readVars,
                   table, slab>>

(* Encoding fails after n layers: their requests stay queued, and no pass  *)
(* will ever signal them.                                                  *)
Abandon(n, decode) ==
    /\ encoded < CachePasses /\ encoded' = encoded + 1
    /\ next_seq' = next_seq + n /\ requests' = requests \o Requests(n, decode)
    /\ UNCHANGED <<prefetch, gpuSideVars, serviceVars, policyVars, readVars, table, slab>>

(* The GPU: the router's choice and `routed`, the wait for `ready`, the    *)
(* layer's experts through the table, the next layer.                      *)
Seq0 == Head(gpu_passes).first + gpu_layer

Route ==
    /\ gpu_passes # <<>> /\ gpu_stage = "run" /\ gpu_stage' = "wait"
    /\ chosen' \in IF Head(gpu_passes).decode THEN {x \in SUBSET Experts : Cardinality(x) = TopK} ELSE {Experts}
    /\ routed' = Seq0 /\ UNCHANGED <<gpu_passes, gpu_layer>>

GoOn ==
    /\ gpu_passes # <<>> /\ gpu_stage = "wait" /\ ready >= Seq0 /\ gpu_stage' = "experts"
    /\ UNCHANGED <<gpu_passes, gpu_layer, chosen, routed>>

NextLayer ==
    /\ gpu_passes # <<>> /\ gpu_stage = "experts" /\ gpu_stage' = "run"
    /\ IF gpu_layer < CacheLayers THEN gpu_layer' = gpu_layer + 1 /\ UNCHANGED gpu_passes
       ELSE gpu_layer' = 1 /\ gpu_passes' = Tail(gpu_passes)
    /\ chosen' = {} /\ UNCHANGED routed

CacheGpu ==
    /\ Route \/ GoOn \/ NextLayer
    /\ UNCHANGED <<cacheHostVars, requests, serviceVars, policyVars, readVars, table, slab>>
-----------------------------------------------------------------------------
(* SlotPolicy.                                                             *)
SlotOf(sl, x) == {s \in SlotIds : sl[s] = x}

(* victim_key: an empty slot, the worst ranked never used, the oldest use. *)
Rank(sl, us, s) ==
    IF sl[s] = NoSlice THEN s
    ELSE IF us[s] = 0 THEN 2 * CacheSlots - s ELSE 2 * CacheSlots * us[s] + s

(* take_slot: not one used at `tick`, nor at `busy` or later if a pass may *)
(* still read those (busy 0: the GPU waits, none does).                    *)
Free(sl, us, ro, tick, busy) ==
    {s \in SlotIds \ ro : (us[s] = 0 \/ us[s] # tick) /\ (us[s] = 0 \/ busy = 0 \/ us[s] < busy)}

Victim(sl, us, ro, tick, busy) ==
    LET free == Free(sl, us, ro, tick, busy)
    IN CHOOSE s \in free : \A t \in free : Rank(sl, us, s) <= Rank(sl, us, t)

Unentered(f, gone) == [x \in Slices |-> IF x \in gone THEN NoEntry ELSE f[x]]

(* forget: the slot of a read that never started joins the others empty.   *)
Forget(sl, reads) == [s \in SlotIds |-> IF sl[s] \in {r.slice : r \in reads} THEN NoSlice ELSE sl[s]]

(* Reads::start_queued: a read starts writing its slot at once.            *)
Started(queue, fly) ==
    LET n == Min({Len(queue), ReadDepth - Cardinality(fly)}) IN
    /\ flying' = fly \cup {queue[i] : i \in 1..n} /\ read_queue' = SubSeq(queue, n + 1, Len(queue))

Writing(mem, reads) == [s \in SlotIds |-> IF s \in {r.slot : r \in reads} THEN Torn ELSE mem[s]]

Without(queue, reads) == FoldLeft(LAMBDA q, r : IF r \in reads THEN q ELSE Append(q, r), <<>>, queue)

(* cancel_queued: the reads dropped, their slots emptied.                  *)
Drop(reads) ==
    /\ slice' = Forget(slice, reads) /\ role' = {s \in role : slice'[s] # NoSlice}
    /\ read_queue' = Without(read_queue, reads)
    /\ outstanding' = outstanding \ {r.slice : r \in reads}

(* The service thread takes a request; Prefetcher::taken.  `in_file`: the  *)
(* file has the position of the token that starts here.                    *)
Pop ==
    /\ serving = "pop" /\ requests # <<>>
    /\ request' = Head(requests) /\ requests' = Tail(requests)
    /\ LET first == prefetch # "none" /\ Head(requests).decode /\ Head(requests).layer = 1
           goes  == in_token /\ Head(requests).decode /\ ~first
       IN \E in_file \in {FALSE, first /\ tokens_fed < PredictedTokens} :
          /\ Drop(IF first \/ (in_token /\ ~goes) THEN Range(read_queue) ELSE {})
          /\ in_token' = (in_file \/ goes)
          /\ tokens_fed' = tokens_fed + IF in_file THEN 1 ELSE 0
          /\ targets' = IF in_file THEN [l \in Layers |-> l] ELSE <<>>
          /\ serving' = IF in_file THEN "issue" ELSE "spin"
    /\ after_cut' = FALSE
    /\ UNCHANGED <<cacheHostVars, gpuSideVars, last_ready, picks, missed, awaited, ready, used,
                   flying, landed_reads, stamped, table, slab>>

(* Tick stamps the slots a plane takes, and one used at Busy or later may  *)
(* still be read by the GPU.                                               *)
Tick == IF after_cut THEN request.seq + 1 ELSE request.seq

(* As it would be if only the next request's slots were spared.            *)
BusyNext == Tick

Busy == IF after_cut THEN request.seq ELSE last_ready

(* Prefetcher::issue for the next layer: its row is read, and a cut that   *)
(* replaces drops the layer's queued reads that the row does not have.     *)
ReadRow ==
    /\ serving = "issue" /\ picks = {} /\ targets # <<>> /\ targets' = Tail(targets)
    /\ \E row \in {es \in SUBSET Experts : Cardinality(es) <= TopPicks} :
         /\ picks' = {<<Head(targets), e>> : e \in row}
         /\ Drop({r \in Range(read_queue) : /\ after_cut /\ prefetch = "replace"
                                            /\ r.slice[1] = Head(targets) /\ r.slice[2] \notin row})
    /\ stamped' = [tick |-> Tick, n |-> IF stamped.tick = Tick THEN stamped.n ELSE 0]
    /\ UNCHANGED <<cacheHostVars, requests, gpuSideVars, serving, request, last_ready, after_cut, missed, awaited,
                   ready, used, flying, landed_reads, tokenVars, table, slab>>

(* A read of x into the victim, whose own prefetch is given up or, in      *)
(* flight, waited for.                                                     *)
Reserve(x) ==
    \E s \in {Victim(slice, used, role, Tick, Busy)} :
    LET old   == slice[s]
        given == {r \in Range(read_queue) : r.slice = old /\ old \in outstanding}
    IN /\ old \in outstanding => \A r \in flying : r.slice # old
       /\ slice' = [slice EXCEPT ![s] = x] /\ used' = [used EXCEPT ![s] = Tick]
       /\ table' = Unentered(table, {old})
       /\ outstanding' = (outstanding \ {old}) \cup {x}
       /\ Started(Append(Without(read_queue, given), [slice |-> x, slot |-> s]), flying)
       /\ slab' = Writing(slab, flying' \ flying)
       /\ stamped' = [stamped EXCEPT !.n = @ + 1]

(* The plane leaves the request its slots, and has a victim.               *)
HasRoom ==
    /\ stamped.n < CacheSlots - Cardinality(role) - request.routes
    /\ Free(slice, used, role, Tick, Busy) # {}

(* The row's picks in any order: one with a slot is passed over, and the   *)
(* first that finds no room ends the row.                                  *)
Pick ==
    /\ serving = "issue"
    /\ \E x \in picks :
         \/ /\ x \notin Range(slice) /\ HasRoom /\ picks' = picks \ {x} /\ Reserve(x)
         \/ /\ picks' = IF x \in Range(slice) THEN picks \ {x} ELSE {}
            /\ x \in Range(slice) \/ ~HasRoom
            /\ UNCHANGED <<slice, used, read_queue, flying, outstanding, stamped, table, slab>>
    /\ UNCHANGED <<cacheHostVars, requests, gpuSideVars, serving, request, last_ready, targets, after_cut, missed,
                   awaited, ready, role, landed_reads, tokenVars>>

Issued ==
    /\ serving = "issue" /\ picks = {} /\ targets = <<>>
    /\ serving' = IF after_cut THEN "pop" ELSE "spin"
    /\ UNCHANGED <<cacheHostVars, requests, gpuSideVars, request, last_ready, planeVars, missed, awaited, ready,
                   policyVars, readVars, table, slab>>
-----------------------------------------------------------------------------
(* What the request's buffer holds when `routed` comes: its own pass's     *)
(* choice or, if that pass was abandoned, ids left by any other.           *)
RoutedIds ==
    IF routed = request.seq THEN {chosen}
    ELSE {ids \in SUBSET Experts : Cardinality(ids) \in 1..request.routes}

(* look_up over the routed experts in order: hits stamped, a victim for    *)
(* each miss.  The state after, as a set of one.                           *)
LookUp(st, e) ==
    LET x  == <<request.layer, e>>
        at == SlotOf(st.slice, x)
    IN IF e \notin st.ids \/ st.full THEN {st}
       ELSE IF at # {} THEN {[st EXCEPT !.used = [s \in SlotIds |-> IF s \in at THEN request.seq ELSE @[s]]]}
       ELSE IF Free(st.slice, st.used, role, request.seq, 0) = {} THEN {[st EXCEPT !.full = TRUE]}
       ELSE {[st EXCEPT !.slice[v] = x, !.used[v] = request.seq, !.evicted = @ \cup {st.slice[v]},
                        !.missed = @ \cup {[slice |-> x, slot |-> v]}] :
                v \in {Victim(st.slice, st.used, role, request.seq, 0)}}

LookUpIn(sts, e) == UNION {LookUp(st, e) : st \in sts}

InOrder == [e \in Experts |-> e]

NoLookups(ids) == [ids |-> ids, slice |-> slice, used |-> used, evicted |-> {}, missed |-> {}, full |-> FALSE]

Looked(ids) == FoldLeft(LookUpIn, {NoLookups(ids)}, InOrder)

(* after_lookups: the evicted prefetches are given up (one in flight waited *)
(* for), a routed one still queued is read now, one in flight awaited, the *)
(* layer's other queued ones cancelled.                                    *)
AfterLookups(st) ==
    LET here == {<<request.layer, e>> : e \in st.ids}
        lost == st.evicted \cap outstanding
        left == Without(read_queue, {r \in Range(read_queue) : r.slice \in lost})
        late == {r \in Range(left) : r.slice \in here}
        drop == {r \in Range(left) \ late : r.slice[1] = request.layer}
    IN /\ \A r \in flying : r.slice \notin lost
       /\ slice' = Forget(st.slice, drop) /\ used' = st.used
       /\ role' = {s \in role : slice'[s] # NoSlice}
       /\ table' = Unentered(table, st.evicted)
       /\ missed' = st.missed \cup late
       /\ awaited' = {r \in flying : r.slice \in here \cap (outstanding \ lost)}
       /\ read_queue' = Without(left, late \cup drop)
       /\ outstanding' = outstanding \ (lost \cup {r.slice : r \in late \cup drop})
       /\ slab' = Writing(slab, missed')

(* The GPU waits at the layer: the lookups, and what they leave to read.   *)
SeeWhen(signalled) ==
    /\ serving = "spin" /\ signalled
    /\ \E ids \in RoutedIds : \E st \in Looked(ids) :
         IF st.full
         THEN /\ serving' = "abort"
              /\ UNCHANGED <<missed, awaited, slice, used, role, table, slab, read_queue, outstanding>>
         ELSE serving' = "read" /\ AfterLookups(st)
    /\ UNCHANGED <<cacheHostVars, requests, gpuSideVars, request, last_ready, planeVars, ready,
                   flying, landed_reads, stamped, tokenVars>>

(* As it would be if the thread waited for the very value.                 *)
SeeEqual == SeeWhen(routed = request.seq)

See == SeeWhen(routed >= request.seq)

(* load_slots: every region read, then the entries pointed at the slots.   *)
ReadMisses ==
    /\ serving = "read" /\ serving' = "publish" /\ missed' = {}
    /\ slab' = [s \in SlotIds |-> IF \E r \in missed : r.slot = s
                                  THEN (CHOOSE r \in missed : r.slot = s).slice ELSE slab[s]]
    /\ table' = [x \in Slices |-> IF \E r \in missed : r.slice = x
                                  THEN (CHOOSE r \in missed : r.slice = x).slot ELSE table[x]]
    /\ UNCHANGED <<cacheHostVars, requests, gpuSideVars, request, last_ready, planeVars, awaited, ready,
                   policyVars, readVars>>

(* The awaited prefetches have landed; publish points the tables at the    *)
(* landed ones that still have their slot (a slice's first spends its      *)
(* flag, whether it has or not), and `ready` is signalled.                 *)
Publish ==
    /\ serving = "publish" /\ awaited \cap flying = {}
    /\ LET out == {r \in landed_reads : r.slice \in outstanding /\ slice[r.slot] = r.slice} IN
         table' = [x \in Slices |-> IF \E r \in out : r.slice = x
                                    THEN (CHOOSE r \in out : r.slice = x).slot ELSE table[x]]
    /\ outstanding' = outstanding \ {r.slice : r \in landed_reads} /\ landed_reads' = {}
    /\ ready' = Max({ready, request.seq}) /\ last_ready' = request.seq
    /\ awaited' = {} /\ serving' = "after"
    /\ UNCHANGED <<cacheHostVars, requests, gpuSideVars, request, planeVars, missed, policyVars,
                   read_queue, flying, stamped, tokenVars, slab>>

(* promote_except: LRU slots take over as many pinned ones' roles; an empty *)
(* slot and an outstanding prefetch are left alone.                        *)
Promote ==
    \E up \in SUBSET {p \in SlotIds \ role : slice[p] # NoSlice /\ slice[p] \notin outstanding} :
    \E down \in SUBSET role :
        Cardinality(down) = Cardinality(up) /\ role' = (role \ down) \cup up

(* Off the critical path: promotions every so many requests (each is       *)
(* served, in order, so its seq is their number), then a cut's plane.      *)
AfterReady ==
    /\ serving = "after"
    /\ IF request.seq % PromoteEvery = 0 THEN Promote ELSE UNCHANGED role
    /\ LET cut == prefetch \in {"cuts", "replace"} /\ in_token /\ request.layer \in CutLayers IN
         /\ targets' = IF cut THEN [i \in 1..(CacheLayers - request.layer) |-> request.layer + i] ELSE <<>>
         /\ after_cut' = cut /\ serving' = IF cut THEN "issue" ELSE "pop"
    /\ UNCHANGED <<cacheHostVars, requests, gpuSideVars, request, last_ready, picks, missed, awaited, ready, slice,
                   used, readVars, table, slab>>

CacheService == Pop \/ ReadRow \/ Pick \/ Issued \/ See \/ ReadMisses \/ Publish \/ AfterReady

(* A prefetch read lands (Reads::landed) and the next one starts.          *)
Land ==
    /\ \E r \in flying :
         /\ Started(read_queue, flying \ {r})
         /\ landed_reads' = landed_reads \cup {q \in {r} : \A first \in landed_reads : first.slice # r.slice}
         /\ slab' = Writing([slab EXCEPT ![r.slot] = r.slice], flying' \ flying)
    /\ UNCHANGED <<cacheHostVars, requests, gpuSideVars, serviceVars, policyVars, outstanding, stamped, tokenVars,
                   table>>

CacheNext ==
    \/ \E decode \in BOOLEAN : Encode(decode)
    \/ \E n \in AbandonAfter, decode \in BOOLEAN : Abandon(n, decode)
    \/ CacheGpu \/ CacheService \/ Land

CacheSpec ==
    /\ CacheInit /\ [][CacheNext]_cacheVars
    /\ WF_cacheVars(CacheGpu) /\ WF_cacheVars(CacheService) /\ WF_cacheVars(Land)
-----------------------------------------------------------------------------
(* A table entry points at a slot that holds the expert, whole; and an     *)
(* expert the policy takes for resident has its entry, unless its read is  *)
(* still to be published or is one of this resolution's.                   *)
TablesHonest ==
    /\ \A x \in Slices : table[x] # NoEntry => slab[table[x]] = x /\ slice[table[x]] = x
    /\ \A s \in SlotIds : slice[s] # NoSlice =>
         table[slice[s]] = s \/ slice[s] \in outstanding \/ \E r \in missed : r.slice = slice[s]

(* From `ready` to the end of the layer the GPU finds every expert it      *)
(* routed to, however the next request, its prefetches and their readers   *)
(* run ahead.                                                              *)
ExpertsReady ==
    gpu_passes # <<>> /\ (gpu_stage = "experts" \/ (gpu_stage = "wait" /\ ready >= Seq0)) =>
        \A e \in chosen : table[<<gpu_layer, e>>] # NoEntry

(* No two reads write one slot.                                            *)
OneWriter ==
    \A r, q \in flying \cup missed : r # q => r.slot # q.slot

(* What resolve_experts promises the kernels and SlotPolicy its callers: a *)
(* request always finds its victims, the pinned class keeps its size, and  *)
(* what the GPU reads through a table is what the policy says is there.    *)
CacheSafe ==
    /\ serving # "abort" /\ Cardinality(role) = PinnedSlots
    /\ TablesHonest /\ ExpertsReady /\ OneWriter

(* Every committed pass gets all its layers resolved, behind one that was  *)
(* abandoned too.                                                          *)
PassesResolved == <>[](gpu_passes = <<>>)
=============================================================================
