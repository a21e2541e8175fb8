------------------------------- MODULE Batch -------------------------------
(***************************************************************************)
(* Continuous batching (serve/batch.rs): serve_batched with its rows, slots*)
(* and held job, stretches of batched steps with the next one parked on    *)
(* the GPU, the lone row's own loop, prefills with steps between their     *)
(* chunks.  A token is <<job, place>>.  What the GPU computes is not a     *)
(* number here: rec counts the tokens a state was computed from, -1 once   *)
(* a pass read anything but its row's inputs.  The lone row's loop is its  *)
(* summary, a token at a time; DecodeLoop has its inside.                  *)
(***************************************************************************)
EXTENDS Integers, Sequences, FiniteSets, SequencesExt, FiniteSetsExt

CONSTANTS Jobs,        \* requests
          Rows,        \* max_batch
          Places,      \* max_tokens of every request
          Room,        \* tokens a state's caches hold at first, and grow by
          Chunks,      \* prefill chunks of a prompt
          Between,     \* DECODE_STEPS_PER_PREFILL_CHUNK
          Estimate,    \* what `fits` counts a new session as, in tokens
          Budget,      \* of the session store, in tokens
          Spacings,    \* distance of decode checkpoints; 0: none
          Inserts,     \* bound: how often a thinking control acts
          Troubles     \* bound: clients that leave, stop requests, failures

ASSUME BatchAssumption ==
    /\ Jobs \subseteq Nat \ {0} /\ IsFiniteSet(Jobs)
    /\ {Rows, Places, Room, Chunks, Between, Estimate} \subseteq Nat \ {0}
    /\ Budget \in Nat /\ Spacings \subseteq Nat /\ Inserts \in Nat /\ Troubles \in Nat

NoJob  == 0
NoPass == [value |-> -1]
Host   == 2   \* where a step's ids come from, next to the draw buffers 0 and 1

VARIABLES
    spacing,
    at,          \* where the engine thread is
    arrived,     \* the channel's jobs, in order
    job,         \* per job: "new", "queued", "held", "row", "answered"
    left,        \* jobs whose client has gone
    stopping,    \* shutdown: "no", "requested", "cancel" (the grace is over)
    held_job,    \* held back for the budget, or being admitted
    rows,        \* the rows' jobs, in order
    slot,        \* per job: its batch slot, 0 without one
    free,        \* Slots
    gen, drawn,  \* per job: tokens generated, and those of them drawn
    done,        \* per job: Row::finish is set
    inserted,    \* per job: Row::inserted
    inserts, troubles,     \* bounds left
    fed, hist, cap, last,  \* per job: the state's position, hash history, capacity, checkpoint
    chunk,       \* chunks the admitted request has prefilled
    steps, budget,         \* steps run in this stretch, max_steps
    may,         \* jobs whose control may act on the next draw
    current, parked,       \* the steps in flight: passes, or NoPass
    passes,      \* the GPU's queue
    armed_value, raised,   \* StepSync
    fault,       \* the context recorded a GPU fault
    ids, stage, draws,     \* shared memory: ps.ids, the n-gram rows, the two draw buffers
    rec,         \* per job: what its recurrent state holds
    counts       \* per sampler (0: the engine's): <<job, draws counted>>

jobVars   == <<arrived, job, left, stopping>>
rowVars   == <<rows, slot, free, gen, drawn, done, inserted, inserts>>
stateVarsB == <<fed, hist, cap, last>>
gpuVarsB  == <<passes, fault, ids, stage, draws, rec, counts>>
stepVars  == <<current, parked, armed_value, raised>>
loopVars  == <<chunk, steps, budget, may>>
batchVars == <<spacing, troubles, at, jobVars, held_job, rowVars, stateVarsB, loopVars, stepVars, gpuVarsB>>

BatchInit ==
    /\ spacing \in Spacings /\ at = "recv" /\ arrived = <<>>
    /\ job = [j \in Jobs |-> "new"] /\ left = {} /\ stopping = "no" /\ held_job = NoJob
    /\ rows = <<>> /\ slot = [j \in Jobs |-> 0] /\ free = 1..Rows
    /\ gen = [j \in Jobs |-> 0] /\ drawn = gen /\ done = [j \in Jobs |-> FALSE]
    /\ inserted = {} /\ inserts = Inserts /\ troubles = Troubles
    /\ fed = gen /\ hist = gen /\ cap = [j \in Jobs |-> Room] /\ last = gen
    /\ chunk = 0 /\ steps = 0 /\ budget = 0 /\ may = {}
    /\ current = NoPass /\ parked = NoPass /\ passes = <<>> /\ armed_value = 0 /\ raised = 0
    /\ fault = FALSE /\ ids = <<>> /\ stage = <<>> /\ draws = [b \in {0, 1} |-> <<>>]
    /\ rec = gen /\ counts = [s \in 0..Rows |-> <<NoJob, 0>>]
-----------------------------------------------------------------------------
(* What may go wrong, at most Troubles times.                              *)
Trouble == troubles > 0 /\ troubles' = troubles - 1

(* The outside: requests arrive, clients leave, the server stops.          *)
Arrive(j) ==
    /\ job[j] = "new" /\ \A i \in Jobs : i < j => job[i] # "new"
    /\ job' = [job EXCEPT ![j] = "queued"] /\ arrived' = Append(arrived, j)
    /\ UNCHANGED <<troubles, left, stopping>>

Leave(j) ==
    /\ Trouble /\ j \notin left /\ job[j] \in {"queued", "held", "row"} /\ left' = left \cup {j}
    /\ UNCHANGED <<arrived, job, stopping>>

StopRequest ==
    /\ \/ stopping = "no" /\ stopping' = "requested" /\ Trouble
       \/ stopping = "requested" /\ stopping' = "cancel" /\ UNCHANGED troubles
    /\ UNCHANGED <<arrived, job, left>>

Outside ==
    /\ StopRequest \/ \E j \in Jobs : Arrive(j) \/ Leave(j)
    /\ UNCHANGED <<spacing, at, held_job, rowVars, stateVarsB, loopVars, stepVars, gpuVarsB>>
-----------------------------------------------------------------------------
(* The GPU: the oldest step runs over its rows, once it is released.       *)
Row(p, r) ==
    LET j   == p.rows[r]
        id  == IF p.ids = Host THEN ids[r] ELSE draws[p.ids][r].token
        fit == rec[j] >= 0 /\ p.pos[r] = rec[j] /\ {id, stage[r]} = {<<j, rec[j] + 1>>}
    IN IF fit THEN rec[j] + 1 ELSE -1

RunStep ==
    /\ passes # <<>> /\ raised >= Head(passes).value
    /\ passes' = Tail(passes)
    /\ LET p == Head(passes)
           at_row(j) == CHOOSE r \in 1..Len(p.rows) : p.rows[r] = j
           inside == Range(p.rows)
       IN \/ /\ rec' = [j \in Jobs |-> IF j \in inside THEN Row(p, at_row(j)) ELSE rec[j]]
             /\ draws' = [draws EXCEPT ![p.out] =
                   [r \in 1..Len(p.rows) |-> [token |-> <<p.rows[r], p.step[r] + 1>>,
                                              from |-> Row(p, r), seen |-> counts[p.slots[r]]]]]
             /\ counts' = [s \in 0..Rows |-> IF s \in Range(p.slots)
                                             THEN <<counts[s][1], counts[s][2] + 1>> ELSE counts[s]]
             /\ UNCHANGED <<fault, troubles>>
          \/ Trouble /\ fault' = TRUE /\ UNCHANGED <<rec, draws, counts>>
    /\ UNCHANGED <<spacing, at, jobVars, held_job, rowVars, stateVarsB, loopVars, stepVars, ids, stage>>
-----------------------------------------------------------------------------
(* Slots::take and give, admits, and what the rows hold.                   *)
LowestFree == Min(free)

InFlight(js) == FoldFunction(LAMBDA a, b : a + b, 0, [j \in js |-> gen[j]])

Admits == rows = <<>> \/ (Len(rows) < Rows /\ InFlight(Range(rows)) + Estimate <= Budget)

Due(j) == spacing > 0 /\ fed[j] - last[j] >= spacing

Answer(js) == job' = [j \in Jobs |-> IF j \in js THEN "answered" ELSE job[j]]

Cancelled(j) == j \in left \/ stopping = "cancel"
Admission    == budget = 0 /\ held_job = NoJob /\ Len(rows) < Rows /\ arrived # <<>>

(* ensure_capacity                                                         *)
Grown(j, n) == IF n <= cap[j] THEN cap[j] ELSE cap[j] + Room * ((n - cap[j] + Room - 1) \div Room)

(* Row::take_draw for the rows js: those in ends get a stop token or string*)
(* or have to end, those in acts a token inserted with the draw.           *)
Takes(js, ends, acts) ==
    /\ acts \subseteq js \cap may /\ Cardinality(acts) <= inserts
    /\ inserts' = inserts - Cardinality(acts)
    /\ gen' = [j \in Jobs |-> IF j \in acts THEN Min({gen[j] + 2, Places})
                              ELSE IF j \in js THEN gen[j] + 1 ELSE gen[j]]
    /\ drawn' = [j \in Jobs |-> IF j \in js THEN drawn[j] + 1 ELSE drawn[j]]
    /\ inserted' = inserted \cup acts
    /\ ends = {j \in js : Cancelled(j) \/ gen'[j] >= Places} \cup (ends \cap js)
    /\ done' = [j \in Jobs |-> done[j] \/ j \in ends]

(* The next job of the channel; after a stop request it is refused.        *)
TakeJob ==
    /\ at = "top" /\ ~fault /\ held_job = NoJob /\ Len(rows) < Rows /\ arrived # <<>>
    /\ LET j == Head(arrived) IN
         IF stopping # "no" THEN Answer({j}) /\ UNCHANGED held_job
         ELSE job' = [job EXCEPT ![j] = "held"] /\ held_job' = j
    /\ arrived' = Tail(arrived)
    /\ UNCHANGED <<spacing, troubles, at, left, stopping, rowVars, stateVarsB, loopVars, stepVars, gpuVarsB>>

(* engine_loop hands over the first job of a batch period.                 *)
Receive ==
    /\ at = "recv" /\ arrived # <<>> /\ at' = "top"
    /\ UNCHANGED <<spacing, troubles, jobVars, held_job, rowVars, stateVarsB, loopVars, stepVars, gpuVarsB>>

Admit ==
    /\ at = "top" /\ ~fault /\ held_job # NoJob /\ Admits
    /\ IF Cancelled(held_job)
       THEN Answer({held_job}) /\ held_job' = NoJob /\ UNCHANGED <<at, chunk>>
       ELSE at' = "prefill" /\ chunk' = 0 /\ UNCHANGED <<job, held_job>>
    /\ UNCHANGED <<spacing, troubles, arrived, left, stopping, rowVars, stateVarsB, steps, budget, may,
                   stepVars, gpuVarsB>>

(* next_action, once admission had its turn.                               *)
NextAction ==
    /\ at = "top" /\ ~fault
    /\ IF held_job = NoJob THEN Len(rows) = Rows \/ arrived = <<>> ELSE ~Admits
    /\ at' = CASE Len(rows) = 0 -> "recv" [] Len(rows) = 1 -> "solo" [] OTHER -> "commit"
    /\ counts' = IF Len(rows) = 1 THEN [counts EXCEPT ![0] = counts[slot[rows[1]]]] ELSE counts
    /\ steps' = 0 /\ budget' = 0
    /\ UNCHANGED <<spacing, troubles, jobVars, held_job, rowVars, stateVarsB, chunk, may, stepVars, passes,
                   fault, ids, stage, draws, rec>>

(* A fault ends the batch period: every row and the held job get a 503.    *)
FailAll ==
    /\ at = "top" /\ fault /\ at' = "faulted"
    /\ Answer(Range(rows) \cup ({held_job} \ {NoJob}))
    /\ free' = free \cup {slot[j] : j \in Range(rows)} /\ rows' = <<>> /\ held_job' = NoJob
    /\ UNCHANGED <<spacing, troubles, arrived, left, stopping, slot, gen, drawn, done, inserted, inserts,
                   stateVarsB, loopVars, stepVars, gpuVarsB>>
-----------------------------------------------------------------------------
(* Interleaved::prefill: straight through when nothing runs, else a chunk  *)
(* and then batched steps of the rows; it may be stopped before any chunk. *)
EndAdmission ==
    /\ Answer({held_job}) /\ held_job' = NoJob /\ at' = "top"
    /\ UNCHANGED <<chunk, steps, budget>>

Prefill ==
    /\ at = "prefill" /\ passes = <<>>
    /\ \/ fault /\ EndAdmission
       \/ ~fault /\ chunk < Chunks /\ Cancelled(held_job) /\ EndAdmission
       \/ ~fault /\ chunk = Chunks /\ at' = "begin" /\ UNCHANGED <<job, held_job, chunk, steps, budget>>
       \/ /\ ~fault /\ chunk < Chunks /\ ~Cancelled(held_job)
          /\ chunk' = IF rows = <<>> THEN Chunks ELSE chunk + 1
          /\ at' = IF chunk' < Chunks THEN "commit" ELSE "prefill"
          /\ steps' = 0 /\ budget' = Between /\ UNCHANGED <<job, held_job>>
    /\ UNCHANGED <<spacing, troubles, arrived, left, stopping, rowVars, stateVarsB, may, stepVars, gpuVarsB>>

(* start_row after the prefill: the first draw goes through the engine's   *)
(* sampler, whose counts it resets, and the counts go to the row's slot.   *)
Begin ==
    /\ at = "begin" /\ passes = <<>>
    /\ LET j == held_job
           s == LowestFree
       IN \E ends \in SUBSET {j}, acts \in SUBSET {j} :
            /\ may' \in SUBSET {j}
            /\ acts \subseteq may' /\ Cardinality(acts) <= inserts
            /\ inserts' = inserts - Cardinality(acts)
            /\ gen' = [gen EXCEPT ![j] = IF acts = {} THEN 1 ELSE Min({2, Places})]
            /\ drawn' = [drawn EXCEPT ![j] = 1]
            /\ fed' = [fed EXCEPT ![j] = gen'[j] - 1] /\ hist' = [hist EXCEPT ![j] = gen'[j] - 1]
            /\ rec' = [rec EXCEPT ![j] = gen'[j] - 1]
            /\ cap' = [cap EXCEPT ![j] = Grown(j, gen'[j] - 1)]
            /\ IF ends = {j} \/ Cancelled(j) \/ gen'[j] >= Places
               THEN /\ Answer({j}) /\ UNCHANGED <<rows, slot, free>>
                    /\ counts' = [counts EXCEPT ![0] = <<j, 1>>]
               ELSE /\ job' = [job EXCEPT ![j] = "row"] /\ rows' = Append(rows, j)
                    /\ slot' = [slot EXCEPT ![j] = s] /\ free' = free \ {s}
                    /\ counts' = [counts EXCEPT ![0] = <<j, 1>>, ![s] = <<j, 1>>]
    /\ held_job' = NoJob /\ at' = "top"
    /\ UNCHANGED <<spacing, troubles, arrived, left, stopping, done, inserted, last, chunk, steps, budget,
                   stepVars, passes, fault, ids, stage, draws>>
-----------------------------------------------------------------------------
(* run_solo, a token at a time.  A job that arrives stops the loop, unless *)
(* one is held; a step may be parked then, whose draw is the next one.     *)
SoloTakes(j, ends, parks) ==
    LET waits == held_job = NoJob /\ arrived # <<>>
        g     == gen[j] + 1
        over  == ends \/ Cancelled(j)
        yield == waits /\ ~over
        two   == parks /\ yield /\ g < Places
        g2    == IF two THEN g + 1 ELSE g
        more  == IF two THEN 2 ELSE 1
        \* the parked draw may end the row too
        ended == over \/ g2 >= Places
        eats  == parks /\ over /\ g < Places
        f     == IF eats THEN g2 ELSE g2 - 1
        n     == <<j, counts[0][2] + more>>
    IN /\ gen' = [gen EXCEPT ![j] = g2] /\ drawn' = [drawn EXCEPT ![j] = @ + more]
       /\ fed' = [fed EXCEPT ![j] = f] /\ hist' = [hist EXCEPT ![j] = f]
       /\ rec' = [rec EXCEPT ![j] = IF @ = fed[j] THEN f ELSE -1]
       /\ cap' = [cap EXCEPT ![j] = Grown(j, f)]
       /\ last' = [last EXCEPT ![j] = IF spacing > 0 /\ f - @ >= spacing THEN f ELSE @]
       /\ done' = [done EXCEPT ![j] = ended]
       /\ at' = IF ended THEN "answer" ELSE IF yield THEN "top" ELSE "solo"
       /\ counts' = IF yield /\ ~ended THEN [counts EXCEPT ![0] = n, ![slot[j]] = n]
                    ELSE [counts EXCEPT ![0] = n]

Solo ==
    /\ at = "solo" /\ passes = <<>>
    /\ \E ends, parks \in BOOLEAN : SoloTakes(rows[1], ends, parks)
    /\ UNCHANGED <<spacing, troubles, jobVars, held_job, rows, slot, free, inserted, inserts, loopVars,
                   stepVars, passes, fault, ids, stage, draws>>

SoloFails ==
    /\ Trouble /\ at = "solo" /\ fault' \in BOOLEAN /\ at' = "unwind_wait"
    /\ UNCHANGED <<spacing, jobVars, held_job, rowVars, stateVarsB, loopVars, stepVars, passes,
                   ids, stage, draws, rec, counts>>
-----------------------------------------------------------------------------
(* try_stretch.  A step over the rows: its ids from the host, or from the  *)
(* draws of the step in front of it.                                       *)
StartStep(from, out, ahead, value) ==
    [rows |-> rows, slots |-> [r \in 1..Len(rows) |-> slot[rows[r]]], ids |-> from, out |-> out,
     pos |-> [r \in 1..Len(rows) |-> fed[rows[r]]],
     step |-> [r \in 1..Len(rows) |-> gen[rows[r]] + ahead], value |-> value]

(* stage_batch_rows: the rows' n-gram inputs, hashed after their histories.*)
Stages ==
    /\ stage' = [r \in 1..Len(rows) |->
                   <<rows[r], IF hist[rows[r]] = gen[rows[r]] - 1 THEN gen[rows[r]] ELSE -1>>]
    /\ hist' = [j \in Jobs |-> IF j \in Range(rows) THEN gen[j] ELSE hist[j]]

Fits == \A j \in Range(rows) : fed[j] < cap'[j]

Advance == fed' = [j \in Jobs |-> IF j \in Range(rows) THEN fed[j] + 1 ELSE fed[j]]

Commit ==
    /\ at = "commit" /\ parked = NoPass
    /\ cap' = [j \in Jobs |-> IF j \in Range(rows) THEN Grown(j, fed[j] + 1) ELSE cap[j]]
    /\ at' = IF Fits /\ passes = <<>> THEN "ahead" ELSE "bail"
    /\ ids' = [r \in 1..Len(rows) |-> <<rows[r], gen[rows[r]]>>] /\ Stages
    /\ current' = StartStep(Host, 0, 0, 0) /\ passes' = Append(passes, current')
    /\ Advance /\ steps' = steps + 1
    /\ UNCHANGED <<spacing, troubles, jobVars, held_job, rowVars, last, chunk, budget, may, parked,
                   armed_value, raised, fault, draws, rec, counts>>

(* release_rows: the rows must be the step's, where it left them.          *)
IsOf(p) == p.rows = rows /\ \A r \in 1..Len(rows) : fed[rows[r]] = p.pos[r] + 1

Released == raised' = Max({raised, armed_value}) /\ armed_value' = 0

ReleaseStep(next) ==
    /\ at' = IF IsOf(parked) /\ armed_value = parked.value THEN next ELSE "bail"
    /\ Stages /\ Released /\ current' = parked /\ parked' = NoPass /\ steps' = steps + 1
    /\ UNCHANGED <<spacing, troubles, jobVars, held_job, rowVars, fed, cap, last, chunk, budget, may,
                   passes, fault, ids, draws, rec, counts>>

ReleaseNext == at = "commit" /\ parked # NoPass /\ ReleaseStep("ahead")

(* park_next over the rows as RowAhead has them.                           *)
Ending(j) == gen[j] + 1 >= Places \/ j \in left

(* As it would be without the controls' veto.                              *)
ParkNextActing ==
    /\ budget > 0 => steps < budget
    /\ ~Admission /\ stopping # "cancel"
    /\ \A j \in Range(rows) : ~Due(j) /\ ~Ending(j) /\ fed[j] + 1 < cap[j]

ParkNext ==
    /\ budget > 0 => steps < budget
    /\ ~Admission /\ stopping # "cancel"
    /\ \A j \in Range(rows) : ~Due(j) /\ ~Ending(j) /\ j \notin may' /\ fed[j] + 1 < cap[j]

Ahead ==
    /\ at = "ahead"
    /\ may' \in (IF inserts > 0 THEN SUBSET Range(rows) ELSE {{}})
    /\ IF ParkNext
       THEN /\ at' = IF armed_value = 0 /\ IsOf(current)
                        /\ \A j \in Range(rows) : fed[j] < cap[j] THEN "finish" ELSE "bail"
            /\ parked' = StartStep(current.out, 1 - current.out, 1, raised + 1)
            /\ passes' = Append(passes, parked') /\ armed_value' = raised + 1 /\ Advance
       ELSE at' = "finish" /\ UNCHANGED <<parked, passes, armed_value, fed>>
    /\ UNCHANGED <<spacing, troubles, jobVars, held_job, rowVars, hist, cap, last, chunk, steps, budget,
                   current, raised, fault, ids, stage, draws, rec, counts>>

(* finish_rows and take_draws: the step waited for, each row's draw taken. *)
Ran == Len(passes) = (IF parked = NoPass THEN 0 ELSE 1)

FinishStep ==
    /\ at = "finish" /\ Ran /\ ~fault
    /\ \E ends \in SUBSET Range(rows), acts \in SUBSET Range(rows) : Takes(Range(rows), ends, acts)
    /\ LET over == \E j \in Range(rows) : done'[j]
       IN at' = CASE parked # NoPass /\ inserted' # {} -> "bail"
                  [] parked # NoPass /\ over -> "drain"
                  [] parked # NoPass /\ ~over -> "commit"
                  [] OTHER -> "settle"
    /\ current' = NoPass
    /\ UNCHANGED <<spacing, troubles, jobVars, held_job, rows, slot, free, stateVarsB, loopVars, parked,
                   armed_value, raised, gpuVarsB>>

(* A row ended with the next step parked: it is drained, and the rows that *)
(* go on take their draws from it.                                         *)
Drain == at = "drain" /\ ReleaseStep("drained")

FinishDrain ==
    /\ at = "drained" /\ Ran /\ ~fault /\ at' = "settle"
    /\ LET on == {j \in Range(rows) : ~done[j]} IN
         \E ends \in SUBSET on, acts \in SUBSET on : Takes(on, ends, acts)
    /\ current' = NoPass
    /\ UNCHANGED <<spacing, troubles, jobVars, held_job, rows, slot, free, stateVarsB, loopVars, parked,
                   armed_value, raised, gpuVarsB>>

(* At rest: what a control inserted is fed, due checkpoints are taken, and *)
(* the stretch ends or goes on.                                            *)
Settle ==
    /\ at = "settle" /\ passes = <<>>
    /\ LET put(f) == [j \in Jobs |-> IF j \in inserted THEN gen[j] - 1 ELSE f[j]]
       IN /\ fed' = put(fed) /\ hist' = put(hist)
          /\ rec' = [j \in Jobs |-> IF j \in inserted
                                    THEN IF rec[j] = fed[j] /\ hist[j] = fed[j] THEN gen[j] - 1 ELSE -1
                                    ELSE rec[j]]
          /\ cap' = [j \in Jobs |-> IF j \in inserted THEN Grown(j, gen[j] - 1) ELSE cap[j]]
          /\ last' = [j \in Jobs |-> IF j \in Range(rows) /\ ~done[j] /\ spacing > 0
                                        /\ fed'[j] - last[j] >= spacing THEN fed'[j] ELSE last[j]]
    /\ inserted' = {}
    /\ at' = IF \/ \E j \in Range(rows) : done[j]
                \/ inserted # {} \/ (budget > 0 /\ steps >= budget) \/ Admission
             THEN "answer" ELSE "commit"
    /\ UNCHANGED <<spacing, troubles, jobVars, held_job, rows, slot, free, gen, drawn, done, inserts,
                   loopVars, stepVars, passes, fault, ids, stage, draws, counts>>

(* step_rows after the stretch: the rows that finished are answered, the   *)
(* last row moving to each one's place; then back to the prefill or the    *)
(* scheduler.                                                              *)
SwapRemove(s, i) == IF i = Len(s) THEN Front(s) ELSE [Front(s) EXCEPT ![i] = Last(s)]

FinishRow ==
    /\ at = "answer" /\ \E j \in Range(rows) : done[j]
    /\ LET i == Min({r \in 1..Len(rows) : done[rows[r]]})
           j == rows[i]
       IN /\ rows' = SwapRemove(rows, i) /\ Answer({j}) /\ free' = free \cup {slot[j]}
    /\ UNCHANGED <<spacing, troubles, at, arrived, left, stopping, held_job, slot, gen, drawn, done, inserted,
                   inserts, stateVarsB, loopVars, stepVars, gpuVarsB>>

Return(ran) ==
    /\ at' = CASE budget = 0 -> "top"
               [] budget > 0 /\ (ran >= budget \/ ran = 0 \/ rows' = <<>>) -> "prefill"
               [] OTHER -> "commit"
    /\ budget' = IF at' = "commit" THEN budget - ran ELSE 0
    /\ steps' = 0

Answered ==
    /\ at = "answer" /\ \A j \in Range(rows) : ~done[j]
    /\ UNCHANGED rows /\ Return(steps)
    /\ UNCHANGED <<spacing, troubles, jobVars, held_job, slot, free, gen, drawn, done, inserted, inserts,
                   stateVarsB, chunk, may, stepVars, gpuVarsB>>

(* As it would be if a parked step were only forgotten.                    *)
StepFailsParked ==
    /\ at \in {"commit", "ahead", "finish", "drain", "drained"}
    /\ IF at \in {"finish", "drained"} THEN fault /\ UNCHANGED troubles ELSE Trouble
    /\ at' = "unwind_wait" /\ current' = NoPass /\ parked' = NoPass
    /\ UNCHANGED <<armed_value, raised, spacing, jobVars, held_job, rowVars, stateVarsB, loopVars, gpuVarsB>>

(* A step that fails, in staging or on the GPU: a parked one is released,  *)
(* what is in flight is waited for, and every row fails.                   *)
StepFails ==
    /\ at \in {"commit", "ahead", "finish", "drain", "drained"}
    /\ IF at \in {"finish", "drained"} THEN fault /\ UNCHANGED troubles ELSE Trouble
    /\ at' = "unwind_wait" /\ Released /\ current' = NoPass /\ parked' = NoPass
    /\ UNCHANGED <<spacing, jobVars, held_job, rowVars, stateVarsB, loopVars, gpuVarsB>>

FailRows ==
    /\ at = "unwind_wait" /\ passes = <<>>
    /\ Answer(Range(rows)) /\ free' = free \cup {slot[j] : j \in Range(rows)} /\ rows' = <<>>
    /\ Return(0)
    /\ UNCHANGED <<spacing, troubles, arrived, left, stopping, held_job, slot, gen, drawn, done, inserted,
                   inserts, stateVarsB, chunk, may, stepVars, gpuVarsB>>

Engine ==
    \/ Receive \/ TakeJob \/ Admit \/ NextAction \/ FailAll \/ Prefill \/ Begin \/ Solo
    \/ Commit \/ ReleaseNext \/ Ahead \/ FinishStep \/ Drain \/ FinishDrain \/ Settle
    \/ FinishRow \/ Answered \/ FailRows
    \/ at \in {"finish", "drained"} /\ Ran /\ StepFails

BatchNext ==
    \/ Engine \/ RunStep \/ SoloFails \/ Outside
    \/ at \in {"commit", "ahead", "drain"} /\ StepFails

BatchSpec == BatchInit /\ [][BatchNext]_batchVars /\ WF_batchVars(Engine) /\ WF_batchVars(RunStep)
-----------------------------------------------------------------------------
(* Each draw a row takes was made for it: for its next place, from all of  *)
(* its tokens and its own penalty counts, and each draw once               *)
(* (take_draws, CountsSlot).                                               *)
DrawsMatch ==
    at \in {"finish", "drained"} /\ Ran /\ ~fault =>
        \A r \in 1..Len(rows) : ~done[rows[r]] =>
            LET j == rows[r]
                d == draws[current.out][r]
            IN d.token = <<j, gen[j] + 1>> /\ d.from = gen[j] /\ d.seen = <<j, drawn[j]>>

(* Between stretches every row is at rest, its counts in its own slot, and *)
(* nothing is in flight for what else needs the GPU (try_stretch's promise).*)
AtRest == at \in {"recv", "top", "prefill", "begin", "solo", "answer", "faulted"}

RestsBetween ==
    AtRest =>
        /\ passes = <<>> /\ armed_value = 0 /\ parked = NoPass /\ inserted = {}
        /\ \A j \in Range(rows) :
             /\ hist[j] = fed[j] /\ rec[j] = fed[j]
             /\ fed[j] = gen[j] - 1 \/ (done[j] /\ fed[j] = gen[j])
             /\ done[j] => at = "answer"
             /\ ~done[j] => counts[IF at = "solo" THEN 0 ELSE slot[j]] = <<j, drawn[j]>>

(* Slots: two rows never share one, and a free one is no row's.            *)
SlotsExact ==
    /\ \A r, s \in 1..Len(rows) : r # s => slot[rows[r]] # slot[rows[s]]
    /\ free = (1..Rows) \ {slot[j] : j \in Range(rows)}

(* No request is in two places, and none of the ensure! fails.             *)
BatchSafe ==
    /\ at # "bail" /\ DrawsMatch /\ RestsBetween /\ SlotsExact
    /\ Len(rows) <= Rows /\ IsInjective(rows)
    /\ \A j \in Jobs : j \in Range(rows) <=> job[j] = "row"
    /\ at \in {"recv", "faulted"} => rows = <<>> /\ held_job = NoJob /\ free = 1..Rows

(* Every request gets its answer, the one held back for the budget too;    *)
(* after a fault those still in the channel are the engine loop's.         *)
BatchServes ==
    <>[](\A j \in Jobs : job[j] \in {"new", "answered"} \/ (fault /\ job[j] = "queued"))
=============================================================================
