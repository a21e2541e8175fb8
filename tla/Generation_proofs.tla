------------------------- MODULE Generation_proofs -------------------------
(***************************************************************************)
(* The two parts of a batched generation that are proved: the batch        *)
(* scheduler (BatchSafe of Batch), then the expert cache (CacheSafe of     *)
(* ExpertCache).                                                           *)
(*                                                                         *)
(* The batch scheduler keeps its promise for every number of requests, of  *)
(* rows, of tokens and of spacings, whenever clients leave, steps fail and *)
(* controls act: every draw a row takes was made for it, every row is at   *)
(* rest between stretches, no ensure! fails.                               *)
(*                                                                         *)
(* BatchSafe is not inductive.  BInv says for each place of the engine     *)
(* thread what a row's state, its counts and the GPU's queue are: at rest  *)
(* (RestFacts), before a step of a stretch (CommitFacts), with the next    *)
(* step parked (ParkedFacts), with a step in flight that has run or has not*)
(* (FlightFacts), at its end (SettleFacts), and who is in the roster.  Two *)
(* facts carry the argument: a parked step's value is one above what was   *)
(* raised, so the GPU cannot run it early (Armed), and no control may act  *)
(* on the draw of a step with another one parked behind it.                *)
(*                                                                         *)
(* The expert cache's argument has two layers.  RoomInv counts: a request's*)
(* lookups, the planes reserved for the next resolution (Taken, Leaves) and*)
(* the pinned class fit in the slots together, so a victim is always found *)
(* and CacheNeverFull needs no condition.  ContentInv relates slots, reads,*)
(* table and slab; it is kept only while no expert has a read that landed  *)
(* and another under way (OnePerExpert), and CacheIsSafe says so.          *)
(***************************************************************************)
EXTENDS Batch, ExpertCache, FiniteSums, SequenceTheorems
-----------------------------------------------------------------------------
InStretch == at \in {"commit", "ahead", "finish", "drain", "drained", "settle"}

BatchTypes ==
    /\ at \in {"recv", "top", "prefill", "begin", "solo", "commit", "ahead", "finish", "drain",
               "drained", "settle", "answer", "unwind_wait", "faulted"}
    /\ arrived \in Seq(Jobs) /\ rows \in Seq(Jobs) /\ held_job \in Jobs \cup {NoJob}
    /\ job \in [Jobs -> {"new", "queued", "held", "row", "answered"}]
    /\ slot \in [Jobs -> 0..Rows] /\ free \subseteq 1..Rows
    /\ gen \in [Jobs -> Nat] /\ drawn \in [Jobs -> Nat] /\ done \in [Jobs -> BOOLEAN]
    /\ fed \in [Jobs -> Int] /\ hist \in [Jobs -> Int] /\ DOMAIN rec = Jobs
    /\ cap \in [Jobs -> Nat]
    /\ counts \in [0..Rows -> (Jobs \cup {NoJob}) \X Nat]
    /\ DOMAIN draws = {0, 1}
    /\ inserts \in Nat /\ spacing \in Nat
    /\ steps \in Nat /\ budget \in Nat /\ armed_value \in Nat /\ raised \in Nat

(* Who is where: a request is a row, held, queued or answered, and every   *)
(* row has a slot of its own.                                              *)
Roster ==
    /\ IsInjective(rows) /\ Range(rows) = {j \in Jobs : job[j] = "row"}
    /\ IsInjective(arrived) /\ \A j \in Range(arrived) : job[j] = "queued"
    /\ held_job # NoJob => job[held_job] = "held"
    /\ \A j \in Jobs : job[j] \in {"new", "queued", "held"} => ~done[j]
    /\ inserted \subseteq Range(rows)
    /\ \A i, j \in Range(rows) : slot[i] = slot[j] => i = j
    /\ \A j \in Range(rows) : slot[j] \in 1..Rows
    /\ free = (1..Rows) \ {slot[j] : j \in Range(rows)}

(* There is room for the request being admitted.                           *)
Admitting ==
    \/ at \in {"prefill", "begin"}
    \/ budget > 0 /\ (InStretch \/ at \in {"answer", "unwind_wait"})

Seats ==
    /\ Len(rows) <= Rows
    /\ Admitting => held_job # NoJob /\ Len(rows) < Rows
    /\ at = "solo" => Len(rows) = 1 /\ budget = 0
    /\ at \in {"recv", "faulted"} => rows = <<>> /\ held_job = NoJob
    /\ \A j \in Range(rows) :
         /\ gen[j] >= 1 /\ (~done[j] => gen[j] < Places)
         /\ done[j] => at \in {"drain", "drained", "settle", "answer", "unwind_wait"}

(* A row at rest: its counts are its own, its state and history are at its *)
(* position, nothing is in flight.                                         *)
Counted(j) == counts[IF at = "solo" THEN 0 ELSE slot[j]] = <<j, drawn[j]>>
Whole(j)   == hist[j] = fed[j] /\ rec[j] = fed[j]
Idle       == passes = <<>> /\ armed_value = 0 /\ parked = NoPass

RestFacts ==
    AtRest =>
        /\ Idle /\ inserted = {}
        /\ \A j \in Range(rows) :
             /\ Whole(j) /\ (fed[j] = gen[j] - 1 \/ (done[j] /\ fed[j] = gen[j]))
             /\ ~done[j] => Counted(j)

SettleFacts ==
    at = "settle" =>
        /\ Idle
        /\ \A j \in Range(rows) :
             /\ Whole(j) /\ (j \in inserted \/ fed[j] = gen[j] - 1 \/ (done[j] /\ fed[j] = gen[j]))
             /\ ~done[j] => Counted(j)

CommitFacts ==
    at = "commit" /\ parked = NoPass =>
        /\ Idle /\ inserted = {}
        /\ \A j \in Range(rows) : Whole(j) /\ fed[j] = gen[j] - 1 /\ Counted(j)

(* The step p is the one of the rows as they are, d steps ahead.           *)
StepOf(p, d) ==
    /\ p.rows = rows /\ p.out \in {0, 1} /\ p.ids \in {0, 1, Host} \ {p.out}
    /\ p.value \in Nat
    /\ p.slots = [r \in 1..Len(rows) |-> slot[rows[r]]]
    /\ \A r \in 1..Len(rows) : p.pos[r] = gen[rows[r]] - 1 + d /\ p.step[r] = gen[rows[r]] + d

Armed == parked.value = raised + 1 /\ armed_value = parked.value

ParkedFacts ==
    at = "drain" \/ (at = "commit" /\ parked # NoPass) =>
        /\ parked # NoPass /\ passes = <<parked>> /\ Armed /\ StepOf(parked, 0)
        /\ parked.ids \in {0, 1} /\ inserted = {} /\ may \cap Range(rows) = {}
        /\ \A r \in 1..Len(rows) : draws[parked.ids][r].token = <<rows[r], gen[rows[r]]>>
        /\ \A j \in Range(rows) :
             hist[j] = gen[j] - 1 /\ rec[j] = gen[j] - 1 /\ fed[j] = gen[j] /\ Counted(j)

(* The step in flight: still to run on the inputs of its rows, or run, its *)
(* draws being those of the next places.                                   *)
Behind == IF parked = NoPass THEN <<>> ELSE <<parked>>

NotRun ==
    /\ passes = <<current>> \o Behind
    /\ \A r \in 1..Len(rows) :
         /\ stage[r] = <<rows[r], gen[rows[r]]>>
         /\ (IF current.ids = Host THEN ids[r] ELSE draws[current.ids][r].token)
               = <<rows[r], gen[rows[r]]>>
    /\ \A j \in Range(rows) : rec[j] = gen[j] - 1 /\ Counted(j)

HasRun ==
    /\ passes = Behind
    /\ ~fault =>
         /\ \A j \in Range(rows) : rec[j] = gen[j] /\ counts[slot[j]] = <<j, drawn[j] + 1>>
         /\ \A r \in 1..Len(rows) :
              LET j == rows[r] IN
              draws[current.out][r] = [token |-> <<j, gen[j] + 1>>, from |-> gen[j],
                                       seen |-> <<j, drawn[j]>>]

FlightFacts ==
    at \in {"ahead", "finish", "drained"} =>
        /\ StepOf(current, 0) /\ current.value <= raised /\ inserted = {}
        /\ NotRun \/ HasRun
        /\ at # "finish" \/ parked = NoPass => parked = NoPass /\ armed_value = 0
        /\ at = "drained" \/ parked # NoPass => may \cap Range(rows) = {}
        /\ parked # NoPass => /\ Armed /\ StepOf(parked, 1)
                              /\ parked.ids = current.out /\ parked.out = 1 - current.out
        /\ \A j \in Range(rows) : hist[j] = gen[j]
                                  /\ fed[j] = gen[j] + (IF parked = NoPass THEN 0 ELSE 1)

UnwindFacts == at = "unwind_wait" => armed_value = 0 /\ parked = NoPass /\ inserted = {}

BInv ==
    /\ BatchTypes /\ Roster /\ Seats /\ RestFacts /\ SettleFacts /\ CommitFacts /\ ParkedFacts
    /\ FlightFacts /\ UnwindFacts
-----------------------------------------------------------------------------
LEMMA GrownCovers ==
    ASSUME NEW j \in Jobs, NEW n \in Int, BatchAssumption, cap \in [Jobs -> Nat]
    PROVE  Grown(j, n) \in Nat /\ Grown(j, n) >= n
<1>1. CASE n <= cap[j]
  BY <1>1 DEF Grown
<1>2. CASE n > cap[j]
  <2> DEFINE k == n - cap[j] + Room - 1
             q == k \div Room
  <2>1. k \in Nat /\ Room \in Nat \ {0} /\ cap[j] \in Nat
    BY <1>2 DEF BatchAssumption
  <2>2. q \in Nat /\ k < Room * q + Room
    <3> HIDE DEF k
    <3> QED BY <2>1
  <2>3. Grown(j, n) = cap[j] + Room * q
    BY <1>2 DEF Grown
  <2>4. Room * q \in Nat
    <3> HIDE DEF q, k
    <3> QED BY <2>1, <2>2
  <2> QED
    BY <2>1, <2>2, <2>3, <2>4
<1> QED BY <1>1, <1>2

(* Sequences without repetitions: what they hold, with one more element,   *)
(* without the first, and with the last in the place of one that goes.     *)
LEMMA AppendDistinct ==
    ASSUME NEW S, NEW s \in Seq(S), NEW e \in S, IsInjective(s), e \notin Range(s)
    PROVE  /\ Append(s, e) \in Seq(S) /\ Len(Append(s, e)) = Len(s) + 1
           /\ IsInjective(Append(s, e)) /\ Range(Append(s, e)) = Range(s) \cup {e}
<1> DEFINE t == Append(s, e)
           n == Len(s)
<1>1. n \in Nat /\ t \in Seq(S) /\ Len(t) = n + 1 /\ t[n + 1] = e /\ \A i \in 1..n : t[i] = s[i]
  OBVIOUS
<1>2. DOMAIN s = 1..n /\ DOMAIN t = 1..(n + 1) /\ \A i \in 1..n : s[i] # e
  BY <1>1 DEF Range
<1>3. \A i \in 1..(n + 1) : i = n + 1 \/ i \in 1..n
  BY <1>1
<1> HIDE DEF t, n
<1>4. IsInjective(t)
  BY <1>1, <1>2, <1>3 DEF IsInjective
<1>5. \A x \in Range(t) : x \in Range(s) \cup {e}
  BY <1>1, <1>2, <1>3 DEF Range
<1>6. \A x \in Range(s) \cup {e} : x \in Range(t)
  <2>1. e \in Range(t)
    BY <1>1, <1>2 DEF Range
  <2>2. \A i \in 1..n : i \in 1..(n + 1)
    BY <1>1
  <2> QED BY <1>1, <1>2, <2>1, <2>2 DEF Range
<1> QED BY <1>1, <1>4, <1>5, <1>6 DEF t, n

LEMMA TailDistinct ==
    ASSUME NEW S, NEW s \in Seq(S), s # <<>>, IsInjective(s)
    PROVE  /\ Head(s) \in S /\ Tail(s) \in Seq(S) /\ IsInjective(Tail(s))
           /\ Range(Tail(s)) = Range(s) \ {Head(s)} /\ Head(s) \in Range(s)
<1> DEFINE t == Tail(s)
           n == Len(s)
<1>1. /\ n \in Nat \ {0} /\ t \in Seq(S) /\ Len(t) = n - 1 /\ Head(s) = s[1] /\ s[1] \in S
      /\ \A i \in 1..(n - 1) : t[i] = s[i + 1]
  OBVIOUS
<1>2. DOMAIN s = 1..n /\ DOMAIN t = 1..(n - 1)
  BY <1>1
<1>3. \A i \in 1..(n - 1) : i + 1 \in 1..n /\ i + 1 # 1
  BY <1>1
<1>4. \A i \in 1..n : i = 1 \/ (i - 1 \in 1..(n - 1) /\ s[i] = t[i - 1])
  <2> HIDE DEF t, n
  <2> QED BY <1>1
<1>5. 1 \in 1..n
  BY <1>1
<1> HIDE DEF t, n
<1>6. IsInjective(t)
  <2> SUFFICES ASSUME NEW a \in 1..(n - 1), NEW b \in 1..(n - 1), t[a] = t[b] PROVE a = b
    BY <1>2 DEF IsInjective
  <2>1. s[a + 1] = s[b + 1]
    BY <1>1
  <2>2. a + 1 = b + 1
    BY <2>1, <1>2, <1>3 DEF IsInjective
  <2> QED BY <2>2
<1>7. \A x \in Range(t) : x \in Range(s) \ {s[1]}
  <2> SUFFICES ASSUME NEW i \in 1..(n - 1) PROVE t[i] \in Range(s) \ {s[1]}
    BY <1>2 DEF Range
  <2>1. t[i] = s[i + 1] /\ i + 1 \in 1..n /\ i + 1 # 1
    BY <1>1, <1>3
  <2>2. s[i + 1] # s[1]
    BY <2>1, <1>2, <1>5 DEF IsInjective
  <2> QED BY <2>1, <2>2, <1>2 DEF Range
<1>8. \A x \in Range(s) \ {s[1]} : x \in Range(t)
  BY <1>2, <1>4 DEF Range
<1> QED BY <1>1, <1>2, <1>5, <1>6, <1>7, <1>8 DEF t, Range

LEMMA SwapDistinct ==
    ASSUME NEW S, NEW s \in Seq(S), NEW i \in 1..Len(s), IsInjective(s)
    PROVE  /\ SwapRemove(s, i) \in Seq(S) /\ Len(SwapRemove(s, i)) = Len(s) - 1
           /\ IsInjective(SwapRemove(s, i))
           /\ Range(SwapRemove(s, i)) = Range(s) \ {s[i]}
<1> DEFINE t == SwapRemove(s, i)
           n == Len(s)
<1>1. n \in Nat \ {0} /\ DOMAIN s = 1..n /\ i \in 1..n /\ \A k \in 1..n : s[k] \in S
  OBVIOUS
<1>2. Front(s) \in Seq(S) /\ Len(Front(s)) = n - 1 /\ \A k \in 1..(n - 1) : Front(s)[k] = s[k]
  BY <1>1 DEF Front
<1>3. /\ t \in Seq(S) /\ Len(t) = n - 1
      /\ \A k \in 1..(n - 1) : t[k] = IF k = i THEN s[n] ELSE s[k]
  <2>1. CASE i = n
    <3>1. t = Front(s)
      BY <2>1 DEF SwapRemove
    <3> QED BY <1>1, <1>2, <2>1, <3>1
  <2>2. CASE i # n
    <3>1. t = [Front(s) EXCEPT ![i] = s[n]]
      BY <2>2 DEF SwapRemove, Last
    <3>2. i \in 1..(n - 1) /\ s[n] \in S
      <4> HIDE DEF n
      <4> QED BY <1>1, <2>2
    <3> HIDE DEF t, n
    <3> QED BY <1>1, <1>2, <3>1, <3>2
  <2> QED BY ONLY ZenonT(30), <2>1, <2>2
<1>4. DOMAIN t = 1..(n - 1)
  BY <1>3
<1>5. /\ \A k \in 1..(n - 1) : k \in 1..n /\ k # n
      /\ \A k \in 1..n : k = n \/ k \in 1..(n - 1)
      /\ n \in 1..n
  <2> HIDE DEF n
  <2> QED BY <1>1
<1> HIDE DEF t, n
<1>6. \A a, b \in 1..n : s[a] = s[b] => a = b
  BY <1>1 DEF IsInjective
<1>7. IsInjective(t)
  BY ONLY ZenonT(30), <1>3, <1>4, <1>5, <1>6 DEF IsInjective
<1>8. \A k \in 1..(n - 1) : t[k] \in Range(s) \ {s[i]}
  BY <1>1, <1>3, <1>5, <1>6 DEF n, Range
<1>9. \A k \in 1..n : k # i => \E m \in 1..(n - 1) : t[m] = s[k]
  <2> SUFFICES ASSUME NEW k \in 1..n, k # i PROVE \E m \in 1..(n - 1) : t[m] = s[k]
    OBVIOUS
  <2>1. CASE k = n
    <3>1. i \in 1..(n - 1)
      BY <2>1, <1>5 DEF n
    <3> QED BY <2>1, <3>1, <1>3
  <2>2. CASE k # n
    BY <2>2, <1>3, <1>5
  <2> QED BY <2>1, <2>2
<1>10. Range(t) = Range(s) \ {s[i]}
  <2>1. \A x \in Range(t) : x \in Range(s) \ {s[i]}
    BY <1>4, <1>8 DEF Range
  <2>2. \A x \in Range(s) \ {s[i]} : x \in Range(t)
    BY <1>1, <1>4, <1>9 DEF Range
  <2> QED BY <2>1, <2>2
<1> QED BY <1>3, <1>7, <1>10 DEF t, n

LEMMA OutsideStep ==
    ASSUME BInv, Outside, BatchAssumption
    PROVE  BInv'
<1>0. /\ BatchTypes /\ Roster /\ Seats /\ RestFacts /\ SettleFacts /\ CommitFacts /\ ParkedFacts
      /\ FlightFacts /\ UnwindFacts
  BY DEF BInv
<1>a. UNCHANGED <<spacing, at, held_job, rowVars, stateVarsB, loopVars, stepVars, gpuVarsB>>
  BY DEF Outside
<1> USE DEF rowVars, stateVarsB, gpuVarsB, stepVars, loopVars
<1>1. Roster' /\ BatchTypes'
  <2>1. CASE StopRequest \/ \E j \in Jobs : Leave(j)
    <3>1. UNCHANGED <<arrived, job>>
      BY <2>1 DEF StopRequest, Leave
    <3>2. Roster'
      BY <1>0, <1>a, <3>1 DEF Roster
    <3> QED
      BY <1>0, <1>a, <3>1, <3>2 DEF BatchTypes
  <2>2. ASSUME NEW j \in Jobs, Arrive(j) PROVE Roster' /\ BatchTypes'
    <3>1. job' = [job EXCEPT ![j] = "queued"] /\ arrived' = Append(arrived, j) /\ job[j] = "new"
      BY <2>2 DEF Arrive
    <3>t. job \in [Jobs -> {"new", "queued", "held", "row", "answered"}] /\ arrived \in Seq(Jobs)
      BY <1>0 DEF BatchTypes
    <3>r. job' \in [Jobs -> {"new", "queued", "held", "row", "answered"}] /\ arrived' \in Seq(Jobs)
      BY <3>1, <3>t
    <3>2. BatchTypes'
      BY <1>0, <1>a, <3>r DEF BatchTypes
    <3>3. {i \in Jobs : job'[i] = "row"} = {i \in Jobs : job[i] = "row"}
      BY <3>1, <3>t
    <3>4. j \notin Range(arrived)
      BY <3>1, <1>0 DEF Roster
    <3>5. /\ IsInjective(arrived') /\ Range(arrived') = Range(arrived) \cup {j}
      BY <3>1, <3>t, <3>4, <1>0, AppendDistinct DEF Roster
    <3>8. Range(arrived) \subseteq Jobs
      BY <3>t DEF Range
    <3>9. \A i \in Range(arrived') : job'[i] = "queued"
      BY <3>1, <3>t, <3>5, <3>8, <1>0 DEF Roster
    <3>6. held_job # NoJob => job'[held_job] = "held"
      BY <3>1, <3>t, <1>0 DEF Roster, BatchTypes
    <3>7. \A i \in Jobs : job'[i] \in {"new", "queued", "held"} => ~done[i]
      BY <3>1, <3>t, <1>0 DEF Roster
    <3> QED
      BY <1>0, <1>a, <3>2, <3>3, <3>5, <3>6, <3>7, <3>9 DEF Roster
  <2> QED
    BY <2>1, <2>2 DEF Outside
<1>2. Seats'
  BY <1>0, <1>a DEF Seats, Admitting, InStretch
<1>3. RestFacts' /\ SettleFacts' /\ CommitFacts' /\ UnwindFacts'
  BY <1>0, <1>a DEF RestFacts, SettleFacts, CommitFacts, UnwindFacts, AtRest, Idle, Whole, Counted
<1>4. ParkedFacts'
  BY ZenonT(30), <1>0, <1>a DEF ParkedFacts, StepOf, Armed, Behind, NotRun, HasRun, Counted
<1>5. FlightFacts'
  BY ZenonT(30), <1>0, <1>a DEF FlightFacts, StepOf, Armed, Behind, NotRun, HasRun, Counted
<1> QED BY <1>1, <1>2, <1>3, <1>4, <1>5 DEF BInv
LEMMA ReceiveStep ==
    ASSUME BInv, Receive
    PROVE  BInv'
<1>0. /\ BatchTypes /\ Roster /\ Seats /\ RestFacts /\ SettleFacts /\ CommitFacts /\ ParkedFacts
      /\ FlightFacts /\ UnwindFacts
  BY DEF BInv
<1>a. at = "recv" /\ at' = "top"
      /\ UNCHANGED <<spacing, troubles, jobVars, held_job, rowVars, stateVarsB, loopVars, stepVars, gpuVarsB>>
  BY DEF Receive
<1> USE DEF jobVars, rowVars, stateVarsB, gpuVarsB, stepVars, loopVars
<1>1. Roster'
  BY <1>0, <1>a DEF Roster
<1>5. BatchTypes'
  BY <1>0, <1>a DEF BatchTypes
<1>2. Seats'
  BY <1>0, <1>a DEF Seats, Admitting, InStretch
<1>3. RestFacts' /\ SettleFacts' /\ CommitFacts' /\ UnwindFacts' /\ ParkedFacts' /\ FlightFacts'
  BY <1>0, <1>a DEF RestFacts, SettleFacts, CommitFacts, UnwindFacts, AtRest, Idle, Whole, Counted,
                    ParkedFacts, FlightFacts
<1> QED BY <1>1, <1>2, <1>3, <1>5 DEF BInv

LEMMA TakeJobStep ==
    ASSUME BInv, TakeJob, BatchAssumption
    PROVE  BInv'
<1>0. /\ BatchTypes /\ Roster /\ Seats /\ RestFacts /\ SettleFacts /\ CommitFacts /\ ParkedFacts
      /\ FlightFacts /\ UnwindFacts
  BY DEF BInv
<1> DEFINE k == Head(arrived)
<1>a. /\ at = "top" /\ arrived # <<>> /\ held_job = NoJob /\ arrived' = Tail(arrived)
      /\ UNCHANGED <<spacing, troubles, at, left, stopping, rowVars, stateVarsB, loopVars, stepVars, gpuVarsB>>
  BY DEF TakeJob
<1>t. /\ arrived \in Seq(Jobs)
      /\ job \in [Jobs -> {"new", "queued", "held", "row", "answered"}]
  BY <1>0 DEF BatchTypes
<1>b. /\ k \in Jobs /\ arrived' \in Seq(Jobs) /\ IsInjective(arrived')
      /\ Range(arrived') = Range(arrived) \ {k} /\ k \in Range(arrived) /\ job[k] = "queued"
  BY <1>0, <1>a, <1>t, TailDistinct DEF Roster
<1>c. \/ job' = [job EXCEPT ![k] = "answered"] /\ held_job' = NoJob
      \/ job' = [job EXCEPT ![k] = "held"] /\ held_job' = k
  BY <1>a, <1>b, <1>t DEF TakeJob, Answer
<1>d. /\ job' \in [Jobs -> {"new", "queued", "held", "row", "answered"}]
      /\ held_job' \in Jobs \cup {NoJob}
      /\ \A j \in Jobs : j # k => job'[j] = job[j]
      /\ job'[k] \in {"answered", "held"}
      /\ held_job' # NoJob => job'[held_job'] = "held"
  BY <1>b, <1>c, <1>t
<1> HIDE DEF k
<1> USE DEF rowVars, stateVarsB, gpuVarsB, stepVars, loopVars
<1>1. BatchTypes'
  BY <1>0, <1>a, <1>b, <1>d DEF BatchTypes
<1>2. Roster'
  <2>1. {j \in Jobs : job'[j] = "row"} = {j \in Jobs : job[j] = "row"}
    BY <1>b, <1>d
  <2>2. \A j \in Jobs : job'[j] \in {"new", "queued", "held"} => ~done[j]
    BY <1>b, <1>d, <1>0 DEF Roster
  <2>3. \A j \in Range(arrived') : job'[j] = "queued"
    <3>1. Range(arrived) \subseteq Jobs
      BY <1>t DEF Range
    <3> QED BY <1>b, <1>d, <1>0, <3>1 DEF Roster
  <2> QED
    BY SMTT(30), <1>0, <1>a, <1>b, <1>d, <2>1, <2>2, <2>3 DEF Roster
<1>3. Seats'
  BY <1>0, <1>a DEF Seats, Admitting, InStretch
<1>4. RestFacts' /\ SettleFacts' /\ CommitFacts' /\ UnwindFacts' /\ ParkedFacts' /\ FlightFacts'
  BY <1>0, <1>a DEF RestFacts, SettleFacts, CommitFacts, UnwindFacts, AtRest, Idle, Whole, Counted,
                    ParkedFacts, FlightFacts
<1> QED BY <1>1, <1>2, <1>3, <1>4 DEF BInv

(* The held job's answer leaves the rows as they are.                      *)
LEMMA HeldAnswered ==
    ASSUME BatchTypes, Roster, held_job \in Jobs, held_job # NoJob, Answer({held_job}), held_job' = NoJob,
           UNCHANGED <<arrived, rows, slot, free, done, inserted>>
    PROVE  Roster' /\ job' \in [Jobs -> {"new", "queued", "held", "row", "answered"}]
<1>t. /\ arrived \in Seq(Jobs)
      /\ job \in [Jobs -> {"new", "queued", "held", "row", "answered"}]
  BY DEF BatchTypes
<1>0. job[held_job] = "held"
  BY DEF Roster
<1>1. \A j \in Jobs : job'[j] = IF j = held_job THEN "answered" ELSE job[j]
  BY DEF Answer
<1>2. job' \in [Jobs -> {"new", "queued", "held", "row", "answered"}]
  BY <1>t DEF Answer
<1>3. {j \in Jobs : job'[j] = "row"} = {j \in Jobs : job[j] = "row"}
  BY <1>1, <1>0
<1>4. \A j \in Jobs : job'[j] \in {"new", "queued", "held"} => ~done[j]
  BY <1>1 DEF Roster
<1>5. \A j \in Range(arrived) : job'[j] = "queued"
  <2>1. Range(arrived) \subseteq Jobs
    BY <1>t DEF Range
  <2> QED BY <1>1, <1>0, <2>1 DEF Roster
<1> QED
  BY <1>2, <1>3, <1>4, <1>5 DEF Roster

LEMMA AdmitStep ==
    ASSUME BInv, Admit, BatchAssumption
    PROVE  BInv'
<1>0. /\ BatchTypes /\ Roster /\ Seats /\ RestFacts /\ SettleFacts /\ CommitFacts /\ ParkedFacts
      /\ FlightFacts /\ UnwindFacts
  BY DEF BInv
<1>a. /\ at = "top" /\ held_job # NoJob
      /\ UNCHANGED <<spacing, troubles, arrived, left, stopping, rowVars, stateVarsB, steps, budget, may,
                     stepVars, gpuVarsB>>
      /\ \/ Answer({held_job}) /\ held_job' = NoJob /\ at' = at
         \/ at' = "prefill" /\ UNCHANGED <<job, held_job>>
  BY DEF Admit
<1>b. held_job \in Jobs
  BY <1>0, <1>a DEF BatchTypes
<1>c. Len(rows) < Rows
  BY <1>0 DEF Admit, Admits, BatchAssumption
<1> USE DEF rowVars, stateVarsB, gpuVarsB, stepVars
<1>1. BatchTypes'
  BY <1>0, <1>a, <1>b, HeldAnswered DEF BatchTypes
<1>2. Roster'
  <2>1. CASE UNCHANGED <<job, held_job>>
    BY <2>1, <1>0, <1>a DEF Roster
  <2> QED BY <2>1, <1>0, <1>a, <1>b, HeldAnswered
<1>3. Seats'
  BY <1>0, <1>a, <1>c DEF Seats, Admitting, InStretch
<1>4. RestFacts' /\ SettleFacts' /\ CommitFacts' /\ UnwindFacts' /\ ParkedFacts' /\ FlightFacts'
  BY <1>0, <1>a DEF RestFacts, SettleFacts, CommitFacts, UnwindFacts, AtRest, Idle, Whole, Counted,
                    ParkedFacts, FlightFacts
<1> QED BY <1>1, <1>2, <1>3, <1>4 DEF BInv

(* All rows answered at once, with the held job (others) or without.       *)
LEMMA RowsAnswered ==
    ASSUME BatchTypes, Roster, NEW others, others \subseteq {held_job}, held_job' \in {held_job, NoJob},
           others = {held_job} => held_job' = NoJob,
           Answer(Range(rows) \cup others), rows' = <<>>, inserted' = {},
           free' = free \cup {slot[j] : j \in Range(rows)},
           UNCHANGED <<arrived, slot, done>>
    PROVE  /\ Roster' /\ free' = 1..Rows
           /\ job' \in [Jobs -> {"new", "queued", "held", "row", "answered"}]
<1>t. /\ arrived \in Seq(Jobs) /\ rows \in Seq(Jobs)
      /\ job \in [Jobs -> {"new", "queued", "held", "row", "answered"}]
  BY DEF BatchTypes
<1>1. \A j \in Jobs : job'[j] = IF j \in Range(rows) \cup others THEN "answered" ELSE job[j]
  BY DEF Answer
<1>2. job' \in [Jobs -> {"new", "queued", "held", "row", "answered"}]
  BY <1>t DEF Answer
<1>3. Range(rows') = {} /\ IsInjective(rows')
  BY DEF Range, IsInjective
<1>4. {j \in Jobs : job'[j] = "row"} = {}
  BY <1>1 DEF Roster
<1>5. \A j \in Jobs : job'[j] \in {"new", "queued", "held"} => ~done[j]
  BY <1>1 DEF Roster
<1>6. \A j \in Range(arrived) : job'[j] = "queued"
  <2>1. Range(arrived) \subseteq Jobs
    BY <1>t DEF Range
  <2>2. ASSUME NEW j \in Range(arrived) PROVE job'[j] = "queued"
    <3>1. j \in Jobs /\ job[j] = "queued"
      BY <2>1 DEF Roster
    <3>2. j \notin Range(rows)
      BY <3>1 DEF Roster
    <3>3. j \in others => j = held_job /\ j # NoJob
      BY <3>1, BatchAssumption DEF BatchAssumption, NoJob
    <3>4. j \notin others
      BY <3>1, <3>3 DEF Roster
    <3> QED BY <1>1, <3>1, <3>2, <3>4
  <2> QED BY <2>2
<1>7. free' = 1..Rows
  BY DEF Roster
<1>8. held_job' # NoJob => job'[held_job'] = "held"
  <2> SUFFICES ASSUME held_job' # NoJob PROVE job'[held_job'] = "held"
    OBVIOUS
  <2>1. held_job' = held_job /\ job[held_job] = "held" /\ held_job \in Jobs /\ others = {}
    BY DEF Roster, BatchTypes
  <2>2. held_job \notin Range(rows)
    BY <2>1 DEF Roster
  <2> QED BY <1>1, <2>1, <2>2
<1>9. IsInjective(arrived')
  BY DEF Roster
<1>10. free' = (1..Rows) \ {slot'[j] : j \in Range(rows')}
  BY <1>3, <1>7
<1> QED
  BY <1>2, <1>3, <1>4, <1>5, <1>6, <1>7, <1>8, <1>9, <1>10 DEF Roster

LEMMA FailAllStep ==
    ASSUME BInv, FailAll, BatchAssumption
    PROVE  BInv'
<1>0. /\ BatchTypes /\ Roster /\ Seats /\ RestFacts /\ SettleFacts /\ CommitFacts /\ ParkedFacts
      /\ FlightFacts /\ UnwindFacts
  BY DEF BInv
<1>a. /\ at = "top" /\ at' = "faulted" /\ rows' = <<>> /\ held_job' = NoJob
      /\ Answer(Range(rows) \cup ({held_job} \ {NoJob}))
      /\ free' = free \cup {slot[j] : j \in Range(rows)}
      /\ UNCHANGED <<spacing, troubles, arrived, left, stopping, slot, gen, drawn, done, inserted, inserts,
                     stateVarsB, loopVars, stepVars, gpuVarsB>>
  BY DEF FailAll
<1>b. Idle /\ inserted = {}
  BY <1>0, <1>a DEF RestFacts, AtRest
<1> USE DEF stateVarsB, gpuVarsB, stepVars, loopVars
<1>1. /\ Roster' /\ free' = 1..Rows
      /\ job' \in [Jobs -> {"new", "queued", "held", "row", "answered"}]
  BY <1>0, <1>a, <1>b, RowsAnswered
<1>2. BatchTypes'
  <2>1. rows' \in Seq(Jobs)
    BY <1>a
  <2> QED BY <1>0, <1>a, <1>1, <2>1 DEF BatchTypes
<1>3. Range(rows') = {} /\ Len(rows') = 0
  BY <1>a DEF Range
<1>4. Seats'
  BY <1>a, <1>3, BatchAssumption DEF Seats, Admitting, InStretch, BatchAssumption
<1>5. RestFacts' /\ SettleFacts' /\ CommitFacts' /\ UnwindFacts' /\ ParkedFacts' /\ FlightFacts'
  BY <1>a, <1>b, <1>3 DEF RestFacts, SettleFacts, CommitFacts, UnwindFacts, AtRest, Idle, ParkedFacts, FlightFacts
<1> QED BY <1>1, <1>2, <1>4, <1>5 DEF BInv

LEMMA NextActionStep ==
    ASSUME BInv, NextAction, BatchAssumption
    PROVE  BInv'
<1>0. /\ BatchTypes /\ Roster /\ Seats /\ RestFacts /\ SettleFacts /\ CommitFacts /\ ParkedFacts
      /\ FlightFacts /\ UnwindFacts
  BY DEF BInv
<1>t. rows \in Seq(Jobs) /\ Len(rows) \in Nat /\ DOMAIN rows = 1..Len(rows)
  BY <1>0 DEF BatchTypes
<1>a. /\ at = "top" /\ at' = CASE Len(rows) = 0 -> "recv" [] Len(rows) = 1 -> "solo" [] OTHER -> "commit"
      /\ counts' = IF Len(rows) = 1 THEN [counts EXCEPT ![0] = counts[slot[rows[1]]]] ELSE counts
      /\ steps' = 0 /\ budget' = 0
      /\ UNCHANGED <<spacing, troubles, jobVars, held_job, rowVars, stateVarsB, chunk, may, stepVars, passes,
                     fault, ids, stage, draws, rec>>
  BY DEF NextAction
<1>b. /\ at' \in {"recv", "solo", "commit"} /\ at' = "recv" => rows = <<>>
      /\ at' = "solo" => Len(rows) = 1
  BY <1>a, <1>t
<1>c. rows = <<>> => held_job = NoJob
  BY DEF NextAction, Admits
<1>d. Idle /\ inserted = {} /\ \A j \in Range(rows) : ~done[j]
  BY <1>0, <1>a DEF RestFacts, Seats, AtRest
<1>e. \A j \in Range(rows) : Whole(j) /\ fed[j] = gen[j] - 1 /\ counts[slot[j]] = <<j, drawn[j]>>
  BY <1>0, <1>a, <1>d DEF RestFacts, AtRest, Counted
<1> USE DEF jobVars, rowVars, stateVarsB, stepVars
<1>1. Roster'
  BY <1>0, <1>a DEF Roster
<1>f. counts' \in [0..Rows -> (Jobs \cup {NoJob}) \X Nat]
  <2>1. CASE Len(rows) = 1
    <3>0. \A r \in 1..Len(rows) : rows[r] \in Jobs
      BY <1>t
    <3>1. rows[1] \in Jobs
      BY ONLY <2>1, <3>0
    <3>2. counts[slot[rows[1]]] \in (Jobs \cup {NoJob}) \X Nat
      BY <3>1, <1>0 DEF BatchTypes
    <3> QED BY <2>1, <3>2, <1>a, <1>0 DEF BatchTypes
  <2> QED BY <2>1, <1>a, <1>0 DEF BatchTypes
<1>2. BatchTypes'
  <2>1. at' \in {"recv", "solo", "commit"} /\ steps' \in Nat /\ budget' \in Nat
    BY <1>a, <1>b
  <2>2. UNCHANGED <<spacing, troubles, jobVars, held_job, rowVars, stateVarsB, chunk, may, stepVars, passes,
                     fault, ids, stage, draws, rec>>
    BY <1>a
  <2> QED BY <1>0, <1>f, <2>1, <2>2 DEF BatchTypes
<1>3. Seats'
  BY <1>0, <1>a, <1>b, <1>c, <1>d DEF Seats, Admitting, InStretch
<1>g. \A j \in Range(rows) : Whole(j)' /\ counts'[IF at' = "solo" THEN 0 ELSE slot[j]] = <<j, drawn[j]>>
  <2>1. CASE Len(rows) = 1
    <3>1. at' = "solo" /\ rows[1] \in Range(rows) /\ \A j \in Range(rows) : j = rows[1]
      BY <2>1, <1>a, <1>t DEF Range
    <3>2. counts'[0] = counts[slot[rows[1]]]
      BY <2>1, <1>a, <1>0, BatchAssumption DEF BatchTypes, BatchAssumption
    <3> QED BY <1>a, <1>e, <3>1, <3>2 DEF Whole
  <2>2. CASE Len(rows) # 1
    <3>1. at' # "solo" /\ counts' = counts
      BY <2>2, <1>a, <1>b
    <3> QED BY <1>a, <1>e, <3>1 DEF Whole
  <2> QED BY <2>1, <2>2
<1>4. RestFacts' /\ CommitFacts'
  <2>1. Idle' /\ inserted' = {}
    BY <1>a, <1>d DEF Idle
  <2>2. \A j \in Range(rows') : Whole(j)' /\ fed'[j] = gen'[j] - 1 /\ Counted(j)'
    BY <1>a, <1>g, <1>e DEF Counted
  <2> QED
    BY <2>1, <2>2 DEF RestFacts, CommitFacts
<1>5. SettleFacts' /\ UnwindFacts' /\ ParkedFacts' /\ FlightFacts'
  BY <1>a, <1>b, <1>d DEF SettleFacts, UnwindFacts, Idle, ParkedFacts, FlightFacts
<1> QED BY <1>1, <1>2, <1>3, <1>4, <1>5 DEF BInv

LEMMA PrefillStep ==
    ASSUME BInv, Prefill, BatchAssumption
    PROVE  BInv'
<1>0. /\ BatchTypes /\ Roster /\ Seats /\ RestFacts /\ SettleFacts /\ CommitFacts /\ ParkedFacts
      /\ FlightFacts /\ UnwindFacts
  BY DEF BInv
<1>a. /\ at = "prefill"
      /\ UNCHANGED <<spacing, troubles, arrived, left, stopping, rowVars, stateVarsB, may, stepVars, gpuVarsB>>
  BY DEF Prefill
<1>h. held_job # NoJob /\ held_job \in Jobs /\ Len(rows) < Rows
  BY <1>0, <1>a DEF Seats, Admitting, BatchTypes
<1>d. Idle /\ inserted = {} /\ \A j \in Range(rows) : ~done[j]
  BY <1>0, <1>a DEF RestFacts, Seats, AtRest
<1>e. \A j \in Range(rows) : Whole(j) /\ fed[j] = gen[j] - 1 /\ counts[slot[j]] = <<j, drawn[j]>>
  BY <1>0, <1>a, <1>d DEF RestFacts, AtRest, Counted
<1>b. \/ Answer({held_job}) /\ held_job' = NoJob /\ at' = "top" /\ UNCHANGED <<steps, budget>>
      \/ at' = "begin" /\ UNCHANGED <<job, held_job, steps, budget>>
      \/ at' \in {"commit", "prefill"} /\ steps' = 0 /\ budget' = Between /\ UNCHANGED <<job, held_job>>
  BY DEF Prefill, EndAdmission
<1> USE DEF rowVars, stateVarsB, gpuVarsB, stepVars
<1>1. Roster' /\ job' \in [Jobs -> {"new", "queued", "held", "row", "answered"}]
  <2>1. CASE UNCHANGED <<job, held_job>>
    <3>1. Roster'
      BY <2>1, <1>0, <1>a DEF Roster
    <3> QED BY <2>1, <1>0, <3>1 DEF BatchTypes
  <2> QED BY <2>1, <1>0, <1>a, <1>b, <1>h, HeldAnswered
<1>2. BatchTypes'
  <2>0. Between \in Nat /\ steps \in Nat /\ budget \in Nat
    BY <1>0 DEF BatchTypes, BatchAssumption
  <2>1. held_job' \in Jobs \cup {NoJob} /\ steps' \in Nat /\ budget' \in Nat
        /\ at' \in {"top", "begin", "commit", "prefill"}
    BY <1>b, <1>h, <2>0
  <2> QED BY <1>0, <1>a, <1>1, <2>1 DEF BatchTypes
<1>3. Seats'
  <2>1. at' \in {"top", "begin", "commit", "prefill"} /\ (Admitting' => held_job' = held_job)
    BY <1>b DEF Admitting, InStretch
  <2> QED BY <1>0, <1>a, <1>h, <1>d, <2>1 DEF Seats
<1>4. RestFacts' /\ CommitFacts'
  <2>1. Idle' /\ inserted' = {} /\ at' # "solo"
    BY <1>a, <1>b, <1>d DEF Idle
  <2>2. \A j \in Range(rows') : Whole(j)' /\ fed'[j] = gen'[j] - 1 /\ Counted(j)'
    BY <1>a, <1>e, <2>1 DEF Counted, Whole
  <2> QED
    BY <2>1, <2>2 DEF RestFacts, CommitFacts
<1>5. SettleFacts' /\ UnwindFacts' /\ ParkedFacts' /\ FlightFacts'
  BY <1>a, <1>b, <1>d DEF SettleFacts, UnwindFacts, Idle, ParkedFacts, FlightFacts
<1> QED BY <1>1, <1>2, <1>3, <1>4, <1>5 DEF BInv

LEMMA UpTo ==
    ASSUME NEW n \in Nat
    PROVE  IsFiniteSet(1..n) /\ Cardinality(1..n) = n
  BY FS_Interval

LEMMA FreeSlot ==
    ASSUME BatchTypes, Roster, Len(rows) < Rows, BatchAssumption
    PROVE  LowestFree \in free
<1>t. rows \in Seq(Jobs) /\ Len(rows) \in Nat /\ DOMAIN rows = 1..Len(rows) /\ Rows \in Nat
  BY DEF BatchTypes, BatchAssumption
<1>1. free # {}
  <2> SUFFICES ASSUME free = {} PROVE FALSE
    OBVIOUS
  <2> DEFINE f == [r \in 1..Len(rows) |-> slot[rows[r]]]
  <2>1. \A s \in 1..Rows : \E r \in 1..Len(rows) : f[r] = s
    <3>1. 1..Rows \subseteq {slot[j] : j \in Range(rows)}
      BY DEF Roster
    <3>2. ASSUME NEW k \in 1..Rows PROVE \E r \in 1..Len(rows) : f[r] = k
      <4>1. PICK j \in Range(rows) : slot[j] = k
        BY <3>1
      <4>2. PICK r \in 1..Len(rows) : rows[r] = j
        BY <1>t DEF Range
      <4> QED BY <4>1, <4>2
    <3> QED BY <3>2
  <2>2. f \in Surjection(1..Len(rows), {slot[j] : j \in Range(rows)})
    BY <1>t DEF Surjection, Range
  <2>3. IsFiniteSet(1..Len(rows)) /\ Cardinality(1..Len(rows)) = Len(rows)
    BY <1>t, UpTo
  <2>4. IsFiniteSet(1..Rows) /\ Cardinality(1..Rows) = Rows
    BY <1>t, UpTo
  <2>5. {slot[j] : j \in Range(rows)} = 1..Rows
    BY DEF Roster
  <2>6. Cardinality(1..Rows) =< Cardinality(1..Len(rows))
    <3> HIDE DEF f
    <3> QED BY <2>2, <2>3, <2>5, FS_Surjection
  <2> QED BY <2>3, <2>4, <2>6, <1>t
<1>2. free \subseteq Nat
  BY DEF BatchTypes
<1> QED BY <1>1, <1>2, Least DEF LowestFree

LEMMA MinOfTwo ==
    ASSUME NEW a \in Int, NEW b \in Int
    PROVE  /\ Min({a, b}) \in {a, b} /\ Min({a, b}) =< a /\ Min({a, b}) =< b
<1>1. CASE a =< b
  <2>1. a \in {a, b} /\ \A y \in {a, b} : a =< y
    BY <1>1
  <2> QED BY <2>1 DEF Min
<1>2. CASE b =< a
  <2>1. b \in {a, b} /\ \A y \in {a, b} : b =< y
    BY <1>2
  <2> QED BY <2>1 DEF Min
<1> QED BY <1>1, <1>2

LEMMA MaxOfTwo ==
    ASSUME NEW a \in Int, NEW b \in Int
    PROVE  /\ Max({a, b}) \in {a, b} /\ Max({a, b}) >= a /\ Max({a, b}) >= b
<1>1. CASE a >= b
  <2>1. a \in {a, b} /\ \A y \in {a, b} : a >= y
    BY <1>1
  <2> QED BY <2>1 DEF Max
<1>2. CASE b >= a
  <2>1. b \in {a, b} /\ \A y \in {a, b} : b >= y
    BY <1>2
  <2> QED BY <2>1 DEF Max
<1> QED BY <1>1, <1>2

LEMMA BeginStep ==
    ASSUME BInv, Begin, BatchAssumption
    PROVE  BInv'
<1>0. /\ BatchTypes /\ Roster /\ Seats /\ RestFacts /\ SettleFacts /\ CommitFacts /\ ParkedFacts
      /\ FlightFacts /\ UnwindFacts
  BY DEF BInv
<1>j. PICK j : j = held_job
  OBVIOUS
<1>k. PICK s : s = LowestFree
  OBVIOUS
<1>a. /\ at = "begin" /\ at' = "top" /\ held_job' = NoJob
      /\ UNCHANGED <<spacing, troubles, arrived, left, stopping, done, inserted, last, chunk, steps, budget,
                     stepVars, passes, fault, ids, stage, draws>>
  BY DEF Begin
<1>h. j # NoJob /\ j \in Jobs /\ Len(rows) < Rows /\ job[j] = "held" /\ ~done[j]
  BY <1>0, <1>a, <1>j DEF Seats, Admitting, BatchTypes, Roster
<1>d. Idle /\ inserted = {} /\ \A i \in Range(rows) : ~done[i]
  BY <1>0, <1>a DEF RestFacts, Seats, AtRest
<1>e. \A i \in Range(rows) : Whole(i) /\ fed[i] = gen[i] - 1 /\ counts[slot[i]] = <<i, drawn[i]>>
  BY <1>0, <1>a, <1>d DEF RestFacts, AtRest, Counted
<1>s. s \in free /\ s \in 1..Rows /\ \A i \in Range(rows) : slot[i] # s
  <2>1. s \in free
    BY <1>0, <1>h, <1>k, FreeSlot
  <2> QED BY <2>1, <1>0 DEF Roster
<1>r. rows \in Seq(Jobs) /\ j \notin Range(rows) /\ IsInjective(rows) /\ Range(rows) \subseteq Jobs
  BY <1>0, <1>h DEF BatchTypes, Roster
<1>p. /\ IsInjective(Append(rows, j)) /\ Range(Append(rows, j)) = Range(rows) \cup {j}
      /\ Append(rows, j) \in Seq(Jobs) /\ Len(Append(rows, j)) = Len(rows) + 1
  BY <1>h, <1>r, AppendDistinct
<1>b. PICK ends \in SUBSET {j}, acts \in SUBSET {j} :
            /\ inserts' = inserts - Cardinality(acts) /\ Cardinality(acts) <= inserts
            /\ gen' = [gen EXCEPT ![j] = IF acts = {} THEN 1 ELSE Min({2, Places})]
            /\ drawn' = [drawn EXCEPT ![j] = 1]
            /\ fed' = [fed EXCEPT ![j] = gen'[j] - 1] /\ hist' = [hist EXCEPT ![j] = gen'[j] - 1]
            /\ rec' = [rec EXCEPT ![j] = gen'[j] - 1]
            /\ cap' = [cap EXCEPT ![j] = Grown(j, gen'[j] - 1)]
            /\ IF ends = {j} \/ Cancelled(j) \/ gen'[j] >= Places
               THEN /\ Answer({j}) /\ UNCHANGED <<rows, slot, free>>
                    /\ counts' = [counts EXCEPT ![0] = <<j, 1>>]
               ELSE /\ job' = [job EXCEPT ![j] = "row"] /\ rows' = Append(rows, j)
                    /\ slot' = [slot EXCEPT ![j] = s] /\ free' = free \ {s}
                    /\ counts' = [counts EXCEPT ![0] = <<j, 1>>, ![s] = <<j, 1>>]
  BY <1>j, <1>k DEF Begin
<1> DEFINE g == IF acts = {} THEN 1 ELSE Min({2, Places})
<1>g. g \in Nat /\ g >= 1
  <2>1. Places \in Nat /\ Places >= 1
    BY DEF BatchAssumption
  <2>2. 2 \in Int /\ Places \in Int
    BY <2>1
  <2>3. Min({2, Places}) \in {2, Places}
    BY ONLY <2>2, MinOfTwo
  <2> QED BY <2>1, <2>3
<1>i. inserts' \in Nat
  <2>1. IsFiniteSet({j}) /\ IsFiniteSet(acts)
    BY FS_Singleton, FS_Subset
  <2>2. Cardinality(acts) \in Nat /\ inserts \in Nat
    BY <2>1, <1>0, FS_CardinalityType DEF BatchTypes
  <2> QED BY <2>2, <1>b
<1> HIDE DEF g
<1>t. /\ gen \in [Jobs -> Nat] /\ drawn \in [Jobs -> Nat] /\ fed \in [Jobs -> Int] /\ hist \in [Jobs -> Int]
      /\ DOMAIN rec = Jobs /\ cap \in [Jobs -> Nat] /\ slot \in [Jobs -> 0..Rows]
      /\ job \in [Jobs -> {"new", "queued", "held", "row", "answered"}]
      /\ counts \in [0..Rows -> (Jobs \cup {NoJob}) \X Nat]
  BY <1>0 DEF BatchTypes
<1>1. /\ gen' = [gen EXCEPT ![j] = g] /\ gen'[j] = g
      /\ fed' = [fed EXCEPT ![j] = g - 1] /\ hist' = [hist EXCEPT ![j] = g - 1]
      /\ rec' = [rec EXCEPT ![j] = g - 1]
  BY <1>b, <1>t, <1>h DEF g
<1>2. /\ gen' \in [Jobs -> Nat] /\ drawn' \in [Jobs -> Nat] /\ fed' \in [Jobs -> Int]
      /\ hist' \in [Jobs -> Int] /\ DOMAIN rec' = Jobs
  <2>1. g \in Nat /\ g - 1 \in Int /\ 1 \in Nat
    BY <1>g
  <2>2. drawn' = [drawn EXCEPT ![j] = 1]
    BY <1>b
  <2> QED BY ONLY <2>1, <2>2, <1>1, <1>t
<1>3. cap' \in [Jobs -> Nat]
  <2>0. g - 1 \in Int
    BY <1>g
  <2>2. Grown(j, g - 1) \in Nat
    BY <2>0, <1>h, <1>t, GrownCovers
  <2>1. Grown(j, gen'[j] - 1) \in Nat
    BY <2>2, <1>1
  <2> QED BY <1>b, <1>t, <2>1
<1>4. \A i \in Jobs : i # j => /\ gen'[i] = gen[i] /\ drawn'[i] = drawn[i] /\ fed'[i] = fed[i]
                              /\ hist'[i] = hist[i] /\ rec'[i] = rec[i]
  BY <1>b, <1>1, <1>t
<1>q. /\ arrived \in Seq(Jobs) /\ j \notin Range(arrived) /\ IsInjective(arrived)
      /\ \A i \in Range(arrived) : i \in Jobs /\ job[i] = "queued"
  <2>1. arrived \in Seq(Jobs) /\ IsInjective(arrived) /\ \A i \in Range(arrived) : job[i] = "queued"
    BY <1>0 DEF BatchTypes, Roster
  <2>2. Range(arrived) \subseteq Jobs
    BY <2>1 DEF Range
  <2> QED BY <1>h, <2>1, <2>2
<1>A. CASE ends = {j} \/ Cancelled(j) \/ g >= Places
  <2>1. Answer({j}) /\ UNCHANGED <<rows, slot, free>> /\ counts' = [counts EXCEPT ![0] = <<j, 1>>]
    BY <1>A, <1>b, <1>1
  <2>2. Roster' /\ job' \in [Jobs -> {"new", "queued", "held", "row", "answered"}]
    BY <2>1, <1>0, <1>a, <1>h, <1>j, HeldAnswered
  <2>3. counts' \in [0..Rows -> (Jobs \cup {NoJob}) \X Nat]
    BY <2>1, <1>t, <1>h
  <2>4. BatchTypes'
    BY <1>0, <1>a, <1>2, <1>3, <1>i, <2>1, <2>2, <2>3 DEF BatchTypes, stepVars
  <2>5. \A i \in Range(rows') : i \in Range(rows) /\ i \in Jobs /\ i # j
    BY <2>1, <1>r
  <2>6. Seats'
    BY <1>0, <1>a, <1>d, <1>4, <2>1, <2>5 DEF Seats, Admitting, InStretch
  <2>7. \A i \in Range(rows') : Whole(i)' /\ fed'[i] = gen'[i] - 1 /\ Counted(i)'
    <3> SUFFICES ASSUME NEW i \in Range(rows') PROVE Whole(i)' /\ fed'[i] = gen'[i] - 1 /\ Counted(i)'
      OBVIOUS
    <3>1. slot[i] # 0 /\ slot[i] \in 0..Rows
      BY <2>5, <1>0, <1>t, BatchAssumption DEF Roster, BatchAssumption
    <3>2. counts'[slot[i]] = counts[slot[i]]
      BY <3>1, <2>1, <1>t
    <3> QED BY <1>a, <1>4, <1>e, <2>1, <2>5, <3>2 DEF Whole, Counted
  <2>8. RestFacts'
    BY <1>a, <1>d, <2>7 DEF RestFacts, Idle, stepVars
  <2>9. SettleFacts' /\ CommitFacts' /\ UnwindFacts' /\ ParkedFacts' /\ FlightFacts'
    BY <1>a DEF SettleFacts, UnwindFacts, CommitFacts, ParkedFacts, FlightFacts
  <2> QED BY <2>2, <2>4, <2>6, <2>8, <2>9 DEF BInv
<1>B. CASE ~(ends = {j} \/ Cancelled(j) \/ g >= Places)
  <2>1. /\ job' = [job EXCEPT ![j] = "row"] /\ rows' = Append(rows, j)
        /\ slot' = [slot EXCEPT ![j] = s] /\ free' = free \ {s}
        /\ counts' = [counts EXCEPT ![0] = <<j, 1>>, ![s] = <<j, 1>>]
        /\ ~(g >= Places)
    BY <1>B, <1>b, <1>1
  <2>2. /\ \A i \in Jobs : job'[i] = IF i = j THEN "row" ELSE job[i]
        /\ \A i \in Jobs : slot'[i] = IF i = j THEN s ELSE slot[i]
        /\ slot' \in [Jobs -> 0..Rows]
        /\ job' \in [Jobs -> {"new", "queued", "held", "row", "answered"}]
        /\ rows' \in Seq(Jobs) /\ Range(rows') = Range(rows) \cup {j} /\ IsInjective(rows')
        /\ Len(rows') <= Rows
    <3>1. 1..Rows \subseteq 0..Rows
      OBVIOUS
    <3>2. Len(rows) \in Nat /\ Rows \in Nat
      BY <1>r, BatchAssumption DEF BatchAssumption
    <3>3. slot' \in [Jobs -> 0..Rows] /\ \A i \in Jobs : slot'[i] = IF i = j THEN s ELSE slot[i]
      BY <2>1, <1>t, <1>s, <3>1
    <3>4. /\ job' \in [Jobs -> {"new", "queued", "held", "row", "answered"}]
          /\ \A i \in Jobs : job'[i] = IF i = j THEN "row" ELSE job[i]
      BY <2>1, <1>t
    <3>5. Len(rows') <= Rows
      BY <2>1, <1>p, <1>h, <3>2
    <3> QED BY <2>1, <1>p, <3>3, <3>4, <3>5
  <2>3. Roster'
    <3>1. Range(rows') = {i \in Jobs : job'[i] = "row"}
      BY <2>2, <1>0, <1>h DEF Roster
    <3>2. \A i \in Range(arrived') : job'[i] = "queued"
      BY <1>a, <1>q, <2>2
    <3>3. \A i \in Jobs : job'[i] \in {"new", "queued", "held"} => ~done'[i]
      BY <1>a, <2>2, <1>0 DEF Roster
    <3>4. \A i, k \in Range(rows') : slot'[i] = slot'[k] => i = k
      <4>1. \A i, k \in Range(rows) : slot[i] = slot[k] => i = k
        BY <1>0 DEF Roster
      <4> QED BY ONLY <4>1, <2>2, <1>r, <1>s, <1>h
    <3>5. \A i \in Range(rows') : slot'[i] \in 1..Rows
      <4>1. \A i \in Range(rows) : slot[i] \in 1..Rows
        BY <1>0 DEF Roster
      <4> QED BY ONLY <4>1, <2>2, <1>r, <1>s, <1>h
    <3>6. free' = (1..Rows) \ {slot'[i] : i \in Range(rows')}
      <4>1. {slot'[i] : i \in Range(rows')} = {slot[i] : i \in Range(rows)} \cup {s}
        <5>1. \A i \in Range(rows) : slot'[i] = slot[i]
          BY <2>2, <1>r
        <5>2. slot'[j] = s
          BY <2>2, <1>h
        <5>3. Range(rows') = Range(rows) \cup {j}
          BY <2>2
        <5> QED BY ONLY <5>1, <5>2, <5>3
      <4> QED BY <4>1, <2>1, <1>0 DEF Roster
    <3>7. held_job' = NoJob /\ inserted' = {} /\ IsInjective(arrived')
      BY <1>a, <1>d, <1>q
    <3> QED BY <2>2, <3>1, <3>2, <3>3, <3>4, <3>5, <3>6, <3>7 DEF Roster
  <2>4. counts' \in [0..Rows -> (Jobs \cup {NoJob}) \X Nat] /\ counts'[s] = <<j, 1>>
        /\ \A k \in 1..Rows : k # s => counts'[k] = counts[k]
    <3>1. s \in 0..Rows /\ <<j, 1>> \in (Jobs \cup {NoJob}) \X Nat /\ 1..Rows \subseteq 0..Rows /\ ~(0 \in 1..Rows)
      BY <1>s, <1>h
    <3> QED BY <2>1, <1>t, <3>1
  <2>5. BatchTypes'
    <3>1. free' \subseteq 1..Rows
      BY <2>1, <1>0 DEF BatchTypes
    <3> QED BY <1>0, <1>a, <1>2, <1>3, <1>i, <2>2, <2>4, <3>1 DEF BatchTypes, stepVars
  <2>6. Seats'
    <3>1. rows' # <<>>
      BY <2>1, <1>p, <1>r
    <3>2. \A i \in Range(rows') : gen'[i] >= 1 /\ gen'[i] < Places /\ ~done'[i]
      <4>1. Places \in Nat
        BY DEF BatchAssumption
      <4> QED BY <2>1, <2>2, <1>0, <1>a, <1>d, <1>1, <1>4, <1>g, <1>h, <1>r, <4>1 DEF Seats
    <3> QED
      BY <1>a, <2>2, <3>1, <3>2 DEF Seats, Admitting, InStretch
  <2>7. \A i \in Range(rows') : Whole(i)' /\ fed'[i] = gen'[i] - 1 /\ Counted(i)'
    <3>1. Whole(j)' /\ fed'[j] = gen'[j] - 1 /\ Counted(j)'
      <4>1. fed'[j] = g - 1 /\ hist'[j] = g - 1 /\ rec'[j] = g - 1 /\ drawn'[j] = 1 /\ gen'[j] = g
        BY <1>1, <1>b, <1>t, <1>h
      <4> QED BY <4>1, <1>a, <1>h, <2>2, <2>4 DEF Whole, Counted
    <3>2. ASSUME NEW i \in Range(rows) PROVE Whole(i)' /\ fed'[i] = gen'[i] - 1 /\ Counted(i)'
      <4>1. i \in Jobs /\ i # j /\ slot[i] \in 1..Rows /\ slot[i] # s
        BY <1>r, <1>s, <1>0 DEF Roster
      <4>2. slot'[i] = slot[i] /\ counts'[slot[i]] = counts[slot[i]]
        BY <4>1, <2>2, <2>4
      <4> QED BY <1>a, <1>4, <1>e, <4>1, <4>2 DEF Whole, Counted
    <3> QED BY <2>2, <3>1, <3>2
  <2>8. RestFacts'
    BY <1>a, <1>d, <2>7 DEF RestFacts, Idle, stepVars
  <2>9. SettleFacts' /\ CommitFacts' /\ UnwindFacts' /\ ParkedFacts' /\ FlightFacts'
    BY <1>a DEF SettleFacts, UnwindFacts, CommitFacts, ParkedFacts, FlightFacts
  <2> QED BY <2>3, <2>5, <2>6, <2>8, <2>9 DEF BInv
<1> QED BY <1>A, <1>B

(* The roster, under actions that move nobody.                             *)
LEMMA RosterKept ==
    ASSUME Roster, UNCHANGED <<rows, job, arrived, held_job, slot, free>>,
           \A j \in Jobs : done'[j] => done[j] \/ j \in Range(rows),
           inserted' \subseteq Range(rows)
    PROVE  Roster'
<1>1. \A j \in Jobs : job'[j] \in {"new", "queued", "held"} => ~done'[j]
  <2> SUFFICES ASSUME NEW j \in Jobs, job[j] \in {"new", "queued", "held"}, done'[j] PROVE FALSE
    OBVIOUS
  <2>1. done[j] \/ j \in Range(rows)
    OBVIOUS
  <2> QED BY <2>1 DEF Roster
<1> QED BY <1>1 DEF Roster

LEMMA SoloStep ==
    ASSUME BInv, Solo, BatchAssumption
    PROVE  BInv'
<1>0. /\ BatchTypes /\ Roster /\ Seats /\ RestFacts /\ SettleFacts /\ CommitFacts /\ ParkedFacts
      /\ FlightFacts /\ UnwindFacts
  BY DEF BInv
<1>j. PICK j : j = rows[1]
  OBVIOUS
<1>a. /\ at = "solo"
      /\ UNCHANGED <<spacing, troubles, jobVars, held_job, rows, slot, free, inserted, inserts, loopVars,
                     stepVars, passes, fault, ids, stage, draws>>
  BY DEF Solo
<1>r. j \in Jobs /\ Range(rows) = {j} /\ Len(rows) = 1 /\ budget = 0
  <2>1. Len(rows) = 1 /\ budget = 0
    BY <1>0, <1>a DEF Seats
  <2>2. rows \in Seq(Jobs) /\ DOMAIN rows = 1..Len(rows)
    BY <1>0 DEF BatchTypes
  <2>3. \A r \in 1..Len(rows) : rows[r] \in Jobs
    BY <2>2
  <2>4. 1..Len(rows) = {1}
    BY <2>1
  <2> QED BY <2>1, <2>2, <2>3, <2>4, <1>j DEF Range
<1>d. Idle /\ inserted = {} /\ ~done[j]
  BY <1>0, <1>a, <1>r DEF RestFacts, Seats, AtRest
<1>e. Whole(j) /\ fed[j] = gen[j] - 1 /\ counts[0] = <<j, drawn[j]>> /\ gen[j] >= 1 /\ gen[j] < Places
  BY <1>0, <1>a, <1>d, <1>r DEF RestFacts, AtRest, Counted, Seats
<1>t. /\ gen \in [Jobs -> Nat] /\ drawn \in [Jobs -> Nat] /\ fed \in [Jobs -> Int] /\ hist \in [Jobs -> Int]
      /\ DOMAIN rec = Jobs /\ cap \in [Jobs -> Nat] /\ slot \in [Jobs -> 0..Rows]
      /\ done \in [Jobs -> BOOLEAN] /\ Rows \in Nat /\ Places \in Nat
      /\ counts \in [0..Rows -> (Jobs \cup {NoJob}) \X Nat]
  BY <1>0 DEF BatchTypes, BatchAssumption
<1>b. PICK ends \in BOOLEAN, parks \in BOOLEAN : SoloTakes(j, ends, parks)
  BY <1>j DEF Solo
<1> DEFINE g     == gen[j] + 1
           over  == ends \/ Cancelled(j)
           waits == held_job = NoJob /\ arrived # <<>>
           yield == waits /\ ~over
           two   == parks /\ yield /\ g < Places
           g2    == IF two THEN g + 1 ELSE g
           more  == IF two THEN 2 ELSE 1
           ended == over \/ g2 >= Places
           eats  == parks /\ over /\ g < Places
           f     == IF eats THEN g2 ELSE g2 - 1
           n     == <<j, counts[0][2] + more>>
<1>c. /\ gen' = [gen EXCEPT ![j] = g2] /\ drawn' = [drawn EXCEPT ![j] = @ + more]
      /\ fed' = [fed EXCEPT ![j] = f] /\ hist' = [hist EXCEPT ![j] = f]
      /\ rec' = [rec EXCEPT ![j] = IF @ = fed[j] THEN f ELSE -1]
      /\ cap' = [cap EXCEPT ![j] = Grown(j, f)]
      /\ done' = [done EXCEPT ![j] = ended]
      /\ at' = IF ended THEN "answer" ELSE IF yield THEN "top" ELSE "solo"
      /\ counts' = IF yield /\ ~ended THEN [counts EXCEPT ![0] = n, ![slot[j]] = n]
                   ELSE [counts EXCEPT ![0] = n]
  BY <1>b DEF SoloTakes
<1>v. /\ g2 \in Nat /\ more \in Nat /\ f \in Int /\ g2 > gen[j] /\ ended \in BOOLEAN
      /\ ended => f = g2 - 1 \/ f = g2
      /\ ~ended => f = g2 - 1 /\ g2 < Places
  <2>1. g \in Nat /\ g = gen[j] + 1 /\ Places \in Nat /\ gen[j] \in Nat
    BY ONLY SMTT(30), <1>t, <1>r
  <2>2. g2 \in Nat /\ more \in Nat /\ f \in Int /\ g2 > gen[j]
    <3> HIDE DEF g, over, yield
    <3> QED BY <2>1
  <2>3. (ended => f = g2 - 1 \/ f = g2) /\ (~ended => g2 < Places)
    <3> HIDE DEF g, over, yield
    <3> QED BY <2>1
  <2>4. ~over => f = g2 - 1
    OBVIOUS
  <2> QED BY <2>2, <2>3, <2>4
<1> HIDE DEF g, over, waits, yield, two, g2, more, ended, eats, f, n
<1> USE DEF jobVars, loopVars, stepVars
<1>1. /\ gen' \in [Jobs -> Nat] /\ drawn' \in [Jobs -> Nat] /\ fed' \in [Jobs -> Int] /\ hist' \in [Jobs -> Int]
      /\ done' \in [Jobs -> BOOLEAN]
  <2>1. drawn[j] + more \in Nat
    BY ONLY SMTT(30), <1>t, <1>r, <1>v
  <2>2. drawn' = [drawn EXCEPT ![j] = drawn[j] + more]
    BY <1>c
  <2>3. gen' = [gen EXCEPT ![j] = g2] /\ fed' = [fed EXCEPT ![j] = f] /\ hist' = [hist EXCEPT ![j] = f]
        /\ done' = [done EXCEPT ![j] = ended]
    BY <1>c
  <2>4. gen' \in [Jobs -> Nat]
    BY ONLY <2>3, <1>t, <1>v
  <2>5. drawn' \in [Jobs -> Nat]
    BY ONLY <2>2, <2>1, <1>t
  <2>6. fed' \in [Jobs -> Int] /\ hist' \in [Jobs -> Int]
    BY ONLY <2>3, <1>t, <1>v
  <2>7. done' \in [Jobs -> BOOLEAN]
    BY ONLY <2>3, <1>t, <1>v
  <2> QED BY <2>4, <2>5, <2>6, <2>7
<1>2. DOMAIN rec' = Jobs /\ rec'[j] = f
  <2>1. rec' = [rec EXCEPT ![j] = f]
    BY <1>c, <1>e DEF Whole
  <2> QED BY <2>1, <1>t, <1>r, <1>v
<1>3. cap' \in [Jobs -> Nat]
  <2>1. Grown(j, f) \in Nat
    BY <1>r, <1>t, <1>v, GrownCovers
  <2> QED BY <1>c, <1>t, <2>1
<1>4. slot[j] \in 1..Rows
  BY <1>0, <1>r DEF Roster
<1>5. n = <<j, drawn[j] + more>> /\ n \in (Jobs \cup {NoJob}) \X Nat /\ drawn'[j] = drawn[j] + more
  <2>1. counts[0][2] = drawn[j]
    BY <1>e
  <2>2. drawn[j] + more \in Nat
    BY ONLY SMTT(30), <1>t, <1>r, <1>v
  <2> QED BY <2>1, <2>2, <1>c, <1>t, <1>r DEF n
<1>6. counts' \in [0..Rows -> (Jobs \cup {NoJob}) \X Nat]
  BY <1>c, <1>t, <1>5
<1>7. ~ended => counts'[IF at' = "solo" THEN 0 ELSE slot[j]] = <<j, drawn'[j]>>
  <2> SUFFICES ASSUME ~ended PROVE counts'[IF at' = "solo" THEN 0 ELSE slot[j]] = n
    BY <1>5
  <2>1. 0 \in 0..Rows /\ slot[j] \in 0..Rows /\ slot[j] # 0
    BY <1>4, <1>t
  <2> QED BY <1>c, <1>t, <2>1
<1>8. at' \in {"answer", "top", "solo"} /\ (at' = "answer" <=> ended)
  BY <1>c
<1>9. Roster'
  <2>1. \A i \in Jobs : done'[i] => done[i] \/ i \in Range(rows)
    BY <1>c, <1>t, <1>r
  <2> QED BY <2>1, <1>0, <1>a, <1>d, RosterKept
<1>10. BatchTypes'
  BY <1>0, <1>a, <1>1, <1>2, <1>3, <1>6, <1>8 DEF BatchTypes
<1>11. done'[j] = ended /\ gen'[j] = g2 /\ fed'[j] = f /\ hist'[j] = f
  BY <1>c, <1>t, <1>r
<1>12. Seats'
  <2>1. gen'[j] >= 1 /\ (~done'[j] => gen'[j] < Places)
    <3>1. gen[j] \in Nat
      BY <1>t, <1>r
    <3> QED BY <1>11, <1>v, <1>e, <3>1
  <2>2. done'[j] => at' = "answer"
    BY <1>8, <1>11
  <2>3. rows' = rows /\ held_job' = held_job /\ budget' = 0 /\ Len(rows) <= Rows
    BY <1>a, <1>r, <1>0 DEF Seats
  <2> QED BY <2>3, <1>r, <1>8, <2>1, <2>2 DEF Seats, Admitting, InStretch
<1>13. RestFacts'
  <2>1. fed'[j] = gen'[j] - 1 \/ (done'[j] /\ fed'[j] = gen'[j])
    BY <1>11, <1>v
  <2>2. Whole(j)' /\ (~done'[j] => Counted(j)')
    BY <1>2, <1>7, <1>11, <1>a DEF Whole, Counted
  <2> QED BY <1>a, <1>d, <1>r, <2>1, <2>2 DEF RestFacts, Idle
<1>14. SettleFacts' /\ CommitFacts' /\ UnwindFacts' /\ ParkedFacts' /\ FlightFacts'
  BY <1>8 DEF SettleFacts, UnwindFacts, CommitFacts, ParkedFacts, FlightFacts
<1> QED BY <1>9, <1>10, <1>12, <1>13, <1>14 DEF BInv

LEMMA SoloFailsStep ==
    ASSUME BInv, SoloFails
    PROVE  BInv'
<1>0. /\ BatchTypes /\ Roster /\ Seats /\ RestFacts /\ SettleFacts /\ CommitFacts /\ ParkedFacts
      /\ FlightFacts /\ UnwindFacts
  BY DEF BInv
<1>a. /\ at = "solo" /\ at' = "unwind_wait"
      /\ UNCHANGED <<spacing, jobVars, held_job, rowVars, stateVarsB, loopVars, stepVars, passes,
                     ids, stage, draws, rec, counts>>
  BY DEF SoloFails
<1> USE DEF jobVars, rowVars, stateVarsB, stepVars, loopVars
<1>1. Roster'
  BY <1>0, <1>a DEF Roster
<1>2. BatchTypes'
  BY <1>0, <1>a DEF BatchTypes
<1>3. Seats'
  BY <1>0, <1>a DEF Seats, Admitting, InStretch
<1>4. RestFacts' /\ SettleFacts' /\ CommitFacts' /\ UnwindFacts' /\ ParkedFacts' /\ FlightFacts'
  BY <1>0, <1>a DEF RestFacts, SettleFacts, CommitFacts, UnwindFacts, AtRest, Idle,
                    ParkedFacts, FlightFacts
<1> QED BY <1>1, <1>2, <1>3, <1>4 DEF BInv

LEMMA CommitStep ==
    ASSUME BInv, Commit, BatchAssumption
    PROVE  BInv'
<1>0. /\ BatchTypes /\ Roster /\ Seats /\ RestFacts /\ SettleFacts /\ CommitFacts /\ ParkedFacts
      /\ FlightFacts /\ UnwindFacts
  BY DEF BInv
<1>a. /\ at = "commit" /\ parked = NoPass
      /\ cap' = [j \in Jobs |-> IF j \in Range(rows) THEN Grown(j, fed[j] + 1) ELSE cap[j]]
      /\ at' = IF Fits /\ passes = <<>> THEN "ahead" ELSE "bail"
      /\ ids' = [r \in 1..Len(rows) |-> <<rows[r], gen[rows[r]]>>]
      /\ stage' = [r \in 1..Len(rows) |->
                   <<rows[r], IF hist[rows[r]] = gen[rows[r]] - 1 THEN gen[rows[r]] ELSE -1>>]
      /\ hist' = [j \in Jobs |-> IF j \in Range(rows) THEN gen[j] ELSE hist[j]]
      /\ current' = StartStep(Host, 0, 0, 0) /\ passes' = Append(passes, current')
      /\ fed' = [j \in Jobs |-> IF j \in Range(rows) THEN fed[j] + 1 ELSE fed[j]]
      /\ steps' = steps + 1
      /\ UNCHANGED <<spacing, troubles, jobVars, held_job, rowVars, last, chunk, budget, may, parked,
                     armed_value, raised, fault, draws, rec, counts>>
  BY DEF Commit, Stages, Advance
<1>t. /\ gen \in [Jobs -> Nat] /\ fed \in [Jobs -> Int] /\ hist \in [Jobs -> Int]
      /\ cap \in [Jobs -> Nat] /\ rows \in Seq(Jobs) /\ DOMAIN rows = 1..Len(rows) /\ Range(rows) \subseteq Jobs
      /\ steps \in Nat /\ raised \in Nat
  <2>1. /\ gen \in [Jobs -> Nat] /\ fed \in [Jobs -> Int] /\ hist \in [Jobs -> Int]
        /\ cap \in [Jobs -> Nat] /\ rows \in Seq(Jobs) /\ steps \in Nat /\ raised \in Nat
    BY <1>0 DEF BatchTypes
  <2>2. DOMAIN rows = 1..Len(rows) /\ Range(rows) \subseteq Jobs
    BY ONLY <2>1 DEF Range
  <2> QED BY <2>1, <2>2
<1>r. \A r \in 1..Len(rows) : rows[r] \in Range(rows) /\ rows[r] \in Jobs
  BY <1>t DEF Range
<1>d. /\ Idle /\ inserted = {}
      /\ \A j \in Range(rows) : Whole(j) /\ fed[j] = gen[j] - 1 /\ counts[slot[j]] = <<j, drawn[j]>>
  BY <1>0, <1>a DEF CommitFacts, Counted
<1>e. \A j \in Jobs : Grown(j, fed[j] + 1) \in Nat /\ Grown(j, fed[j] + 1) >= fed[j] + 1
  <2> SUFFICES ASSUME NEW j \in Jobs PROVE Grown(j, fed[j] + 1) \in Nat /\ Grown(j, fed[j] + 1) >= fed[j] + 1
    OBVIOUS
  <2>1. fed[j] + 1 \in Int /\ cap \in [Jobs -> Nat]
    BY <1>t
  <2> QED BY <2>1, GrownCovers
<1>u. rows' = rows /\ gen' = gen /\ slot' = slot /\ drawn' = drawn /\ rec' = rec /\ counts' = counts
      /\ raised' = raised /\ inserted' = inserted
  BY <1>a DEF rowVars
<1>1. cap' \in [Jobs -> Nat]
  BY <1>a, <1>t, <1>e
<1>2. at' = "ahead"
  <2>1. ASSUME NEW j \in Range(rows) PROVE fed[j] < cap'[j]
    <3>1. j \in Jobs /\ cap'[j] = Grown(j, fed[j] + 1)
      BY <1>a, <1>t
    <3> QED BY ONLY SMTT(30), <3>1, <1>e, <1>t
  <2> QED BY <2>1, <1>a, <1>d DEF Fits, Idle
<1>3. fed' \in [Jobs -> Int] /\ hist' \in [Jobs -> Int] /\ steps' \in Nat
      /\ \A j \in Range(rows) : fed'[j] = gen[j] /\ hist'[j] = gen[j]
  <2>1. \A j \in Jobs : fed[j] + 1 \in Int /\ gen[j] \in Int /\ hist[j] \in Int /\ fed[j] \in Int
    BY <1>t
  <2>2. fed' \in [Jobs -> Int] /\ hist' \in [Jobs -> Int] /\ steps' \in Nat
    BY <1>a, <1>t, <2>1
  <2>3. \A j \in Range(rows) : fed'[j] = fed[j] + 1 /\ hist'[j] = gen[j]
    BY <1>a, <1>t
  <2>4. \A j \in Range(rows) : fed[j] + 1 = gen[j]
    <3> SUFFICES ASSUME NEW j \in Range(rows) PROVE fed[j] + 1 = gen[j]
      OBVIOUS
    <3>1. fed[j] = gen[j] - 1 /\ gen[j] \in Int
      BY <1>d, <1>t, <2>1
    <3> QED BY ONLY <3>1
  <2> QED BY <2>2, <2>3, <2>4
<1> USE DEF jobVars, rowVars
<1>4. Roster'
  BY <1>0, <1>a DEF Roster
<1>5. BatchTypes'
  BY <1>0, <1>a, <1>1, <1>2, <1>3 DEF BatchTypes
<1>6. Seats'
  BY <1>0, <1>a, <1>2 DEF Seats, Admitting, InStretch
<1>7. StepOf(current, 0)'
  <2>1. current' = [rows |-> rows, slots |-> [r \in 1..Len(rows) |-> slot[rows[r]]], ids |-> Host, out |-> 0,
                    pos |-> [r \in 1..Len(rows) |-> fed[rows[r]]],
                    step |-> [r \in 1..Len(rows) |-> gen[rows[r]] + 0], value |-> 0]
    BY <1>a DEF StartStep
  <2>2. /\ current'.rows = rows /\ current'.out = 0 /\ current'.ids = Host /\ current'.value = 0
        /\ current'.slots = [r \in 1..Len(rows) |-> slot[rows[r]]]
        /\ \A r \in 1..Len(rows) : current'.pos[r] = fed[rows[r]] /\ current'.step[r] = gen[rows[r]] + 0
    BY <2>1
  <2>3. \A r \in 1..Len(rows) : fed[rows[r]] = gen[rows[r]] - 1 + 0
    <3> SUFFICES ASSUME NEW r \in 1..Len(rows) PROVE fed[rows[r]] = gen[rows[r]] - 1 + 0
      OBVIOUS
    <3>1. fed[rows[r]] = gen[rows[r]] - 1 /\ gen[rows[r]] \in Nat
      BY <1>d, <1>r, <1>t
    <3> QED BY ONLY <3>1
  <2>4. \A r \in 1..Len(rows) : current'.pos[r] = gen[rows[r]] - 1 + 0 /\ current'.step[r] = gen[rows[r]] + 0
    BY <2>2, <2>3
  <2>5. current'.out \in {0, 1} /\ current'.ids \in {0, 1, Host} \ {current'.out} /\ current'.value \in Nat
    BY <2>2 DEF Host
  <2> QED BY <2>2, <2>4, <2>5, <1>u DEF StepOf
<1>8. FlightFacts'
  <2>1. passes' = <<current'>> \o Behind' /\ parked' = NoPass /\ armed_value' = 0
    BY <1>a, <1>d DEF Idle, Behind
  <2>2. \A r \in 1..Len(rows') : stage'[r] = <<rows'[r], gen'[rows'[r]]>> /\ ids'[r] = <<rows'[r], gen'[rows'[r]]>>
    BY <1>a, <1>d, <1>r, <1>t DEF Whole
  <2>3. current'.ids = Host /\ current'.value = 0
    BY <1>a DEF StartStep
  <2>4. \A j \in Range(rows') : rec'[j] = gen'[j] - 1 /\ Counted(j)'
    BY <1>a, <1>d, <1>2, <1>t DEF Whole, Counted
  <2>5. NotRun'
    BY <2>1, <2>2, <2>3, <2>4 DEF NotRun
  <2>6. current'.value <= raised' /\ inserted' = {} /\ at' # "drained"
    BY <1>a, <1>d, <1>2, <1>t, <2>3
  <2>7. \A j \in Range(rows') : hist'[j] = gen'[j] /\ fed'[j] = gen'[j] + 0
    <3>1. \A j \in Range(rows) : gen[j] \in Nat
      BY <1>t
    <3> QED BY <1>u, <1>3, <3>1
  <2>8. \A j \in Range(rows') : hist'[j] = gen'[j]
                                /\ fed'[j] = gen'[j] + (IF parked' = NoPass THEN 0 ELSE 1)
    BY <2>1, <2>7
  <2> QED BY <1>7, <2>1, <2>5, <2>6, <2>8 DEF FlightFacts
<1>9. RestFacts' /\ SettleFacts' /\ CommitFacts' /\ UnwindFacts' /\ ParkedFacts'
  BY <1>2 DEF SettleFacts, UnwindFacts, CommitFacts, ParkedFacts, RestFacts, AtRest
<1> QED BY <1>4, <1>5, <1>6, <1>8, <1>9 DEF BInv

(* A parked step is released into the flight: the one of commit, next to   *)
(* its step, and the one of drain.                                         *)
LEMMA ReleaseFlies ==
    ASSUME BInv, BatchAssumption, NEW next \in {"ahead", "drained"}, ReleaseStep(next),
           at = "drain" \/ (at = "commit" /\ parked # NoPass),
           next = "ahead" => at = "commit"
    PROVE  BInv'
<1>0. /\ BatchTypes /\ Roster /\ Seats /\ ParkedFacts
  BY DEF BInv
<1>a. /\ stage' = [r \in 1..Len(rows) |->
                   <<rows[r], IF hist[rows[r]] = gen[rows[r]] - 1 THEN gen[rows[r]] ELSE -1>>]
      /\ hist' = [j \in Jobs |-> IF j \in Range(rows) THEN gen[j] ELSE hist[j]]
      /\ at' = IF IsOf(parked) /\ armed_value = parked.value THEN next ELSE "bail"
      /\ raised' = Max({raised, armed_value}) /\ armed_value' = 0
      /\ current' = parked /\ parked' = NoPass /\ steps' = steps + 1
      /\ UNCHANGED <<spacing, troubles, jobVars, held_job, rowVars, fed, cap, last, chunk, budget, may,
                     passes, fault, ids, draws, rec, counts>>
  BY DEF ReleaseStep, Stages, Released
<1>t. /\ gen \in [Jobs -> Nat] /\ hist \in [Jobs -> Int] /\ rows \in Seq(Jobs) /\ DOMAIN rows = 1..Len(rows)
      /\ Range(rows) \subseteq Jobs /\ steps \in Nat /\ raised \in Nat /\ armed_value \in Nat
  BY ONLY SMTT(30), <1>0 DEF BatchTypes, Range
<1>r. \A r \in 1..Len(rows) : rows[r] \in Range(rows) /\ rows[r] \in Jobs /\ gen[rows[r]] \in Nat
  BY <1>t DEF Range
<1>p. /\ passes = <<parked>> /\ Armed /\ StepOf(parked, 0)
      /\ parked.ids \in {0, 1} /\ inserted = {} /\ may \cap Range(rows) = {}
      /\ \A r \in 1..Len(rows) : draws[parked.ids][r].token = <<rows[r], gen[rows[r]]>>
      /\ \A j \in Range(rows) :
            hist[j] = gen[j] - 1 /\ rec[j] = gen[j] - 1 /\ fed[j] = gen[j] /\ Counted(j)
  BY <1>0 DEF ParkedFacts
<1>u. rows' = rows /\ gen' = gen /\ slot' = slot /\ drawn' = drawn /\ rec' = rec /\ counts' = counts
      /\ inserted' = inserted /\ draws' = draws /\ fed' = fed /\ may' = may /\ passes' = passes
  BY <1>a DEF rowVars
<1>1. IsOf(parked)
  <2>1. ASSUME NEW r \in 1..Len(rows) PROVE fed[rows[r]] = parked.pos[r] + 1
    <3>1. parked.pos[r] = gen[rows[r]] - 1 + 0 /\ fed[rows[r]] = gen[rows[r]] /\ gen[rows[r]] \in Nat
      BY <1>p, <1>r DEF StepOf
    <3> QED BY ONLY <3>1
  <2> QED BY <2>1, <1>p DEF IsOf, StepOf
<1>2. at' = next /\ at' \in {"ahead", "drained"}
  BY <1>1, <1>a, <1>p DEF Armed
<1>3. raised' \in Nat /\ parked.value <= raised'
  <2>1. raised' \in {raised, armed_value} /\ raised' >= armed_value
    <3>1. raised \in Int /\ armed_value \in Int
      BY <1>t
    <3>2. Max({raised, armed_value}) \in {raised, armed_value} /\ Max({raised, armed_value}) >= armed_value
      BY <3>1, MaxOfTwo
    <3> QED BY <3>2, <1>a
  <2> QED BY <2>1, <1>t, <1>p DEF Armed
<1>4. hist' \in [Jobs -> Int] /\ steps' \in Nat /\ \A j \in Range(rows) : hist'[j] = gen[j]
  <2>1. \A j \in Jobs : gen[j] \in Int /\ hist[j] \in Int
    BY <1>t
  <2> QED BY <2>1, <1>a, <1>t
<1> USE DEF jobVars, rowVars
<1>5. Roster'
  BY <1>0, <1>a DEF Roster
<1>6. BatchTypes'
  BY <1>0, <1>a, <1>2, <1>3, <1>4 DEF BatchTypes
<1>7. Seats'
  BY <1>0, <1>a, <1>2 DEF Seats, Admitting, InStretch
<1>8. NotRun'
  <2>1. passes' = <<current'>> \o Behind'
    BY <1>a, <1>p DEF Behind
  <2>2. \A r \in 1..Len(rows) : stage'[r] = <<rows[r], gen[rows[r]]>>
    BY <1>a, <1>p, <1>r
  <2>3. current'.ids # Host /\ current'.ids = parked.ids
    BY <1>a, <1>p DEF Host
  <2>4. \A r \in 1..Len(rows) : draws[parked.ids][r].token = <<rows[r], gen[rows[r]]>>
    BY <1>p
  <2>5. \A j \in Range(rows) : rec'[j] = gen'[j] - 1 /\ Counted(j)'
    BY <1>p, <1>u, <1>0, <1>2 DEF Counted
  <2> QED BY <2>1, <2>2, <2>3, <2>4, <2>5, <1>u DEF NotRun
<1>9. StepOf(current, 0)'
  BY <1>p, <1>a, <1>u DEF StepOf
<1>10. FlightFacts'
  <2>1. parked' = NoPass /\ armed_value' = 0 /\ current'.value <= raised' /\ inserted' = {}
    BY <1>a, <1>p, <1>3
  <2>2. \A j \in Range(rows') : hist'[j] = gen'[j]
                                /\ fed'[j] = gen'[j] + (IF parked' = NoPass THEN 0 ELSE 1)
    <3>1. \A j \in Range(rows) : fed[j] = gen[j] /\ gen[j] \in Nat
      BY <1>p, <1>t
    <3>2. \A j \in Range(rows) : fed[j] = gen[j] + 0
      BY <3>1
    <3> QED BY <1>u, <1>4, <2>1, <3>2
  <2>3. may' \cap Range(rows') = {}
    BY <1>p, <1>u
  <2> QED BY <1>8, <1>9, <2>1, <2>2, <2>3 DEF FlightFacts
<1>11. RestFacts' /\ SettleFacts' /\ CommitFacts' /\ UnwindFacts' /\ ParkedFacts'
  BY <1>2 DEF SettleFacts, UnwindFacts, CommitFacts, ParkedFacts, RestFacts, AtRest
<1> QED BY <1>5, <1>6, <1>7, <1>10, <1>11 DEF BInv

LEMMA ReleaseNextStep == ASSUME BInv, ReleaseNext, BatchAssumption PROVE BInv'
  BY ReleaseFlies DEF ReleaseNext

LEMMA DrainStep == ASSUME BInv, Drain, BatchAssumption PROVE BInv'
  BY ReleaseFlies DEF Drain

(* The next step is parked behind the one in flight, or is not.            *)
LEMMA AheadStep ==
    ASSUME BInv, Ahead, BatchAssumption
    PROVE  BInv'
<1>0. /\ BatchTypes /\ Roster /\ Seats /\ FlightFacts
  BY DEF BInv
<1>a. /\ at = "ahead"
      /\ IF ParkNext
         THEN /\ at' = IF armed_value = 0 /\ IsOf(current)
                          /\ \A j \in Range(rows) : fed[j] < cap[j] THEN "finish" ELSE "bail"
              /\ parked' = StartStep(current.out, 1 - current.out, 1, raised + 1)
              /\ passes' = Append(passes, parked') /\ armed_value' = raised + 1
              /\ fed' = [j \in Jobs |-> IF j \in Range(rows) THEN fed[j] + 1 ELSE fed[j]]
         ELSE at' = "finish" /\ UNCHANGED <<parked, passes, armed_value, fed>>
      /\ UNCHANGED <<spacing, troubles, jobVars, held_job, rowVars, hist, cap, last, chunk, steps, budget,
                     current, raised, fault, ids, stage, draws, rec, counts>>
  BY DEF Ahead, Advance
<1>t. /\ gen \in [Jobs -> Nat] /\ fed \in [Jobs -> Int] /\ rows \in Seq(Jobs) /\ DOMAIN rows = 1..Len(rows)
      /\ cap \in [Jobs -> Nat] /\ Range(rows) \subseteq Jobs /\ raised \in Nat
  BY ONLY SMTT(30), <1>0 DEF BatchTypes, Range
<1>r. \A r \in 1..Len(rows) : rows[r] \in Range(rows) /\ rows[r] \in Jobs /\ gen[rows[r]] \in Nat
  BY <1>t DEF Range
<1>f. /\ StepOf(current, 0) /\ current.value <= raised /\ inserted = {}
      /\ NotRun \/ HasRun
      /\ parked = NoPass /\ armed_value = 0
      /\ \A j \in Range(rows) : hist[j] = gen[j] /\ fed[j] = gen[j]
  <2>1. /\ StepOf(current, 0) /\ current.value <= raised /\ inserted = {} /\ (NotRun \/ HasRun)
        /\ parked = NoPass /\ armed_value = 0
    BY <1>0, <1>a DEF FlightFacts
  <2>2. \A j \in Range(rows) : hist[j] = gen[j] /\ fed[j] = gen[j] + 0
    BY <1>0, <1>a, <2>1 DEF FlightFacts
  <2>3. \A j \in Range(rows) : gen[j] + 0 = gen[j]
    BY <1>t
  <2> QED BY <2>1, <2>2, <2>3
<1>u. rows' = rows /\ gen' = gen /\ slot' = slot /\ drawn' = drawn /\ rec' = rec /\ counts' = counts
      /\ inserted' = inserted /\ draws' = draws /\ hist' = hist /\ current' = current /\ raised' = raised
      /\ stage' = stage /\ ids' = ids /\ fault' = fault
  BY <1>a DEF rowVars
<1>s. StepOf(current, 0)'
  BY <1>f, <1>u DEF StepOf
<1>o. current.out \in {0, 1}
  BY <1>f DEF StepOf
<1>A. ASSUME ParkNext
      PROVE  at' = "finish" /\ FlightFacts' /\ fed' \in [Jobs -> Int] /\ armed_value' \in Nat
  <2>1. /\ parked' = StartStep(current.out, 1 - current.out, 1, raised + 1)
        /\ passes' = Append(passes, parked') /\ armed_value' = raised + 1
        /\ fed' = [j \in Jobs |-> IF j \in Range(rows) THEN fed[j] + 1 ELSE fed[j]]
        /\ at' = IF armed_value = 0 /\ IsOf(current)
                          /\ \A j \in Range(rows) : fed[j] < cap[j] THEN "finish" ELSE "bail"
    BY <1>a, <1>A
  <2>2. IsOf(current)
    <3>1. ASSUME NEW r \in 1..Len(rows) PROVE fed[rows[r]] = current.pos[r] + 1
      <4>1. current.pos[r] = gen[rows[r]] - 1 + 0 /\ fed[rows[r]] = gen[rows[r]] /\ gen[rows[r]] \in Nat
        BY <1>f, <1>r DEF StepOf
      <4> QED BY ONLY <4>1
    <3> QED BY <3>1, <1>f DEF IsOf, StepOf
  <2>3. \A j \in Range(rows) : fed[j] < cap[j]
    <3> SUFFICES ASSUME NEW j \in Range(rows) PROVE fed[j] < cap[j]
      OBVIOUS
    <3>1. fed[j] + 1 < cap[j] /\ fed[j] \in Int /\ cap[j] \in Nat
      BY <1>A, <1>t DEF ParkNext
    <3> QED BY ONLY <3>1
  <2>4. at' = "finish"
    BY <2>1, <2>2, <2>3, <1>f
  <2>5. may' \cap Range(rows) = {}
    BY <1>A DEF ParkNext
  <2>6. parked' = [rows |-> rows, slots |-> [r \in 1..Len(rows) |-> slot[rows[r]]], ids |-> current.out,
                   out |-> 1 - current.out, pos |-> [r \in 1..Len(rows) |-> fed[rows[r]]],
                   step |-> [r \in 1..Len(rows) |-> gen[rows[r]] + 1], value |-> raised + 1]
    BY <2>1 DEF StartStep
  <2>7. /\ parked'.rows = rows /\ parked'.out = 1 - current.out /\ parked'.ids = current.out
        /\ parked'.value = raised + 1 /\ parked'.slots = [r \in 1..Len(rows) |-> slot[rows[r]]]
        /\ \A r \in 1..Len(rows) : parked'.pos[r] = fed[rows[r]] /\ parked'.step[r] = gen[rows[r]] + 1
    BY <2>6
  <2>8. \A r \in 1..Len(rows) : parked'.pos[r] = gen[rows[r]] - 1 + 1
    <3> SUFFICES ASSUME NEW r \in 1..Len(rows) PROVE fed[rows[r]] = gen[rows[r]] - 1 + 1
      BY <2>7
    <3>1. fed[rows[r]] = gen[rows[r]] /\ gen[rows[r]] \in Nat
      BY <1>f, <1>r
    <3> QED BY ONLY <3>1
  <2>9. parked'.out \in {0, 1} /\ parked'.ids \in {0, 1, Host} \ {parked'.out} /\ parked'.value \in Nat
    BY <2>7, <1>o, <1>t
  <2>10. StepOf(parked, 1)'
    <3>1. \A r \in 1..Len(rows) : parked'.pos[r] = gen[rows[r]] - 1 + 1 /\ parked'.step[r] = gen[rows[r]] + 1
      BY <2>7, <2>8
    <3> QED BY <2>7, <2>9, <3>1, <1>u DEF StepOf
  <2>11. parked' # NoPass
    <3>1. "rows" \in DOMAIN parked' /\ "rows" \notin DOMAIN NoPass
      BY <2>6 DEF NoPass
    <3> QED BY <3>1
  <2>12. (NotRun \/ HasRun)'
    <3>0. Behind = <<>> /\ Behind' = <<parked'>>
      BY <1>f, <2>11 DEF Behind
    <3>1. CASE NotRun
      <4>1. passes' = <<current'>> \o Behind'
        BY <3>0, <3>1, <2>1, <1>u DEF NotRun
      <4>2. \A j \in Range(rows) : Counted(j)'
        BY <3>1, <1>u, <1>a, <2>4 DEF NotRun, Counted
      <4> QED BY <4>1, <4>2, <3>1, <1>u DEF NotRun
    <3>2. CASE HasRun
      <4>1. passes' = Behind'
        BY <3>0, <3>2, <2>1 DEF HasRun
      <4> QED BY <4>1, <3>2, <1>u DEF HasRun
    <3> QED BY <3>1, <3>2, <1>f
  <2>13. fed' \in [Jobs -> Int] /\ \A j \in Range(rows) : fed'[j] = gen[j] + 1
    <3>1. \A j \in Jobs : fed[j] + 1 \in Int /\ fed[j] \in Int
      BY ONLY SMTT(30), <1>t
    <3> QED BY <3>1, <2>1, <1>f, <1>t
  <2>14. armed_value' \in Nat
    BY SMTT(30), <2>1, <1>t
  <2>15. FlightFacts'
    <3>1. Armed'
      BY <2>1, <2>7, <1>u DEF Armed
    <3>2. \A j \in Range(rows') : hist'[j] = gen'[j]
                                /\ fed'[j] = gen'[j] + (IF parked' = NoPass THEN 0 ELSE 1)
      BY <2>13, <2>11, <1>f, <1>u
    <3> QED BY <1>s, <1>f, <1>u, <2>4, <2>5, <2>7, <2>10, <2>11, <2>12, <3>1, <3>2 DEF FlightFacts
  <2> QED BY <2>4, <2>13, <2>14, <2>15
<1>B. ASSUME ~ParkNext
      PROVE  at' = "finish" /\ FlightFacts' /\ fed' \in [Jobs -> Int] /\ armed_value' \in Nat
  <2>1. at' = "finish" /\ UNCHANGED <<parked, passes, armed_value, fed>>
    BY SMTT(30), <1>a, <1>B
  <2>2. (NotRun \/ HasRun)'
    BY <1>f, <1>u, <1>a, <2>1 DEF NotRun, HasRun, Counted, Behind
  <2>3. FlightFacts'
    <3>1. \A j \in Range(rows') : hist'[j] = gen'[j]
                                /\ fed'[j] = gen'[j] + (IF parked' = NoPass THEN 0 ELSE 1)
      <4>1. \A j \in Range(rows) : fed[j] = gen[j] + 0
        <5>1. \A j \in Range(rows) : gen[j] \in Nat
          BY <1>t
        <5> QED BY <5>1, <1>f
      <4> QED BY <4>1, <1>f, <1>u, <2>1
    <3> QED BY <1>s, <1>f, <1>u, <2>1, <2>2, <3>1 DEF FlightFacts
  <2>4. fed' \in [Jobs -> Int] /\ armed_value' \in Nat
    BY <2>1, <1>t, <1>0 DEF BatchTypes
  <2> QED BY <2>1, <2>3, <2>4
<1>1. at' = "finish" /\ FlightFacts' /\ fed' \in [Jobs -> Int] /\ armed_value' \in Nat
  BY <1>A, <1>B
<1> USE DEF jobVars, rowVars
<1>2. Roster'
  BY <1>0, <1>a DEF Roster
<1>3. BatchTypes'
  <2>1. UNCHANGED <<spacing, troubles, jobVars, held_job, rowVars, hist, cap, last, chunk, steps, budget,
                     current, raised, fault, ids, stage, draws, rec, counts>>
    BY <1>a
  <2> QED BY <1>0, <1>1, <2>1 DEF BatchTypes
<1>4. Seats'
  <2>1. UNCHANGED <<held_job, rowVars, budget>>
    BY <1>a
  <2> QED BY <1>0, <1>1, <1>a, <2>1 DEF Seats, Admitting, InStretch
<1>5. RestFacts' /\ SettleFacts' /\ CommitFacts' /\ UnwindFacts' /\ ParkedFacts'
  BY <1>1 DEF SettleFacts, UnwindFacts, CommitFacts, ParkedFacts, RestFacts, AtRest
<1> QED BY <1>1, <1>2, <1>3, <1>4, <1>5 DEF BInv
(* What take_draw does to the rows js: a token each, or two where a control*)
(* acted.                                                                  *)
LEMMA TakesFacts ==
    ASSUME BatchTypes, Seats, BatchAssumption, NEW js \in SUBSET Range(rows), NEW ends, NEW acts,
           Takes(js, ends, acts), \A j \in js : ~done[j]
    PROVE  /\ gen' \in [Jobs -> Nat] /\ drawn' \in [Jobs -> Nat] /\ done' \in [Jobs -> BOOLEAN]
           /\ inserts' \in Nat /\ acts \subseteq js \cap may
           /\ \A j \in Jobs : j \notin js => gen'[j] = gen[j] /\ drawn'[j] = drawn[j] /\ done'[j] = done[j]
           /\ \A j \in js : /\ gen'[j] >= 1 /\ drawn'[j] = drawn[j] + 1
                            /\ j \notin acts => gen'[j] = gen[j] + 1
                            /\ ~done'[j] => gen'[j] < Places
<1>a. /\ acts \subseteq js \cap may /\ Cardinality(acts) <= inserts
      /\ inserts' = inserts - Cardinality(acts)
      /\ gen' = [j \in Jobs |-> IF j \in acts THEN Min({gen[j] + 2, Places})
                                ELSE IF j \in js THEN gen[j] + 1 ELSE gen[j]]
      /\ drawn' = [j \in Jobs |-> IF j \in js THEN drawn[j] + 1 ELSE drawn[j]]
      /\ ends = {j \in js : Cancelled(j) \/ gen'[j] >= Places} \cup (ends \cap js)
      /\ done' = [j \in Jobs |-> done[j] \/ j \in ends]
  BY DEF Takes
<1>t0. /\ gen \in [Jobs -> Nat] /\ drawn \in [Jobs -> Nat] /\ done \in [Jobs -> BOOLEAN] /\ inserts \in Nat
       /\ rows \in Seq(Jobs)
  BY DEF BatchTypes
<1>t. /\ \A j \in Jobs : gen[j] \in Nat /\ drawn[j] \in Nat /\ done[j] \in BOOLEAN
      /\ Places \in Nat \ {0} /\ DOMAIN rows = 1..Len(rows) /\ Range(rows) \subseteq Jobs
      /\ js \subseteq Jobs /\ acts \subseteq js
  BY <1>a, <1>t0 DEF Range, BatchAssumption
<1>1. inserts' \in Nat
  <2>1. IsFiniteSet(Range(rows))
    <3>1. IsFiniteSet(1..Len(rows))
      BY <1>t0, UpTo
    <3>2. rows \in Surjection(1..Len(rows), Range(rows))
      BY <1>t, <1>t0 DEF Surjection, Range
    <3> QED BY <3>1, <3>2, FS_Surjection
  <2>2. Cardinality(acts) \in Nat
    BY <2>1, <1>t, FS_Subset, FS_CardinalityType
  <2> QED BY <2>2, <1>a, <1>t0
<1>2. ASSUME NEW j \in Jobs
      PROVE  Min({gen[j] + 2, Places}) \in Nat /\ (Min({gen[j] + 2, Places}) >= 1)
  <2>1. gen[j] + 2 \in Int /\ Places \in Int /\ gen[j] + 2 >= 1 /\ Places >= 1
    BY <1>t
  <2>2. Min({gen[j] + 2, Places}) \in {gen[j] + 2, Places}
    BY ONLY <2>1, MinOfTwo
  <2> QED BY ONLY <2>1, <2>2
<1>3. gen' \in [Jobs -> Nat]
  <2>1. \A j \in Jobs : gen[j] + 1 \in Nat
    BY <1>t
  <2> QED BY ONLY <2>1, <1>2, <1>a, <1>t
<1>4. drawn' \in [Jobs -> Nat]
  BY ONLY <1>a, <1>t
<1>5. done' \in [Jobs -> BOOLEAN]
  BY ONLY <1>a, <1>t
<1>6. ASSUME NEW j \in Jobs, j \notin js PROVE gen'[j] = gen[j] /\ drawn'[j] = drawn[j] /\ done'[j] = done[j]
  <2>1. j \notin acts /\ j \notin ends
    BY <1>6, <1>a
  <2>2. done'[j] = done[j]
    BY <2>1, <1>a, <1>t
  <2> QED BY <2>1, <2>2, <1>6, <1>a
<1>7. ASSUME NEW j \in js
      PROVE  /\ gen'[j] >= 1 /\ drawn'[j] = drawn[j] + 1
             /\ j \notin acts => gen'[j] = gen[j] + 1
             /\ ~done'[j] => gen'[j] < Places
  <2>1. j \in Jobs /\ drawn'[j] = drawn[j] + 1
    BY <1>a, <1>t
  <2>2. j \notin acts => gen'[j] = gen[j] + 1
    BY <1>a, <2>1
  <2>3. gen'[j] >= 1
    <3>1. CASE j \in acts
      <4>1. gen'[j] = Min({gen[j] + 2, Places})
        BY <3>1, <2>1, <1>a
      <4> QED BY <4>1, <2>1, <1>2
    <3>2. CASE j \notin acts
      BY <3>2, <2>1, <2>2, <1>t
    <3> QED BY <3>1, <3>2
  <2>4. ~done'[j] => gen'[j] < Places
    <3>1. ~done'[j] => j \notin ends
      BY <1>a, <2>1
    <3>2. gen'[j] >= Places => j \in ends
      BY <1>a
    <3>3. gen'[j] \in Nat
      BY <1>3, <2>1
    <3> QED BY <3>1, <3>2, <3>3, <1>t
  <2> QED BY <2>1, <2>2, <2>3, <2>4
<1> QED BY <1>1, <1>3, <1>4, <1>5, <1>6, <1>7, <1>a

(* A step waited for has run: its token is there for every row.            *)
LEMMA WaitedHasRun ==
    ASSUME BatchTypes, FlightFacts, at \in {"finish", "drained"}, Ran, ~fault
    PROVE  /\ passes = Behind /\ current.out \in {0, 1}
           /\ \A j \in Range(rows) : rec[j] = gen[j] /\ counts[slot[j]] = <<j, drawn[j] + 1>>
           /\ \A r \in 1..Len(rows) : draws[current.out][r].token = <<rows[r], gen[rows[r]] + 1>>
<1>1. ~NotRun
  <2> SUFFICES ASSUME NotRun PROVE FALSE
    OBVIOUS
  <2>1. passes = <<current>> \o Behind
    BY DEF NotRun
  <2>2. CASE parked = NoPass
    <3>1. passes = <<current>>
      BY <2>1, <2>2 DEF Behind
    <3> QED BY <3>1, <2>2 DEF Ran
  <2>3. CASE parked # NoPass
    <3>1. passes = <<current>> \o <<parked>>
      BY <2>1, <2>3 DEF Behind
    <3>2. Len(<<current>> \o <<parked>>) = 2
      OBVIOUS
    <3> QED BY <3>1, <3>2, <2>3 DEF Ran
  <2> QED BY <2>2, <2>3
<1>2. HasRun /\ StepOf(current, 0)
  BY <1>1 DEF FlightFacts
<1>3. \A r \in 1..Len(rows) : draws[current.out][r].token = <<rows[r], gen[rows[r]] + 1>>
  <2>1. \A r \in 1..Len(rows) :
           draws[current.out][r] = [token |-> <<rows[r], gen[rows[r]] + 1>>, from |-> gen[rows[r]],
                                    seen |-> <<rows[r], drawn[rows[r]]>>]
    BY <1>2 DEF HasRun
  <2> SUFFICES ASSUME NEW r \in 1..Len(rows)
               PROVE  draws[current.out][r].token = <<rows[r], gen[rows[r]] + 1>>
    OBVIOUS
  <2>2. draws[current.out][r] = [token |-> <<rows[r], gen[rows[r]] + 1>>, from |-> gen[rows[r]],
                                 seen |-> <<rows[r], drawn[rows[r]]>>]
    BY <2>1
  <2> QED BY <2>2
<1>4. passes = Behind
      /\ \A j \in Range(rows) : rec[j] = gen[j] /\ counts[slot[j]] = <<j, drawn[j] + 1>>
  BY <1>2 DEF HasRun
<1>5. current.out \in {0, 1}
  BY <1>2 DEF StepOf
<1> QED BY <1>3, <1>4, <1>5

LEMMA FinishStepStep ==
    ASSUME BInv, FinishStep, BatchAssumption
    PROVE  BInv'
<1>0. /\ BatchTypes /\ Roster /\ Seats /\ FlightFacts
  BY DEF BInv
<1>a. /\ at = "finish" /\ Ran /\ ~fault
      /\ at' = CASE parked # NoPass /\ inserted' # {} -> "bail"
                 [] parked # NoPass /\ (\E j \in Range(rows) : done'[j]) -> "drain"
                 [] parked # NoPass /\ ~(\E j \in Range(rows) : done'[j]) -> "commit"
                 [] OTHER -> "settle"
      /\ current' = NoPass
      /\ UNCHANGED <<spacing, troubles, jobVars, held_job, rows, slot, free, stateVarsB, loopVars, parked,
                     armed_value, raised, gpuVarsB>>
  BY DEF FinishStep
<1>b. PICK ends \in SUBSET Range(rows), acts \in SUBSET Range(rows) : Takes(Range(rows), ends, acts)
  BY DEF FinishStep
<1>n. \A j \in Range(rows) : ~done[j]
  BY <1>0, <1>a DEF Seats
<1>c. /\ gen' \in [Jobs -> Nat] /\ drawn' \in [Jobs -> Nat] /\ done' \in [Jobs -> BOOLEAN]
      /\ inserts' \in Nat /\ acts \subseteq Range(rows) \cap may
      /\ \A j \in Jobs : j \notin Range(rows) => done'[j] = done[j]
      /\ \A j \in Range(rows) : /\ gen'[j] >= 1 /\ drawn'[j] = drawn[j] + 1
                                /\ j \notin acts => gen'[j] = gen[j] + 1
                                /\ ~done'[j] => gen'[j] < Places
  BY <1>0, <1>b, <1>n, TakesFacts
<1>d. /\ passes = Behind /\ current.out \in {0, 1}
      /\ \A j \in Range(rows) : rec[j] = gen[j] /\ counts[slot[j]] = <<j, drawn[j] + 1>>
      /\ \A r \in 1..Len(rows) : draws[current.out][r].token = <<rows[r], gen[rows[r]] + 1>>
  BY <1>0, <1>a, WaitedHasRun
<1>e. inserted = {} /\ inserted' = acts
  <2>1. inserted = {} /\ inserted' = inserted \cup acts
    BY <1>0, <1>a, <1>b DEF FlightFacts, Takes
  <2> QED BY <2>1
<1>f. \A j \in Range(rows) : hist[j] = gen[j] /\ fed[j] = gen[j] + (IF parked = NoPass THEN 0 ELSE 1)
  BY <1>0, <1>a DEF FlightFacts
<1>t. gen \in [Jobs -> Nat] /\ rows \in Seq(Jobs) /\ DOMAIN rows = 1..Len(rows) /\ Range(rows) \subseteq Jobs
  <2>1. gen \in [Jobs -> Nat] /\ rows \in Seq(Jobs)
    BY <1>0 DEF BatchTypes
  <2> QED BY ONLY <2>1 DEF Range
<1>r. \A r \in 1..Len(rows) : rows[r] \in Range(rows) /\ rows[r] \in Jobs /\ gen[rows[r]] \in Nat
  BY <1>t DEF Range
<1>u. /\ rows' = rows /\ slot' = slot /\ rec' = rec /\ counts' = counts /\ hist' = hist /\ fed' = fed
      /\ draws' = draws /\ parked' = parked /\ armed_value' = armed_value /\ raised' = raised
      /\ passes' = passes /\ may' = may /\ budget' = budget /\ held_job' = held_job
  BY <1>a DEF stateVarsB, loopVars, gpuVarsB
<1>p. parked # NoPass => acts = {} /\ Armed /\ StepOf(parked, 1) /\ parked.ids = current.out
  BY <1>0, <1>a, <1>c DEF FlightFacts
<1>1. /\ at' \in {"drain", "commit", "settle"}
      /\ at' = "settle" <=> parked = NoPass
      /\ at' # "commit" \/ \A j \in Range(rows) : ~done'[j]
  BY <1>a, <1>e, <1>p
<1>2. \A j \in Range(rows) : Counted(j)'
  BY <1>1, <1>c, <1>d, <1>u DEF Counted
<1> USE DEF jobVars, stateVarsB, loopVars, gpuVarsB
<1>3. Roster'
  <2>1. \A j \in Jobs : done'[j] => done[j] \/ j \in Range(rows)
    BY <1>c
  <2> QED BY <2>1, <1>0, <1>a, <1>e, <1>c, RosterKept
<1>4. BatchTypes'
  BY <1>0, <1>a, <1>c, <1>1 DEF BatchTypes
<1>5. Seats'
  <2>1. \A j \in Range(rows) : done'[j] => at' \in {"drain", "settle"}
    BY <1>1
  <2>2. Len(rows) <= Rows /\ (budget > 0 => held_job # NoJob /\ Len(rows) < Rows)
    BY <1>0, <1>a DEF Seats, Admitting, InStretch
  <2>3. Admitting' => budget > 0
    BY <1>1, <1>u DEF Admitting
  <2> QED BY <2>1, <2>2, <2>3, <1>1, <1>c, <1>u DEF Seats
<1>6. ASSUME parked # NoPass
      PROVE  ParkedFacts'
  <2>1. passes' = <<parked'>> /\ Armed' /\ inserted' = {} /\ parked' # NoPass
    BY <1>6, <1>d, <1>p, <1>u, <1>e DEF Behind, Armed
  <2>2. StepOf(parked, 0)'
    <3>1. ASSUME NEW r \in 1..Len(rows)
          PROVE  parked.pos[r] = gen'[rows[r]] - 1 + 0 /\ parked.step[r] = gen'[rows[r]] + 0
      <4>1. parked.pos[r] = gen[rows[r]] - 1 + 1 /\ parked.step[r] = gen[rows[r]] + 1 /\ gen[rows[r]] \in Nat
            /\ gen'[rows[r]] = gen[rows[r]] + 1
        BY <1>6, <1>p, <1>r, <1>c DEF StepOf
      <4> QED BY ONLY <4>1
    <3> QED BY <3>1, <1>6, <1>p, <1>u DEF StepOf
  <2>3. parked'.ids \in {0, 1} /\ may' \cap Range(rows') = {}
    BY <1>6, <1>p, <1>d, <1>u, <1>0, <1>a DEF FlightFacts
  <2>4. \A r \in 1..Len(rows') : draws'[parked'.ids][r].token = <<rows'[r], gen'[rows'[r]]>>
    BY <1>6, <1>p, <1>d, <1>u, <1>c, <1>r
  <2>5. ASSUME NEW j \in Range(rows)
        PROVE  hist[j] = gen'[j] - 1 /\ rec[j] = gen'[j] - 1 /\ fed[j] = gen'[j]
    <3>1. hist[j] = gen[j] /\ rec[j] = gen[j] /\ fed[j] = gen[j] + 1 /\ gen'[j] = gen[j] + 1 /\ gen[j] \in Nat
      BY <1>6, <1>p, <1>c, <1>d, <1>f, <1>t
    <3> QED BY ONLY <3>1
  <2> QED BY <2>1, <2>2, <2>3, <2>4, <2>5, <1>2, <1>u DEF ParkedFacts
<1>7. ASSUME parked = NoPass
      PROVE  SettleFacts'
  <2>1. Idle'
    BY <1>7, <1>d, <1>u, <1>0, <1>a DEF Idle, Behind, FlightFacts
  <2>2. ASSUME NEW j \in Range(rows)
        PROVE  Whole(j)' /\ (j \in inserted' \/ fed'[j] = gen'[j] - 1)
    <3>1. hist[j] = gen[j] /\ rec[j] = gen[j] /\ fed[j] = gen[j] + 0 /\ gen[j] \in Nat
      BY <1>7, <1>d, <1>f, <1>t
    <3>2. j \notin acts => gen'[j] = gen[j] + 1
      BY <1>c
    <3> QED BY <3>1, <3>2, <1>u, <1>e DEF Whole
  <2> QED BY <2>1, <2>2, <1>2, <1>u DEF SettleFacts
<1>8. RestFacts' /\ CommitFacts' /\ UnwindFacts' /\ FlightFacts' /\ ParkedFacts' /\ SettleFacts'
  BY <1>1, <1>6, <1>7, <1>u DEF UnwindFacts, CommitFacts, RestFacts, AtRest, FlightFacts, ParkedFacts, SettleFacts
<1> QED BY <1>3, <1>4, <1>5, <1>8 DEF BInv

LEMMA FinishDrainStep ==
    ASSUME BInv, FinishDrain, BatchAssumption
    PROVE  BInv'
<1>0. /\ BatchTypes /\ Roster /\ Seats /\ FlightFacts
  BY DEF BInv
<1>o. PICK on : on = {j \in Range(rows) : ~done[j]}
  OBVIOUS
<1>a. /\ at = "drained" /\ Ran /\ ~fault /\ at' = "settle"
      /\ current' = NoPass
      /\ UNCHANGED <<spacing, troubles, jobVars, held_job, rows, slot, free, stateVarsB, loopVars, parked,
                     armed_value, raised, gpuVarsB>>
  BY DEF FinishDrain
<1>b. PICK ends \in SUBSET on, acts \in SUBSET on : Takes(on, ends, acts)
  BY <1>o DEF FinishDrain
<1>c. /\ gen' \in [Jobs -> Nat] /\ drawn' \in [Jobs -> Nat] /\ done' \in [Jobs -> BOOLEAN]
      /\ inserts' \in Nat /\ acts \subseteq on \cap may
      /\ \A j \in Jobs : j \notin on => gen'[j] = gen[j] /\ drawn'[j] = drawn[j] /\ done'[j] = done[j]
      /\ \A j \in on : /\ gen'[j] >= 1 /\ drawn'[j] = drawn[j] + 1
                       /\ j \notin acts => gen'[j] = gen[j] + 1
                       /\ ~done'[j] => gen'[j] < Places
  <2>1. on \in SUBSET Range(rows) /\ \A j \in on : ~done[j]
    BY <1>o
  <2> QED BY <1>0, <1>b, <2>1, TakesFacts
<1>d. /\ passes = Behind
      /\ \A j \in Range(rows) : rec[j] = gen[j] /\ counts[slot[j]] = <<j, drawn[j] + 1>>
  BY <1>0, <1>a, WaitedHasRun
<1>e. inserted = {} /\ inserted' = {} /\ parked = NoPass /\ armed_value = 0 /\ acts = {}
  <2>1. inserted = {} /\ inserted' = inserted \cup acts /\ may \cap Range(rows) = {}
        /\ parked = NoPass /\ armed_value = 0
    BY <1>0, <1>a, <1>b DEF FlightFacts, Takes
  <2> QED BY <2>1, <1>c, <1>o
<1>t. gen \in [Jobs -> Nat] /\ rows \in Seq(Jobs) /\ Range(rows) \subseteq Jobs
  <2>1. gen \in [Jobs -> Nat] /\ rows \in Seq(Jobs)
    BY <1>0 DEF BatchTypes
  <2> QED BY ONLY <2>1 DEF Range
<1>f. \A j \in Range(rows) : hist[j] = gen[j] /\ fed[j] = gen[j] + 0 /\ gen[j] \in Nat /\ j \in Jobs
  BY <1>0, <1>a, <1>e, <1>t DEF FlightFacts
<1>u. /\ rows' = rows /\ slot' = slot /\ rec' = rec /\ counts' = counts /\ hist' = hist /\ fed' = fed
      /\ parked' = parked /\ armed_value' = armed_value
      /\ passes' = passes /\ budget' = budget /\ held_job' = held_job
  BY <1>a DEF stateVarsB, loopVars, gpuVarsB
<1>2. ASSUME NEW j \in Range(rows), ~done'[j]
      PROVE  j \in on /\ Counted(j)'
  <2>1. j \in on
    <3>1. j \notin on => done'[j] = done[j]
      BY <1>c, <1>f
    <3> QED BY <3>1, <1>2, <1>o
  <2> QED BY <2>1, <1>c, <1>d, <1>u, <1>a DEF Counted
<1> USE DEF jobVars, stateVarsB, loopVars, gpuVarsB
<1>3. Roster'
  <2>1. \A j \in Jobs : done'[j] => done[j] \/ j \in Range(rows)
    BY <1>c, <1>o
  <2> QED BY <2>1, <1>0, <1>a, <1>e, RosterKept
<1>4. BatchTypes'
  BY <1>0, <1>a, <1>c DEF BatchTypes
<1>5. Seats'
  <2>1. \A j \in Range(rows) : gen'[j] >= 1 /\ (~done'[j] => gen'[j] < Places)
    <3>1. \A j \in Range(rows) : gen[j] >= 1
      BY <1>0 DEF Seats
    <3> QED BY <3>1, <1>2, <1>c, <1>f
  <2>2. Len(rows) <= Rows /\ (budget > 0 => held_job # NoJob /\ Len(rows) < Rows)
    BY <1>0, <1>a DEF Seats, Admitting, InStretch
  <2>3. Admitting' => budget > 0
    BY <1>a, <1>u DEF Admitting
  <2> QED BY <2>1, <2>2, <2>3, <1>a, <1>u DEF Seats
<1>6. SettleFacts'
  <2>1. Idle'
    BY <1>d, <1>e, <1>u DEF Idle, Behind
  <2>2. ASSUME NEW j \in Range(rows)
        PROVE  Whole(j)' /\ (fed'[j] = gen'[j] - 1 \/ (done'[j] /\ fed'[j] = gen'[j]))
    <3>0. hist[j] = gen[j] /\ rec[j] = gen[j] /\ fed[j] = gen[j] /\ gen[j] \in Nat /\ j \in Jobs
      BY <1>d, <1>f
    <3>1. CASE j \in on
      <4>1. gen'[j] = gen[j] + 1
        BY <3>1, <1>c, <1>e
      <4> QED BY <4>1, <3>0, <1>u DEF Whole
    <3>2. CASE j \notin on
      <4>1. gen'[j] = gen[j] /\ done'[j]
        BY <3>0, <3>2, <1>c, <1>o
      <4> QED BY <4>1, <3>0, <1>u DEF Whole
    <3> QED BY <3>1, <3>2
  <2> QED BY <2>1, <2>2, <1>2, <1>u DEF SettleFacts
<1>8. RestFacts' /\ CommitFacts' /\ UnwindFacts' /\ FlightFacts' /\ ParkedFacts'
  BY <1>a DEF UnwindFacts, CommitFacts, RestFacts, AtRest, FlightFacts, ParkedFacts
<1> QED BY <1>3, <1>4, <1>5, <1>6, <1>8 DEF BInv
LEMMA SettleStep ==
    ASSUME BInv, Settle, BatchAssumption
    PROVE  BInv'
<1>0. /\ BatchTypes /\ Roster /\ Seats /\ SettleFacts
  BY DEF BInv
<1>a. /\ at = "settle"
      /\ fed' = [j \in Jobs |-> IF j \in inserted THEN gen[j] - 1 ELSE fed[j]]
      /\ hist' = [j \in Jobs |-> IF j \in inserted THEN gen[j] - 1 ELSE hist[j]]
      /\ rec' = [j \in Jobs |-> IF j \in inserted
                                THEN IF rec[j] = fed[j] /\ hist[j] = fed[j] THEN gen[j] - 1 ELSE -1
                                ELSE rec[j]]
      /\ cap' = [j \in Jobs |-> IF j \in inserted THEN Grown(j, gen[j] - 1) ELSE cap[j]]
      /\ inserted' = {}
      /\ at' = IF \/ \E j \in Range(rows) : done[j]
                  \/ inserted # {} \/ (budget > 0 /\ steps >= budget) \/ Admission
               THEN "answer" ELSE "commit"
      /\ UNCHANGED <<spacing, troubles, jobVars, held_job, rows, slot, free, gen, drawn, done, inserts,
                     loopVars, stepVars, passes, fault, ids, stage, draws, counts>>
  BY DEF Settle
<1>b. /\ Idle
      /\ \A j \in Range(rows) :
             /\ Whole(j) /\ (j \in inserted \/ fed[j] = gen[j] - 1 \/ (done[j] /\ fed[j] = gen[j]))
             /\ ~done[j] => Counted(j)
  BY <1>0, <1>a DEF SettleFacts
<1>t. /\ gen \in [Jobs -> Nat] /\ fed \in [Jobs -> Int] /\ hist \in [Jobs -> Int] /\ cap \in [Jobs -> Nat]
      /\ rows \in Seq(Jobs) /\ Range(rows) \subseteq Jobs
  <2>1. /\ gen \in [Jobs -> Nat] /\ fed \in [Jobs -> Int] /\ hist \in [Jobs -> Int] /\ cap \in [Jobs -> Nat]
        /\ rows \in Seq(Jobs)
    BY <1>0 DEF BatchTypes
  <2> QED BY ONLY <2>1 DEF Range
<1>1. at' \in {"answer", "commit"} /\ (at' = "commit" => \A j \in Range(rows) : ~done[j])
  BY <1>a
<1>2. fed' \in [Jobs -> Int] /\ hist' \in [Jobs -> Int] /\ DOMAIN rec' = Jobs
  <2>1. \A j \in Jobs : gen[j] - 1 \in Int /\ fed[j] \in Int /\ hist[j] \in Int
    BY <1>t
  <2> QED BY ONLY <2>1, <1>a
<1>3. cap' \in [Jobs -> Nat]
  <2>1. ASSUME NEW j \in Jobs PROVE Grown(j, gen[j] - 1) \in Nat /\ cap[j] \in Nat
    <3>1. gen[j] - 1 \in Int
      BY <1>t
    <3> QED BY <3>1, <1>t, GrownCovers
  <2> QED BY ONLY <2>1, <1>a
<1>4. ASSUME NEW j \in Range(rows)
      PROVE  Whole(j)' /\ (fed'[j] = gen[j] - 1 \/ (done[j] /\ fed'[j] = gen[j]))
  <2>1. j \in Jobs /\ Whole(j)
    BY <1>b, <1>t
  <2>2. CASE j \in inserted
    BY <2>1, <2>2, <1>a DEF Whole
  <2>3. CASE j \notin inserted
    <3>1. fed'[j] = fed[j] /\ hist'[j] = hist[j] /\ rec'[j] = rec[j]
      BY <2>1, <2>3, <1>a
    <3> QED BY <2>1, <2>3, <3>1, <1>b DEF Whole
  <2> QED BY <2>2, <2>3
<1>u. /\ rows' = rows /\ slot' = slot /\ counts' = counts /\ gen' = gen /\ drawn' = drawn /\ done' = done
      /\ passes' = passes /\ parked' = parked /\ armed_value' = armed_value
      /\ budget' = budget /\ held_job' = held_job
  BY <1>a DEF loopVars, stepVars
<1>5. \A j \in Range(rows) : ~done[j] => Counted(j)'
  BY <1>b, <1>u, <1>1, <1>a DEF Counted
<1> USE DEF jobVars, loopVars, stepVars
<1>6. Roster'
  BY <1>0, <1>a, RosterKept
<1>7. BatchTypes'
  BY <1>0, <1>a, <1>1, <1>2, <1>3 DEF BatchTypes
<1>8. Seats'
  <2>1. Len(rows) <= Rows /\ (budget > 0 => held_job # NoJob /\ Len(rows) < Rows)
        /\ \A j \in Range(rows) : gen[j] >= 1 /\ (~done[j] => gen[j] < Places)
    BY <1>0, <1>a DEF Seats, Admitting, InStretch
  <2>2. Admitting' => budget > 0
    BY <1>1, <1>u DEF Admitting
  <2> QED BY <2>1, <2>2, <1>1, <1>u DEF Seats
<1>9. Idle'
  BY <1>b, <1>u DEF Idle
<1>10. RestFacts'
  BY <1>4, <1>5, <1>9, <1>a, <1>u DEF RestFacts
<1>11. CommitFacts'
  BY <1>1, <1>4, <1>5, <1>9, <1>a, <1>u DEF CommitFacts
<1>12. SettleFacts' /\ UnwindFacts' /\ FlightFacts' /\ ParkedFacts'
  BY <1>1, <1>9 DEF UnwindFacts, FlightFacts, ParkedFacts, SettleFacts, Idle
<1> QED BY <1>6, <1>7, <1>8, <1>10, <1>11, <1>12 DEF BInv

LEMMA FinishRowStep ==
    ASSUME BInv, FinishRow, BatchAssumption
    PROVE  BInv'
<1>0. /\ BatchTypes /\ Roster /\ Seats /\ RestFacts
  BY DEF BInv
<1>a. /\ at = "answer" /\ \E k \in Range(rows) : done[k]
      /\ UNCHANGED <<spacing, troubles, at, arrived, left, stopping, held_job, slot, gen, drawn, done, inserted,
                     inserts, stateVarsB, loopVars, stepVars, gpuVarsB>>
  BY DEF FinishRow
<1>i. PICK i : i = Min({r \in 1..Len(rows) : done[rows[r]]})
  OBVIOUS
<1>j. PICK j : j = rows[i]
  OBVIOUS
<1>b. rows' = SwapRemove(rows, i) /\ Answer({j}) /\ free' = free \cup {slot[j]}
  BY <1>i, <1>j DEF FinishRow
<1>t. /\ rows \in Seq(Jobs) /\ DOMAIN rows = 1..Len(rows) /\ Len(rows) \in Nat /\ Range(rows) \subseteq Jobs
      /\ arrived \in Seq(Jobs) /\ Range(arrived) \subseteq Jobs
      /\ job \in [Jobs -> {"new", "queued", "held", "row", "answered"}] /\ IsInjective(rows)
  <2>1. rows \in Seq(Jobs) /\ arrived \in Seq(Jobs) /\ IsInjective(rows)
        /\ job \in [Jobs -> {"new", "queued", "held", "row", "answered"}]
    BY <1>0 DEF BatchTypes, Roster
  <2>2. DOMAIN rows = 1..Len(rows) /\ Len(rows) \in Nat /\ Range(rows) \subseteq Jobs
        /\ Range(arrived) \subseteq Jobs
    BY ONLY <2>1 DEF Range
  <2> QED BY <2>1, <2>2
<1>c. i \in 1..Len(rows) /\ done[rows[i]]
  <2>1. {r \in 1..Len(rows) : done[rows[r]]} # {}
    BY <1>a, <1>t DEF Range
  <2>2. {r \in 1..Len(rows) : done[rows[r]]} \subseteq Nat
    OBVIOUS
  <2>3. i \in {r \in 1..Len(rows) : done[rows[r]]}
    BY <1>i, <2>1, <2>2, Least
  <2> QED BY <2>3
<1>d. j \in Range(rows) /\ j \in Jobs /\ done[j] /\ job[j] = "row"
  <2>1. j \in Range(rows) /\ done[j]
    BY ONLY SMTT(30), <1>c, <1>j, <1>t DEF Range
  <2> QED BY <2>1, <1>t, <1>0 DEF Roster
<1>e. /\ rows' \in Seq(Jobs) /\ Len(rows') = Len(rows) - 1 /\ IsInjective(rows')
      /\ Range(rows') = Range(rows) \ {j}
  BY <1>b, <1>c, <1>j, <1>t, SwapDistinct
<1>f. \A k \in Jobs : job'[k] = IF k = j THEN "answered" ELSE job[k]
  BY <1>b DEF Answer
<1>g. job' \in [Jobs -> {"new", "queued", "held", "row", "answered"}]
  BY <1>b, <1>t DEF Answer
<1>h. slot[j] \in 1..Rows /\ \A k \in Range(rows) : slot[k] = slot[j] => k = j
  BY <1>0, <1>d DEF Roster
<1> USE DEF stateVarsB, loopVars, stepVars, gpuVarsB
<1>1. Roster'
  <2>1. Range(rows') = {k \in Jobs : job'[k] = "row"}
    BY <1>d, <1>e, <1>f, <1>0 DEF Roster
  <2>2. \A k \in Range(arrived) : job'[k] = "queued"
    <3>1. \A k \in Range(arrived) : k \in Jobs /\ job[k] = "queued"
      BY <1>0, <1>t DEF Roster
    <3> QED BY <3>1, <1>d, <1>f
  <2>3. held_job # NoJob => job'[held_job] = "held"
    <3>1. held_job # NoJob => held_job \in Jobs /\ job[held_job] = "held"
      BY <1>0 DEF Roster, BatchTypes
    <3> QED BY <3>1, <1>d, <1>f
  <2>4. \A k \in Jobs : job'[k] \in {"new", "queued", "held"} => ~done[k]
    BY <1>f, <1>0 DEF Roster
  <2>5. free' = (1..Rows) \ {slot[k] : k \in Range(rows')}
    <3>1. free = (1..Rows) \ {slot[k] : k \in Range(rows)}
      BY <1>0 DEF Roster
    <3>2. \A x \in 1..Rows : x \in free \/ x = slot[j] <=> x \notin {slot[k] : k \in Range(rows')}
      BY <3>1, <1>d, <1>e, <1>h
    <3> QED BY <3>1, <3>2, <1>b, <1>h
  <2>6. inserted' \subseteq Range(rows')
    BY <1>0, <1>a DEF RestFacts, AtRest
  <2>7. /\ \A k, l \in Range(rows') : slot[k] = slot[l] => k = l
        /\ \A k \in Range(rows') : slot[k] \in 1..Rows
        /\ IsInjective(arrived)
    BY <1>0, <1>e DEF Roster
  <2> QED BY <2>1, <2>2, <2>3, <2>4, <2>5, <2>6, <2>7, <1>a, <1>e DEF Roster
<1>2. BatchTypes'
  <2>1. free' \subseteq 1..Rows
    BY <1>b, <1>h, <1>0 DEF BatchTypes
  <2> QED BY <1>0, <1>a, <1>e, <1>g, <2>1 DEF BatchTypes
<1>3. Seats'
  <2>1. Len(rows') < Len(rows) /\ Len(rows') \in Nat /\ Len(rows) <= Rows
    BY <1>e, <1>t, <1>0 DEF Seats
  <2>2. Rows \in Nat
    BY DEF BatchAssumption
  <2>3. Len(rows') <= Rows /\ Len(rows') < Rows
    BY <2>1, <2>2, <1>t
  <2> QED BY <2>3, <1>a, <1>e, <1>0 DEF Seats, Admitting, InStretch
<1>4. RestFacts'
  <2>1. Idle' /\ inserted' = {}
    BY <1>0, <1>a DEF RestFacts, AtRest, Idle
  <2>2. ASSUME NEW k \in Range(rows')
        PROVE  /\ Whole(k)' /\ (fed'[k] = gen'[k] - 1 \/ (done'[k] /\ fed'[k] = gen'[k]))
               /\ ~done'[k] => Counted(k)'
    <3>1. k \in Range(rows)
      BY <1>e
    <3> QED BY <3>1, <1>0, <1>a DEF RestFacts, AtRest, Whole, Counted
  <2> QED BY <2>1, <2>2 DEF RestFacts
<1>5. SettleFacts' /\ CommitFacts' /\ UnwindFacts' /\ FlightFacts' /\ ParkedFacts'
  BY <1>a DEF UnwindFacts, FlightFacts, ParkedFacts, SettleFacts, CommitFacts
<1> QED BY <1>1, <1>2, <1>3, <1>4, <1>5 DEF BInv

LEMMA AnsweredStep ==
    ASSUME BInv, Answered, BatchAssumption
    PROVE  BInv'
<1>0. /\ BatchTypes /\ Roster /\ Seats /\ RestFacts
  BY DEF BInv
<1>a. /\ at = "answer" /\ \A j \in Range(rows) : ~done[j]
      /\ rows' = rows
      /\ at' = CASE budget = 0 -> "top"
                 [] budget > 0 /\ (steps >= budget \/ steps = 0 \/ rows' = <<>>) -> "prefill"
                 [] OTHER -> "commit"
      /\ budget' = IF at' = "commit" THEN budget - steps ELSE 0
      /\ steps' = 0
      /\ UNCHANGED <<spacing, troubles, jobVars, held_job, slot, free, gen, drawn, done, inserted, inserts,
                     stateVarsB, chunk, may, stepVars, gpuVarsB>>
  BY DEF Answered, Return
<1>t. budget \in Nat /\ steps \in Nat
  BY <1>0 DEF BatchTypes
<1>1. /\ at' \in {"top", "prefill", "commit"} /\ budget' \in Nat /\ steps' \in Nat
      /\ at' # "top" => budget > 0
  BY <1>a, <1>t
<1>b. /\ Idle /\ inserted = {}
      /\ \A j \in Range(rows) : Whole(j) /\ fed[j] = gen[j] - 1 /\ Counted(j)
  BY <1>0, <1>a DEF RestFacts, AtRest
<1> USE DEF jobVars, stateVarsB, stepVars, gpuVarsB
<1>2. Idle' /\ inserted' = {}
      /\ \A j \in Range(rows') : Whole(j)' /\ fed'[j] = gen'[j] - 1 /\ Counted(j)'
  BY <1>a, <1>b, <1>1 DEF Idle, Whole, Counted
<1>3. Roster'
  <2>1. done' = done /\ inserted' \subseteq Range(rows)
        /\ UNCHANGED <<rows, job, arrived, held_job, slot, free>>
    BY <1>a, <1>b
  <2> QED BY ONLY <2>1, <1>0, RosterKept
<1>4. BatchTypes'
  BY <1>0, <1>a, <1>1 DEF BatchTypes
<1>5. Seats'
  <2>1. budget > 0 => held_job # NoJob /\ Len(rows) < Rows
    BY <1>0, <1>a DEF Seats, Admitting
  <2>2. Admitting' => at' # "top"
    BY <1>a DEF Admitting, InStretch
  <2> QED BY <2>1, <2>2, <1>0, <1>1, <1>a DEF Seats
<1>6. RestFacts' /\ CommitFacts'
  BY <1>2 DEF RestFacts, CommitFacts
<1>7. SettleFacts' /\ UnwindFacts' /\ FlightFacts' /\ ParkedFacts'
  BY <1>1, <1>2 DEF UnwindFacts, FlightFacts, ParkedFacts, SettleFacts, Idle
<1> QED BY <1>3, <1>4, <1>5, <1>6, <1>7 DEF BInv

LEMMA StepFailsStep ==
    ASSUME BInv, StepFails, BatchAssumption
    PROVE  BInv'
<1>0. /\ BatchTypes /\ Roster /\ Seats /\ CommitFacts /\ ParkedFacts /\ FlightFacts
  BY DEF BInv
<1>a. /\ at \in {"commit", "ahead", "finish", "drain", "drained"}
      /\ at' = "unwind_wait" /\ raised' = Max({raised, armed_value}) /\ armed_value' = 0
      /\ parked' = NoPass
      /\ UNCHANGED <<spacing, jobVars, held_job, rowVars, stateVarsB, loopVars, gpuVarsB>>
  BY DEF StepFails, Released
<1>1. inserted = {}
  <2>1. CASE at \in {"ahead", "finish", "drained"}
    BY <2>1, <1>0 DEF FlightFacts
  <2>2. CASE at \in {"commit", "drain"}
    BY <2>2, <1>0 DEF CommitFacts, ParkedFacts
  <2> QED BY <2>1, <2>2, <1>a
<1>2. raised' \in Nat
  <2>1. raised \in Nat /\ armed_value \in Nat
    BY <1>0 DEF BatchTypes
  <2>2. raised \in Int /\ armed_value \in Int
    BY <2>1
  <2>3. Max({raised, armed_value}) \in {raised, armed_value}
    BY <2>2, MaxOfTwo
  <2> QED BY <2>1, <2>3, <1>a
<1> USE DEF jobVars, rowVars, stateVarsB, loopVars, gpuVarsB
<1>3. Roster'
  BY <1>0, <1>a DEF Roster
<1>4. BatchTypes'
  BY <1>0, <1>a, <1>2 DEF BatchTypes
<1>5. Seats'
  BY <1>0, <1>a DEF Seats, Admitting, InStretch
<1>6. RestFacts' /\ SettleFacts' /\ CommitFacts' /\ UnwindFacts' /\ ParkedFacts' /\ FlightFacts'
  BY <1>1, <1>a DEF RestFacts, SettleFacts, CommitFacts, UnwindFacts, AtRest, ParkedFacts, FlightFacts
<1> QED BY <1>3, <1>4, <1>5, <1>6 DEF BInv

LEMMA FailRowsStep ==
    ASSUME BInv, FailRows, BatchAssumption
    PROVE  BInv'
<1>0. /\ BatchTypes /\ Roster /\ Seats /\ UnwindFacts
  BY DEF BInv
<1>a. /\ at = "unwind_wait" /\ passes = <<>>
      /\ Answer(Range(rows)) /\ free' = free \cup {slot[j] : j \in Range(rows)} /\ rows' = <<>>
      /\ at' = CASE budget = 0 -> "top"
                 [] budget > 0 /\ (0 >= budget \/ 0 = 0 \/ rows' = <<>>) -> "prefill"
                 [] OTHER -> "commit"
      /\ budget' = IF at' = "commit" THEN budget - 0 ELSE 0
      /\ steps' = 0
      /\ UNCHANGED <<spacing, troubles, arrived, left, stopping, held_job, slot, gen, drawn, done, inserted,
                     inserts, stateVarsB, chunk, may, stepVars, gpuVarsB>>
  BY DEF FailRows, Return
<1>t. budget \in Nat
  BY <1>0 DEF BatchTypes
<1>1. /\ at' \in {"top", "prefill"} /\ budget' = 0 /\ steps' = 0
      /\ at' = "prefill" => budget > 0
  BY <1>a, <1>t
<1>b. armed_value = 0 /\ parked = NoPass /\ inserted = {}
  BY <1>0, <1>a DEF UnwindFacts
<1> USE DEF stateVarsB, stepVars, gpuVarsB
<1>2. /\ Roster' /\ free' = 1..Rows
      /\ job' \in [Jobs -> {"new", "queued", "held", "row", "answered"}]
  <2>1. {} \subseteq {held_job} /\ Answer(Range(rows) \cup {})
    BY <1>a
  <2>2. UNCHANGED <<arrived, slot, done>> /\ held_job' = held_job /\ inserted' = {}
    BY <1>a, <1>b
  <2>3. {} # {held_job}
    OBVIOUS
  <2> QED BY ONLY <2>1, <2>2, <2>3, <1>a, <1>0, RowsAnswered, BatchAssumption
<1>3. BatchTypes'
  <2>1. rows' \in Seq(Jobs) /\ budget' \in Nat /\ steps' \in Nat
    BY <1>a, <1>1
  <2> QED BY <1>0, <1>a, <1>1, <1>2, <2>1 DEF BatchTypes
<1>4. Range(rows') = {} /\ Len(rows') = 0
  BY <1>a DEF Range
<1>5. Seats'
  <2>1. budget > 0 => held_job # NoJob
    BY <1>0, <1>a DEF Seats, Admitting
  <2> QED BY <2>1, <1>1, <1>4, <1>a, BatchAssumption DEF Seats, Admitting, InStretch, BatchAssumption
<1>6. RestFacts' /\ SettleFacts' /\ CommitFacts' /\ UnwindFacts' /\ ParkedFacts' /\ FlightFacts'
  BY <1>1, <1>4, <1>a, <1>b DEF RestFacts, SettleFacts, CommitFacts, UnwindFacts, AtRest, Idle,
                               ParkedFacts, FlightFacts
<1> QED BY <1>2, <1>3, <1>5, <1>6 DEF BInv
(* The queue of a step that has not run: it, and the parked one behind it. *)
LEMMA InFront ==
    ASSUME NEW a, NEW s, s = <<>> \/ \E b : s = <<b>>
    PROVE  Head(<<a>> \o s) = a /\ Tail(<<a>> \o s) = s /\ Len(<<a>> \o s) = Len(s) + 1
<1>1. CASE s = <<>>
  <2>1. <<a>> \o s = <<a>>
    BY <1>1
  <2> QED BY ONLY <1>1, <2>1
<1>2. ASSUME NEW b, s = <<b>>
      PROVE  Head(<<a>> \o s) = a /\ Tail(<<a>> \o s) = s /\ Len(<<a>> \o s) = Len(s) + 1
  <2> DEFINE S == {a, b}
             t == <<a>> \o s
  <2>1. <<a>> \in Seq(S) /\ s \in Seq(S) /\ Len(<<a>>) = 1 /\ Len(s) = 1 /\ s[1] = b /\ <<a>>[1] = a
    BY <1>2
  <2> HIDE DEF S
  <2>2. t \in Seq(S) /\ Len(t) = 2 /\ t[1] = a /\ t[2] = b
    <3>1. <<a>> \o s \in Seq(S) /\ Len(<<a>> \o s) = 2
          /\ \A i \in 1..2 : (<<a>> \o s)[i] = IF i <= 1 THEN <<a>>[i] ELSE s[i - 1]
      <4> DEFINE h == <<a>>
      <4>0. h \in Seq(S) /\ Len(h) = 1 /\ h[1] = a
        BY <2>1
      <4> HIDE DEF h
      <4>1. /\ h \o s \in Seq(S) /\ Len(h \o s) = Len(h) + Len(s)
            /\ \A i \in 1..Len(h) + Len(s) : (h \o s)[i] = IF i <= Len(h) THEN h[i] ELSE s[i - Len(h)]
        BY <4>0, <2>1, ConcatProperties
      <4>2. Len(h) = 1 /\ Len(h) + Len(s) = 2
        BY <4>0, <2>1
      <4> QED BY <4>1, <4>2 DEF h
    <3> QED BY <2>1, <3>1
  <2> HIDE DEF t
  <2>3. Head(t) = a /\ Tail(t) \in Seq(S) /\ Len(Tail(t)) = 1 /\ Tail(t)[1] = b
    BY ONLY <2>2
  <2>4. Tail(t) = s
    <3>1. \A i \in 1..1 : Tail(t)[i] = s[i]
      BY ONLY <2>1, <2>3
    <3>2. Len(Tail(t)) = Len(s) /\ \A i \in 1..Len(Tail(t)) : Tail(t)[i] = s[i]
      BY <3>1, <2>1, <2>3
    <3> QED BY ONLY <2>1, <2>3, <3>2, SeqEqual
  <2> QED BY <2>1, <2>2, <2>3, <2>4 DEF t
<1> QED BY <1>1, <1>2

LEMMA BehindIs == /\ Behind = <<>> \/ \E b : Behind = <<b>>
                  /\ Len(Behind) = (IF parked = NoPass THEN 0 ELSE 1)
  BY DEF Behind

(* The GPU runs a step: of what may be in flight only the one in front of  *)
(* the parked step is released.                                            *)
LEMMA RowFits ==
    ASSUME BatchTypes, Seats, StepOf(current, 0), NotRun, NEW r \in 1..Len(rows)
    PROVE  Row(current, r) = gen[rows[r]] /\ rows[r] \in Range(rows) /\ rows[r] \in Jobs
<1>t. gen \in [Jobs -> Nat] /\ rows \in Seq(Jobs) /\ DOMAIN rows = 1..Len(rows)
  BY DEF BatchTypes
<1>j. PICK j : j = rows[r]
  OBVIOUS
<1>1. j \in Range(rows) /\ j \in Jobs /\ gen[j] \in Nat
  BY <1>t, <1>j DEF Range
<1>2. gen[j] >= 1 /\ rec[j] = gen[j] - 1
  BY <1>1 DEF Seats, NotRun
<1>3. current.rows[r] = j /\ current.pos[r] = gen[j] - 1 + 0
  BY <1>j DEF StepOf
<1>4. /\ stage[r] = <<j, gen[j]>>
      /\ (IF current.ids = Host THEN ids[r] ELSE draws[current.ids][r].token) = <<j, gen[j]>>
  BY <1>j DEF NotRun
<1>5. rec[j] >= 0 /\ current.pos[r] = rec[j] /\ rec[j] + 1 = gen[j]
  BY ONLY <1>1, <1>2, <1>3
<1>6. Row(current, r) = rec[j] + 1
  <2>1. {<<j, gen[j]>>, <<j, gen[j]>>} = {<<j, rec[j] + 1>>}
    BY <1>5
  <2> QED BY <1>3, <1>4, <1>5, <2>1 DEF Row
<1> QED BY <1>1, <1>5, <1>6, <1>j

LEMMA RunStepStep ==
    ASSUME BInv, RunStep, BatchAssumption
    PROVE  BInv'
<1>0. /\ BatchTypes /\ Roster /\ Seats /\ RestFacts /\ SettleFacts /\ CommitFacts /\ ParkedFacts
      /\ FlightFacts /\ UnwindFacts
  BY DEF BInv
<1>p. PICK p : p = Head(passes)
  OBVIOUS
<1>a. /\ passes # <<>> /\ raised >= p.value /\ passes' = Tail(passes)
      /\ UNCHANGED <<spacing, at, jobVars, held_job, rowVars, stateVarsB, loopVars, stepVars, ids, stage>>
  BY <1>p DEF RunStep
<1> DEFINE at_row(j) == CHOOSE r \in 1..Len(p.rows) : p.rows[r] = j
           Ran1 == /\ rec' = [j \in Jobs |-> IF j \in Range(p.rows) THEN Row(p, at_row(j)) ELSE rec[j]]
                   /\ draws' = [draws EXCEPT ![p.out] =
                         [r \in 1..Len(p.rows) |-> [token |-> <<p.rows[r], p.step[r] + 1>>,
                                              from |-> Row(p, r), seen |-> counts[p.slots[r]]]]]
                   /\ counts' = [s \in 0..Rows |-> IF s \in Range(p.slots)
                                             THEN <<counts[s][1], counts[s][2] + 1>> ELSE counts[s]]
                   /\ fault' = fault
           Broke1 == fault' = TRUE /\ UNCHANGED <<rec, draws, counts>>
<1>b. Ran1 \/ Broke1
  BY <1>p DEF RunStep
<1>t. /\ gen \in [Jobs -> Nat] /\ rows \in Seq(Jobs) /\ DOMAIN rows = 1..Len(rows) /\ Range(rows) \subseteq Jobs
      /\ counts \in [0..Rows -> (Jobs \cup {NoJob}) \X Nat] /\ DOMAIN draws = {0, 1} /\ DOMAIN rec = Jobs
      /\ raised \in Nat /\ IsInjective(rows)
  <2>1. /\ gen \in [Jobs -> Nat] /\ rows \in Seq(Jobs)
        /\ counts \in [0..Rows -> (Jobs \cup {NoJob}) \X Nat] /\ DOMAIN draws = {0, 1} /\ DOMAIN rec = Jobs
        /\ raised \in Nat /\ IsInjective(rows)
    BY <1>0 DEF BatchTypes, Roster
  <2>2. DOMAIN rows = 1..Len(rows) /\ Range(rows) \subseteq Jobs
    BY ONLY <2>1 DEF Range
  <2> QED BY <2>1, <2>2
<1>1. counts' \in [0..Rows -> (Jobs \cup {NoJob}) \X Nat] /\ DOMAIN draws' = {0, 1} /\ DOMAIN rec' = Jobs
  <2>1. CASE Ran1
    <3>1. ASSUME NEW s \in 0..Rows
          PROVE  /\ counts[s] \in (Jobs \cup {NoJob}) \X Nat
                 /\ <<counts[s][1], counts[s][2] + 1>> \in (Jobs \cup {NoJob}) \X Nat
      <4>1. counts[s] \in (Jobs \cup {NoJob}) \X Nat
        BY <1>t
      <4>2. counts[s][1] \in Jobs \cup {NoJob} /\ counts[s][2] \in Nat
        BY ONLY <4>1
      <4>3. counts[s][2] + 1 \in Nat
        BY ONLY <4>2
      <4> QED BY ONLY <4>1, <4>2, <4>3
    <3> HIDE DEF at_row
    <3> QED BY <2>1, <3>1, <1>t
  <2>2. CASE Broke1
    BY <2>2, <1>t
  <2> QED BY <1>b, <2>1, <2>2
<1>2. \/ at \in {"ahead", "finish", "drained"} /\ NotRun /\ p = current
      \/ at = "unwind_wait"
  <2>1. ~(AtRest \/ at = "settle" \/ (at = "commit" /\ parked = NoPass))
    BY <1>0, <1>a DEF RestFacts, SettleFacts, CommitFacts, Idle
  <2>2. ASSUME at = "drain" \/ (at = "commit" /\ parked # NoPass) PROVE FALSE
    <3>1. passes = <<parked>> /\ parked.value = raised + 1
      BY <2>2, <1>0 DEF ParkedFacts, Armed
    <3> QED BY <3>1, <1>a, <1>p, <1>t
  <2>3. ASSUME at \in {"ahead", "finish", "drained"}
        PROVE  NotRun /\ p = current
    <3>1. ~HasRun
      <4> SUFFICES ASSUME HasRun PROVE FALSE
        OBVIOUS
      <4>1. passes = Behind
        BY DEF HasRun
      <4>2. passes = <<parked>> /\ parked # NoPass
        BY <4>1, <1>a DEF Behind
      <4>3. parked.value = raised + 1
        BY <4>2, <2>3, <1>0 DEF FlightFacts, Armed
      <4> QED BY <4>2, <4>3, <1>a, <1>p, <1>t
    <3>2. NotRun
      BY <3>1, <2>3, <1>0 DEF FlightFacts
    <3>3. passes = <<current>> \o Behind
      BY <3>2 DEF NotRun
    <3>4. Head(passes) = current
      BY ONLY <3>3, InFront, BehindIs
    <3> QED BY <3>2, <3>4, <1>p
  <2> QED BY <2>1, <2>2, <2>3, <1>0 DEF AtRest, BatchTypes
<1>u. /\ rows' = rows /\ slot' = slot /\ hist' = hist /\ fed' = fed /\ gen' = gen /\ drawn' = drawn
      /\ parked' = parked /\ armed_value' = armed_value /\ raised' = raised /\ current' = current
      /\ inserted' = inserted /\ may' = may /\ at' = at
  BY <1>a DEF rowVars, stateVarsB, loopVars, stepVars
<1>3. ASSUME at \in {"ahead", "finish", "drained"}, NotRun, p = current
      PROVE  FlightFacts'
  <2>1. passes' = Behind'
    <3>1. passes = <<current>> \o Behind /\ Behind' = Behind
      BY <1>3, <1>u DEF NotRun, Behind
    <3>3. Tail(<<current>> \o Behind) = Behind
      BY ONLY InFront, BehindIs
    <3> QED BY <3>1, <3>3, <1>a
  <2>2. StepOf(current, 0)
    BY <1>3, <1>0 DEF FlightFacts
  <2>3. \A r \in 1..Len(rows) : Row(p, r) = gen[rows[r]]
    BY <1>3, <1>0, <2>2, RowFits
  <2>4. p.rows = rows /\ p.out \in {0, 1} /\ p.slots = [r \in 1..Len(rows) |-> slot[rows[r]]]
        /\ \A r \in 1..Len(rows) : p.step[r] = gen[rows[r]] + 0 /\ gen[rows[r]] \in Nat /\ rows[r] \in Range(rows)
    BY <1>3, <2>2, <1>t DEF StepOf, Range
  <2>5. HasRun'
    <3>1. CASE Broke1
      BY <3>1, <2>1 DEF HasRun
    <3>2. CASE Ran1
      <4>1. ASSUME NEW j \in Range(rows) PROVE rec'[j] = gen[j]
        <5>1. \E r \in 1..Len(rows) : rows[r] = j
          BY <1>t DEF Range
        <5>2. at_row(j) \in 1..Len(rows) /\ rows[at_row(j)] = j
          BY <5>1, <2>4
        <5>3. rec'[j] = Row(p, at_row(j))
          BY <3>2, <2>4, <1>t
        <5> HIDE DEF at_row
        <5> QED BY <5>2, <5>3, <2>3
      <4>2. ASSUME NEW j \in Range(rows) PROVE counts'[slot[j]] = <<j, drawn[j] + 1>>
        <5>1. PICK r \in 1..Len(rows) : rows[r] = j
          BY <1>t DEF Range
        <5>2. slot[j] \in Range(p.slots)
          BY <5>1, <2>4 DEF Range
        <5>3. slot[j] \in 1..Rows
          BY <1>0 DEF Roster
        <5>4. slot[j] \in 0..Rows
          BY <5>3
        <5>5. counts[slot[j]] = <<j, drawn[j]>>
          BY <1>3 DEF NotRun, Counted
        <5>6. counts'[slot[j]] = <<counts[slot[j]][1], counts[slot[j]][2] + 1>>
          <6> HIDE DEF at_row
          <6> QED BY <3>2, <5>2, <5>4
        <5> QED BY <5>5, <5>6
      <4>3. ASSUME NEW r \in 1..Len(rows)
            PROVE  draws'[current.out][r] = [token |-> <<rows[r], gen[rows[r]] + 1>>, from |-> gen[rows[r]],
                                             seen |-> <<rows[r], drawn[rows[r]]>>]
        <5>1. counts[p.slots[r]] = <<rows[r], drawn[rows[r]]>>
          <6>1. p.slots[r] = slot[rows[r]] /\ rows[r] \in Range(rows)
            BY <2>4
          <6>2. Counted(rows[r])
            BY <6>1, <1>3 DEF NotRun
          <6> QED BY <6>1, <6>2, <1>3 DEF Counted
        <5>2. p.step[r] + 1 = gen[rows[r]] + 1
          BY <2>4
        <5>3. draws'[p.out] = [i \in 1..Len(rows) |-> [token |-> <<rows[i], p.step[i] + 1>>,
                                              from |-> Row(p, i), seen |-> counts[p.slots[i]]]]
          <6> HIDE DEF at_row
          <6> QED BY <3>2, <2>4, <1>t
        <5>4. draws'[p.out][r] = [token |-> <<rows[r], p.step[r] + 1>>,
                                  from |-> Row(p, r), seen |-> counts[p.slots[r]]]
          BY <5>3
        <5> QED BY <5>1, <5>2, <5>4, <2>3, <1>3
      <4> HIDE DEF Ran1
      <4> QED BY <2>1, <4>1, <4>2, <4>3, <1>u DEF HasRun
    <3> QED BY <3>1, <3>2, <1>b
  <2> QED BY <1>3, <1>0, <1>u, <2>5 DEF FlightFacts, StepOf, Armed
<1> HIDE DEF Ran1, Broke1
<1> USE DEF jobVars, rowVars, stateVarsB, stepVars, loopVars
<1>4. Roster'
  BY <1>0, <1>a DEF Roster
<1>5. BatchTypes'
  BY <1>0, <1>a, <1>1 DEF BatchTypes
<1>6. Seats'
  BY <1>0, <1>a DEF Seats, Admitting, InStretch
<1>7. RestFacts' /\ SettleFacts' /\ CommitFacts' /\ UnwindFacts' /\ ParkedFacts' /\ FlightFacts'
  <2>1. at \in {"ahead", "finish", "drained", "unwind_wait"}
    BY <1>2
  <2>2. RestFacts' /\ SettleFacts' /\ CommitFacts' /\ UnwindFacts' /\ ParkedFacts'
    BY <2>1, <1>0, <1>u DEF RestFacts, SettleFacts, CommitFacts, UnwindFacts, AtRest, ParkedFacts
  <2>3. FlightFacts'
    <3>1. CASE at = "unwind_wait"
      BY <3>1, <1>u DEF FlightFacts
    <3> QED BY <3>1, <1>2, <1>3
  <2> QED BY <2>2, <2>3
<1> QED BY <1>4, <1>5, <1>6, <1>7 DEF BInv

LEMMA InitBatch ==
    ASSUME BatchInit, BatchAssumption
    PROVE  BInv
<1>1. /\ at = "recv" /\ rows = <<>> /\ arrived = <<>> /\ held_job = NoJob /\ inserted = {} /\ free = 1..Rows
      /\ job = [j \in Jobs |-> "new"] /\ done = [j \in Jobs |-> FALSE] /\ passes = <<>> /\ parked = NoPass
      /\ armed_value = 0 /\ budget = 0 /\ slot = [j \in Jobs |-> 0]
      /\ gen = [j \in Jobs |-> 0] /\ drawn = [j \in Jobs |-> 0] /\ fed = [j \in Jobs |-> 0]
      /\ hist = [j \in Jobs |-> 0] /\ rec = [j \in Jobs |-> 0] /\ cap = [j \in Jobs |-> Room]
      /\ counts = [s \in 0..Rows |-> <<NoJob, 0>>] /\ draws = [b \in {0, 1} |-> <<>>]
      /\ inserts = Inserts /\ spacing \in Spacings /\ steps = 0 /\ raised = 0
  BY DEF BatchInit
<1>2. /\ Rows \in Nat /\ Room \in Nat /\ Inserts \in Nat /\ Spacings \subseteq Nat
  BY DEF BatchAssumption
<1>3. Range(rows) = {} /\ Range(arrived) = {} /\ Len(rows) = 0 /\ IsInjective(rows) /\ IsInjective(arrived)
  BY <1>1 DEF Range, IsInjective
<1>4. BatchTypes
  <2>1. /\ arrived \in Seq(Jobs) /\ rows \in Seq(Jobs) /\ counts \in [0..Rows -> (Jobs \cup {NoJob}) \X Nat]
    BY <1>1
  <2>2. /\ gen \in [Jobs -> Nat] /\ drawn \in [Jobs -> Nat] /\ fed \in [Jobs -> Int] /\ hist \in [Jobs -> Int]
        /\ cap \in [Jobs -> Nat] /\ done \in [Jobs -> BOOLEAN] /\ DOMAIN rec = Jobs
        /\ slot \in [Jobs -> 0..Rows] /\ job \in [Jobs -> {"new", "queued", "held", "row", "answered"}]
    BY <1>1, <1>2
  <2> QED BY <1>1, <1>2, <2>1, <2>2 DEF BatchTypes
<1>5. Roster
  BY <1>1, <1>3 DEF Roster
<1>6. Seats
  BY <1>1, <1>2, <1>3 DEF Seats, Admitting, InStretch
<1>7. RestFacts /\ SettleFacts /\ CommitFacts /\ UnwindFacts /\ ParkedFacts /\ FlightFacts
  BY <1>1, <1>3 DEF RestFacts, SettleFacts, CommitFacts, UnwindFacts, ParkedFacts, FlightFacts, Idle
<1> QED BY <1>4, <1>5, <1>6, <1>7 DEF BInv

LEMMA BatchStep ==
    ASSUME BInv, [BatchNext]_batchVars, BatchAssumption
    PROVE  BInv'
<1>1. CASE UNCHANGED batchVars
  <2>1. /\ BatchTypes /\ Roster /\ Seats /\ RestFacts /\ SettleFacts /\ CommitFacts /\ ParkedFacts
        /\ FlightFacts /\ UnwindFacts
    BY DEF BInv
  <2> USE <1>1 DEF batchVars, jobVars, rowVars, stateVarsB, stepVars, loopVars, gpuVarsB
  <2>2. BatchTypes'
    BY <2>1 DEF BatchTypes
  <2>3. Roster' /\ Seats'
    BY <2>1 DEF Roster, Seats, Admitting, InStretch
  <2>4. RestFacts' /\ SettleFacts' /\ CommitFacts' /\ UnwindFacts'
    BY <2>1 DEF RestFacts, SettleFacts, CommitFacts, UnwindFacts, AtRest, Idle, Whole, Counted
  <2>5. ParkedFacts'
    BY ZenonT(30), <2>1 DEF ParkedFacts, StepOf, Armed, Behind, NotRun, HasRun, Counted
  <2>6. FlightFacts'
    BY ZenonT(30), <2>1 DEF FlightFacts, StepOf, Armed, Behind, NotRun, HasRun, Counted
  <2> QED BY <2>2, <2>3, <2>4, <2>5, <2>6 DEF BInv
<1>2. CASE Engine
  BY <1>2, ReceiveStep, TakeJobStep, AdmitStep, NextActionStep, FailAllStep, PrefillStep, BeginStep, SoloStep,
     CommitStep, ReleaseNextStep, AheadStep, FinishStepStep, DrainStep, FinishDrainStep, SettleStep,
     FinishRowStep, AnsweredStep, FailRowsStep, StepFailsStep DEF Engine
<1> QED BY <1>1, <1>2, RunStepStep, SoloFailsStep, OutsideStep, StepFailsStep DEF BatchNext

LEMMA BatchHolds ==
    ASSUME BInv, BatchAssumption
    PROVE  BatchSafe
<1>0. /\ BatchTypes /\ Roster /\ Seats /\ RestFacts /\ FlightFacts
  BY DEF BInv
<1>t. rows \in Seq(Jobs) /\ DOMAIN rows = 1..Len(rows) /\ IsInjective(rows)
  BY <1>0 DEF BatchTypes, Roster
<1>r. \A r \in 1..Len(rows) : rows[r] \in Range(rows)
  BY <1>t DEF Range
<1>1. at # "bail"
  BY <1>0 DEF BatchTypes
<1>2. DrawsMatch
  <2> SUFFICES ASSUME at \in {"finish", "drained"}, Ran, ~fault, NEW r \in 1..Len(rows)
               PROVE  LET j == rows[r]
                          d == draws[current.out][r]
                      IN d.token = <<j, gen[j] + 1>> /\ d.from = gen[j] /\ d.seen = <<j, drawn[j]>>
    BY DEF DrawsMatch
  <2>1. ~NotRun
    <3> SUFFICES ASSUME NotRun PROVE FALSE
      OBVIOUS
    <3>1. passes = <<current>> \o Behind
      BY DEF NotRun
    <3>2. Len(passes) = Len(Behind) + 1
      BY ONLY <3>1, InFront, BehindIs
    <3>3. Len(Behind) = (IF parked = NoPass THEN 0 ELSE 1) /\ Len(passes) = (IF parked = NoPass THEN 0 ELSE 1)
      BY BehindIs DEF Ran
    <3>4. Len(Behind) \in Nat /\ Len(passes) = Len(Behind)
      BY ONLY <3>3
    <3> QED BY ONLY <3>2, <3>4
  <2>2. HasRun
    BY <2>1, <1>0 DEF FlightFacts
  <2>3. \A i \in 1..Len(rows) :
           draws[current.out][i] = [token |-> <<rows[i], gen[rows[i]] + 1>>, from |-> gen[rows[i]],
                                    seen |-> <<rows[i], drawn[rows[i]]>>]
    BY <2>2 DEF HasRun
  <2>4. draws[current.out][r] = [token |-> <<rows[r], gen[rows[r]] + 1>>, from |-> gen[rows[r]],
                                 seen |-> <<rows[r], drawn[rows[r]]>>]
    BY <2>3
  <2> QED BY <2>4
<1>3. RestsBetween
  <2> SUFFICES ASSUME AtRest
               PROVE  /\ Idle /\ inserted = {}
                      /\ \A j \in Range(rows) :
                           /\ Whole(j) /\ (fed[j] = gen[j] - 1 \/ (done[j] /\ fed[j] = gen[j]))
                           /\ done[j] => at = "answer"
                           /\ ~done[j] => Counted(j)
    BY DEF RestsBetween, Idle, Whole, Counted
  <2>1. \A j \in Range(rows) : done[j] => at = "answer"
    BY <1>0 DEF Seats, AtRest
  <2> QED BY <2>1, <1>0 DEF RestFacts
<1>4. SlotsExact
  BY <1>0, <1>t, <1>r DEF SlotsExact, Roster, IsInjective
<1>5. \A j \in Jobs : j \in Range(rows) <=> job[j] = "row"
  BY <1>0 DEF Roster
<1>6. at \in {"recv", "faulted"} => rows = <<>> /\ held_job = NoJob /\ free = 1..Rows
  <2>1. Range(<<>>) = {}
    BY DEF Range
  <2> QED BY <2>1, <1>0 DEF Seats, Roster
<1> QED BY <1>0, <1>1, <1>2, <1>3, <1>4, <1>5, <1>6, <1>t DEF BatchSafe, Seats

(* The batch scheduler's promise, for every number of requests, of rows,   *)
(* of tokens and of failures.                                              *)
THEOREM BatchIsSafe == BatchSpec => []BatchSafe
<1>1. BatchInit => BInv
  BY InitBatch, BatchAssumption
<1>2. BInv /\ [BatchNext]_batchVars => BInv'
  BY BatchStep, BatchAssumption
<1>3. BInv => BatchSafe
  BY BatchHolds, BatchAssumption
<1> QED BY <1>1, <1>2, <1>3, PTL DEF BatchSpec

(***************************************************************************)
(* The expert cache: what every state of it keeps.                         *)
(***************************************************************************)
CacheReads    == [slice : Slices, slot : SlotIds]
CacheRequests == [seq : Nat, layer : Layers, decode : BOOLEAN, routes : Nat]
GpuPasses     == [first : Nat, decode : BOOLEAN]

(* Types.                                                                  *)
CacheTypes ==
    /\ prefetch \in Predictions
    /\ next_seq \in Nat /\ ready \in Nat /\ routed \in Nat /\ last_ready = ready
    /\ requests \in Seq(CacheRequests)
    /\ gpu_passes \in Seq(GpuPasses) /\ Len(gpu_passes) <= 2
    /\ gpu_layer \in Layers /\ gpu_stage \in {"run", "wait", "experts"} /\ chosen \subseteq Experts
    /\ serving \in {"pop", "issue", "spin", "read", "publish", "after"}
    /\ serving # "pop" => request \in CacheRequests
    /\ after_cut \in BOOLEAN /\ in_token \in BOOLEAN /\ targets \in Seq(Layers) /\ picks \subseteq Slices
    /\ slice \in [SlotIds -> Slices \cup {NoSlice}] /\ used \in [SlotIds -> Nat]
    /\ role \subseteq SlotIds /\ Cardinality(role) <= PinnedSlots
    /\ stamped \in [tick : Nat, n : Nat]

(* A request is with the service thread, and `ready` not signalled for it. *)
Current == serving \in {"spin", "read", "publish"} \/ (serving = "issue" /\ ~after_cut)

(* Every request there ever was is served, current or queued, in order.    *)
Numbered ==
    /\ Len(requests) <= next_seq
    /\ \A i \in 1..Len(requests) : requests[i].seq = next_seq - Len(requests) + i
    /\ Current => request.seq = ready + 1 /\ next_seq - Len(requests) = ready + 1
    /\ ~Current => ready = next_seq - Len(requests)
    /\ serving = "after" \/ (serving = "issue" /\ after_cut) => request.seq = ready

(* A pass's requests are those with its numbers.                           *)
OfPass(r) ==
    \A k \in 1..Len(gpu_passes), l \in Layers :
        r.seq = gpu_passes[k].first + l => r.layer = l /\ r.decode = gpu_passes[k].decode

PassesAsked ==
    /\ \A k \in 1..Len(gpu_passes) : gpu_passes[k].first + CacheLayers <= next_seq
    /\ Len(gpu_passes) = 2 => gpu_passes[1].first + CacheLayers <= gpu_passes[2].first
    /\ \A i \in 1..Len(requests) : OfPass(requests[i])
    /\ Current => OfPass(request)

(* The GPU is in front of a router, behind everything served; or waits.    *)
GpuPlace ==
    /\ gpu_passes = <<>> => gpu_stage = "run" /\ gpu_layer = 1
    /\ gpu_stage = "run" => ready = routed /\ (gpu_passes # <<>> => routed < Seq0)
    /\ gpu_stage = "wait" => routed = Seq0 /\ ready <= routed
    /\ gpu_stage = "experts" => routed = Seq0 /\ ready = routed
    /\ gpu_stage # "run" => Cardinality(chosen) <= IF Head(gpu_passes).decode THEN TopK ELSE CacheExperts
    /\ serving \in {"read", "publish"} => request.seq <= routed

(* Requests come in runs, layer after layer: a run ends with a pass, or    *)
(* where the encoding of one failed, which is never right behind a cut.    *)
Routes(r) == r.routes = IF r.decode THEN TopK ELSE CacheExperts
Ends(r) == r.layer \in AbandonAfter \cup {CacheLayers}
Follows(r, q) == ~Ends(r) => q.layer = r.layer + 1 /\ q.decode = r.decode
AtCut == prefetch \in {"cuts", "replace"} /\ request.layer \in CutLayers
Steady ==
    /\ \A i \in 1..Len(requests) : Routes(requests[i])
    /\ serving # "pop" => Routes(request)
    /\ in_token => prefetch # "none" /\ request.decode
    /\ serving = "issue" => prefetch # "none" /\ (after_cut => AtCut)
    /\ \A i \in 1..Len(requests) - 1 : Follows(requests[i], requests[i + 1])
    /\ requests # <<>> => Ends(requests[Len(requests)])
    /\ serving # "pop" => IF requests = <<>> THEN Ends(request) ELSE Follows(request, requests[1])

(* What is taken for the next resolution leaves it the slots it may need.  *)
StampedSlots == {s \in SlotIds : used[s] = ready + 1}
Taken == IF stamped.tick = ready + 1 THEN stamped.n ELSE 0
Leaves(r) == Taken + r.routes + Cardinality(role) <= CacheSlots
Stamps ==
    /\ \A s \in SlotIds : used[s] <= ready + 1
    /\ stamped.tick <= ready + 1
    /\ serving \notin {"read", "publish"} => Cardinality(StampedSlots) <= Taken
    /\ serving = "after" => Taken = 0
    /\ Taken > 0 => /\ prefetch # "none"
                    /\ IF serving = "pop" THEN requests # <<>> /\ Leaves(requests[1]) ELSE Leaves(request)

(* What is still to be picked is of a row that was read, and counted, for  *)
(* the next resolution.                                                    *)
Picking == picks # {} => serving = "issue" /\ stamped.tick = ready + 1

(* A slice has one slot.                                                   *)
Placed == \A s, t \in SlotIds : slice[s] = slice[t] /\ slice[s] # NoSlice => s = t

(* No encoding fails right behind a cut.                                   *)
CutsGoOn == Predictions \cap {"cuts", "replace"} = {} \/ CutLayers \cap AbandonAfter = {}

RoomInv == CacheTypes /\ Placed /\ Numbered /\ PassesAsked /\ GpuPlace /\ Steady /\ Stamps /\ Picking

(* No expert has a read that landed and another one under way.             *)
OnePerExpert == \A r \in landed_reads, q \in flying \cup Range(read_queue) : r.slice # q.slice

(* A queue of reads, none twice.                                           *)
QueueOf(q) == q \in Seq(CacheReads) /\ \A i, j \in 1..Len(q) : q[i] = q[j] => i = j

(* The reads not yet published have their slots, but for one whose slot a  *)
(* lookup took since it landed.                                            *)
HeldIn(sl, qd, fl, la, op, sb) ==
    /\ qd \cup fl \cup la \subseteq CacheReads /\ op \subseteq Slices /\ qd \cap fl = {}
    /\ \A r \in qd \cup fl : sl[r.slot] = r.slice /\ r.slice \in op
    /\ \A r \in fl : sb[r.slot] = Torn
    /\ \A r \in la : r.slice \in op => sl[r.slot] = r.slice /\ sb[r.slot] = r.slice
    /\ \A x \in op : \E r \in qd \cup fl \cup la : r.slice = x

(* The slots of this resolution's misses are torn, and unentered, until    *)
(* they are read.                                                          *)
MissingIn(sl, op, mi, tb, sb) ==
    /\ mi \subseteq CacheReads
    /\ \A r \in mi : sl[r.slot] = r.slice /\ r.slice \notin op /\ sb[r.slot] = Torn /\ tb[r.slice] = NoEntry

(* An entry points at a published slot that holds its slice; a slot's      *)
(* slice is entered, being read ahead, or a miss.                          *)
EntriesIn(sl, op, mi, tb, sb) ==
    /\ tb \in [Slices -> SlotIds \cup {NoEntry}] /\ sb \in [SlotIds -> Slices \cup {NoSlice, Torn}]
    /\ \A x \in Slices : tb[x] # NoEntry => sb[tb[x]] = x /\ sl[tb[x]] = x /\ x \notin op
    /\ \A s \in SlotIds : sl[s] # NoSlice => tb[sl[s]] = s \/ sl[s] \in op \/ \E r \in mi : r.slice = sl[s]

(* The pinned slots are full, and none is being read ahead.                *)
PinnedIn(sl, ro, op) ==
    Cardinality(ro) = PinnedSlots /\ \A s \in ro : sl[s] # NoSlice /\ sl[s] \notin op

(* The slots, the reads, the table and the slab agree.                     *)
ContentsIn(sl, ro, qd, fl, la, op, mi, tb, sb) ==
    /\ HeldIn(sl, qd, fl, la, op, sb) /\ MissingIn(sl, op, mi, tb, sb) /\ EntriesIn(sl, op, mi, tb, sb)
    /\ PinnedIn(sl, ro, op)

(* The queue and the reads in flight.                                      *)
Reading == QueueOf(read_queue) /\ IsFiniteSet(flying) /\ Cardinality(flying) <= ReadDepth

Contents == ContentsIn(slice, role, Range(read_queue), flying, landed_reads, outstanding, missed, table, slab)

(* What this resolution still reads and waits for.                         *)
Waits ==
    /\ serving # "read" => missed = {}
    /\ serving \in {"read", "publish"} => awaited \subseteq flying \cup landed_reads

(* A resolution under way has a slot for all its layer routed to, its own, *)
(* and reads in flight are awaited; once served they stay in the table.    *)
HasSlots ==
    \A e \in chosen :
        \E s \in SlotIds : /\ slice[s] = <<request.layer, e>> /\ used[s] = ready + 1
                           /\ slice[s] \in outstanding => \E r \in awaited \cup landed_reads : r.slice = slice[s]

HasEntries ==
    \A e \in chosen : /\ table[<<gpu_layer, e>>] # NoEntry
                      /\ used[table[<<gpu_layer, e>>]] >= ready

Resolving ==
    /\ serving \in {"read", "publish"} /\ routed = request.seq => HasSlots
    /\ gpu_stage # "run" /\ ready = routed => HasEntries

ContentInv == Reading /\ Contents /\ Waits /\ Resolving

(* How many the numbers to n are.                                          *)
LEMMA NumbersTo ==
    ASSUME NEW n \in Nat
    PROVE  IsFiniteSet(1..n) /\ Cardinality(1..n) = n
  BY FS_Interval
(* Folds.                                                                  *)

LEMMA LeastNat ==
    ASSUME NEW T, T \subseteq Nat, T # {}
    PROVE  \E x \in T : \A y \in T : x =< y
  <1> DEFINE R == {ss \in Nat \X Nat : ss[1] < ss[2]}
  <1>1. IsWellFoundedOn(R, Nat)
    BY NatLessThanWellFounded DEF OpToRel
  <1> HIDE DEF R
  <1>2. PICK x \in T : \A y \in T : ~ (<<y, x>> \in R)
    BY <1>1, WFMin
  <1>3. \A y \in T : ~ (y < x)
    BY <1>2 DEF R
  <1> QED BY <1>3

(* The greatest of a set that holds its bound.                             *)
LEMMA MaxIsBound ==
    ASSUME NEW m \in Nat, NEW u \in SUBSET (1 .. m), m \in u
    PROVE  Max(u) = m
<1>1. \A x \in u : x \in Nat /\ x =< m
  OBVIOUS
<1>2. m \in u /\ (\A y \in u : m >= y) /\ \A x \in u : (\A y \in u : x >= y) => x = m
  BY <1>1
<1> QED BY <1>2 DEF Max

(* What is kept of each beginning of a queue.                              *)
Thins(f, queue, reads) ==
    /\ f[0] = <<>> /\ f[Len(queue)] = Without(queue, reads)
    /\ \A k \in 0 .. Len(queue) - 1 :
         f[k + 1] = IF queue[k + 1] \in reads THEN f[k] ELSE Append(f[k], queue[k + 1])

(* Without goes through what is kept of each beginning.                    *)
LEMMA WithoutSteps ==
    ASSUME NEW reads, NEW queue \in Seq(CacheReads)
    PROVE  \E f : Thins(f, queue, reads)
<1> DEFINE step(q, r) == IF r \in reads THEN q ELSE Append(q, r)
           R(D, it) == it = [u \in SUBSET D |->
                               IF u = {} THEN <<>> ELSE step(it[u \ {Max(u)}], queue[Max(u)])]
           P(n, it) == R(1 .. n, it)
           N == Len(queue)
           c == CHOOSE it : R(DOMAIN queue, it)
           F == {n \in Nat : ~ \E it : P(n, it)}
<1>1. Without(queue, reads) = c[1 .. N]
  <2>1. Without(queue, reads) = c[DOMAIN queue]
    BY DEF Without, FoldLeft, MapThenFoldSet
  <2> QED BY <2>1
<1>2. ASSUME F # {} PROVE FALSE
  <2> HIDE DEF F
  <2>1. F \subseteq Nat
    BY DEF F
  <2>2. PICK m \in F : \A y \in F : m =< y
    BY <1>2, <2>1, LeastNat
  <2>3. m \in Nat /\ ~ \E it : P(m, it)
    BY <2>2 DEF F
  <2>4. CASE m = 0
    <3> DEFINE g == [u \in SUBSET (1 .. 0) |-> <<>>]
    <3>1. P(0, g)
      <4>1. SUBSET (1 .. 0) = {{}}
        OBVIOUS
      <4> QED BY <4>1
    <3> QED BY <2>3, <2>4, <3>1
  <2>5. CASE m > 0
    <3>1. m - 1 \in Nat /\ m - 1 \notin F
      BY <2>2, <2>3, <2>5
    <3>2. PICK g : P(m - 1, g)
      BY <3>1 DEF F
    <3> DEFINE h == [u \in SUBSET (1 .. m) |->
                       IF m \in u THEN step(g[u \ {m}], queue[m]) ELSE g[u]]
    <3>3. ASSUME NEW u \in SUBSET (1 .. m)
          PROVE  h[u] = IF u = {} THEN <<>> ELSE step(h[u \ {Max(u)}], queue[Max(u)])
      <4>1. CASE m \in u
        <5>1. Max(u) = m
          BY <2>3, <3>3, <4>1, MaxIsBound
        <5>2. u \ {m} \in SUBSET (1 .. m) /\ m \notin u \ {m}
          BY <3>3
        <5>3. h[u \ {m}] = g[u \ {m}] /\ h[u] = step(g[u \ {m}], queue[m])
          BY <4>1, <5>2
        <5> HIDE DEF h
        <5> QED BY <4>1, <5>1, <5>3
      <4>2. CASE m \notin u
        <5>1. u \in SUBSET (1 .. m - 1)
          BY <2>3, <3>3, <4>2
        <5>0. u \ {Max(u)} \in SUBSET (1 .. m) /\ m \notin u \ {Max(u)}
          BY <3>3, <4>2
        <5>2. h[u] = g[u] /\ h[u \ {Max(u)}] = g[u \ {Max(u)}]
          BY <4>2, <5>0, <5>1, <3>3
        <5>3. g[u] = IF u = {} THEN <<>> ELSE step(g[u \ {Max(u)}], queue[Max(u)])
          BY <3>2, <5>1
        <5> HIDE DEF h
        <5> QED BY <5>2, <5>3
      <4> QED BY <4>1, <4>2
    <3>4. h = [u \in SUBSET (1 .. m) |-> h[u]]
      OBVIOUS
    <3> HIDE DEF h
    <3>5. P(m, h)
      BY <3>3, <3>4
    <3> QED BY <2>3, <3>5
  <2> QED BY <2>3, <2>4, <2>5
<1>3. N \in Nat
  OBVIOUS
<1>4. P(N, c)
  <2>1. PICK it : P(N, it)
    BY <1>2, <1>3
  <2>2. DOMAIN queue = 1 .. N
    OBVIOUS
  <2> HIDE DEF R
  <2> QED BY <2>1, <2>2
<1> DEFINE f == [k \in 0 .. N |-> c[1 .. k]]
<1> HIDE DEF c
<1>5. f[0] = <<>> /\ f[N] = Without(queue, reads)
  <2>1. 1 .. 0 = {} /\ {} \in SUBSET (1 .. N) /\ 0 \in 0 .. N /\ N \in 0 .. N
    BY <1>3
  <2>2. c[{}] = <<>>
    BY <1>4, <2>1
  <2> QED BY <1>1, <2>1, <2>2
<1>6. ASSUME NEW k \in 0 .. N - 1 PROVE f[k + 1] = step(f[k], queue[k + 1])
  <2>1. k \in 0 .. N /\ k + 1 \in 0 .. N /\ k + 1 \in Nat /\ k \in Nat
    BY <1>3, <1>6
  <2>2. 1 .. k + 1 \in SUBSET (1 .. N) /\ k + 1 \in 1 .. k + 1 /\ (1 .. k + 1) \ {k + 1} = 1 .. k
    BY <1>3, <2>1
  <2>3. Max(1 .. k + 1) = k + 1
    BY <2>1, <2>2, MaxIsBound
  <2>4. c[1 .. k + 1] = step(c[1 .. k], queue[k + 1])
    BY <1>4, <2>2, <2>3
  <2> QED BY <2>1, <2>4
<1> QED
  <2> HIDE DEF f
  <2> QED BY <1>5, <1>6 DEF Thins

(* The lookups go through a state behind each expert.                      *)
LEMMA LookedSteps ==
    ASSUME CacheAssumption, NEW eids
    PROVE  \E f : /\ f[0] = {NoLookups(eids)} /\ f[CacheExperts] = Looked(eids)
                  /\ \A k \in 0 .. CacheExperts - 1 : f[k + 1] = LookUpIn(f[k], k + 1)
<1> DEFINE R(D, it) == it = [u \in SUBSET D |->
                               IF u = {} THEN {NoLookups(eids)} ELSE LookUpIn(it[u \ {Max(u)}], InOrder[Max(u)])]
           P(n, it) == R(1 .. n, it)
           N == CacheExperts
           c == CHOOSE it : R(DOMAIN InOrder, it)
           F == {n \in Nat : ~ \E it : P(n, it)}
<1>1. Looked(eids) = c[1 .. N]
  <2>1. Looked(eids) = c[DOMAIN InOrder]
    BY DEF Looked, FoldLeft, MapThenFoldSet
  <2>2. DOMAIN InOrder = 1 .. N
    BY DEF InOrder, Experts
  <2> QED BY <2>1, <2>2
<1>2. ASSUME F # {} PROVE FALSE
  <2> HIDE DEF F
  <2>1. F \subseteq Nat
    BY DEF F
  <2>2. PICK m \in F : \A y \in F : m =< y
    BY <1>2, <2>1, LeastNat
  <2>3. m \in Nat /\ ~ \E it : P(m, it)
    BY <2>2 DEF F
  <2>4. CASE m = 0
    <3> DEFINE g == [u \in SUBSET (1 .. 0) |-> {NoLookups(eids)}]
    <3>1. P(0, g)
      <4>1. SUBSET (1 .. 0) = {{}}
        OBVIOUS
      <4> QED BY <4>1
    <3> QED BY <2>3, <2>4, <3>1
  <2>5. CASE m > 0
    <3>1. m - 1 \in Nat /\ m - 1 \notin F
      BY <2>2, <2>3, <2>5
    <3>2. PICK g : P(m - 1, g)
      BY <3>1 DEF F
    <3> DEFINE h == [u \in SUBSET (1 .. m) |->
                       IF m \in u THEN LookUpIn(g[u \ {m}], InOrder[m]) ELSE g[u]]
    <3>3. ASSUME NEW u \in SUBSET (1 .. m)
          PROVE  h[u] = IF u = {} THEN {NoLookups(eids)} ELSE LookUpIn(h[u \ {Max(u)}], InOrder[Max(u)])
      <4>1. CASE m \in u
        <5>1. Max(u) = m
          BY <2>3, <3>3, <4>1, MaxIsBound
        <5>2. u \ {m} \in SUBSET (1 .. m) /\ m \notin u \ {m}
          BY <3>3
        <5>3. h[u \ {m}] = g[u \ {m}] /\ h[u] = LookUpIn(g[u \ {m}], InOrder[m])
          BY <4>1, <5>2
        <5> HIDE DEF h
        <5> QED BY <4>1, <5>1, <5>3
      <4>2. CASE m \notin u
        <5>1. u \in SUBSET (1 .. m - 1)
          BY <2>3, <3>3, <4>2
        <5>0. u \ {Max(u)} \in SUBSET (1 .. m) /\ m \notin u \ {Max(u)}
          BY <3>3, <4>2
        <5>2. h[u] = g[u] /\ h[u \ {Max(u)}] = g[u \ {Max(u)}]
          BY <4>2, <5>0, <5>1, <3>3
        <5>3. g[u] = IF u = {} THEN {NoLookups(eids)} ELSE LookUpIn(g[u \ {Max(u)}], InOrder[Max(u)])
          BY <3>2, <5>1
        <5> HIDE DEF h
        <5> QED BY <5>2, <5>3
      <4> QED BY <4>1, <4>2
    <3>4. h = [u \in SUBSET (1 .. m) |-> h[u]]
      OBVIOUS
    <3> HIDE DEF h
    <3>5. P(m, h)
      BY <3>3, <3>4
    <3> QED BY <2>3, <3>5
  <2> QED BY <2>3, <2>4, <2>5
<1>3. N \in Nat
  OBVIOUS
<1>4. P(N, c)
  <2>1. PICK it : P(N, it)
    BY <1>2, <1>3
  <2>2. DOMAIN InOrder = 1 .. N
    BY DEF InOrder, Experts
  <2> HIDE DEF R
  <2> QED BY <2>1, <2>2
<1> DEFINE f == [k \in 0 .. N |-> c[1 .. k]]
<1> HIDE DEF c
<1>5. f[0] = {NoLookups(eids)} /\ f[N] = Looked(eids)
  <2>1. 1 .. 0 = {} /\ {} \in SUBSET (1 .. N) /\ 0 \in 0 .. N /\ N \in 0 .. N
    BY <1>3
  <2>2. c[{}] = {NoLookups(eids)}
    BY <1>4, <2>1
  <2> QED BY <1>1, <2>1, <2>2
<1>6. ASSUME NEW k \in 0 .. N - 1 PROVE f[k + 1] = LookUpIn(f[k], k + 1)
  <2>1. k \in 0 .. N /\ k + 1 \in 0 .. N /\ k + 1 \in Nat /\ k \in Nat
    BY <1>3, <1>6
  <2>2. 1 .. k + 1 \in SUBSET (1 .. N) /\ k + 1 \in 1 .. k + 1 /\ (1 .. k + 1) \ {k + 1} = 1 .. k
    BY <1>3, <2>1
  <2>3. Max(1 .. k + 1) = k + 1
    BY <2>1, <2>2, MaxIsBound
  <2>4. c[1 .. k + 1] = LookUpIn(c[1 .. k], InOrder[k + 1])
    BY <1>4, <2>2, <2>3
  <2>5. InOrder[k + 1] = k + 1
    BY <2>1 DEF InOrder, Experts
  <2> QED BY <2>1, <2>4, <2>5
<1> QED
  <2> HIDE DEF f
  <2> QED BY <1>5, <1>6

(* The experts of a layer, and the slots, are finitely many.               *)
LEMMA FiniteCounts ==
    ASSUME CacheAssumption
    PROVE  /\ IsFiniteSet(Experts) /\ Cardinality(Experts) = CacheExperts
           /\ IsFiniteSet(SlotIds) /\ Cardinality(SlotIds) = CacheSlots
           /\ CacheExperts \in Nat /\ CacheSlots \in Nat /\ PinnedSlots \in Nat /\ TopK \in Nat
           /\ CacheLayers \in Nat /\ CacheLayers > 0 /\ ReadDepth \in Nat /\ ReadDepth > 0
           /\ TopK <= CacheExperts
<1>1. CacheExperts \in Nat /\ CacheSlots \in Nat
  BY DEF CacheAssumption
<1> QED BY <1>1, NumbersTo DEF CacheAssumption, Experts, SlotIds

(* Where a slot is free, the victim is one of those that are.              *)
LEMMA VictimIsFree ==
    ASSUME CacheAssumption, NEW sl, NEW us \in [SlotIds -> Nat], NEW ro, NEW tick, NEW busy,
           Free(sl, us, ro, tick, busy) # {}
    PROVE  Victim(sl, us, ro, tick, busy) \in Free(sl, us, ro, tick, busy)
<1> DEFINE spare == Free(sl, us, ro, tick, busy)
           R == {Rank(sl, us, s) : s \in spare}
<1>1. spare \subseteq SlotIds /\ spare # {}
  BY DEF Free
<1>2. ASSUME NEW s \in SlotIds PROVE Rank(sl, us, s) \in Nat
  <2>1. s \in Nat /\ s <= CacheSlots /\ CacheSlots \in Nat /\ us[s] \in Nat
    BY FiniteCounts DEF SlotIds
  <2>2. \A a \in Nat, b \in Nat : a * b \in Nat
    OBVIOUS
  <2>3. 2 * CacheSlots \in Nat /\ 2 * CacheSlots * us[s] \in Nat
    BY <2>1, <2>2
  <2>4. 2 * CacheSlots - s \in Nat
    BY <2>1
  <2>5. 2 * CacheSlots * us[s] + s \in Nat
    BY <2>1, <2>3
  <2> QED BY <2>1, <2>4, <2>5 DEF Rank
<1> HIDE DEF spare
<1>3. R \subseteq Nat /\ R # {}
  BY <1>1, <1>2
<1>4. PICK x \in R : \A y \in R : x =< y
  <2> HIDE DEF R
  <2> QED BY <1>3, LeastNat
<1>5. \E s \in spare : \A t \in spare : Rank(sl, us, s) <= Rank(sl, us, t)
  BY <1>4
<1> QED BY <1>5 DEF Victim, spare

(* When the thread sees the router's signal the GPU waits, for it or, if   *)
(* its pass was abandoned, for a later one; and what the buffer holds fits *)
(* beside what is taken and what is pinned.                                *)
LEMMA RoomForRouted ==
    ASSUME CacheAssumption, RoomInv, serving = "spin", routed >= request.seq, NEW eids \in RoutedIds
    PROVE  /\ gpu_passes # <<>> /\ gpu_stage = "wait" /\ ready < routed /\ routed = Seq0
           /\ request.seq = ready + 1 /\ eids \subseteq Experts
           /\ IsFiniteSet(eids) /\ Cardinality(eids) \in Nat
           /\ Taken + Cardinality(eids) + Cardinality(role) <= CacheSlots
<1>1. request.seq = ready + 1 /\ ready \in Nat /\ routed \in Nat
  BY DEF RoomInv, CacheTypes, Numbered, Current
<1>2. gpu_stage = "wait" /\ routed = Seq0 /\ gpu_passes # <<>>
  <2>1. ready < routed /\ ready # routed
    BY ONLY <1>1, routed >= request.seq
  <2>2. gpu_stage # "run" /\ gpu_stage # "experts"
    BY <2>1 DEF RoomInv, GpuPlace
  <2> QED BY <2>2 DEF RoomInv, CacheTypes, GpuPlace
<1>3. /\ eids \subseteq Experts /\ role \subseteq SlotIds /\ Cardinality(role) <= PinnedSlots
      /\ Taken \in Nat
  BY DEF RoomInv, CacheTypes, Taken, RoutedIds
<1>4. /\ IsFiniteSet(eids) /\ Cardinality(eids) \in Nat /\ Cardinality(eids) <= CacheExperts
      /\ IsFiniteSet(role) /\ Cardinality(role) \in Nat
  BY <1>3, FiniteCounts, FS_Subset, FS_CardinalityType
<1>7. CacheSlots - PinnedSlots >= CacheExperts /\ CacheSlots \in Nat /\ PinnedSlots \in Nat /\ CacheExperts \in Nat
  BY FiniteCounts DEF CacheAssumption
<1>8. Cardinality(eids) <= request.routes
  <2>1. CASE routed = request.seq
    <3>1. eids = chosen /\ Seq0 = request.seq /\ Routes(request)
      BY <1>2, <2>1 DEF RoutedIds, RoomInv, Steady
    <3>2. Len(gpu_passes) \in Nat /\ 1 \in 1..Len(gpu_passes) /\ Head(gpu_passes) = gpu_passes[1]
          /\ gpu_layer \in Layers
      BY <1>2 DEF RoomInv, CacheTypes
    <3>3. OfPass(request)
      BY DEF RoomInv, PassesAsked, Current
    <3>4. request.decode = Head(gpu_passes).decode
      BY <3>1, <3>2, <3>3 DEF OfPass, Seq0
    <3> QED BY <1>2, <3>1, <3>4 DEF RoomInv, GpuPlace, Routes
  <2>2. CASE routed # request.seq
    <3>1. request.routes \in Nat
      BY DEF RoomInv, CacheTypes, CacheRequests
    <3> QED BY <2>2, <3>1 DEF RoutedIds
  <2> QED BY <2>1, <2>2
<1>5. Taken + Cardinality(eids) + Cardinality(role) <= CacheSlots
  <2>0. CASE Taken = 0
    BY ONLY <1>3, <1>4, <2>0, <1>7
  <2>1. CASE Taken > 0
    <3>1. Taken + request.routes + Cardinality(role) <= CacheSlots
      BY <2>1 DEF RoomInv, Stamps, Leaves
    <3>2. request.routes \in Nat
      BY DEF RoomInv, CacheTypes, CacheRequests
    <3> QED BY ONLY <1>3, <1>4, <1>7, <1>8, <3>1, <3>2
  <2> QED BY <1>3, <2>0, <2>1
<1> QED BY <1>1, <1>2, <1>3, <1>4, <1>5

OnHit(st, x) ==
    [st EXCEPT !.used = [s \in SlotIds |-> IF s \in SlotOf(st.slice, x) THEN request.seq ELSE @[s]]]
OnMiss(st, x, v) ==
    [st EXCEPT !.slice[v] = x, !.used[v] = request.seq, !.evicted = @ \cup {st.slice[v]},
               !.missed = @ \cup {[slice |-> x, slot |-> v]}]

PlacedIn(sl) == \A s, t \in SlotIds : sl[s] = sl[t] /\ sl[s] # NoSlice => s = t

StampedIn(us) == {s \in SlotIds : us[s] = ready + 1}

LookStates == [ids : SUBSET Experts, slice : [SlotIds -> Slices \cup {NoSlice}], used : [SlotIds -> Nat],
               evicted : SUBSET (Slices \cup {NoSlice}), missed : SUBSET CacheReads, full : {FALSE}]

(* What the lookups of the experts up to k leave of the room.              *)
LookRoom(st, k) ==
    /\ st \in LookStates /\ st.ids \in RoutedIds
    /\ PlacedIn(st.slice)
    /\ \A s \in SlotIds : st.used[s] <= ready + 1 /\ (st.used[s] # used[s] => st.used[s] = ready + 1)
    /\ Cardinality(StampedIn(st.used)) <= Taken + Cardinality(st.ids \cap (1..k))

(* Subsets of the slots are finite.                                        *)
LEMMA SlotSets ==
    ASSUME CacheAssumption, NEW S \in SUBSET SlotIds
    PROVE  IsFiniteSet(S) /\ Cardinality(S) \in Nat /\ Cardinality(S) <= CacheSlots
  BY FiniteCounts, FS_Subset, FS_CardinalityType

(* A set of experts is finite, and no larger than a layer.                 *)
LEMMA ExpertSets ==
    ASSUME CacheAssumption, NEW S \in SUBSET Experts
    PROVE  IsFiniteSet(S) /\ Cardinality(S) \in Nat /\ Cardinality(S) <= CacheExperts
  BY FiniteCounts, FS_Subset, FS_CardinalityType

(* One more of a set counts one more.                                      *)
LEMMA OneMore ==
    ASSUME NEW S, NEW x, IsFiniteSet(S), NEW T, T \subseteq S \cup {x}
    PROVE  IsFiniteSet(T) /\ Cardinality(T) \in Nat /\ Cardinality(S) \in Nat /\ Cardinality(T) <= Cardinality(S) + 1
<1>1. IsFiniteSet(S \cup {x}) /\ Cardinality(S \cup {x}) <= Cardinality(S) + 1 /\ Cardinality(S) \in Nat
  BY FS_AddElement, FS_CardinalityType
<1>2. IsFiniteSet(T) /\ Cardinality(T) <= Cardinality(S \cup {x}) /\ Cardinality(S \cup {x}) \in Nat
  BY <1>1, FS_Subset, FS_CardinalityType
<1> QED BY <1>1, <1>2, FS_CardinalityType

(* The experts looked up so far.                                           *)
LEMMA LookedUpTo ==
    ASSUME CacheAssumption, NEW eids \in SUBSET Experts, NEW k \in Nat, k + 1 \in Experts
    PROVE  /\ Cardinality(eids \cap (1..k)) \in Nat /\ Cardinality(eids \cap (1..(k + 1))) \in Nat
           /\ Cardinality(eids) \in Nat
           /\ Cardinality(eids \cap (1..k)) <= Cardinality(eids \cap (1..(k + 1)))
           /\ k + 1 \in eids =>
                /\ Cardinality(eids \cap (1..(k + 1))) = Cardinality(eids \cap (1..k)) + 1
                /\ Cardinality(eids \cap (1..k)) < Cardinality(eids)
<1> DEFINE A == eids \cap (1..k)
           B == eids \cap (1..(k + 1))
<1>1. /\ IsFiniteSet(A) /\ Cardinality(A) \in Nat /\ IsFiniteSet(B) /\ Cardinality(B) \in Nat
      /\ IsFiniteSet(eids) /\ Cardinality(eids) \in Nat
  BY ExpertSets
<1>2. A \subseteq B /\ B \subseteq eids
  OBVIOUS
<1>3. Cardinality(A) <= Cardinality(B) /\ Cardinality(B) <= Cardinality(eids)
  <2> HIDE DEF A, B
  <2> QED BY <1>1, <1>2, FS_Subset
<1>4. ASSUME k + 1 \in eids PROVE Cardinality(B) = Cardinality(A) + 1
  <2>1. B = A \cup {k + 1} /\ k + 1 \notin A
    BY <1>4
  <2> HIDE DEF A, B
  <2> QED BY <1>1, <2>1, FS_AddElement
<1> QED
  <2> HIDE DEF A, B
  <2>1. k + 1 \in eids => Cardinality(B) = Cardinality(A) + 1 /\ Cardinality(A) < Cardinality(eids)
    BY <1>1, <1>3, <1>4
  <2>2. Cardinality(A) \in Nat /\ Cardinality(B) \in Nat /\ Cardinality(eids) \in Nat /\ Cardinality(A) <= Cardinality(B)
    BY <1>1, <1>3
  <2> QED BY <2>1, <2>2 DEF A, B

(* Before the last of the experts is looked up a slot is free for it.      *)
LEMMA SlotForMiss ==
    ASSUME CacheAssumption, RoomInv, serving = "spin", routed >= request.seq,
           NEW k \in Nat, NEW st, k + 1 \in st.ids, LookRoom(st, k)
    PROVE  Free(st.slice, st.used, role, request.seq, 0) # {}
<1> DEFINE T == StampedIn(st.used)
<1>1. /\ request.seq = ready + 1 /\ ready \in Nat /\ st.ids \subseteq Experts /\ role \subseteq SlotIds
      /\ Taken + Cardinality(st.ids) + Cardinality(role) <= CacheSlots /\ Taken \in Nat
  BY RoomForRouted DEF LookRoom, RoomInv, CacheTypes, Taken
<1>2. /\ Cardinality(T) <= Taken + Cardinality(st.ids \cap (1..k))
      /\ Cardinality(st.ids \cap (1..k)) < Cardinality(st.ids)
      /\ Cardinality(st.ids \cap (1..k)) \in Nat /\ Cardinality(st.ids) \in Nat
  BY <1>1, LookedUpTo DEF LookRoom
<1>3. /\ T \subseteq SlotIds /\ IsFiniteSet(T) /\ Cardinality(T) \in Nat
      /\ IsFiniteSet(role) /\ Cardinality(role) \in Nat
  BY <1>1, SlotSets DEF StampedIn
<1>4. Cardinality(T) + Cardinality(role) < CacheSlots /\ CacheSlots \in Nat
  <2> HIDE DEF T
  <2> QED BY <1>1, <1>2, <1>3, FiniteCounts
<1>5. /\ IsFiniteSet(T \cup role) /\ Cardinality(T \cup role) \in Nat
      /\ Cardinality(T \cup role) <= Cardinality(T) + Cardinality(role)
  <2> HIDE DEF T
  <2>1. Cardinality(T \cup role) = Cardinality(T) + Cardinality(role) - Cardinality(T \cap role)
    BY <1>3, FS_Union
  <2>2. IsFiniteSet(T \cap role) /\ Cardinality(T \cap role) \in Nat
    BY <1>3, FS_Intersection, FS_CardinalityType
  <2>3. IsFiniteSet(T \cup role) /\ Cardinality(T \cup role) \in Nat
    BY <1>3, FS_Union, FS_CardinalityType
  <2> QED BY <1>3, <2>1, <2>2, <2>3
<1>6. T \cup role # SlotIds
  <2> SUFFICES ASSUME T \cup role = SlotIds PROVE FALSE
    OBVIOUS
  <2> DEFINE U == T \cup role
  <2>1. Cardinality(U) = CacheSlots
    <3>1. U = SlotIds
      OBVIOUS
    <3> HIDE DEF U
    <3> QED BY <3>1, FiniteCounts
  <2>2. Cardinality(U) <= Cardinality(T) + Cardinality(role) /\ Cardinality(U) \in Nat
    BY <1>5
  <2> HIDE DEF U, T
  <2> QED BY <1>3, <1>4, <2>1, <2>2
<1>7. PICK s \in SlotIds : s \notin T /\ s \notin role
  BY <1>1, <1>3, <1>6
<1>8. st.used[s] # request.seq
  BY <1>1, <1>7 DEF StampedIn
<1>9. s \in Free(st.slice, st.used, role, request.seq, 0)
  BY <1>7, <1>8 DEF Free
<1> QED BY <1>9

(* What the lookups of the experts up to k have changed.                   *)
LookKept(st, k) ==
    /\ \A s \in SlotIds : st.slice[s] # slice[s] =>
         s \notin role /\ slice[s] \in st.evicted /\ \E r \in st.missed : r.slot = s
    /\ \A r \in st.missed :
         /\ st.slice[r.slot] = r.slice /\ st.slice[r.slot] # slice[r.slot] /\ st.used[r.slot] = ready + 1
         /\ r.slice \in {<<request.layer, e>> : e \in st.ids}
         /\ \A s \in SlotIds : slice[s] = r.slice => r.slice \in st.evicted
    /\ \A x \in st.evicted : \E s \in SlotIds : slice[s] = x /\ st.slice[s] # x
    /\ \A e \in st.ids \cap (1..k) :
         \E s \in SlotIds : st.slice[s] = <<request.layer, e>> /\ st.used[s] = ready + 1

(* An expert that has a slot keeps it, stamped: the room and what is kept  *)
(* go on.                                                                  *)
LEMMA HitStep ==
    ASSUME CacheAssumption, RoomInv, serving = "spin", routed >= request.seq,
           NEW k \in Nat, k + 1 \in Experts, NEW st, k + 1 \in st.ids, LookRoom(st, k), NEW w,
           SlotOf(st.slice, <<request.layer, k + 1>>) # {},
           w = OnHit(st, <<request.layer, k + 1>>)
    PROVE  LookRoom(w, k + 1) /\ (LookKept(st, k) => LookKept(w, k + 1))
<1> DEFINE x == <<request.layer, k + 1>>
<1>1. /\ request.seq = ready + 1 /\ ready \in Nat /\ st.ids \subseteq Experts /\ request.layer \in Layers
      /\ Taken \in Nat
  BY RoomForRouted DEF LookRoom, RoomInv, CacheTypes, Taken, CacheRequests
<1>2. x \in Slices /\ x # NoSlice
  BY <1>1 DEF Slices, Layers, Experts, NoSlice
<1>3. /\ st \in LookStates /\ st.missed \subseteq CacheReads /\ st.evicted \subseteq Slices \cup {NoSlice}
      /\ st.slice \in [SlotIds -> Slices \cup {NoSlice}] /\ st.used \in [SlotIds -> Nat]
      /\ PlacedIn(st.slice)
      /\ \A s \in SlotIds : st.used[s] <= ready + 1 /\ (st.used[s] # used[s] => st.used[s] = ready + 1)
      /\ Cardinality(StampedIn(st.used)) <= Taken + Cardinality(st.ids \cap (1..k))
  BY DEF LookRoom, LookStates
<1>4. PICK v \in SlotIds : st.slice[v] = x /\ SlotOf(st.slice, x) = {v}
  <2>1. PICK v \in SlotIds : st.slice[v] = x
    BY DEF SlotOf
  <2>2. \A s \in SlotIds : st.slice[s] = x => s = v
    BY <1>2, <1>3, <2>1 DEF PlacedIn
  <2> QED BY <2>1, <2>2 DEF SlotOf
<1> DEFINE us == [s \in SlotIds |-> IF s = v THEN ready + 1 ELSE st.used[s]]
<1>5. w = [st EXCEPT !.used = us]
  <2>1. [s \in SlotIds |-> IF s \in SlotOf(st.slice, x) THEN request.seq ELSE st.used[s]] = us
    BY <1>1, <1>4
  <2> HIDE DEF us
  <2> QED BY <2>1 DEF OnHit
<1>t. us \in [SlotIds -> Nat]
  BY <1>1, <1>3
<1>6. /\ w.ids = st.ids /\ w.slice = st.slice /\ w.used = us /\ w.evicted = st.evicted /\ w.missed = st.missed /\ w.full = FALSE
      /\ w \in LookStates
  <2> HIDE DEF us
  <2> QED BY <1>3, <1>5, <1>t DEF LookStates
<1>7. us \in [SlotIds -> Nat] /\ \A s \in SlotIds : us[s] = IF s = v THEN ready + 1 ELSE st.used[s]
  BY <1>1, <1>3
<1>8. Cardinality(StampedIn(us)) <= Taken + Cardinality(st.ids \cap (1..(k + 1)))
  <2>1. StampedIn(us) \subseteq StampedIn(st.used) \cup {v}
    BY <1>7 DEF StampedIn
  <2>2. IsFiniteSet(StampedIn(st.used))
    BY SlotSets DEF StampedIn
  <2> HIDE DEF us
  <2>3. /\ Cardinality(StampedIn(us)) <= Cardinality(StampedIn(st.used)) + 1
        /\ Cardinality(StampedIn(us)) \in Nat /\ Cardinality(StampedIn(st.used)) \in Nat
    BY <2>1, <2>2, OneMore
  <2>4. /\ Cardinality(st.ids \cap (1..k)) \in Nat
        /\ Cardinality(st.ids \cap (1..(k + 1))) = Cardinality(st.ids \cap (1..k)) + 1
    BY <1>1, LookedUpTo
  <2> QED BY <1>1, <1>3, <2>3, <2>4
<1> HIDE DEF us
<1>9. LookRoom(w, k + 1)
  <2>1. w.ids \in RoutedIds
    BY <1>6 DEF LookRoom
  <2>2. \A s \in SlotIds : w.used[s] <= ready + 1 /\ (w.used[s] # used[s] => w.used[s] = ready + 1)
    BY <1>1, <1>3, <1>6, <1>7
  <2> QED BY ONLY <1>3, <1>6, <1>8, <2>1, <2>2 DEF LookRoom
<1>10. ASSUME LookKept(st, k) PROVE LookKept(w, k + 1)
  <2>1. /\ st.missed \subseteq CacheReads
        /\ \A r \in st.missed : r.slot \in SlotIds
    BY <1>3 DEF CacheReads
  <2>2. \A s \in SlotIds : st.used[s] = ready + 1 => us[s] = ready + 1
    BY <1>7
  <2>3. \A e \in st.ids \cap (1..(k + 1)) :
          \E s \in SlotIds : w.slice[s] = <<request.layer, e>> /\ w.used[s] = ready + 1
    <3> TAKE e \in st.ids \cap (1..(k + 1))
    <3>1. CASE e = k + 1
      BY <1>4, <1>6, <1>7, <3>1
    <3>2. CASE e # k + 1
      <4>1. e \in st.ids \cap (1..k)
        BY <1>1, <3>2 DEF Experts
      <4>2. PICK s \in SlotIds : st.slice[s] = <<request.layer, e>> /\ st.used[s] = ready + 1
        BY <1>10, <4>1 DEF LookKept
      <4> QED BY <1>6, <2>2, <4>2
    <3> QED BY <3>1, <3>2
  <2>4. /\ \A s \in SlotIds : w.slice[s] # slice[s] =>
             s \notin role /\ slice[s] \in w.evicted /\ \E r \in w.missed : r.slot = s
        /\ \A y \in w.evicted : \E s \in SlotIds : slice[s] = y /\ w.slice[s] # y
    BY <1>6, <1>10 DEF LookKept
  <2>5. ASSUME NEW r \in w.missed
        PROVE  /\ w.slice[r.slot] = r.slice /\ w.slice[r.slot] # slice[r.slot] /\ w.used[r.slot] = ready + 1
               /\ r.slice \in {<<request.layer, e>> : e \in st.ids}
               /\ \A s \in SlotIds : slice[s] = r.slice => r.slice \in w.evicted
    BY <1>6, <1>10, <2>1, <2>2 DEF LookKept
  <2> QED BY ONLY <1>6, <2>3, <2>4, <2>5 DEF LookKept
<1> QED BY <1>9, <1>10

(* An expert without a slot takes the victim's, stamped: the room and what *)
(* is kept go on, the victim's slice among the evicted.                    *)
LEMMA MissStep ==
    ASSUME CacheAssumption, RoomInv, serving = "spin", routed >= request.seq,
           NEW k \in Nat, k + 1 \in Experts, NEW st, k + 1 \in st.ids, LookRoom(st, k), NEW w,
           SlotOf(st.slice, <<request.layer, k + 1>>) = {},
           NEW v \in Free(st.slice, st.used, role, request.seq, 0),
           w = OnMiss(st, <<request.layer, k + 1>>, v)
    PROVE  LookRoom(w, k + 1) /\ (LookKept(st, k) => LookKept(w, k + 1))
<1>1. /\ request.seq = ready + 1 /\ ready \in Nat /\ st.ids \subseteq Experts /\ request.layer \in Layers
      /\ Taken \in Nat
  BY RoomForRouted DEF LookRoom, RoomInv, CacheTypes, Taken, CacheRequests
<1>0. PICK x : x = <<request.layer, k + 1>>
  OBVIOUS
<1>2. x \in Slices /\ x # NoSlice
  BY <1>0, <1>1 DEF Slices, Layers, Experts, NoSlice
<1>3. /\ st \in LookStates /\ st.missed \subseteq CacheReads /\ st.evicted \subseteq Slices \cup {NoSlice}
      /\ st.slice \in [SlotIds -> Slices \cup {NoSlice}] /\ st.used \in [SlotIds -> Nat]
      /\ PlacedIn(st.slice)
      /\ \A s \in SlotIds : st.used[s] <= ready + 1 /\ (st.used[s] # used[s] => st.used[s] = ready + 1)
      /\ Cardinality(StampedIn(st.used)) <= Taken + Cardinality(st.ids \cap (1..k))
  BY DEF LookRoom, LookStates
<1>4. v \in SlotIds /\ v \notin role /\ st.used[v] # ready + 1 /\ \A s \in SlotIds : st.slice[s] # x
  BY <1>0, <1>1, <1>3 DEF Free, SlotOf
<1> DEFINE us == [s \in SlotIds |-> IF s = v THEN ready + 1 ELSE st.used[s]]
           sl == [s \in SlotIds |-> IF s = v THEN x ELSE st.slice[s]]
           ev == st.evicted \cup {st.slice[v]}
           ms == st.missed \cup {[slice |-> x, slot |-> v]}
<1>5. w = [st EXCEPT !.slice = sl, !.used = us, !.evicted = ev, !.missed = ms]
  <2>1. us = [st.used EXCEPT ![v] = request.seq] /\ sl = [st.slice EXCEPT ![v] = x]
    BY <1>1, <1>3
  <2> HIDE DEF us, sl
  <2> QED BY <1>0, <2>1 DEF OnMiss
<1>t. /\ us \in [SlotIds -> Nat] /\ sl \in [SlotIds -> Slices \cup {NoSlice}]
      /\ ev \subseteq Slices \cup {NoSlice} /\ ms \subseteq CacheReads
  <2>1. [slice |-> x, slot |-> v] \in CacheReads
    BY <1>2, <1>4 DEF CacheReads
  <2> QED BY <1>1, <1>2, <1>3, <1>4, <2>1
<1>6. /\ w.ids = st.ids /\ w.slice = sl /\ w.used = us /\ w.evicted = ev /\ w.missed = ms /\ w.full = FALSE
      /\ w \in LookStates
  <2> HIDE DEF sl, us, ev, ms
  <2> QED BY <1>3, <1>5, <1>t DEF LookStates
<1>7. /\ us \in [SlotIds -> Nat] /\ \A s \in SlotIds : us[s] = IF s = v THEN ready + 1 ELSE st.used[s]
      /\ sl \in [SlotIds -> Slices \cup {NoSlice}] /\ \A s \in SlotIds : sl[s] = IF s = v THEN x ELSE st.slice[s]
  BY <1>1, <1>2, <1>3
<1>8. Cardinality(StampedIn(us)) <= Taken + Cardinality(st.ids \cap (1..(k + 1)))
  <2>1. StampedIn(us) \subseteq StampedIn(st.used) \cup {v}
    BY <1>7 DEF StampedIn
  <2>2. IsFiniteSet(StampedIn(st.used))
    BY SlotSets DEF StampedIn
  <2> HIDE DEF us
  <2>3. /\ Cardinality(StampedIn(us)) <= Cardinality(StampedIn(st.used)) + 1
        /\ Cardinality(StampedIn(us)) \in Nat /\ Cardinality(StampedIn(st.used)) \in Nat
    BY <2>1, <2>2, OneMore
  <2>4. /\ Cardinality(st.ids \cap (1..k)) \in Nat
        /\ Cardinality(st.ids \cap (1..(k + 1))) = Cardinality(st.ids \cap (1..k)) + 1
    BY <1>1, LookedUpTo
  <2> QED BY <1>1, <1>3, <2>3, <2>4
<1> HIDE DEF us, sl
<1>p. PlacedIn(sl)
  BY <1>3, <1>4, <1>7 DEF PlacedIn
<1>9. LookRoom(w, k + 1)
  <2>1. w.ids \in RoutedIds
    BY <1>6 DEF LookRoom
  <2>2. \A s \in SlotIds : w.used[s] <= ready + 1 /\ (w.used[s] # used[s] => w.used[s] = ready + 1)
    BY <1>1, <1>3, <1>6, <1>7
  <2> QED BY ONLY <1>3, <1>6, <1>8, <1>p, <2>1, <2>2 DEF LookRoom
<1>10. ASSUME LookKept(st, k) PROVE LookKept(w, k + 1)
  <2>0. PICK q : q = [slice |-> x, slot |-> v]
    OBVIOUS
  <2>1. /\ st.missed \subseteq CacheReads /\ q \in CacheReads /\ q.slice = x /\ q.slot = v
        /\ ms = st.missed \cup {q}
        /\ \A r \in st.missed : r.slot \in SlotIds /\ r.slot # v
    BY <1>2, <1>3, <1>4, <1>10, <2>0 DEF LookKept, CacheReads
  <2>2. st.slice[v] = slice[v] /\ st.slice[v] # x
    BY <1>4, <1>10, <2>1 DEF LookKept
  <2>3. \A e \in st.ids \cap (1..(k + 1)) :
          \E s \in SlotIds : w.slice[s] = <<request.layer, e>> /\ w.used[s] = ready + 1
    <3> TAKE e \in st.ids \cap (1..(k + 1))
    <3>1. CASE e = k + 1
      BY <1>0, <1>4, <1>6, <1>7, <3>1
    <3>2. CASE e # k + 1
      <4>1. e \in st.ids \cap (1..k)
        BY <1>1, <3>2 DEF Experts
      <4>2. PICK s \in SlotIds : st.slice[s] = <<request.layer, e>> /\ st.used[s] = ready + 1
        BY <1>10, <4>1 DEF LookKept
      <4> QED BY <1>4, <1>6, <1>7, <4>2
    <3> QED BY <3>1, <3>2
  <2>5. ASSUME NEW s \in SlotIds, sl[s] # slice[s]
        PROVE  s \notin role /\ slice[s] \in ev /\ \E r \in ms : r.slot = s
    <3>1. CASE s = v
      BY <1>4, <2>1, <2>2, <3>1
    <3>2. CASE s # v
      BY <1>7, <1>10, <2>5, <3>2 DEF LookKept
    <3> QED BY <3>1, <3>2
  <2>6. ASSUME NEW r \in ms
        PROVE  /\ sl[r.slot] = r.slice /\ sl[r.slot] # slice[r.slot] /\ us[r.slot] = ready + 1
               /\ r.slice \in {<<request.layer, e>> : e \in st.ids}
               /\ \A s \in SlotIds : slice[s] = r.slice => r.slice \in ev
    <3>1. CASE r = q
      <4>1. sl[v] = x /\ us[v] = ready + 1
        BY <1>4, <1>7
      <4>2. ASSUME NEW s \in SlotIds, slice[s] = x PROVE x \in ev
        <5>1. st.slice[s] # slice[s]
          BY <1>4, <4>2
        <5> QED BY <1>10, <4>2, <5>1 DEF LookKept
      <4> QED BY <1>0, <2>1, <2>2, <3>1, <4>1, <4>2
    <3>2. CASE r \in st.missed
      <4>1. sl[r.slot] = st.slice[r.slot] /\ us[r.slot] = st.used[r.slot]
        BY <1>7, <2>1, <3>2
      <4>2. /\ st.slice[r.slot] = r.slice /\ st.slice[r.slot] # slice[r.slot] /\ st.used[r.slot] = ready + 1
            /\ r.slice \in {<<request.layer, e>> : e \in st.ids}
            /\ \A s \in SlotIds : slice[s] = r.slice => r.slice \in st.evicted
        BY <1>10, <3>2 DEF LookKept
      <4> QED BY <4>1, <4>2
    <3> QED BY <2>1, <3>1, <3>2
  <2>7. ASSUME NEW y \in ev PROVE \E s \in SlotIds : slice[s] = y /\ sl[s] # y
    <3>1. CASE y = st.slice[v]
      BY <1>4, <1>7, <2>2, <3>1
    <3>2. CASE y \in st.evicted /\ y # st.slice[v]
      <4>1. PICK s \in SlotIds : slice[s] = y /\ st.slice[s] # y
        BY <1>10, <3>2 DEF LookKept
      <4>2. s # v
        BY <2>2, <3>2, <4>1
      <4> QED BY <1>7, <4>1, <4>2
    <3> QED BY <3>1, <3>2
  <2> HIDE DEF ev, ms
  <2>8. \A s \in SlotIds : w.slice[s] # slice[s] =>
          s \notin role /\ slice[s] \in w.evicted /\ \E r \in w.missed : r.slot = s
    BY <1>6, <2>5
  <2>9. \A r \in w.missed :
          /\ w.slice[r.slot] = r.slice /\ w.slice[r.slot] # slice[r.slot] /\ w.used[r.slot] = ready + 1
          /\ r.slice \in {<<request.layer, e>> : e \in st.ids}
          /\ \A s \in SlotIds : slice[s] = r.slice => r.slice \in w.evicted
    BY <1>6, <2>6
  <2>10. \A y \in w.evicted : \E s \in SlotIds : slice[s] = y /\ w.slice[s] # y
    BY <1>6, <2>7
  <2> QED BY ONLY <1>6, <2>3, <2>8, <2>9, <2>10 DEF LookKept
<1> QED BY <1>9, <1>10

(* Behind every expert looked up there is one state, and no lookup fails.  *)
LEMMA LookStep ==
    ASSUME CacheAssumption, RoomInv, serving = "spin", routed >= request.seq,
           NEW k \in Nat, k + 1 \in Experts, NEW st, LookRoom(st, k), NEW w \in LookUp(st, k + 1)
    PROVE  LookRoom(w, k + 1) /\ (LookKept(st, k) => LookKept(w, k + 1))
<1>1. st.full = FALSE /\ st.used \in [SlotIds -> Nat]
  BY DEF LookRoom, LookStates
<1>2. k + 1 \in st.ids => Free(st.slice, st.used, role, request.seq, 0) # {}
  BY SlotForMiss
<1>0. PICK e : e = k + 1
  OBVIOUS
<1>x. PICK x : x = <<request.layer, e>>
  OBVIOUS
<1>3. \/ e \notin st.ids /\ w = st
      \/ e \in st.ids /\ SlotOf(st.slice, x) # {} /\ w = OnHit(st, x)
      \/ /\ e \in st.ids /\ SlotOf(st.slice, x) = {}
         /\ \E v \in Free(st.slice, st.used, role, request.seq, 0) : w = OnMiss(st, x, v)
  <2>1. w \in LookUp(st, e) /\ e \in Experts /\ (e \in st.ids => Free(st.slice, st.used, role, request.seq, 0) # {})
    BY <1>0, <1>2
  <2> DEFINE spare == Free(st.slice, st.used, role, request.seq, 0)
             v == Victim(st.slice, st.used, role, request.seq, 0)
  <2>2. e \in st.ids => v \in spare
    BY <1>1, <2>1, VictimIsFree
  <2> QED BY <1>1, <1>x, <2>1, <2>2 DEF LookUp, OnHit, OnMiss
<1>4. CASE e \notin st.ids /\ w = st
  <2>1. st.ids \cap (1..(k + 1)) = st.ids \cap (1..k)
    BY <1>0, <1>4
  <2> QED BY <1>4, <2>1 DEF LookRoom, LookKept
<1>5. CASE e \in st.ids /\ SlotOf(st.slice, x) # {} /\ w = OnHit(st, x)
  BY <1>0, <1>5, <1>x, HitStep
<1>6. CASE /\ e \in st.ids /\ SlotOf(st.slice, x) = {}
           /\ \E v \in Free(st.slice, st.used, role, request.seq, 0) : w = OnMiss(st, x, v)
  BY <1>0, <1>6, <1>x, MissStep
<1> QED BY <1>3, <1>4, <1>5, <1>6

(* Before the first lookup.                                                *)
LEMMA LookBase ==
    ASSUME CacheAssumption, RoomInv, serving = "spin", routed >= request.seq, NEW eids \in RoutedIds
    PROVE  LookRoom(NoLookups(eids), 0) /\ LookKept(NoLookups(eids), 0)
<1>0. PICK z : z = NoLookups(eids)
  OBVIOUS
<1>1. z.ids = eids /\ z.slice = slice /\ z.used = used /\ z.evicted = {} /\ z.missed = {} /\ z.full = FALSE
  BY <1>0 DEF NoLookups
<1>2. slice \in [SlotIds -> Slices \cup {NoSlice}] /\ used \in [SlotIds -> Nat]
  BY DEF RoomInv, CacheTypes
<1>3. z \in LookStates
  BY <1>0, <1>2, RoomForRouted DEF NoLookups, LookStates
<1>4. PlacedIn(slice) /\ (\A s \in SlotIds : used[s] <= ready + 1) /\ Cardinality(StampedIn(used)) <= Taken
  BY DEF RoomInv, Placed, PlacedIn, Stamps, StampedIn, StampedSlots
<1>5. eids \cap (1..0) = {} /\ Cardinality(eids \cap (1..0)) = 0
  <2>1. eids \cap (1..0) = {}
    OBVIOUS
  <2> QED BY <2>1, FS_EmptySet
<1>6. Taken \in Nat
  BY DEF RoomInv, CacheTypes, Taken
<1>7. LookRoom(z, 0)
  BY <1>1, <1>3, <1>4, <1>5, <1>6 DEF LookRoom
<1>8. LookKept(z, 0)
  BY <1>1, <1>5 DEF LookKept
<1> QED BY <1>0, <1>7, <1>8

(* Behind the last lookup, whichever ties were broken, room and contents   *)
(* are as after each expert.                                               *)
LEMMA EveryLookup ==
    ASSUME CacheAssumption, RoomInv, serving = "spin", routed >= request.seq, NEW eids \in RoutedIds,
           NEW st \in Looked(eids)
    PROVE  LookRoom(st, CacheExperts) /\ LookKept(st, CacheExperts)
<1>1. PICK f : /\ f[0] = {NoLookups(eids)} /\ f[CacheExperts] = Looked(eids)
               /\ \A k \in 0 .. CacheExperts - 1 : f[k + 1] = LookUpIn(f[k], k + 1)
  BY LookedSteps
<1> DEFINE T == {k \in 0 .. CacheExperts : \E w \in f[k] : ~ (LookRoom(w, k) /\ LookKept(w, k))}
<1>2. CacheExperts \in Nat
  BY FiniteCounts
<1>3. T = {}
  <2> SUFFICES ASSUME T # {} PROVE FALSE
    OBVIOUS
  <2>1. T \subseteq Nat
    BY <1>2
  <2>2. PICK m \in T : \A y \in T : m =< y
    <3> HIDE DEF T
    <3> QED BY <2>1, LeastNat
  <2>3. m \in 0 .. CacheExperts
    OBVIOUS
  <2>4. PICK w \in f[m] : ~ (LookRoom(w, m) /\ LookKept(w, m))
    OBVIOUS
  <2>5. CASE m = 0
    <3>1. w = NoLookups(eids)
      BY <1>1, <2>4, <2>5
    <3>2. LookRoom(NoLookups(eids), 0) /\ LookKept(NoLookups(eids), 0)
      BY LookBase
    <3> QED BY <2>4, <2>5, <3>1, <3>2
  <2>6. CASE m # 0
    <3>0. PICK k \in Nat : m = k + 1 /\ k \in 0 .. CacheExperts - 1 /\ k \in 0 .. CacheExperts
      <4>1. m - 1 \in Nat /\ m = (m - 1) + 1 /\ m - 1 \in 0 .. CacheExperts - 1 /\ m - 1 \in 0 .. CacheExperts
        BY <1>2, <2>3, <2>6
      <4> QED BY <4>1
    <3>1. k \notin T
      BY <2>1, <2>2, <3>0
    <3>2. \A z \in f[k] : LookRoom(z, k) /\ LookKept(z, k)
      BY <3>0, <3>1
    <3>3. w \in LookUpIn(f[k], k + 1)
      BY <1>1, <2>4, <3>0
    <3>4. PICK z \in f[k] : w \in LookUp(z, k + 1)
      BY <3>3 DEF LookUpIn
    <3>5. k + 1 \in Experts
      BY <1>2, <3>0 DEF Experts
    <3>6. LookRoom(w, k + 1) /\ LookKept(w, k + 1)
      BY <3>0, <3>2, <3>4, <3>5, LookStep
    <3> QED BY <2>4, <3>0, <3>6
  <2> QED BY <2>5, <2>6
<1>4. CacheExperts \in 0 .. CacheExperts
  BY <1>2
<1> QED BY <1>1, <1>3, <1>4

(* The constants as numbers, and the layers.                               *)
LEMMA Sizes ==
    ASSUME CacheAssumption
    PROVE  /\ CacheLayers \in Nat /\ CacheLayers >= 1 /\ Layers = 1..CacheLayers
           /\ TopK \in Nat /\ CacheExperts \in Nat /\ TopK <= CacheExperts
           /\ CacheSlots \in Nat /\ PinnedSlots \in Nat
           /\ CutLayers \cup AbandonAfter \subseteq 1..(CacheLayers - 1)
  BY DEF CacheAssumption, Layers

(* Layers are numbers from one on.                                         *)
LEMMA LayerNumbers ==
    ASSUME CacheAssumption
    PROVE  CacheLayers \in Nat /\ CacheLayers >= 1 /\ \A l \in Layers : l \in Nat /\ l >= 1 /\ l <= CacheLayers
  BY Sizes

Asked(n, d) == requests \o Requests(n, d)

(* Numbers of requests: none is above next_seq, and a served one is below  *)
(* every queued one.                                                       *)
LEMMA SeqBounds ==
    ASSUME CacheAssumption, RoomInv
    PROVE  /\ ready \in Nat /\ next_seq \in Nat /\ ready <= next_seq
           /\ \A i \in 1..Len(requests) : requests[i].seq \in Nat /\ requests[i].seq <= next_seq
           /\ Current => request.seq \in Nat /\ request.seq <= next_seq
<1>1. Len(requests) \in Nat /\ next_seq \in Nat /\ ready \in Nat
  BY DEF RoomInv, CacheTypes
<1>2. ready <= next_seq
  <2>1. CASE Current
    BY <1>1, <2>1 DEF RoomInv, Numbered
  <2>2. CASE ~Current
    BY <1>1, <2>2 DEF RoomInv, Numbered
  <2> QED BY <2>1, <2>2
<1>3. \A i \in 1..Len(requests) : requests[i].seq \in Nat /\ requests[i].seq <= next_seq
  <2> TAKE i \in 1..Len(requests)
  <2>1. Len(requests) <= next_seq /\ requests[i].seq = next_seq - Len(requests) + i
    BY DEF RoomInv, Numbered
  <2>2. i \in Nat /\ 1 <= i /\ i <= Len(requests)
    BY <1>1
  <2> HIDE DEF RoomInv
  <2>3. ASSUME NEW m \in Nat, NEW p \in Nat, i \in Nat, 1 <= i, i <= m, m <= p
        PROVE  p - m + i \in Nat /\ p - m + i <= p
    BY <2>3
  <2> QED BY <1>1, <2>1, <2>2, <2>3
<1>4. Current => request.seq \in Nat /\ request.seq <= next_seq
  BY <1>1 DEF RoomInv, Numbered
<1> QED BY <1>1, <1>2, <1>3, <1>4

(* The queue after n layers more were encoded.                             *)
Joined(n, d) ==
    /\ requests' \in Seq(CacheRequests) /\ Len(requests') \in Nat /\ Len(requests) \in Nat
    /\ Len(requests') = Len(requests) + n
    /\ next_seq' \in Nat /\ next_seq \in Nat /\ ready \in Nat /\ ready <= next_seq
    /\ next_seq' - Len(requests') = next_seq - Len(requests) /\ Len(requests') <= next_seq'
    /\ \A i \in 1..Len(requests) : requests'[i] = requests[i]
    /\ \A i \in 1..Len(requests') :
         /\ requests'[i].seq = next_seq' - Len(requests') + i /\ Routes(requests'[i])
         /\ \/ i \in 1..Len(requests) /\ requests'[i] = requests[i]
            \/ \E l \in 1..n : /\ i = Len(requests) + l /\ requests'[i].seq = next_seq + l
                               /\ requests'[i].layer = l /\ requests'[i].decode = d

(* The requests of a pass, or of the layers encoded before it failed, join *)
(* the queue: what every queued request is then.                           *)
LEMMA JoinedQueue ==
    ASSUME CacheAssumption, RoomInv, NEW n \in Nat, n <= CacheLayers, NEW d \in BOOLEAN,
           requests' = Asked(n, d), next_seq' = next_seq + n
    PROVE  Joined(n, d)
<1>1. /\ requests' \in Seq(CacheRequests) /\ Len(requests') = Len(requests) + n /\ Len(requests) \in Nat
      /\ \A i \in 1..Len(requests) : requests'[i] = requests[i]
      /\ \A l \in 1..n : /\ requests'[Len(requests) + l].seq = next_seq + l
                        /\ requests'[Len(requests) + l].layer = l
                        /\ requests'[Len(requests) + l].decode = d
                        /\ Routes(requests'[Len(requests) + l])
  <2> DEFINE new == Requests(n, d)
  <2>1. requests \in Seq(CacheRequests) /\ next_seq \in Nat /\ Len(requests) \in Nat
    BY DEF RoomInv, CacheTypes
  <2>2. \A l \in 1..n : /\ new[l] \in CacheRequests
                        /\ new[l].seq = next_seq + l /\ new[l].layer = l /\ new[l].decode = d /\ Routes(new[l])
    <3> TAKE l \in 1..n
    <3>0. n \in Nat /\ n <= CacheLayers /\ l \in 1..n /\ next_seq \in Nat /\ CacheLayers \in Nat
      BY <2>1, LayerNumbers
    <3>1. l \in Layers /\ l \in Nat /\ next_seq + l \in Nat
      BY ONLY <3>0 DEF Layers
    <3>2. (IF d THEN TopK ELSE CacheExperts) \in Nat
      BY Sizes
    <3> QED BY <3>1, <3>2 DEF Requests, CacheRequests, Routes
  <2>3. new \in Seq(CacheRequests) /\ Len(new) = n
    <3>1. DOMAIN new = 1..n /\ new = [l \in 1..n |-> new[l]]
      BY DEF Requests
    <3>2. new \in [1..n -> CacheRequests]
      BY <2>2, <3>1
    <3> HIDE DEF new
    <3> QED BY <3>2
  <2>4. PICK q : q = requests \o new
    OBVIOUS
  <2>5. /\ q \in Seq(CacheRequests) /\ Len(q) = Len(requests) + n
        /\ \A i \in 1..Len(q) : q[i] = IF i <= Len(requests) THEN requests[i] ELSE new[i - Len(requests)]
    <3> HIDE DEF new
    <3> QED BY <2>1, <2>3, <2>4, ConcatProperties
  <2>n. n \in Nat
    OBVIOUS
  <2>6. \A i \in 1..Len(requests) : q[i] = requests[i]
    BY ONLY <2>n, <2>1, <2>5
  <2>7. \A l \in 1..n : q[Len(requests) + l] = new[l]
    <3> TAKE l \in 1..n
    <3>0. Len(requests) \in Nat /\ Len(q) = Len(requests) + n /\ l \in 1..n
      BY <2>1, <2>5
    <3>1. Len(requests) + l \in 1..Len(q) /\ ~(Len(requests) + l <= Len(requests)) /\ Len(requests) + l - Len(requests) = l
      BY ONLY <2>n, <3>0
    <3> HIDE DEF new
    <3> QED BY ONLY <2>5, <3>1
  <2>8. requests' = q
    BY <2>4 DEF Asked
  <2> HIDE DEF new
  <2>9. \A l \in 1..n : q[Len(requests) + l] = new[l]
    BY <2>7
  <2> QED BY ONLY <2>1, <2>2, <2>5, <2>6, <2>7, <2>8
<1>2. PICK N, M, p, p2, q, q2 :
        /\ N \in Nat /\ M \in Nat /\ p \in Nat /\ p2 \in Nat
        /\ N = Len(requests) /\ p = next_seq /\ q = requests /\ q2 = requests' /\ p2 = p + n
        /\ p2 = next_seq' /\ M = Len(requests') /\ M = N + n
  <2>1. Len(requests') \in Nat /\ next_seq \in Nat /\ next_seq + n \in Nat
    <3>1. next_seq \in Nat
      BY DEF RoomInv, CacheTypes
    <3> QED BY <1>1, <3>1
  <2> QED BY <1>1, <2>1
<1>3. /\ N <= p /\ \A i \in 1..N : q[i].seq = p - N + i
      /\ \A i \in 1..N : Routes(q[i])
  BY <1>2 DEF RoomInv, Numbered, Steady
<1>4. /\ \A i \in 1..N : q2[i] = q[i]
      /\ \A l \in 1..n : q2[N + l].seq = p + l /\ q2[N + l].layer = l /\ q2[N + l].decode = d /\ Routes(q2[N + l])
  BY <1>1, <1>2
<1>5. p2 - M = p - N /\ M <= p2
  BY ONLY <1>2, <1>3, n \in Nat
<1>6. ASSUME NEW i \in 1..M
      PROVE  /\ q2[i].seq = p2 - M + i /\ Routes(q2[i])
             /\ \/ i \in 1..N /\ q2[i] = q[i]
                \/ \E l \in 1..n : /\ i = N + l /\ q2[i].seq = p + l
                                   /\ q2[i].layer = l /\ q2[i].decode = d
  <2>1. CASE i <= N
    <3>1. i \in 1..N
      BY ONLY <1>2, <1>6, <2>1
    <3> QED BY ONLY <1>3, <1>4, <1>5, <3>1
  <2>2. CASE i > N
    <3>1. PICK l \in 1..n : i = N + l
      <4>1. i - N \in 1..n /\ i = N + (i - N)
        BY ONLY <1>2, <1>6, <2>2, n \in Nat
      <4> QED BY <4>1
    <3>2. q2[i].seq = p + l /\ q2[i].layer = l /\ q2[i].decode = d /\ Routes(q2[i])
      BY ONLY <1>4, <3>1
    <3>3. p + l = p2 - M + i
      BY ONLY <1>2, <3>1, n \in Nat
    <3>4. /\ q2[i].seq = p2 - M + i /\ Routes(q2[i])
          /\ i = N + l /\ q2[i].seq = p + l /\ q2[i].layer = l /\ q2[i].decode = d
      BY ONLY <3>1, <3>2, <3>3
    <3> HIDE DEF Routes
    <3> QED BY ONLY <3>4, l \in 1..n
  <2>3. i <= N \/ i > N
    BY ONLY <1>2, <1>6
  <2> QED BY ONLY <2>1, <2>2, <2>3
<1>7. ready \in Nat /\ ready <= next_seq
  BY SeqBounds
<1>8. Len(requests') \in Nat /\ next_seq' \in Nat /\ next_seq \in Nat
  BY <1>2
<1>9. \A i \in 1..Len(requests') :
        /\ requests'[i].seq = next_seq' - Len(requests') + i /\ Routes(requests'[i])
        /\ \/ i \in 1..Len(requests) /\ requests'[i] = requests[i]
           \/ \E l \in 1..n : /\ i = Len(requests) + l /\ requests'[i].seq = next_seq + l
                              /\ requests'[i].layer = l /\ requests'[i].decode = d
  BY ONLY <1>2, <1>6
<1>10. next_seq' - Len(requests') = next_seq - Len(requests) /\ Len(requests') <= next_seq'
  BY ONLY <1>2, <1>5
<1> QED BY ONLY <1>1, <1>7, <1>8, <1>9, <1>10 DEF Joined

(* A pass ends before the next request's number.                           *)
LEMMA PassEnds ==
    ASSUME CacheAssumption, RoomInv, NEW k \in 1..Len(gpu_passes)
    PROVE  /\ gpu_passes[k].first \in Nat /\ gpu_passes[k].decode \in BOOLEAN
           /\ \A l \in Layers : l \in Nat /\ l >= 1 /\ l <= CacheLayers /\ gpu_passes[k].first + l <= next_seq
<1>1. gpu_passes \in Seq(GpuPasses) /\ next_seq \in Nat
  BY DEF RoomInv, CacheTypes
<1>2. gpu_passes[k] \in GpuPasses
  BY <1>1
<1>3. gpu_passes[k].first + CacheLayers <= next_seq
  BY DEF RoomInv, PassesAsked
<1>4. PICK f \in Nat : f = gpu_passes[k].first /\ gpu_passes[k].decode \in BOOLEAN
  BY <1>2 DEF GpuPasses
<1>5. next_seq \in Nat
  BY <1>1
<1>6. ASSUME NEW l \in Layers PROVE l \in Nat /\ l >= 1 /\ l <= CacheLayers /\ f + l <= next_seq
  <2>1. CacheLayers \in Nat /\ l \in Nat /\ l >= 1 /\ l <= CacheLayers
    BY ONLY l \in Layers, LayerNumbers, CacheAssumption
  <2> QED BY ONLY <1>3, <1>4, <1>5, <2>1
<1> QED BY ONLY <1>4, <1>6

(* The runs of requests after one more was encoded.                        *)
LEMMA JoinedSteady ==
    ASSUME CacheAssumption, RoomInv, NEW n \in Nat, n >= 1, n \in AbandonAfter \cup {CacheLayers},
           NEW d \in BOOLEAN, Joined(n, d), UNCHANGED <<prefetch, serviceVars, readVars>>
    PROVE  Steady'
<1>1. PICK N, M, q, q2 :
        N \in Nat /\ M \in Nat /\ N = Len(requests) /\ M = Len(requests') /\ q = requests /\ q2 = requests' /\ M = N + n
  BY DEF Joined
<1>2. /\ \A i \in 1..N : q2[i] = q[i]
      /\ \A i \in 1..M : Routes(q2[i]) /\ (i \in 1..N \/ \E l \in 1..n : i = N + l /\ q2[i].layer = l /\ q2[i].decode = d)
  BY <1>1 DEF Joined
<1>3. /\ \A i \in 1..N - 1 : Follows(q[i], q[i + 1])
      /\ N > 0 => Ends(q[N])
      /\ serving # "pop" => IF N = 0 THEN Ends(request) ELSE Follows(request, q[1])
  <2>1. requests \in Seq(CacheRequests) /\ (requests = <<>> <=> N = 0)
    BY <1>1 DEF RoomInv, CacheTypes
  <2> QED BY <1>1, <2>1 DEF RoomInv, Steady
<1>4. ASSUME NEW l \in 1..n PROVE q2[N + l].layer = l /\ q2[N + l].decode = d
  <2>1. N + l \in 1..M /\ N + l \notin 1..N /\ \A m \in 1..n : N + l = N + m => l = m
    BY ONLY <1>1, n \in Nat, l \in 1..n
  <2> QED BY ONLY <1>2, <2>1
<1>5. ASSUME NEW i \in 1..M - 1 PROVE Follows(q2[i], q2[i + 1])
  <2>1. CASE i < N
    <3>1. i \in 1..N - 1 /\ i \in 1..N /\ i + 1 \in 1..N
      BY ONLY <1>1, <2>1, i \in 1..M - 1
    <3> QED BY ONLY <1>2, <1>3, <3>1
  <2>2. CASE i = N
    <3>1. N > 0 /\ N \in 1..N
      BY ONLY <1>1, <2>2, i \in 1..M - 1
    <3>2. Ends(q2[i])
      BY ONLY <1>2, <1>3, <2>2, <3>1
    <3> QED BY ONLY <3>2 DEF Follows
  <2>3. CASE i > N
    <3>1. PICK l \in 1..n : l + 1 \in 1..n /\ i = N + l /\ i + 1 = N + (l + 1)
      <4>1. i - N \in 1..n /\ i - N + 1 \in 1..n /\ i = N + (i - N) /\ i + 1 = N + (i - N + 1)
        BY ONLY <1>1, <2>3, i \in 1..M - 1, n \in Nat
      <4> QED BY ONLY <4>1
    <3>2. q2[i].layer = l /\ q2[i].decode = d /\ q2[i + 1].layer = l + 1 /\ q2[i + 1].decode = d
      BY ONLY <1>4, <3>1
    <3> QED BY ONLY <3>2 DEF Follows
  <2>4. i < N \/ i = N \/ i > N
    BY ONLY <1>1, i \in 1..M - 1
  <2> QED BY ONLY <2>1, <2>2, <2>3, <2>4
<1>6. Ends(q2[M]) /\ M > 0
  <2>1. n \in 1..n /\ M > 0
    BY ONLY <1>1, n \in Nat, n >= 1
  <2>2. q2[M].layer = n
    BY ONLY <1>1, <1>4, <2>1
  <2> QED BY ONLY <2>1, <2>2, n \in AbandonAfter \cup {CacheLayers} DEF Ends
<1>7. serving # "pop" => Follows(request, q2[1])
  <2>1. CASE N = 0
    BY <1>3, <2>1 DEF Follows
  <2>2. CASE N # 0
    <3>1. 1 \in 1..N
      BY ONLY <1>1, <2>2
    <3> QED BY ONLY <1>2, <1>3, <2>2, <3>1
  <2> QED BY ONLY <2>1, <2>2
<1>8. UNCHANGED <<prefetch, serving, request, after_cut, in_token>>
  BY DEF serviceVars, planeVars, readVars, tokenVars
<1>9. /\ serving # "pop" => Routes(request)
      /\ in_token => prefetch # "none" /\ request.decode
      /\ serving = "issue" => prefetch # "none" /\ (after_cut => AtCut)
  BY DEF RoomInv, Steady
<1>10. requests' # <<>>
  BY <1>1, <1>6 DEF Joined
<1>11. \A i \in 1..Len(requests') : Routes(requests'[i])
  BY ONLY <1>1, <1>2
<1>12. \A i \in 1..Len(requests') - 1 : Follows(requests'[i], requests'[i + 1])
  BY ONLY <1>1, <1>5
<1>13. Ends(requests'[Len(requests')]) /\ (serving # "pop" => Follows(request, requests'[1]))
  BY ONLY <1>1, <1>6, <1>7
<1> HIDE DEF Joined
<1> QED BY ONLY <1>8, <1>9, <1>10, <1>11, <1>12, <1>13 DEF Steady, AtCut, Routes, Follows, Ends

(* Requests that join the queue take nothing.                              *)
LEMMA StampsJoined ==
    ASSUME RoomInv, UNCHANGED <<prefetch, serviceVars, policyVars, readVars>>,
           \A i \in 1..Len(requests) : requests'[i] = requests[i],
           requests' \in Seq(CacheRequests), Len(requests') >= Len(requests)
    PROVE  Stamps'
<1>1. UNCHANGED <<prefetch, serving, request, ready, used, role, stamped>>
  BY DEF serviceVars, planeVars, policyVars, readVars, tokenVars
<1>2. StampedSlots' = StampedSlots /\ Taken' = Taken
  BY <1>1 DEF StampedSlots, Taken
<1>3. Stamps
  BY DEF RoomInv
<1>4. requests # <<>> => requests' # <<>> /\ requests'[1] = requests[1]
  <2>1. requests \in Seq(CacheRequests)
    BY DEF RoomInv, CacheTypes
  <2> QED BY <2>1
<1> QED BY ONLY <1>1, <1>2, <1>3, <1>4 DEF Stamps, Leaves

(* Nor do they disturb a row whose picks are under way.                    *)
LEMMA PickingKept ==
    ASSUME RoomInv, UNCHANGED <<serviceVars, readVars>>
    PROVE  Picking'
  BY DEF RoomInv, Picking, serviceVars, planeVars, readVars

(* A pass given up half way leaves its requests queued.                    *)
LEMMA RoomAbandon ==
    ASSUME CacheAssumption, RoomInv, NEW n \in AbandonAfter, NEW d \in BOOLEAN, Abandon(n, d)
    PROVE  RoomInv'
<1>0. n \in Nat /\ n >= 1 /\ n <= CacheLayers
  BY Sizes
<1>u. UNCHANGED <<prefetch, gpuSideVars, serviceVars, policyVars, readVars, table, slab>>
  BY DEF Abandon
<1>a. /\ requests' \in Seq(CacheRequests) /\ Len(requests') \in Nat /\ Len(requests) \in Nat
      /\ Len(requests') = Len(requests) + n
      /\ next_seq' \in Nat /\ next_seq \in Nat /\ ready \in Nat /\ ready <= next_seq
      /\ next_seq' - Len(requests') = next_seq - Len(requests) /\ Len(requests') <= next_seq'
      /\ \A i \in 1..Len(requests) : requests'[i] = requests[i]
      /\ \A i \in 1..Len(requests') :
           /\ requests'[i].seq = next_seq' - Len(requests') + i /\ Routes(requests'[i])
           /\ \/ i \in 1..Len(requests) /\ requests'[i] = requests[i]
              \/ \E l \in 1..n : /\ i = Len(requests) + l /\ requests'[i].seq = next_seq + l
                                 /\ requests'[i].layer = l /\ requests'[i].decode = d
  <2>1. requests' = Asked(n, d) /\ next_seq' = next_seq + n
    BY DEF Abandon, Asked
  <2>2. Joined(n, d)
    BY <1>0, <2>1, JoinedQueue
  <2> QED BY ONLY <2>2 DEF Joined
<1>l. CacheLayers \in Nat
  BY LayerNumbers
<1>n. n \in Nat /\ next_seq \in Nat /\ next_seq' \in Nat /\ next_seq' = next_seq + n
  BY <1>0, <1>a DEF Abandon
<1>1. CacheTypes'
  BY <1>a, <1>u DEF RoomInv, CacheTypes, gpuSideVars, serviceVars, planeVars, policyVars, readVars, tokenVars
<1>2. Placed'
  BY <1>u DEF RoomInv, Placed, policyVars
<1>3. Numbered'
  <2>1. /\ Current' = Current /\ ready' = ready /\ request' = request /\ serving' = serving
        /\ after_cut' = after_cut
    BY <1>u DEF Current, serviceVars, planeVars
  <2>2. /\ Len(requests') <= next_seq'
        /\ \A i \in 1..Len(requests') : requests'[i].seq = next_seq' - Len(requests') + i
    BY <1>a
  <2>3. /\ Current => request.seq = ready + 1 /\ next_seq' - Len(requests') = ready + 1
        /\ ~Current => ready = next_seq' - Len(requests')
        /\ serving = "after" \/ (serving = "issue" /\ after_cut) => request.seq = ready
    BY <1>a DEF RoomInv, Numbered
  <2> QED BY ONLY <2>1, <2>2, <2>3 DEF Numbered
<1>4. PassesAsked'
  <2>1. gpu_passes' = gpu_passes /\ request' = request /\ Current' = Current
    BY <1>u DEF gpuSideVars, serviceVars, planeVars, Current
  <2>2. ASSUME NEW i \in 1..Len(requests'), NEW k \in 1..Len(gpu_passes), NEW l \in Layers,
               requests'[i].seq = gpu_passes[k].first + l
        PROVE  requests'[i].layer = l /\ requests'[i].decode = gpu_passes[k].decode
    <3>1. CASE i \in 1..Len(requests) /\ requests'[i] = requests[i]
      <4>1. OfPass(requests[i])
        BY <3>1 DEF RoomInv, PassesAsked
      <4> QED BY <2>2, <3>1, <4>1 DEF OfPass
    <3>2. ASSUME NEW j \in 1..n, requests'[i].seq = next_seq + j PROVE FALSE
      <4>1. gpu_passes[k].first + l <= next_seq /\ gpu_passes[k].first \in Nat /\ l \in Nat
        BY PassEnds
      <4>2. PICK f \in Nat : f = gpu_passes[k].first + l /\ f <= next_seq
        BY ONLY <4>1
      <4>3. next_seq + j > next_seq /\ next_seq + j = f
        BY ONLY <1>n, <2>2, <3>2, <4>2, j \in 1..n
      <4> QED BY ONLY <1>n, <4>2, <4>3
    <3> QED BY <1>a, <3>1, <3>2
  <2>3. \A i \in 1..Len(requests') : OfPass(requests[i])'
    <3> TAKE i \in 1..Len(requests')
    <3>1. \A k \in 1..Len(gpu_passes), l \in Layers :
            requests'[i].seq = gpu_passes[k].first + l =>
              requests'[i].layer = l /\ requests'[i].decode = gpu_passes[k].decode
      BY <2>2
    <3> QED BY ONLY <2>1, <3>1 DEF OfPass
  <2>4. Current' => OfPass(request)'
    BY <2>1 DEF RoomInv, PassesAsked, OfPass
  <2>5. ASSUME NEW k \in 1..Len(gpu_passes) PROVE gpu_passes[k].first + CacheLayers <= next_seq'
    <3>1. gpu_passes[k].first \in Nat /\ gpu_passes[k].first + CacheLayers <= next_seq
      BY PassEnds DEF RoomInv, PassesAsked
    <3> QED BY ONLY <1>n, <1>l, <3>1
  <2>6. Len(gpu_passes) = 2 => gpu_passes[1].first + CacheLayers <= gpu_passes[2].first
    BY DEF RoomInv, PassesAsked
  <2> QED BY ONLY <2>1, <2>3, <2>4, <2>5, <2>6 DEF PassesAsked
<1>5. GpuPlace'
  BY <1>u DEF RoomInv, GpuPlace, gpuSideVars, serviceVars, planeVars, Seq0
<1>6. Steady'
  <2>1. requests' = Asked(n, d) /\ next_seq' = next_seq + n
    BY DEF Abandon, Asked
  <2>2. Joined(n, d)
    BY <1>0, <2>1, JoinedQueue
  <2> QED BY <1>0, <1>u, <2>2, JoinedSteady
<1>7. Stamps'
  <2>1. UNCHANGED <<prefetch, serviceVars, policyVars, readVars>> /\ Len(requests') >= Len(requests)
    BY <1>0, <1>a, <1>u
  <2> QED BY <1>a, <2>1, StampsJoined
<1>8. Picking'
  BY <1>u, PickingKept
<1> QED BY <1>1, <1>2, <1>3, <1>4, <1>5, <1>6, <1>7, <1>8 DEF RoomInv

(* A stuttering step keeps the room.                                       *)
LEMMA RoomStutter == RoomInv /\ UNCHANGED cacheVars => RoomInv'
BY DEF RoomInv, CacheTypes, Placed, Numbered, PassesAsked, GpuPlace, Steady, Stamps, Picking, StampedSlots, Taken,
       Leaves,
       OfPass, AtCut, Routes, Follows, Ends, Current, Seq0, cacheVars, cacheHostVars, gpuSideVars, serviceVars,
       planeVars, policyVars, readVars, tokenVars

(* What the queue and the passes keep when the GPU or the readers move.    *)
LEMMA RoomLand ==
    ASSUME RoomInv, UNCHANGED <<cacheHostVars, requests, gpuSideVars, serviceVars, policyVars, outstanding, stamped, tokenVars>>
    PROVE  RoomInv'
BY DEF RoomInv, CacheTypes, Placed, Numbered, PassesAsked, GpuPlace, Steady, Stamps, Picking, StampedSlots, Taken,
       Leaves,
       OfPass, AtCut, Routes, Follows, Ends, Current, Seq0, cacheHostVars, gpuSideVars, serviceVars, planeVars,
       policyVars, tokenVars

(* Reading the misses takes no slot.                                       *)
LEMMA RoomReadMisses ==
    ASSUME RoomInv, ReadMisses
    PROVE  RoomInv'
<1>u. /\ serving = "read" /\ serving' = "publish"
      /\ UNCHANGED <<cacheHostVars, requests, gpuSideVars, request, last_ready, planeVars, awaited, ready,
                     policyVars, readVars>>
  BY DEF ReadMisses
<1>1. Current /\ Current'
  BY <1>u DEF Current
<1>2. StampedSlots' = StampedSlots /\ Taken' = Taken /\ Seq0' = Seq0
  BY <1>u DEF StampedSlots, Taken, Seq0, cacheHostVars, gpuSideVars, policyVars, readVars, tokenVars
<1>3. CacheTypes' /\ Placed'
  BY <1>u DEF RoomInv, CacheTypes, Placed, cacheHostVars, gpuSideVars, planeVars, policyVars, readVars, tokenVars
<1>4. Numbered' /\ PassesAsked'
  BY <1>u, <1>1 DEF RoomInv, Numbered, PassesAsked, OfPass, cacheHostVars, gpuSideVars, policyVars, readVars, tokenVars
<1>5. GpuPlace'
  BY <1>u, <1>2 DEF RoomInv, GpuPlace, cacheHostVars, gpuSideVars, policyVars, readVars, tokenVars
<1>6. Steady'
  BY <1>u, <1>2 DEF RoomInv, Steady, AtCut, Routes, Follows, Ends, cacheHostVars, gpuSideVars, policyVars, readVars,
                    tokenVars
<1>7. Stamps'
  BY <1>u, <1>2 DEF RoomInv, Stamps, Leaves, cacheHostVars, gpuSideVars, policyVars, readVars, tokenVars
<1>8. Picking'
  BY <1>u DEF RoomInv, Picking, planeVars, readVars
<1> QED BY <1>3, <1>4, <1>5, <1>6, <1>7, <1>8 DEF RoomInv

(* The planes of the prediction are all issued.                            *)
LEMMA RoomIssued ==
    ASSUME CacheAssumption, CutsGoOn, RoomInv, Issued
    PROVE  RoomInv'
<1>u. /\ serving = "issue" /\ serving' = IF after_cut THEN "pop" ELSE "spin"
      /\ UNCHANGED <<cacheHostVars, requests, gpuSideVars, request, last_ready, planeVars, missed, awaited,
                   ready, policyVars, readVars, table, slab>>
  BY DEF Issued
<1>t. after_cut \in BOOLEAN /\ requests \in Seq(CacheRequests) /\ Len(requests) \in Nat /\ request \in CacheRequests
  BY <1>u DEF RoomInv, CacheTypes
<1>1. Current' = Current /\ (after_cut => serving' = "pop") /\ (~after_cut => serving' = "spin")
  BY <1>u, <1>t DEF Current
<1>2. StampedSlots' = StampedSlots /\ Taken' = Taken /\ Seq0' = Seq0
  BY <1>u DEF StampedSlots, Taken, Seq0, cacheHostVars, gpuSideVars, policyVars, readVars, tokenVars
<1>3. CacheTypes' /\ Placed'
  BY <1>u DEF RoomInv, CacheTypes, Placed, cacheHostVars, gpuSideVars, planeVars, policyVars, readVars, tokenVars
<1>4. Numbered' /\ PassesAsked'
  BY <1>u, <1>1 DEF RoomInv, Numbered, PassesAsked, OfPass, cacheHostVars, gpuSideVars, policyVars, readVars, tokenVars
<1>5. GpuPlace'
  BY <1>u, <1>1, <1>2, <1>t DEF RoomInv, GpuPlace, cacheHostVars, gpuSideVars, policyVars, readVars, tokenVars
<1>6. Steady'
  BY <1>u, <1>1, <1>2, <1>t DEF RoomInv, Steady, AtCut, Routes, Follows, Ends, cacheHostVars, gpuSideVars,
                                policyVars, readVars, tokenVars
<1>7. Stamps'
  <2>1. ASSUME Taken > 0, after_cut PROVE requests # <<>> /\ Leaves(requests[1])
    <3>1. AtCut /\ Routes(request) /\ prefetch \in Predictions
      BY <1>u, <2>1 DEF RoomInv, CacheTypes, Steady
    <3>2. requests # <<>> /\ requests[1].decode = request.decode
      <4>1. ~Ends(request)
        BY <3>1, Sizes DEF AtCut, Ends, CutsGoOn
      <4>2. IF requests = <<>> THEN Ends(request) ELSE Follows(request, requests[1])
        BY <1>u DEF RoomInv, Steady
      <4> QED BY ONLY <4>1, <4>2 DEF Follows
    <3>3. Routes(requests[1])
      BY <1>t, <3>2 DEF RoomInv, Steady
    <3>4. requests[1].routes = request.routes
      BY ONLY <3>1, <3>2, <3>3 DEF Routes
    <3>5. Leaves(request)
      BY <1>u, <2>1 DEF RoomInv, Stamps
    <3> QED BY ONLY <3>2, <3>4, <3>5 DEF Leaves
  <2>2. /\ (\A s \in SlotIds : used[s] <= ready + 1) /\ stamped.tick <= ready + 1
        /\ Cardinality(StampedSlots) <= Taken
        /\ Taken > 0 => prefetch # "none" /\ Leaves(request)
    BY <1>u DEF RoomInv, Stamps
  <2>3. /\ used' = used /\ stamped' = stamped /\ ready' = ready /\ prefetch' = prefetch /\ requests' = requests
        /\ request' = request /\ role' = role
    BY <1>u DEF cacheHostVars, policyVars, readVars, tokenVars
  <2>4. Leaves(request)' = Leaves(request) /\ Leaves(requests[1])' = Leaves(requests[1])
    BY <1>2, <2>3 DEF Leaves
  <2> QED BY ONLY <1>1, <1>2, <1>t, <2>1, <2>2, <2>3, <2>4 DEF Stamps
<1>8. Picking'
  BY <1>u DEF Issued, Picking, planeVars
<1> QED BY <1>3, <1>4, <1>5, <1>6, <1>7, <1>8 DEF RoomInv

(* The GPU's steps.                                                        *)
GpuKeeps == UNCHANGED <<cacheHostVars, requests, serviceVars, policyVars, readVars, table, slab>>

(* The GPU's steps move neither slots nor numbers.                         *)
LEMMA RoomGpuRest ==
    ASSUME RoomInv, GpuKeeps
    PROVE  Placed' /\ Numbered' /\ Stamps' /\ Picking'
BY DEF RoomInv, GpuKeeps, Placed, Numbered, Stamps, Picking, StampedSlots, Taken, Leaves, Current, cacheHostVars,
       serviceVars, planeVars,
       policyVars, readVars, tokenVars

(* The GPU goes on behind its layer's ready value.                         *)
LEMMA RoomGoOn ==
    ASSUME CacheAssumption, RoomInv, GoOn, GpuKeeps
    PROVE  RoomInv'
<1>1. Placed' /\ Numbered' /\ Stamps' /\ Picking'
  BY RoomGpuRest
<1>u. /\ gpu_passes # <<>> /\ gpu_stage = "wait" /\ ready >= Seq0 /\ gpu_stage' = "experts"
      /\ UNCHANGED <<gpu_passes, gpu_layer, chosen, routed>>
  BY DEF GoOn
<1>2. CacheTypes' /\ PassesAsked' /\ Steady'
  <2>1. CacheTypes'
    BY <1>u DEF RoomInv, CacheTypes, GpuKeeps, cacheHostVars, serviceVars, planeVars, policyVars, readVars, tokenVars
  <2>2. PassesAsked'
    BY <1>u DEF RoomInv, PassesAsked, OfPass, Current, GpuKeeps, cacheHostVars, serviceVars, planeVars, policyVars,
                readVars, tokenVars
  <2>3. Steady'
    BY <1>u DEF RoomInv, Steady, Seq0, AtCut, Routes, Follows, Ends, GpuKeeps, cacheHostVars, serviceVars, planeVars,
                policyVars, readVars, tokenVars
  <2> QED BY <2>1, <2>2, <2>3
<1>3. GpuPlace'
  <2>1. ready \in Nat /\ routed \in Nat /\ routed = Seq0 /\ ready <= routed
    BY <1>u DEF RoomInv, CacheTypes, GpuPlace
  <2>2. ready = routed
    BY ONLY <1>u, <2>1
  <2>3. Seq0' = Seq0 /\ ready' = ready /\ serving' = serving /\ request' = request
    BY <1>u DEF Seq0, GpuKeeps, serviceVars, planeVars
  <2>4. /\ Cardinality(chosen) <= IF Head(gpu_passes).decode THEN TopK ELSE CacheExperts
        /\ serving \in {"read", "publish"} => request.seq <= routed
    BY <1>u DEF RoomInv, GpuPlace
  <2> QED BY ONLY <1>u, <2>1, <2>2, <2>3, <2>4 DEF GpuPlace
<1> QED BY <1>1, <1>2, <1>3 DEF RoomInv

(* The GPU has routed: it waits for the layer the next request is of.      *)
LEMMA RoomRoute ==
    ASSUME CacheAssumption, RoomInv, Route, GpuKeeps
    PROVE  RoomInv'
<1>1. Placed' /\ Numbered' /\ Stamps' /\ Picking'
  BY RoomGpuRest
<1>u. /\ gpu_passes # <<>> /\ gpu_stage = "run" /\ gpu_stage' = "wait"
      /\ chosen' \in IF Head(gpu_passes).decode THEN {x \in SUBSET Experts : Cardinality(x) = TopK} ELSE {Experts}
      /\ routed' = Seq0 /\ UNCHANGED <<gpu_passes, gpu_layer>>
  BY DEF Route
<1>p. gpu_passes \in Seq(GpuPasses) /\ Head(gpu_passes) \in GpuPasses
  BY <1>u DEF RoomInv, CacheTypes
<1>q. gpu_layer \in Layers /\ Head(gpu_passes).first \in Nat /\ Head(gpu_passes).decode \in BOOLEAN
  BY <1>p DEF RoomInv, CacheTypes, GpuPasses
<1>s. Seq0 \in Nat
  <2>1. gpu_layer \in Nat
    BY ONLY <1>q, LayerNumbers, CacheAssumption
  <2> QED BY ONLY <1>q, <2>1 DEF Seq0
<1>c. /\ chosen' \subseteq Experts
      /\ Cardinality(chosen') <= IF Head(gpu_passes).decode THEN TopK ELSE CacheExperts
  <2>1. CASE Head(gpu_passes).decode
    BY <1>u, <2>1, Sizes
  <2>2. CASE ~Head(gpu_passes).decode
    BY <1>u, <2>2, FiniteCounts
  <2> QED BY <2>1, <2>2
<1>2. CacheTypes'
  BY <1>u, <1>c, <1>s DEF RoomInv, CacheTypes, GpuKeeps, cacheHostVars, serviceVars, planeVars, policyVars, readVars,
                          tokenVars
<1>4. PassesAsked' /\ Steady'
  BY <1>u DEF RoomInv, PassesAsked, Steady, OfPass, Current, Seq0, AtCut, Routes, Follows, Ends, GpuKeeps, cacheHostVars,
              serviceVars, planeVars, policyVars, readVars, tokenVars
<1>3. GpuPlace'
  <2>1. ready \in Nat /\ routed \in Nat /\ ready = routed /\ routed < Seq0
    BY <1>u DEF RoomInv, CacheTypes, GpuPlace
  <2>2. serving \in {"read", "publish"} => request.seq <= routed /\ request.seq = ready + 1
    BY DEF RoomInv, GpuPlace, Numbered, Current
  <2>3. Seq0' = Seq0 /\ ready' = ready /\ serving' = serving /\ request' = request
    BY <1>u DEF Seq0, GpuKeeps, serviceVars, planeVars
  <2>4. serving \in {"read", "publish"} => request.seq <= Seq0
    BY ONLY <1>s, <2>1, <2>2
  <2>5. ready <= Seq0
    BY ONLY <1>s, <2>1
  <2> QED BY ONLY <1>u, <1>c, <2>3, <2>4, <2>5 DEF GpuPlace
<1> QED BY <1>1, <1>2, <1>3, <1>4 DEF RoomInv

(* The GPU goes on to the next layer, or to the next pass.                 *)
LEMMA RoomNextLayer ==
    ASSUME CacheAssumption, RoomInv, NextLayer, GpuKeeps
    PROVE  RoomInv'
<1>1. Placed' /\ Numbered' /\ Stamps' /\ Picking'
  BY RoomGpuRest
<1>u. /\ gpu_passes # <<>> /\ gpu_stage = "experts" /\ gpu_stage' = "run" /\ chosen' = {} /\ UNCHANGED routed
      /\ IF gpu_layer < CacheLayers THEN gpu_layer' = gpu_layer + 1 /\ UNCHANGED gpu_passes
         ELSE gpu_layer' = 1 /\ gpu_passes' = Tail(gpu_passes)
  BY DEF NextLayer
<1>k. /\ ready' = ready /\ serving' = serving /\ request' = request /\ prefetch' = prefetch /\ next_seq' = next_seq
      /\ requests' = requests /\ in_token' = in_token /\ after_cut' = after_cut
  BY DEF GpuKeeps, cacheHostVars, serviceVars, planeVars, readVars, tokenVars
<1>p. /\ gpu_passes \in Seq(GpuPasses) /\ Len(gpu_passes) \in {1, 2} /\ Head(gpu_passes) = gpu_passes[1]
      /\ ready \in Nat /\ routed \in Nat /\ gpu_layer \in Layers
      /\ next_seq \in Nat
  <2>1. gpu_passes \in Seq(GpuPasses) /\ Len(gpu_passes) <= 2
    BY DEF RoomInv, CacheTypes
  <2>2. Len(gpu_passes) \in Nat /\ Len(gpu_passes) # 0 /\ Head(gpu_passes) = gpu_passes[1]
    BY <1>u, <2>1
  <2>4. Len(gpu_passes) <= 2
    BY <2>1
  <2>3. Len(gpu_passes) \in {1, 2}
    <3>1. PICK n \in Nat : n = Len(gpu_passes) /\ n # 0 /\ n <= 2
      BY ONLY <2>2, <2>4
    <3>2. n = 1 \/ n = 2
      BY ONLY <3>1
    <3> QED BY ONLY <3>1, <3>2
  <2> QED BY <2>1, <2>2, <2>3 DEF RoomInv, CacheTypes
<1>q. gpu_layer \in Nat /\ gpu_layer >= 1 /\ gpu_layer <= CacheLayers /\ CacheLayers \in Nat /\ CacheLayers >= 1
  BY ONLY <1>p, LayerNumbers, CacheAssumption
<1>f. PICK f \in Nat : f = gpu_passes[1].first /\ f + CacheLayers <= next_seq
  <2>1. 1 \in 1..Len(gpu_passes)
    BY ONLY <1>p
  <2> QED BY <2>1, PassEnds DEF RoomInv, PassesAsked
<1>r. routed = f + gpu_layer /\ ready = routed /\ Seq0 = f + gpu_layer
  BY <1>f, <1>p, <1>u DEF RoomInv, GpuPlace, Seq0
<1>a. CASE gpu_layer < CacheLayers
  <2>1. gpu_layer' = gpu_layer + 1 /\ gpu_passes' = gpu_passes
    BY <1>a, <1>u
  <2>2. Seq0' = Seq0 + 1
    <3>1. Seq0' = f + gpu_layer'
      BY <1>f, <1>p, <2>1 DEF Seq0
    <3> QED BY ONLY <1>q, <1>r, <2>1, <3>1
  <2>t. gpu_layer' \in Layers
    BY ONLY <1>a, <1>q, <2>1 DEF Layers
  <2>3. CacheTypes'
    BY <1>u, <2>1, <2>t DEF RoomInv, CacheTypes, GpuKeeps, cacheHostVars, serviceVars, planeVars, policyVars,
                            readVars, tokenVars
  <2>4. PassesAsked'
    <3>1. PassesAsked
      BY DEF RoomInv
    <3> QED BY ONLY <1>k, <2>1, <3>1 DEF PassesAsked, OfPass, Current
  <2>5. GpuPlace'
    <3>1. routed < Seq0'
      BY ONLY <1>q, <1>r, <2>2, <1>p
    <3>2. serving \in {"read", "publish"} => request.seq <= routed
      BY DEF RoomInv, GpuPlace
    <3> QED BY ONLY <1>k, <1>r, <1>u, <2>1, <3>1, <3>2 DEF GpuPlace
  <2>6. Steady'
    BY <1>k DEF RoomInv, Steady, AtCut, Routes, Follows, Ends
  <2> QED BY <1>1, <2>3, <2>4, <2>5, <2>6 DEF RoomInv
<1>b. CASE ~(gpu_layer < CacheLayers)
  <2>1. gpu_layer' = 1 /\ gpu_passes' = Tail(gpu_passes) /\ gpu_layer = CacheLayers
    BY <1>b, <1>u, <1>q
  <2>2. /\ gpu_passes' \in Seq(GpuPasses) /\ Len(gpu_passes') = Len(gpu_passes) - 1
        /\ \A k \in 1..Len(gpu_passes') : gpu_passes'[k] = gpu_passes[k + 1]
    BY <1>p, <1>u, <2>1
  <2>3. \/ Len(gpu_passes') = 0 /\ gpu_passes' = <<>> /\ Len(gpu_passes) = 1
        \/ /\ Len(gpu_passes') = 1 /\ gpu_passes' # <<>> /\ Len(gpu_passes) = 2
           /\ gpu_passes'[1] = gpu_passes[2] /\ Head(gpu_passes') = gpu_passes'[1]
    BY SMTT(30), <1>p, <2>2
  <2>f. Len(gpu_passes) = 2 =>
          /\ gpu_passes[2].first \in Nat /\ gpu_passes[2].first + CacheLayers <= next_seq
          /\ f + CacheLayers <= gpu_passes[2].first
    <3> SUFFICES ASSUME Len(gpu_passes) = 2 PROVE
          /\ gpu_passes[2].first \in Nat /\ gpu_passes[2].first + CacheLayers <= next_seq
          /\ f + CacheLayers <= gpu_passes[2].first
      OBVIOUS
    <3>1. 2 \in 1..Len(gpu_passes)
      OBVIOUS
    <3> QED BY <1>f, <3>1, PassEnds DEF RoomInv, PassesAsked
  <2>t. gpu_layer' \in Layers /\ Len(gpu_passes') <= 2
    <3>1. gpu_layer' \in Layers
      BY ONLY <1>q, <2>1 DEF Layers
    <3>2. Len(gpu_passes') <= 2
      BY ONLY <2>3
    <3> QED BY <3>1, <3>2
  <2>4. CacheTypes'
    BY <1>u, <2>2, <2>t DEF RoomInv, CacheTypes, GpuKeeps, cacheHostVars, serviceVars, planeVars, policyVars,
                            readVars, tokenVars
  <2>5. PassesAsked'
    <3>1. \A k \in 1..Len(gpu_passes') : gpu_passes'[k].first + CacheLayers <= next_seq
      BY ONLY <2>3, <2>f
    <3>2. ASSUME NEW r, OfPass(r) PROVE \A k \in 1..Len(gpu_passes'), l \in Layers :
            r.seq = gpu_passes'[k].first + l => r.layer = l /\ r.decode = gpu_passes'[k].decode
      <4>1. CASE Len(gpu_passes') = 0
        BY <4>1
      <4>2. CASE Len(gpu_passes') = 1 /\ gpu_passes'[1] = gpu_passes[2] /\ Len(gpu_passes) = 2
        BY <3>2, <4>2 DEF OfPass
      <4> QED BY <2>3, <4>1, <4>2
    <3>3. \A i \in 1..Len(requests) : OfPass(requests[i])'
      <4> TAKE i \in 1..Len(requests)
      <4>1. OfPass(requests[i])
        BY DEF RoomInv, PassesAsked
      <4>2. \A k \in 1..Len(gpu_passes'), l \in Layers :
            requests[i].seq = gpu_passes'[k].first + l => requests[i].layer = l /\ requests[i].decode = gpu_passes'[k].decode
        BY <3>2, <4>1
      <4> QED BY ONLY <1>k, <4>2 DEF OfPass
    <3>4. Current' => OfPass(request)'
      <4> SUFFICES ASSUME Current' PROVE OfPass(request)'
        OBVIOUS
      <4>1. OfPass(request)
        BY <1>k DEF RoomInv, PassesAsked, Current
      <4>2. \A k \in 1..Len(gpu_passes'), l \in Layers :
            request.seq = gpu_passes'[k].first + l => request.layer = l /\ request.decode = gpu_passes'[k].decode
        BY <3>2, <4>1
      <4> QED BY ONLY <1>k, <4>2 DEF OfPass
    <3>5. Len(gpu_passes') # 2
      BY ONLY <2>3
    <3> QED BY ONLY <1>k, <3>1, <3>3, <3>4, <3>5 DEF PassesAsked
  <2>s. gpu_passes' # <<>> => Seq0' = gpu_passes[2].first + 1 /\ Len(gpu_passes) = 2 /\ gpu_passes[2].first \in Nat
    BY <2>1, <2>3, <2>f DEF Seq0
  <2>6. GpuPlace'
    <3>1. gpu_passes' # <<>> => routed < Seq0'
      BY ONLY <1>f, <1>q, <1>r, <2>1, <2>f, <2>s
    <3>2. serving \in {"read", "publish"} => request.seq <= routed
      BY DEF RoomInv, GpuPlace
    <3> QED BY ONLY <1>k, <1>r, <1>u, <2>1, <3>1, <3>2 DEF GpuPlace
  <2>7. Steady'
    BY <1>k DEF RoomInv, Steady, AtCut, Routes, Follows, Ends
  <2> QED BY <1>1, <2>4, <2>5, <2>6, <2>7 DEF RoomInv
<1> QED BY <1>a, <1>b

(* A pass is encoded whole: its requests join the queue, numbered on.      *)
LEMMA RoomEncode ==
    ASSUME CacheAssumption, RoomInv, NEW d, d = TRUE \/ d = FALSE, Encode(d)
    PROVE  RoomInv'
<1>u. /\ UNCHANGED <<prefetch, gpu_layer, gpu_stage, chosen, routed, serviceVars, policyVars, readVars, table, slab>>
      /\ Len(gpu_passes) < 2 /\ next_seq' = next_seq + CacheLayers
      /\ gpu_passes' = Append(gpu_passes, [first |-> next_seq, decode |-> d])
  BY DEF Encode
<1>k. /\ ready' = ready /\ serving' = serving /\ request' = request /\ prefetch' = prefetch /\ gpu_layer' = gpu_layer
      /\ gpu_stage' = gpu_stage /\ chosen' = chosen /\ routed' = routed
      /\ in_token' = in_token /\ after_cut' = after_cut /\ Current' = Current
  BY <1>u DEF serviceVars, planeVars, readVars, tokenVars, Current
<1>l. CacheLayers \in Nat /\ CacheLayers >= 1
  BY LayerNumbers
<1>d. d \in BOOLEAN
  OBVIOUS
<1>a. /\ requests' \in Seq(CacheRequests) /\ Len(requests') \in Nat /\ Len(requests) \in Nat
      /\ Len(requests') = Len(requests) + CacheLayers
      /\ next_seq' \in Nat /\ next_seq \in Nat /\ ready \in Nat /\ ready <= next_seq
      /\ next_seq' - Len(requests') = next_seq - Len(requests) /\ Len(requests') <= next_seq'
      /\ \A i \in 1..Len(requests) : requests'[i] = requests[i]
      /\ \A i \in 1..Len(requests') :
           /\ requests'[i].seq = next_seq' - Len(requests') + i /\ Routes(requests'[i])
           /\ \/ i \in 1..Len(requests) /\ requests'[i] = requests[i]
              \/ \E l \in 1..CacheLayers : /\ i = Len(requests) + l /\ requests'[i].seq = next_seq + l
                                 /\ requests'[i].layer = l /\ requests'[i].decode = d
  <2>0. CacheLayers \in Nat /\ CacheLayers <= CacheLayers
    BY <1>l
  <2>1. requests' = Asked(CacheLayers, d) /\ next_seq' = next_seq + CacheLayers
    BY DEF Encode, Asked
  <2>2. Joined(CacheLayers, d)
    BY <1>d, <2>0, <2>1, JoinedQueue, Zenon
  <2> QED BY ONLY <2>2 DEF Joined
<1>n. next_seq' = next_seq + CacheLayers /\ next_seq \in Nat /\ next_seq' \in Nat /\ ready \in Nat /\ ready <= next_seq
  BY ONLY <1>a, <1>u
<1>p. /\ gpu_passes \in Seq(GpuPasses) /\ Len(gpu_passes) \in Nat
      /\ gpu_passes' \in Seq(GpuPasses) /\ Len(gpu_passes') = Len(gpu_passes) + 1
      /\ \A k \in 1..Len(gpu_passes) : gpu_passes'[k] = gpu_passes[k]
      /\ gpu_passes'[Len(gpu_passes) + 1].first = next_seq /\ gpu_passes'[Len(gpu_passes) + 1].decode = d
  <2>0. PICK x : x = [first |-> next_seq, decode |-> d]
    OBVIOUS
  <2>1. x \in GpuPasses /\ x.first = next_seq /\ x.decode = d
    BY <1>d, <1>n, <2>0 DEF GpuPasses
  <2>2. gpu_passes \in Seq(GpuPasses) /\ gpu_passes' = Append(gpu_passes, x)
    BY <1>u, <2>0 DEF RoomInv, CacheTypes
  <2> QED BY ONLY <2>1, <2>2
<1>c. \/ Len(gpu_passes) = 0 /\ gpu_passes = <<>> /\ Len(gpu_passes') = 1
      \/ Len(gpu_passes) = 1 /\ gpu_passes # <<>> /\ Len(gpu_passes') = 2
  <2>1. Len(gpu_passes) < 2 /\ Len(gpu_passes) \in Nat /\ Len(gpu_passes') = Len(gpu_passes) + 1
    BY <1>u, <1>p
  <2>2. Len(gpu_passes) = 0 \/ Len(gpu_passes) = 1
    <3>1. PICK n \in Nat : n = Len(gpu_passes) /\ n < 2
      BY ONLY <2>1
    <3>2. n = 0 \/ n = 1
      BY ONLY <3>1
    <3> QED BY ONLY <3>1, <3>2
  <2>3. Len(gpu_passes) = 0 => gpu_passes = <<>>
    BY <1>p
  <2>4. Len(gpu_passes) = 1 => gpu_passes # <<>>
    <3>1. gpu_passes = <<>> => Len(gpu_passes) = 0
      OBVIOUS
    <3> QED BY ONLY <3>1
  <2> QED BY ONLY <2>1, <2>2, <2>3, <2>4
<1>e. ASSUME NEW k \in 1..Len(gpu_passes') PROVE k \in 1..Len(gpu_passes) \/ k = Len(gpu_passes) + 1
  <2>1. PICK n \in Nat : n = Len(gpu_passes) /\ Len(gpu_passes') = n + 1
    BY ONLY <1>p
  <2>2. k \in 1..(n + 1)
    BY ONLY <1>e, <2>1
  <2>3. k \in 1..n \/ k = n + 1
    BY ONLY <2>2, n \in Nat
  <2> QED BY ONLY <2>1, <2>3
<1>0. ASSUME gpu_passes = <<>>
      PROVE  /\ gpu_passes' # <<>> /\ Len(gpu_passes') = 1 /\ gpu_passes'[1].first = next_seq /\ gpu_passes'[1].decode = d
             /\ Seq0' = next_seq + 1 /\ gpu_stage = "run" /\ gpu_layer = 1
  <2>1. Len(gpu_passes) = 0
    BY <1>0
  <2>2. Len(gpu_passes') = 1 /\ gpu_passes'[1].first = next_seq /\ gpu_passes'[1].decode = d
    BY ONLY <1>p, <2>1
  <2>3. gpu_passes' # <<>> /\ Head(gpu_passes') = gpu_passes'[1]
    BY ONLY <1>p, <2>2
  <2>4. gpu_stage = "run" /\ gpu_layer = 1
    BY <1>0 DEF RoomInv, GpuPlace
  <2> QED BY <1>k, <2>2, <2>3, <2>4 DEF Seq0
<1>1. ASSUME gpu_passes # <<>>
      PROVE  /\ Len(gpu_passes') = 2 /\ Len(gpu_passes) = 1 /\ gpu_passes' # <<>>
             /\ gpu_passes'[1] = gpu_passes[1] /\ gpu_passes'[2].first = next_seq /\ gpu_passes'[2].decode = d
             /\ Head(gpu_passes') = Head(gpu_passes) /\ Seq0' = Seq0
             /\ gpu_passes[1].first \in Nat /\ gpu_passes[1].first + CacheLayers <= next_seq
  <2>1. Len(gpu_passes') = 2 /\ Len(gpu_passes) = 1
    BY <1>1, <1>c
  <2>2. gpu_passes'[1] = gpu_passes[1] /\ gpu_passes'[2].first = next_seq /\ gpu_passes'[2].decode = d
    BY ONLY <1>p, <2>1
  <2>3. gpu_passes' # <<>> /\ Head(gpu_passes') = gpu_passes'[1] /\ Head(gpu_passes) = gpu_passes[1]
    BY <1>1, <1>p, <2>1
  <2>4. 1 \in 1..Len(gpu_passes)
    BY ONLY <2>1
  <2>5. gpu_passes[1].first \in Nat /\ gpu_passes[1].first + CacheLayers <= next_seq
    BY <2>4, PassEnds DEF RoomInv, PassesAsked
  <2>6. Seq0' = Seq0
    BY <1>k, <2>2, <2>3 DEF Seq0
  <2> QED BY <2>1, <2>2, <2>3, <2>5, <2>6
<1>2. CacheTypes'
  <2>1. Len(gpu_passes') <= 2
    BY ONLY <1>c
  <2> QED BY <1>a, <1>u, <1>p, <2>1 DEF RoomInv, CacheTypes, serviceVars, planeVars, policyVars, readVars, tokenVars
<1>3. Placed'
  BY <1>u DEF RoomInv, Placed, policyVars
<1>4. Numbered'
  <2>2. /\ Len(requests') <= next_seq'
        /\ \A i \in 1..Len(requests') : requests'[i].seq = next_seq' - Len(requests') + i
    BY ONLY <1>a
  <2>3. /\ Current => request.seq = ready + 1 /\ next_seq' - Len(requests') = ready + 1
        /\ ~Current => ready = next_seq' - Len(requests')
        /\ serving = "after" \/ (serving = "issue" /\ after_cut) => request.seq = ready
    BY <1>a DEF RoomInv, Numbered
  <2> QED BY ONLY <1>k, <2>2, <2>3 DEF Numbered
<1>o. ASSUME NEW r, OfPass(r), r.seq \in Nat, r.seq <= next_seq,
             NEW k \in 1..Len(gpu_passes'), NEW l \in Layers, r.seq = gpu_passes'[k].first + l
      PROVE  r.layer = l /\ r.decode = gpu_passes'[k].decode
  <2>1. l \in Nat /\ l >= 1
    BY ONLY l \in Layers, LayerNumbers, CacheAssumption
  <2>2. CASE k \in 1..Len(gpu_passes)
    BY <1>o, <1>p, <2>2 DEF OfPass
  <2>3. CASE k = Len(gpu_passes) + 1
    <3>1. gpu_passes'[k].first = next_seq
      BY <1>p, <2>3
    <3>2. r.seq = next_seq + l
      BY ONLY <3>1, r.seq = gpu_passes'[k].first + l
    <3> QED BY ONLY <1>n, <2>1, <3>2, r.seq <= next_seq, r.seq \in Nat
  <2>4. k \in 1..Len(gpu_passes) \/ k = Len(gpu_passes) + 1
    BY <1>e
  <2> QED BY <2>2, <2>3, <2>4
<1>5. PassesAsked'
  <2>1. ASSUME NEW i \in 1..Len(requests'), NEW k \in 1..Len(gpu_passes'), NEW l \in Layers,
               requests'[i].seq = gpu_passes'[k].first + l
        PROVE  requests'[i].layer = l /\ requests'[i].decode = gpu_passes'[k].decode
    <3>l. l \in Nat /\ l >= 1 /\ l <= CacheLayers
      BY ONLY l \in Layers, LayerNumbers, CacheAssumption
    <3>1. CASE i \in 1..Len(requests) /\ requests'[i] = requests[i]
      <4>1. OfPass(requests[i])
        BY <3>1 DEF RoomInv, PassesAsked
      <4>2. requests[i].seq \in Nat /\ requests[i].seq <= next_seq
        BY <3>1, SeqBounds
      <4>3. requests[i].seq = gpu_passes'[k].first + l
        BY <2>1, <3>1
      <4>4. requests[i].layer = l /\ requests[i].decode = gpu_passes'[k].decode
        BY ONLY <1>o, <4>1, <4>2, <4>3, k \in 1..Len(gpu_passes'), l \in Layers
      <4> QED BY ONLY <3>1, <4>4
    <3>2. ASSUME NEW j \in 1..CacheLayers, requests'[i].seq = next_seq + j, requests'[i].layer = j, requests'[i].decode = d
          PROVE  requests'[i].layer = l /\ requests'[i].decode = gpu_passes'[k].decode
      <4>1. CASE k \in 1..Len(gpu_passes)
        <5>1. gpu_passes[k].first + l <= next_seq /\ gpu_passes[k].first \in Nat /\ gpu_passes'[k] = gpu_passes[k]
          BY <1>p, <4>1, PassEnds
        <5>2. PICK f \in Nat : f = gpu_passes'[k].first + l /\ f <= next_seq
          BY ONLY <5>1, <3>l
        <5>3. j \in Nat /\ j >= 1
          BY ONLY <1>l, j \in 1..CacheLayers
        <5>4. next_seq + j = f
          BY ONLY <2>1, <3>2, <5>2
        <5> QED BY ONLY <1>n, <5>2, <5>3, <5>4
      <4>2. CASE k = Len(gpu_passes) + 1
        <5>1. gpu_passes'[k].first = next_seq /\ gpu_passes'[k].decode = d
          BY <1>p, <4>2
        <5>2. next_seq + j = next_seq + l
          BY ONLY <2>1, <3>2, <5>1
        <5>3. j \in Nat
          BY ONLY <1>l, j \in 1..CacheLayers
        <5>4. j = l
          BY ONLY <1>n, <3>l, <5>2, <5>3
        <5> QED BY ONLY <3>2, <5>1, <5>4
      <4>3. k \in 1..Len(gpu_passes) \/ k = Len(gpu_passes) + 1
        BY <1>e
      <4> QED BY <4>1, <4>2, <4>3
    <3> QED BY <1>a, <3>1, <3>2
  <2>2. \A i \in 1..Len(requests') : OfPass(requests[i])'
    <3> TAKE i \in 1..Len(requests')
    <3>1. \A k \in 1..Len(gpu_passes'), l \in Layers :
            requests'[i].seq = gpu_passes'[k].first + l =>
              requests'[i].layer = l /\ requests'[i].decode = gpu_passes'[k].decode
      BY <2>1
    <3> QED BY ONLY <3>1 DEF OfPass
  <2>3. Current' => OfPass(request)'
    <3> SUFFICES ASSUME Current PROVE OfPass(request)'
      BY <1>k
    <3>1. OfPass(request) /\ request.seq \in Nat /\ request.seq <= next_seq
      BY SeqBounds DEF RoomInv, PassesAsked
    <3>2. \A k \in 1..Len(gpu_passes'), l \in Layers :
            request.seq = gpu_passes'[k].first + l => request.layer = l /\ request.decode = gpu_passes'[k].decode
      BY <1>o, <3>1
    <3> QED BY ONLY <1>k, <3>2 DEF OfPass
  <2>4. ASSUME NEW k \in 1..Len(gpu_passes') PROVE gpu_passes'[k].first + CacheLayers <= next_seq'
    <3>1. CASE k \in 1..Len(gpu_passes)
      <4>1. gpu_passes[k].first \in Nat /\ gpu_passes[k].first + CacheLayers <= next_seq /\ gpu_passes'[k] = gpu_passes[k]
        BY <1>p, <3>1, PassEnds DEF RoomInv, PassesAsked
      <4> QED BY ONLY <1>l, <1>n, <4>1
    <3>2. CASE k = Len(gpu_passes) + 1
      <4>1. gpu_passes'[k].first = next_seq
        BY <1>p, <3>2
      <4> QED BY ONLY <1>l, <1>n, <4>1
    <3>3. k \in 1..Len(gpu_passes) \/ k = Len(gpu_passes) + 1
      BY <1>e
    <3> QED BY <3>1, <3>2, <3>3
  <2>5. Len(gpu_passes') = 2 => gpu_passes'[1].first + CacheLayers <= gpu_passes'[2].first
    BY <1>0, <1>1
  <2> QED BY ONLY <2>2, <2>3, <2>4, <2>5 DEF PassesAsked
<1>6. GpuPlace'
  <2>1. CASE gpu_passes = <<>>
    <3>1. gpu_passes' # <<>> /\ Seq0' = next_seq + 1 /\ gpu_stage = "run"
      BY <1>0, <2>1
    <3>2. ready = routed
      BY <3>1 DEF RoomInv, GpuPlace
    <3>3. routed < Seq0'
      BY ONLY <1>n, <3>1, <3>2
    <3>4. serving \in {"read", "publish"} => request.seq <= routed
      BY DEF RoomInv, GpuPlace
    <3> QED BY ONLY <1>k, <3>1, <3>2, <3>3, <3>4 DEF GpuPlace
  <2>2. CASE gpu_passes # <<>>
    <3>1. gpu_passes' # <<>> /\ Seq0' = Seq0 /\ Head(gpu_passes') = Head(gpu_passes)
      BY <1>1, <2>2
    <3>2. GpuPlace
      BY DEF RoomInv
    <3> QED BY ONLY <1>k, <2>2, <3>1, <3>2 DEF GpuPlace
  <2> QED BY <2>1, <2>2
<1>7. Steady'
  <2>1. requests' = Asked(CacheLayers, d) /\ next_seq' = next_seq + CacheLayers
    BY DEF Encode, Asked
  <2>2. CacheLayers \in Nat /\ CacheLayers <= CacheLayers
    BY <1>l
  <2>3. Joined(CacheLayers, d)
    BY <1>d, <2>1, <2>2, JoinedQueue, Zenon
  <2> QED BY <1>d, <1>l, <1>u, <2>3, JoinedSteady
<1>8. Stamps'
  BY <1>a, <1>l, <1>u, StampsJoined
<1>9. Picking'
  BY <1>u, PickingKept
<1> QED BY <1>2, <1>3, <1>4, <1>5, <1>6, <1>7, <1>8, <1>9 DEF RoomInv

(* What is forgotten leaves every slice its one slot, and fewer pinned.    *)
LEMMA ForgetKeeps ==
    ASSUME NEW sl \in [SlotIds -> Slices \cup {NoSlice}], PlacedIn(sl), NEW reads
    PROVE  /\ Forget(sl, reads) \in [SlotIds -> Slices \cup {NoSlice}] /\ PlacedIn(Forget(sl, reads))
           /\ \A s \in SlotIds : Forget(sl, reads)[s] = IF sl[s] \in {r.slice : r \in reads} THEN NoSlice ELSE sl[s]
  BY DEF Forget, PlacedIn

(* Forgetting drops pinned slots only.                                     *)
LEMMA RoleShrinks ==
    ASSUME CacheAssumption, RoomInv, role' \subseteq role
    PROVE  /\ role' \subseteq SlotIds /\ Cardinality(role') \in Nat /\ Cardinality(role) \in Nat
           /\ Cardinality(role') <= Cardinality(role) /\ Cardinality(role') <= PinnedSlots
<1>1. role \subseteq SlotIds /\ Cardinality(role) <= PinnedSlots
  BY DEF RoomInv, CacheTypes
<1>2. IsFiniteSet(role) /\ Cardinality(role) \in Nat
  BY <1>1, SlotSets
<1>3. IsFiniteSet(role') /\ Cardinality(role') \in Nat /\ Cardinality(role') <= Cardinality(role)
  BY <1>2, FS_Subset, FS_CardinalityType
<1>4. PinnedSlots \in Nat
  BY FiniteCounts
<1> QED BY ONLY <1>1, <1>2, <1>3, <1>4, role' \subseteq role

(* Fewer pinned slots leave the same room.                                 *)
LEMMA LeavesMore ==
    ASSUME CacheAssumption, RoomInv, role' \subseteq role, NEW r \in CacheRequests, Leaves(r)
    PROVE  Taken + r.routes + Cardinality(role') <= CacheSlots
<1>1. Taken \in Nat /\ r.routes \in Nat /\ CacheSlots \in Nat
  BY FiniteCounts DEF RoomInv, CacheTypes, Taken, CacheRequests
<1>2. Cardinality(role') \in Nat /\ Cardinality(role) \in Nat /\ Cardinality(role') <= Cardinality(role)
  BY RoleShrinks
<1>3. Taken + r.routes + Cardinality(role) <= CacheSlots
  BY DEF Leaves
<1> QED BY ONLY <1>1, <1>2, <1>3

(* The next request is taken up, what a token before it predicted          *)
(* forgotten.                                                              *)
LEMMA RoomPop ==
    ASSUME CacheAssumption, RoomInv, Pop
    PROVE  RoomInv'
<1>u. /\ serving = "pop" /\ requests # <<>> /\ request' = Head(requests) /\ requests' = Tail(requests) /\ after_cut' = FALSE
      /\ UNCHANGED <<cacheHostVars, gpuSideVars, last_ready, picks, missed, awaited, ready, used,
                     flying, landed_reads, stamped, table, slab>>
  BY DEF Pop
<1>k. /\ ready' = ready /\ prefetch' = prefetch /\ gpu_layer' = gpu_layer /\ gpu_passes' = gpu_passes
      /\ gpu_stage' = gpu_stage /\ chosen' = chosen /\ routed' = routed /\ Seq0' = Seq0
      /\ next_seq' = next_seq /\ used' = used /\ stamped' = stamped
  BY <1>u DEF cacheHostVars, gpuSideVars, Seq0
<1>d. \E reads : slice' = Forget(slice, reads) /\ role' = {s \in role : slice'[s] # NoSlice}
  BY DEF Pop, Drop
<1>e. /\ serving' \in {"issue", "spin"} /\ (serving' = "issue" => prefetch # "none")
      /\ (in_token' => request'.decode /\ (prefetch # "none" \/ in_token))
      /\ targets' \in Seq(Layers) /\ in_token' \in BOOLEAN
  <2>1. PICK in_file \in BOOLEAN :
          /\ in_file => prefetch # "none" /\ request'.decode
          /\ in_token' = (in_file \/ (in_token /\ request'.decode /\ ~(prefetch # "none" /\ request'.decode /\ request'.layer = 1)))
          /\ targets' = (IF in_file THEN [l \in Layers |-> l] ELSE <<>>)
          /\ serving' = IF in_file THEN "issue" ELSE "spin"
    BY DEF Pop
  <2>2. [l \in Layers |-> l] \in Seq(Layers) /\ <<>> \in Seq(Layers)
    <3>1. [l \in Layers |-> l] \in [1..CacheLayers -> Layers]
      BY Sizes
    <3> QED BY SMTT(30), <3>1, Sizes
  <2> QED BY <2>1, <2>2
<1>q. /\ requests \in Seq(CacheRequests) /\ Len(requests) \in Nat /\ Len(requests) >= 1
      /\ request' = requests[1] /\ request' \in CacheRequests
      /\ requests' \in Seq(CacheRequests) /\ Len(requests') = Len(requests) - 1 /\ Len(requests') \in Nat
      /\ \A i \in 1..Len(requests') : requests'[i] = requests[i + 1] /\ i + 1 \in 1..Len(requests)
      /\ 1 \in 1..Len(requests)
      /\ requests' # <<>> => 1 \in 1..Len(requests')
      /\ requests' = <<>> => Len(requests) = 1
  <2>1. requests \in Seq(CacheRequests)
    BY DEF RoomInv, CacheTypes
  <2>2. Len(requests) \in Nat /\ Len(requests) >= 1 /\ 1 \in 1..Len(requests)
    BY <1>u, <2>1
  <2>3. request' = requests[1] /\ requests[1] \in CacheRequests
    BY <1>u, <2>1, <2>2
  <2>4. PICK q : q = Tail(requests)
    OBVIOUS
  <2>5. q \in Seq(CacheRequests) /\ Len(q) = Len(requests) - 1
        /\ \A i \in 1..Len(q) : q[i] = requests[i + 1]
    BY <1>u, <2>1, <2>4
  <2>6. Len(q) \in Nat
    BY ONLY <2>2, <2>5
  <2>7. \A i \in 1..Len(q) : i + 1 \in 1..Len(requests)
    BY ONLY <2>2, <2>5
  <2>8. (q = <<>> => Len(q) = 0) /\ (q # <<>> => Len(q) >= 1)
    BY ONLY <2>5
  <2>9. (q # <<>> => 1 \in 1..Len(q)) /\ (q = <<>> => Len(requests) = 1)
    BY ONLY <2>2, <2>5, <2>6, <2>8
  <2>10. requests' = q
    BY <1>u, <2>4
  <2> QED BY ONLY <2>1, <2>2, <2>3, <2>5, <2>6, <2>7, <2>9, <2>10
<1>n. next_seq \in Nat /\ ready \in Nat /\ Len(requests) <= next_seq /\ ready = next_seq - Len(requests)
  BY <1>u DEF RoomInv, CacheTypes, Numbered, Current
<1>c. ~Current /\ Current'
  BY <1>u, <1>e DEF Current
<1>s. slice \in [SlotIds -> Slices \cup {NoSlice}] /\ PlacedIn(slice)
  BY DEF RoomInv, CacheTypes, Placed, PlacedIn
<1>r. role' \subseteq role /\ slice' \in [SlotIds -> Slices \cup {NoSlice}] /\ PlacedIn(slice')
  BY <1>d, <1>s, ForgetKeeps
<1>1. CacheTypes'
  <2>1. role' \subseteq SlotIds /\ Cardinality(role') <= PinnedSlots
    BY <1>r, RoleShrinks
  <2>2. request' \in CacheRequests /\ requests' \in Seq(CacheRequests)
    BY <1>q
  <2>3. serving' \in {"pop", "issue", "spin", "read", "publish", "after"} /\ after_cut' \in BOOLEAN
    BY <1>e, <1>u
  <2> QED BY <1>u, <1>e, <1>r, <2>1, <2>2, <2>3 DEF RoomInv, CacheTypes, cacheHostVars, gpuSideVars
<1>2. Placed'
  BY <1>r DEF Placed, PlacedIn
<1>3. Numbered'
  <2>1. requests[1].seq = ready + 1
    <3>1. requests[1].seq = next_seq - Len(requests) + 1
      BY <1>q DEF RoomInv, Numbered
    <3> QED BY ONLY <1>n, <3>1
  <2>2. Len(requests') <= next_seq /\ next_seq - Len(requests') = ready + 1
    <3>1. Len(requests) \in Nat /\ Len(requests') = Len(requests) - 1
      BY <1>q
    <3> QED BY ONLY <1>n, <3>1
  <2>3. ASSUME NEW i \in 1..Len(requests') PROVE requests'[i].seq = next_seq - Len(requests') + i
    <3>1. requests'[i] = requests[i + 1] /\ i + 1 \in 1..Len(requests) /\ i \in Nat /\ Len(requests) \in Nat
          /\ Len(requests') = Len(requests) - 1
      BY <1>q
    <3>2. requests[i + 1].seq = next_seq - Len(requests) + (i + 1)
      BY <3>1 DEF RoomInv, Numbered
    <3> QED BY ONLY <1>n, <3>1, <3>2
  <2>4. serving' # "after" /\ ~after_cut'
    BY <1>u, <1>e
  <2> QED BY ONLY <1>c, <1>k, <1>q, <2>1, <2>2, <2>3, <2>4 DEF Numbered
<1>4. PassesAsked'
  <2>1. \A i \in 1..Len(requests) : OfPass(requests[i])
    BY DEF RoomInv, PassesAsked
  <2>2. \A i \in 1..Len(requests') : OfPass(requests[i])'
    BY ONLY SMTT(30), <1>k, <1>q, <2>1 DEF OfPass
  <2>3. OfPass(request)'
    BY ONLY <1>k, <1>q, <2>1 DEF OfPass
  <2>4. /\ \A k \in 1..Len(gpu_passes) : gpu_passes[k].first + CacheLayers <= next_seq
        /\ Len(gpu_passes) = 2 => gpu_passes[1].first + CacheLayers <= gpu_passes[2].first
    BY DEF RoomInv, PassesAsked
  <2> QED BY ONLY <1>k, <2>2, <2>3, <2>4 DEF PassesAsked
<1>5. GpuPlace'
  <2>1. GpuPlace /\ serving' \notin {"read", "publish"}
    BY <1>e DEF RoomInv
  <2> QED BY ONLY <1>k, <2>1 DEF GpuPlace
<1>6. Steady'
  <2>1. /\ \A i \in 1..Len(requests) : Routes(requests[i])
        /\ in_token => prefetch # "none"
        /\ \A i \in 1..Len(requests) - 1 : Follows(requests[i], requests[i + 1])
        /\ Ends(requests[Len(requests)])
    BY <1>u DEF RoomInv, Steady
  <2>2. \A i \in 1..Len(requests') : Routes(requests'[i])
    BY ONLY <1>q, <2>1
  <2>3. Routes(request')
    BY ONLY <1>q, <2>1
  <2>4. ASSUME NEW i \in 1..Len(requests') - 1 PROVE Follows(requests'[i], requests'[i + 1])
    <3>1. i \in 1..Len(requests') /\ i + 1 \in 1..Len(requests') /\ i + 1 \in 1..Len(requests) - 1
      BY ONLY <1>q, i \in 1..Len(requests') - 1
    <3>2. requests'[i] = requests[i + 1] /\ requests'[i + 1] = requests[(i + 1) + 1]
      BY ONLY <1>q, <3>1
    <3>3. Follows(requests[i + 1], requests[(i + 1) + 1])
      BY ONLY <2>1, <3>1
    <3> QED BY ONLY <3>2, <3>3
  <2>5. ASSUME requests' # <<>>
        PROVE  Ends(requests'[Len(requests')]) /\ Follows(request', requests'[1])
    <3>1. 1 \in 1..Len(requests') /\ Len(requests') \in 1..Len(requests') /\ Len(requests') + 1 = Len(requests)
          /\ 1 \in 1..Len(requests) - 1
      BY ONLY <1>q, <2>5
    <3>2. requests'[Len(requests')] = requests[Len(requests)] /\ requests'[1] = requests[1 + 1]
      BY ONLY <1>q, <3>1
    <3>3. Follows(requests[1], requests[1 + 1])
      BY ONLY <2>1, <3>1
    <3> QED BY ONLY <1>q, <2>1, <3>2, <3>3
  <2>6. ASSUME requests' = <<>> PROVE Ends(request')
    BY ONLY <1>q, <2>1, <2>6
  <2>7. ~after_cut' /\ serving' # "pop"
    BY <1>e, <1>u
  <2> QED BY ONLY <1>e, <1>k, <2>1, <2>2, <2>3, <2>4, <2>5, <2>6, <2>7 DEF Steady, AtCut, Routes, Follows, Ends
<1>7. Stamps'
  <2>1. StampedSlots' = StampedSlots /\ Taken' = Taken
    BY <1>k DEF StampedSlots, Taken
  <2>2. /\ \A s \in SlotIds : used[s] <= ready + 1
        /\ stamped.tick <= ready + 1 /\ Cardinality(StampedSlots) <= Taken
        /\ Taken > 0 => prefetch # "none" /\ Leaves(requests[1])
    BY <1>u DEF RoomInv, Stamps
  <2>3. Taken > 0 => Leaves(request)'
    <3> SUFFICES ASSUME Taken > 0 PROVE Leaves(request)'
      OBVIOUS
    <3>1. requests[1] \in CacheRequests /\ Leaves(requests[1]) /\ role' \subseteq role
      BY <1>q, <1>r, <2>2
    <3>2. Taken + requests[1].routes + Cardinality(role') <= CacheSlots
      BY <3>1, LeavesMore
    <3> QED BY ONLY <1>q, <2>1, <3>2 DEF Leaves
  <2> QED BY ONLY <1>e, <1>k, <2>1, <2>2, <2>3 DEF Stamps
<1>8. Picking'
  BY <1>u DEF RoomInv, Picking
<1> QED BY <1>1, <1>2, <1>3, <1>4, <1>5, <1>6, <1>7, <1>8 DEF RoomInv

(* The layer is published and its ready value signalled.                   *)
LEMMA RoomPublish ==
    ASSUME CacheAssumption, RoomInv, Publish
    PROVE  RoomInv'
<1>u. /\ serving = "publish" /\ serving' = "after" /\ ready' = Max({ready, request.seq}) /\ last_ready' = request.seq
      /\ UNCHANGED <<cacheHostVars, requests, gpuSideVars, request, planeVars, missed, policyVars,
                   read_queue, flying, stamped, tokenVars, slab>>
  BY DEF Publish
<1>k. /\ prefetch' = prefetch /\ gpu_layer' = gpu_layer /\ gpu_passes' = gpu_passes
      /\ gpu_stage' = gpu_stage /\ chosen' = chosen /\ routed' = routed /\ Seq0' = Seq0
      /\ next_seq' = next_seq /\ used' = used /\ stamped' = stamped /\ requests' = requests /\ request' = request
      /\ role' = role /\ slice' = slice /\ in_token' = in_token
  BY <1>u DEF cacheHostVars, gpuSideVars, policyVars, tokenVars, Seq0
<1>n. /\ ready \in Nat /\ routed \in Nat /\ next_seq \in Nat
      /\ request.seq = ready + 1 /\ next_seq - Len(requests) = ready + 1
  BY <1>u DEF RoomInv, CacheTypes, Numbered, Current
<1>r. ready' = ready + 1
  <2>1. PICK S : S = {ready, request.seq}
    OBVIOUS
  <2>2. ready + 1 \in S /\ (\A y \in S : ready + 1 >= y) /\ \A x \in S : (\A y \in S : x >= y) => x = ready + 1
    BY ONLY <1>n, <2>1
  <2>3. Max(S) = ready + 1
    BY ONLY <2>2 DEF Max
  <2> QED BY <1>u, <2>1, <2>3
<1>c. Current /\ ~Current'
  BY <1>u DEF Current
<1>g. gpu_stage = "wait" /\ routed = Seq0 /\ ready + 1 <= routed /\ gpu_passes # <<>>
  <2>1. request.seq <= routed /\ gpu_stage \in {"run", "wait", "experts"}
    BY <1>u DEF RoomInv, CacheTypes, GpuPlace
  <2>2. gpu_stage # "wait" => ready = routed
    BY <2>1 DEF RoomInv, GpuPlace
  <2>3. gpu_stage = "wait" /\ ready + 1 <= routed
    BY ONLY <1>n, <2>1, <2>2
  <2> QED BY <2>3 DEF RoomInv, GpuPlace
<1>1. CacheTypes'
  <2>1. ready' \in Nat /\ last_ready' = ready'
    BY ONLY <1>n, <1>r, <1>u
  <2> QED BY <1>u, <2>1 DEF RoomInv, CacheTypes, cacheHostVars, gpuSideVars, policyVars, planeVars, tokenVars
<1>2. Placed'
  BY <1>k DEF RoomInv, Placed
<1>3. Numbered'
  <2>1. Len(requests) <= next_seq /\ \A i \in 1..Len(requests) : requests[i].seq = next_seq - Len(requests) + i
    BY DEF RoomInv, Numbered
  <2> QED BY ONLY <1>c, <1>k, <1>n, <1>r, <2>1 DEF Numbered
<1>4. PassesAsked'
  <2>1. PassesAsked
    BY DEF RoomInv
  <2> QED BY ONLY <1>c, <1>k, <2>1 DEF PassesAsked, OfPass
<1>5. GpuPlace'
  <2>1. Cardinality(chosen) <= IF Head(gpu_passes).decode THEN TopK ELSE CacheExperts
    BY <1>g DEF RoomInv, GpuPlace
  <2> QED BY ONLY <1>g, <1>k, <1>r, <1>u, <2>1 DEF GpuPlace
<1>6. Steady'
  <2>1. Steady
    BY DEF RoomInv
  <2> QED BY ONLY <1>k, <1>u, <2>1 DEF Steady, AtCut, Routes, Follows, Ends
<1>7. Stamps'
  <2>1. /\ \A s \in SlotIds : used[s] <= ready + 1
        /\ stamped.tick <= ready + 1
    BY DEF RoomInv, Stamps
  <2>2. used \in [SlotIds -> Nat] /\ stamped.tick \in Nat
    BY DEF RoomInv, CacheTypes
  <2>3. Taken' = 0
    BY ONLY <1>k, <1>n, <1>r, <2>1, <2>2 DEF Taken
  <2>4. StampedSlots' = {} /\ Cardinality({}) = 0
    <3>1. StampedSlots' = {}
      BY ONLY <1>k, <1>n, <1>r, <2>1, <2>2 DEF StampedSlots
    <3> QED BY <3>1, FS_EmptySet
  <2>5. \A s \in SlotIds : used'[s] <= ready' + 1
    BY ONLY <1>k, <1>n, <1>r, <2>1, <2>2
  <2>6. stamped'.tick <= ready' + 1
    BY ONLY <1>k, <1>n, <1>r, <2>1, <2>2
  <2> QED BY ONLY <1>k, <1>u, <2>3, <2>4, <2>5, <2>6 DEF Stamps
<1>8. Picking'
  BY <1>u DEF RoomInv, Picking, planeVars
<1> QED BY <1>1, <1>2, <1>3, <1>4, <1>5, <1>6, <1>7, <1>8 DEF RoomInv

(* As many slots give up their role as take it over.                       *)
LEMMA RolesSwapped ==
    ASSUME CacheAssumption, role \subseteq SlotIds, Promote \/ UNCHANGED role
    PROVE  role' \subseteq SlotIds /\ Cardinality(role') = Cardinality(role)
<1>1. CASE UNCHANGED role
  BY <1>1
<1>2. CASE Promote
  <2>1. PICK up \in SUBSET (SlotIds \ role), down \in SUBSET role :
          Cardinality(down) = Cardinality(up) /\ role' = (role \ down) \cup up
    BY <1>2 DEF Promote
  <2>2. /\ IsFiniteSet(role) /\ Cardinality(role) \in Nat /\ IsFiniteSet(up) /\ Cardinality(up) \in Nat
        /\ IsFiniteSet(down) /\ Cardinality(down) \in Nat /\ down \subseteq SlotIds
    BY <2>1, SlotSets
  <2>3. PICK kept : kept = role \ down
    OBVIOUS
  <2>4. role \cap down = down /\ kept \cap up = {} /\ role' = kept \cup up
    BY <2>1, <2>3
  <2>5. IsFiniteSet(kept) /\ Cardinality(kept) = Cardinality(role) - Cardinality(down)
    BY <2>2, <2>3, <2>4, FS_Difference
  <2>6. Cardinality(role') = Cardinality(kept) + Cardinality(up) - Cardinality({})
    BY <2>2, <2>4, <2>5, FS_Union
  <2>7. Cardinality({}) = 0
    BY FS_EmptySet
  <2>8. Cardinality(role') = Cardinality(role)
    BY ONLY <2>1, <2>2, <2>5, <2>6, <2>7
  <2> QED BY <2>1, <2>8
<1> QED BY <1>1, <1>2

(* After the signal slots are promoted, and the next prediction is perhaps *)
(* begun.                                                                  *)
LEMMA RoomAfterReady ==
    ASSUME CacheAssumption, RoomInv, AfterReady
    PROVE  RoomInv'
<1> DEFINE cut == prefetch \in {"cuts", "replace"} /\ in_token /\ request.layer \in CutLayers
<1>u. /\ serving = "after" /\ (Promote \/ UNCHANGED role)
      /\ targets' = (IF cut THEN [i \in 1..(CacheLayers - request.layer) |-> request.layer + i] ELSE <<>>)
      /\ after_cut' = cut /\ serving' = (IF cut THEN "issue" ELSE "pop")
      /\ UNCHANGED <<cacheHostVars, requests, gpuSideVars, request, last_ready, picks, missed, awaited, ready, slice, used,
                   readVars, table, slab>>
  BY DEF AfterReady
<1>k. /\ prefetch' = prefetch /\ gpu_layer' = gpu_layer /\ gpu_passes' = gpu_passes
      /\ gpu_stage' = gpu_stage /\ chosen' = chosen /\ routed' = routed /\ Seq0' = Seq0 /\ ready' = ready
      /\ next_seq' = next_seq /\ used' = used /\ stamped' = stamped /\ requests' = requests /\ request' = request
      /\ slice' = slice /\ in_token' = in_token /\ picks' = picks
  BY <1>u DEF cacheHostVars, gpuSideVars, readVars, tokenVars, Seq0
<1>t. request \in CacheRequests /\ request.layer \in Nat /\ request.layer >= 1 /\ request.layer <= CacheLayers /\ CacheLayers \in Nat
  <2>1. request \in CacheRequests
    BY <1>u DEF RoomInv, CacheTypes
  <2>2. request.layer \in Layers
    BY <2>1 DEF CacheRequests
  <2> QED BY ONLY <2>1, <2>2, LayerNumbers, CacheAssumption
<1>e. targets' \in Seq(Layers)
  <2>1. CASE cut
    <3>1. request.layer < CacheLayers
      <4>1. request.layer \in 1..(CacheLayers - 1)
        BY <2>1, Sizes
      <4> QED BY ONLY <1>t, <4>1
    <3>2. PICK m \in Nat : m = CacheLayers - request.layer
      BY ONLY <1>t, <3>1
    <3>3. \A i \in 1..m : request.layer + i \in Layers
      BY ONLY <1>t, <3>2 DEF Layers
    <3>4. [i \in 1..m |-> request.layer + i] \in Seq(Layers)
      BY <3>3
    <3> QED BY <1>u, <2>1, <3>2, <3>4
  <2>2. CASE ~cut
    BY <1>u, <2>2
  <2> QED BY <2>1, <2>2
<1>r. role' \subseteq SlotIds /\ Cardinality(role') <= PinnedSlots
  <2>1. role \subseteq SlotIds /\ Cardinality(role) <= PinnedSlots
    BY DEF RoomInv, CacheTypes
  <2>2. role' \subseteq SlotIds /\ Cardinality(role') = Cardinality(role)
    BY <1>u, <2>1, RolesSwapped
  <2> QED BY <2>1, <2>2
<1>c. ~Current /\ ~Current' /\ serving' \in {"issue", "pop"} /\ (serving' = "issue" <=> after_cut') /\ after_cut' \in BOOLEAN
      /\ (after_cut' => AtCut)
  <2>1. CASE cut
    BY <1>u, <2>1 DEF Current, AtCut
  <2>2. CASE ~cut
    BY <1>u, <2>2 DEF Current
  <2> QED BY <2>1, <2>2
<1> HIDE DEF cut
<1>1. CacheTypes'
  <2>1. serving' \in {"pop", "issue", "spin", "read", "publish", "after"}
    BY <1>c
  <2>2. CacheTypes
    BY DEF RoomInv
  <2> QED BY <1>c, <1>e, <1>k, <1>r, <1>t, <1>u, <2>1, <2>2 DEF CacheTypes, cacheHostVars
<1>2. Placed'
  BY <1>k DEF RoomInv, Placed
<1>3. Numbered'
  <2>1. Numbered /\ request.seq = ready
    BY <1>u DEF RoomInv, Numbered
  <2> QED BY ONLY <1>c, <1>k, <2>1 DEF Numbered
<1>4. PassesAsked'
  <2>1. PassesAsked
    BY DEF RoomInv
  <2> QED BY ONLY <1>c, <1>k, <2>1 DEF PassesAsked, OfPass
<1>5. GpuPlace'
  <2>1. GpuPlace /\ serving' \notin {"read", "publish"}
    BY <1>c DEF RoomInv
  <2> QED BY ONLY <1>k, <2>1 DEF GpuPlace
<1>6. Steady'
  <2>1. Steady
    BY DEF RoomInv
  <2>2. prefetch \in {"cuts", "replace"} => prefetch # "none"
    OBVIOUS
  <2> QED BY ONLY <1>c, <1>k, <1>u, <2>1, <2>2 DEF Steady, AtCut, Routes, Follows, Ends
<1>7. Stamps'
  <2>1. /\ \A s \in SlotIds : used[s] <= ready + 1
        /\ stamped.tick <= ready + 1
        /\ Cardinality(StampedSlots) <= Taken /\ Taken = 0
    BY <1>u DEF RoomInv, Stamps
  <2>2. StampedSlots' = StampedSlots /\ Taken' = Taken
    BY <1>k DEF StampedSlots, Taken
  <2> QED BY ONLY <1>c, <1>k, <2>1, <2>2 DEF Stamps
<1>8. Picking'
  BY <1>k, <1>u DEF RoomInv, Picking
<1> QED BY <1>1, <1>2, <1>3, <1>4, <1>5, <1>6, <1>7, <1>8 DEF RoomInv

(* A pick is placed: a read of x into the slot s, whose own prefetch is    *)
(* given up.                                                               *)
Placing(x, s) ==
    LET old   == slice[s]
        given == {r \in Range(read_queue) : r.slice = old /\ old \in outstanding}
    IN /\ stamped.n < CacheSlots - Cardinality(role) - request.routes /\ stamped' = [stamped EXCEPT !.n = @ + 1]
       /\ \A t \in SlotIds : slice[t] # x
       /\ old \in outstanding => \A r \in flying : r.slice # old
       /\ slice' = [slice EXCEPT ![s] = x] /\ used' = [used EXCEPT ![s] = Tick]
       /\ table' = Unentered(table, {old})
       /\ outstanding' = (outstanding \ {old}) \cup {x}
       /\ Started(Append(Without(read_queue, given), [slice |-> x, slot |-> s]), flying)
       /\ slab' = Writing(slab, flying' \ flying)

(* A pick is placed in a slot that is free, or nothing but the row changes. *)
LEMMA PickShape ==
    ASSUME CacheAssumption, RoomInv, Pick
    PROVE  /\ picks' \subseteq picks /\ picks # {}
           /\ \/ \E x \in Slices, s \in Free(slice, used, role, Tick, Busy) : Placing(x, s)
              \/ UNCHANGED <<slice, used, read_queue, flying, outstanding, stamped, table, slab>>
<1>1. PICK x \in picks :
        \/ /\ x \notin Range(slice) /\ HasRoom /\ picks' = picks \ {x} /\ Reserve(x)
        \/ /\ picks' = IF x \in Range(slice) THEN picks \ {x} ELSE {}
           /\ x \in Range(slice) \/ ~HasRoom
           /\ UNCHANGED <<slice, used, read_queue, flying, outstanding, stamped, table, slab>>
  BY DEF Pick
<1>2. /\ x \in Slices /\ slice \in [SlotIds -> Slices \cup {NoSlice}] /\ used \in [SlotIds -> Nat]
  BY DEF RoomInv, CacheTypes
<1>3. CASE /\ x \notin Range(slice) /\ HasRoom /\ picks' = picks \ {x} /\ Reserve(x)
  <2>1. PICK s \in {Victim(slice, used, role, Tick, Busy)} :
    LET old   == slice[s]
        given == {r \in Range(read_queue) : r.slice = old /\ old \in outstanding}
    IN /\ old \in outstanding => \A r \in flying : r.slice # old
       /\ slice' = [slice EXCEPT ![s] = x] /\ used' = [used EXCEPT ![s] = Tick]
       /\ table' = Unentered(table, {old})
       /\ outstanding' = (outstanding \ {old}) \cup {x}
       /\ Started(Append(Without(read_queue, given), [slice |-> x, slot |-> s]), flying)
       /\ slab' = Writing(slab, flying' \ flying)
       /\ stamped' = [stamped EXCEPT !.n = @ + 1]
    BY <1>3 DEF Reserve
  <2>2. s \in Free(slice, used, role, Tick, Busy)
    BY <1>2, <1>3, <2>1, VictimIsFree DEF HasRoom
  <2>3. \A t \in SlotIds : slice[t] # x
    BY <1>2, <1>3 DEF Range
  <2>4. stamped.n < CacheSlots - Cardinality(role) - request.routes
    BY <1>3 DEF HasRoom
  <2>5. Placing(x, s)
    BY <2>1, <2>3, <2>4 DEF Placing
  <2> QED BY <1>2, <1>3, <2>2, <2>5
<1>4. CASE /\ picks' = IF x \in Range(slice) THEN picks \ {x} ELSE {}
           /\ UNCHANGED <<slice, used, read_queue, flying, outstanding, stamped, table, slab>>
  BY <1>4
<1> QED BY <1>1, <1>3, <1>4

(* A plane's slots are stamped for the next resolution.                    *)
LEMMA TickIsNext ==
    ASSUME CacheAssumption, RoomInv, serving = "issue"
    PROVE  Tick = ready + 1 /\ Tick \in Nat /\ ready \in Nat
<1>t. /\ request \in CacheRequests /\ request.seq \in Nat /\ after_cut \in BOOLEAN /\ ready \in Nat
  BY DEF RoomInv, CacheTypes, CacheRequests
<1>1. CASE after_cut
  <2>1. request.seq = ready
    BY <1>1 DEF RoomInv, Numbered
  <2> QED BY ONLY <1>t, <1>1, <2>1 DEF Tick
<1>2. CASE ~after_cut
  <2>1. request.seq = ready + 1
    BY <1>2 DEF RoomInv, Numbered, Current
  <2> QED BY ONLY <1>t, <1>2, <2>1 DEF Tick
<1> QED BY <1>1, <1>2

(* A plane moves neither the queue nor the passes.                         *)
LEMMA PlaneKeeps ==
    ASSUME RoomInv,
           UNCHANGED <<cacheHostVars, requests, gpuSideVars, serving, request, after_cut, ready, tokenVars>>
    PROVE  Numbered' /\ PassesAsked' /\ GpuPlace' /\ Steady'
<1>k. /\ prefetch' = prefetch /\ gpu_layer' = gpu_layer /\ gpu_passes' = gpu_passes
      /\ gpu_stage' = gpu_stage /\ chosen' = chosen /\ routed' = routed /\ Seq0' = Seq0 /\ ready' = ready
      /\ next_seq' = next_seq /\ requests' = requests /\ request' = request /\ serving' = serving
      /\ in_token' = in_token /\ after_cut' = after_cut /\ Current' = Current
  BY DEF cacheHostVars, gpuSideVars, tokenVars, Seq0, Current
<1>1. Numbered /\ PassesAsked /\ GpuPlace /\ Steady
  BY DEF RoomInv
<1>2. Numbered'
  BY ONLY <1>k, <1>1 DEF Numbered
<1>3. PassesAsked'
  BY ONLY <1>k, <1>1 DEF PassesAsked, OfPass
<1>4. GpuPlace'
  BY ONLY <1>k, <1>1 DEF GpuPlace
<1>5. Steady'
  BY ONLY <1>k, <1>1 DEF Steady, AtCut, Routes, Follows, Ends
<1> QED BY <1>2, <1>3, <1>4, <1>5

(* A row of the plane is read: slots are emptied, and none is taken.       *)
LEMMA RoomReadRow ==
    ASSUME CacheAssumption, RoomInv, ReadRow
    PROVE  RoomInv'
<1>u. /\ serving = "issue" /\ targets # <<>> /\ targets' = Tail(targets)
      /\ UNCHANGED <<cacheHostVars, requests, gpuSideVars, serving, request, last_ready, after_cut, missed, awaited,
                     ready, used, flying, landed_reads, tokenVars, table, slab>>
      /\ stamped' = [tick |-> Tick, n |-> IF stamped.tick = Tick THEN stamped.n ELSE 0]
  BY DEF ReadRow
<1>1. PICK row, drop : /\ row \in SUBSET Experts
                       /\ picks' = {<<Head(targets), e>> : e \in row} /\ Drop(drop)
  BY DEF ReadRow
<1>k. /\ prefetch' = prefetch /\ gpu_layer' = gpu_layer /\ gpu_passes' = gpu_passes
      /\ gpu_stage' = gpu_stage /\ chosen' = chosen /\ routed' = routed /\ ready' = ready
      /\ next_seq' = next_seq /\ requests' = requests /\ request' = request /\ serving' = serving
      /\ in_token' = in_token /\ after_cut' = after_cut /\ last_ready' = last_ready /\ used' = used
  BY <1>u DEF cacheHostVars, gpuSideVars, tokenVars
<1>t. /\ request \in CacheRequests /\ ready \in Nat /\ stamped.tick \in Nat /\ stamped.n \in Nat
      /\ used \in [SlotIds -> Nat] /\ slice \in [SlotIds -> Slices \cup {NoSlice}] /\ targets \in Seq(Layers)
      /\ PlacedIn(slice)
  BY <1>u DEF RoomInv, CacheTypes, Placed, PlacedIn
<1>i. Tick = ready + 1 /\ Tick \in Nat
  BY <1>u, TickIsNext
<1>s. slice' \in [SlotIds -> Slices \cup {NoSlice}] /\ PlacedIn(slice') /\ role' \subseteq role
  BY <1>1, <1>t, ForgetKeeps DEF Drop
<1>n. stamped' = [tick |-> ready + 1, n |-> Taken] /\ Taken \in Nat /\ Taken' = Taken
  <2>1. stamped' = [tick |-> ready + 1, n |-> Taken] /\ Taken \in Nat
    BY <1>i, <1>t, <1>u DEF Taken
  <2> QED BY <1>k, <2>1 DEF Taken
<1>1a. CacheTypes'
  <2>1. role' \subseteq SlotIds /\ Cardinality(role') <= PinnedSlots
    BY <1>s, RoleShrinks
  <2>2. targets' \in Seq(Layers) /\ Head(targets) \in Layers
    BY <1>t, <1>u
  <2>3. picks' \subseteq Slices
    BY <1>1, <2>2 DEF Slices
  <2>4. stamped' \in [tick : Nat, n : Nat]
    BY <1>n, <1>t
  <2>5. CacheTypes
    BY DEF RoomInv
  <2> QED BY <1>k, <1>s, <1>t, <2>1, <2>2, <2>3, <2>4, <2>5 DEF CacheTypes
<1>2. Placed'
  BY <1>s DEF Placed, PlacedIn
<1>3. Numbered' /\ PassesAsked' /\ GpuPlace' /\ Steady'
  BY <1>u, PlaneKeeps
<1>7. Stamps'
  <2>1. /\ \A s \in SlotIds : used[s] <= ready + 1
        /\ Cardinality(StampedSlots) <= Taken
        /\ Taken > 0 => prefetch # "none" /\ Leaves(request)
    BY <1>u DEF RoomInv, Stamps
  <2>2. StampedSlots' = StampedSlots
    BY <1>k DEF StampedSlots
  <2>3. Taken > 0 => Leaves(request)'
    <3> SUFFICES ASSUME Taken > 0 PROVE Leaves(request)'
      OBVIOUS
    <3>1. Taken + request.routes + Cardinality(role') <= CacheSlots
      BY <1>s, <1>t, <2>1, LeavesMore
    <3> QED BY ONLY <1>k, <1>n, <3>1 DEF Leaves
  <2>4. stamped'.tick <= ready + 1
    BY <1>n, <1>t
  <2> QED BY ONLY <1>k, <1>n, <1>u, <2>1, <2>2, <2>3, <2>4 DEF Stamps
<1>8. Picking'
  BY <1>k, <1>n, <1>u DEF Picking
<1> QED BY <1>1a, <1>2, <1>3, <1>7, <1>8 DEF RoomInv

(* A plane's reads leave the next resolution its slots, because reserve    *)
(* counts them against the cap.                                            *)
LEMMA RoomPick ==
    ASSUME CacheAssumption, RoomInv, Pick
    PROVE  RoomInv'
<1>u. /\ serving = "issue"
      /\ UNCHANGED <<cacheHostVars, requests, gpuSideVars, serving, request, last_ready, targets, after_cut, missed,
                     awaited, ready, role, landed_reads, tokenVars>>
  BY DEF Pick
<1>p. picks' \subseteq picks /\ picks # {}
  BY PickShape
<1>k. /\ prefetch' = prefetch /\ gpu_layer' = gpu_layer /\ gpu_passes' = gpu_passes
      /\ gpu_stage' = gpu_stage /\ chosen' = chosen /\ routed' = routed /\ ready' = ready
      /\ next_seq' = next_seq /\ requests' = requests /\ request' = request /\ serving' = serving
      /\ in_token' = in_token /\ after_cut' = after_cut /\ last_ready' = last_ready /\ role' = role
      /\ targets' = targets
  BY <1>u DEF cacheHostVars, gpuSideVars, tokenVars
<1>t. /\ request \in CacheRequests /\ request.routes \in Nat /\ ready \in Nat
      /\ stamped \in [tick : Nat, n : Nat] /\ stamped.n \in Nat /\ stamped.tick = ready + 1
      /\ used \in [SlotIds -> Nat] /\ slice \in [SlotIds -> Slices \cup {NoSlice}]
      /\ PlacedIn(slice)
  BY <1>p, <1>u DEF RoomInv, CacheTypes, CacheRequests, Placed, PlacedIn, Picking
<1>i. Tick = ready + 1 /\ Tick \in Nat
  BY <1>u, TickIsNext
<1>n. Taken = stamped.n
  BY <1>t DEF Taken
<1>3. Numbered' /\ PassesAsked' /\ GpuPlace' /\ Steady'
  BY <1>u, PlaneKeeps
<1>s. /\ \A s \in SlotIds : used[s] <= ready + 1
      /\ Cardinality(StampedSlots) <= Taken
      /\ Taken > 0 => prefetch # "none" /\ Leaves(request)
      /\ prefetch # "none"
  BY <1>u DEF RoomInv, Stamps, Steady
<1>a. CASE UNCHANGED <<slice, used, read_queue, flying, outstanding, stamped, table, slab>>
  <2>1. CacheTypes'
    BY <1>a, <1>k, <1>p DEF RoomInv, CacheTypes
  <2>2. Placed' /\ Picking'
    BY <1>a, <1>k, <1>p DEF RoomInv, Placed, Picking
  <2>3. Stamps'
    <3>1. StampedSlots' = StampedSlots /\ Taken' = Taken
      BY <1>a, <1>k DEF StampedSlots, Taken
    <3>2. Stamps
      BY DEF RoomInv
    <3> QED BY ONLY <1>a, <1>k, <3>1, <3>2 DEF Stamps, Leaves
  <2> QED BY <1>3, <2>1, <2>2, <2>3 DEF RoomInv
<1>b. ASSUME NEW x \in Slices, NEW s \in SlotIds, Placing(x, s) PROVE RoomInv'
  <2>0. /\ stamped.n < CacheSlots - Cardinality(role) - request.routes /\ stamped' = [stamped EXCEPT !.n = @ + 1]
        /\ \A t \in SlotIds : slice[t] # x
        /\ slice' = [slice EXCEPT ![s] = x] /\ used' = [used EXCEPT ![s] = Tick]
    BY <1>b DEF Placing
  <2>1. slice' \in [SlotIds -> Slices \cup {NoSlice}] /\ \A t \in SlotIds : slice'[t] = IF t = s THEN x ELSE slice[t]
    BY <1>t, <2>0
  <2>2. PlacedIn(slice')
    BY ONLY <1>t, <2>0, <2>1 DEF PlacedIn
  <2>3. used' \in [SlotIds -> Nat] /\ \A t \in SlotIds : used'[t] = IF t = s THEN ready + 1 ELSE used[t]
    BY <1>i, <1>t, <2>0
  <2>4. stamped' \in [tick : Nat, n : Nat] /\ stamped'.tick = ready + 1 /\ stamped'.n = Taken + 1
    BY <1>n, <1>t, <2>0
  <2>5. CacheTypes'
    BY <1>k, <1>p, <2>1, <2>3, <2>4 DEF RoomInv, CacheTypes
  <2>6. Placed' /\ Picking'
    BY <1>k, <1>u, <2>2, <2>4 DEF Placed, PlacedIn, Picking
  <2>7. Taken' = Taken + 1
    BY <1>k, <2>4 DEF Taken
  <2>8. IsFiniteSet(StampedSlots) /\ Cardinality(StampedSlots) \in Nat
    BY SlotSets DEF StampedSlots
  <2>9. Cardinality(StampedSlots') <= Cardinality(StampedSlots) + 1 /\ Cardinality(StampedSlots') \in Nat
    <3>1. StampedSlots' \subseteq StampedSlots \cup {s}
      BY <1>k, <2>3 DEF StampedSlots
    <3> QED BY <2>8, <3>1, OneMore
  <2>10. Taken \in Nat /\ Cardinality(role) \in Nat /\ CacheSlots \in Nat
    BY <1>n, <1>t, SlotSets, FiniteCounts DEF RoomInv, CacheTypes
  <2>11. Cardinality(StampedSlots') <= Taken'
    BY ONLY <1>s, <2>7, <2>8, <2>9, <2>10
  <2>12. (Taken + 1) + request.routes + Cardinality(role) <= CacheSlots
    BY ONLY <1>n, <1>t, <2>0, <2>10
  <2>13. Leaves(request)'
    BY ONLY <1>k, <2>7, <2>12 DEF Leaves
  <2>14. \A t \in SlotIds : used'[t] <= ready + 1
    BY ONLY <1>s, <1>t, <2>3
  <2>15. stamped'.tick <= ready + 1
    BY ONLY <1>t, <2>4
  <2>16. Stamps'
    BY ONLY <1>k, <1>s, <1>u, <2>11, <2>13, <2>14, <2>15 DEF Stamps
  <2> QED BY <1>3, <2>5, <2>6, <2>16 DEF RoomInv
<1> QED BY <1>a, <1>b, PickShape DEF Free

(* The lookups find a victim for every expert routed to, and what they     *)
(* leave is the room.                                                      *)
LEMMA RoomSee ==
    ASSUME CacheAssumption, RoomInv, See
    PROVE  RoomInv'
<1>1. PICK eids, st :
         /\ eids \in RoutedIds /\ st \in Looked(eids)
         /\ IF st.full
            THEN /\ serving' = "abort"
                 /\ UNCHANGED <<missed, awaited, slice, used, role, table, slab, read_queue, outstanding>>
            ELSE serving' = "read" /\ AfterLookups(st)
  BY DEF See, SeeWhen
<1>u. /\ serving = "spin" /\ routed >= request.seq
      /\ UNCHANGED <<cacheHostVars, requests, gpuSideVars, request, last_ready, planeVars, ready,
                   flying, landed_reads, stamped, tokenVars>>
  BY DEF See, SeeWhen
<1>2. LookRoom(st, CacheExperts)
  BY <1>1, <1>u, EveryLookup
<1>3. /\ st.full = FALSE /\ st.slice \in [SlotIds -> Slices \cup {NoSlice}] /\ st.used \in [SlotIds -> Nat]
      /\ PlacedIn(st.slice) /\ \A s \in SlotIds : st.used[s] <= ready + 1
  BY <1>2 DEF LookRoom, LookStates
<1>4. serving' = "read" /\ AfterLookups(st)
  BY <1>1, <1>3
<1>5. \E drop : slice' = Forget(st.slice, drop) /\ used' = st.used /\ role' = {s \in role : slice'[s] # NoSlice}
  BY <1>4 DEF AfterLookups
<1>k. /\ prefetch' = prefetch /\ gpu_layer' = gpu_layer /\ gpu_passes' = gpu_passes
      /\ gpu_stage' = gpu_stage /\ chosen' = chosen /\ routed' = routed /\ Seq0' = Seq0 /\ ready' = ready
      /\ next_seq' = next_seq /\ requests' = requests /\ request' = request /\ stamped' = stamped
      /\ in_token' = in_token /\ after_cut' = after_cut
      /\ targets' = targets /\ picks' = picks /\ last_ready' = last_ready
  BY <1>u DEF cacheHostVars, gpuSideVars, planeVars, tokenVars, Seq0
<1>c. Current /\ Current'
  BY <1>u, <1>4 DEF Current
<1>p. slice' \in [SlotIds -> Slices \cup {NoSlice}] /\ PlacedIn(slice') /\ role' \subseteq role
  BY <1>3, <1>5, ForgetKeeps
<1>6. CacheTypes'
  <2>1. role' \subseteq SlotIds /\ Cardinality(role') <= PinnedSlots
    BY <1>p, RoleShrinks
  <2>2. used' \in [SlotIds -> Nat]
    BY <1>3, <1>5
  <2>3. CacheTypes
    BY DEF RoomInv
  <2> QED BY <1>k, <1>p, <1>u, <1>4, <2>1, <2>2, <2>3 DEF CacheTypes, cacheHostVars
<1>7. Placed'
  BY <1>p DEF Placed, PlacedIn
<1>8. Numbered' /\ PassesAsked'
  <2>1. Numbered /\ PassesAsked
    BY DEF RoomInv
  <2>2. Numbered'
    BY ONLY <1>c, <1>k, <1>u, <1>4, <2>1 DEF Numbered
  <2>3. PassesAsked'
    BY ONLY <1>c, <1>k, <2>1 DEF PassesAsked, OfPass
  <2> QED BY <2>2, <2>3
<1>9. GpuPlace'
  <2>1. GpuPlace /\ ready \in Nat /\ routed \in Nat /\ request.seq = ready + 1
    BY <1>c DEF RoomInv, CacheTypes, Numbered
  <2>2. request.seq <= routed
    BY ONLY <1>u, <2>1
  <2> QED BY ONLY <1>k, <2>1, <2>2 DEF GpuPlace
<1>10. Steady'
  <2>1. Steady
    BY DEF RoomInv
  <2> QED BY ONLY <1>k, <1>u, <1>4, <2>1 DEF Steady, AtCut, Routes, Follows, Ends
<1>11. Stamps'
  <2>1. /\ stamped.tick <= ready + 1
        /\ Taken > 0 => prefetch # "none" /\ Leaves(request)
    BY <1>u DEF RoomInv, Stamps
  <2>2. Taken' = Taken
    BY <1>k DEF Taken
  <2>3. Taken > 0 => Leaves(request)'
    <3> SUFFICES ASSUME Taken > 0 PROVE Leaves(request)'
      OBVIOUS
    <3>1. request \in CacheRequests
      BY <1>u DEF RoomInv, CacheTypes
    <3>2. Taken + request.routes + Cardinality(role') <= CacheSlots
      BY <1>p, <2>1, <3>1, LeavesMore
    <3> QED BY ONLY <1>k, <2>2, <3>2 DEF Leaves
  <2>4. \A s \in SlotIds : used'[s] <= ready + 1
    BY <1>3, <1>5
  <2> QED BY ONLY <1>k, <1>4, <2>1, <2>2, <2>3, <2>4 DEF Stamps
<1>12. Picking'
  BY <1>k, <1>u DEF RoomInv, Picking
<1> QED BY <1>6, <1>7, <1>8, <1>9, <1>10, <1>11, <1>12 DEF RoomInv

(* The first fill.                                                         *)
LEMMA RankedSlices ==
    ASSUME CacheAssumption
    PROVE  /\ \A s \in SlotIds : InFill(s) => Ranked(s) \in Slices
           /\ \A s, t \in SlotIds : Ranked(s) = Ranked(t) => s = t
<1> PICK L \in Nat \ {0} : L = CacheLayers
  BY DEF CacheAssumption
<1> PICK E \in Nat \ {0} : E = CacheExperts
  BY DEF CacheAssumption
<1>s. \A s \in SlotIds : s \in Nat /\ s >= 1
  BY DEF SlotIds, CacheAssumption
<1>d. ASSUME NEW k \in Nat
      PROVE  k % L \in 0..(L - 1) /\ k \div L \in Nat /\ k = L * (k \div L) + (k % L)
  OBVIOUS
<1>1. ASSUME NEW s \in SlotIds, InFill(s) PROVE Ranked(s) \in Slices
  <2>1. PICK k \in Nat : k = s - 1
    BY <1>s
  <2>2. PICK q \in Nat : q = k \div L
    BY <1>d
  <2>3. PICK m \in 0..(L - 1) : m = k % L
    BY <1>d
  <2>4. k < L * E
    BY <1>1, <1>s, <2>1 DEF InFill
  <2>5. k = L * q + m
    BY <1>d, <2>2, <2>3
  <2>6. q < E
    <3> SUFFICES ASSUME q >= E PROVE FALSE
      OBVIOUS
    <3>1. L * q >= L * E
      OBVIOUS
    <3>2. L * q \in Nat /\ L * E \in Nat
      OBVIOUS
    <3> QED BY ONLY <2>4, <2>5, <2>3, <3>1, <3>2
  <2>7. m + 1 \in 1..L /\ q + 1 \in 1..E
    BY <2>6
  <2>8. Ranked(s) = <<m + 1, q + 1>>
    BY <2>1, <2>2, <2>3 DEF Ranked
  <2> QED BY <2>7, <2>8 DEF Slices, Layers, Experts
<1>2. ASSUME NEW s \in SlotIds, NEW t \in SlotIds, Ranked(s) = Ranked(t) PROVE s = t
  <2>1. PICK k \in Nat : k = s - 1
    BY <1>s
  <2>2. PICK j \in Nat : j = t - 1
    BY <1>s
  <2>3. <<(k % L) + 1, (k \div L) + 1>> = <<(j % L) + 1, (j \div L) + 1>>
    BY <1>2, <2>1, <2>2 DEF Ranked
  <2>4. k % L = j % L /\ k \div L = j \div L
    <3>1. k % L \in Nat /\ j % L \in Nat /\ k \div L \in Nat /\ j \div L \in Nat
      BY <1>d
    <3>2. (k % L) + 1 = (j % L) + 1 /\ (k \div L) + 1 = (j \div L) + 1
      BY <2>3
    <3> QED BY ONLY <3>1, <3>2
  <2>5. k = L * (k \div L) + (k % L) /\ j = L * (j \div L) + (j % L)
    BY <1>d
  <2>6. k = j
    BY ONLY <2>4, <2>5
  <2> QED BY <1>s, <2>1, <2>2, <2>6
<1> QED BY <1>1, <1>2

(* The first fill has the room.                                            *)
LEMMA RoomInit ==
    ASSUME CacheAssumption, CacheInit
    PROVE  RoomInv
<1>c. /\ CacheSlots \in Nat /\ PinnedSlots \in Nat /\ PinnedSlots <= CacheSlots /\ CacheLayers \in Nat
      /\ CacheLayers >= 1
  BY DEF CacheAssumption
<1>i. \A s \in SlotIds : slice[s] = IF InFill(s) THEN Ranked(s) ELSE NoSlice
  BY DEF CacheInit
<1>1. CacheTypes
  <2>1. slice \in [SlotIds -> Slices \cup {NoSlice}]
    <3>1. slice = [s \in SlotIds |-> IF InFill(s) THEN Ranked(s) ELSE NoSlice]
      BY DEF CacheInit
    <3> QED BY <3>1, RankedSlices
  <2>2. used \in [SlotIds -> Nat]
    BY DEF CacheInit
  <2>3. role \subseteq SlotIds /\ Cardinality(role) <= PinnedSlots
    <3>1. role = 1..PinnedSlots
      BY DEF CacheInit
    <3>2. Cardinality(1..PinnedSlots) = PinnedSlots
      BY <1>c, NumbersTo
    <3> QED BY <1>c, <3>1, <3>2 DEF SlotIds
  <2>4. gpu_layer \in Layers
    BY <1>c DEF CacheInit, Layers
  <2>5. prefetch \in Predictions
    BY DEF CacheInit
  <2>6. /\ requests = <<>> /\ gpu_passes = <<>> /\ targets = <<>> /\ Len(<<>>) = 0
        /\ requests \in Seq(CacheRequests) /\ gpu_passes \in Seq(GpuPasses) /\ targets \in Seq(Layers)
    BY DEF CacheInit
  <2>7. stamped \in [tick : Nat, n : Nat]
    BY DEF CacheInit
  <2>8. Len(gpu_passes) <= 2
    BY <2>6
  <2> QED BY <2>1, <2>2, <2>3, <2>4, <2>5, <2>6, <2>7, <2>8 DEF CacheTypes, CacheInit
<1>2. Placed
  <2>1. NoSlice \notin Slices
    BY DEF NoSlice, Slices, Layers, Experts
  <2> QED BY <1>i, <2>1, RankedSlices DEF Placed
<1>3. Numbered /\ PassesAsked /\ GpuPlace
  <2>1. /\ requests = <<>> /\ gpu_passes = <<>> /\ next_seq = 0 /\ ready = 0 /\ routed = 0 /\ serving = "pop"
        /\ gpu_stage = "run" /\ gpu_layer = 1
    BY DEF CacheInit
  <2>2. ~Current
    BY <2>1 DEF Current
  <2>3. Len(requests) = 0 /\ Len(gpu_passes) = 0
    BY <2>1
  <2>4. Numbered
    <3>1. next_seq = 0 /\ ready = 0 /\ serving = "pop"
      BY <2>1
    <3> QED BY ONLY <2>2, <2>3, <3>1 DEF Numbered
  <2>5. PassesAsked
    BY ONLY <2>2, <2>3 DEF PassesAsked
  <2>6. GpuPlace
    BY ONLY <2>1 DEF GpuPlace
  <2> QED BY <2>4, <2>5, <2>6
<1>4. Steady
  <2>1. /\ requests = <<>> /\ gpu_passes = <<>> /\ next_seq = 0 /\ ready = 0 /\ serving = "pop" /\ in_token = FALSE
    BY DEF CacheInit
  <2>3. Len(requests) = 0
    BY <2>1
  <2> QED BY ONLY <2>1, <2>3 DEF Steady
<1>5. Stamps
  <2>1. stamped.tick = 0 /\ stamped.n = 0 /\ ready = 0 /\ used = [s \in SlotIds |-> 0] /\ serving = "pop"
    BY DEF CacheInit
  <2>2. StampedSlots = {} /\ Taken = 0
    BY <2>1 DEF StampedSlots, Taken
  <2>3. Cardinality({}) = 0
    BY FS_EmptySet
  <2> QED BY <2>1, <2>2, <2>3 DEF Stamps
<1>6. Picking
  BY DEF CacheInit, Picking
<1> QED BY <1>1, <1>2, <1>3, <1>4, <1>5, <1>6 DEF RoomInv

(* Every step keeps the room.                                              *)
LEMMA RoomStep ==
    ASSUME CacheAssumption, CutsGoOn, RoomInv, [CacheNext]_cacheVars
    PROVE  RoomInv'
<1>1. ASSUME NEW decode \in BOOLEAN, Encode(decode) PROVE RoomInv'
  BY <1>1, RoomEncode
<1>2. ASSUME NEW n \in AbandonAfter, NEW decode \in BOOLEAN, Abandon(n, decode) PROVE RoomInv'
  BY <1>2, RoomAbandon
<1>3. CASE CacheGpu
  BY <1>3, RoomRoute, RoomGoOn, RoomNextLayer DEF CacheGpu, GpuKeeps
<1>4. CASE CacheService
  BY <1>4, RoomPop, RoomReadRow, RoomPick, RoomIssued, RoomSee, RoomReadMisses, RoomPublish,
         RoomAfterReady DEF CacheService
<1>5. CASE Land
  BY <1>5, RoomLand DEF Land
<1>6. CASE UNCHANGED cacheVars
  BY <1>6, RoomStutter
<1> QED BY <1>1, <1>2, <1>3, <1>4, <1>5, <1>6 DEF CacheNext

(* However many slices a prediction reserves for a layer, whether it       *)
(* replaces what it queued before, and wherever the encoding of a pass     *)
(* failed but right behind a cut, no lookup finds the cache full: a        *)
(* request never ends in "no slot free for layer" (resolve_one), for any   *)
(* number of layers, experts and slots CacheAssumption allows.             *)
THEOREM CacheNeverFull ==
    ASSUME CutsGoOn
    PROVE  CacheSpec => [](serving # "abort")
<1>1. CacheInit => RoomInv
  BY RoomInit, CacheAssumption
<1>2. RoomInv /\ [CacheNext]_cacheVars => RoomInv'
  BY RoomStep, CacheAssumption
<1>3. RoomInv => serving # "abort"
  BY DEF RoomInv, CacheTypes
<1> QED BY <1>1, <1>2, <1>3, PTL DEF CacheSpec

(* Appending a read that is not in the queue.                              *)
LEMMA AppendIs ==
    ASSUME NEW q, QueueOf(q), NEW r \in CacheReads, r \notin Range(q)
    PROVE  QueueOf(Append(q, r)) /\ Range(Append(q, r)) = Range(q) \cup {r}
<1>1. q \in Seq(CacheReads) /\ \A i, j \in 1..Len(q) : q[i] = q[j] => i = j
  BY DEF QueueOf
<1>2. PICK n \in Nat : n = Len(q)
  BY <1>1
<1>3. Append(q, r) \in Seq(CacheReads) /\ Len(Append(q, r)) = n + 1
  BY <1>1, <1>2
<1>4. (\A i \in 1..n : Append(q, r)[i] = q[i]) /\ Append(q, r)[n + 1] = r
  BY <1>1, <1>2
<1>5. Range(q) = {q[i] : i \in 1..n} /\ Range(Append(q, r)) = {Append(q, r)[i] : i \in 1..(n + 1)}
  BY <1>1, <1>2, <1>3 DEF Range
<1>6. \A i \in 1..(n + 1) : i = n + 1 \/ i \in 1..n
  OBVIOUS
<1>7. Range(Append(q, r)) = Range(q) \cup {r}
  <2>1. (1..(n + 1)) = (1..n) \cup {n + 1}
    OBVIOUS
  <2> QED BY ONLY ZenonT(30), <1>4, <1>5, <2>1
<1>8. ASSUME NEW i \in 1..(n + 1), NEW j \in 1..(n + 1), Append(q, r)[i] = Append(q, r)[j] PROVE i = j
  <2>1. \A k \in 1..n : q[k] # r
    BY <1>5
  <2> QED BY <1>1, <1>2, <1>4, <1>6, <1>8, <2>1
<1> QED BY <1>3, <1>7, <1>8 DEF QueueOf

(* Without takes the reads out and leaves the others in order.             *)
LEMMA WithoutIs ==
    ASSUME NEW queue, QueueOf(queue), NEW reads
    PROVE  QueueOf(Without(queue, reads)) /\ Range(Without(queue, reads)) = Range(queue) \ reads
<1>1. queue \in Seq(CacheReads) /\ \A i, j \in 1..Len(queue) : queue[i] = queue[j] => i = j
  BY DEF QueueOf
<1>2. PICK n \in Nat : n = Len(queue)
  BY <1>1
<1>3. PICK f : /\ f[0] = <<>> /\ f[n] = Without(queue, reads)
               /\ \A k \in 0 .. n - 1 : f[k + 1] = IF queue[k + 1] \in reads THEN f[k] ELSE Append(f[k], queue[k + 1])
  <2>1. PICK f : Thins(f, queue, reads)
    BY <1>1, WithoutSteps
  <2> QED BY ONLY <1>2, <2>1 DEF Thins
<1> DEFINE P(k) == QueueOf(f[k]) /\ Range(f[k]) = {queue[i] : i \in 1..k} \ reads
           T == {k \in 0 .. n : ~P(k)}
<1>4. P(0)
  <2>1. QueueOf(<<>>) /\ Range(<<>>) = {}
    BY DEF QueueOf, Range
  <2> QED BY <1>3, <2>1
<1>5. ASSUME NEW k \in 0 .. n - 1, P(k) PROVE P(k + 1)
  <2>1. (1..(k + 1)) = (1..k) \cup {k + 1}
    OBVIOUS
  <2>2. {queue[i] : i \in 1..(k + 1)} = {queue[i] : i \in 1..k} \cup {queue[k + 1]}
    BY ONLY <2>1
  <2>3. k + 1 \in 1..n /\ queue[k + 1] \in CacheReads
    BY <1>1, <1>2
  <2>4. CASE queue[k + 1] \in reads
    BY <1>3, <1>5, <2>2, <2>4
  <2>5. CASE queue[k + 1] \notin reads
    <3>1. queue[k + 1] \notin {queue[i] : i \in 1..k}
      <4>1. \A i \in 1..k : i \in 1..n /\ i # k + 1
        BY <1>2
      <4> QED BY <1>1, <1>2, <2>3, <4>1
    <3>2. queue[k + 1] \notin Range(f[k])
      BY <1>5, <3>1
    <3>3. QueueOf(Append(f[k], queue[k + 1])) /\ Range(Append(f[k], queue[k + 1])) = Range(f[k]) \cup {queue[k + 1]}
      BY <1>5, <2>3, <3>2, AppendIs
    <3> QED BY <1>3, <1>5, <2>2, <2>5, <3>3
  <2> QED BY <2>4, <2>5
<1>6. T = {}
  <2> SUFFICES ASSUME T # {} PROVE FALSE
    OBVIOUS
  <2>1. PICK m \in T : \A y \in T : m =< y
    <3>1. T \subseteq Nat
      OBVIOUS
    <3> HIDE DEF T
    <3> QED BY <3>1, LeastNat
  <2>2. m \in 0 .. n /\ m # 0 /\ ~P(m)
    <3>1. m \in 0 .. n /\ ~P(m)
      OBVIOUS
    <3> QED BY <1>4, <3>1
  <2> HIDE DEF P
  <2>3. m - 1 \in 0 .. n - 1 /\ m - 1 \in 0 .. n /\ m - 1 < m /\ (m - 1) + 1 = m
    BY <2>2
  <2>4. P(m - 1)
    BY <2>1, <2>3
  <2> QED BY <1>5, <2>2, <2>3, <2>4
<1>7. P(n)
  <2> HIDE DEF P
  <2> QED BY <1>6
<1>8. Range(queue) = {queue[i] : i \in 1..n}
  BY <1>1, <1>2 DEF Range
<1> QED BY <1>3, <1>7, <1>8

(* The reads started go from the queue to those in flight, within ReadDepth.*)
LEMMA StartedIs ==
    ASSUME CacheAssumption, NEW queue, QueueOf(queue), NEW fly, IsFiniteSet(fly), Cardinality(fly) <= ReadDepth,
           Started(queue, fly)
    PROVE  \E new : /\ flying' = fly \cup new /\ new \cup Range(read_queue') = Range(queue)
                    /\ new \cap Range(read_queue') = {} /\ QueueOf(read_queue')
                    /\ IsFiniteSet(flying') /\ Cardinality(flying') <= ReadDepth
<1>1. queue \in Seq(CacheReads) /\ \A i, j \in 1..Len(queue) : queue[i] = queue[j] => i = j
  BY DEF QueueOf
<1>2. PICK m \in Nat : m = Len(queue)
  BY <1>1
<1>3. PICK d \in Nat : d = ReadDepth - Cardinality(fly)
  <2>1. Cardinality(fly) \in Nat /\ ReadDepth \in Nat
    BY FS_CardinalityType, FiniteCounts
  <2>2. ReadDepth - Cardinality(fly) \in Nat
    BY ONLY <2>1, Cardinality(fly) <= ReadDepth
  <2> QED BY <2>2
<1>4. PICK n \in Nat : n = Min({m, d}) /\ n <= m /\ n <= d
  <2>1. \E x \in {m, d} : \A y \in {m, d} : x =< y
    OBVIOUS
  <2>2. Min({m, d}) \in {m, d} /\ \A y \in {m, d} : Min({m, d}) =< y
    BY <2>1 DEF Min
  <2> QED BY <2>2
<1>5. flying' = fly \cup {queue[i] : i \in 1..n} /\ read_queue' = SubSeq(queue, n + 1, m)
  BY <1>2, <1>3, <1>4 DEF Started
<1> DEFINE new == {queue[i] : i \in 1..n}
<1>6. PICK k \in Nat : k = m - n
  BY <1>4
<1>7. /\ read_queue' \in Seq(CacheReads) /\ Len(read_queue') = k
      /\ \A i \in 1..k : read_queue'[i] = queue[n + i]
  <2>1. \A i \in (n + 1)..m : queue[i] \in CacheReads
    BY SMTT(30), <1>1, <1>2
  <2>2. n + 1 \in Int /\ m \in Int
    OBVIOUS
  <2>3. /\ SubSeq(queue, n + 1, m) \in Seq(CacheReads)
        /\ Len(SubSeq(queue, n + 1, m)) = (IF n + 1 <= m THEN m - (n + 1) + 1 ELSE 0)
        /\ \A i \in 1..(m - (n + 1) + 1) : SubSeq(queue, n + 1, m)[i] = queue[(n + 1) + i - 1]
    BY <2>1, <2>2, SubSeqProperties
  <2>4. (IF n + 1 <= m THEN m - (n + 1) + 1 ELSE 0) = k /\ m - (n + 1) + 1 = k
    BY ONLY <1>4, <1>6
  <2>5. \A i \in 1..k : (n + 1) + i - 1 = n + i
    OBVIOUS
  <2> QED BY <1>5, <2>3, <2>4, <2>5
<1>8. Range(read_queue') = {queue[n + i] : i \in 1..k}
  <2>1. DOMAIN read_queue' = 1..k
    BY <1>7
  <2> QED BY ONLY <1>7, <2>1 DEF Range
<1>9. Range(queue) = {queue[i] : i \in 1..m}
  <2>1. DOMAIN queue = 1..m
    BY <1>1, <1>2
  <2> QED BY ONLY <2>1 DEF Range
<1>10. new \cup Range(read_queue') = Range(queue)
  <2>1. \A i \in 1..k : n + i \in 1..m
    BY <1>4, <1>6
  <2>2. \A i \in 1..n : i \in 1..m
    BY <1>4
  <2>3. \A i \in 1..m : i \in 1..n \/ \E j \in 1..k : i = n + j
    <3> SUFFICES ASSUME NEW i \in 1..m, i \notin 1..n PROVE \E j \in 1..k : i = n + j
      OBVIOUS
    <3>1. i - n \in 1..k /\ i = n + (i - n)
      BY <1>6
    <3> QED BY <3>1
  <2> QED BY <1>8, <1>9, <2>1, <2>2, <2>3
<1>11. new \cap Range(read_queue') = {}
  <2>1. \A i \in 1..n, j \in 1..k : i \in 1..m /\ n + j \in 1..m /\ i # n + j
    BY <1>4, <1>6
  <2> QED BY <1>1, <1>2, <1>8, <2>1
<1>12. QueueOf(read_queue')
  <2>1. \A i, j \in 1..k : n + i \in 1..m /\ n + j \in 1..m /\ (n + i = n + j => i = j)
    BY <1>4, <1>6
  <2> QED BY <1>1, <1>2, <1>7, <2>1 DEF QueueOf
<1>13. IsFiniteSet(new) /\ Cardinality(new) <= n /\ Cardinality(new) \in Nat
  <2>1. IsFiniteSet(1..n) /\ Cardinality(1..n) = n
    BY NumbersTo
  <2>2. PICK g : g = [i \in 1..n |-> queue[i]]
    OBVIOUS
  <2>3. g \in Surjection(1..n, new)
    BY <2>2 DEF Surjection
  <2>4. IsFiniteSet(new) /\ Cardinality(new) <= Cardinality(1..n)
    <3> HIDE DEF new
    <3> QED BY <2>1, <2>3, FS_Surjection
  <2> QED BY <2>1, <2>4, FS_CardinalityType
<1>14. IsFiniteSet(flying') /\ Cardinality(flying') <= ReadDepth
  <2> HIDE DEF new
  <2>0. flying' = fly \cup new
    BY <1>5 DEF new
  <2>1. IsFiniteSet(fly \cup new) /\ Cardinality(fly \cup new) = Cardinality(fly) + Cardinality(new) - Cardinality(fly \cap new)
    BY <1>13, FS_Union
  <2>2. Cardinality(fly \cap new) \in Nat /\ Cardinality(fly) \in Nat /\ ReadDepth \in Nat
    BY <1>13, FS_Intersection, FS_CardinalityType, FiniteCounts
  <2>3. Cardinality(fly \cup new) <= ReadDepth
    BY ONLY <1>3, <1>4, <1>13, <2>1, <2>2
  <2> QED BY <2>0, <2>1, <2>3
<1>15. flying' = fly \cup new
  BY <1>5
<1> QED
  <2> HIDE DEF new
  <2> QED BY <1>10, <1>11, <1>12, <1>14, <1>15

(* No slice is the one of an empty slot.                                   *)
LEMMA SlicesAreReal == NoSlice \notin Slices /\ NoEntry \notin SlotIds /\ Torn \notin Slices /\ Torn # NoSlice
  BY DEF NoSlice, Torn, NoEntry, Slices, Layers, Experts, SlotIds

(* A read is of a slice, into a slot.                                      *)
LEMMA ReadIs ==
    ASSUME NEW r \in CacheReads
    PROVE  r.slice \in Slices /\ r.slot \in SlotIds /\ r.slice # NoSlice
  BY SlicesAreReal DEF CacheReads

(* A read is its slice and its slot.                                       *)
LEMMA SameRead ==
    ASSUME NEW r \in CacheReads, NEW q \in CacheReads, r.slice = q.slice, r.slot = q.slot
    PROVE  r = q
  BY DEF CacheReads

(* Two reads not landed yet of one slice are the same read.                *)
LEMMA OneRead ==
    ASSUME NEW sl, NEW qd, NEW fl, NEW la, NEW op, NEW sb, HeldIn(sl, qd, fl, la, op, sb), PlacedIn(sl),
           NEW r \in qd \cup fl, NEW q \in qd \cup fl, r.slice = q.slice
    PROVE  r = q
<1>1. r \in CacheReads /\ q \in CacheReads /\ sl[r.slot] = r.slice /\ sl[q.slot] = q.slice
  BY DEF HeldIn
<1>2. r.slot = q.slot
  BY <1>1, ReadIs DEF PlacedIn
<1> QED BY <1>1, <1>2, SameRead

(* Queued reads are dropped: their slots are emptied, and nothing else     *)
(* changes.                                                                *)
LEMMA ContentsDrop ==
    ASSUME NEW sl \in [SlotIds -> Slices \cup {NoSlice}], PlacedIn(sl), NEW ro \in SUBSET SlotIds, NEW qd, NEW fl, NEW la,
           NEW op, NEW mi, NEW tb, NEW sb, ContentsIn(sl, ro, qd, fl, la, op, mi, tb, sb),
           NEW drop \in SUBSET qd
    PROVE  /\ {s \in ro : Forget(sl, drop)[s] # NoSlice} = ro
           /\ ContentsIn(Forget(sl, drop), ro, qd \ drop, fl, la, op \ {r.slice : r \in drop}, mi, tb, sb)
<1> PICK nsl : nsl = Forget(sl, drop)
  OBVIOUS
<1> PICK S : S = {r.slice : r \in drop}
  OBVIOUS
<1>1. \A s \in SlotIds : nsl[s] = IF sl[s] \in S THEN NoSlice ELSE sl[s]
  BY ForgetKeeps
<1>h. HeldIn(sl, qd, fl, la, op, sb) /\ MissingIn(sl, op, mi, tb, sb) /\ EntriesIn(sl, op, mi, tb, sb) /\ PinnedIn(sl, ro, op)
  BY DEF ContentsIn
<1>2. S \subseteq op
  BY <1>h DEF HeldIn
<1>3. ASSUME NEW r \in (qd \ drop) \cup fl PROVE r.slice \notin S
  <2> SUFFICES ASSUME NEW q \in drop, q.slice = r.slice PROVE FALSE
    OBVIOUS
  <2>1. r = q
    BY <1>h, OneRead
  <2> QED BY <1>h, <2>1 DEF HeldIn
<1>4. HeldIn(nsl, qd \ drop, fl, la, op \ S, sb)
  <2>1. /\ qd \cup fl \cup la \subseteq CacheReads /\ op \subseteq Slices /\ qd \cap fl = {}
        /\ \A r \in qd \cup fl : sl[r.slot] = r.slice /\ r.slice \in op
        /\ \A r \in fl : sb[r.slot] = Torn
        /\ \A r \in la : r.slice \in op => sl[r.slot] = r.slice /\ sb[r.slot] = r.slice
        /\ \A x \in op : \E r \in qd \cup fl \cup la : r.slice = x
    BY <1>h DEF HeldIn
  <2>2. \A r \in qd \cup fl \cup la : r.slot \in SlotIds
    BY <2>1, ReadIs
  <2>3. \A r \in (qd \ drop) \cup fl : nsl[r.slot] = r.slice /\ r.slice \in op \ S
    BY <1>1, <1>3, <2>1, <2>2
  <2>4. \A r \in la : r.slice \in op \ S => nsl[r.slot] = r.slice /\ sb[r.slot] = r.slice
    BY <1>1, <2>1, <2>2
  <2>5. \A x \in op \ S : \E r \in (qd \ drop) \cup fl \cup la : r.slice = x
    BY <2>1
  <2>6. (qd \ drop) \cup fl \cup la \subseteq CacheReads /\ op \ S \subseteq Slices /\ (qd \ drop) \cap fl = {}
    BY <2>1
  <2> QED BY ONLY <2>1, <2>3, <2>4, <2>5, <2>6 DEF HeldIn
<1>5. MissingIn(nsl, op \ S, mi, tb, sb)
  <2>1. /\ mi \subseteq CacheReads
        /\ \A r \in mi : sl[r.slot] = r.slice /\ r.slice \notin op /\ sb[r.slot] = Torn /\ tb[r.slice] = NoEntry
    BY <1>h DEF MissingIn
  <2>2. \A r \in mi : nsl[r.slot] = r.slice /\ r.slice \notin op \ S
    BY <1>1, <1>2, <2>1, ReadIs
  <2> QED BY ONLY <2>1, <2>2 DEF MissingIn
<1>6. EntriesIn(nsl, op \ S, mi, tb, sb)
  <2>1. /\ tb \in [Slices -> SlotIds \cup {NoEntry}] /\ sb \in [SlotIds -> Slices \cup {NoSlice, Torn}]
        /\ \A x \in Slices : tb[x] # NoEntry => sb[tb[x]] = x /\ sl[tb[x]] = x /\ x \notin op
        /\ \A s \in SlotIds : sl[s] # NoSlice => tb[sl[s]] = s \/ sl[s] \in op \/ \E r \in mi : r.slice = sl[s]
    BY <1>h DEF EntriesIn
  <2>2. \A x \in Slices : tb[x] # NoEntry => nsl[tb[x]] = x /\ x \notin op \ S
    BY <1>1, <1>2, <2>1
  <2>3. ASSUME NEW s \in SlotIds, nsl[s] # NoSlice
        PROVE  tb[nsl[s]] = s \/ nsl[s] \in op \ S \/ \E r \in mi : r.slice = nsl[s]
    BY <1>1, <2>1, <2>3
  <2> QED BY ONLY <2>1, <2>2, <2>3 DEF EntriesIn
<1>7. \A s \in ro : nsl[s] = sl[s]
  BY <1>1, <1>2, <1>h DEF PinnedIn
<1>8. PinnedIn(nsl, ro, op \ S) /\ {s \in ro : nsl[s] # NoSlice} = ro
  BY <1>7, <1>h DEF PinnedIn
<1> QED BY <1>4, <1>5, <1>6, <1>8 DEF ContentsIn

(* A read of x gets the slot s: what the slot held is unentered, its own   *)
(* read given up, and reads that start tear their slots.                   *)
LEMMA ContentsPlace ==
    ASSUME NEW sl \in [SlotIds -> Slices \cup {NoSlice}], PlacedIn(sl), NEW ro \in SUBSET SlotIds, NEW qd, NEW fl, NEW la,
           NEW op, NEW tb, NEW sb, ContentsIn(sl, ro, qd, fl, la, op, {}, tb, sb),
           NEW x \in Slices, \A t \in SlotIds : sl[t] # x, NEW s \in SlotIds \ ro,
           sl[s] \in op => \A r \in fl : r.slice # sl[s],
           NEW nq, NEW nf, fl \subseteq nf, nq \cap nf = {},
           nq \cup nf = (qd \ {r \in qd : r.slice = sl[s] /\ sl[s] \in op}) \cup fl \cup {[slice |-> x, slot |-> s]},
           \A r \in la, q \in nf \cup nq : r.slice # q.slice
    PROVE  ContentsIn([sl EXCEPT ![s] = x], ro, nq, nf, la, (op \ {sl[s]}) \cup {x}, {}, Unentered(tb, {sl[s]}),
                      Writing(sb, nf \ fl))
<1> PICK nsl : nsl = [sl EXCEPT ![s] = x]
  OBVIOUS
<1> PICK old : old = sl[s]
  OBVIOUS
<1> PICK new : new = [slice |-> x, slot |-> s]
  OBVIOUS
<1> PICK nop : nop = (op \ {old}) \cup {x}
  OBVIOUS
<1> PICK ntb : ntb = Unentered(tb, {old})
  OBVIOUS
<1> PICK nsb : nsb = Writing(sb, nf \ fl)
  OBVIOUS
<1>h. HeldIn(sl, qd, fl, la, op, sb) /\ EntriesIn(sl, op, {}, tb, sb) /\ PinnedIn(sl, ro, op)
  BY DEF ContentsIn
<1>a. /\ qd \cup fl \cup la \subseteq CacheReads /\ op \subseteq Slices /\ qd \cap fl = {}
      /\ \A r \in qd \cup fl : sl[r.slot] = r.slice /\ r.slice \in op
      /\ \A r \in fl : sb[r.slot] = Torn
      /\ \A r \in la : r.slice \in op => sl[r.slot] = r.slice /\ sb[r.slot] = r.slice
      /\ \A y \in op : \E r \in qd \cup fl \cup la : r.slice = y
  BY <1>h DEF HeldIn
<1>e. /\ tb \in [Slices -> SlotIds \cup {NoEntry}] /\ sb \in [SlotIds -> Slices \cup {NoSlice, Torn}]
      /\ \A y \in Slices : tb[y] # NoEntry => sb[tb[y]] = y /\ sl[tb[y]] = y /\ y \notin op
      /\ \A t \in SlotIds : sl[t] # NoSlice => tb[sl[t]] = t \/ sl[t] \in op
  BY <1>h DEF EntriesIn
<1>1. /\ nsl[s] = x /\ \A t \in SlotIds : t # s => nsl[t] = sl[t]
  OBVIOUS
<1>n. new \in CacheReads /\ new.slice = x /\ new.slot = s
  BY DEF CacheReads
<1>c. nq \cup nf \subseteq CacheReads /\ \A r \in nq \cup nf \cup la : r.slot \in SlotIds /\ r.slice \in Slices
  BY <1>a, <1>n, ReadIs
<1>2. ASSUME NEW r \in nq \cup nf, r # new
      PROVE  r \in qd \cup fl /\ r.slot # s /\ r.slice # old /\ nsl[r.slot] = r.slice /\ r.slice \in op
  <2>1. r \in qd \cup fl /\ ~(r \in qd /\ r.slice = old /\ old \in op)
    BY <1>2
  <2>2. sl[r.slot] = r.slice /\ r.slice \in op /\ r.slot \in SlotIds
    BY <1>a, <1>c, <2>1
  <2>3. r.slice # old
    BY <2>1, <2>2
  <2> QED BY <1>1, <2>1, <2>2, <2>3
<1>3. \A r \in nq \cup nf : nsl[r.slot] = r.slice /\ r.slice \in nop
  BY <1>1, <1>2, <1>n
<1>w. \A t \in SlotIds : nsb[t] = IF \E q \in nf \ fl : q.slot = t THEN Torn ELSE sb[t]
  BY DEF Writing
<1>4. HeldIn(nsl, nq, nf, la, nop, nsb)
  <2>1. \A r \in nf : nsb[r.slot] = Torn
    BY <1>a, <1>c, <1>w
  <2>2. ASSUME NEW r \in la, r.slice \in nop PROVE nsl[r.slot] = r.slice /\ nsb[r.slot] = r.slice
    <3>1. r.slice # x
      BY <1>n
    <3>2. sl[r.slot] = r.slice /\ sb[r.slot] = r.slice /\ r.slice # old /\ r.slot \in SlotIds
      BY <1>a, <1>c, <2>2, <3>1
    <3>3. nsl[r.slot] = r.slice
      BY <1>1, <3>2
    <3>4. ASSUME NEW q \in nf \ fl, q.slot = r.slot PROVE FALSE
      BY <1>3, <3>3, <3>4
    <3> QED BY <1>w, <3>2, <3>3, <3>4
  <2>3. ASSUME NEW y \in nop PROVE \E r \in nq \cup nf \cup la : r.slice = y
    <3>1. CASE y = x
      BY <1>n, <3>1
    <3>2. CASE y # x
      BY <1>a, <2>3, <3>2
    <3> QED BY <3>1, <3>2
  <2>4. nq \cup nf \cup la \subseteq CacheReads /\ nop \subseteq Slices /\ nq \cap nf = {}
    BY <1>a, <1>c
  <2> QED BY ONLY <1>3, <2>1, <2>2, <2>3, <2>4 DEF HeldIn
<1>u. \A y \in Slices : ntb[y] = IF y = old THEN NoEntry ELSE tb[y]
  BY DEF Unentered
<1>5. EntriesIn(nsl, nop, {}, ntb, nsb)
  <2>1. ntb \in [Slices -> SlotIds \cup {NoEntry}]
    BY <1>e DEF Unentered
  <2>2. nsb \in [SlotIds -> Slices \cup {NoSlice, Torn}]
    BY <1>e DEF Writing
  <2>3. ASSUME NEW y \in Slices, ntb[y] # NoEntry
        PROVE  nsb[ntb[y]] = y /\ nsl[ntb[y]] = y /\ y \notin nop
    <3>0. y # old /\ ntb[y] = tb[y] /\ tb[y] # NoEntry
      BY ONLY <1>u, <2>3
    <3>1. y # old /\ ntb[y] = tb[y] /\ tb[y] \in SlotIds /\ sb[tb[y]] = y /\ sl[tb[y]] = y /\ y \notin op
      BY ONLY <1>e, <3>0
    <3>2. y # x /\ tb[y] # s
      BY <3>1
    <3>3. nsl[tb[y]] = y
      BY <1>1, <3>1, <3>2
    <3>4. y \notin nop
      BY <3>1, <3>2
    <3>5. ASSUME NEW q \in nf \ fl, q.slot = tb[y] PROVE FALSE
      BY <1>3, <3>3, <3>4, <3>5
    <3> QED BY <1>w, <3>1, <3>3, <3>4, <3>5
  <2>4. ASSUME NEW t \in SlotIds, nsl[t] # NoSlice PROVE ntb[nsl[t]] = t \/ nsl[t] \in nop
    <3>1. CASE t = s
      BY <1>1, <3>1
    <3>2. CASE t # s
      <4>1. nsl[t] = sl[t] /\ sl[t] # old /\ sl[t] \in Slices
        BY <1>1, <2>4, <3>2 DEF PlacedIn
      <4> QED BY <1>e, <1>u, <2>4, <4>1
    <3> QED BY <3>1, <3>2
  <2> QED BY ONLY <2>1, <2>2, <2>3, <2>4 DEF EntriesIn
<1>6. PinnedIn(nsl, ro, nop)
  <2>1. \A t \in ro : t \in SlotIds /\ t # s /\ nsl[t] = sl[t] /\ sl[t] # x
    BY <1>1
  <2> QED BY <1>h, <2>1 DEF PinnedIn
<1>7. MissingIn(nsl, nop, {}, ntb, nsb)
  BY DEF MissingIn
<1> QED BY <1>4, <1>5, <1>6, <1>7 DEF ContentsIn

(* The misses are read, and the entries point at their slots.              *)
LEMMA ContentsRead ==
    ASSUME NEW sl \in [SlotIds -> Slices \cup {NoSlice}], PlacedIn(sl), NEW ro \in SUBSET SlotIds, NEW qd, NEW fl, NEW la,
           NEW op, NEW mi, NEW tb, NEW sb, ContentsIn(sl, ro, qd, fl, la, op, mi, tb, sb), NEW ntb, NEW nsb,
           nsb = [s \in SlotIds |-> IF \E r \in mi : r.slot = s THEN (CHOOSE r \in mi : r.slot = s).slice ELSE sb[s]],
           ntb = [x \in Slices |-> IF \E r \in mi : r.slice = x THEN (CHOOSE r \in mi : r.slice = x).slot ELSE tb[x]]
    PROVE  ContentsIn(sl, ro, qd, fl, la, op, {}, ntb, nsb)
<1>h. HeldIn(sl, qd, fl, la, op, sb) /\ MissingIn(sl, op, mi, tb, sb) /\ EntriesIn(sl, op, mi, tb, sb) /\ PinnedIn(sl, ro, op)
  BY DEF ContentsIn
<1>a. /\ qd \cup fl \cup la \subseteq CacheReads /\ op \subseteq Slices /\ qd \cap fl = {}
      /\ \A r \in qd \cup fl : sl[r.slot] = r.slice /\ r.slice \in op
      /\ \A r \in fl : sb[r.slot] = Torn
      /\ \A r \in la : r.slice \in op => sl[r.slot] = r.slice /\ sb[r.slot] = r.slice
      /\ \A y \in op : \E r \in qd \cup fl \cup la : r.slice = y
  BY <1>h DEF HeldIn
<1>e. /\ tb \in [Slices -> SlotIds \cup {NoEntry}] /\ sb \in [SlotIds -> Slices \cup {NoSlice, Torn}]
      /\ \A y \in Slices : tb[y] # NoEntry => sb[tb[y]] = y /\ sl[tb[y]] = y /\ y \notin op
      /\ \A t \in SlotIds : sl[t] # NoSlice => tb[sl[t]] = t \/ sl[t] \in op \/ \E r \in mi : r.slice = sl[t]
  BY <1>h DEF EntriesIn
<1>m. /\ mi \subseteq CacheReads
      /\ \A r \in mi : sl[r.slot] = r.slice /\ r.slice \notin op /\ sb[r.slot] = Torn /\ tb[r.slice] = NoEntry
  BY <1>h DEF MissingIn
<1>c. \A r \in mi \cup qd \cup fl \cup la : r.slot \in SlotIds /\ r.slice \in Slices /\ r.slice # NoSlice
  BY <1>a, <1>m, ReadIs
<1>1. ASSUME NEW r \in mi PROVE nsb[r.slot] = r.slice /\ ntb[r.slice] = r.slot
  <2>1. \A q \in mi : q.slot = r.slot => q.slice = r.slice
    BY <1>m
  <2>2. \A q \in mi : q.slice = r.slice => q.slot = r.slot
    BY <1>m, <1>c DEF PlacedIn
  <2>3. nsb[r.slot] = (CHOOSE q \in mi : q.slot = r.slot).slice
    BY <1>c
  <2>4. ntb[r.slice] = (CHOOSE q \in mi : q.slice = r.slice).slot
    BY <1>c
  <2> QED BY <2>1, <2>2, <2>3, <2>4
<1>2. \A s \in SlotIds : nsb[s] # sb[s] => \E r \in mi : r.slot = s
  OBVIOUS
<1>3. \A x \in Slices : ntb[x] # tb[x] => \E r \in mi : r.slice = x
  OBVIOUS
<1>4. \A s \in SlotIds : sb[s] # Torn /\ sb[s] # sl[s] => nsb[s] = sb[s]
  BY <1>2, <1>m
<1>5. HeldIn(sl, qd, fl, la, op, nsb)
  <2>1. ASSUME NEW r \in fl PROVE nsb[r.slot] = Torn
    <3>1. ~ \E q \in mi : q.slot = r.slot
      BY <1>a, <1>m
    <3> QED BY <1>2, <1>a, <1>c, <3>1
  <2>2. ASSUME NEW r \in la, r.slice \in op PROVE nsb[r.slot] = r.slice
    <3>1. ~ \E q \in mi : q.slot = r.slot
      BY <1>a, <1>m, <2>2
    <3> QED BY <1>2, <1>a, <1>c, <2>2, <3>1
  <2> QED BY ONLY <1>a, <2>1, <2>2 DEF HeldIn
<1>6. EntriesIn(sl, op, {}, ntb, nsb)
  <2>1. \A r \in mi : (CHOOSE q \in mi : q.slot = r.slot) \in mi /\ (CHOOSE q \in mi : q.slice = r.slice) \in mi
    OBVIOUS
  <2>2. ntb \in [Slices -> SlotIds \cup {NoEntry}]
    <3> SUFFICES ASSUME NEW y \in Slices PROVE ntb[y] \in SlotIds \cup {NoEntry}
      OBVIOUS
    <3>1. CASE \E r \in mi : r.slice = y
      BY <1>1, <1>c, <3>1
    <3>2. CASE ~ \E r \in mi : r.slice = y
      BY <1>3, <1>e, <3>2
    <3> QED BY <3>1, <3>2
  <2>3. nsb \in [SlotIds -> Slices \cup {NoSlice, Torn}]
    <3> SUFFICES ASSUME NEW t \in SlotIds PROVE nsb[t] \in Slices \cup {NoSlice, Torn}
      OBVIOUS
    <3>1. CASE \E r \in mi : r.slot = t
      BY <1>1, <1>c, <3>1
    <3>2. CASE ~ \E r \in mi : r.slot = t
      BY <1>2, <1>e, <3>2
    <3> QED BY <3>1, <3>2
  <2>4. ASSUME NEW y \in Slices, ntb[y] # NoEntry
        PROVE  nsb[ntb[y]] = y /\ sl[ntb[y]] = y /\ y \notin op
    <3>1. CASE \E r \in mi : r.slice = y
      <4>1. PICK r \in mi : r.slice = y
        BY <3>1
      <4>2. nsb[r.slot] = r.slice /\ ntb[r.slice] = r.slot /\ sl[r.slot] = r.slice /\ r.slice \notin op
        BY <1>1, <1>m
      <4> QED BY ONLY <4>1, <4>2
    <3>2. CASE ~ \E r \in mi : r.slice = y
      <4>1. ntb[y] = tb[y] /\ tb[y] \in SlotIds /\ sb[tb[y]] = y /\ sl[tb[y]] = y /\ y \notin op
        BY <1>3, <1>e, <2>4, <3>2
      <4>2. ~ \E q \in mi : q.slot = tb[y]
        BY <1>m, <3>2, <4>1
      <4> QED BY <1>2, <4>1, <4>2
    <3> QED BY <3>1, <3>2
  <2>5. ASSUME NEW t \in SlotIds, sl[t] # NoSlice PROVE ntb[sl[t]] = t \/ sl[t] \in op
    <3>0. sl[t] \in Slices
      BY <2>5
    <3>1. CASE \E r \in mi : r.slice = sl[t]
      <4>1. PICK r \in mi : r.slice = sl[t]
        BY <3>1
      <4>2. r.slot = t
        BY <1>m, <1>c, <4>1, <2>5 DEF PlacedIn
      <4>3. ntb[r.slice] = r.slot
        BY <1>1
      <4> QED BY ONLY <4>1, <4>2, <4>3
    <3>2. CASE ~ \E r \in mi : r.slice = sl[t]
      BY <1>3, <1>e, <2>5, <3>0, <3>2
    <3> QED BY <3>1, <3>2
  <2> QED BY ONLY <2>2, <2>3, <2>4, <2>5 DEF EntriesIn
<1>7. MissingIn(sl, op, {}, ntb, nsb)
  BY DEF MissingIn
<1> QED BY <1>5, <1>6, <1>7, <1>h DEF ContentsIn

(* What landed and still has its slot is entered, and no longer            *)
(* outstanding.                                                            *)
LEMMA ContentsPublish ==
    ASSUME NEW sl \in [SlotIds -> Slices \cup {NoSlice}], PlacedIn(sl), NEW ro \in SUBSET SlotIds, NEW qd, NEW fl, NEW la,
           NEW op, NEW tb, NEW sb, ContentsIn(sl, ro, qd, fl, la, op, {}, tb, sb), NEW ntb, NEW out,
           \A r \in la, q \in fl \cup qd : r.slice # q.slice,
           out = {r \in la : r.slice \in op /\ sl[r.slot] = r.slice},
           ntb = [x \in Slices |-> IF \E r \in out : r.slice = x THEN (CHOOSE r \in out : r.slice = x).slot ELSE tb[x]]
    PROVE  ContentsIn(sl, ro, qd, fl, {}, op \ {r.slice : r \in la}, {}, ntb, sb)
<1> PICK nop : nop = op \ {r.slice : r \in la}
  OBVIOUS
<1>h. HeldIn(sl, qd, fl, la, op, sb) /\ EntriesIn(sl, op, {}, tb, sb) /\ PinnedIn(sl, ro, op)
  BY DEF ContentsIn
<1>a. /\ qd \cup fl \cup la \subseteq CacheReads /\ op \subseteq Slices /\ qd \cap fl = {}
      /\ \A r \in qd \cup fl : sl[r.slot] = r.slice /\ r.slice \in op
      /\ \A r \in fl : sb[r.slot] = Torn
      /\ \A r \in la : r.slice \in op => sl[r.slot] = r.slice /\ sb[r.slot] = r.slice
      /\ \A y \in op : \E r \in qd \cup fl \cup la : r.slice = y
  BY <1>h DEF HeldIn
<1>e. /\ tb \in [Slices -> SlotIds \cup {NoEntry}] /\ sb \in [SlotIds -> Slices \cup {NoSlice, Torn}]
      /\ \A y \in Slices : tb[y] # NoEntry => sb[tb[y]] = y /\ sl[tb[y]] = y /\ y \notin op
      /\ \A t \in SlotIds : sl[t] # NoSlice => tb[sl[t]] = t \/ sl[t] \in op
  BY <1>h DEF EntriesIn
<1>c. \A r \in qd \cup fl \cup la : r.slot \in SlotIds /\ r.slice \in Slices /\ r.slice # NoSlice
  BY <1>a, ReadIs
<1>o. /\ \A r \in out : r \in la /\ r.slice \in op /\ sl[r.slot] = r.slice /\ sb[r.slot] = r.slice /\ r.slice \notin nop
      /\ \A r \in la : r.slice \in op => r \in out
  BY <1>a
<1>1. ASSUME NEW r \in out PROVE ntb[r.slice] = r.slot
  <2>1. \A q \in out : q.slice = r.slice => q.slot = r.slot
    BY <1>o, <1>c DEF PlacedIn
  <2>2. ntb[r.slice] = (CHOOSE q \in out : q.slice = r.slice).slot
    BY <1>c, <1>o
  <2> QED BY <2>1, <2>2
<1>2. \A x \in Slices : ~(\E r \in out : r.slice = x) => ntb[x] = tb[x]
  OBVIOUS
<1>3. HeldIn(sl, qd, fl, {}, nop, sb)
  <2>1. \A r \in qd \cup fl : r.slice \in nop
    BY <1>a
  <2>2. \A y \in nop : \E r \in qd \cup fl \cup {} : r.slice = y
    BY <1>a
  <2>3. qd \cup fl \cup {} \subseteq CacheReads /\ nop \subseteq Slices
    BY <1>a
  <2> QED BY ONLY <1>a, <2>1, <2>2, <2>3 DEF HeldIn
<1>4. EntriesIn(sl, nop, {}, ntb, sb)
  <2>1. ntb \in [Slices -> SlotIds \cup {NoEntry}]
    <3> SUFFICES ASSUME NEW y \in Slices PROVE ntb[y] \in SlotIds \cup {NoEntry}
      OBVIOUS
    <3>1. CASE \E r \in out : r.slice = y
      <4>1. PICK r \in out : r.slice = y
        BY <3>1
      <4>2. ntb[r.slice] = r.slot /\ r.slot \in SlotIds
        BY <1>1, <1>c, <1>o
      <4> QED BY ONLY <4>1, <4>2
    <3>2. CASE ~ \E r \in out : r.slice = y
      BY <1>2, <1>e, <3>2
    <3> QED BY <3>1, <3>2
  <2>2. ASSUME NEW y \in Slices, ntb[y] # NoEntry
        PROVE  sb[ntb[y]] = y /\ sl[ntb[y]] = y /\ y \notin nop
    <3>1. CASE \E r \in out : r.slice = y
      <4>1. PICK r \in out : r.slice = y
        BY <3>1
      <4>2. ntb[r.slice] = r.slot /\ sl[r.slot] = r.slice /\ sb[r.slot] = r.slice /\ r.slice \notin nop
        BY <1>1, <1>o
      <4> QED BY ONLY <4>1, <4>2
    <3>2. CASE ~ \E r \in out : r.slice = y
      BY <1>2, <1>e, <2>2, <3>2
    <3> QED BY <3>1, <3>2
  <2>3. ASSUME NEW t \in SlotIds, sl[t] # NoSlice PROVE ntb[sl[t]] = t \/ sl[t] \in nop
    <3>0. sl[t] \in Slices
      BY <2>3
    <3>1. CASE \E r \in out : r.slice = sl[t]
      <4>1. PICK r \in out : r.slice = sl[t]
        BY <3>1
      <4>2. r.slot = t
        BY <1>o, <1>c, <4>1, <2>3 DEF PlacedIn
      <4>3. ntb[r.slice] = r.slot
        BY <1>1
      <4> QED BY ONLY <4>1, <4>2, <4>3
    <3>2. CASE ~ \E r \in out : r.slice = sl[t]
      <4>1. ntb[sl[t]] = tb[sl[t]]
        BY <1>2, <3>0, <3>2
      <4>2. CASE sl[t] \in op
        BY <1>o, <3>2, <4>2
      <4> QED BY <1>e, <2>3, <4>1, <4>2
    <3> QED BY <3>1, <3>2
  <2> QED BY ONLY <1>e, <2>1, <2>2, <2>3 DEF EntriesIn
<1>5. PinnedIn(sl, ro, nop) /\ MissingIn(sl, nop, {}, ntb, sb)
  BY <1>h DEF PinnedIn, MissingIn
<1> QED BY <1>3, <1>4, <1>5 DEF ContentsIn

(* A read lands and the next ones start.                                   *)
LEMMA ContentsLand ==
    ASSUME NEW sl \in [SlotIds -> Slices \cup {NoSlice}], PlacedIn(sl), NEW ro \in SUBSET SlotIds, NEW qd, NEW fl, NEW la,
           NEW op, NEW mi, NEW tb, NEW sb, ContentsIn(sl, ro, qd, fl, la, op, mi, tb, sb), NEW r \in fl,
           \A p \in la, q \in fl \cup qd : p.slice # q.slice,
           NEW nq, NEW nf, NEW new, nf = (fl \ {r}) \cup new, new \cup nq = qd, new \cap nq = {}
    PROVE  ContentsIn(sl, ro, nq, nf, la \cup {r}, op, mi, tb, Writing([sb EXCEPT ![r.slot] = r.slice], nf \ fl))
<1> PICK nsb : nsb = Writing([sb EXCEPT ![r.slot] = r.slice], nf \ fl)
  OBVIOUS
<1>h. HeldIn(sl, qd, fl, la, op, sb) /\ MissingIn(sl, op, mi, tb, sb) /\ EntriesIn(sl, op, mi, tb, sb) /\ PinnedIn(sl, ro, op)
  BY DEF ContentsIn
<1>a. /\ qd \cup fl \cup la \subseteq CacheReads /\ op \subseteq Slices /\ qd \cap fl = {}
      /\ \A p \in qd \cup fl : sl[p.slot] = p.slice /\ p.slice \in op
      /\ \A p \in fl : sb[p.slot] = Torn
      /\ \A p \in la : p.slice \in op => sl[p.slot] = p.slice /\ sb[p.slot] = p.slice
      /\ \A y \in op : \E p \in qd \cup fl \cup la : p.slice = y
  BY <1>h DEF HeldIn
<1>e. /\ tb \in [Slices -> SlotIds \cup {NoEntry}] /\ sb \in [SlotIds -> Slices \cup {NoSlice, Torn}]
      /\ \A y \in Slices : tb[y] # NoEntry => sb[tb[y]] = y /\ sl[tb[y]] = y /\ y \notin op
      /\ \A t \in SlotIds : sl[t] # NoSlice => tb[sl[t]] = t \/ sl[t] \in op \/ \E p \in mi : p.slice = sl[t]
  BY <1>h DEF EntriesIn
<1>m. /\ mi \subseteq CacheReads
      /\ \A p \in mi : sl[p.slot] = p.slice /\ p.slice \notin op /\ sb[p.slot] = Torn /\ tb[p.slice] = NoEntry
  BY <1>h DEF MissingIn
<1>c. \A p \in mi \cup qd \cup fl \cup la : p.slot \in SlotIds /\ p.slice \in Slices /\ p.slice # NoSlice
  BY <1>a, <1>m, ReadIs
<1>t. Slices \subseteq Slices \cup {NoSlice, Torn}
  OBVIOUS
<1>n. nf \ fl = new /\ nf \cup nq = (fl \ {r}) \cup qd /\ nf \cap nq = {} /\ r \notin nf \cup nq
  BY <1>a
<1>w. \A t \in SlotIds : nsb[t] = IF \E q \in new : q.slot = t THEN Torn ELSE IF t = r.slot THEN r.slice ELSE sb[t]
  BY <1>n, <1>c, <1>e DEF Writing
<1>1. ASSUME NEW q \in fl \cup qd, NEW p \in fl \cup qd, q.slot = p.slot PROVE q = p
  <2>1. q.slice = p.slice /\ q \in CacheReads /\ p \in CacheReads
    BY <1>1, <1>a
  <2> QED BY <1>1, <2>1, SameRead
<1>2. HeldIn(sl, nq, nf, la \cup {r}, op, nsb)
  <2>1. ASSUME NEW p \in nf PROVE nsb[p.slot] = Torn
    <3>1. CASE p \in new
      BY <1>w, <1>c, <3>1, <1>n
    <3>2. CASE p \in fl \ {r}
      <4>1. p.slot # r.slot
        BY <1>1, <3>2
      <4> QED BY <1>a, <1>c, <1>w, <3>2, <4>1
    <3> QED BY <3>1, <3>2
  <2>2. ASSUME NEW p \in la \cup {r}, p.slice \in op PROVE sl[p.slot] = p.slice /\ nsb[p.slot] = p.slice
    <3>1. sl[p.slot] = p.slice /\ p.slot \in SlotIds
      BY <1>a, <1>c, <2>2
    <3>2. ASSUME NEW q \in new, q.slot = p.slot PROVE FALSE
      <4>1. q \in qd /\ q.slice = p.slice
        BY <1>a, <3>1, <3>2
      <4>2. p = r
        BY <4>1
      <4> QED BY <1>1, <3>2, <4>1, <4>2, <1>a
    <3>3. CASE p.slot = r.slot
      <4>1. p.slice = r.slice
        BY <1>a, <3>1, <3>3
      <4> QED BY <1>w, <3>1, <3>2, <3>3, <4>1
    <3>4. CASE p.slot # r.slot
      <4>1. sb[p.slot] = p.slice
        BY <1>a, <2>2, <3>4
      <4> QED BY <1>w, <3>1, <3>2, <3>4, <4>1
    <3> QED BY <3>3, <3>4
  <2>3. \A y \in op : \E p \in nq \cup nf \cup (la \cup {r}) : p.slice = y
    BY <1>a, <1>n
  <2>4. nq \cup nf \cup (la \cup {r}) \subseteq CacheReads /\ nq \cap nf = {}
    BY <1>a, <1>n
  <2>5. \A p \in nq \cup nf : sl[p.slot] = p.slice /\ p.slice \in op
    BY <1>a, <1>n
  <2> QED BY ONLY <1>a, <2>1, <2>2, <2>3, <2>4, <2>5 DEF HeldIn
<1>3. ASSUME NEW t \in SlotIds, sl[t] \notin op PROVE nsb[t] = sb[t]
  <2>1. t # r.slot /\ ~ \E q \in new : q.slot = t
    BY <1>3, <1>a
  <2> QED BY <1>w, <2>1
<1>4. MissingIn(sl, op, mi, tb, nsb)
  <2>1. \A p \in mi : nsb[p.slot] = Torn
    BY <1>3, <1>c, <1>m
  <2> QED BY ONLY <1>m, <2>1 DEF MissingIn
<1>5. EntriesIn(sl, op, mi, tb, nsb)
  <2>1. nsb \in [SlotIds -> Slices \cup {NoSlice, Torn}]
    BY <1>c, <1>e DEF Writing
  <2>2. \A y \in Slices : tb[y] # NoEntry => nsb[tb[y]] = y
    <3> SUFFICES ASSUME NEW y \in Slices, tb[y] # NoEntry PROVE nsb[tb[y]] = y
      OBVIOUS
    <3>1. tb[y] \in SlotIds /\ sb[tb[y]] = y /\ sl[tb[y]] = y /\ y \notin op
      BY <1>e
    <3> QED BY <1>3, <3>1
  <2> QED BY ONLY <1>e, <2>1, <2>2 DEF EntriesIn
<1> QED BY <1>2, <1>4, <1>5, <1>h DEF ContentsIn

(* The slots the lookups gave the misses lm, ev having lost theirs.        *)
GaveSlots(sl, ro, lsl, ev, lm, here) ==
    /\ \A s \in SlotIds : lsl[s] # sl[s] => s \notin ro /\ sl[s] \in ev /\ \E r \in lm : r.slot = s
    /\ \A r \in lm : /\ lsl[r.slot] = r.slice /\ lsl[r.slot] # sl[r.slot] /\ r.slice \in here
                     /\ \A s \in SlotIds : sl[s] = r.slice => r.slice \in ev
    /\ \A x \in ev : \E s \in SlotIds : sl[s] = x /\ lsl[s] # x

(* What becomes of the queued reads qd and of the outstanding op.          *)
Sorted(qd, fl, op, ev, lm, here, lost, late, drop, nq, nop, nmi) ==
    /\ lost = ev \cap op /\ \A r \in fl : r.slice \notin lost
    /\ late = {r \in qd : r.slice \notin lost /\ r.slice \in here}
    /\ drop \subseteq {r \in qd : r.slice \notin lost /\ r.slice \notin here}
    /\ nq = {r \in qd : r.slice \notin lost} \ (late \cup drop)
    /\ nop = op \ (lost \cup {r.slice : r \in late \cup drop})
    /\ nmi = lm \cup late

(* The lookups gave slots to the misses lm, the slices ev losing theirs:   *)
(* the lost prefetches are given up, the routed ones among the queued read *)
(* with the misses, the others dropped are emptied.                        *)
LEMMA ContentsLook ==
    ASSUME NEW sl \in [SlotIds -> Slices \cup {NoSlice}], PlacedIn(sl), NEW ro \in SUBSET SlotIds, NEW qd, NEW fl, NEW la,
           NEW op, NEW tb, NEW sb, ContentsIn(sl, ro, qd, fl, la, op, {}, tb, sb),
           NEW lsl \in [SlotIds -> Slices \cup {NoSlice}], PlacedIn(lsl), NEW ev, NEW lm \in SUBSET CacheReads, NEW here,
           GaveSlots(sl, ro, lsl, ev, lm, here), NEW lost, NEW late, NEW drop, NEW nq, NEW nop, NEW nmi,
           Sorted(qd, fl, op, ev, lm, here, lost, late, drop, nq, nop, nmi)
    PROVE  /\ {s \in ro : Forget(lsl, drop)[s] # NoSlice} = ro
           /\ \A s \in SlotIds : lsl[s] \in here => Forget(lsl, drop)[s] = lsl[s]
           /\ ContentsIn(Forget(lsl, drop), ro, nq, fl, la, nop, nmi, Unentered(tb, ev), Writing(sb, nmi))
<1> USE DEF GaveSlots, Sorted
<1> PICK nsl : nsl = Forget(lsl, drop)
  OBVIOUS
<1> PICK S : S = {r.slice : r \in drop}
  OBVIOUS
<1> PICK ntb : ntb = Unentered(tb, ev)
  OBVIOUS
<1> PICK nsb : nsb = Writing(sb, nmi)
  OBVIOUS
<1>h. HeldIn(sl, qd, fl, la, op, sb) /\ EntriesIn(sl, op, {}, tb, sb) /\ PinnedIn(sl, ro, op)
  BY DEF ContentsIn
<1>a. /\ qd \cup fl \cup la \subseteq CacheReads /\ op \subseteq Slices /\ qd \cap fl = {}
      /\ \A p \in qd \cup fl : sl[p.slot] = p.slice /\ p.slice \in op
      /\ \A p \in fl : sb[p.slot] = Torn
      /\ \A p \in la : p.slice \in op => sl[p.slot] = p.slice /\ sb[p.slot] = p.slice
      /\ \A y \in op : \E p \in qd \cup fl \cup la : p.slice = y
  BY <1>h DEF HeldIn
<1>e. /\ tb \in [Slices -> SlotIds \cup {NoEntry}] /\ sb \in [SlotIds -> Slices \cup {NoSlice, Torn}]
      /\ \A y \in Slices : tb[y] # NoEntry => sb[tb[y]] = y /\ sl[tb[y]] = y /\ y \notin op
      /\ \A t \in SlotIds : sl[t] # NoSlice => tb[sl[t]] = t \/ sl[t] \in op
  BY <1>h DEF EntriesIn
<1>c. \A p \in lm \cup qd \cup fl \cup la : p.slot \in SlotIds /\ p.slice \in Slices /\ p.slice # NoSlice
  BY <1>a, ReadIs
<1>1. \A s \in SlotIds : nsl[s] = IF lsl[s] \in S THEN NoSlice ELSE lsl[s]
  BY ForgetKeeps
<1>w. \A t \in SlotIds : nsb[t] = IF \E q \in nmi : q.slot = t THEN Torn ELSE sb[t]
  BY DEF Writing
<1>u. \A y \in Slices : ntb[y] = IF y \in ev THEN NoEntry ELSE tb[y]
  BY DEF Unentered
<1>2. S \subseteq op /\ S \cap here = {} /\ S \cap lost = {}
  BY <1>a
<1>3. ASSUME NEW t \in SlotIds, sl[t] \in op, sl[t] \notin lost PROVE lsl[t] = sl[t]
  BY <1>3
<1>4. ASSUME NEW p \in nq \cup fl PROVE p.slice \notin S /\ p.slice \in nop
  <2>1. p \in qd \cup fl /\ p \notin late \cup drop /\ p.slice \notin lost /\ p.slice \in op
    BY <1>a
  <2>2. \A q \in late \cup drop : q \in qd \cup fl /\ q.slice # p.slice
    BY <1>h, <2>1, OneRead
  <2> QED BY <2>1, <2>2
<1>5. ASSUME NEW p \in qd \cup fl \cup la, p.slice \in nop
      PROVE  p.slice \notin S /\ p.slice \in op /\ p.slice \notin lost /\ lsl[p.slot] = p.slice /\ nsl[p.slot] = p.slice
  <2>1. p.slice \in op /\ p.slice \notin lost /\ p.slice \notin S
    BY <1>5
  <2>2. sl[p.slot] = p.slice
    BY <1>a, <2>1
  <2>3. lsl[p.slot] = p.slice
    BY <1>3, <1>c, <2>1, <2>2
  <2> QED BY <1>1, <1>c, <2>1, <2>3
<1>6. ASSUME NEW p \in late PROVE p.slice \notin S /\ lsl[p.slot] = p.slice /\ nsl[p.slot] = p.slice /\ sl[p.slot] = p.slice
                                  /\ p.slice \in op /\ p.slice \notin nop /\ p.slice \notin ev
  <2>1. p.slice \in op /\ p.slice \notin lost /\ p.slice \notin S /\ sl[p.slot] = p.slice /\ p.slice \notin nop
        /\ p.slice \notin ev
    BY <1>2, <1>a
  <2>3. lsl[p.slot] = p.slice
    BY <1>3, <1>c, <2>1
  <2> QED BY <1>1, <1>c, <2>1, <2>3
<1>7. ASSUME NEW p \in lm PROVE p.slice \notin S /\ nsl[p.slot] = p.slice /\ p.slice \notin nop /\ ntb[p.slice] = NoEntry
  <2>1. p.slice \notin S /\ nsl[p.slot] = p.slice
    BY <1>1, <1>2, <1>c
  <2>2. p.slice \in Slices /\ \A s \in SlotIds : sl[s] = p.slice => p.slice \in ev
    BY <1>c
  <2>3. p.slice \notin nop
    <3> SUFFICES ASSUME p.slice \in op, p.slice \notin lost PROVE FALSE
      OBVIOUS
    <3>1. PICK q \in qd \cup fl \cup la : q.slice = p.slice
      BY <1>a
    <3>2. sl[q.slot] = p.slice /\ q.slot \in SlotIds
      BY <1>a, <1>c, <3>1
    <3>3. p.slice \in ev
      BY <2>2, <3>2
    <3> QED BY <3>3
  <2>4. ntb[p.slice] = NoEntry
    <3> SUFFICES ASSUME p.slice \notin ev, tb[p.slice] # NoEntry PROVE FALSE
      BY <1>u, <2>2
    <3>1. tb[p.slice] \in SlotIds /\ sl[tb[p.slice]] = p.slice
      BY <1>e, <2>2
    <3> QED BY <2>2, <3>1
  <2> QED BY <2>1, <2>3, <2>4
<1>8. HeldIn(nsl, nq, fl, la, nop, nsb)
  <2>1. \A p \in nq \cup fl : nsl[p.slot] = p.slice /\ p.slice \in nop
    BY <1>4, <1>5
  <2>2. \A p \in fl : nsb[p.slot] = Torn
    BY <1>a, <1>c, <1>w
  <2>3. ASSUME NEW p \in la, p.slice \in nop PROVE nsl[p.slot] = p.slice /\ nsb[p.slot] = p.slice
    <3>1. nsl[p.slot] = p.slice /\ lsl[p.slot] = p.slice /\ p.slice \in op /\ p.slot \in SlotIds
      BY <1>5, <1>c, <2>3
    <3>2. sl[p.slot] = p.slice /\ sb[p.slot] = p.slice
      BY <1>a, <3>1
    <3>3. ASSUME NEW q \in nmi, q.slot = p.slot PROVE FALSE
      <4>1. CASE q \in lm
        BY <3>1, <3>2, <3>3, <4>1
      <4>2. CASE q \in late
        <5>1. q.slice = p.slice /\ q.slice \notin nop
          BY <1>6, <3>2, <3>3, <4>2
        <5> QED BY <5>1, <2>3
      <4> QED BY <4>1, <4>2
    <3> QED BY <1>w, <3>1, <3>2, <3>3
  <2>4. ASSUME NEW y \in nop PROVE \E p \in nq \cup fl \cup la : p.slice = y
    <3>1. PICK p \in qd \cup fl \cup la : p.slice = y
      BY <1>a
    <3>2. CASE p \in qd
      BY <3>1, <3>2
    <3> QED BY <3>1, <3>2
  <2>5. nq \cup fl \cup la \subseteq CacheReads /\ nop \subseteq Slices /\ nq \cap fl = {}
    BY <1>a
  <2> QED BY ONLY <2>1, <2>2, <2>3, <2>4, <2>5 DEF HeldIn
<1>9. MissingIn(nsl, nop, nmi, ntb, nsb)
  <2>1. \A p \in nmi : p.slot \in SlotIds /\ nsb[p.slot] = Torn
    BY <1>c, <1>w
  <2>2. ASSUME NEW p \in late PROVE ntb[p.slice] = NoEntry
    <3>1. p.slice \in op /\ p.slice \in Slices
      BY <1>6, <1>c
    <3> QED BY <1>e, <1>u, <3>1
  <2>3. \A p \in nmi : nsl[p.slot] = p.slice /\ p.slice \notin nop /\ ntb[p.slice] = NoEntry
    BY <1>6, <1>7, <2>2
  <2>4. nmi \subseteq CacheReads
    BY <1>a
  <2> QED BY ONLY <2>1, <2>3, <2>4 DEF MissingIn
<1>10. EntriesIn(nsl, nop, nmi, ntb, nsb)
  <2>1. ntb \in [Slices -> SlotIds \cup {NoEntry}]
    BY <1>e DEF Unentered
  <2>2. nsb \in [SlotIds -> Slices \cup {NoSlice, Torn}]
    BY <1>e DEF Writing
  <2>3. ASSUME NEW y \in Slices, ntb[y] # NoEntry
        PROVE  nsb[ntb[y]] = y /\ nsl[ntb[y]] = y /\ y \notin nop
    <3>0. y \notin ev /\ ntb[y] = tb[y] /\ tb[y] # NoEntry
      BY ONLY <1>u, <2>3
    <3>1. tb[y] \in SlotIds /\ sb[tb[y]] = y /\ sl[tb[y]] = y /\ y \notin op
      BY ONLY <1>e, <3>0
    <3>2. lsl[tb[y]] = y
      BY <3>0, <3>1
    <3>3. nsl[tb[y]] = y
      BY <1>1, <1>2, <3>1, <3>2
    <3>4. ASSUME NEW q \in nmi, q.slot = tb[y] PROVE FALSE
      <4>1. CASE q \in lm
        BY <3>1, <3>2, <3>4, <4>1
      <4>2. CASE q \in late
        BY <1>6, <3>1, <3>4, <4>2
      <4> QED BY <4>1, <4>2
    <3> QED BY <1>w, <3>0, <3>1, <3>3, <3>4
  <2>4. ASSUME NEW t \in SlotIds, nsl[t] # NoSlice
        PROVE  ntb[nsl[t]] = t \/ nsl[t] \in nop \/ \E r \in nmi : r.slice = nsl[t]
    <3>1. nsl[t] = lsl[t] /\ lsl[t] \notin S /\ lsl[t] \in Slices
      BY <1>1, <2>4
    <3>2. CASE lsl[t] # sl[t]
      <4>1. PICK r \in lm : r.slot = t
        BY <3>2
      <4> QED BY <3>1, <4>1
    <3>3. CASE lsl[t] = sl[t]
      <4>1. lsl[t] \notin ev
        <5> SUFFICES ASSUME lsl[t] \in ev PROVE FALSE
          OBVIOUS
        <5>1. PICK s \in SlotIds : sl[s] = lsl[t] /\ lsl[s] # lsl[t]
          OBVIOUS
        <5>2. s = t
          BY <3>1, <3>3, <5>1, SlicesAreReal DEF PlacedIn
        <5> QED BY <5>1, <5>2
      <4>2. CASE tb[sl[t]] = t
        <5>1. ntb[lsl[t]] = t
          BY <1>u, <3>1, <3>3, <4>1, <4>2
        <5> QED BY <3>1, <5>1
      <4>3. CASE sl[t] \in op
        <5>1. lsl[t] \in op /\ lsl[t] \notin lost
          BY <3>3, <4>1, <4>3
        <5>2. CASE \E r \in late : r.slice = lsl[t]
          BY <3>1, <5>2
        <5>3. CASE ~ \E r \in late : r.slice = lsl[t]
          BY <3>1, <5>1, <5>3
        <5> QED BY <5>2, <5>3
      <4>4. sl[t] # NoSlice
        BY <3>1, <3>3, SlicesAreReal
      <4> QED BY <1>e, <4>2, <4>3, <4>4
    <3> QED BY <3>2, <3>3
  <2> QED BY ONLY <2>1, <2>2, <2>3, <2>4 DEF EntriesIn
<1>11. \A s \in ro : nsl[s] = sl[s] /\ lsl[s] = sl[s]
  <2>1. \A s \in ro : s \in SlotIds /\ lsl[s] = sl[s] /\ sl[s] \notin op
    BY <1>h DEF PinnedIn
  <2> QED BY <1>1, <1>2, <2>1
<1>12. PinnedIn(nsl, ro, nop) /\ {s \in ro : nsl[s] # NoSlice} = ro
  BY <1>11, <1>h DEF PinnedIn
<1>13. \A s \in SlotIds : lsl[s] \in here => nsl[s] = lsl[s]
  BY <1>1, <1>2
<1> QED BY <1>8, <1>9, <1>10, <1>12, <1>13 DEF ContentsIn

ReadsSame == UNCHANGED <<slice, used, role, read_queue, flying, landed_reads, outstanding, table, slab, missed, awaited>>

(* Where no read and no slot moves, what is resolved is left to be shown.  *)
LEMMA ContentSame ==
    ASSUME ContentInv, ReadsSame, Waits', Resolving'
    PROVE  ContentInv'
  BY DEF ContentInv, ReadsSame, Reading, Contents

(* A step that moves neither reads, slots nor the GPU keeps the contents.  *)
LEMMA ContentQuiet ==
    ASSUME ContentInv,
           UNCHANGED <<gpu_layer, gpu_stage, chosen, routed, serviceVars, policyVars, readVars, table, slab>>
    PROVE  ContentInv'
<1>1. ReadsSame
  BY DEF ReadsSame, serviceVars, planeVars, policyVars, readVars, tokenVars
<1>2. Waits'
  BY DEF ContentInv, Waits, serviceVars, planeVars, policyVars, readVars, tokenVars
<1>3. HasSlots' = HasSlots /\ HasEntries' = HasEntries
  BY DEF HasSlots, HasEntries, serviceVars, planeVars, policyVars, readVars, tokenVars
<1>4. Resolving'
  BY <1>3 DEF ContentInv, Resolving, serviceVars, planeVars
<1> QED BY <1>1, <1>2, <1>4, ContentSame

(* The GPU routes only behind everything served, so what it goes on with   *)
(* is in the table.                                                        *)
LEMMA ContentGpu ==
    ASSUME CacheAssumption, RoomInv, ContentInv, Route \/ GoOn \/ NextLayer, GpuKeeps
    PROVE  ContentInv'
<1>1. ReadsSame
  BY DEF ReadsSame, GpuKeeps, serviceVars, planeVars, policyVars, readVars, tokenVars
<1>k. serving' = serving /\ request' = request /\ ready' = ready
  BY DEF GpuKeeps, serviceVars, planeVars
<1>2. Waits'
  BY DEF ContentInv, Waits, GpuKeeps, serviceVars, planeVars, policyVars, readVars, tokenVars
<1>t. ready \in Nat /\ routed \in Nat
  BY DEF RoomInv, CacheTypes
<1>r. Resolving
  BY DEF ContentInv
<1>3. CASE Route
  <2>1. gpu_passes # <<>> /\ gpu_stage = "run" /\ gpu_stage' = "wait" /\ routed' = Seq0
    BY <1>3 DEF Route
  <2>2. ready = routed /\ routed < Seq0
    BY <2>1 DEF RoomInv, GpuPlace
  <2>3. serving \notin {"read", "publish"}
    <3> SUFFICES ASSUME serving \in {"read", "publish"} PROVE FALSE
      OBVIOUS
    <3>1. request.seq = ready + 1 /\ request.seq <= routed
      BY DEF RoomInv, Numbered, Current, GpuPlace
    <3> QED BY ONLY <1>t, <2>2, <3>1
  <2>4. ready # routed'
    <3>1. ready < routed'
      BY ONLY <2>1, <2>2
    <3> QED BY ONLY <1>t, <3>1
  <2>5. Resolving'
    BY <1>k, <2>3, <2>4 DEF Resolving
  <2> QED BY <1>1, <1>2, <2>5, ContentSame
<1>4. CASE GoOn
  <2>1. /\ chosen' = chosen /\ routed' = routed
        /\ gpu_stage = "wait" /\ gpu_layer' = gpu_layer
    BY <1>4 DEF GoOn
  <2>2. HasSlots' = HasSlots
    BY <2>1 DEF HasSlots, GpuKeeps, serviceVars, planeVars, policyVars, readVars
  <2>3. HasEntries' = HasEntries
    BY <2>1 DEF HasEntries, GpuKeeps, serviceVars, planeVars, policyVars, readVars
  <2>4. Resolving'
    BY <1>k, <1>r, <2>1, <2>2, <2>3 DEF Resolving
  <2> QED BY <1>1, <1>2, <2>4, ContentSame
<1>5. CASE NextLayer
  <2>1. chosen' = {} /\ gpu_stage' = "run"
    BY <1>5 DEF NextLayer
  <2>2. HasSlots'
    BY <2>1 DEF HasSlots
  <2>3. Resolving'
    BY <2>1, <2>2 DEF Resolving
  <2> QED BY <1>1, <1>2, <2>3, ContentSame
<1> QED BY <1>3, <1>4, <1>5

(* The end of a prediction keeps the contents.                             *)
LEMMA ContentIssued ==
    ASSUME ContentInv, Issued
    PROVE  ContentInv'
<1>1. /\ serving = "issue" /\ serving' \in {"pop", "spin"}
      /\ UNCHANGED <<gpuSideVars, request, missed, awaited, ready, policyVars, readVars, table, slab>>
  BY DEF Issued
<1>2. ReadsSame
  BY <1>1 DEF ReadsSame, policyVars, readVars, tokenVars
<1>3. Waits'
  BY <1>1 DEF ContentInv, Waits
<1>4. HasEntries' = HasEntries
  BY <1>1 DEF HasEntries, gpuSideVars, policyVars
<1>5. Resolving'
  BY <1>1, <1>4 DEF ContentInv, Resolving, gpuSideVars
<1> QED BY <1>2, <1>3, <1>5, ContentSame

(* A promotion swaps a pinned slot for one that is published.              *)
LEMMA ContentAfterReady ==
    ASSUME CacheAssumption, RoomInv, ContentInv, AfterReady
    PROVE  ContentInv'
<1>1. /\ serving = "after" /\ serving' \in {"pop", "issue"} /\ (Promote \/ UNCHANGED role)
      /\ UNCHANGED <<gpuSideVars, request, missed, awaited, ready, slice, used, readVars, table, slab>>
  BY DEF AfterReady
<1>2. Contents
  BY DEF ContentInv
<1>3. role \subseteq SlotIds /\ PinnedIn(slice, role, outstanding)
  BY <1>2 DEF RoomInv, CacheTypes, Contents, ContentsIn
<1>4. PinnedIn(slice, role', outstanding)
  <2>1. Cardinality(role') = Cardinality(role)
    BY <1>1, <1>3, RolesSwapped
  <2>2. \A s \in role' \ role : slice[s] # NoSlice /\ slice[s] \notin outstanding
    BY <1>1 DEF Promote
  <2> QED BY <1>3, <2>1, <2>2 DEF PinnedIn
<1>k. /\ slice' = slice /\ read_queue' = read_queue /\ flying' = flying /\ landed_reads' = landed_reads
      /\ outstanding' = outstanding /\ missed' = missed /\ table' = table /\ slab' = slab /\ used' = used
  BY <1>1 DEF readVars, tokenVars
<1>5. Contents' /\ Reading'
  BY <1>2, <1>4, <1>k DEF ContentInv, Contents, ContentsIn, Reading
<1>6. Waits'
  BY <1>1 DEF ContentInv, Waits
<1>7. HasEntries' = HasEntries
  BY <1>1 DEF HasEntries, gpuSideVars
<1>8. Resolving'
  BY <1>1, <1>7 DEF ContentInv, Resolving, gpuSideVars
<1> QED BY <1>5, <1>6, <1>8 DEF ContentInv

(* Dropping a prediction's queued reads keeps the contents.                *)
LEMMA ContentDropped ==
    ASSUME CacheAssumption, RoomInv, ContentInv, NEW reads, reads \subseteq Range(read_queue), Drop(reads),
           UNCHANGED <<missed, flying, landed_reads, table, slab>>
    PROVE  Contents' /\ Reading'
<1>3. /\ slice' = Forget(slice, reads) /\ role' = {s \in role : slice'[s] # NoSlice}
      /\ read_queue' = Without(read_queue, reads) /\ outstanding' = outstanding \ {r.slice : r \in reads}
  BY DEF Drop
<1>4. slice \in [SlotIds -> Slices \cup {NoSlice}] /\ PlacedIn(slice) /\ role \subseteq SlotIds
  BY DEF RoomInv, CacheTypes, Placed, PlacedIn
<1>5. QueueOf(read_queue') /\ Range(read_queue') = Range(read_queue) \ reads
  BY <1>3, WithoutIs DEF ContentInv, Reading
<1>6. /\ role' = role
      /\ ContentsIn(slice', role, Range(read_queue'), flying, landed_reads, outstanding', missed, table, slab)
  <2>1. ContentsIn(slice, role, Range(read_queue), flying, landed_reads, outstanding, missed, table, slab)
    BY DEF ContentInv, Contents
  <2>2. /\ {s \in role : Forget(slice, reads)[s] # NoSlice} = role
        /\ ContentsIn(Forget(slice, reads), role, Range(read_queue) \ reads, flying, landed_reads,
                      outstanding \ {r.slice : r \in reads}, missed, table, slab)
    BY <1>4, <2>1, ContentsDrop
  <2> QED BY <1>3, <1>5, <2>2
<1> QED BY <1>5, <1>6 DEF ContentInv, Contents, Reading

(* A request is taken up, what was predicted perhaps dropped.              *)
LEMMA ContentPop ==
    ASSUME CacheAssumption, RoomInv, ContentInv, Pop
    PROVE  ContentInv'
<1>1. /\ serving = "pop" /\ serving' \in {"issue", "spin"}
      /\ UNCHANGED <<gpuSideVars, missed, awaited, ready, used, flying, landed_reads, table, slab>>
      /\ \E reads : reads \subseteq Range(read_queue) /\ Drop(reads)
  BY DEF Pop
<1>2. PICK reads : reads \subseteq Range(read_queue) /\ Drop(reads)
  BY <1>1
<1>3. Contents' /\ Reading'
  BY <1>1, <1>2, ContentDropped
<1>4. Waits'
  BY <1>1 DEF ContentInv, Waits
<1>5. HasEntries' = HasEntries
  BY <1>1 DEF HasEntries, gpuSideVars
<1>6. Resolving'
  BY <1>1, <1>5 DEF ContentInv, Resolving, gpuSideVars
<1> QED BY <1>3, <1>4, <1>6 DEF ContentInv

(* A read lands in its slot, the next ones start.                          *)
LEMMA ContentLanded ==
    ASSUME CacheAssumption, RoomInv, ContentInv, OnePerExpert, Land
    PROVE  ContentInv'
<1>u. UNCHANGED <<gpuSideVars, serviceVars, policyVars, outstanding, table>>
  BY DEF Land
<1>1. PICK r \in flying : /\ Started(read_queue, flying \ {r}) /\ landed_reads' = landed_reads \cup {r}
                          /\ slab' = Writing([slab EXCEPT ![r.slot] = r.slice], flying' \ flying)
  <2>1. PICK r \in flying :
          /\ Started(read_queue, flying \ {r})
          /\ landed_reads' = landed_reads \cup {q \in {r} : \A first \in landed_reads : first.slice # r.slice}
          /\ slab' = Writing([slab EXCEPT ![r.slot] = r.slice], flying' \ flying)
    BY DEF Land
  <2>2. \A first \in landed_reads : first.slice # r.slice
    BY DEF OnePerExpert
  <2>3. {q \in {r} : \A first \in landed_reads : first.slice # r.slice} = {r}
    BY <2>2
  <2> QED BY <2>1, <2>3
<1>q. QueueOf(read_queue) /\ IsFiniteSet(flying) /\ Cardinality(flying) <= ReadDepth
  BY DEF ContentInv, Reading
<1>f. IsFiniteSet(flying \ {r}) /\ Cardinality(flying \ {r}) <= ReadDepth
  <2>1. IsFiniteSet(flying \ {r}) /\ Cardinality(flying \ {r}) = Cardinality(flying) - 1 /\ Cardinality(flying) \in Nat
    BY <1>q, FS_RemoveElement, FS_CardinalityType
  <2>2. ReadDepth \in Nat
    BY FiniteCounts
  <2> QED BY ONLY <1>q, <2>1, <2>2
<1>2. PICK new : /\ flying' = (flying \ {r}) \cup new /\ new \cup Range(read_queue') = Range(read_queue)
                 /\ new \cap Range(read_queue') = {} /\ QueueOf(read_queue')
                 /\ IsFiniteSet(flying') /\ Cardinality(flying') <= ReadDepth
  BY <1>1, <1>f, <1>q, StartedIs
<1>4. slice \in [SlotIds -> Slices \cup {NoSlice}] /\ PlacedIn(slice) /\ role \subseteq SlotIds
  BY DEF RoomInv, CacheTypes, Placed, PlacedIn
<1>5. ContentsIn(slice, role, Range(read_queue'), flying', landed_reads \cup {r}, outstanding, missed, table,
                 Writing([slab EXCEPT ![r.slot] = r.slice], flying' \ flying))
  <2>1. ContentsIn(slice, role, Range(read_queue), flying, landed_reads, outstanding, missed, table, slab)
    BY DEF ContentInv, Contents
  <2>2. \A p \in landed_reads, q \in flying \cup Range(read_queue) : p.slice # q.slice
    BY DEF OnePerExpert
  <2> QED BY <1>2, <1>4, <2>1, <2>2, ContentsLand
<1>6. Contents' /\ Reading'
  <2>1. slice' = slice /\ role' = role /\ outstanding' = outstanding /\ missed' = missed /\ table' = table
    BY <1>u DEF serviceVars, planeVars, policyVars
  <2> QED BY <1>1, <1>2, <1>5, <2>1 DEF Contents, Reading
<1>7. Waits'
  BY <1>1, <1>2, <1>u DEF ContentInv, Waits, serviceVars, planeVars
<1>8. HasEntries' = HasEntries /\ (HasSlots => HasSlots')
  BY <1>1, <1>u DEF HasEntries, HasSlots, gpuSideVars, serviceVars, planeVars, policyVars
<1>9. Resolving'
  BY <1>8, <1>u DEF ContentInv, Resolving, gpuSideVars, serviceVars, planeVars
<1> QED BY <1>6, <1>7, <1>9 DEF ContentInv

(* While a resolution has not signalled its layer the GPU is not served.   *)
LEMMA NotServed ==
    ASSUME CacheAssumption, RoomInv, serving \in {"read", "publish"} \/ (serving = "spin" /\ routed >= request.seq)
    PROVE  /\ ready # routed /\ request.seq = ready + 1 /\ ready \in Nat /\ routed \in Nat /\ ready + 1 <= routed
<1>1. ready \in Nat /\ routed \in Nat /\ request.seq = ready + 1
  BY DEF RoomInv, CacheTypes, Numbered, Current
<1>2. request.seq <= routed
  <2>1. CASE serving \in {"read", "publish"}
    BY <2>1 DEF RoomInv, GpuPlace
  <2>2. CASE serving = "spin" /\ routed >= request.seq
    <3>1. routed >= request.seq
      BY <2>2
    <3> QED BY ONLY <1>1, <3>1
  <2> QED BY <2>1, <2>2
<1> QED BY ONLY <1>1, <1>2

(* The misses are in the slab, and entered.                                *)
LEMMA ContentReadMisses ==
    ASSUME CacheAssumption, RoomInv, ContentInv, ReadMisses
    PROVE  ContentInv'
<1>1. /\ serving = "read" /\ serving' = "publish" /\ missed' = {}
      /\ UNCHANGED <<gpuSideVars, request, awaited, ready, policyVars, readVars>>
  BY DEF ReadMisses
<1>2. /\ slab' = [s \in SlotIds |-> IF \E r \in missed : r.slot = s
                                    THEN (CHOOSE r \in missed : r.slot = s).slice ELSE slab[s]]
      /\ table' = [x \in Slices |-> IF \E r \in missed : r.slice = x
                                    THEN (CHOOSE r \in missed : r.slice = x).slot ELSE table[x]]
  BY DEF ReadMisses
<1>4. slice \in [SlotIds -> Slices \cup {NoSlice}] /\ PlacedIn(slice) /\ role \subseteq SlotIds
  BY DEF RoomInv, CacheTypes, Placed, PlacedIn
<1>5. ContentsIn(slice, role, Range(read_queue), flying, landed_reads, outstanding, {}, table', slab')
  <2>1. ContentsIn(slice, role, Range(read_queue), flying, landed_reads, outstanding, missed, table, slab)
    BY DEF ContentInv, Contents
  <2> QED BY SMTT(30), <1>2, <1>4, <2>1, ContentsRead
<1>k. /\ slice' = slice /\ role' = role /\ used' = used /\ read_queue' = read_queue /\ flying' = flying
      /\ landed_reads' = landed_reads /\ outstanding' = outstanding
  BY <1>1 DEF policyVars, readVars, tokenVars
<1>6. Contents' /\ Reading'
  BY <1>1, <1>5, <1>k DEF ContentInv, Contents, Reading
<1>7. Waits'
  BY <1>1, <1>k DEF ContentInv, Waits
<1>8. HasSlots' = HasSlots
  BY <1>1, <1>k DEF HasSlots, gpuSideVars
<1>9. Resolving'
  <2>1. (routed' = request'.seq => HasSlots) /\ ready' # routed'
    BY <1>1, NotServed DEF ContentInv, Resolving, gpuSideVars
  <2> QED BY <1>8, <2>1 DEF Resolving
<1> QED BY <1>6, <1>7, <1>9 DEF ContentInv

(* What landed is entered; the layer's experts are then all in the table,  *)
(* none evicted.                                                           *)
LEMMA ContentPublished ==
    ASSUME CacheAssumption, RoomInv, ContentInv, OnePerExpert, Publish
    PROVE  ContentInv'
<1> DEFINE out == {r \in landed_reads : r.slice \in outstanding /\ slice[r.slot] = r.slice}
<1>1. /\ serving = "publish" /\ serving' = "after" /\ awaited \cap flying = {} /\ landed_reads' = {}
      /\ outstanding' = outstanding \ {r.slice : r \in landed_reads}
      /\ ready' = Max({ready, request.seq})
      /\ UNCHANGED <<gpuSideVars, request, missed, policyVars, read_queue, flying, slab>>
  BY DEF Publish
<1>2. table' = [x \in Slices |-> IF \E r \in out : r.slice = x THEN (CHOOSE r \in out : r.slice = x).slot ELSE table[x]]
  BY DEF Publish
<1>3. missed = {}
  BY <1>1 DEF ContentInv, Waits
<1>4. slice \in [SlotIds -> Slices \cup {NoSlice}] /\ PlacedIn(slice) /\ role \subseteq SlotIds
  BY DEF RoomInv, CacheTypes, Placed, PlacedIn
<1>c. ContentsIn(slice, role, Range(read_queue), flying, landed_reads, outstanding, {}, table, slab)
  BY <1>3 DEF ContentInv, Contents
<1>5. ContentsIn(slice, role, Range(read_queue), flying, {}, outstanding \ {r.slice : r \in landed_reads}, {}, table', slab)
  <2>1. \A p \in landed_reads, q \in flying \cup Range(read_queue) : p.slice # q.slice
    BY DEF OnePerExpert
  <2>2. PICK ou : ou = out
    OBVIOUS
  <2>3. ou = {r \in landed_reads : r.slice \in outstanding /\ slice[r.slot] = r.slice}
    BY <2>2
  <2>4. table' = [x \in Slices |-> IF \E r \in ou : r.slice = x THEN (CHOOSE r \in ou : r.slice = x).slot
                                   ELSE table[x]]
    BY <1>2, <2>2
  <2> HIDE DEF out
  <2> QED BY ONLY <1>4, <1>c, <2>1, <2>3, <2>4, ContentsPublish
<1>k. /\ slice' = slice /\ role' = role /\ used' = used /\ chosen' = chosen /\ routed' = routed
      /\ gpu_stage' = gpu_stage /\ gpu_layer' = gpu_layer
  BY <1>1 DEF policyVars, gpuSideVars
<1>6. Contents' /\ Reading'
  BY <1>1, <1>3, <1>5, <1>k DEF ContentInv, Contents, Reading
<1>7. Waits'
  BY <1>1, <1>3 DEF Waits
<1>r. ready' = ready + 1 /\ ready \in Nat
  <2>1. request.seq = ready + 1 /\ ready \in Nat
    BY <1>1, NotServed
  <2>2. ready + 1 \in {ready, ready + 1} /\ \A y \in {ready, ready + 1} : ready + 1 >= y
    BY ONLY <2>1
  <2>3. \A z \in {ready, ready + 1} : (\A y \in {ready, ready + 1} : z >= y) => z = ready + 1
    BY ONLY <2>1
  <2>4. Max({ready, ready + 1}) = ready + 1
    BY ONLY <2>2, <2>3 DEF Max
  <2> QED BY <1>1, <2>1, <2>4
<1>8. ASSUME gpu_stage' # "run", ready' = routed' PROVE HasEntries'
  <2>1. HasSlots /\ awaited \subseteq flying \cup landed_reads
    <3>1. routed = request.seq
      BY <1>1, <1>8, <1>k, <1>r, NotServed
    <3> QED BY <1>1, <3>1 DEF ContentInv, Resolving, Waits
  <2>2. request.layer = gpu_layer
    <3>1. gpu_passes # <<>> /\ routed = Seq0
      BY <1>8, <1>k DEF RoomInv, GpuPlace, CacheTypes
    <3>2. OfPass(request) /\ gpu_layer \in Layers /\ request.seq = ready + 1
      BY <1>1 DEF RoomInv, PassesAsked, Numbered, Current, CacheTypes
    <3>3. gpu_passes \in Seq(GpuPasses) /\ Len(gpu_passes) >= 1 /\ Head(gpu_passes) = gpu_passes[1] /\ 1 \in 1..Len(gpu_passes)
      BY <3>1 DEF RoomInv, CacheTypes
    <3>4. request.seq = gpu_passes[1].first + gpu_layer
      BY <1>8, <1>k, <1>r, <3>1, <3>2, <3>3 DEF Seq0
    <3> QED BY ONLY <3>2, <3>3, <3>4 DEF OfPass
  <2>3. ASSUME NEW e \in chosen
        PROVE  table'[<<gpu_layer, e>>] # NoEntry /\ used[table'[<<gpu_layer, e>>]] >= ready + 1
    <3> PICK x : x = <<gpu_layer, e>>
      OBVIOUS
    <3>1. PICK s \in SlotIds : /\ slice[s] = x /\ used[s] = ready + 1
                               /\ slice[s] \in outstanding => \E r \in awaited \cup landed_reads : r.slice = slice[s]
      BY <2>1, <2>2 DEF HasSlots
    <3>x. x \in Slices /\ x # NoSlice
      <4>1. chosen \subseteq Experts /\ gpu_layer \in Layers
        BY DEF RoomInv, CacheTypes
      <4>2. x \in Slices
        BY <4>1 DEF Slices
      <4> QED BY <4>2, SlicesAreReal
    <3>2. table'[x] = s
      <4>h. HeldIn(slice, Range(read_queue), flying, landed_reads, outstanding, slab) /\ EntriesIn(slice, outstanding, {}, table, slab)
        BY <1>c DEF ContentsIn
      <4>1. CASE x \in outstanding
        <5>1. PICK r \in landed_reads : r.slice = x
          BY <1>1, <2>1, <3>1, <4>1
        <5>2. r \in out
          BY <4>1, <4>h, <5>1 DEF HeldIn
        <5>3. \A q \in out : q.slice = x => q.slot = s
          BY <1>4, <3>1, <3>x, <4>h, ReadIs DEF PlacedIn, HeldIn
        <5>4. table'[x] = (CHOOSE q \in out : q.slice = x).slot
          BY <1>2, <3>x, <5>1, <5>2
        <5> QED BY <5>1, <5>2, <5>3, <5>4
      <4>2. CASE x \notin outstanding
        <5>1. table'[x] = table[x]
          BY <1>2, <3>x, <4>2
        <5>2. table[x] = s
          BY <3>1, <3>x, <4>2, <4>h DEF EntriesIn
        <5> QED BY <5>1, <5>2
      <4> QED BY <4>1, <4>2
    <3>3. s # NoEntry
      BY SlicesAreReal
    <3>4. ready + 1 >= ready + 1
      BY <1>r
    <3> QED BY ONLY <3>1, <3>2, <3>3, <3>4, x = <<gpu_layer, e>>
  <2> QED BY <1>k, <1>r, <2>3 DEF HasEntries
<1>9. Resolving'
  BY <1>1, <1>8 DEF Resolving
<1> QED BY <1>6, <1>7, <1>9 DEF ContentInv

(* The lookups keep the contents and leave the resolution its slots.       *)
LEMMA ContentSee ==
    ASSUME CacheAssumption, RoomInv, ContentInv, See
    PROVE  ContentInv'
<1>0. PICK eids, st :
         /\ eids \in RoutedIds /\ st \in Looked(eids)
         /\ IF st.full
            THEN /\ serving' = "abort"
                 /\ UNCHANGED <<missed, awaited, slice, used, role, table, slab, read_queue, outstanding>>
            ELSE serving' = "read" /\ AfterLookups(st)
  BY DEF See, SeeWhen
<1>u. /\ serving = "spin" /\ routed >= request.seq
      /\ UNCHANGED <<gpuSideVars, request, ready, flying, landed_reads>>
  BY DEF See, SeeWhen
<1>1. LookRoom(st, CacheExperts) /\ LookKept(st, CacheExperts)
  BY <1>0, <1>u, EveryLookup
<1>2. /\ st.full = FALSE /\ st.slice \in [SlotIds -> Slices \cup {NoSlice}] /\ st.used \in [SlotIds -> Nat]
      /\ st.missed \subseteq CacheReads /\ PlacedIn(st.slice)
  BY <1>1 DEF LookRoom, LookStates
<1>3. serving' = "read" /\ AfterLookups(st)
  BY <1>0, <1>2
<1> PICK here : here = {<<request.layer, e>> : e \in st.ids}
  OBVIOUS
<1> PICK lost : lost = st.evicted \cap outstanding
  OBVIOUS
<1> PICK stays : stays = Without(read_queue, {r \in Range(read_queue) : r.slice \in lost})
  OBVIOUS
<1> PICK late : late = {r \in Range(stays) : r.slice \in here}
  OBVIOUS
<1> PICK drop : drop = {r \in Range(stays) \ late : r.slice[1] = request.layer}
  OBVIOUS
<1>4. /\ \A r \in flying : r.slice \notin lost
      /\ slice' = Forget(st.slice, drop) /\ used' = st.used
      /\ role' = {s \in role : slice'[s] # NoSlice}
      /\ table' = Unentered(table, st.evicted)
      /\ missed' = st.missed \cup late
      /\ awaited' = {r \in flying : r.slice \in here \cap (outstanding \ lost)}
      /\ read_queue' = Without(stays, late \cup drop)
      /\ outstanding' = outstanding \ (lost \cup {r.slice : r \in late \cup drop})
      /\ slab' = Writing(slab, missed')
  BY <1>3 DEF AfterLookups
<1>5. slice \in [SlotIds -> Slices \cup {NoSlice}] /\ PlacedIn(slice) /\ role \subseteq SlotIds
  BY DEF RoomInv, CacheTypes, Placed, PlacedIn
<1>c. /\ missed = {}
      /\ ContentsIn(slice, role, Range(read_queue), flying, landed_reads, outstanding, {}, table, slab)
  BY <1>u DEF ContentInv, Waits, Contents
<1>q. QueueOf(read_queue)
  BY DEF ContentInv, Reading
<1>l. QueueOf(stays) /\ Range(stays) = {r \in Range(read_queue) : r.slice \notin lost}
  <2>1. QueueOf(stays) /\ Range(stays) = Range(read_queue) \ {r \in Range(read_queue) : r.slice \in lost}
    BY <1>q, WithoutIs
  <2> QED BY <2>1
<1>6. QueueOf(read_queue') /\ Range(read_queue') = {r \in Range(read_queue) : r.slice \notin lost} \ (late \cup drop)
  <2>1. QueueOf(Without(stays, late \cup drop)) /\ Range(Without(stays, late \cup drop)) = Range(stays) \ (late \cup drop)
    <3>1. QueueOf(stays)
      BY <1>l
    <3> QED BY ONLY Zenon, <3>1, WithoutIs
  <2>2. read_queue' = Without(stays, late \cup drop)
    BY <1>4
  <2>3. QueueOf(read_queue') /\ Range(read_queue') = Range(stays) \ (late \cup drop)
    BY ONLY <2>1, <2>2
  <2> QED BY ONLY <1>l, <2>3
<1>7. late = {r \in Range(read_queue) : r.slice \notin lost /\ r.slice \in here}
  BY <1>l
<1>8. drop \subseteq {r \in Range(read_queue) : r.slice \notin lost /\ r.slice \notin here}
  BY <1>l
<1>k. /\ \A s \in SlotIds : st.slice[s] # slice[s] =>
           s \notin role /\ slice[s] \in st.evicted /\ \E r \in st.missed : r.slot = s
      /\ \A r \in st.missed : /\ st.slice[r.slot] = r.slice /\ st.slice[r.slot] # slice[r.slot] /\ r.slice \in here
                              /\ \A s \in SlotIds : slice[s] = r.slice => r.slice \in st.evicted
      /\ \A x \in st.evicted : \E s \in SlotIds : slice[s] = x /\ st.slice[s] # x
  BY <1>1 DEF LookKept
<1>9. /\ role' = role
      /\ \A s \in SlotIds : st.slice[s] \in here => slice'[s] = st.slice[s]
      /\ ContentsIn(slice', role, Range(read_queue'), flying, landed_reads, outstanding', missed', table', slab')
  <2> PICK lsl : lsl = st.slice
    OBVIOUS
  <2> PICK ev : ev = st.evicted
    OBVIOUS
  <2> PICK lm : lm = st.missed
    OBVIOUS
  <2> PICK nq : nq = Range(read_queue')
    OBVIOUS
  <2>1. /\ lsl \in [SlotIds -> Slices \cup {NoSlice}] /\ PlacedIn(lsl) /\ lm \in SUBSET CacheReads
        /\ role \in SUBSET SlotIds
    BY <1>2, <1>5
  <2>2. /\ \A s \in SlotIds : lsl[s] # slice[s] => s \notin role /\ slice[s] \in ev /\ \E r \in lm : r.slot = s
        /\ \A r \in lm : /\ lsl[r.slot] = r.slice /\ lsl[r.slot] # slice[r.slot] /\ r.slice \in here
                         /\ \A s \in SlotIds : slice[s] = r.slice => r.slice \in ev
        /\ \A x \in ev : \E s \in SlotIds : slice[s] = x /\ lsl[s] # x
    BY <1>k
  <2>3. nq = {r \in Range(read_queue) : r.slice \notin lost} \ (late \cup drop)
    BY <1>6
  <2>4. /\ missed' = lm \cup late /\ lost = ev \cap outstanding
        /\ outstanding' = outstanding \ (lost \cup {r.slice : r \in late \cup drop})
        /\ \A r \in flying : r.slice \notin lost
    BY <1>4
  <2>5. /\ {s \in role : Forget(lsl, drop)[s] # NoSlice} = role
        /\ \A s \in SlotIds : lsl[s] \in here => Forget(lsl, drop)[s] = lsl[s]
        /\ ContentsIn(Forget(lsl, drop), role, nq, flying, landed_reads, outstanding', missed', Unentered(table, ev),
                      Writing(slab, missed'))
    <3> PICK nop : nop = outstanding'
      OBVIOUS
    <3> PICK nmi : nmi = missed'
      OBVIOUS
    <3>1. GaveSlots(slice, role, lsl, ev, lm, here)
      BY ONLY <2>2 DEF GaveSlots
    <3>2. Sorted(Range(read_queue), flying, outstanding, ev, lm, here, lost, late, drop, nq, nop, nmi)
      BY ONLY <1>7, <1>8, <2>3, <2>4, nop = outstanding', nmi = missed' DEF Sorted
    <3>3. /\ {s \in role : Forget(lsl, drop)[s] # NoSlice} = role
          /\ \A s \in SlotIds : lsl[s] \in here => Forget(lsl, drop)[s] = lsl[s]
          /\ ContentsIn(Forget(lsl, drop), role, nq, flying, landed_reads, nop, nmi, Unentered(table, ev),
                        Writing(slab, nmi))
      BY ONLY <1>5, <1>c, <2>1, <3>1, <3>2, ContentsLook
    <3> QED BY <3>3
  <2> QED BY <1>4, <2>5
<1>10. Contents' /\ Reading'
  BY <1>6, <1>9, <1>u DEF ContentInv, Contents, Reading
<1>11. Waits'
  BY <1>3, <1>4, <1>u DEF Waits
<1>12. ASSUME routed = request.seq PROVE HasSlots'
  <2>0. st.ids = chosen
    BY <1>1, <1>12 DEF LookRoom, RoutedIds
  <2>1. request' = request /\ chosen' = chosen /\ ready' = ready /\ landed_reads' = landed_reads /\ chosen \subseteq Experts
    BY <1>u DEF gpuSideVars, RoomInv, CacheTypes
  <2>2. ASSUME NEW e \in chosen
        PROVE \E s \in SlotIds : /\ slice'[s] = <<request.layer, e>> /\ used'[s] = ready + 1
                                 /\ slice'[s] \in outstanding' => \E r \in awaited' \cup landed_reads : r.slice = slice'[s]
    <3> PICK x : x = <<request.layer, e>>
      OBVIOUS
    <3>1. x \in here
      BY <2>0
    <3>2. e \in st.ids \cap (1..CacheExperts)
      BY <2>0, <2>1 DEF Experts
    <3>3. PICK s \in SlotIds : st.slice[s] = x /\ st.used[s] = ready + 1
      <4>1. \A d \in st.ids \cap (1..CacheExperts) :
              \E s \in SlotIds : st.slice[s] = <<request.layer, d>> /\ st.used[s] = ready + 1
        BY ONLY <1>1 DEF LookKept
      <4> QED BY ONLY <3>2, <4>1, x = <<request.layer, e>>
    <3>4. slice'[s] = x /\ used'[s] = ready + 1
      BY <1>4, <1>9, <3>1, <3>3
    <3>5. ASSUME x \in outstanding' PROVE \E r \in awaited' \cup landed_reads : r.slice = x
      <4>1. HeldIn(slice', Range(read_queue'), flying, landed_reads, outstanding', slab')
        BY <1>9 DEF ContentsIn
      <4>2. PICK r \in Range(read_queue') \cup flying \cup landed_reads : r.slice = x
        BY <4>1, <3>5 DEF HeldIn
      <4>3. r \notin Range(read_queue')
        BY <1>6, <1>7, <3>1, <4>2
      <4>4. x \in outstanding /\ x \notin lost
        BY <1>4, <3>5
      <4> QED BY <1>4, <3>1, <4>2, <4>3, <4>4
    <3> QED BY <3>3, <3>4, <3>5
  <2> QED BY <2>1, <2>2 DEF HasSlots
<1>13. ready' # routed' /\ routed' = routed /\ request' = request
  BY <1>u, NotServed DEF gpuSideVars
<1> QED BY <1>10, <1>11, <1>12, <1>13 DEF ContentInv, Resolving

(* What Busy spares: an entry of the layer the GPU is at is not evicted.   *)
LEMMA BusySpares ==
    ASSUME CacheAssumption, RoomInv, serving = "issue", gpu_stage # "run", ready = routed,
           NEW sl, NEW ro, NEW s \in Free(sl, used, ro, Tick, Busy)
    PROVE  used[s] < ready
<1>1. Busy = ready
  <2>1. last_ready = ready /\ (after_cut => request.seq = ready)
    BY DEF RoomInv, CacheTypes, Numbered
  <2> QED BY <2>1 DEF Busy
<1>2. ready \in Nat /\ used[s] \in Nat
  <2>1. s \in SlotIds
    BY DEF Free
  <2> QED BY <2>1 DEF RoomInv, CacheTypes
<1>3. ready > 0
  <2>1. gpu_passes # <<>> /\ routed = Seq0
    BY DEF RoomInv, GpuPlace, CacheTypes
  <2>2. gpu_passes \in Seq(GpuPasses) /\ Head(gpu_passes) \in GpuPasses /\ gpu_layer \in Layers
    BY SMTT(30), <2>1 DEF RoomInv, CacheTypes
  <2>3. Head(gpu_passes).first \in Nat /\ gpu_layer \in Nat /\ gpu_layer >= 1
    BY <2>2, LayerNumbers DEF GpuPasses
  <2> QED BY ONLY <2>1, <2>3, ready = routed DEF Seq0
<1>4. used[s] = 0 \/ Busy = 0 \/ used[s] < Busy
  BY DEF Free
<1> QED BY ONLY <1>1, <1>2, <1>3, <1>4

(* A row read drops queued reads of its layer at most: the contents stay.  *)
LEMMA ContentReadRow ==
    ASSUME CacheAssumption, RoomInv, ContentInv, ReadRow
    PROVE  ContentInv'
<1>1. /\ serving = "issue" /\ serving' = "issue"
      /\ UNCHANGED <<gpuSideVars, missed, awaited, ready, used, flying, landed_reads, table, slab>>
      /\ \E reads : reads \subseteq Range(read_queue) /\ Drop(reads)
  BY DEF ReadRow
<1>2. PICK reads : reads \subseteq Range(read_queue) /\ Drop(reads)
  BY <1>1
<1>3. Contents' /\ Reading'
  BY <1>1, <1>2, ContentDropped
<1>4. Waits'
  BY <1>1 DEF ContentInv, Waits
<1>5. HasEntries' = HasEntries
  BY <1>1 DEF HasEntries, gpuSideVars
<1>6. Resolving'
  BY <1>1, <1>5 DEF ContentInv, Resolving, gpuSideVars
<1> QED BY <1>3, <1>4, <1>6 DEF ContentInv

(* A plane's reads keep the contents, and spare the layer the GPU is at.   *)
LEMMA ContentPick ==
    ASSUME CacheAssumption, RoomInv, ContentInv, OnePerExpert', Pick
    PROVE  ContentInv'
<1>u. /\ serving = "issue" /\ serving' = "issue"
      /\ UNCHANGED <<gpuSideVars, missed, awaited, ready, role, landed_reads>>
  BY DEF Pick
<1>3. \/ UNCHANGED <<slice, used, read_queue, flying, outstanding, stamped, table, slab>>
      \/ \E x \in Slices, s \in Free(slice, used, role, Tick, Busy) : Placing(x, s)
  BY PickShape
<1>5. slice \in [SlotIds -> Slices \cup {NoSlice}] /\ PlacedIn(slice) /\ role \in SUBSET SlotIds
  BY DEF RoomInv, CacheTypes, Placed, PlacedIn
<1>m. missed = {} /\ missed' = {}
  BY <1>u DEF ContentInv, Waits
<1>r. QueueOf(read_queue) /\ IsFiniteSet(flying) /\ Cardinality(flying) <= ReadDepth
  BY DEF ContentInv, Reading
<1>c. ContentsIn(slice, role, Range(read_queue), flying, landed_reads, outstanding, {}, table, slab)
  BY <1>m DEF ContentInv, Contents
<1>w. Waits'
  BY <1>u, <1>m DEF Waits
<1>h. gpu_stage # "run" /\ ready = routed => HasEntries
  BY DEF ContentInv, Resolving
<1>k. serving' = "issue" /\ gpu_stage' = gpu_stage /\ ready' = ready /\ routed' = routed /\ chosen' = chosen
      /\ gpu_layer' = gpu_layer
  BY <1>u DEF gpuSideVars
<1>6. CASE UNCHANGED <<slice, used, read_queue, flying, outstanding, stamped, table, slab>>
  <2>1. Contents' /\ Reading'
    BY <1>6, <1>c, <1>m, <1>r, <1>u DEF Contents, Reading
  <2>2. HasEntries' = HasEntries
    BY <1>6, <1>k DEF HasEntries
  <2>3. Resolving'
    BY <1>h, <1>k, <2>2 DEF Resolving
  <2> QED BY <1>w, <2>1, <2>3 DEF ContentInv
<1>7. ASSUME NEW x \in Slices, NEW s \in Free(slice, used, role, Tick, Busy), Placing(x, s)
      PROVE  ContentInv'
  <2> PICK old : old = slice[s]
    OBVIOUS
  <2> PICK gone : gone = {r \in Range(read_queue) : r.slice = old /\ old \in outstanding}
    OBVIOUS
  <2> PICK new : new = [slice |-> x, slot |-> s]
    OBVIOUS
  <2>1. /\ \A t \in SlotIds : slice[t] # x
        /\ old \in outstanding => \A r \in flying : r.slice # old
        /\ slice' = [slice EXCEPT ![s] = x] /\ used' = [used EXCEPT ![s] = Tick]
        /\ table' = Unentered(table, {old})
        /\ outstanding' = (outstanding \ {old}) \cup {x}
        /\ Started(Append(Without(read_queue, gone), new), flying)
        /\ slab' = Writing(slab, flying' \ flying)
    BY <1>7 DEF Placing
  <2>2. s \in SlotIds \ role
    BY DEF Free
  <2>3. QueueOf(Without(read_queue, gone)) /\ Range(Without(read_queue, gone)) = Range(read_queue) \ gone
    BY <1>r, WithoutIs
  <2>h. HeldIn(slice, Range(read_queue), flying, landed_reads, outstanding, slab)
        /\ EntriesIn(slice, outstanding, {}, table, slab)
    BY <1>c DEF ContentsIn
  <2>4. new \in CacheReads /\ new \notin Range(read_queue) /\ new \notin flying
    <3>1. new \in CacheReads /\ new.slice = x /\ new.slot = s
      BY <2>2 DEF CacheReads
    <3>2. \A r \in Range(read_queue) \cup flying : slice[r.slot] = r.slice
      BY <2>h DEF HeldIn
    <3> QED BY <2>1, <2>2, <3>1, <3>2
  <2>5. /\ QueueOf(Append(Without(read_queue, gone), new))
        /\ Range(Append(Without(read_queue, gone), new)) = (Range(read_queue) \ gone) \cup {new}
    <3>1. new \notin Range(Without(read_queue, gone))
      BY <2>3, <2>4
    <3>2. /\ QueueOf(Append(Without(read_queue, gone), new))
          /\ Range(Append(Without(read_queue, gone), new)) = Range(Without(read_queue, gone)) \cup {new}
      BY <2>3, <2>4, <3>1, AppendIs
    <3> QED BY ONLY <2>3, <3>2
  <2>6. PICK start : /\ flying' = flying \cup start
                     /\ start \cup Range(read_queue') = Range(Append(Without(read_queue, gone), new))
                     /\ start \cap Range(read_queue') = {} /\ QueueOf(read_queue')
                     /\ IsFiniteSet(flying') /\ Cardinality(flying') <= ReadDepth
    <3>1. Started(Append(Without(read_queue, gone), new), flying)
      BY <2>1
    <3>2. QueueOf(Append(Without(read_queue, gone), new))
      BY <2>5
    <3> PICK longer : longer = Append(Without(read_queue, gone), new)
      OBVIOUS
    <3>3. Started(longer, flying) /\ QueueOf(longer)
      BY ONLY <3>1, <3>2, longer = Append(Without(read_queue, gone), new)
    <3>4. \E start : /\ flying' = flying \cup start /\ start \cup Range(read_queue') = Range(longer)
                     /\ start \cap Range(read_queue') = {} /\ QueueOf(read_queue')
                     /\ IsFiniteSet(flying') /\ Cardinality(flying') <= ReadDepth
      BY ONLY <1>r, <3>3, CacheAssumption, StartedIs
    <3> QED BY ONLY <3>4, longer = Append(Without(read_queue, gone), new)
  <2> PICK nq : nq = Range(read_queue')
    OBVIOUS
  <2> PICK nf : nf = flying'
    OBVIOUS
  <2>7. /\ flying \subseteq nf /\ nq \cap nf = {}
        /\ nq \cup nf = (Range(read_queue) \ gone) \cup flying \cup {new}
    <3>1. Range(read_queue) \cap flying = {}
      BY <2>h DEF HeldIn
    <3> QED BY <2>4, <2>5, <2>6, <3>1
  <2>8. \A r \in landed_reads, q \in nf \cup nq : r.slice # q.slice
    BY <1>u DEF OnePerExpert
  <2>9. ContentsIn([slice EXCEPT ![s] = x], role, nq, nf, landed_reads, (outstanding \ {slice[s]}) \cup {x}, {},
                   Unentered(table, {slice[s]}), Writing(slab, nf \ flying))
    <3>1. slice[s] \in outstanding => \A r \in flying : r.slice # slice[s]
      BY <2>1
    <3>2. nq \cup nf = (Range(read_queue) \ {r \in Range(read_queue) : r.slice = slice[s] /\ slice[s] \in outstanding})
                       \cup flying \cup {[slice |-> x, slot |-> s]}
      BY <2>7
    <3>3. \A t \in SlotIds : slice[t] # x
      BY <2>1
    <3> QED BY ONLY <1>5, <1>c, <2>2, <2>7, <2>8, <3>1, <3>2, <3>3, x \in Slices, ContentsPlace
  <2>10. Contents' /\ Reading'
    BY <1>m, <1>u, <2>1, <2>6, <2>9 DEF Contents, Reading
  <2>11. ASSUME gpu_stage # "run", ready = routed PROVE HasEntries'
    <3>1. used[s] < ready
      BY <1>u, <2>11, BusySpares
    <3>2. ready \in Nat /\ used \in [SlotIds -> Nat] /\ chosen \subseteq Experts /\ gpu_layer \in Layers
      BY DEF RoomInv, CacheTypes
    <3>3. ASSUME NEW e \in chosen
          PROVE  table'[<<gpu_layer, e>>] # NoEntry /\ used'[table'[<<gpu_layer, e>>]] >= ready
      <4> PICK y : y = <<gpu_layer, e>>
        OBVIOUS
      <4>1. y \in Slices
        BY <3>2 DEF Slices
      <4>2. table[y] # NoEntry /\ used[table[y]] >= ready
        BY <1>h, <2>11 DEF HasEntries
      <4>3. table[y] \in SlotIds /\ slice[table[y]] = y
        BY <2>h, <4>1, <4>2 DEF EntriesIn
      <4>4. table[y] # s
        <5>1. used[table[y]] \in Nat /\ used[s] \in Nat
          BY <2>2, <3>2, <4>3
        <5> QED BY ONLY <3>1, <3>2, <4>2, <5>1
      <4>5. y # old
        BY <1>5, <2>2, <4>1, <4>3, <4>4, SlicesAreReal DEF PlacedIn
      <4>6. table'[y] = table[y]
        BY <2>1, <4>1, <4>5 DEF Unentered
      <4>7. used'[table[y]] = used[table[y]]
        BY <2>1, <3>2, <4>3, <4>4
      <4> QED BY <4>2, <4>6, <4>7
    <3> QED BY <1>k, <3>3 DEF HasEntries
  <2>12. Resolving'
    BY <1>k, <2>11 DEF Resolving
  <2> QED BY <1>w, <2>10, <2>12 DEF ContentInv
<1> QED BY <1>3, <1>6, <1>7

(* The first fill's contents.                                              *)
LEMMA ContentInit ==
    ASSUME CacheAssumption, CacheInit
    PROVE  ContentInv
<1>1. /\ slice = [s \in SlotIds |-> IF InFill(s) THEN Ranked(s) ELSE NoSlice] /\ slab = slice
      /\ table = [x \in Slices |-> IF \E s \in SlotIds : InFill(s) /\ Ranked(s) = x
                                   THEN CHOOSE s \in SlotIds : Ranked(s) = x ELSE NoEntry]
      /\ role = 1..PinnedSlots
      /\ read_queue = <<>> /\ flying = {} /\ landed_reads = {} /\ outstanding = {} /\ missed = {} /\ awaited = {}
      /\ serving = "pop" /\ gpu_stage = "run"
  BY DEF CacheInit
<1>2. Reading /\ Range(read_queue) = {}
  <2>1. QueueOf(<<>>) /\ Range(<<>>) = {}
    BY DEF QueueOf, Range
  <2>2. IsFiniteSet({}) /\ Cardinality({}) = 0 /\ ReadDepth \in Nat
    BY FS_EmptySet, FiniteCounts
  <2> QED BY <1>1, <2>1, <2>2 DEF Reading
<1>3. Waits /\ Resolving
  BY <1>1 DEF Waits, Resolving
<1>4. HeldIn(slice, {}, {}, {}, {}, slab) /\ MissingIn(slice, {}, {}, table, slab)
  BY DEF HeldIn, MissingIn
<1>5. EntriesIn(slice, {}, {}, table, slab)
  <2>1. slab \in [SlotIds -> Slices \cup {NoSlice, Torn}]
    BY <1>1, RankedSlices
  <2>2. ASSUME NEW x \in Slices, NEW t \in SlotIds, InFill(t), Ranked(t) = x PROVE table[x] = t
    <3>1. \A s \in SlotIds : Ranked(s) = x => s = t
      BY <2>2, RankedSlices
    <3> QED BY <1>1, <2>2, <3>1
  <2>3. ASSUME NEW x \in Slices, ~ \E t \in SlotIds : InFill(t) /\ Ranked(t) = x PROVE table[x] = NoEntry
    BY <1>1, <2>3
  <2>4. table \in [Slices -> SlotIds \cup {NoEntry}]
    <3>1. \A x \in Slices : table[x] \in SlotIds \cup {NoEntry}
      BY <2>2, <2>3
    <3> QED BY <1>1, <3>1
  <2>5. \A x \in Slices : table[x] # NoEntry => slab[table[x]] = x /\ slice[table[x]] = x
    <3> SUFFICES ASSUME NEW x \in Slices, table[x] # NoEntry PROVE slab[table[x]] = x /\ slice[table[x]] = x
      OBVIOUS
    <3>1. PICK t \in SlotIds : InFill(t) /\ Ranked(t) = x
      BY <2>3
    <3>2. table[x] = t /\ slice[t] = x
      BY <1>1, <2>2, <3>1
    <3> QED BY <1>1, <3>2
  <2>6. \A s \in SlotIds : slice[s] # NoSlice => table[slice[s]] = s
    BY <1>1, <2>2, RankedSlices
  <2> QED BY <2>1, <2>4, <2>5, <2>6 DEF EntriesIn
<1>6. PinnedIn(slice, role, {})
  <2>1. Cardinality(1..PinnedSlots) = PinnedSlots
    BY NumbersTo, FiniteCounts
  <2>2. ASSUME NEW s \in role PROVE slice[s] # NoSlice
    <3>1. s \in SlotIds /\ InFill(s)
      <4>1. PinnedSlots \in Nat /\ CacheSlots \in Nat /\ PinnedSlots <= CacheSlots
        BY DEF CacheAssumption
      <4>2. s \in SlotIds
        BY <1>1, <4>1 DEF SlotIds
      <4>3. PICK m \in Nat : m = CacheLayers * CacheExperts
        BY DEF CacheAssumption
      <4>4. PinnedSlots <= m
        BY <4>3 DEF CacheAssumption
      <4>5. s \in 1..PinnedSlots
        BY <1>1
      <4>6. s <= m
        BY ONLY <4>1, <4>4, <4>5
      <4> QED BY <4>2, <4>3, <4>6 DEF InFill
    <3> QED BY <1>1, <3>1, RankedSlices, SlicesAreReal
  <2> QED BY <1>1, <2>1, <2>2 DEF PinnedIn
<1> QED BY <1>1, <1>2, <1>3, <1>4, <1>5, <1>6 DEF ContentInv, Contents, ContentsIn

(* Every step between states with OnePerExpert keeps the contents.         *)
LEMMA ContentStep ==
    ASSUME CacheAssumption, RoomInv, ContentInv, OnePerExpert, OnePerExpert', [CacheNext]_cacheVars
    PROVE  ContentInv'
<1>1. ASSUME NEW decode \in BOOLEAN, Encode(decode) PROVE ContentInv'
  BY <1>1, ContentQuiet DEF Encode
<1>2. ASSUME NEW n \in AbandonAfter, NEW decode \in BOOLEAN, Abandon(n, decode) PROVE ContentInv'
  BY <1>2, ContentQuiet DEF Abandon, gpuSideVars
<1>3. CASE CacheGpu
  BY <1>3, ContentGpu DEF CacheGpu, GpuKeeps
<1>4. CASE CacheService
  BY <1>4, ContentPop, ContentReadRow, ContentPick, ContentIssued, ContentSee, ContentReadMisses, ContentPublished,
         ContentAfterReady
     DEF CacheService
<1>5. CASE Land
  BY <1>5, ContentLanded
<1>6. CASE UNCHANGED cacheVars
  BY <1>6, ContentQuiet DEF cacheVars, gpuSideVars
<1> QED BY <1>1, <1>2, <1>3, <1>4, <1>5, <1>6 DEF CacheNext

(* Room and contents are what CacheSafe says.                              *)
LEMMA ContentIsSafe ==
    ASSUME CacheAssumption, RoomInv, ContentInv
    PROVE  CacheSafe
<1>c. ContentsIn(slice, role, Range(read_queue), flying, landed_reads, outstanding, missed, table, slab)
  BY DEF ContentInv, Contents
<1>h. /\ HeldIn(slice, Range(read_queue), flying, landed_reads, outstanding, slab)
      /\ MissingIn(slice, outstanding, missed, table, slab)
      /\ EntriesIn(slice, outstanding, missed, table, slab) /\ PinnedIn(slice, role, outstanding)
  BY <1>c DEF ContentsIn
<1>1. serving # "abort" /\ Cardinality(role) = PinnedSlots
  BY <1>h DEF RoomInv, CacheTypes, PinnedIn
<1>2. TablesHonest
  BY <1>h DEF EntriesIn, TablesHonest
<1>3. ExpertsReady
  <2> SUFFICES ASSUME gpu_passes # <<>>, gpu_stage = "experts" \/ (gpu_stage = "wait" /\ ready >= Seq0)
               PROVE  \A e \in chosen : table[<<gpu_layer, e>>] # NoEntry
    BY DEF ExpertsReady
  <2>1. gpu_stage # "run" /\ ready = routed
    <3>1. CASE gpu_stage = "experts"
      BY <3>1 DEF RoomInv, GpuPlace
    <3>2. CASE gpu_stage = "wait" /\ ready >= Seq0
      <4>1. ready \in Nat /\ routed \in Nat /\ routed = Seq0 /\ ready <= routed
        BY <3>2 DEF RoomInv, CacheTypes, GpuPlace
      <4>2. ready = routed
        BY ONLY <3>2, <4>1
      <4> QED BY <3>2, <4>2
    <3> QED BY <3>1, <3>2
  <2> QED BY <2>1 DEF ContentInv, Resolving, HasEntries
<1>4. OneWriter
  <2>1. flying \cup missed \subseteq CacheReads /\ \A r \in flying \cup missed : slice[r.slot] = r.slice
    BY <1>h DEF HeldIn, MissingIn
  <2> QED BY <2>1, SameRead DEF OneWriter
<1> QED BY <1>1, <1>2, <1>3, <1>4 DEF CacheSafe

(* While no expert has one read landed and another under way, every table  *)
(* entry points at a slot that holds its expert, the layer the GPU goes on *)
(* with has all its experts in the table, no two reads write one slot, the *)
(* pinned class keeps its size and no lookup fails: with planes of several *)
(* picks, replaced or not, and passes given up anywhere but right behind a *)
(* cut.  OnePerExpert is the very condition a prediction can break: the    *)
(* run Experts shows how, and what then becomes of ExpertsReady.           *)
THEOREM CacheIsSafe ==
    ASSUME CutsGoOn
    PROVE  CacheSpec /\ []OnePerExpert => []CacheSafe
<1>1. CacheInit => RoomInv /\ ContentInv
  BY RoomInit, ContentInit, CacheAssumption
<1>2. RoomInv /\ [CacheNext]_cacheVars => RoomInv'
  BY RoomStep, CacheAssumption
<1>3. RoomInv /\ ContentInv /\ OnePerExpert /\ OnePerExpert' /\ [CacheNext]_cacheVars => ContentInv'
  BY ContentStep, CacheAssumption
<1>4. RoomInv /\ ContentInv => CacheSafe
  BY ContentIsSafe, CacheAssumption
<1> QED BY <1>1, <1>2, <1>3, <1>4, PTL DEF CacheSpec

(* No prefetch: nothing is read ahead.                                     *)
NothingAhead == prefetch = "none" /\ Range(read_queue) = {} /\ flying = {} /\ landed_reads = {}

(* Without predictions no step reads ahead.                                *)
LEMMA NothingAheadStep ==
    ASSUME CacheAssumption, RoomInv, NothingAhead, QueueOf(read_queue), [CacheNext]_cacheVars
    PROVE  NothingAhead' /\ QueueOf(read_queue')
<1>1. CASE UNCHANGED <<prefetch, readVars>>
  BY <1>1 DEF NothingAhead, readVars, tokenVars
<1>2. CASE Pop
  <2>1. PICK reads : read_queue' = Without(read_queue, reads)
    BY <1>2 DEF Pop, Drop
  <2>2. Range(read_queue') = {} /\ QueueOf(read_queue')
    BY <2>1, WithoutIs DEF NothingAhead
  <2> QED BY <1>2, <2>2 DEF Pop, NothingAhead, cacheHostVars
<1>3. CASE See
  <2>0. UNCHANGED <<prefetch, flying, landed_reads>>
    BY <1>3 DEF See, SeeWhen, cacheHostVars
  <2>1. \/ read_queue' = read_queue
        \/ \E a, b : read_queue' = Without(Without(read_queue, a), b)
    BY <1>3 DEF See, SeeWhen, AfterLookups
  <2>2. Range(read_queue') = {} /\ QueueOf(read_queue')
    <3>1. CASE read_queue' = read_queue
      BY <3>1 DEF NothingAhead
    <3>2. ASSUME NEW a, NEW b, read_queue' = Without(Without(read_queue, a), b)
          PROVE  Range(read_queue') = {} /\ QueueOf(read_queue')
      <4>1. Range(Without(read_queue, a)) = {} /\ QueueOf(Without(read_queue, a))
        BY WithoutIs DEF NothingAhead
      <4> QED BY <3>2, <4>1, WithoutIs
    <3> QED BY <2>1, <3>1, <3>2
  <2> QED BY <2>0, <2>2 DEF NothingAhead
<1>4. CASE Publish
  BY <1>4 DEF Publish, NothingAhead, cacheHostVars
<1>5. ~ReadRow /\ ~Pick /\ ~Issued /\ ~Land
  <2>1. serving # "issue"
    BY DEF RoomInv, Steady, NothingAhead
  <2> QED BY <2>1 DEF ReadRow, Pick, Issued, Land, NothingAhead
<1>6. ASSUME NEW decode \in BOOLEAN, Encode(decode) PROVE UNCHANGED <<prefetch, readVars>>
  BY <1>6 DEF Encode
<1>7. ASSUME NEW n \in AbandonAfter, NEW decode \in BOOLEAN, Abandon(n, decode) PROVE UNCHANGED <<prefetch, readVars>>
  BY <1>7 DEF Abandon
<1>8. ASSUME CacheGpu \/ ReadMisses \/ AfterReady \/ UNCHANGED cacheVars PROVE UNCHANGED <<prefetch, readVars>>
  BY <1>8 DEF CacheGpu, ReadMisses, AfterReady, cacheHostVars, cacheVars
<1> QED BY <1>1, <1>2, <1>3, <1>4, <1>5, <1>6, <1>7, <1>8 DEF CacheNext, CacheService

(* Without expert prefetch nothing is ever read ahead, so OnePerExpert     *)
(* holds and the cache is safe without condition: the misses of each layer *)
(* are read, entered and signalled before the GPU goes on, whenever passes *)
(* are abandoned and whatever is promoted.                                 *)
THEOREM CacheIsSafeUnpredicted ==
    ASSUME Predictions \subseteq {"none"}
    PROVE  CacheSpec => []CacheSafe
<1>0. CutsGoOn
  BY DEF CutsGoOn
<1>1. CacheInit => RoomInv /\ NothingAhead /\ QueueOf(read_queue)
  <2> SUFFICES ASSUME CacheInit PROVE RoomInv /\ NothingAhead /\ QueueOf(read_queue)
    OBVIOUS
  <2>1. QueueOf(<<>>) /\ Range(<<>>) = {}
    BY DEF QueueOf, Range
  <2>2. prefetch = "none" /\ read_queue = <<>> /\ flying = {} /\ landed_reads = {}
    BY DEF CacheInit
  <2> QED BY <2>1, <2>2, RoomInit, CacheAssumption DEF NothingAhead
<1>2. RoomInv /\ [CacheNext]_cacheVars => RoomInv'
  BY <1>0, RoomStep, CacheAssumption
<1>3. RoomInv /\ NothingAhead /\ QueueOf(read_queue) /\ [CacheNext]_cacheVars => NothingAhead' /\ QueueOf(read_queue)'
  BY NothingAheadStep, CacheAssumption
<1>4. NothingAhead => OnePerExpert
  BY DEF NothingAhead, OnePerExpert
<1>5. CacheSpec /\ []OnePerExpert => []CacheSafe
  BY <1>0, CacheIsSafe
<1> QED BY <1>1, <1>2, <1>3, <1>4, <1>5, PTL DEF CacheSpec
=============================================================================
