----------------------------- MODULE MetalQueue -----------------------------
(***************************************************************************)
(* The Metal context's one command queue (metal.rs): passes submitted by   *)
(* the committing thread, whole or (gated) part by part by a feeder        *)
(* thread, the fence, the host's signals of a watched event, the commit    *)
(* feedback that finds out which waits Metal gave up, the permanent fault, *)
(* and the ways to wait for a pass.  Encoding is left out: a pass is its   *)
(* number of waits.  Times are left out: a wait of seconds may always end. *)
(***************************************************************************)
EXTENDS Integers, Sequences, FiniteSets, SequencesExt, FiniteSetsExt

CONSTANT PassWaits   \* bound: per pass submitted, the numbers of host waits it may have

ASSUME QueueAssumption ==
    PassWaits \in Seq(SUBSET Nat)

VARIABLES
    passes,       \* submitted so far: [waits, from: value before its first wait]
    submitted,    \* the queue: items not yet run
    fence, done,  \* the two values the GPU raises
    asked,        \* what the GPU has asked the host for (the cache's `routed`)
    event,        \* the watched event, raised by the host
    feeding,      \* Feeding::busy
    feeder,       \* the gated pass's feeder
    feedback,     \* command buffers whose handler is still to end and has something to tell
    checked,      \* FeedbackState::watched
    fault,        \* Fault is recorded
    broken,       \* the GPU stopped at an error
    doing, of,    \* the committing thread: its place, the pass it waits for
    pending,      \* PendingPass values it holds
    recycled,     \* passes whose slot went back to the pool
    completed,    \* passes whose wait returned without error
    too_early     \* history: passes with work whose times tell that it ran before its wait's signal

gpuSide    == <<submitted, fence, done, asked, broken, too_early>>
feedSide   == <<feeding, feeder>>
judgeSide  == <<feedback, checked>>
commitSide == <<passes, doing, of, pending, recycled, completed>>
queueVars  == <<gpuSide, feedSide, judgeSide, commitSide, event, fault>>

NoFeeder == [pass |-> 0, rest |-> <<>>, at |-> "none", well |-> TRUE]

QueueInit ==
    /\ passes = <<>> /\ submitted = <<>> /\ fence = 0 /\ done = 0 /\ asked = 0 /\ event = 0
    /\ feeding = FALSE /\ feeder = NoFeeder /\ feedback = {} /\ checked = [p \in DOMAIN PassWaits |-> 0]
    /\ fault = FALSE /\ broken = FALSE
    /\ doing = "idle" /\ of = 0 /\ pending = {} /\ recycled = {} /\ too_early = {}
    /\ completed = {}
-----------------------------------------------------------------------------
(* A pass's program: a command buffer, then one behind each of its waits   *)
(* (item n > 0 is wait n and what follows it), the done signal, the fence. *)
(* Pass p's fence value is p.                                              *)
Item(kind, p, n) == [kind |-> kind, pass |-> p, n |-> n]

Program(p, waits) ==
    [i \in 1..(waits + 1) |-> Item("cmd", p, i - 1)] \o <<Item("done", p, 0), Item("fence", p, 0)>>

(* The value wait n of pass p is for.                                      *)
Awaited(p, n) == passes[p].from + n

(* Up to the first wait, from the second item on.                          *)
PartEnd(items) ==
    LET waits == {i \in 2..Len(items) : items[i].n > 0}
    IN IF waits = {} THEN Len(items) ELSE Min(waits) - 1

Values == IF passes = <<>> THEN 0 ELSE Last(passes).from + Last(passes).waits

(* EncodedPass::commit.  submit and submit_gated first wait for the feeder *)
(* of the pass before, and fail on a fault.                                *)
StartCommit ==
    /\ doing = "idle" /\ Len(passes) < Len(PassWaits) /\ Cardinality(pending) < 2
    /\ doing' = "commit"
    /\ UNCHANGED <<gpuSide, feedSide, judgeSide, event, fault, passes, of, pending, recycled, completed>>

CommitFails ==
    /\ doing = "commit" /\ fault /\ doing' = "idle"
    /\ UNCHANGED <<gpuSide, feedSide, judgeSide, event, fault, passes, of, pending, recycled, completed>>

(* As it would be if a submission did not wait for the feeder.             *)
MaySubmitAtOnce == ~fault

MaySubmit == ~feeding /\ ~fault

(* `threads`: the feeder thread starts; else this thread feeds the pass.   *)
Commit(gated, threads) ==
    /\ doing = "commit" /\ MaySubmit
    /\ \E waits \in PassWaits[Len(passes) + 1] : LET
           p    == Len(passes) + 1
           all  == Program(p, waits)
           part == IF gated /\ waits > 0 THEN PartEnd(all) ELSE Len(all)
       IN /\ passes' = Append(passes, [waits |-> waits, from |-> Values])
          /\ submitted' = submitted \o SubSeq(all, 1, part)
          /\ pending' = pending \cup {p}
          /\ IF part < Len(all)
             THEN /\ feeding' = TRUE
                  /\ feeder' = [pass |-> p, rest |-> SubSeq(all, part + 1, Len(all)), at |-> "gate", well |-> TRUE]
                  /\ doing' = IF threads THEN "idle" ELSE "feed"
             ELSE doing' = "idle" /\ UNCHANGED <<feeding, feeder>>
    /\ UNCHANGED <<fence, done, asked, broken, too_early, judgeSide, event, fault, of, recycled,
                   completed>>

FedInline ==
    /\ doing = "feed" /\ feeder.at = "done" /\ doing' = "idle" /\ feeder' = NoFeeder
    /\ UNCHANGED <<gpuSide, judgeSide, event, fault, passes, of, pending, recycled, completed, feeding>>
-----------------------------------------------------------------------------
(* Feeder::feed.                                                           *)
Signalled == event >= Awaited(feeder.pass, Head(feeder.rest).n)

FeedPart ==
    /\ feeder.at = "gate" /\ Signalled /\ ~fault
    /\ LET n == PartEnd(feeder.rest) IN
         /\ submitted' = submitted \o SubSeq(feeder.rest, 1, n)
         /\ feeder' = [feeder EXCEPT !.rest = SubSeq(@, n + 1, Len(@)),
                                     !.at = IF n = Len(feeder.rest) THEN "ending" ELSE "gate"]
    /\ UNCHANGED <<fence, done, asked, broken, too_early, feeding, judgeSide, commitSide, event, fault>>

(* A fault seen, patience lost at a gate, or a panic anywhere.             *)
FeedStops ==
    /\ feeder.at = "gate"
    /\ feeder' = [feeder EXCEPT !.at = "failed", !.well = FALSE]
    /\ UNCHANGED <<gpuSide, feeding, judgeSide, commitSide, event, fault>>

(* As it would be if a failed feeder only returned its error.              *)
FeedFaultless ==
    /\ feeder.at = "failed" /\ feeder' = [feeder EXCEPT !.at = "ending"]
    /\ UNCHANGED <<gpuSide, feeding, judgeSide, commitSide, event, fault>>

(* run, and EndFeeding of one that panics: the fault, then the end.        *)
FeedFault ==
    /\ feeder.at = "failed" /\ fault' = TRUE /\ feeder' = [feeder EXCEPT !.at = "ending"]
    /\ UNCHANGED <<gpuSide, feeding, judgeSide, commitSide, event>>

FeedEnds ==
    /\ feeder.at = "ending" /\ feeding' = FALSE /\ feeder' = [feeder EXCEPT !.at = "done"]
    /\ UNCHANGED <<gpuSide, judgeSide, commitSide, event, fault>>

FeederThread == FeedPart \/ FeedStops \/ FeedFault \/ FeedEnds
-----------------------------------------------------------------------------
(* The GPU.  A wait is passed when the host has signalled its value, or    *)
(* given up by Metal, silently, once it blocked too long.  A command       *)
(* buffer may fail, and the queue stop or go on; a second failure is left  *)
(* out, one is the fault.  The times of a command buffer that ran before   *)
(* the signal may not tell so: they are not known, or no more than         *)
(* EARLY_START_MARGIN_SECS apart.                                          *)
Early(p, n) == n > 0 /\ event < Awaited(p, n)

RunCmd(p, n) ==
    \E bad \in BOOLEAN, told \in {FALSE, Early(p, n)} :
       /\ bad => ~fault /\ \A f \in feedback : ~f.bad
       /\ told => ~fault /\ ~bad
       /\ broken' \in IF bad THEN BOOLEAN ELSE {FALSE}
       /\ feedback' = feedback \cup IF bad \/ n > 0 THEN {[pass |-> p, n |-> n, early |-> told,
                                                          bad |-> bad, judged |-> FALSE]}
                                     ELSE {}
       /\ asked' = IF n < passes[p].waits THEN Awaited(p, n + 1) ELSE asked
       /\ too_early' = IF told THEN too_early \cup {p} ELSE too_early
       /\ UNCHANGED <<fence, done>>

RunItem(item) ==
    \/ item.kind = "cmd" /\ RunCmd(item.pass, item.n)
    \/ /\ item.kind = "done" /\ done' = item.pass
       /\ UNCHANGED <<feedback, fence, asked, broken, too_early>>
    \/ /\ item.kind = "fence" /\ fence' = item.pass
       /\ UNCHANGED <<feedback, done, asked, broken, too_early>>

QueueGpu ==
    /\ ~broken /\ submitted # <<>> /\ RunItem(Head(submitted)) /\ submitted' = Tail(submitted)
    /\ UNCHANGED <<feedSide, checked, commitSide, event, fault>>

(* The host signals what was asked for, in order, when it is ready to.     *)
HostSignal ==
    /\ event < asked /\ event' = event + 1
    /\ UNCHANGED <<gpuSide, feedSide, judgeSide, commitSide, fault>>

(* A feedback handler, in any order: an error is the fault, and so is a    *)
(* wait that did not hold (wait_released_early: the event is still below   *)
(* its value, or the times tell that the work began before the signal);    *)
(* then it counts.                                                         *)
ReleasedEarly(f) == f.n > 0 /\ (event < Awaited(f.pass, f.n) \/ f.early)

Judge(f) ==
    /\ ~f.judged /\ fault' = (fault \/ f.bad \/ ReleasedEarly(f))
    /\ feedback' = (feedback \ {f}) \cup {[f EXCEPT !.judged = TRUE]}
    /\ UNCHANGED <<gpuSide, feedSide, checked, commitSide, event>>

Count(f) ==
    /\ f.judged /\ feedback' = feedback \ {f}
    /\ checked' = [checked EXCEPT ![f.pass] = IF f.n > 0 THEN @ + 1 ELSE @]
    /\ UNCHANGED <<gpuSide, feedSide, commitSide, event, fault>>

Handlers == \E f \in feedback : Judge(f) \/ Count(f)
-----------------------------------------------------------------------------
(* wait and wait_polled: the feeder joined, the milestone and the done     *)
(* signal polled, the fence, the watches, the fault.  `drop` is the end of *)
(* a PendingPass without a wait, or after one that failed early.           *)
At(place) == doing = place /\ UNCHANGED <<gpuSide, feeding, judgeSide, event, fault, passes>>

Then(place) == doing' = place /\ UNCHANGED <<feeder, of, pending, recycled, completed>>

StartWait ==
    /\ At("idle") /\ \E p \in pending : of' = p
    /\ doing' \in {"join", "join_polled", "drop"} /\ UNCHANGED <<feeder, pending, recycled, completed>>

Fed == feeder.pass # of \/ feeder.at = "done"
Joined == feeder' = IF feeder.pass = of THEN NoFeeder ELSE feeder

Returned(ok) ==
    /\ completed' = IF ok THEN completed \cup {of} ELSE completed
    /\ doing' = "idle" /\ of' = 0 /\ pending' = pending \ {of}

JoinFeeder ==
    /\ \E polled \in BOOLEAN :
         /\ At(IF polled THEN "join_polled" ELSE "join") /\ Fed
         /\ doing' = IF feeder.pass = of /\ ~feeder.well THEN "drop"
                     ELSE IF polled THEN "milestone" ELSE "fence"
    /\ Joined /\ UNCHANGED <<of, pending, recycled, completed>>

(* The milestone is the pass's last wait.                                  *)
Milestone ==
    /\ At("milestone")
    /\ \/ (passes[of].waits = 0 \/ event >= Awaited(of, passes[of].waits) \/ done >= of) /\ Then("poll")
       \/ fault /\ Then("drop")

Poll ==
    /\ At("poll")
    /\ \/ done >= of /\ Then("fence")
       \/ done < of /\ fault /\ Then("drop")

(* wait_fence: the fence reached and no fault, or a fault.                 *)
Fence ==
    /\ At("fence")
    /\ \/ /\ fence >= of /\ ~fault
          /\ doing' = "checks" /\ recycled' = recycled \cup {of}
       \/ /\ fault
          /\ doing' = "drop" /\ UNCHANGED recycled
    /\ UNCHANGED <<feeder, of, pending, completed>>

(* finished: watches_checked (which gives up after 5 s), then the fault.   *)
Checks ==
    /\ At("checks") /\ UNCHANGED <<feeder, recycled>>
    /\ \/ /\ checked[of] >= passes[of].waits
          /\ Returned(~fault)
       \/ /\ checked[of] < passes[of].waits
          /\ Returned(FALSE)

(* The slot is given back only once the GPU is done with it, or at a fault.*)
DropPass ==
    /\ At("drop") /\ Fed /\ (fence >= of \/ fault)
    /\ recycled' = recycled \cup {of} /\ Joined /\ Returned(FALSE)

QueueHost ==
    \/ CommitFails \/ \E gated, threads \in BOOLEAN : Commit(gated, threads)
    \/ FedInline \/ JoinFeeder \/ Milestone \/ Poll \/ Fence \/ Checks \/ DropPass

QueueNext ==
    \/ StartCommit \/ StartWait \/ QueueHost \/ FeederThread \/ QueueGpu \/ HostSignal \/ Handlers

QueueSpec ==
    /\ QueueInit /\ [][QueueNext]_queueVars /\ WF_queueVars(QueueHost) /\ WF_queueVars(FeederThread)
    /\ WF_queueVars(QueueGpu) /\ WF_queueVars(Handlers)
-----------------------------------------------------------------------------
Unrun(p) ==
    \/ \E i \in DOMAIN submitted : submitted[i].pass = p /\ submitted[i].kind = "cmd"
    \/ feeder.pass = p /\ feeder.rest # <<>>

(* A wait that returns without error means that the pass ran to its end,   *)
(* that the host has signalled everything it waited for, and that no work  *)
(* of it is known to have begun before its signal (work that began within  *)
(* the margin, or whose times are not known, is spared).                   *)
OkMeansDone ==
    \A p \in completed :
        ~Unrun(p) /\ p \notin too_early /\ \A n \in 1..passes[p].waits : event >= Awaited(p, n)

(* The fence at a value means that every pass up to it has run, though the *)
(* parts of one are submitted while the next wants to be; and at a fault,  *)
(* when a feeder leaves the rest of its pass unsubmitted, it never runs    *)
(* ahead of that pass either.                                              *)
FenceInOrder == \A p \in DOMAIN passes : p <= fence => ~Unrun(p)

(* Command memory is reused only after the GPU is done with it, or when    *)
(* the context is faulted and submits nothing any more.                    *)
MemoryHeld == \A p \in recycled : Unrun(p) => fault

(* What the callers of wait and the pool of command memory rely on, at any *)
(* interleaving of feeders, handlers and faults (submit_gated, finished,   *)
(* PendingPass::drop).                                                     *)
QueueSafe == OkMeansDone /\ FenceInOrder /\ MemoryHeld

(* Every commit, wait and drop ends, though the host may never signal, a   *)
(* feeder panic and the GPU stop at an error.                              *)
CallsEnd == []<>(doing = "idle")
=============================================================================
