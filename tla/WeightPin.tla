----------------------------- MODULE WeightPin ------------------------------
(***************************************************************************)
(* The pin on the weights (src/serve/pin.rs): the engine thread locks them *)
(* before a request and unlocks them when it has been idle for the hold;   *)
(* a monitor thread unlocks them under memory pressure, a warning only     *)
(* when the last request in flight ends.  Both change the state under one  *)
(* mutex, which an mlock holds; an action below is one critical section,   *)
(* except that lock_all locks one range at a time.                         *)
(***************************************************************************)
EXTENDS Naturals

CONSTANTS Ranges,   \* how many ranges there are to lock
          MaxRows,  \* requests in flight
          Holds     \* whether the pin has a hold: a subset of BOOLEAN

ASSUME PinAssumption == Ranges \in Nat \ {0} /\ MaxRows \in Nat \ {0} /\ Holds \subseteq BOOLEAN

WARNING  == 2
CRITICAL == 4
Levels   == {1, WARNING, CRITICAL}  \* what the system reports

VARIABLES
    level,      \* the memory pressure now
    locked,     \* ranges locked, a prefix of them
    pinned, in_flight, deferred, stop,   \* State
    notified,   \* the condition variable was signalled
    monitor,    \* "asleep" (wait), "poll" (wait_timeout) or "gone"
    thread,     \* where the engine thread is
    seen,       \* the level it read
    failed,     \* an mlock failed in this active period
    idle,       \* since the last request: "none" yet, "held", "over"
    hold        \* the pin has a hold

pinVars == <<level, locked, pinned, in_flight, deferred, stop, notified, monitor, thread, seen,
             failed, idle, hold>>

PinInit ==
    /\ level \in Levels /\ locked = 0 /\ pinned = FALSE /\ in_flight = 0 /\ deferred = FALSE
    /\ stop = FALSE /\ notified = FALSE /\ monitor = "asleep"
    /\ thread = "run" /\ seen = 1 /\ failed = FALSE /\ idle = "none" /\ hold \in Holds

MutexFree == thread # "lock"
at(pc, next) == thread = pc /\ thread' = next

(* The system's pressure changes at any time. *)
Pressure == level' \in Levels \ {level}
            /\ UNCHANGED <<locked, pinned, in_flight, deferred, stop, notified, monitor, thread,
                           seen, failed, idle, hold>>

(* So does the time since the last request. *)
HoldPasses == hold /\ idle = "held" /\ idle' = "over"
              /\ UNCHANGED <<level, locked, pinned, in_flight, deferred, stop, notified, monitor,
                             thread, seen, failed, hold>>

-----------------------------------------------------------------------------
(* What a reading does to a held pin. *)

WarningKeeps(l, running) == IF l = CRITICAL THEN "release" ELSE "keep" \* mutant: warnings wait for idle
pressure_action(l, running) ==
    IF l < WARNING THEN "keep" ELSE IF l = WARNING /\ running > 0 THEN "defer" ELSE "release"

release == locked' = 0 /\ pinned' = FALSE /\ deferred' = FALSE
pinKeeps == UNCHANGED <<locked, pinned, deferred>>

on_pressure(l, running) ==
    \/ pressure_action(l, running) = "keep" /\ pinKeeps
    \/ pressure_action(l, running) = "defer" /\ deferred' = TRUE /\ UNCHANGED <<locked, pinned>>
    \/ pressure_action(l, running) = "release" /\ release

-----------------------------------------------------------------------------
(* The engine thread. *)

threadKeeps == UNCHANGED <<level, monitor, hold>>

(* before_request counts the request, then pin_for_request reads the level *)
(* without the lock; an active period that ended forgets a failed mlock.   *)
before_request ==
    /\ at("run", "start") /\ in_flight < MaxRows /\ in_flight' = in_flight + 1
    /\ threadKeeps /\ pinKeeps /\ UNCHANGED <<stop, notified, seen, failed, idle>>

ReadLevel ==
    /\ at("start", "pin") /\ seen' = level
    /\ failed' = (failed /\ idle # "over")
    /\ threadKeeps /\ pinKeeps /\ UNCHANGED <<in_flight, stop, notified, idle>>

(* A pin held already meets the level read, as between requests when no    *)
(* other one runs; a pin not held is taken unless something speaks against.*)
pin_for_request ==
    /\ \/ /\ at("pin", "run") /\ pinned /\ on_pressure(seen, in_flight - 1)
       \/ /\ at("pin", "run") /\ ~pinned /\ (failed \/ seen >= WARNING) /\ pinKeeps
       \/ /\ at("pin", "lock") /\ ~pinned /\ ~failed /\ seen < WARNING /\ pinKeeps
    /\ threadKeeps /\ UNCHANGED <<in_flight, stop, notified, seen, failed, idle>>

(* lock_all: every range, or none. *)
UnlockedButOne == IF locked = 0 THEN 0 ELSE 1 \* mutant: the rollback forgets a range
Unlocked == 0

lock_all ==
    /\ threadKeeps
    /\ \/ /\ thread = "lock" /\ locked < Ranges /\ locked' = locked + 1
          /\ UNCHANGED <<thread, pinned, notified, failed>>
       \/ /\ at("lock", "run") /\ locked = Ranges /\ pinned' = TRUE /\ notified' = TRUE
          /\ UNCHANGED <<locked, failed>>
       \/ /\ at("lock", "run") /\ locked < Ranges /\ locked' = Unlocked /\ failed' = TRUE
          /\ UNCHANGED <<pinned, notified>>
    /\ UNCHANGED <<in_flight, deferred, stop, seen, idle>>

(* The request ends: the hold counts from here, and only after the answer  *)
(* it leaves flight; the last one to leave does a deferred release.        *)
after_request ==
    /\ at("run", "close") /\ in_flight > 0 /\ idle' = "held"
    /\ threadKeeps /\ pinKeeps /\ UNCHANGED <<in_flight, stop, notified, seen, failed>>

end_request ==
    /\ at("close", "run") /\ in_flight' = in_flight - 1
    /\ IF in_flight' = 0 /\ deferred THEN release ELSE pinKeeps
    /\ threadKeeps /\ UNCHANGED <<stop, notified, seen, failed, idle>>

(* The engine's wait timed out. *)
release_if_held_out ==
    /\ thread = "run" /\ in_flight = 0 /\ hold /\ idle = "over" /\ pinned /\ release
    /\ threadKeeps /\ UNCHANGED <<in_flight, stop, notified, thread, seen, failed, idle>>

(* Drop: release, stop the monitor, join it, and only then free the memory.*)
DropPin ==
    /\ at("run", "drop") /\ in_flight = 0 /\ release
    /\ threadKeeps /\ UNCHANGED <<in_flight, stop, notified, seen, failed, idle>>

StopMonitor ==
    /\ at("drop", "join") /\ stop' = TRUE /\ notified' = TRUE
    /\ threadKeeps /\ pinKeeps /\ UNCHANGED <<in_flight, seen, failed, idle>>

Join ==
    /\ at("join", "gone") /\ monitor = "gone"
    /\ threadKeeps /\ pinKeeps /\ UNCHANGED <<in_flight, stop, notified, seen, failed, idle>>

EngineThread ==
    \/ before_request \/ ReadLevel \/ pin_for_request \/ lock_all \/ after_request \/ end_request
    \/ release_if_held_out \/ DropPin \/ StopMonitor \/ Join

-----------------------------------------------------------------------------
(* The monitor thread: asleep until signalled while nothing is pinned, and *)
(* reading the level every second while something is.                      *)

Monitor ==
    /\ MutexFree /\ notified' = FALSE
    /\ \/ monitor = "asleep" /\ notified
       \/ monitor = "poll"
    /\ \/ stop /\ monitor' = "gone" /\ pinKeeps
       \/ ~stop /\ ~pinned /\ monitor' = "asleep" /\ pinKeeps
       \/ ~stop /\ pinned /\ monitor = "asleep" /\ monitor' = "poll" /\ pinKeeps
       \/ /\ ~stop /\ pinned /\ monitor = "poll" /\ on_pressure(level, in_flight)
          /\ monitor' = (IF pinned' THEN "poll" ELSE "asleep")
    /\ UNCHANGED <<level, in_flight, stop, thread, seen, failed, idle, hold>>

PinNext == Pressure \/ HoldPasses \/ EngineThread \/ Monitor

(* Requests come and end as they like; what was begun goes on. *)
PinFairness ==
    /\ WF_pinVars(EngineThread /\ thread # "run") /\ WF_pinVars(Monitor)

PinSpec == PinInit /\ [][PinNext]_pinVars /\ PinFairness

-----------------------------------------------------------------------------
(* Properties. *)

(* The pin's state, as the two threads share it. *)
PinTypeOK ==
    /\ level \in Levels /\ seen \in Levels /\ locked \in 0 .. Ranges /\ in_flight \in 0 .. MaxRows
    /\ pinned \in BOOLEAN /\ deferred \in BOOLEAN /\ stop \in BOOLEAN /\ notified \in BOOLEAN
    /\ failed \in BOOLEAN /\ hold \in BOOLEAN
    /\ monitor \in {"asleep", "poll", "gone"} /\ idle \in {"none", "held", "over"}
    /\ thread \in {"run", "start", "pin", "lock", "close", "drop", "join", "gone"}

(* Whenever nobody holds the mutex, the weights are locked as a whole or    *)
(* not at all, as `pinned` says, and once the pin is dropped they are not   *)
(* and the monitor is gone (WeightPin::drop: "nothing is locked after it    *)
(* was freed").                                                             *)
PinnedIsLocked ==
    /\ MutexFree => locked = (IF pinned THEN Ranges ELSE 0)
    /\ thread \in {"drop", "join", "gone"} => ~pinned
    /\ thread = "gone" => monitor = "gone"

(* A warning that was put off is not lost: a request that will release the  *)
(* pin is still in flight (State::end_request).                             *)
DeferredIsPending == deferred => pinned /\ in_flight > 0

(* A warning never unpins the weights under a request that runs; only the   *)
(* critical level does ("not under the prefill or the decode").             *)
NoReleaseUnderRequest ==
    [][pinned /\ ~pinned' => \/ in_flight' = 0
                             \/ thread = "pin" /\ in_flight = 1
                             \/ CRITICAL \in {level, seen}]_pinVars

(* The weights do not stay pinned under pressure: critical releases them in *)
(* any case, a warning when no request runs.                                *)
PressureReleases ==
    /\ []<>~(pinned /\ level = CRITICAL)
    /\ []<>~(pinned /\ level >= WARNING /\ in_flight = 0)

(* Dropping the pin ends: the monitor hears of the stop wherever it sleeps. *)
DropEnds == []<>(thread \notin {"drop", "join"})

(* Together: what holds at every moment of the pin, and what must come.     *)
PinSafe == PinTypeOK /\ PinnedIsLocked /\ DeferredIsPending
PinReleases == NoReleaseUnderRequest /\ PressureReleases /\ DropEnds
=============================================================================
