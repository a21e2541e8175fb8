------------------------------ MODULE IdleWait ------------------------------
(***************************************************************************)
(* How the engine thread waits for its next command (recv_keeping_warm,    *)
(* IdleTimer, KeepAlive of src/serve.rs, and the pin's hold): until the    *)
(* idle unload or the end of the hold, and meanwhile with a tick to the GPU*)
(* whenever it went without one for an interval inside the pin's window.   *)
(* Time is discrete; ages and waits are relative, so it never runs out.    *)
(***************************************************************************)
EXTENDS Naturals, FiniteSets, FiniteSetsExt

CONSTANTS Interval,    \* KEEP_ALIVE_INTERVAL
          KeepWarm,    \* UNLIMITED_HOLD_KEEP_WARM
          IdleSecs,    \* values of the idle unload, 0: never
          HoldSecs,    \* values of the pin's hold, 0: unlimited
          Oldest       \* bound: ages are counted up to this

ASSUME WaitAssumption ==
    /\ Interval \in Nat \ {0} /\ KeepWarm \in Nat /\ Oldest \in Nat
    /\ IdleSecs \subseteq 0 .. Oldest - 1 /\ HoldSecs \subseteq 0 .. Oldest - 1 /\ KeepWarm < Oldest

Never == Oldest + 1

VARIABLES
    loaded,    \* the engine is in memory
    held,      \* its weights are pinned
    served,    \* it has served a request (last_request)
    quiet,     \* time since the last activity
    armed,     \* last_gpu is known: ticks may be due
    gpu,       \* time since the last submission
    idle_secs, hold_secs, nudged,   \* the settings; a change is on its way
    loop,      \* "loop", "recv", "sleep", "timeout"
    deadline, window_end, next_tick,   \* how long until each, or Never
    late       \* the wait went past its end

waitVars == <<loaded, held, served, quiet, armed, gpu, idle_secs, hold_secs, nudged, loop, deadline,
              window_end, next_tick, late>>
ages     == <<quiet, gpu>>
settings == <<idle_secs, hold_secs, nudged>>
timers   == <<deadline, window_end, next_tick, late>>

WaitInit ==
    /\ loaded = TRUE /\ held = FALSE /\ served = FALSE /\ quiet = 0 /\ armed = TRUE /\ gpu = 0
    /\ idle_secs \in IdleSecs /\ hold_secs \in HoldSecs /\ nudged = FALSE
    /\ loop = "loop" /\ deadline = Never /\ window_end = Never /\ next_tick = Never /\ late = FALSE

Less(a, b) == IF a > b THEN a - b ELSE 0

(* IdleTimer::remaining, WeightPin::hold_remaining and keep_warm_remaining; *)
(* a closed window is 0, whether there is none or it is over.               *)
idle_remaining == IF idle_secs = 0 THEN Never ELSE Less(idle_secs, quiet)
hold_remaining == IF served /\ held /\ hold_secs # 0 THEN Less(hold_secs, quiet) ELSE Never
keep_warm_remaining ==
    IF served /\ held THEN Less(IF hold_secs = 0 THEN KeepWarm ELSE hold_secs, quiet) ELSE 0
window == IF loaded THEN keep_warm_remaining ELSE 0

(* KeepAlive::next_tick: inside the window only. *)
tick_in == IF armed /\ window > 0 /\ Less(Interval, gpu) < window THEN Less(Interval, gpu) ELSE Never

Due == Min({deadline, window_end, next_tick})

-----------------------------------------------------------------------------
(* The head of the loop; an unloaded engine has nothing to time out. *)
earliest_deadline == IF loaded THEN Min({idle_remaining, hold_remaining}) ELSE Never

Loop ==
    /\ loop = "loop" /\ loop' = "recv" /\ deadline' = earliest_deadline
    /\ UNCHANGED <<loaded, held, served, armed, ages, settings, window_end, next_tick, late>>

(* recv_keeping_warm: a closed window stops the ticks, whatever it does     *)
(* later; while they are armed the wait ends at the window's end too.       *)
StaysArmed == armed \* mutant: the ticks outlive the window
StillArmed == armed /\ window > 0
EndAwaited == IF armed /\ window > 0 /\ window < deadline THEN window ELSE Never

Recv ==
    /\ loop = "recv" /\ loop' = "sleep" /\ armed' = StillArmed
    /\ window_end' = EndAwaited
    /\ next_tick' = (IF tick_in < deadline THEN tick_in ELSE Never)
    /\ late' = FALSE
    /\ UNCHANGED <<loaded, held, served, ages, settings, deadline>>

(* Time passes, at most one unit beyond what was waited for. *)
Time ==
    /\ loop = "sleep" /\ ~nudged /\ ~late /\ late' = (Due = 0)
    /\ quiet' = Min({quiet + 1, Oldest}) /\ gpu' = Min({gpu + 1, Oldest})
    /\ deadline' = (IF deadline = Never THEN Never ELSE Less(deadline, 1))
    /\ window_end' = (IF window_end = Never THEN Never ELSE Less(window_end, 1))
    /\ next_tick' = (IF next_tick = Never THEN Never ELSE Less(next_tick, 1))
    /\ UNCHANGED <<loaded, held, served, armed, settings, loop>>

(* Woken by time: the deadline goes first, then a tick that is still due;   *)
(* a tick that fails stops them.                                            *)
Wake ==
    /\ loop = "sleep" /\ Due = 0
    /\ \/ deadline = 0 /\ loop' = "timeout" /\ UNCHANGED <<armed, gpu>>
       \/ deadline # 0 /\ tick_in # 0 /\ loop' = "recv" /\ UNCHANGED <<armed, gpu>>
       \/ /\ deadline # 0 /\ tick_in = 0 /\ loop' = "recv"
          /\ \/ gpu' = 0 /\ UNCHANGED armed
             \/ armed' = FALSE /\ UNCHANGED gpu
    /\ UNCHANGED <<loaded, held, served, quiet, settings, timers>>

(* release_if_held_out, then the idle unload, which drops the pin. *)
HeldOutSoon == hold_remaining = 0 /\ quiet > hold_secs \* mutant: not yet at the very end
HeldOut == hold_remaining = 0
Expired == idle_remaining = 0

Timeout ==
    /\ loop = "timeout" /\ loop' = "loop"
    /\ loaded' = (loaded /\ ~Expired) /\ held' = (held /\ ~HeldOut /\ ~Expired)
    /\ served' = (served /\ ~Expired)
    /\ UNCHANGED <<armed, ages, settings, timers>>

(* A job: reloads the engine, may pin it, and restarts both clocks; after a *)
(* fault the engine is another one, whose pin has seen no request.          *)
Job ==
    /\ loop = "sleep" /\ loop' = "loop"
    /\ served' \in BOOLEAN /\ held' \in {FALSE, served'}
    /\ loaded' = TRUE /\ quiet' = 0 /\ armed' = TRUE /\ gpu' = 0
    /\ UNCHANGED <<settings, timers>>

(* An arrival wakes the GPU of a loaded engine, unless that fails. *)
Arrival ==
    /\ loop = "sleep" /\ loop' = "loop"
    /\ \/ loaded /\ armed' = TRUE /\ gpu' = 0
       \/ UNCHANGED <<armed, gpu>>
    /\ UNCHANGED <<loaded, held, served, quiet, settings, timers>>

(* A runtime change of either setting, and the nudge it sends. *)
ChangeSetting ==
    /\ loop = "sleep" /\ ~nudged /\ nudged' = TRUE
    /\ \/ idle_secs' \in IdleSecs \ {idle_secs} /\ UNCHANGED hold_secs
       \/ hold_secs' \in HoldSecs \ {hold_secs} /\ UNCHANGED idle_secs
    /\ UNCHANGED <<loaded, held, served, armed, ages, loop, timers>>

Nudge ==
    /\ loop = "sleep" /\ nudged /\ nudged' = FALSE /\ loop' = "loop"
    /\ UNCHANGED <<loaded, held, served, armed, ages, idle_secs, hold_secs, timers>>

(* The pin's monitor released it under pressure. *)
Released ==
    /\ held /\ held' = FALSE
    /\ UNCHANGED <<loaded, served, armed, ages, settings, loop, timers>>

Running == Loop \/ Recv \/ Wake \/ Timeout
WaitNext == Running \/ Time \/ Job \/ Arrival \/ ChangeSetting \/ Nudge \/ Released

WaitSpec == WaitInit /\ [][WaitNext]_waitVars /\ WF_waitVars(Running) /\ WF_waitVars(Nudge)

-----------------------------------------------------------------------------
(* Properties. *)

(* The wait never ends later than the idle unload and the end of the hold,  *)
(* however often it was interrupted (a tick, an arrival, a change).         *)
DeadlineCovers ==
    loop = "sleep" /\ loaded /\ ~nudged =>
        deadline =< Min({idle_remaining, hold_remaining})

(* The ticks stop where the window closes: an engine that sleeps on with    *)
(* its pin held and the window over has stopped them, so a window that      *)
(* grows later finds them stopped.                                          *)
TicksStop ==
    loop = "sleep" /\ loaded /\ held /\ served /\ window = 0 /\ ~nudged => ~armed \/ Due = 0

(* The wait is as long as it may be and no longer (recv_keeping_warm). *)
WaitsWell == DeadlineCovers /\ TicksStop

(* The loop does not spin: unless commands keep coming, it always gets to a *)
(* wait that has time to go.                                                *)
Resting == loop = "sleep" /\ Due # 0
CommandsCome == []<><<Job \/ Arrival \/ ChangeSetting>>_waitVars
=============================================================================
