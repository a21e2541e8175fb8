----------------------------- MODULE EngineLoop -----------------------------
(***************************************************************************)
(* The engine thread's loop (engine_loop of src/serve.rs, with the batch   *)
(* scheduler's next_job) and the threads that send it commands: one HTTP   *)
(* thread per generation request, the recorder thread when it changes a    *)
(* timer, and the signal thread.  Commands go through one bounded channel; *)
(* EngineQueue counts the jobs in it.  A request's work is one step.       *)
(***************************************************************************)
EXTENDS Naturals, Sequences, FiniteSets, SequencesExt

CONSTANTS Clients,        \* connections with one generation request each
          Limit,          \* --queue
          MaxBatch,       \* requests decoding together
          MaxRecoveries,  \* MAX_RECOVERIES
          Timers,         \* values of the idle unload and the pin's hold; 0: never
          MaxChanges      \* bound: changes of a timer

ASSUME EngineAssumption ==
    /\ IsFiniteSet(Clients) /\ Clients \cap {"arrival", "wake", "settings", "nobody"} = {}
    /\ Limit \in Nat \ {0} /\ MaxBatch \in Nat \ {0}
    /\ MaxRecoveries \in Nat /\ MaxChanges \in Nat
    /\ 0 \in Timers /\ Timers \subseteq Nat

Nobody  == "nobody"
Control == {"arrival", "wake", "settings"}  \* Cmd, next to the jobs

VARIABLES
    chan,       \* the channel: clients (their jobs) and control messages
    waiting, arrival_pending, settings_pending,   \* EngineQueue
    lifecycle,  \* the state /health shows
    requested,  \* Shutdown.requested
    http,       \* per client: where its thread is
    status,     \* per client: the status it gets, 0 before that is known
    engine,     \* where the engine thread is
    cmd,        \* the command it took
    rows,       \* the jobs it serves
    loaded,     \* the engine is in memory
    recent,     \* faults within RECOVERY_WINDOW
    timers,     \* the timers' value
    deadline,   \* the value the engine's wait was computed from
    recorder,   \* where the thread that changes timers is
    changes,    \* how many it made
    signal,     \* where the signal thread is
    process     \* "up", "ended" (run_with returned) or "exited"

queueVars  == <<chan, waiting, arrival_pending, settings_pending>>
engineVars == <<engine, cmd, rows, loaded, recent, deadline>>
timerVars  == <<timers, recorder, changes>>
vars == <<queueVars, lifecycle, requested, http, status, engineVars, timerVars, signal, process>>

States == {"Loading", "Ready", "Idle", "Reloading", "Stopping", "Recovering"}

Init ==
    /\ chan = <<>> /\ waiting = 0 /\ arrival_pending = FALSE /\ settings_pending = FALSE
    /\ lifecycle = "Loading" /\ requested = FALSE
    /\ http = [c \in Clients |-> "read"] /\ status = [c \in Clients |-> 0]
    /\ engine = "load" /\ cmd = Nobody /\ rows = {} /\ loaded = FALSE /\ recent = 0
    /\ timers \in Timers /\ deadline = 0 /\ recorder = "rest" /\ changes = 0
    /\ signal = "wait" /\ process = "up"

-----------------------------------------------------------------------------
(* The channel. *)

capacity == Limit + 3
Open == engine # "gone"  \* the receiver lives until engine_loop returns
CanSend == Open /\ Len(chan) < capacity

-----------------------------------------------------------------------------
(* One HTTP thread (handle). *)

goto(c, pc) == http' = [http EXCEPT ![c] = pc]
finish(c, code) == goto(c, "done") /\ status' = [status EXCEPT ![c] = code]
httpKeeps == UNCHANGED <<lifecycle, requested, engineVars, timerVars, signal>>

(* The state a thread goes by: the stop request first, since the engine may *)
(* store Ready over the signal thread's Stopping.                           *)
state_now == IF requested THEN "Stopping" ELSE lifecycle

(* The state, read once, decides whether the request is refused after it is *)
(* parsed.  Only a loaded engine has a GPU to wake, by one arrival at a time.*)
Read(c) ==
    /\ http[c] = "read"
    /\ \/ state_now \in {"Stopping", "Loading"} /\ finish(c, 503) /\ UNCHANGED arrival_pending
       \/ /\ state_now = "Ready" /\ ~arrival_pending
          /\ arrival_pending' = TRUE /\ goto(c, "arrive") /\ UNCHANGED status
       \/ /\ state_now \in {"Idle", "Reloading", "Recovering"} \/ (state_now = "Ready" /\ arrival_pending)
          /\ goto(c, "prepare") /\ UNCHANGED <<arrival_pending, status>>
    /\ httpKeeps /\ UNCHANGED <<chan, waiting, settings_pending>>

Arrive(c) ==
    /\ http[c] = "arrive" /\ goto(c, "prepare")
    /\ IF CanSend THEN chan' = Append(chan, "arrival") /\ UNCHANGED arrival_pending
                  ELSE arrival_pending' = FALSE /\ UNCHANGED chan
    /\ httpKeeps /\ UNCHANGED <<waiting, settings_pending, status>>

(* A request that cannot be parsed or rendered is refused. *)
BadRequest(c) ==
    http[c] = "prepare" /\ finish(c, 400) /\ httpKeeps /\ UNCHANGED queueVars

(* admit: counts first and gives the place back when it was one too many. *)
PlaceForOneMore == waiting =< Limit \* mutant: off by one
HasPlace == waiting < Limit

admit(c) ==
    /\ http[c] = "prepare" /\ waiting' = waiting + 1
    /\ goto(c, IF HasPlace THEN "send" ELSE "refuse")
    /\ httpKeeps /\ UNCHANGED <<chan, arrival_pending, settings_pending, status>>

Refuse(c) ==
    /\ http[c] = "refuse" /\ waiting' = waiting - 1 /\ finish(c, 503)
    /\ httpKeeps /\ UNCHANGED <<chan, arrival_pending, settings_pending>>

Send(c) ==
    /\ http[c] = "send"
    /\ \/ CanSend /\ chan' = Append(chan, c) /\ goto(c, "relay") /\ UNCHANGED <<waiting, status>>
       \/ /\ ~CanSend /\ waiting' = waiting - 1 /\ finish(c, IF Open THEN 503 ELSE 500)
          /\ UNCHANGED chan
    /\ httpKeeps /\ UNCHANGED <<arrival_pending, settings_pending>>

(* relay: passes on what the engine sent; a job that was dropped is a 500. *)
relay(c) ==
    /\ http[c] = "relay" /\ status[c] # 0 /\ goto(c, "done")
    /\ httpKeeps /\ UNCHANGED <<queueVars, status>>

Http(c) ==
    /\ process = "up" /\ UNCHANGED process
    /\ \/ Read(c) \/ Arrive(c) \/ BadRequest(c) \/ admit(c) \/ Refuse(c) \/ Send(c) \/ relay(c)

-----------------------------------------------------------------------------
(* The recorder thread changes a timer, then nudges the engine. *)

ChangeTimer ==
    /\ recorder = "rest" /\ changes < MaxChanges
    /\ \E t \in Timers \ {timers} : timers' = t
    /\ recorder' = "nudge" /\ changes' = changes + 1
    /\ UNCHANGED queueVars

(* nudge_engine: claims, then sends. *)
Claim ==
    /\ recorder = "nudge" /\ settings_pending' = TRUE
    /\ recorder' = IF settings_pending THEN "rest" ELSE "send"
    /\ UNCHANGED <<chan, waiting, arrival_pending, timers, changes>>

Nudge ==
    /\ recorder = "send" /\ recorder' = "rest"
    /\ IF CanSend THEN chan' = Append(chan, "settings") /\ UNCHANGED settings_pending
                  ELSE settings_pending' = FALSE /\ UNCHANGED chan
    /\ UNCHANGED <<waiting, arrival_pending, timers, changes>>

Recorder ==
    /\ process = "up" /\ (ChangeTimer \/ Claim \/ Nudge)
    /\ UNCHANGED <<lifecycle, requested, http, status, engineVars, signal, process>>

-----------------------------------------------------------------------------
(* The signal thread.  After the wake it sleeps for the grace, whose end   *)
(* cancels what runs (Serve); only then would it take a second signal.     *)

Signal ==
    /\ signal = "wait" /\ signal' = "tell" /\ requested' = TRUE
    /\ UNCHANGED <<chan, lifecycle, process>>

Tell ==
    /\ signal = "tell" /\ signal' = "wake" /\ lifecycle' = "Stopping"
    /\ UNCHANGED <<chan, requested, process>>

WakeForgotten == chan \* mutant: the waiting engine is not woken
WakeSent == IF CanSend THEN Append(chan, "wake") ELSE chan

Wake ==
    /\ signal = "wake" /\ signal' = "grace" /\ chan' = WakeSent
    /\ UNCHANGED <<lifecycle, requested, process>>

SignalThread ==
    /\ process = "up"
    /\ \/ Signal \/ Tell \/ Wake
    /\ UNCHANGED <<waiting, arrival_pending, settings_pending, http, status, engineVars, timerVars>>

-----------------------------------------------------------------------------
(* The engine thread. *)

othersKeep == UNCHANGED <<requested, http, timerVars, signal>>
queueKeeps == UNCHANGED queueVars
Reply(who, code) == status' = [c \in Clients |-> IF c \in who THEN code ELSE status[c]]
exit_failed(pc) == lifecycle' = "Stopping" /\ engine' = pc

(* The first load, and the one after a fault (recovered). *)
Load ==
    /\ engine \in {"load", "recover"}
    /\ \/ /\ lifecycle' = "Ready" /\ loaded' = TRUE /\ engine' = "check"
       \/ exit_failed("exit500") /\ UNCHANGED loaded
    /\ queueKeeps /\ UNCHANGED <<status, cmd, rows, recent, deadline, process>>

(* The head of the loop: the wait's deadline is computed from the timers. *)
Check ==
    /\ engine = "check"
    /\ \/ requested /\ engine' = "stop" /\ UNCHANGED deadline
       \/ ~requested /\ engine' = "wait" /\ deadline' = (IF loaded THEN timers ELSE 0)
    /\ queueKeeps /\ UNCHANGED <<lifecycle, status, cmd, rows, loaded, recent, process>>

(* recv: while idle, and between two rows of a batch with room (next_job). *)
Receive ==
    /\ chan # <<>> /\ cmd' = Head(chan) /\ chan' = Tail(chan)
    /\ \/ engine = "wait" /\ engine' = "took"
       \/ engine = "serve" /\ MaxBatch > 1 /\ Cardinality(rows) < MaxBatch /\ engine' = "next"
    /\ UNCHANGED <<waiting, arrival_pending, settings_pending, lifecycle, status, rows, loaded,
                   recent, deadline, process>>

Back == IF engine = "took" THEN "check" ELSE "serve"

arrival_taken == IF cmd = "arrival" THEN FALSE ELSE arrival_pending
settings_taken == IF cmd = "settings" THEN FALSE ELSE settings_pending

TakeControl ==
    /\ engine \in {"took", "next"} /\ cmd \in Control
    /\ arrival_pending' = arrival_taken /\ settings_pending' = settings_taken
    /\ engine' = Back /\ cmd' = Nobody
    /\ UNCHANGED <<chan, waiting, lifecycle, status, rows, loaded, recent, deadline, process>>

(* A job taken after the stop is refused, and the idle loop ends with it. *)
TakeJob ==
    /\ engine \in {"took", "next"} /\ cmd \in Clients /\ waiting' = waiting - 1
    /\ \/ /\ requested /\ Reply({cmd}, 503) /\ cmd' = Nobody
          /\ engine' = (IF engine = "took" THEN "stop" ELSE "serve")
          /\ UNCHANGED <<lifecycle, rows>>
       \/ /\ ~requested /\ (loaded \/ engine = "next") /\ rows' = rows \cup {cmd}
          /\ engine' = "serve" /\ cmd' = Nobody /\ UNCHANGED <<lifecycle, status>>
       \/ /\ ~requested /\ ~loaded /\ engine = "took"
          /\ lifecycle' = "Reloading" /\ engine' = "reload" /\ UNCHANGED <<status, rows, cmd>>
    /\ UNCHANGED <<chan, arrival_pending, settings_pending, loaded, recent, deadline,
                   process>>

ReloadQuietly == lifecycle \* mutant: the state stays Reloading
ReadyState == "Ready"

Reload ==
    /\ engine = "reload" /\ cmd' = Nobody
    /\ \/ /\ lifecycle' = ReadyState /\ loaded' = TRUE /\ rows' = {cmd} /\ engine' = "serve"
          /\ UNCHANGED status
       \/ Reply({cmd}, 500) /\ exit_failed("exit500") /\ UNCHANGED <<loaded, rows>>
    /\ queueKeeps /\ UNCHANGED <<recent, deadline, process>>

(* A request ends; one cut short when the grace is over is a 503. *)
Serve ==
    /\ engine = "serve"
    /\ \E c \in rows :
          /\ rows' = rows \ {c}
          /\ Reply({c}, 200) \/ (signal = "grace" /\ Reply({c}, 503))
    /\ queueKeeps
    /\ UNCHANGED <<lifecycle, engine, cmd, loaded, recent, deadline, process>>

Served ==
    /\ engine = "serve" /\ rows = {} /\ (MaxBatch > 1 => chan = <<>>) /\ engine' = "check"
    /\ queueKeeps
    /\ UNCHANGED <<lifecycle, status, cmd, rows, loaded, recent, deadline, process>>

(* A GPU fault ends every request; too many of them end the process. *)
Fault ==
    /\ engine = "serve" /\ Reply(rows, 503) /\ rows' = {} /\ engine' = "faulted"
    /\ queueKeeps /\ UNCHANGED <<lifecycle, cmd, loaded, recent, deadline, process>>

(* RecoveryBudget: the faults still within the window, and this one. *)
record ==
    /\ engine = "faulted" /\ loaded' = FALSE /\ recent' \in 1 .. recent + 1
    /\ \/ recent' =< MaxRecoveries /\ lifecycle' = "Recovering" /\ engine' = "recover"
       \/ recent' > MaxRecoveries /\ exit_failed("exit503")
    /\ queueKeeps /\ UNCHANGED <<status, cmd, rows, deadline, process>>

(* The wait timed out: for the pin's hold, a write ahead, or the idle unload, *)
(* whose timer is read again.                                                *)
Timeout ==
    /\ engine = "wait" /\ loaded /\ deadline # 0 /\ chan = <<>>
    /\ \/ engine' = "check" /\ UNCHANGED loaded
       \/ timers # 0 /\ engine' = "unload" /\ loaded' = FALSE
    /\ queueKeeps /\ UNCHANGED <<lifecycle, status, cmd, rows, recent, deadline, process>>

Unloaded ==
    /\ engine = "unload" /\ lifecycle' = "Idle" /\ engine' = "check"
    /\ queueKeeps /\ UNCHANGED <<status, cmd, rows, loaded, recent, deadline, process>>

Stop ==
    /\ engine = "stop" /\ lifecycle' = "Stopping" /\ engine' = "drain"
    /\ queueKeeps /\ UNCHANGED <<status, cmd, rows, loaded, recent, deadline, process>>

LeftBy(m) == IF m \in Clients THEN waiting - 1 ELSE waiting

refuse_queued ==
    /\ engine \in {"drain", "exit500", "exit503"} /\ chan # <<>> /\ chan' = Tail(chan)
    /\ waiting' = LeftBy(Head(chan))
    /\ Reply({Head(chan)}, IF engine = "exit500" THEN 500 ELSE 503)
    /\ arrival_pending' = (arrival_pending /\ Head(chan) # "arrival")
    /\ settings_pending' = (settings_pending /\ Head(chan) # "settings")
    /\ UNCHANGED <<lifecycle, engineVars, process>>

Refused ==
    /\ engine \in {"drain", "exit500", "exit503"} /\ chan = <<>>
    /\ \/ engine = "drain" /\ engine' = "bye" /\ UNCHANGED process
       \/ engine # "drain" /\ process' = "exited" /\ UNCHANGED engine
    /\ queueKeeps /\ UNCHANGED <<lifecycle, status, cmd, rows, loaded, recent, deadline>>

(* The last unload; then the receiver goes, with the jobs sent meanwhile. *)
LostJobs == status \* mutant: their senders stay
DroppedJobs == [c \in Clients |-> IF c \in ToSet(chan) THEN 500 ELSE status[c]]

Return ==
    /\ engine = "bye" /\ engine' = "gone" /\ loaded' = FALSE
    /\ status' = DroppedJobs /\ chan' = <<>>
    /\ UNCHANGED <<waiting, arrival_pending, settings_pending, lifecycle, cmd, rows, recent,
                   deadline, process>>

Engine ==
    /\ process = "up" /\ othersKeep
    /\ \/ Load \/ Check \/ Receive \/ TakeControl \/ TakeJob \/ Reload \/ Serve \/ Served \/ Fault
       \/ record \/ Timeout \/ Unloaded \/ Stop \/ refuse_queued \/ Refused \/ Return

(* run_with waits for the connections' threads that have a request. *)
Ended ==
    /\ process = "up" /\ engine = "gone" /\ \A c \in Clients : http[c] \in {"read", "done"}
    /\ process' = "ended"
    /\ UNCHANGED <<queueVars, lifecycle, requested, http, status, engineVars, timerVars, signal>>

-----------------------------------------------------------------------------
Next ==
    \/ \E c \in Clients : Http(c)
    \/ Recorder \/ SignalThread \/ Engine \/ Ended

Fairness ==
    /\ \A c \in Clients : WF_vars(Http(c) /\ http[c] # "read")
    /\ WF_vars(Engine) /\ WF_vars(Ended)
    /\ WF_vars(Recorder /\ recorder # "rest")
    /\ WF_vars(SignalThread /\ signal \in {"tell", "wake"})

Spec == Init /\ [][Next]_vars /\ Fairness

-----------------------------------------------------------------------------
(* Properties. *)

(* The queue's counters and flags, the threads and the engine stay in their *)
(* domains; no count goes below zero (EngineQueue::left).                   *)
EngineTypeOK ==
    /\ chan \in Seq(Clients \cup Control) /\ waiting \in Nat
    /\ arrival_pending \in BOOLEAN /\ settings_pending \in BOOLEAN
    /\ lifecycle \in States /\ requested \in BOOLEAN
    /\ http \in [Clients -> {"read", "arrive", "prepare", "refuse", "send", "relay", "done"}]
    /\ status \in [Clients -> {0, 200, 400, 500, 503}]
    /\ engine \in {"load", "check", "wait", "took", "next", "reload", "serve", "faulted", "recover",
                   "unload", "stop", "drain", "bye", "gone", "exit500", "exit503"}
    /\ cmd \in Clients \cup Control \cup {Nobody} /\ rows \subseteq Clients
    /\ loaded \in BOOLEAN /\ recent \in Nat
    /\ timers \in Timers /\ deadline \in Timers /\ changes \in Nat
    /\ recorder \in {"rest", "nudge", "send"}
    /\ signal \in {"wait", "tell", "wake", "grace"}
    /\ process \in {"up", "ended", "exited"}

(* Whoever holds a claim on the channel, a job's place, an arrival's, the   *)
(* settings nudge's or the stop's wake, finds room while the engine lives:  *)
(* "so none can be refused for lack of room" (EngineQueue::capacity).       *)
RoomForAll ==
    ((\E c \in Clients : http[c] \in {"send", "arrive"}) \/ recorder = "send" \/ signal = "wake")
        => Len(chan) < capacity

(* An engine that waits with a deadline computed from an older value of the *)
(* timers has a nudge in the channel or on its way (nudge_engine).          *)
DeadlineFresh ==
    engine = "wait" /\ loaded /\ deadline # timers
        => "settings" \in ToSet(chan) \/ recorder # "rest"

(* A request read after the stop was requested never gets further, although *)
(* a load that ends then stores Ready over the state Stopping (handle).      *)
DoorClosed ==
    [][\A c \in Clients : requested /\ http[c] = "read" => http'[c] \in {"read", "done"}]_vars

(* What /health shows while the engine waits is what it will do: Ready with *)
(* the model in memory, Idle without, Stopping only once asked to stop.     *)
StateHonest ==
    engine = "wait" => \/ lifecycle = (IF loaded THEN "Ready" ELSE "Idle")
                       \/ lifecycle = "Stopping" /\ requested

(* The types, the deadline and the state shown, together.                   *)
EngineSafe == EngineTypeOK /\ DeadlineFresh /\ StateHonest

(* Every request that is read is answered, also one whose job reaches the   *)
(* channel after the engine emptied it for the last time, unless the        *)
(* process exits (a failed load, too many faults).                          *)
NobodyWaits == \A c \in Clients : http[c] # "read" ~> (http[c] = "done" \/ process = "exited")

(* The door of a stopping server is closed, and nobody is left behind it.   *)
Answered == DoorClosed /\ NobodyWaits

(* A stop request ends the process: the wake reaches an engine that waits   *)
(* without a deadline, and running requests are not waited for for ever.    *)
StopEnds == requested ~> process # "up"

=============================================================================
