--------------------------- MODULE Threads_proofs ---------------------------
(***************************************************************************)
(* The components that MCThreads runs beside each other, proved one by one: *)
(* the weight pin for every number of ranges and of requests in flight, the *)
(* connection for responses of any length, the engine's wait for any        *)
(* intervals and settings, and the command queue for any passes and waits.  *)
(***************************************************************************)
EXTENDS WeightPin, Connection, IdleWait, MetalQueue, Recorder, SequenceTheorems, FiniteSetTheorems,
        WellFoundedInduction, TLAPS

-----------------------------------------------------------------------------
(***************************************************************************)
(* WeightPin                                                               *)
(***************************************************************************)

(* PinSafe needs to know what the engine thread is in the middle of: it     *)
(* only locks what is not pinned, and only ends a request that it counted.  *)
Locking == thread = "lock" => ~pinned
Counted == thread \in {"start", "pin", "lock", "close"} => in_flight > 0

PinInv == PinSafe /\ Locking /\ Counted

(* What is assigned to a Boolean variable, said as a formula. *)
LEMMA Cleared == ASSUME NEW b, b = FALSE PROVE ~b /\ b \in BOOLEAN
  OBVIOUS
LEMMA Raised == ASSUME NEW b, b = TRUE PROVE b /\ b \in BOOLEAN
  OBVIOUS

LEMMA InitPin == PinInit => PinInv
<1> SUFFICES ASSUME PinInit PROVE PinInv
  OBVIOUS
<1>1. ~pinned /\ ~deferred /\ pinned \in BOOLEAN /\ deferred \in BOOLEAN
  BY Cleared DEF PinInit
<1>2. stop \in BOOLEAN /\ notified \in BOOLEAN /\ failed \in BOOLEAN /\ hold \in BOOLEAN
  BY Cleared, PinAssumption DEF PinInit, PinAssumption
<1>3. /\ level \in Levels /\ seen \in Levels /\ locked = 0 /\ in_flight = 0
      /\ monitor = "asleep" /\ thread = "run" /\ idle = "none"
  BY DEF PinInit, Levels
<1> QED
  BY <1>1, <1>2, <1>3, PinAssumption DEF PinAssumption, PinInv, PinSafe, PinTypeOK, PinnedIsLocked,
     DeferredIsPending, Locking, Counted, MutexFree

(* A release, and a reading of the level whoever makes it: it leaves the    *)
(* shared state alone, defers under a request, or releases.                 *)
Let_go == locked' = 0 /\ ~pinned' /\ pinned' \in BOOLEAN /\ ~deferred' /\ deferred' \in BOOLEAN

LEMMA Release == release => Let_go
  BY Cleared DEF release, Let_go

LEMMA OnPressure ==
    ASSUME NEW l \in Levels, NEW running \in Nat, on_pressure(l, running)
    PROVE  \/ UNCHANGED <<locked, pinned, deferred>>
           \/ deferred' /\ deferred' \in BOOLEAN /\ running > 0 /\ UNCHANGED <<locked, pinned>>
           \/ Let_go
<1>1. CASE pressure_action(l, running) = "keep" /\ pinKeeps
  BY <1>1 DEF pinKeeps
<1>2. CASE pressure_action(l, running) = "defer" /\ deferred' = TRUE /\ UNCHANGED <<locked, pinned>>
  <2>1. running > 0
    BY <1>2 DEF pressure_action, Levels, WARNING, CRITICAL
  <2> QED
    BY <1>2, <2>1, Raised
<1>3. CASE release
  BY <1>3, Release
<1> QED
  BY <1>1, <1>2, <1>3 DEF on_pressure

(* Every step keeps the invariant: the steps that read the level by what a  *)
(* reading does, the others as they are.                                    *)
LEMMA StepPin == PinInv /\ [PinNext]_pinVars => PinInv'
<1> SUFFICES ASSUME PinInv, [PinNext]_pinVars PROVE PinInv'
  OBVIOUS
<1> USE PinAssumption DEF PinAssumption
<1> USE DEF PinInv, PinSafe, PinTypeOK, PinnedIsLocked, DeferredIsPending, Locking, Counted, MutexFree
<1>1. CASE Pressure
  BY <1>1 DEF Pressure
<1>2. CASE HoldPasses
  BY <1>2 DEF HoldPasses
<1>3. CASE EngineThread
  <2>1. CASE before_request
    BY <2>1 DEF before_request, at, threadKeeps, pinKeeps
  <2>2. CASE ReadLevel
    <3>1. failed' \in BOOLEAN
      BY <2>2 DEF ReadLevel
    <3> QED
      BY <2>2, <3>1 DEF ReadLevel, at, threadKeeps, pinKeeps
  <2>3. CASE pin_for_request
    <3>1. CASE at("pin", "run") /\ pinned /\ on_pressure(seen, in_flight - 1)
      <4>1. in_flight - 1 \in Nat /\ seen \in Levels
        BY <3>1 DEF at
      <4>2. \/ UNCHANGED <<locked, pinned, deferred>>
            \/ deferred' /\ deferred' \in BOOLEAN /\ in_flight - 1 > 0 /\ UNCHANGED <<locked, pinned>>
            \/ Let_go
        BY <3>1, <4>1, OnPressure
      <4>3. /\ pinned /\ thread = "pin" /\ thread' = "run"
            /\ UNCHANGED <<level, monitor, hold, in_flight, stop, notified, seen, failed, idle>>
        BY <2>3, <3>1 DEF pin_for_request, at, threadKeeps
      <4>4. CASE UNCHANGED <<locked, pinned, deferred>>
        BY <4>3, <4>4
      <4>5. CASE deferred' /\ deferred' \in BOOLEAN /\ in_flight - 1 > 0 /\ UNCHANGED <<locked, pinned>>
        BY <4>3, <4>5
      <4>6. CASE Let_go
        BY <4>3, <4>6 DEF Let_go
      <4> QED
        BY <4>2, <4>4, <4>5, <4>6
    <3>2. CASE ~pinned /\ pinKeeps /\ (at("pin", "run") \/ at("pin", "lock"))
      BY <2>3, <3>2 DEF pin_for_request, at, threadKeeps, pinKeeps
    <3> QED
      BY <2>3, <3>1, <3>2 DEF pin_for_request
  <2>4. CASE lock_all
    <3>1. thread = "lock" /\ ~pinned /\ ~deferred
      BY <2>4 DEF lock_all, at
    <3>2. CASE locked < Ranges /\ locked' = locked + 1 /\ UNCHANGED <<thread, pinned, notified, failed>>
      BY <2>4, <3>1, <3>2 DEF lock_all, threadKeeps
    <3>3. CASE at("lock", "run") /\ locked = Ranges /\ pinned' = TRUE /\ notified' = TRUE
               /\ UNCHANGED <<locked, failed>>
      <4>1. pinned' /\ pinned' \in BOOLEAN /\ notified' \in BOOLEAN
        BY <3>3, Raised
      <4>2. thread' = "run" /\ locked' = Ranges /\ failed' = failed
        BY <3>3 DEF at
      <4> QED
        BY <2>4, <3>1, <4>1, <4>2 DEF lock_all, threadKeeps
    <3>4. CASE at("lock", "run") /\ locked' = Unlocked /\ failed' = TRUE /\ UNCHANGED <<pinned, notified>>
      <4>1. failed' \in BOOLEAN
        BY <3>4, Raised
      <4>2. thread' = "run" /\ locked' = 0 /\ pinned' = pinned /\ notified' = notified
        BY <3>4 DEF at, Unlocked
      <4> QED
        BY <2>4, <3>1, <4>1, <4>2 DEF lock_all, threadKeeps
    <3> QED
      BY <2>4, <3>2, <3>3, <3>4 DEF lock_all
  <2>5. CASE after_request
    BY <2>5 DEF after_request, at, threadKeeps, pinKeeps
  <2>6. CASE end_request
    <3>1. IF in_flight' = 0 /\ deferred THEN Let_go ELSE UNCHANGED <<locked, pinned, deferred>>
      BY <2>6, Release DEF end_request, pinKeeps
    <3> QED
      BY <2>6, <3>1 DEF end_request, at, threadKeeps, Let_go
  <2>7. CASE release_if_held_out
    <3>1. Let_go
      BY <2>7, Release DEF release_if_held_out
    <3> QED
      BY <2>7, <3>1 DEF release_if_held_out, threadKeeps, Let_go
  <2>8. CASE DropPin
    <3>1. Let_go
      BY <2>8, Release DEF DropPin
    <3> QED
      BY <2>8, <3>1 DEF DropPin, at, threadKeeps, Let_go
  <2>9. CASE StopMonitor
    BY <2>9 DEF StopMonitor, at, threadKeeps, pinKeeps
  <2>10. CASE Join
    BY <2>10 DEF Join, at, threadKeeps, pinKeeps
  <2> QED
    BY <1>3, <2>1, <2>2, <2>3, <2>4, <2>5, <2>6, <2>7, <2>8, <2>9, <2>10 DEF EngineThread
<1>4. CASE Monitor
  <2>1. \/ pinKeeps
        \/ pinned /\ on_pressure(level, in_flight)
    BY <1>4 DEF Monitor
  <2>2. level \in Levels /\ in_flight \in Nat
    OBVIOUS
  <2>3. \/ UNCHANGED <<locked, pinned, deferred>>
        \/ deferred' /\ deferred' \in BOOLEAN /\ pinned /\ in_flight > 0 /\ UNCHANGED <<locked, pinned>>
        \/ Let_go
    BY <2>1, <2>2, OnPressure DEF pinKeeps
  <2>4. /\ monitor # "gone" /\ thread # "lock" /\ monitor' \in {"asleep", "poll", "gone"}
        /\ UNCHANGED <<level, in_flight, stop, thread, seen, failed, idle, hold>>
    BY <1>4 DEF Monitor
  <2>5. notified' \in BOOLEAN
    BY <1>4 DEF Monitor
  <2>6. thread = "gone" => monitor = "gone"
    OBVIOUS
  <2> QED
    BY <2>3, <2>4, <2>5, <2>6 DEF Let_go
<1>5. CASE UNCHANGED pinVars
  BY <1>5 DEF pinVars
<1> QED
  BY <1>1, <1>2, <1>3, <1>4, <1>5 DEF PinNext

(* The weights are locked as a whole or not at all, as `pinned` says; a     *)
(* deferred release has a request in flight that will do it; and a dropped  *)
(* pin leaves nothing locked and no monitor (src/serve/pin.rs).             *)
THEOREM PinIsSafe == PinSpec => []PinSafe
<1>1. PinInv => PinSafe
  BY DEF PinInv
<1> QED
  BY InitPin, StepPin, <1>1, PTL DEF PinSpec

-----------------------------------------------------------------------------
(***************************************************************************)
(* Connection                                                              *)
(***************************************************************************)

Piece == {"interim", "comment", "head", "chunk", "last", "whole"}

(* What WireWellFormed asks of the next piece. *)
Fits(piece) ==
    /\ piece \in {"interim", "head", "whole"} => ToSet(wire) \subseteq {"interim"}
    /\ piece \in {"chunk", "comment", "last"} => "head" \in ToSet(wire) /\ "last" \notin ToSet(wire)
    /\ piece = "interim" => interim
    /\ piece = "comment" => events

(* The phase, which both writers look at under its lock, tells what is on   *)
(* the wire; the relay's place tells the phase.                             *)
PhaseTellsWire ==
    /\ phase = "Waiting" => ToSet(wire) \subseteq {"interim"}
    /\ phase \in {"Events", "Body"} => "head" \in ToSet(wire) /\ "last" \notin ToSet(wire)
    /\ phase = "Events" => events

RelayTellsPhase ==
    /\ relay \in {"first", "respond"} => phase = "Waiting"
    /\ relay \in {"stream", "finish"} => phase \in {"Events", "Body"}
    /\ phase = "Done" => relay = "done"

(* Nothing but a client that left flags the request, and only such a one's  *)
(* connection is closed without an end.                                     *)
OnlyTheGone ==
    /\ cancelled \/ reset => client = "left"
    /\ relay \in {"drain", "close"} => cancelled

ConnInv ==
    /\ wire \in Seq(Piece) /\ phase \in {"Waiting", "Events", "Body", "Done"}
    /\ WireWellFormed /\ LiveIsServed
    /\ PhaseTellsWire /\ RelayTellsPhase /\ OnlyTheGone

(* A piece that fits leaves the wire well formed, itself at its end. *)
LEMMA WrittenWell ==
    ASSUME wire \in Seq(Piece), WireWellFormed, NEW piece \in Piece, Fits(piece),
           wire' = Append(wire, piece), UNCHANGED <<interim, events>>
    PROVE  /\ wire' \in Seq(Piece) /\ WireWellFormed'
           /\ ToSet(wire') = ToSet(wire) \cup {piece}
           /\ wire' # <<>> /\ Last(wire') = piece
  <1>1. /\ wire' \in Seq(Piece) /\ wire' # <<>> /\ Len(wire) \in Nat /\ Len(wire') = Len(wire) + 1
        /\ \A i \in 1 .. Len(wire) : wire'[i] = wire[i]
        /\ wire'[Len(wire) + 1] = piece
        /\ DOMAIN wire = 1 .. Len(wire) /\ DOMAIN wire' = 1 .. Len(wire')
    BY AppendProperties, LenProperties
  <1>2. ToSet(wire') = ToSet(wire) \cup {piece}
    BY <1>1 DEF ToSet
  <1>3. ASSUME NEW i \in 1 .. Len(wire)
        PROVE  SubSeq(wire', 1, i - 1) = SubSeq(wire, 1, i - 1)
    <2>1. CASE i = 1
      BY <2>1, SubSeqEmpty
    <2>2. CASE i # 1
      <3>1. wire' = wire \o <<piece>> /\ <<piece>> \in Seq(Piece)
        BY AppendIsConcat
      <3> QED BY <3>1, <2>2, SubSeqOfConcat1, <1>1
    <2> QED BY <2>1, <2>2
  <1>4. SubSeq(wire', 1, Len(wire)) = wire
    <2>1. CASE Len(wire) = 0
      BY <2>1, SubSeqEmpty, <1>1, EmptySeq
    <2>2. CASE Len(wire) # 0
      <3>1. wire' = wire \o <<piece>> /\ <<piece>> \in Seq(Piece)
        BY AppendIsConcat
      <3>2. SubSeq(wire', 1, Len(wire)) = SubSeq(wire, 1, Len(wire))
        BY <3>1, <2>2, SubSeqOfConcat1, <1>1
      <3> QED BY <3>2, SubSeqFull
    <2> QED BY <2>1, <2>2
  <1>5. WireWellFormed'
    <2> SUFFICES ASSUME NEW i \in 1 .. Len(wire')
                 PROVE  LET before == ToSet(SubSeq(wire', 1, i - 1)) IN
                        /\ wire'[i] \in {"interim", "head", "whole"} => before \subseteq {"interim"}
                        /\ wire'[i] \in {"chunk", "comment", "last"} => "head" \in before /\ "last" \notin before
                        /\ wire'[i] = "interim" => interim'
                        /\ wire'[i] = "comment" => events'
      BY DEF WireWellFormed
    <2>1. CASE i \in 1 .. Len(wire)
      BY <2>1, <1>1, <1>3 DEF WireWellFormed
    <2>2. CASE i = Len(wire) + 1
      <3>1. SubSeq(wire', 1, i - 1) = wire
        BY <2>2, <1>1, <1>4
      <3> QED BY <3>1, <2>2, <1>1 DEF Fits
    <2> QED BY <2>1, <2>2, <1>1
  <1> QED BY <1>1, <1>2, <1>5 DEF Last

LEMMA InitConn == ConnInit => ConnInv
  <1> SUFFICES ASSUME ConnInit PROVE ConnInv
    OBVIOUS
  <1>1. wire \in Seq(Piece) /\ Len(wire) = 0 /\ ToSet(wire) = {}
    BY EmptySeq, LenProperties DEF ConnInit, ToSet
  <1> QED BY <1>1 DEF ConnInit, ConnInv, WireWellFormed, LiveIsServed, PhaseTellsWire, RelayTellsPhase, OnlyTheGone

(* A write either flags the client that left or puts its piece on the wire. *)
LEMMA WriteDoes ==
    ASSUME ConnInv, NEW piece \in Piece, Fits(piece), write(piece), UNCHANGED peer
    PROVE  /\ wire' \in Seq(Piece) /\ WireWellFormed'
           /\ IF reset THEN cancelled' /\ wire' = wire /\ ToSet(wire') = ToSet(wire) /\ client' = "left"
              ELSE /\ (cancelled' <=> cancelled) /\ ToSet(wire') = ToSet(wire) \cup {piece}
                   /\ wire' # <<>> /\ Last(wire') = piece
  <1>1. CASE reset
    <2>1. cancelled' = TRUE /\ wire' = wire
      BY <1>1 DEF write
    <2>2. WireWellFormed'
      BY <2>1 DEF ConnInv, WireWellFormed, peer
    <2>3. client' = "left"
      BY <1>1 DEF ConnInv, OnlyTheGone, peer
    <2> QED BY <1>1, <2>1, <2>2, <2>3 DEF ConnInv
  <1>2. CASE ~reset
    <2>1. wire' = Append(wire, piece) /\ cancelled' = cancelled
      BY <1>2 DEF write
    <2> QED BY <1>2, <2>1, WrittenWell DEF ConnInv, peer
  <1> QED BY <1>1, <1>2

(* What leaves the wire, the phase and the relay's place alone keeps most   *)
(* of the invariant.                                                        *)
LEMMA WireKept ==
    ASSUME ConnInv, wire' = wire, UNCHANGED <<interim, events>>
    PROVE  wire' \in Seq(Piece) /\ WireWellFormed' /\ ToSet(wire') = ToSet(wire)
  BY DEF ConnInv, WireWellFormed

LEMMA OthersKeep ==
    ASSUME ConnInv, UNCHANGED <<wire, interim, events, phase, relay>>, OnlyTheGone', cancelled => cancelled'
    PROVE  ConnInv'
  <1>1. wire' \in Seq(Piece) /\ WireWellFormed' /\ ToSet(wire') = ToSet(wire)
    BY WireKept
  <1>2. LiveIsServed'
    BY DEF ConnInv, LiveIsServed, OnlyTheGone
  <1> QED BY <1>1, <1>2 DEF ConnInv, PhaseTellsWire, RelayTellsPhase

LEMMA ClientSteps == ASSUME ConnInv, Leave \/ ResetArrives PROVE ConnInv'
  <1>1. UNCHANGED <<wire, interim, events, phase, relay, cancelled>>
    BY DEF Leave, ResetArrives
  <1>2. OnlyTheGone'
    <2>1. CASE Leave
      <3>1. CASE client' = "left"
        BY <3>1, <1>1 DEF ConnInv, OnlyTheGone
      <3>2. CASE client' = "half" /\ client = "reads" /\ reset' = FALSE
        BY <3>2, <1>1 DEF ConnInv, OnlyTheGone
      <3> QED BY <2>1, <3>1, <3>2 DEF Leave
    <2>2. CASE ResetArrives
      BY <2>2, <1>1 DEF ResetArrives, ConnInv, OnlyTheGone
    <2> QED BY <2>1, <2>2
  <1> QED BY <1>1, <1>2, OthersKeep

LEMMA EngineSteps == ASSUME ConnInv, Work \/ Notice PROVE ConnInv'
  <1>1. UNCHANGED <<wire, client, reset, interim, events, phase, relay, cancelled>>
    BY DEF Work, Notice, peer
  <1> QED BY <1>1, OthersKeep DEF ConnInv, OnlyTheGone

(* The relay's steps that write: its place says which pieces may follow. *)
LEMMA RelayWrites == ASSUME ConnInv, start \/ respond \/ write_chunk \/ finish PROVE ConnInv'
  <1>1. CASE start
    <2>1. "head" \in Piece /\ Fits("head") /\ write("head") /\ UNCHANGED peer
      BY <1>1 DEF start, Piece, Fits, ConnInv, RelayTellsPhase, PhaseTellsWire, engineKeeps
    <2>2. CASE reset
      BY <1>1, <2>1, <2>2, WriteDoes DEF start, goOn, peer, ConnInv, LiveIsServed, PhaseTellsWire,
         RelayTellsPhase, OnlyTheGone
    <2>3. CASE ~reset
      <3>1. relay = "first" /\ relay' = "stream" /\ phase' = (IF events THEN "Events" ELSE "Body")
        BY <1>1, <2>3 DEF start, goOn
      <3>2. ToSet(wire) \subseteq {"interim"} /\ UNCHANGED <<client, reset, events>>
        BY <2>1, <3>1 DEF ConnInv, RelayTellsPhase, PhaseTellsWire, peer
      <3>3. ToSet(wire') = ToSet(wire) \cup {"head"} /\ wire' \in Seq(Piece) /\ WireWellFormed'
            /\ (cancelled' <=> cancelled)
        BY <2>1, <2>3, WriteDoes
      <3> QED BY <3>1, <3>2, <3>3 DEF ConnInv, LiveIsServed, PhaseTellsWire, RelayTellsPhase, OnlyTheGone
    <2> QED BY <2>2, <2>3
  <1>2. CASE respond
    <2>1. "whole" \in Piece /\ Fits("whole") /\ write("whole") /\ UNCHANGED peer
      BY <1>2 DEF respond, Piece, Fits, ConnInv, RelayTellsPhase, PhaseTellsWire, engineKeeps
    <2>2. relay' = "done" /\ phase' = "Done"
      BY <1>2 DEF respond, goOn
    <2> QED BY <2>1, <2>2, WriteDoes DEF peer, ConnInv, LiveIsServed, PhaseTellsWire, RelayTellsPhase, OnlyTheGone
  <1>3. CASE write_chunk
    <2>1. "chunk" \in Piece /\ Fits("chunk") /\ write("chunk") /\ UNCHANGED peer
      BY <1>3 DEF write_chunk, Piece, Fits, ConnInv, RelayTellsPhase, PhaseTellsWire, engineKeeps
    <2>2. relay = "stream" /\ relay' = (IF reset THEN "drain" ELSE "stream") /\ phase' = phase
      BY <1>3 DEF write_chunk, goOn
    <2> QED BY <2>1, <2>2, WriteDoes DEF peer, ConnInv, LiveIsServed, PhaseTellsWire, RelayTellsPhase, OnlyTheGone
  <1>4. CASE finish
    <2>1. "last" \in Piece /\ Fits("last") /\ write("last") /\ UNCHANGED peer
      BY <1>4 DEF finish, Piece, Fits, ConnInv, RelayTellsPhase, PhaseTellsWire, engineKeeps
    <2>2. relay' = "done" /\ phase' = "Done"
      BY <1>4 DEF finish, goOn
    <2> QED BY <2>1, <2>2, WriteDoes DEF peer, ConnInv, LiveIsServed, PhaseTellsWire, RelayTellsPhase, OnlyTheGone
  <1> QED BY <1>1, <1>2, <1>3, <1>4

(* The others move its place; a close is only reached with the flag up. *)
LEMMA RelayMoves == ASSUME ConnInv, NoResponse \/ StreamEnds \/ drain \/ close PROVE ConnInv'
  <1>1. UNCHANGED <<wire, cancelled, client, reset, interim, events>>
    BY DEF NoResponse, StreamEnds, drain, close, engineKeeps, peer
  <1>2. wire' \in Seq(Piece) /\ WireWellFormed' /\ ToSet(wire') = ToSet(wire)
    BY <1>1, WireKept
  <1>3. CASE NoResponse
    <2>1. relay = "first" /\ phase' = phase
      BY <1>3 DEF NoResponse
    <2>2. (relay' = "close" /\ cancelled) \/ relay' = "respond"
      BY <1>3, Zenon DEF NoResponse, goOn
    <2> QED BY <1>1, <1>2, <2>1, <2>2 DEF ConnInv, LiveIsServed, PhaseTellsWire, RelayTellsPhase, OnlyTheGone
  <1>4. CASE StreamEnds
    <2>1. relay = "stream" /\ phase' = phase /\ relay' = (IF cancelled THEN "close" ELSE "finish")
      BY <1>4 DEF StreamEnds, goOn
    <2> QED BY <1>1, <1>2, <2>1 DEF ConnInv, LiveIsServed, PhaseTellsWire, RelayTellsPhase, OnlyTheGone
  <1>5. CASE drain
    <2>1. relay = "drain" /\ phase' = phase /\ relay' \in {"close", "drain"}
      BY <1>5 DEF drain, goOn
    <2> QED BY <1>1, <1>2, <2>1 DEF ConnInv, LiveIsServed, PhaseTellsWire, RelayTellsPhase, OnlyTheGone
  <1>6. CASE close
    <2>1. relay = "close" /\ phase' = "Done" /\ relay' = "done"
      BY <1>6 DEF close, goOn
    <2> QED BY <1>1, <1>2, <2>1 DEF ConnInv, LiveIsServed, PhaseTellsWire, RelayTellsPhase, OnlyTheGone
  <1> QED BY <1>3, <1>4, <1>5, <1>6

(* The watcher's probe fits the phase it saw, which nobody can have left,   *)
(* and it flags the client only at a reset.                                 *)
LEMMA WatcherSteps == ASSUME ConnInv, Watcher PROVE ConnInv'
  <1>1. UNCHANGED <<client, reset, interim, events, phase, relay>>
    BY DEF Watcher, ReadsReset, ReadsEnd, departed, Listens, relayKeeps, peer
  <1>2. CASE ReadsReset \/ Listens \/ ReadsEnd
    <2>1. ReadsReset => wire' = wire /\ (cancelled' => cancelled \/ reset) /\ (cancelled => cancelled')
      BY Zenon DEF ReadsReset
    <2>2. Listens => wire' = wire /\ (cancelled' => cancelled \/ reset) /\ (cancelled => cancelled')
      BY Zenon DEF Listens, GoneOnReset
    <2>3. ReadsEnd => wire' = wire /\ cancelled' = cancelled
      BY DEF ReadsEnd
    <2>4. wire' = wire /\ (cancelled' => cancelled \/ reset) /\ (cancelled => cancelled')
      BY <1>2, <2>1, <2>2, <2>3
    <2> QED BY <1>1, <2>4, OthersKeep DEF ConnInv, OnlyTheGone
  <1>3. CASE departed /\ probe(phase) = "none"
    <2>1. wire' = wire /\ cancelled' = cancelled
      BY <1>3 DEF departed, write
    <2> QED BY <1>1, <2>1, OthersKeep DEF ConnInv, OnlyTheGone
  <1>4. CASE departed /\ probe(phase) # "none"
    <2>1. write(probe(phase))
      BY <1>4 DEF departed
    <2>2. probe(phase) \in Piece /\ Fits(probe(phase)) /\ phase # "Done" /\ UNCHANGED peer
      BY <1>4, <1>1 DEF probe, Piece, Fits, ConnInv, PhaseTellsWire, peer
    <2>3. probe(phase) \in {"interim", "comment"} /\ (probe(phase) = "comment" <=> phase = "Events")
      BY <1>4 DEF probe
    <2> QED BY <1>1, <2>1, <2>2, <2>3, WriteDoes DEF ConnInv, LiveIsServed, PhaseTellsWire, RelayTellsPhase, OnlyTheGone
  <1> QED BY <1>2, <1>3, <1>4 DEF Watcher

LEMMA StepConn == ConnInv /\ [ConnNext]_connVars => ConnInv'
  <1> SUFFICES ASSUME ConnInv, [ConnNext]_connVars PROVE ConnInv'
    OBVIOUS
  <1>1. CASE UNCHANGED connVars
    BY <1>1, OthersKeep DEF connVars, ConnInv, OnlyTheGone
  <1> QED BY <1>1, ClientSteps, EngineSteps, RelayWrites, RelayMoves, WatcherSteps DEF ConnNext, Relay

(* What reaches the client parses, wherever the probe falls, and only a     *)
(* client that left is given up: for a response of any number of chunks     *)
(* (Watched, ChunkedResponse).                                              *)
THEOREM ConnIsSafe == ConnSpec => []ConnSafe
  <1>1. ConnInv => ConnSafe
    <2>1. ConnInv => (cancelled => client = "left")
      BY DEF ConnInv, OnlyTheGone
    <2> QED BY <2>1 DEF ConnInv, ConnSafe, LiveIsServed
  <1> QED BY <1>1, InitConn, StepConn, PTL DEF ConnSpec

-----------------------------------------------------------------------------
(***************************************************************************)
(* IdleWait                                                                *)
(***************************************************************************)

(* IdleWait's deadline and window are kept, while the engine thread sleeps, *)
(* by the ends it sleeps to; a change of a setting is on its way until the  *)
(* wait begins anew.                                                        *)
Reach == 0 .. Never

WaitTypeOK ==
    /\ loaded \in BOOLEAN /\ held \in BOOLEAN /\ served \in BOOLEAN /\ armed \in BOOLEAN
    /\ nudged \in BOOLEAN /\ quiet \in 0 .. Oldest /\ gpu \in 0 .. Oldest
    /\ idle_secs \in IdleSecs /\ hold_secs \in HoldSecs
    /\ loop \in {"loop", "recv", "sleep", "timeout"}
    /\ deadline \in Reach /\ window_end \in Reach /\ next_tick \in Reach

CoversBoth == deadline =< idle_remaining /\ deadline =< hold_remaining

StillCovers == loop \in {"recv", "sleep"} /\ loaded /\ ~nudged => CoversBoth

EndsWithWindow ==
    loop = "sleep" /\ loaded /\ held /\ served /\ ~nudged /\ armed =>
        deadline =< window \/ window_end =< window

WaitInv == WaitTypeOK /\ StillCovers /\ EndsWithWindow

LEMMA LeastIs == ASSUME NEW S \in SUBSET Int, NEW x \in S, \A y \in S : x =< y PROVE Min(S) = x
<1>1. \A y \in S : (\A z \in S : y =< z) => y = x
  OBVIOUS
<1> QED BY <1>1, Zenon DEF Min

LEMMA LeastOfTwo ==
    ASSUME NEW a \in Nat, NEW b \in Nat
    PROVE  Min({a, b}) \in Nat /\ (\A c \in Nat : c =< Min({a, b}) <=> c =< a /\ c =< b)
<1>1. CASE a =< b
  BY <1>1, LeastIs, Min({a, b}) = a
<1>2. CASE ~(a =< b)
  BY <1>2, LeastIs, Min({a, b}) = b
<1> QED BY <1>1, <1>2

LEMMA LeastOfThree ==
    ASSUME NEW a \in Nat, NEW b \in Nat, NEW c \in Nat
    PROVE  Min({a, b, c}) \in Nat /\ Min({a, b, c}) =< a /\ Min({a, b, c}) =< b
<1>1. CASE a =< b /\ a =< c
  BY <1>1, LeastIs, Min({a, b, c}) = a
<1>2. CASE b =< a /\ b =< c
  BY <1>2, LeastIs, Min({a, b, c}) = b
<1>3. CASE c =< a /\ c =< b
  BY <1>3, LeastIs, Min({a, b, c}) = c
<1> QED BY <1>1, <1>2, <1>3

(* What the settings leave to go: never more than can be told from never. *)
LEMMA RemainingIs ==
    ASSUME WaitTypeOK
    PROVE  /\ Oldest \in Nat /\ Never \in Nat /\ Never = Oldest + 1
           /\ idle_secs \in Nat /\ idle_secs < Oldest /\ hold_secs \in Nat /\ hold_secs < Oldest
           /\ KeepWarm \in Nat /\ KeepWarm < Oldest
           /\ idle_remaining \in Nat /\ hold_remaining \in Nat /\ window \in Nat /\ window < Oldest
           /\ idle_remaining =< Never /\ hold_remaining =< Never
<1>1. /\ Oldest \in Nat /\ Never \in Nat /\ Never = Oldest + 1
      /\ idle_secs \in Nat /\ idle_secs < Oldest /\ hold_secs \in Nat /\ hold_secs < Oldest
      /\ KeepWarm \in Nat /\ KeepWarm < Oldest
  BY WaitAssumption DEF WaitAssumption, WaitTypeOK, Never
<1>2. quiet \in Nat
  BY <1>1 DEF WaitTypeOK
<1> QED
  BY <1>1, <1>2 DEF idle_remaining, hold_remaining, window, keep_warm_remaining, Less

LEMMA TickIs == ASSUME WaitTypeOK PROVE tick_in \in Reach
<1>1. window \in Nat /\ window < Oldest /\ Never \in Nat /\ Never = Oldest + 1 /\ Oldest \in Nat
  BY RemainingIs
<1>2. gpu \in Nat /\ Interval \in Nat
  BY <1>1, WaitAssumption DEF WaitTypeOK, WaitAssumption
<1> QED BY <1>1, <1>2 DEF tick_in, Less, Reach

LEMMA InitWaits == WaitInit => WaitInv
<1> SUFFICES ASSUME WaitInit PROVE WaitInv
  OBVIOUS
<1>1. loaded \in BOOLEAN /\ held \in BOOLEAN /\ served \in BOOLEAN /\ armed \in BOOLEAN /\ nudged \in BOOLEAN
  BY Cleared, Raised DEF WaitInit
<1>2. Oldest \in Nat /\ 0 \in 0 .. Oldest /\ Never \in Reach
  BY WaitAssumption DEF WaitAssumption, Never, Reach
<1>3. WaitTypeOK
  BY <1>1, <1>2 DEF WaitInit, WaitTypeOK
<1>4. loop = "loop"
  BY DEF WaitInit
<1> QED BY <1>3, <1>4 DEF WaitInv, StillCovers, EndsWithWindow

LEMMA LoopWaits == WaitInv /\ Loop => WaitInv'
<1> SUFFICES ASSUME WaitInv, Loop PROVE WaitInv'
  OBVIOUS
<1> USE DEF WaitInv, Loop, ages, settings
<1>1. /\ idle_remaining' = idle_remaining /\ hold_remaining' = hold_remaining
  BY DEF idle_remaining, hold_remaining
<1>2. idle_remaining \in Nat /\ hold_remaining \in Nat /\ Never \in Nat
      /\ idle_remaining =< Never /\ hold_remaining =< Never
  BY RemainingIs
<1>3. /\ Min({idle_remaining, hold_remaining}) \in Nat
      /\ Min({idle_remaining, hold_remaining}) =< idle_remaining
      /\ Min({idle_remaining, hold_remaining}) =< hold_remaining
  BY <1>2, LeastOfTwo
<1>4. earliest_deadline \in Reach
  BY <1>2, <1>3 DEF earliest_deadline, Reach
<1>5. WaitTypeOK'
  BY <1>4 DEF WaitTypeOK
<1>6. StillCovers'
  BY <1>1, <1>3 DEF StillCovers, CoversBoth, earliest_deadline
<1>7. EndsWithWindow'
  BY DEF EndsWithWindow
<1> QED BY <1>5, <1>6, <1>7

LEMMA RecvWaits == WaitInv /\ Recv => WaitInv'
<1> SUFFICES ASSUME WaitInv, Recv PROVE WaitInv'
  OBVIOUS
<1> USE DEF WaitInv, Recv, ages, settings
<1>1. /\ idle_remaining' = idle_remaining /\ hold_remaining' = hold_remaining /\ window' = window
  BY DEF idle_remaining, hold_remaining, window, keep_warm_remaining
<1>2. window \in Nat /\ window < Oldest /\ Never = Oldest + 1 /\ Oldest \in Nat /\ Never \in Nat
  BY RemainingIs
<1>3. EndAwaited \in Reach /\ tick_in \in Reach
  BY <1>2, TickIs DEF EndAwaited, Reach, WaitTypeOK
<1>4. WaitTypeOK'
  BY <1>2, <1>3 DEF WaitTypeOK, StillArmed, Reach
<1>5. StillCovers'
  BY <1>1 DEF StillCovers, CoversBoth
<1>6. EndsWithWindow'
  <2>1. deadline \in Nat
    BY <1>2 DEF WaitTypeOK, Reach
  <2>2. armed' => deadline' =< window \/ window_end' =< window
    <3>1. SUFFICES ASSUME armed' PROVE deadline' =< window \/ window_end' =< window
      OBVIOUS
    <3>2. armed /\ window > 0
      BY <3>1, Zenon DEF StillArmed
    <3>3. CASE window < deadline
      <4>1. EndAwaited = window
        BY <3>2, <3>3, Zenon DEF EndAwaited
      <4> QED BY <1>2, <4>1
    <3>4. CASE ~(window < deadline)
      BY <1>2, <2>1, <3>4
    <3> QED BY <3>3, <3>4
  <2> QED BY <1>1, <2>2 DEF EndsWithWindow
<1> QED BY <1>4, <1>5, <1>6

(* A wait shrinks as fast as what is left of it. *)
LEMMA TimeWaits == WaitInv /\ Time => WaitInv'
<1> SUFFICES ASSUME WaitInv, Time PROVE WaitInv'
  OBVIOUS
<1> USE DEF WaitInv, Time, settings
<1>1. /\ Oldest \in Nat /\ Never \in Nat /\ Never = Oldest + 1
      /\ idle_secs \in Nat /\ idle_secs < Oldest /\ hold_secs \in Nat /\ hold_secs < Oldest
      /\ KeepWarm \in Nat /\ KeepWarm < Oldest
  BY RemainingIs
<1>2. /\ quiet \in Nat /\ quiet =< Oldest /\ gpu \in Nat /\ gpu =< Oldest
      /\ deadline \in Nat /\ deadline =< Never /\ window_end \in Nat /\ window_end =< Never
      /\ next_tick \in Nat /\ next_tick =< Never
  BY <1>1 DEF WaitTypeOK, Reach
<1>3. /\ quiet' \in Nat /\ quiet' =< Oldest /\ quiet' =< quiet + 1
      /\ gpu' \in Nat /\ gpu' =< Oldest
  <2>1. quiet + 1 \in Nat /\ gpu + 1 \in Nat
    BY <1>2
  <2> HIDE DEF WaitInv
  <2>2. /\ Min({quiet + 1, Oldest}) \in Nat /\ Min({gpu + 1, Oldest}) \in Nat
        /\ Min({quiet + 1, Oldest}) =< quiet + 1 /\ Min({quiet + 1, Oldest}) =< Oldest
        /\ Min({gpu + 1, Oldest}) =< Oldest
    BY <1>1, <2>1, LeastOfTwo
  <2> QED BY <2>2
<1>4. WaitTypeOK'
  BY <1>1, <1>2, <1>3 DEF WaitTypeOK, Reach, Less
<1>5. StillCovers'
  BY <1>1, <1>2, <1>3 DEF StillCovers, CoversBoth, idle_remaining, hold_remaining, Less, WaitTypeOK
<1>6. EndsWithWindow'
  BY <1>1, <1>2, <1>3 DEF EndsWithWindow, window, keep_warm_remaining, Less, WaitTypeOK
<1> QED BY <1>4, <1>5, <1>6

LEMMA StepWaits == WaitInv /\ [WaitNext]_waitVars => WaitInv'
<1> SUFFICES ASSUME WaitInv, [WaitNext]_waitVars PROVE WaitInv'
  OBVIOUS
<1>0. Oldest \in Nat /\ Never \in Nat
  BY RemainingIs DEF WaitInv
<1>1. CASE Wake
  <2>1. armed' \in BOOLEAN /\ gpu' \in 0 .. Oldest /\ loop' \in {"recv", "timeout"}
    <3>1. 0 \in 0 .. Oldest /\ armed \in BOOLEAN /\ gpu \in 0 .. Oldest
      BY <1>0 DEF WaitInv, WaitTypeOK
    <3>2. armed' = armed \/ armed' = FALSE
      BY <1>1, Zenon DEF Wake
    <3>3. (gpu' = gpu \/ gpu' = 0) /\ loop' \in {"recv", "timeout"}
      BY <1>1, Zenon DEF Wake
    <3>4. armed' \in BOOLEAN
      BY <3>1, <3>2, Cleared
    <3> QED BY <3>1, <3>3, <3>4
  <2>2. WaitTypeOK'
    BY <1>0, <1>1, <2>1 DEF Wake, WaitInv, WaitTypeOK, settings, timers
  <2>3. StillCovers'
    BY <1>1 DEF Wake, WaitInv, StillCovers, CoversBoth, idle_remaining, hold_remaining, settings, timers
  <2>4. EndsWithWindow'
    BY <2>1 DEF EndsWithWindow
  <2> QED BY <2>2, <2>3, <2>4 DEF WaitInv
<1>2. CASE Timeout
  BY <1>0, <1>2 DEF Timeout, WaitInv, WaitTypeOK, StillCovers, EndsWithWindow, ages, settings, timers
<1>3. CASE Job
  <2>1. /\ loaded' \in BOOLEAN /\ armed' \in BOOLEAN /\ served' \in BOOLEAN /\ held' \in BOOLEAN
        /\ quiet' = 0 /\ gpu' = 0 /\ loop' = "loop" /\ 0 \in 0 .. Oldest
    <3>1. served' \in BOOLEAN /\ held' \in {FALSE, served'}
      BY <1>3, Zenon DEF Job
    <3>2. held' \in BOOLEAN
      BY <3>1, Cleared
    <3> QED BY <1>0, <1>3, <3>1, <3>2, Raised DEF Job
  <2>2. WaitTypeOK'
    BY <1>3, <2>1 DEF Job, WaitInv, WaitTypeOK, settings, timers
  <2> QED BY <2>1, <2>2 DEF WaitInv, StillCovers, EndsWithWindow
<1>4. CASE Arrival
  <2>1. armed' \in BOOLEAN /\ gpu' \in 0 .. Oldest /\ loop' = "loop"
    <3>1. 0 \in 0 .. Oldest /\ armed \in BOOLEAN /\ gpu \in 0 .. Oldest
      BY <1>0 DEF WaitInv, WaitTypeOK
    <3>2. armed' = armed \/ armed' = TRUE
      BY <1>4, Zenon DEF Arrival
    <3>3. (gpu' = gpu \/ gpu' = 0) /\ loop' = "loop"
      BY <1>4, Zenon DEF Arrival
    <3>4. armed' \in BOOLEAN
      BY <3>1, <3>2, Raised
    <3> QED BY <3>1, <3>3, <3>4
  <2>2. WaitTypeOK'
    BY <1>4, <2>1 DEF Arrival, WaitInv, WaitTypeOK, settings, timers
  <2> QED BY <2>1, <2>2 DEF WaitInv, StillCovers, EndsWithWindow
<1>5. CASE ChangeSetting
  BY <1>0, <1>5 DEF ChangeSetting, WaitInv, WaitTypeOK, StillCovers, EndsWithWindow, ages, timers
<1>6. CASE Nudge
  BY <1>0, <1>6 DEF Nudge, WaitInv, WaitTypeOK, StillCovers, EndsWithWindow, ages, timers
<1>7. CASE Released
  <2>1. WaitTypeOK'
    BY <1>0, <1>7 DEF Released, WaitInv, WaitTypeOK, ages, settings, timers
  <2>2. StillCovers'
    <3>1. hold_remaining' = Never /\ idle_remaining' = idle_remaining /\ deadline' = deadline
      BY <1>7 DEF Released, hold_remaining, idle_remaining, ages, settings, timers
    <3>2. deadline =< Never
      BY <1>0 DEF WaitInv, WaitTypeOK, Reach
    <3> QED BY <1>7, <3>1, <3>2 DEF Released, WaitInv, StillCovers, CoversBoth, settings, Never
  <2>3. EndsWithWindow'
    BY <1>7 DEF Released, EndsWithWindow
  <2> QED BY <2>1, <2>2, <2>3 DEF WaitInv
<1>8. CASE UNCHANGED waitVars
  <2>1. WaitTypeOK'
    BY <1>0, <1>8 DEF waitVars, WaitInv, WaitTypeOK
  <2>2. StillCovers'
    BY <1>8 DEF waitVars, WaitInv, StillCovers, CoversBoth, idle_remaining, hold_remaining
  <2>3. EndsWithWindow'
    BY <1>8 DEF waitVars, WaitInv, EndsWithWindow, window, keep_warm_remaining
  <2> QED BY <2>1, <2>2, <2>3 DEF WaitInv
<1> QED
  BY <1>1, <1>2, <1>3, <1>4, <1>5, <1>6, <1>7, <1>8, LoopWaits, RecvWaits, TimeWaits DEF WaitNext, Running

LEMMA WaitInvGives == WaitInv => WaitsWell
<1> SUFFICES ASSUME WaitInv PROVE WaitsWell
  OBVIOUS
<1>1. /\ idle_remaining \in Nat /\ hold_remaining \in Nat /\ window \in Nat /\ Oldest \in Nat
  BY RemainingIs DEF WaitInv
<1>2. deadline \in Nat /\ window_end \in Nat /\ next_tick \in Nat
  BY <1>1 DEF WaitInv, WaitTypeOK, Reach, Never
<1>3. DeadlineCovers
  BY <1>1, <1>2, LeastOfTwo DEF WaitInv, StillCovers, CoversBoth, DeadlineCovers
<1>4. TicksStop
  <2>1. Due \in Nat /\ Due =< deadline /\ Due =< window_end
    BY <1>2, LeastOfThree DEF Due
  <2> QED BY <1>1, <1>2, <2>1 DEF WaitInv, EndsWithWindow, TicksStop
<1> QED BY <1>3, <1>4 DEF WaitsWell

(* The engine thread's wait is as long as it may be and no longer           *)
(* (WaitsWell), whatever the intervals and settings are.                    *)
THEOREM WaitIsRight == WaitSpec => []WaitsWell
<1>1. WaitInit => WaitInv
  BY InitWaits
<1>2. WaitInv /\ [WaitNext]_waitVars => WaitInv'
  BY StepWaits
<1>3. WaitInv => WaitsWell
  BY WaitInvGives
<1> QED BY <1>1, <1>2, <1>3, PTL DEF WaitSpec

-----------------------------------------------------------------------------
(***************************************************************************)
(* MetalQueue                                                              *)
(***************************************************************************)

(* The command queue's items still to run, in order: those submitted, then  *)
(* what the feeder holds.                                                   *)
ahead == submitted \o feeder.rest

Pass    == [waits : Nat, from : Nat]
Command == [kind : {"cmd", "done", "fence"}, pass : Nat \ {0}, n : Nat]

(* a is run before b: an earlier pass's, or the same pass's, whose fence is *)
(* its last.                                                                *)
Before(a, b) == a.pass < b.pass \/ (a.pass = b.pass /\ a.kind # "fence" /\ a # b)

(* What is ahead of the fence is in order, one of each, of passes committed.*)
InOrder(s, ps, reached) ==
    /\ s \in Seq(Command)
    /\ \A i \in 1 .. Len(s) : /\ s[i].pass =< Len(ps) /\ s[i].pass > reached
                              /\ s[i].n =< ps[s[i].pass].waits
    /\ \A i, j \in 1 .. Len(s) : i < j => Before(s[i], s[j])

Unfinished == {"gate", "failed", "ending"}

(* The feeder holds a rest of the last pass only, and as long as it does no *)
(* other is submitted: it is feeding, or has faulted.                       *)
FeederInv ==
    /\ feeder \in [pass : Nat, rest : Seq(Command), at : Unfinished \cup {"none", "done"}, well : BOOLEAN]
    /\ feeder.rest # <<>> => \A i \in 1 .. Len(feeder.rest) : feeder.rest[i].pass = feeder.pass
    /\ feeder.at \in Unfinished => feeding
    /\ feeder.at \in {"ending", "done"} /\ feeder.rest # <<>> => fault
    /\ feeder.at = "none" => feeder.rest = <<>>

LEMMA ProgramIs ==
    ASSUME NEW p \in Nat \ {0}, NEW w \in Nat
    PROVE  /\ Program(p, w) \in Seq(Command) /\ Len(Program(p, w)) = w + 3
           /\ \A i \in 1 .. w + 3 : /\ Program(p, w)[i].pass = p /\ Program(p, w)[i].n =< w
                                    /\ i < w + 3 => Program(p, w)[i].kind # "fence"
                                    /\ Program(p, w)[i].kind = "cmd" => Program(p, w)[i].n = i - 1
           /\ \A i, j \in 1 .. w + 3 : i < j => Before(Program(p, w)[i], Program(p, w)[j])
           /\ \A i \in 1 .. w + 1 : Program(p, w)[i] = Item("cmd", p, i - 1)
<1> DEFINE front == [i \in 1..(w + 1) |-> Item("cmd", p, i - 1)]
           back  == <<Item("done", p, 0), Item("fence", p, 0)>>
<1>1. \A i \in 1..(w + 1) : Item("cmd", p, i - 1) \in Command
  BY DEF Item, Command
<1>2. front \in Seq(Command) /\ Len(front) = w + 1 /\ \A i \in 1 .. w + 1 : front[i] = Item("cmd", p, i - 1)
  BY <1>1
<1>3. back \in Seq(Command) /\ Len(back) = 2 /\ back[1] = Item("done", p, 0) /\ back[2] = Item("fence", p, 0)
  <2>1. Item("done", p, 0) \in Command /\ Item("fence", p, 0) \in Command
    BY DEF Item, Command
  <2> HIDE DEF Command
  <2> QED BY <2>1
<1>4. Program(p, w) = front \o back
  BY DEF Program
<1> HIDE DEF front, back
<1>5. /\ front \o back \in Seq(Command) /\ Len(front \o back) = w + 3
      /\ \A i \in 1 .. w + 3 : (front \o back)[i] = IF i <= w + 1 THEN front[i] ELSE back[i - (w + 1)]
  <2>1. /\ front \o back \in Seq(Command) /\ Len(front \o back) = Len(front) + Len(back)
        /\ \A i \in 1 .. Len(front) + Len(back) :
              (front \o back)[i] = IF i <= Len(front) THEN front[i] ELSE back[i - Len(front)]
    BY <1>2, <1>3, ConcatProperties
  <2>2. Len(front) + Len(back) = w + 3
    BY <1>2, <1>3
  <2> QED BY <1>2, <2>1, <2>2
<1>6. ASSUME NEW i \in 1 .. w + 3
      PROVE  /\ i =< w + 1 => Program(p, w)[i] = Item("cmd", p, i - 1)
             /\ i = w + 2 => Program(p, w)[i] = Item("done", p, 0)
             /\ i = w + 3 => Program(p, w)[i] = Item("fence", p, 0)
  <2>1. CASE i =< w + 1
    BY <2>1, <1>2, <1>4, <1>5
  <2>2. CASE i = w + 2
    BY <2>2, <1>3, <1>4, <1>5
  <2>3. CASE i = w + 3
    BY <2>3, <1>3, <1>4, <1>5
  <2> QED BY <2>1, <2>2, <2>3
<1>7. ASSUME NEW i \in 1 .. w + 3
      PROVE  /\ Program(p, w)[i].pass = p /\ Program(p, w)[i].n =< w
             /\ i < w + 3 => Program(p, w)[i].kind # "fence"
             /\ Program(p, w)[i].kind = "cmd" => Program(p, w)[i].n = i - 1
  <2>1. i =< w + 1 \/ i = w + 2 \/ i = w + 3
    OBVIOUS
  <2>2. /\ Item("cmd", p, i - 1).pass = p /\ Item("cmd", p, i - 1).n = i - 1
        /\ Item("done", p, 0).pass = p /\ Item("done", p, 0).n = 0 /\ Item("done", p, 0).kind = "done"
        /\ Item("fence", p, 0).pass = p /\ Item("fence", p, 0).n = 0 /\ Item("fence", p, 0).kind = "fence"
        /\ Item("cmd", p, i - 1).kind = "cmd"
    BY DEF Item
  <2>3. 0 =< w /\ (i =< w + 1 => i - 1 =< w)
    OBVIOUS
  <2>4. CASE i =< w + 1
    BY <1>6, <2>2, <2>3, <2>4
  <2>5. CASE i = w + 2
    BY <1>6, <2>2, <2>3, <2>5
  <2>6. CASE i = w + 3
    BY <1>6, <2>2, <2>3, <2>6
  <2> QED BY <2>1, <2>4, <2>5, <2>6
<1>8. ASSUME NEW i \in 1 .. w + 3, NEW j \in 1 .. w + 3, i < j
      PROVE  Before(Program(p, w)[i], Program(p, w)[j])
  <2>1. Program(p, w)[i] # Program(p, w)[j]
    <3>1. (j =< w + 1 \/ j = w + 2 \/ j = w + 3) /\ (i =< w + 1 \/ i = w + 2)
      BY <1>8
    <3>2. /\ Item("cmd", p, i - 1) # Item("cmd", p, j - 1)
          /\ Item("cmd", p, i - 1) # Item("done", p, 0) /\ Item("cmd", p, i - 1) # Item("fence", p, 0)
          /\ Item("done", p, 0) # Item("fence", p, 0)
      <4>1. i - 1 # j - 1
        BY <1>8
      <4> QED BY <4>1 DEF Item
    <3>3. CASE i =< w + 1
      BY <1>6, <3>1, <3>2, <3>3
    <3>4. CASE i = w + 2
      <4>1. j = w + 3
        BY <1>8, <3>4
      <4> QED BY <1>6, <3>2, <3>4, <4>1
    <3> QED BY <3>1, <3>3, <3>4
  <2> QED BY <1>7, <1>8, <2>1 DEF Before
<1>9. ASSUME NEW i \in 1 .. w + 1 PROVE Program(p, w)[i] = Item("cmd", p, i - 1)
  <2>1. i \in 1 .. w + 3 /\ i =< w + 1
    OBVIOUS
  <2> QED BY <1>6, <2>1
<1> QED BY <1>4, <1>5, <1>7, <1>8, <1>9

(* Committing a pass adds its program at the end. *)
LEMMA AddsProgram ==
    ASSUME NEW ps \in Seq(Pass), NEW reached \in Nat, reached =< Len(ps), NEW s, InOrder(s, ps, reached),
           NEW pass \in Pass
    PROVE  InOrder(s \o Program(Len(ps) + 1, pass.waits), Append(ps, pass), reached)
<1> DEFINE p == Len(ps) + 1
           t == Program(p, pass.waits)
           all == s \o t
           more == Append(ps, pass)
<1>1. Len(ps) \in Nat /\ p \in Nat \ {0} /\ pass.waits \in Nat
  BY LenProperties DEF Pass
<1>2. /\ t \in Seq(Command) /\ Len(t) = pass.waits + 3
      /\ \A i \in 1 .. Len(t) : t[i].pass = p /\ t[i].n =< pass.waits
      /\ \A i, j \in 1 .. Len(t) : i < j => Before(t[i], t[j])
  <2> DEFINE w == pass.waits
  <2>1. p \in Nat \ {0} /\ w \in Nat
    BY <1>1
  <2> HIDE DEF p, w
  <2>2. /\ Program(p, w) \in Seq(Command) /\ Len(Program(p, w)) = w + 3
        /\ \A i \in 1 .. w + 3 : Program(p, w)[i].pass = p /\ Program(p, w)[i].n =< w
        /\ \A i, j \in 1 .. w + 3 : i < j => Before(Program(p, w)[i], Program(p, w)[j])
    BY <2>1, ProgramIs
  <2> QED BY <2>2 DEF w
<1>3. /\ s \in Seq(Command) /\ Len(s) \in Nat /\ Len(t) \in Nat
      /\ \A i \in 1 .. Len(s) : s[i].pass =< Len(ps) /\ s[i].pass > reached /\ s[i].n =< ps[s[i].pass].waits
      /\ \A i, j \in 1 .. Len(s) : i < j => Before(s[i], s[j])
      /\ \A i \in 1 .. Len(s) : s[i] \in Command
      /\ \A i \in 1 .. Len(t) : t[i] \in Command
  BY <1>2, ElementOfSeq, LenProperties DEF InOrder
<1>4. /\ Len(more) = p /\ more[p] = pass /\ \A k \in 1 .. Len(ps) : more[k] = ps[k]
  BY AppendProperties
<1> HIDE DEF t
<1>5. /\ all \in Seq(Command) /\ Len(all) = Len(s) + Len(t)
      /\ \A i \in 1 .. Len(all) : all[i] = IF i <= Len(s) THEN s[i] ELSE t[i - Len(s)]
  <2>1. s \in Seq(Command) /\ t \in Seq(Command)
    BY <1>2, <1>3
  <2> HIDE DEF Command
  <2>2. /\ s \o t \in Seq(Command) /\ Len(s \o t) = Len(s) + Len(t)
        /\ \A i \in 1 .. Len(s) + Len(t) : (s \o t)[i] = IF i <= Len(s) THEN s[i] ELSE t[i - Len(s)]
    BY <2>1, ConcatProperties
  <2> QED BY <2>2
<1> HIDE DEF all, more
<1>6. ASSUME NEW i \in 1 .. Len(all)
      PROVE  (i =< Len(s) /\ i \in 1 .. Len(s) /\ all[i] = s[i]) \/
             (i > Len(s) /\ i - Len(s) \in 1 .. Len(t) /\ all[i] = t[i - Len(s)])
  BY <1>3, <1>5
<1>7. ASSUME NEW i \in 1 .. Len(all)
      PROVE  all[i].pass =< Len(more) /\ all[i].pass > reached /\ all[i].n =< more[all[i].pass].waits
  <2>1. CASE i =< Len(s) /\ i \in 1 .. Len(s) /\ all[i] = s[i]
    <3>1. s[i].pass \in 1 .. Len(ps)
      BY <1>1, <1>3, <2>1 DEF Command
    <3>2. more[s[i].pass] = ps[s[i].pass]
      BY <1>4, <3>1
    <3>3. Len(more) = Len(ps) + 1
      BY <1>4
    <3> QED BY <1>1, <1>3, <2>1, <3>1, <3>2, <3>3
  <2>2. CASE i > Len(s) /\ i - Len(s) \in 1 .. Len(t) /\ all[i] = t[i - Len(s)]
    <3>1. all[i].pass = p /\ all[i].n =< pass.waits
      BY <1>2, <2>2
    <3>2. p > reached
      BY <1>1
    <3> QED BY <1>1, <1>4, <3>1, <3>2
  <2> QED BY <1>6, <2>1, <2>2
<1>8. ASSUME NEW i \in 1 .. Len(all), NEW j \in 1 .. Len(all), i < j
      PROVE  Before(all[i], all[j])
  <2>1. CASE j =< Len(s)
    <3>1. i \in 1 .. Len(s) /\ j \in 1 .. Len(s) /\ all[i] = s[i] /\ all[j] = s[j]
      BY <1>3, <1>6, <1>8, <2>1
    <3> QED BY <1>3, <1>8, <3>1
  <2>2. CASE i > Len(s)
    <3>1. /\ i - Len(s) \in 1 .. Len(t) /\ j - Len(s) \in 1 .. Len(t) /\ i - Len(s) < j - Len(s)
          /\ all[i] = t[i - Len(s)] /\ all[j] = t[j - Len(s)]
      BY <1>3, <1>6, <1>8, <2>2
    <3> QED BY <1>2, <3>1
  <2>3. CASE i =< Len(s) /\ j > Len(s)
    <3>1. /\ i \in 1 .. Len(s) /\ all[i] = s[i]
          /\ j - Len(s) \in 1 .. Len(t) /\ all[j] = t[j - Len(s)]
      BY <1>3, <1>6, <1>8, <2>3
    <3>2. all[i].pass =< Len(ps) /\ all[j].pass = Len(ps) + 1 /\ all[i].pass \in Nat
      BY <1>2, <1>3, <3>1 DEF Command
    <3> QED BY <1>1, <3>2 DEF Before
  <2> QED BY <1>3, <2>1, <2>2, <2>3
<1>9. InOrder(all, more, reached)
  BY <1>5, <1>7, <1>8 DEF InOrder
<1> QED BY <1>9 DEF all, more, t

(* Running the first item leaves the others, and reaches its pass at most. *)
LEMMA RunsFirst ==
    ASSUME NEW ps, NEW reached \in Nat, NEW s, InOrder(s, ps, reached), s # <<>>, Len(ps) \in Nat
    PROVE  /\ InOrder(Tail(s), ps, reached)
           /\ Head(s) = s[1] /\ s[1] \in Command /\ 1 \in 1 .. Len(s)
           /\ s[1].kind = "fence" => InOrder(Tail(s), ps, s[1].pass)
           /\ \A i \in 1 .. Len(Tail(s)) : Tail(s)[i] = s[i + 1] /\ i + 1 \in 1 .. Len(s) /\ Tail(s)[i] # s[1]
<1>1. /\ s \in Seq(Command) /\ Len(s) \in Nat
  BY LenProperties DEF InOrder
<1>2. /\ Tail(s) \in Seq(Command) /\ Len(Tail(s)) = Len(s) - 1 /\ Len(Tail(s)) \in Nat
      /\ \A i \in 1 .. Len(Tail(s)) : Tail(s)[i] = s[i + 1]
      /\ Head(s) \in Command /\ Head(s) = s[1]
  BY <1>1, HeadTailProperties, LenProperties
<1>3. /\ \A i \in 1 .. Len(s) : s[i].pass =< Len(ps) /\ s[i].pass > reached /\ s[i].n =< ps[s[i].pass].waits
      /\ \A i, j \in 1 .. Len(s) : i < j => Before(s[i], s[j])
  BY DEF InOrder
<1>4. ASSUME NEW i \in 1 .. Len(Tail(s))
      PROVE  i + 1 \in 1 .. Len(s) /\ Before(s[1], s[i + 1])
  BY <1>1, <1>2, <1>3
<1>5. InOrder(Tail(s), ps, reached)
  <2>1. \A i, j \in 1 .. Len(Tail(s)) : i < j => Before(Tail(s)[i], Tail(s)[j])
    BY <1>1, <1>2, <1>3
  <2> QED BY <1>2, <1>3, <1>4, <2>1 DEF InOrder
<1>6. s[1].kind = "fence" => InOrder(Tail(s), ps, s[1].pass)
  <2> SUFFICES ASSUME s[1].kind = "fence" PROVE InOrder(Tail(s), ps, s[1].pass)
    OBVIOUS
  <2>1. \A i \in 1 .. Len(Tail(s)) : Tail(s)[i].pass > s[1].pass
    <3> SUFFICES ASSUME NEW i \in 1 .. Len(Tail(s)) PROVE Tail(s)[i].pass > s[1].pass
      OBVIOUS
    <3>1. s[1].pass < s[i + 1].pass
      BY <1>4 DEF Before
    <3>2. s[1] \in Command /\ s[i + 1] \in Command
      BY <1>1, <1>2, <1>4, ElementOfSeq
    <3> QED BY <1>2, <3>1, <3>2 DEF Command
  <2> QED BY <1>5, <2>1 DEF InOrder
<1>7. \A i \in 1 .. Len(Tail(s)) : Tail(s)[i] # s[1]
  BY <1>2, <1>4 DEF Before, Command
<1> QED BY <1>1, <1>2, <1>4, <1>5, <1>6, <1>7

(* So does losing what the feeder still held. *)
LEMMA LosesRest ==
    ASSUME NEW ps, NEW reached, NEW s \in Seq(Command), NEW r \in Seq(Command), InOrder(s \o r, ps, reached)
    PROVE  InOrder(s, ps, reached) /\ \A i \in 1 .. Len(s) : i \in 1 .. Len(s \o r) /\ s[i] = (s \o r)[i]
<1>1. /\ Len(s) \in Nat /\ Len(r) \in Nat /\ Len(s \o r) = Len(s) + Len(r)
      /\ \A i \in 1 .. Len(s) + Len(r) : (s \o r)[i] = IF i <= Len(s) THEN s[i] ELSE r[i - Len(s)]
  BY ConcatProperties, LenProperties
<1>2. \A i \in 1 .. Len(s) : i \in 1 .. Len(s \o r) /\ s[i] = (s \o r)[i]
  BY <1>1
<1> QED BY <1>1, <1>2 DEF InOrder

(* Handing over a part of it changes nothing. *)
LEMMA PartHandedOver ==
    ASSUME NEW s \in Seq(Command), NEW r \in Seq(Command), NEW n \in 0 .. Len(r)
    PROVE  /\ (s \o SubSeq(r, 1, n)) \o SubSeq(r, n + 1, Len(r)) = s \o r
           /\ s \o SubSeq(r, 1, n) \in Seq(Command) /\ SubSeq(r, n + 1, Len(r)) \in Seq(Command)
           /\ n = Len(r) => SubSeq(r, n + 1, Len(r)) = <<>>
           /\ Len(SubSeq(r, n + 1, Len(r))) = Len(r) - n
           /\ \A i \in 1 .. Len(r) - n : SubSeq(r, n + 1, Len(r))[i] = r[n + i]
<1> DEFINE a == SubSeq(r, 1, n)
           b == SubSeq(r, n + 1, Len(r))
<1>0. Len(s) \in Nat /\ Len(r) \in Nat /\ n \in Nat /\ n =< Len(r) /\ \A i \in 1 .. Len(r) : r[i] \in Command
  BY ElementOfSeq, LenProperties
<1>1. a \in Seq(Command) /\ Len(a) = n /\ \A i \in 1 .. n : a[i] = r[i]
  BY <1>0, SubSeqProperties
<1>2. b \in Seq(Command) /\ Len(b) = Len(r) - n /\ \A i \in 1 .. Len(r) - n : b[i] = r[n + i]
  BY <1>0, SubSeqProperties
<1> HIDE DEF a, b
<1>3. /\ s \o a \in Seq(Command) /\ Len(s \o a) = Len(s) + n
      /\ \A i \in 1 .. Len(s) + n : (s \o a)[i] = IF i <= Len(s) THEN s[i] ELSE a[i - Len(s)]
  BY <1>1, ConcatProperties
<1>4. /\ (s \o a) \o b \in Seq(Command) /\ Len((s \o a) \o b) = Len(s) + Len(r)
      /\ \A i \in 1 .. Len(s) + Len(r) :
            ((s \o a) \o b)[i] = IF i <= Len(s) + n THEN (s \o a)[i] ELSE b[i - (Len(s) + n)]
  <2> HIDE DEF Command
  <2>1. Len(s) + n + (Len(r) - n) = Len(s) + Len(r)
    BY <1>0
  <2> DEFINE c == s \o a
  <2>2. c \in Seq(Command) /\ b \in Seq(Command) /\ Len(c) = Len(s) + n /\ Len(b) = Len(r) - n
    BY <1>2, <1>3
  <2> HIDE DEF c
  <2>3. /\ c \o b \in Seq(Command) /\ Len(c \o b) = Len(c) + Len(b)
        /\ \A i \in 1 .. Len(c) + Len(b) : (c \o b)[i] = IF i <= Len(c) THEN c[i] ELSE b[i - Len(c)]
    BY <2>2, ConcatProperties
  <2>4. Len(c) + Len(b) = Len(s) + Len(r)
    BY <2>1, <2>2
  <2>5. /\ c \o b \in Seq(Command) /\ Len(c \o b) = Len(s) + Len(r)
        /\ \A i \in 1 .. Len(s) + Len(r) : (c \o b)[i] = IF i <= Len(s) + n THEN c[i] ELSE b[i - (Len(s) + n)]
    BY <2>2, <2>3, <2>4
  <2> QED BY <2>5 DEF c
<1>5. /\ s \o r \in Seq(Command) /\ Len(s \o r) = Len(s) + Len(r)
      /\ \A i \in 1 .. Len(s) + Len(r) : (s \o r)[i] = IF i <= Len(s) THEN s[i] ELSE r[i - Len(s)]
  BY ConcatProperties
<1>6. ASSUME NEW i \in 1 .. Len(s) + Len(r) PROVE ((s \o a) \o b)[i] = (s \o r)[i]
  <2>1. CASE i =< Len(s)
    BY <1>0, <1>3, <1>4, <1>5, <2>1
  <2>2. CASE i > Len(s) /\ i =< Len(s) + n
    <3>1. i - Len(s) \in 1 .. n
      BY <1>0, <2>2
    <3> QED BY <1>0, <1>1, <1>3, <1>4, <1>5, <2>2, <3>1
  <2>3. CASE i > Len(s) + n
    <3>1. i - (Len(s) + n) \in 1 .. Len(r) - n /\ n + (i - (Len(s) + n)) = i - Len(s) /\ ~(i =< Len(s))
      BY <1>0, <2>3
    <3>2. ~(i =< Len(s) + n)
      BY <1>0, <2>3
    <3>3. ((s \o a) \o b)[i] = b[i - (Len(s) + n)]
      BY <1>4, <3>2
    <3>4. b[i - (Len(s) + n)] = r[i - Len(s)]
      BY <1>2, <3>1
    <3>5. (s \o r)[i] = r[i - Len(s)]
      BY <1>5, <3>1
    <3> QED BY <3>3, <3>4, <3>5
  <2>4. i =< Len(s) \/ (i > Len(s) /\ i =< Len(s) + n) \/ i > Len(s) + n
    BY <1>0
  <2> QED BY <2>1, <2>2, <2>3, <2>4
<1>7. (s \o a) \o b = s \o r
  <2>1. (s \o a) \o b \in [1 .. Len(s) + Len(r) -> Command] /\ s \o r \in [1 .. Len(s) + Len(r) -> Command]
    BY <1>4, <1>5, LenProperties
  <2> HIDE DEF Command
  <2> QED BY SMTT(20), <1>6, <2>1
<1>8. n = Len(r) => b = <<>>
  BY <1>0, <1>2, EmptySeq
<1> QED BY <1>2, <1>3, <1>7, <1>8 DEF a, b

(* A set's least subset, and so a set of numbers' least number. *)
LEMMA Minimal ==
    ASSUME NEW S, IsFiniteSet(S), NEW F, F \subseteq SUBSET S, F # {}
    PROVE  \E T \in F : \A U \in F : U \subseteq T => U = T
<1>1. IsWellFoundedOn(StrictSubsetOrdering(S), FiniteSubsetsOf(S))
  BY FS_StrictSubsetOrderingWellFounded
<1>2. FiniteSubsetsOf(S) = SUBSET S
  BY FS_FiniteSubsetsOfFinite
<1>3. \E T \in F : \A U \in F : ~(<<U, T>> \in StrictSubsetOrdering(S))
  BY <1>1, <1>2, WFMin
<1> QED BY <1>3 DEF StrictSubsetOrdering

LEMMA Least ==
    ASSUME NEW S, S \subseteq Nat, S # {}
    PROVE  Min(S) \in S /\ \A x \in S : Min(S) =< x
<1>1. PICK k \in S : TRUE
  OBVIOUS
<1> DEFINE K == 0 .. k
           F == {0 .. x : x \in S \cap K}
<1>2. F \subseteq SUBSET K /\ F # {} /\ IsFiniteSet(K)
  <2>1. IsFiniteSet(K)
    BY <1>1, FS_Interval
  <2>2. \A x \in S \cap K : 0 .. x \subseteq K
    BY <1>1
  <2>3. k \in S \cap K
    BY <1>1
  <2> HIDE DEF K
  <2> QED BY <2>1, <2>2, <2>3
<1>3. PICK T \in F : \A U \in F : U \subseteq T => U = T
  <2> HIDE DEF F, K
  <2> QED BY <1>2, Minimal
<1>4. PICK m \in S \cap (0 .. k) : T = 0 .. m
  BY <1>3
<1>5. \A x \in S : m =< x
  <2> SUFFICES ASSUME NEW x \in S, x < m PROVE FALSE
    BY <1>4
  <2>1. x \in S \cap (0 .. k) /\ 0 .. x \in F /\ 0 .. x \subseteq T
    BY <1>4
  <2>2. 0 .. x = 0 .. m
    BY <1>3, <1>4, <2>1
  <2> QED BY <1>4, <2>2
<1> QED BY <1>4, <1>5 DEF Min

LEMMA PartIs == ASSUME NEW items \in Seq(Command) PROVE PartEnd(items) \in 0 .. Len(items)
<1>1. Len(items) \in Nat
  BY LenProperties
<1> DEFINE waits == {i \in 2 .. Len(items) : items[i].n > 0}
<1>2. CASE waits = {}
  BY <1>1, <1>2 DEF PartEnd
<1>3. CASE waits # {}
  <2>1. waits \in SUBSET Nat
    BY <1>1
  <2>3. Min(waits) \in waits
    <3> HIDE DEF waits
    <3> QED BY <1>3, <2>1, Least
  <2> QED BY <1>1, <1>3, <2>3 DEF PartEnd
<1> QED BY <1>2, <1>3

Places == {"join", "join_polled", "milestone", "poll", "fence", "checks", "drop"}

QueueTypeOK ==
    /\ passes \in Seq(Pass) /\ Len(passes) =< Len(PassWaits)
    /\ submitted \in Seq(Command) /\ fence \in Nat /\ fence =< Len(passes)
    /\ fault \in BOOLEAN /\ feeding \in BOOLEAN
    /\ checked \in [DOMAIN PassWaits -> Nat]
    /\ pending \subseteq DOMAIN passes
    /\ doing \in Places => of \in DOMAIN passes
    /\ doing = "commit" => Len(passes) < Len(PassWaits)

(* Each watched command buffer has one handler, which is not to come before *)
(* it has run.                                                              *)
Entry == [pass : Nat \ {0}, n : Nat, early : BOOLEAN, bad : BOOLEAN, judged : BOOLEAN]

IsCmd(item, p, n) == item.kind = "cmd" /\ item.pass = p /\ item.n = n

HandlersInv ==
    /\ feedback \subseteq Entry
    /\ \A f \in feedback : f.pass =< Len(passes) /\ f.n =< passes[f.pass].waits
    /\ \A f, g \in feedback : f.pass = g.pass /\ f.n = g.n => f = g
    /\ \A f \in feedback : \A i \in 1 .. Len(ahead) : ~IsCmd(ahead[i], f.pass, f.n)

(* A wait of pass p whose handler is still to come or to end: no more of    *)
(* them are left than have not been counted.                                *)
Open(p, ps, entries, s) == {n \in 1 .. ps[p].waits :
                               \/ \E f \in entries : f.pass = p /\ f.n = n
                               \/ \E i \in 1 .. Len(s) : IsCmd(s[i], p, n)}

CountInv ==
    /\ \A p \in DOMAIN passes : checked[p] + Cardinality(Open(p, passes, feedback, ahead)) =< passes[p].waits
    /\ \A p \in DOMAIN PassWaits : p > Len(passes) => checked[p] = 0

(* Work known to have run before its wait's signal is the fault, once its   *)
(* handler has judged it.                                                   *)
EarlyInv ==
    \A p \in too_early :
        fault \/ \E f \in feedback : f.pass = p /\ f.n > 0 /\ f.early = TRUE /\ f.judged = FALSE

(* A wait of a pass has its signal, is still to be judged, or is ahead; and *)
(* a pass whose wait returned without error has all its signals.            *)
ToJudge(p, n, entries, s) ==
    \/ \E f \in entries : f.pass = p /\ f.n = n /\ f.judged = FALSE
    \/ \E i \in 1 .. Len(s) : IsCmd(s[i], p, n)

Heard(p, ps, value) == \A n \in 1 .. ps[p].waits : value >= ps[p].from + n

HeardInv ==
    /\ event \in Nat
    /\ ~fault => \A p \in DOMAIN passes : \A n \in 1 .. passes[p].waits :
                    event >= passes[p].from + n \/ ToJudge(p, n, feedback, ahead)
    /\ \A p \in completed : Heard(p, passes, event)

(* Who was told that a pass is done, or got its memory, has seen the fence. *)
ReachedInv ==
    /\ doing = "checks" => fence >= of
    /\ \A p \in recycled : fault \/ fence >= p
    /\ \A p \in completed : fence >= p /\ p \notin too_early
    /\ recycled \subseteq DOMAIN passes /\ completed \subseteq DOMAIN passes

QueueInv ==
    /\ QueueTypeOK /\ FeederInv /\ InOrder(ahead, passes, fence)
    /\ HandlersInv /\ CountInv /\ EarlyInv /\ HeardInv /\ ReachedInv

LEMMA AheadIs ==
    ASSUME submitted \in Seq(Command), feeder.rest \in Seq(Command)
    PROVE  /\ ahead \in Seq(Command) /\ Len(ahead) = Len(submitted) + Len(feeder.rest)
           /\ Len(submitted) \in Nat /\ Len(feeder.rest) \in Nat
           /\ \A i \in 1 .. Len(submitted) : i \in 1 .. Len(ahead) /\ ahead[i] = submitted[i]
           /\ \A i \in 1 .. Len(feeder.rest) : /\ Len(submitted) + i \in 1 .. Len(ahead)
                                               /\ ahead[Len(submitted) + i] = feeder.rest[i]
<1> DEFINE s == submitted
           r == feeder.rest
<1>1. s \in Seq(Command) /\ r \in Seq(Command)
  OBVIOUS
<1> HIDE DEF s, r, Command
<1>2. /\ s \o r \in Seq(Command) /\ Len(s \o r) = Len(s) + Len(r)
      /\ \A i \in 1 .. Len(s) + Len(r) : (s \o r)[i] = IF i <= Len(s) THEN s[i] ELSE r[i - Len(s)]
  BY <1>1, ConcatProperties
<1>3. Len(s) \in Nat /\ Len(r) \in Nat
  BY <1>1, LenProperties
<1>4. \A i \in 1 .. Len(s) : i \in 1 .. Len(s \o r) /\ (s \o r)[i] = s[i]
  BY <1>2, <1>3
<1>5. ASSUME NEW i \in 1 .. Len(r)
      PROVE  Len(s) + i \in 1 .. Len(s \o r) /\ (s \o r)[Len(s) + i] = r[i]
  <2>1. Len(s) + i \in 1 .. Len(s) + Len(r) /\ ~(Len(s) + i =< Len(s)) /\ (Len(s) + i) - Len(s) = i
    BY <1>3
  <2> QED BY <1>2, <2>1
<1> QED BY <1>2, <1>3, <1>4, <1>5 DEF ahead, s, r

(* What is unrun is ahead of the fence. *)
LEMMA UnrunIsAhead ==
    ASSUME QueueTypeOK, FeederInv, InOrder(ahead, passes, fence), NEW p, Unrun(p)
    PROVE  p \in Nat /\ p > fence
<1>1. submitted \in Seq(Command) /\ feeder.rest \in Seq(Command)
  BY DEF QueueTypeOK, FeederInv
<1>2. \A i \in 1 .. Len(ahead) : ahead[i].pass > fence /\ ahead[i].pass \in Nat
  <2>1. \A i \in 1 .. Len(ahead) : ahead[i] \in Command
    BY ElementOfSeq DEF InOrder
  <2> QED BY <2>1 DEF InOrder, Command
<1>3. CASE \E i \in DOMAIN submitted : submitted[i].pass = p /\ submitted[i].kind = "cmd"
  BY <1>1, <1>2, <1>3, AheadIs, LenProperties
<1>4. CASE feeder.pass = p /\ feeder.rest # <<>>
  <2>1. 1 \in 1 .. Len(feeder.rest)
    BY <1>1, <1>4, EmptySeq, LenProperties
  <2>2. feeder.rest[1].pass = p
    BY <1>4, <2>1 DEF FeederInv
  <2> QED BY <1>1, <1>2, <2>1, <2>2, AheadIs
<1> QED BY <1>3, <1>4 DEF Unrun

LEMMA QueueInvGives == QueueInv => QueueSafe
<1> SUFFICES ASSUME QueueInv PROVE QueueSafe
  OBVIOUS
<1> USE DEF QueueInv
<1>1. Len(passes) \in Nat /\ DOMAIN passes = 1 .. Len(passes) /\ fence \in Nat
  BY LenProperties DEF QueueTypeOK
<1>2. \A p : Unrun(p) => p \in Nat /\ p > fence
  BY UnrunIsAhead
<1>3. OkMeansDone
  BY <1>1, <1>2 DEF OkMeansDone, ReachedInv, HeardInv, Heard, Awaited
<1>4. FenceInOrder
  BY <1>1, <1>2 DEF FenceInOrder
<1>5. MemoryHeld
  BY <1>1, <1>2 DEF MemoryHeld, ReachedInv
<1> QED BY <1>3, <1>4, <1>5 DEF QueueSafe

LEMMA InitQueue == QueueInit => QueueInv
<1> SUFFICES ASSUME QueueInit PROVE QueueInv
  OBVIOUS
<1>0. PassWaits \in Seq(SUBSET Nat)
  BY QueueAssumption DEF QueueAssumption
<1>1. /\ passes = <<>> /\ submitted = <<>> /\ fence = 0 /\ fault = FALSE /\ feeding = FALSE
      /\ feedback = {} /\ pending = {} /\ recycled = {} /\ too_early = {} /\ completed = {}
      /\ doing = "idle" /\ feeder = NoFeeder /\ checked = [p \in DOMAIN PassWaits |-> 0]
  BY DEF QueueInit
<1>2. /\ <<>> \in Seq(Pass) /\ Len(<<>>) = 0 /\ <<>> \in Seq(Command) /\ DOMAIN <<>> = {}
      /\ Len(PassWaits) \in Nat /\ <<>> \o <<>> = <<>>
  BY <1>0, EmptySeq, LenProperties, ConcatEmptySeq
<1>3. feeder.rest = <<>> /\ feeder.at = "none" /\ feeder.pass = 0 /\ feeder.well = TRUE
  BY <1>1 DEF NoFeeder
<1>4. ahead = <<>>
  BY <1>1, <1>2, <1>3 DEF ahead
<1>5. QueueTypeOK
  <2>1. fault \in BOOLEAN /\ feeding \in BOOLEAN
    BY <1>1, Cleared
  <2>2. checked \in [DOMAIN PassWaits -> Nat]
    BY <1>1
  <2> HIDE DEF Pass, Command
  <2> QED BY <1>1, <1>2, <2>1, <2>2 DEF QueueTypeOK, Places
<1>6. FeederInv
  <2>1. feeder \in [pass : Nat, rest : Seq(Command), at : Unfinished \cup {"none", "done"}, well : BOOLEAN]
    BY <1>1, <1>2 DEF NoFeeder
  <2> QED BY <1>3, <2>1 DEF FeederInv, Unfinished
<1>7. InOrder(ahead, passes, fence)
  BY <1>2, <1>4 DEF InOrder
<1>8. HandlersInv
  BY <1>1 DEF HandlersInv
<1>9. CountInv
  BY <1>1, <1>2 DEF CountInv
<1>10. EarlyInv /\ ReachedInv
  BY <1>1 DEF EarlyInv, ReachedInv
<1>11. HeardInv
  <2>1. event = 0
    BY DEF QueueInit
  <2> QED BY <1>1, <1>2, <2>1 DEF HeardInv
<1> QED BY <1>5, <1>6, <1>7, <1>8, <1>9, <1>10, <1>11 DEF QueueInv

LEMMA QueueParts ==
    ASSUME QueueInv
    PROVE  /\ Len(passes) \in Nat /\ DOMAIN passes = 1 .. Len(passes) /\ fence \in Nat
           /\ submitted \in Seq(Command) /\ feeder.rest \in Seq(Command)
           /\ ahead \in Seq(Command) /\ Len(ahead) \in Nat
           /\ \A p \in DOMAIN passes : passes[p].waits \in Nat /\ p \in Nat /\ passes[p].from \in Nat
           /\ Len(PassWaits) \in Nat /\ DOMAIN PassWaits = 1 .. Len(PassWaits)
<1>1. Len(passes) \in Nat /\ DOMAIN passes = 1 .. Len(passes) /\ fence \in Nat
  BY LenProperties DEF QueueInv, QueueTypeOK
<1>2. submitted \in Seq(Command) /\ feeder.rest \in Seq(Command)
  BY DEF QueueInv, QueueTypeOK, FeederInv
<1>3. ahead \in Seq(Command) /\ Len(ahead) \in Nat
  BY LenProperties DEF QueueInv, InOrder
<1>4. \A p \in DOMAIN passes : passes[p] \in Pass
  BY <1>1, ElementOfSeq DEF QueueInv, QueueTypeOK
<1>5. Len(PassWaits) \in Nat /\ DOMAIN PassWaits = 1 .. Len(PassWaits)
  BY QueueAssumption, LenProperties DEF QueueAssumption
<1> QED BY <1>1, <1>2, <1>3, <1>4, <1>5 DEF Pass

LEMMA OpenIs ==
    ASSUME NEW p, NEW ps, NEW entries, NEW s, ps[p].waits \in Nat
    PROVE  /\ Cardinality(Open(p, ps, entries, s)) \in Nat
           /\ Cardinality(Open(p, ps, entries, s)) =< ps[p].waits
           /\ IsFiniteSet(Open(p, ps, entries, s))
           /\ \A T \in SUBSET Open(p, ps, entries, s) :
                 Cardinality(T) \in Nat /\ Cardinality(T) =< Cardinality(Open(p, ps, entries, s))
<1> DEFINE S == Open(p, ps, entries, s)
           R == 1 .. ps[p].waits
<1>1. IsFiniteSet(R) /\ Cardinality(R) = ps[p].waits
  <2> DEFINE b == ps[p].waits
  <2>1. 1 \in Int /\ b \in Int /\ b \in Nat
    OBVIOUS
  <2> HIDE DEF b
  <2>2. IsFiniteSet(1 .. b) /\ Cardinality(1 .. b) = IF 1 > b THEN 0 ELSE b - 1 + 1
    BY <2>1, FS_Interval
  <2>3. Cardinality(1 .. b) = b
    BY <2>1, <2>2
  <2> QED BY <2>2, <2>3 DEF b
<1>2. S \in SUBSET R
  BY DEF Open
<1> HIDE DEF S, R
<1>3. IsFiniteSet(S) /\ Cardinality(S) =< Cardinality(R)
  BY <1>1, <1>2, FS_Subset
<1>4. \A T \in SUBSET S : IsFiniteSet(T) /\ Cardinality(T) =< Cardinality(S)
  BY <1>3, FS_Subset
<1> QED BY <1>1, <1>3, <1>4, FS_CardinalityType DEF S

(* Losing items, and nothing else, opens nothing. *)
LEMMA Shrinks ==
    ASSUME QueueInv, UNCHANGED <<passes, feedback, checked>>,
           \A i \in 1 .. Len(ahead') : \E j \in 1 .. Len(ahead) : ahead'[i] = ahead[j]
    PROVE  HandlersInv' /\ CountInv'
<1>1. HandlersInv'
  <2>1. \A f \in feedback : \A i \in 1 .. Len(ahead') : ~IsCmd(ahead'[i], f.pass, f.n)
    BY DEF QueueInv, HandlersInv, IsCmd
  <2> QED BY <2>1 DEF QueueInv, HandlersInv
<1>2. CountInv'
  <2>1. ASSUME NEW p \in DOMAIN passes
        PROVE  checked[p] + Cardinality(Open(p, passes, feedback, ahead')) =< passes[p].waits
    <3> DEFINE O1 == Open(p, passes, feedback, ahead)
               O2 == Open(p, passes, feedback, ahead')
    <3>1. O2 \in SUBSET O1
      BY DEF Open, IsCmd
    <3>2. passes[p].waits \in Nat /\ p \in DOMAIN PassWaits
      BY QueueParts DEF QueueInv, QueueTypeOK
    <3>3. checked[p] \in Nat
      BY <3>2 DEF QueueInv, QueueTypeOK
    <3>4. checked[p] + Cardinality(O1) =< passes[p].waits
      BY DEF QueueInv, CountInv
    <3> HIDE DEF O1
    <3>5. Cardinality(O2) \in Nat /\ Cardinality(O2) =< Cardinality(O1) /\ Cardinality(O1) \in Nat
      <4> HIDE DEF O2
      <4> QED BY <3>1, <3>2, OpenIs DEF O1
    <3> HIDE DEF O2
    <3>6. checked[p] + Cardinality(O2) =< passes[p].waits
      BY <3>2, <3>3, <3>4, <3>5
    <3> QED BY <3>6 DEF O2
  <2> QED BY <2>1 DEF QueueInv, CountInv
<1> QED BY <1>1, <1>2

(* The thread that waits, and the feeder when it is put away, leave the     *)
(* queue as it is, or without what the feeder still held.                   *)
LEMMA Quiet ==
    ASSUME QueueInv, UNCHANGED <<passes, submitted, fence, checked, feedback, too_early>>,
           feeder.rest' = feeder.rest \/ feeder.rest' = <<>>, fault => fault'
    PROVE  InOrder(ahead, passes, fence)' /\ HandlersInv' /\ CountInv' /\ EarlyInv'
<1>1. submitted \in Seq(Command) /\ feeder.rest \in Seq(Command) /\ InOrder(ahead, passes, fence)
  BY QueueParts DEF QueueInv
<1>2. /\ InOrder(ahead', passes', fence')
      /\ \A i \in 1 .. Len(ahead') : \E j \in 1 .. Len(ahead) : ahead'[i] = ahead[j]
  <2>1. CASE feeder.rest' = feeder.rest
    <3>1. ahead' = ahead
      BY <2>1 DEF ahead
    <3> QED BY <1>1, <3>1
  <2>2. CASE feeder.rest' = <<>>
    <3>1. ahead' = submitted
      BY <1>1, <2>2, ConcatEmptySeq DEF ahead
    <3>2. /\ InOrder(submitted, passes, fence)
          /\ \A i \in 1 .. Len(submitted) : i \in 1 .. Len(ahead) /\ submitted[i] = ahead[i]
      BY <1>1, LosesRest DEF ahead
    <3> QED BY <3>1, <3>2
  <2> QED BY <2>1, <2>2
<1>3. HandlersInv' /\ CountInv'
  BY <1>2, Shrinks
<1>4. EarlyInv'
  BY DEF QueueInv, EarlyInv
<1> QED BY <1>2, <1>3, <1>4

(* What was heard stays heard, and what runs no command buffer and judges   *)
(* none leaves the rest as it is, unless the queue is at a fault.           *)
LEMMA StillHeard ==
    ASSUME QueueInv, UNCHANGED <<passes, feedback>>, event' \in Nat, event' >= event,
           \A p \in completed' \ completed : Heard(p, passes, event),
           completed \subseteq DOMAIN passes, completed' \subseteq DOMAIN passes,
           fault => fault', ~fault' => ahead' = ahead
    PROVE  HeardInv'
<1>1. event \in Nat /\ \A p \in DOMAIN passes : passes[p].from \in Nat
  BY QueueParts DEF QueueInv, HeardInv
<1>2. ASSUME ~fault', NEW p \in DOMAIN passes, NEW n \in 1 .. passes[p].waits
      PROVE  event' >= passes[p].from + n \/ ToJudge(p, n, feedback, ahead')
  <2>1. event >= passes[p].from + n \/ ToJudge(p, n, feedback, ahead)
    BY <1>2 DEF QueueInv, HeardInv
  <2>2. passes[p].from + n \in Int
    BY <1>1
  <2> QED BY <1>1, <1>2, <2>1, <2>2
<1>3. ASSUME NEW p \in completed' PROVE Heard(p, passes, event')
  <2>1. Heard(p, passes, event)
    BY DEF QueueInv, HeardInv
  <2>2. p \in DOMAIN passes
    OBVIOUS
  <2> QED BY <1>1, <2>1, <2>2 DEF Heard
<1> QED BY <1>2, <1>3 DEF HeardInv

(* A place in the code of the committing thread. *)
LEMMA HostSteps ==
    ASSUME QueueInv, UNCHANGED <<gpuSide, feeding, judgeSide, event, fault, passes>>,
           feeder' = feeder \/ (feeder' = NoFeeder /\ feeder.at = "done"),
           pending' \subseteq pending, doing' \in Places => of' \in DOMAIN passes,
           doing' = "commit" => Len(passes) < Len(PassWaits),
           \A p \in completed' \ completed : Heard(p, passes, event),
           ReachedInv'
    PROVE  QueueInv'
<1>0. /\ UNCHANGED <<passes, submitted, fence, checked, feedback, too_early, feeding, fault>>
  BY DEF gpuSide, judgeSide
<1>1. feeder.rest' = feeder.rest \/ feeder.rest' = <<>>
  BY DEF NoFeeder
<1>2. QueueTypeOK'
  BY <1>0 DEF QueueInv, QueueTypeOK
<1>3. FeederInv'
  <2>1. CASE feeder' = feeder
    BY <1>0, <2>1 DEF QueueInv, FeederInv
  <2>2. CASE feeder' = NoFeeder
    <3>1. feeder'.rest = <<>> /\ feeder'.at = "none" /\ <<>> \in Seq(Command)
      BY <2>2, EmptySeq DEF NoFeeder
    <3>2. feeder' \in [pass : Nat, rest : Seq(Command), at : Unfinished \cup {"none", "done"}, well : BOOLEAN]
      BY <2>2, <3>1 DEF NoFeeder
    <3> QED BY <3>1, <3>2 DEF FeederInv, Unfinished
  <2> QED BY <2>1, <2>2
<1>4. InOrder(ahead, passes, fence)' /\ HandlersInv' /\ CountInv' /\ EarlyInv'
  BY <1>0, <1>1, Quiet
<1>5. HeardInv'
  <2>1. ~fault' => ahead' = ahead
    <3>1. CASE feeder' = feeder
      BY <1>0, <3>1 DEF ahead
    <3>2. CASE feeder' = NoFeeder /\ feeder.at = "done"
      <4>1. ~fault => feeder.rest = <<>>
        BY <3>2 DEF QueueInv, FeederInv
      <4>2. feeder'.rest = <<>>
        BY <3>2 DEF NoFeeder
      <4>3. submitted' = submitted /\ (~fault' => feeder'.rest = feeder.rest)
        BY <1>0, <4>1, <4>2
      <4> QED BY <4>3 DEF ahead
    <3> QED BY <3>1, <3>2
  <2>2. event' \in Nat /\ event' >= event
    BY DEF QueueInv, HeardInv
  <2>3. completed \subseteq DOMAIN passes /\ completed' \subseteq DOMAIN passes
    BY <1>0 DEF QueueInv, ReachedInv
  <2> QED BY <1>0, <2>1, <2>2, <2>3, StillHeard
<1> QED BY <1>2, <1>3, <1>4, <1>5 DEF QueueInv

LEMMA StartCommitQ == QueueInv /\ StartCommit => QueueInv'
<1> SUFFICES ASSUME QueueInv, StartCommit PROVE QueueInv'
  OBVIOUS
<1>1. /\ UNCHANGED <<gpuSide, feeding, feeder, judgeSide, event, fault, passes, of, pending, recycled, completed>>
      /\ doing' = "commit" /\ Len(passes) < Len(PassWaits)
  BY DEF StartCommit, feedSide
<1>2. ReachedInv'
  BY <1>1 DEF QueueInv, ReachedInv, gpuSide
<1> QED BY <1>1, <1>2, HostSteps DEF Places

LEMMA CommitFailsQ == QueueInv /\ CommitFails => QueueInv'
<1> SUFFICES ASSUME QueueInv, CommitFails PROVE QueueInv'
  OBVIOUS
<1>1. /\ UNCHANGED <<gpuSide, feeding, feeder, judgeSide, event, fault, passes, of, pending, recycled, completed>>
      /\ doing' = "idle"
  BY DEF CommitFails, feedSide
<1>2. ReachedInv'
  BY <1>1 DEF QueueInv, ReachedInv, gpuSide
<1> QED BY <1>1, <1>2, HostSteps DEF Places

LEMMA FedInlineQ == QueueInv /\ FedInline => QueueInv'
<1> SUFFICES ASSUME QueueInv, FedInline PROVE QueueInv'
  OBVIOUS
<1>1. /\ UNCHANGED <<gpuSide, feeding, judgeSide, event, fault, passes, of, pending, recycled, completed>>
      /\ doing' = "idle" /\ feeder' = NoFeeder /\ feeder.at = "done"
  BY DEF FedInline
<1>2. ReachedInv'
  BY <1>1 DEF QueueInv, ReachedInv, gpuSide
<1> QED BY <1>1, <1>2, HostSteps DEF Places

LEMMA StartWaitQ == QueueInv /\ StartWait => QueueInv'
<1> SUFFICES ASSUME QueueInv, StartWait PROVE QueueInv'
  OBVIOUS
<1>1. /\ UNCHANGED <<gpuSide, feeding, feeder, judgeSide, event, fault, passes, pending, recycled, completed>>
      /\ doing' \in {"join", "join_polled", "drop"} /\ of' \in pending
  BY Zenon DEF StartWait, At
<1>2. ReachedInv'
  BY <1>1 DEF QueueInv, ReachedInv, gpuSide
<1>3. of' \in DOMAIN passes
  BY <1>1 DEF QueueInv, QueueTypeOK
<1> QED BY <1>1, <1>2, <1>3, HostSteps

LEMMA JoinQ == QueueInv /\ JoinFeeder => QueueInv'
<1> SUFFICES ASSUME QueueInv, JoinFeeder PROVE QueueInv'
  OBVIOUS
<1>1. /\ UNCHANGED <<gpuSide, feeding, judgeSide, event, fault, passes, of, pending, recycled, completed>>
      /\ doing \in {"join", "join_polled"} /\ doing' \in {"drop", "milestone", "fence"}
      /\ Fed /\ Joined
  <2>1. PICK polled \in BOOLEAN :
            /\ At(IF polled THEN "join_polled" ELSE "join") /\ Fed
            /\ doing' = IF feeder.pass = of /\ ~feeder.well THEN "drop"
                        ELSE IF polled THEN "milestone" ELSE "fence"
    BY Zenon DEF JoinFeeder
  <2>2. doing' \in {"drop", "milestone", "fence"}
    BY <2>1, Zenon
  <2>3. doing \in {"join", "join_polled"}
    BY <2>1, Zenon DEF At
  <2>4. UNCHANGED <<gpuSide, feeding, judgeSide, event, fault, passes>>
    BY <2>1 DEF At
  <2> QED BY <2>1, <2>2, <2>3, <2>4 DEF JoinFeeder
<1>2. feeder' = feeder \/ (feeder' = NoFeeder /\ feeder.at = "done")
  BY <1>1, Zenon DEF Fed, Joined
<1>3. ReachedInv'
  BY <1>1 DEF QueueInv, ReachedInv, gpuSide
<1>4. of' \in DOMAIN passes
  BY <1>1 DEF QueueInv, QueueTypeOK, Places
<1> QED BY <1>1, <1>2, <1>3, <1>4, HostSteps

LEMMA PollsQ == QueueInv /\ (Milestone \/ Poll) => QueueInv'
<1> SUFFICES ASSUME QueueInv, Milestone \/ Poll PROVE QueueInv'
  OBVIOUS
<1>1. /\ UNCHANGED <<gpuSide, feeding, feeder, judgeSide, event, fault, passes, of, pending, recycled, completed>>
      /\ doing \in {"milestone", "poll"} /\ doing' \in {"poll", "fence", "drop"}
  BY DEF Milestone, Poll, At, Then
<1>2. ReachedInv'
  BY <1>1 DEF QueueInv, ReachedInv, gpuSide
<1>3. of' \in DOMAIN passes
  BY <1>1 DEF QueueInv, QueueTypeOK, Places
<1> QED BY <1>1, <1>2, <1>3, HostSteps

LEMMA FenceQ == QueueInv /\ Fence => QueueInv'
<1> SUFFICES ASSUME QueueInv, Fence PROVE QueueInv'
  OBVIOUS
<1>1. /\ UNCHANGED <<gpuSide, feeding, feeder, judgeSide, event, fault, passes, of, pending, completed>>
      /\ doing = "fence"
      /\ \/ fence >= of /\ doing' = "checks" /\ recycled' = recycled \cup {of}
         \/ doing' = "drop" /\ recycled' = recycled
  BY DEF Fence, At
<1>2. of \in DOMAIN passes
  BY <1>1 DEF QueueInv, QueueTypeOK, Places
<1>3. ReachedInv'
  BY <1>1, <1>2 DEF QueueInv, ReachedInv, gpuSide
<1> QED BY <1>1, <1>2, <1>3, HostSteps

(* All of its waits have been judged, and none was early as far as is known. *)
LEMMA ChecksQ == QueueInv /\ Checks => QueueInv'
<1> SUFFICES ASSUME QueueInv, Checks PROVE QueueInv'
  OBVIOUS
<1>1. /\ UNCHANGED <<gpuSide, feeding, feeder, judgeSide, event, fault, passes, recycled>>
      /\ doing = "checks" /\ doing' = "idle" /\ pending' \subseteq pending
  BY DEF Checks, At, Returned
<1>2. of \in DOMAIN passes /\ fence >= of
  BY <1>1 DEF QueueInv, QueueTypeOK, ReachedInv, Places
<1>3. completed' = completed \/ (completed' = completed \cup {of} /\ ~fault /\ checked[of] >= passes[of].waits)
  <2>1. CASE checked[of] >= passes[of].waits /\ Returned(~fault)
    BY <2>1, Zenon DEF Returned
  <2>2. CASE Returned(FALSE)
    BY <2>2, Zenon DEF Returned
  <2> QED BY <2>1, <2>2, Zenon DEF Checks
<1>4. ASSUME ~fault, checked[of] >= passes[of].waits
      PROVE  of \notin too_early /\ Heard(of, passes, event)
  <2>2. /\ passes[of].waits \in Nat /\ of \in DOMAIN PassWaits
    BY <1>2, QueueParts DEF QueueInv, QueueTypeOK
  <2>3. checked[of] \in Nat
    BY <2>2 DEF QueueInv, QueueTypeOK
  <2> DEFINE O == Open(of, passes, feedback, ahead)
  <2>4. checked[of] + Cardinality(O) =< passes[of].waits
    BY <1>2 DEF QueueInv, CountInv
  <2>6. IsFiniteSet(O) /\ Cardinality(O) \in Nat
    BY <2>2, OpenIs
  <2> HIDE DEF O
  <2>7. Cardinality(O) = 0
    BY <1>4, <2>2, <2>3, <2>4, <2>6
  <2>8. O = {}
    BY <2>6, <2>7, FS_EmptySet
  <2>9. of \notin too_early
    <3> SUFFICES ASSUME of \in too_early PROVE FALSE
      OBVIOUS
    <3>1. PICK f \in feedback : f.pass = of /\ f.n > 0
      BY <1>4 DEF QueueInv, EarlyInv
    <3>2. f.n \in Nat /\ f.n =< passes[of].waits
      BY <3>1 DEF QueueInv, HandlersInv, Entry
    <3> QED BY <2>2, <2>8, <3>1, <3>2 DEF O, Open
  <2>10. Heard(of, passes, event)
    <3>1. \A n \in 1 .. passes[of].waits : ~ToJudge(of, n, feedback, ahead)
      BY <2>8 DEF O, Open, ToJudge
    <3> QED BY <1>2, <1>4, <3>1 DEF QueueInv, HeardInv, Heard
  <2> QED BY <2>9, <2>10
<1>5. ReachedInv'
  BY <1>1, <1>2, <1>3, <1>4 DEF QueueInv, ReachedInv, gpuSide
<1>6. \A p \in completed' \ completed : Heard(p, passes, event)
  BY <1>3, <1>4
<1> QED BY <1>1, <1>5, <1>6, HostSteps DEF Places

LEMMA DropQ == QueueInv /\ DropPass => QueueInv'
<1> SUFFICES ASSUME QueueInv, DropPass PROVE QueueInv'
  OBVIOUS
<1>1. /\ UNCHANGED <<gpuSide, feeding, judgeSide, event, fault, passes>>
      /\ doing = "drop" /\ doing' = "idle" /\ pending' \subseteq pending
      /\ fence >= of \/ fault
      /\ recycled' = recycled \cup {of} /\ completed' = completed /\ Fed /\ Joined
  BY DEF DropPass, At, Returned
<1>2. feeder' = feeder \/ (feeder' = NoFeeder /\ feeder.at = "done")
  BY <1>1, Zenon DEF Fed, Joined
<1>3. of \in DOMAIN passes
  BY <1>1 DEF QueueInv, QueueTypeOK, Places
<1>4. ReachedInv'
  BY <1>1, <1>3 DEF QueueInv, ReachedInv, gpuSide
<1> QED BY <1>1, <1>2, <1>4, HostSteps DEF Places

(* The feeder's steps that hand nothing over. *)
LEMMA FeedsNothing ==
    ASSUME QueueInv, UNCHANGED <<gpuSide, judgeSide, commitSide, event>>,
           feeder.at \in Unfinished, feeder.rest' = feeder.rest,
           feeder' \in [pass : Nat, rest : Seq(Command), at : Unfinished \cup {"none", "done"}, well : BOOLEAN],
           feeder'.pass = feeder.pass, feeder'.at # "none",
           feeder'.at \in Unfinished => feeding', feeding' \in BOOLEAN,
           feeder'.at \in {"ending", "done"} /\ feeder.rest # <<>> => fault',
           fault' = fault \/ fault' = TRUE
    PROVE  QueueInv'
<1>0. /\ UNCHANGED <<passes, submitted, fence, checked, feedback, too_early, pending, of, doing, recycled,
                     completed>>
  BY DEF gpuSide, judgeSide, commitSide
<1>1. fault' \in BOOLEAN /\ (fault => fault')
  <2>1. CASE fault' = fault
    BY <2>1 DEF QueueInv, QueueTypeOK
  <2>2. CASE fault' = TRUE
    BY <2>2, Raised
  <2> QED BY <2>1, <2>2
<1>2. QueueTypeOK'
  BY <1>0, <1>1 DEF QueueInv, QueueTypeOK
<1>3. FeederInv'
  BY DEF QueueInv, FeederInv
<1>4. InOrder(ahead, passes, fence)' /\ HandlersInv' /\ CountInv' /\ EarlyInv'
  BY <1>0, <1>1, Quiet
<1>5. ReachedInv'
  BY <1>0, <1>1 DEF QueueInv, ReachedInv
<1>6. HeardInv'
  <2>1. ahead' = ahead
    BY <1>0 DEF ahead
  <2>2. event' \in Nat /\ event' >= event /\ completed \subseteq DOMAIN passes
    BY DEF QueueInv, HeardInv, ReachedInv
  <2> QED BY <1>0, <1>1, <2>1, <2>2, StillHeard
<1> QED BY <1>2, <1>3, <1>4, <1>5, <1>6 DEF QueueInv

LEMMA FeedStopsQ == QueueInv /\ FeedStops => QueueInv'
<1> SUFFICES ASSUME QueueInv, FeedStops PROVE QueueInv'
  OBVIOUS
<1>1. /\ UNCHANGED <<gpuSide, judgeSide, commitSide, event, feeding, fault>>
      /\ feeder.at = "gate" /\ feeder' = [feeder EXCEPT !.at = "failed", !.well = FALSE]
  BY DEF FeedStops
<1>2. /\ feeder' \in [pass : Nat, rest : Seq(Command), at : Unfinished \cup {"none", "done"}, well : BOOLEAN]
      /\ feeder'.rest = feeder.rest /\ feeder'.pass = feeder.pass /\ feeder'.at = "failed"
  BY <1>1 DEF QueueInv, FeederInv, Unfinished
<1>3. feeding /\ feeding \in BOOLEAN
  BY <1>1 DEF QueueInv, QueueTypeOK, FeederInv, Unfinished
<1> QED BY <1>1, <1>2, <1>3, FeedsNothing DEF Unfinished

LEMMA FeedFaultQ == QueueInv /\ FeedFault => QueueInv'
<1> SUFFICES ASSUME QueueInv, FeedFault PROVE QueueInv'
  OBVIOUS
<1>1. /\ UNCHANGED <<gpuSide, judgeSide, commitSide, event, feeding>> /\ fault' = TRUE
      /\ feeder.at = "failed" /\ feeder' = [feeder EXCEPT !.at = "ending"]
  BY DEF FeedFault
<1>2. /\ feeder' \in [pass : Nat, rest : Seq(Command), at : Unfinished \cup {"none", "done"}, well : BOOLEAN]
      /\ feeder'.rest = feeder.rest /\ feeder'.pass = feeder.pass /\ feeder'.at = "ending"
  BY <1>1 DEF QueueInv, FeederInv, Unfinished
<1>3. feeding /\ feeding \in BOOLEAN
  BY <1>1 DEF QueueInv, QueueTypeOK, FeederInv, Unfinished
<1> QED BY <1>1, <1>2, <1>3, FeedsNothing, Raised DEF Unfinished

LEMMA FeedEndsQ == QueueInv /\ FeedEnds => QueueInv'
<1> SUFFICES ASSUME QueueInv, FeedEnds PROVE QueueInv'
  OBVIOUS
<1>1. /\ UNCHANGED <<gpuSide, judgeSide, commitSide, event, fault>> /\ feeding' = FALSE
      /\ feeder.at = "ending" /\ feeder' = [feeder EXCEPT !.at = "done"]
  BY DEF FeedEnds
<1>2. /\ feeder' \in [pass : Nat, rest : Seq(Command), at : Unfinished \cup {"none", "done"}, well : BOOLEAN]
      /\ feeder'.rest = feeder.rest /\ feeder'.pass = feeder.pass /\ feeder'.at = "done"
  BY <1>1 DEF QueueInv, FeederInv, Unfinished
<1>3. feeding' \in BOOLEAN
  BY <1>1, Cleared
<1>4. feeder.rest # <<>> => fault'
  BY <1>1 DEF QueueInv, FeederInv
<1> QED BY <1>1, <1>2, <1>3, <1>4, FeedsNothing DEF Unfinished

LEMMA FeedPartQ == QueueInv /\ FeedPart => QueueInv'
<1> SUFFICES ASSUME QueueInv, FeedPart PROVE QueueInv'
  OBVIOUS
<1> DEFINE n == PartEnd(feeder.rest)
           given == SubSeq(feeder.rest, 1, n)
           kept  == SubSeq(feeder.rest, n + 1, Len(feeder.rest))
           where == IF n = Len(feeder.rest) THEN "ending" ELSE "gate"
<1>1. /\ UNCHANGED <<passes, fence, checked, feedback, too_early, pending, of, doing, recycled, completed,
                     feeding, fault, event>>
      /\ feeder.at = "gate" /\ submitted' = submitted \o given
  BY DEF FeedPart, judgeSide, commitSide
<1>2. feeder' = [feeder EXCEPT !.rest = kept, !.at = where]
  BY DEF FeedPart
<1>3. submitted \in Seq(Command) /\ feeder.rest \in Seq(Command) /\ n \in 0 .. Len(feeder.rest)
  BY QueueParts, PartIs
<1> HIDE DEF n
<1>4. /\ (submitted \o given) \o kept = submitted \o feeder.rest
      /\ submitted \o given \in Seq(Command) /\ kept \in Seq(Command)
      /\ n = Len(feeder.rest) => kept = <<>>
      /\ \A i \in 1 .. Len(kept) : \E j \in 1 .. Len(feeder.rest) : kept[i] = feeder.rest[j]
  <2> DEFINE s == submitted
             r == feeder.rest
  <2>1. s \in Seq(Command) /\ r \in Seq(Command) /\ n \in 0 .. Len(r)
    BY <1>3
  <2> HIDE DEF s, r, Command
  <2>2. /\ (s \o SubSeq(r, 1, n)) \o SubSeq(r, n + 1, Len(r)) = s \o r
        /\ s \o SubSeq(r, 1, n) \in Seq(Command) /\ SubSeq(r, n + 1, Len(r)) \in Seq(Command)
        /\ n = Len(r) => SubSeq(r, n + 1, Len(r)) = <<>>
        /\ Len(SubSeq(r, n + 1, Len(r))) = Len(r) - n
        /\ \A i \in 1 .. Len(r) - n : SubSeq(r, n + 1, Len(r))[i] = r[n + i]
    BY ONLY ZenonT(20), <2>1, PartHandedOver
  <2>3. \A i \in 1 .. Len(r) - n : n + i \in 1 .. Len(r)
    BY <2>1, LenProperties
  <2> DEFINE k == SubSeq(r, n + 1, Len(r))
  <2>4. /\ Len(k) = Len(r) - n /\ \A i \in 1 .. Len(r) - n : k[i] = r[n + i]
    BY <2>2
  <2> HIDE DEF k
  <2>5. \A i \in 1 .. Len(k) : \E j \in 1 .. Len(r) : k[i] = r[j]
    BY <2>3, <2>4
  <2> QED BY <2>2, <2>5, Zenon DEF s, r, k, given, kept
<1> HIDE DEF given, kept
<1>5. /\ feeder' \in [pass : Nat, rest : Seq(Command), at : Unfinished \cup {"none", "done"}, well : BOOLEAN]
      /\ feeder'.rest = kept /\ feeder'.pass = feeder.pass /\ feeder'.at = where
  BY <1>2, <1>4 DEF QueueInv, FeederInv, Unfinished
<1>6. ahead' = ahead
  BY <1>1, <1>4, <1>5 DEF ahead
<1>7. FeederInv'
  <2>1. feeder.rest # <<>> => \A i \in 1 .. Len(feeder.rest) : feeder.rest[i].pass = feeder.pass
    BY DEF QueueInv, FeederInv
  <2>2. kept # <<>> => \A i \in 1 .. Len(kept) : kept[i].pass = feeder.pass
    <3>1. \A i \in 1 .. Len(feeder.rest) : feeder.rest[i].pass = feeder.pass
      BY <1>3, <2>1, EmptySeq
    <3> QED BY <1>4, <3>1
  <2>3. feeding
    BY <1>1 DEF QueueInv, FeederInv, Unfinished
  <2>4. where \in {"ending", "gate"} /\ (where = "ending" => kept = <<>>)
    BY <1>4
  <2> QED BY <1>1, <1>5, <2>2, <2>3, <2>4 DEF FeederInv
<1>8. QueueTypeOK'
  BY <1>1, <1>4 DEF QueueInv, QueueTypeOK
<1>9. InOrder(ahead, passes, fence)' /\ HandlersInv' /\ CountInv' /\ EarlyInv' /\ HeardInv' /\ ReachedInv'
  BY <1>1, <1>6 DEF QueueInv, HandlersInv, CountInv, EarlyInv, HeardInv, ReachedInv
<1> QED BY <1>7, <1>8, <1>9 DEF QueueInv

LEMMA CommitQ ==
    ASSUME QueueInv, NEW gated \in BOOLEAN, NEW threads \in BOOLEAN, Commit(gated, threads)
    PROVE  QueueInv'
<1> DEFINE p == Len(passes) + 1
<1>1. PICK waits \in PassWaits[p] : LET
           all  == Program(p, waits)
           part == IF gated /\ waits > 0 THEN PartEnd(all) ELSE Len(all)
       IN /\ passes' = Append(passes, [waits |-> waits, from |-> Values])
          /\ submitted' = submitted \o SubSeq(all, 1, part)
          /\ pending' = pending \cup {p}
          /\ IF part < Len(all)
             THEN /\ feeding' = TRUE
                  /\ feeder' = [pass |-> p, rest |-> SubSeq(all, part + 1, Len(all)), at |-> "gate", well |-> TRUE]
                  /\ doing' = IF threads THEN "idle" ELSE "feed"
             ELSE doing' = "idle" /\ UNCHANGED <<feeding, feeder>>
  BY Zenon DEF Commit
<1> DEFINE all  == Program(p, waits)
           part == IF gated /\ waits > 0 THEN PartEnd(all) ELSE Len(all)
           pass == [waits |-> waits, from |-> Values]
           given == SubSeq(all, 1, part)
           kept == SubSeq(all, part + 1, Len(all))
<1>2. /\ UNCHANGED <<fence, checked, feedback, too_early, fault, recycled, completed, event>>
      /\ ~feeding /\ ~fault
  BY DEF Commit, judgeSide, MaySubmit
<1>3. /\ Len(passes) \in Nat /\ DOMAIN passes = 1 .. Len(passes) /\ fence \in Nat /\ p \in Nat \ {0}
      /\ submitted \in Seq(Command) /\ fence =< Len(passes) /\ passes \in Seq(Pass)
  BY QueueParts DEF QueueInv, QueueTypeOK
<1>4. Len(PassWaits) \in Nat /\ DOMAIN PassWaits = 1 .. Len(PassWaits) /\ PassWaits \in Seq(SUBSET Nat)
  BY QueueParts, QueueAssumption DEF QueueAssumption
<1>5. waits \in Nat /\ p =< Len(PassWaits)
  <2>1. Len(passes) < Len(PassWaits)
    BY DEF QueueInv, QueueTypeOK, Commit
  <2>2. p \in 1 .. Len(PassWaits)
    BY <1>3, <1>4, <2>1
  <2>3. PassWaits[p] \in SUBSET Nat
    <3> HIDE DEF p
    <3> QED BY <1>4, <2>2, ElementOfSeq
  <2> QED BY <1>1, <1>4, <2>2, <2>3
<1>6. pass \in Pass /\ pass.waits = waits
  <2>1. Values \in Nat
    <3>1. CASE passes = <<>>
      BY <3>1 DEF Values
    <3>2. CASE passes # <<>>
      <4>1. Len(passes) \in 1 .. Len(passes)
        BY <1>3, <3>2, EmptySeq
      <4>2. passes[Len(passes)] \in Pass
        BY <1>3, <4>1, ElementOfSeq
      <4> QED BY <3>2, <4>2 DEF Values, Last, Pass
    <3> QED BY <3>1, <3>2
  <2> QED BY <1>5, <2>1 DEF Pass
<1>7. feeder.rest = <<>>
  <2>1. feeder.at \in {"none", "done"}
    BY <1>2 DEF QueueInv, FeederInv
  <2> QED BY <1>2, <2>1 DEF QueueInv, FeederInv
<1>8. /\ all \in Seq(Command) /\ Len(all) = waits + 3
      /\ \A i \in 1 .. waits + 3 : all[i].pass = p
      /\ \A i \in 1 .. waits + 1 : all[i] = Item("cmd", p, i - 1)
  <2> HIDE DEF p
  <2> QED BY <1>3, <1>5, ProgramIs
<1> HIDE DEF all
<1>9. part \in 0 .. Len(all)
  <2>1. PartEnd(all) \in 0 .. Len(all) /\ Len(all) \in 0 .. Len(all)
    BY <1>5, <1>8, PartIs
  <2> QED BY <2>1
<1>10. /\ passes' = Append(passes, pass) /\ submitted' = submitted \o given /\ pending' = pending \cup {p}
  BY <1>1, Zenon DEF all
<1>11. \/ /\ feeding' = TRUE /\ feeder' = [pass |-> p, rest |-> kept, at |-> "gate", well |-> TRUE]
          /\ doing' \in {"idle", "feed"}
       \/ part = Len(all) /\ doing' = "idle" /\ feeding' = feeding /\ feeder' = feeder
  <2>1. CASE part < Len(all)
    <3>1. /\ feeding' = TRUE /\ feeder' = [pass |-> p, rest |-> kept, at |-> "gate", well |-> TRUE]
          /\ doing' = IF threads THEN "idle" ELSE "feed"
      BY <1>1, <2>1, Zenon DEF all
    <3> QED BY <3>1
  <2>2. CASE ~(part < Len(all))
    <3>1. doing' = "idle" /\ feeding' = feeding /\ feeder' = feeder
      BY <1>1, <2>2, Zenon DEF all
    <3>2. part = Len(all)
      BY <1>5, <1>8, <1>9, <2>2
    <3> QED BY <3>1, <3>2
  <2> QED BY <2>1, <2>2
<1> HIDE DEF part
<1>12. /\ (submitted \o given) \o kept = submitted \o all
       /\ submitted \o given \in Seq(Command) /\ kept \in Seq(Command)
       /\ part = Len(all) => kept = <<>>
       /\ \A i \in 1 .. Len(kept) : \E j \in 1 .. Len(all) : kept[i] = all[j]
  <2> DEFINE s == submitted
             r == all
  <2>1. s \in Seq(Command) /\ r \in Seq(Command) /\ part \in 0 .. Len(r)
    BY <1>3, <1>8, <1>9
  <2> HIDE DEF s, r, Command
  <2>2. /\ (s \o SubSeq(r, 1, part)) \o SubSeq(r, part + 1, Len(r)) = s \o r
        /\ s \o SubSeq(r, 1, part) \in Seq(Command) /\ SubSeq(r, part + 1, Len(r)) \in Seq(Command)
        /\ part = Len(r) => SubSeq(r, part + 1, Len(r)) = <<>>
        /\ Len(SubSeq(r, part + 1, Len(r))) = Len(r) - part
        /\ \A i \in 1 .. Len(r) - part : SubSeq(r, part + 1, Len(r))[i] = r[part + i]
    BY ONLY ZenonT(20), <2>1, PartHandedOver
  <2>3. \A i \in 1 .. Len(r) - part : part + i \in 1 .. Len(r)
    BY <2>1, LenProperties
  <2> DEFINE k == SubSeq(r, part + 1, Len(r))
  <2>4. /\ Len(k) = Len(r) - part /\ \A i \in 1 .. Len(r) - part : k[i] = r[part + i]
    BY <2>2
  <2> HIDE DEF k
  <2>5. \A i \in 1 .. Len(k) : \E j \in 1 .. Len(r) : k[i] = r[j]
    BY <2>3, <2>4
  <2> QED BY <2>2, <2>5, Zenon DEF s, r, k, given, kept
<1> HIDE DEF given, kept
<1>13. feeder'.rest = kept
  BY <1>7, <1>11, <1>12
<1>14. ahead' = ahead \o all
  <2>1. ahead = submitted
    BY <1>3, <1>7, ConcatEmptySeq DEF ahead
  <2> QED BY <1>10, <1>12, <1>13, <2>1 DEF ahead
<1>15. /\ Len(passes') = p /\ passes' \in Seq(Pass) /\ passes'[p] = pass
       /\ \A k \in 1 .. Len(passes) : passes'[k] = passes[k]
       /\ DOMAIN passes' = 1 .. p
  <2>1. /\ Append(passes, pass) \in Seq(Pass) /\ Len(Append(passes, pass)) = Len(passes) + 1
        /\ Append(passes, pass)[Len(passes) + 1] = pass
        /\ \A k \in 1 .. Len(passes) : Append(passes, pass)[k] = passes[k]
    BY <1>3, <1>6, AppendProperties
  <2> HIDE DEF pass
  <2> QED BY <1>10, <2>1, LenProperties
<1>16. InOrder(ahead', passes', fence')
  <2>1. InOrder(ahead \o Program(Len(passes) + 1, pass.waits), Append(passes, pass), fence)
    <3>1. InOrder(ahead, passes, fence)
      BY DEF QueueInv
    <3> HIDE DEF pass
    <3> QED BY <1>3, <1>6, <3>1, AddsProgram
  <2> QED BY <1>2, <1>6, <1>10, <1>14, <2>1 DEF all
<1>17. ASSUME NEW i \in 1 .. Len(ahead')
       PROVE  ahead'[i].pass = p \/ \E j \in 1 .. Len(ahead) : ahead'[i] = ahead[j]
  <2>1. ahead \in Seq(Command) /\ Len(ahead) \in Nat /\ Len(all) \in Nat
    BY <1>5, <1>8, QueueParts
  <2>2. /\ Len(ahead \o all) = Len(ahead) + Len(all)
        /\ \A k \in 1 .. Len(ahead) + Len(all) :
              (ahead \o all)[k] = IF k <= Len(ahead) THEN ahead[k] ELSE all[k - Len(ahead)]
    <3> DEFINE s == ahead
    <3>1. s \in Seq(Command) /\ all \in Seq(Command)
      BY <1>8, <2>1
    <3> HIDE DEF s, Command
    <3>2. /\ Len(s \o all) = Len(s) + Len(all)
          /\ \A k \in 1 .. Len(s) + Len(all) :
                (s \o all)[k] = IF k <= Len(s) THEN s[k] ELSE all[k - Len(s)]
      BY <3>1, ConcatProperties
    <3> QED BY <3>2 DEF s
  <2>3. CASE i =< Len(ahead)
    <3>1. i \in 1 .. Len(ahead) /\ ahead'[i] = ahead[i]
      BY <1>14, <2>1, <2>2, <2>3
    <3> QED BY <3>1
  <2>4. CASE i > Len(ahead)
    <3>1. i - Len(ahead) \in 1 .. Len(all) /\ ahead'[i] = all[i - Len(ahead)]
      BY <1>14, <2>1, <2>2, <2>4
    <3> QED BY <1>8, <3>1
  <2> QED BY <2>1, <2>3, <2>4
<1>18. HandlersInv'
  <2>1. ASSUME NEW f \in feedback
        PROVE  /\ f.pass =< Len(passes') /\ f.n =< passes'[f.pass].waits
               /\ \A i \in 1 .. Len(ahead') : ~IsCmd(ahead'[i], f.pass, f.n)
    <3>1. /\ f.pass \in 1 .. Len(passes) /\ f.n =< passes[f.pass].waits
          /\ \A i \in 1 .. Len(ahead) : ~IsCmd(ahead[i], f.pass, f.n)
      BY <1>3 DEF QueueInv, HandlersInv, Entry
    <3>2. f.pass # p /\ f.pass =< p
      BY <1>3, <3>1
    <3>3. \A i \in 1 .. Len(ahead') : ~IsCmd(ahead'[i], f.pass, f.n)
      BY <1>17, <3>1, <3>2 DEF IsCmd
    <3> QED BY <1>15, <3>1, <3>2, <3>3
  <2> HIDE DEF p
  <2> QED BY <1>2, <2>1 DEF QueueInv, HandlersInv
<1>19. CountInv'
  <2>1. ASSUME NEW q \in 1 .. Len(passes)
        PROVE  checked[q] + Cardinality(Open(q, passes', feedback, ahead')) =< passes'[q].waits
    <3> DEFINE O1 == Open(q, passes, feedback, ahead)
               O2 == Open(q, passes', feedback, ahead')
    <3>1. passes'[q] = passes[q] /\ q # p
      BY <1>3, <1>15
    <3>2. O2 \in SUBSET O1
      <4>1. \A n : \A i \in 1 .. Len(ahead') : IsCmd(ahead'[i], q, n) => \E j \in 1 .. Len(ahead) : IsCmd(ahead[j], q, n)
        BY <1>17, <3>1 DEF IsCmd
      <4> HIDE DEF p
      <4> QED BY <3>1, <4>1 DEF Open
    <3>3. passes[q].waits \in Nat /\ checked[q] \in Nat /\ checked[q] + Cardinality(O1) =< passes[q].waits
      <4>1. q \in DOMAIN PassWaits
        BY <1>3, <1>4, <1>5
      <4> QED BY <1>3, <4>1, QueueParts DEF QueueInv, QueueTypeOK, CountInv
    <3> HIDE DEF O1
    <3>4. Cardinality(O2) \in Nat /\ Cardinality(O2) =< Cardinality(O1) /\ Cardinality(O1) \in Nat
      <4> HIDE DEF O2
      <4> QED BY <3>2, <3>3, OpenIs DEF O1
    <3> HIDE DEF O2
    <3>5. checked[q] + Cardinality(O2) =< passes[q].waits
      BY <3>3, <3>4
    <3> QED BY <3>1, <3>5 DEF O2
  <2>2. checked[p] + Cardinality(Open(p, passes', feedback, ahead')) =< passes'[p].waits
    <3>1. checked[p] = 0
      <4>1. p \in DOMAIN PassWaits /\ p > Len(passes)
        BY <1>3, <1>4, <1>5
      <4> QED BY <4>1 DEF QueueInv, CountInv
    <3>2. passes'[p].waits = waits
      BY <1>6, <1>15
    <3>3. /\ Cardinality(Open(p, passes', feedback, ahead')) \in Nat
          /\ Cardinality(Open(p, passes', feedback, ahead')) =< passes'[p].waits
      BY <1>5, <3>2, OpenIs
    <3> QED BY <3>1, <3>3
  <2>3. \A q \in DOMAIN passes' : q \in 1 .. Len(passes) \/ q = p
    BY <1>3, <1>15
  <2>4. \A q \in DOMAIN PassWaits : q > Len(passes') => checked[q] = 0
    BY <1>3, <1>4, <1>15 DEF QueueInv, CountInv
  <2> HIDE DEF p
  <2> QED BY <1>2, <2>1, <2>2, <2>3, <2>4 DEF CountInv
<1>20. QueueTypeOK'
  <2>1. pending' \subseteq DOMAIN passes'
    BY <1>3, <1>10, <1>15 DEF QueueInv, QueueTypeOK
  <2>2. feeding' \in BOOLEAN /\ doing' \in {"idle", "feed"}
    <3>1. CASE feeding' = TRUE /\ doing' \in {"idle", "feed"}
      BY <3>1, Raised
    <3> QED BY <1>11, <3>1 DEF QueueInv, QueueTypeOK
  <2>3. fence' =< Len(passes') /\ Len(passes') =< Len(PassWaits)
    BY <1>2, <1>3, <1>5, <1>15
  <2> HIDE DEF p
  <2> QED BY <1>2, <1>10, <1>12, <1>15, <2>1, <2>2, <2>3 DEF QueueInv, QueueTypeOK, Places
<1>21. FeederInv'
  <2>1. CASE /\ feeding' = TRUE /\ feeder' = [pass |-> p, rest |-> kept, at |-> "gate", well |-> TRUE]
    <3>1. feeder' \in [pass : Nat, rest : Seq(Command), at : Unfinished \cup {"none", "done"}, well : BOOLEAN]
      BY <1>3, <1>12, <2>1 DEF Unfinished
    <3>2. /\ \A i \in 1 .. Len(kept) : kept[i].pass = p
          /\ feeder'.at = "gate" /\ feeder'.pass = p /\ feeding'
      BY <1>8, <1>12, <2>1
    <3> QED BY <1>13, <3>1, <3>2 DEF FeederInv, Unfinished
  <2>2. CASE feeding' = feeding /\ feeder' = feeder
    BY <1>2, <2>2 DEF QueueInv, FeederInv
  <2> QED BY <1>11, <2>1, <2>2
<1>22. EarlyInv'
  BY <1>2 DEF QueueInv, EarlyInv
<1>23. ReachedInv'
  <2>1. doing' # "checks"
    BY <1>11
  <2>2. DOMAIN passes \subseteq DOMAIN passes'
    BY <1>3, <1>15
  <2> QED BY <1>2, <2>1, <2>2 DEF QueueInv, ReachedInv
<1>24. HeardInv'
  <2>0. /\ \A n \in 1 .. waits : \E i \in 1 .. Len(ahead') : IsCmd(ahead'[i], p, n)
        /\ \A i \in 1 .. Len(ahead) : \E j \in 1 .. Len(ahead') : ahead'[j] = ahead[i]
    <3>1. /\ Len(ahead') = Len(ahead) + Len(all) /\ Len(ahead) \in Nat
          /\ \A k \in 1 .. Len(ahead) + Len(all) :
                ahead'[k] = IF k <= Len(ahead) THEN ahead[k] ELSE all[k - Len(ahead)]
      <4> DEFINE s == ahead
      <4>1. s \in Seq(Command) /\ all \in Seq(Command) /\ Len(s) \in Nat
        BY <1>8, QueueParts
      <4> HIDE DEF s, Command
      <4>2. /\ Len(s \o all) = Len(s) + Len(all)
            /\ \A k \in 1 .. Len(s) + Len(all) :
                  (s \o all)[k] = IF k <= Len(s) THEN s[k] ELSE all[k - Len(s)]
        BY <4>1, ConcatProperties
      <4> QED BY <1>14, <4>1, <4>2 DEF s
    <3>2. ASSUME NEW n \in 1 .. waits
          PROVE  \E i \in 1 .. Len(ahead') : IsCmd(ahead'[i], p, n)
      <4>1. /\ Len(ahead) + n + 1 \in 1 .. Len(ahead) + Len(all) /\ ~(Len(ahead) + n + 1 =< Len(ahead))
            /\ (Len(ahead) + n + 1) - Len(ahead) = n + 1 /\ n + 1 \in 1 .. waits + 1 /\ (n + 1) - 1 = n
        BY <1>5, <1>8, <3>1
      <4>2. ahead'[Len(ahead) + n + 1] = Item("cmd", p, n)
        BY <1>8, <3>1, <4>1
      <4>3. IsCmd(Item("cmd", p, n), p, n)
        BY DEF IsCmd, Item
      <4> QED BY <3>1, <4>1, <4>2, <4>3
    <3>3. ASSUME NEW i \in 1 .. Len(ahead)
          PROVE  \E j \in 1 .. Len(ahead') : ahead'[j] = ahead[i]
      <4>1. i \in 1 .. Len(ahead') /\ i \in 1 .. Len(ahead) + Len(all) /\ i =< Len(ahead)
        BY <1>5, <1>8, <3>1
      <4> QED BY <3>1, <4>1
    <3> QED BY <3>2, <3>3
  <2>1. ASSUME NEW q \in DOMAIN passes', NEW n \in 1 .. passes'[q].waits
        PROVE  event >= passes'[q].from + n \/ ToJudge(q, n, feedback, ahead')
    <3>1. CASE q = p
      BY <1>6, <1>15, <2>0, <3>1 DEF ToJudge
    <3>2. CASE q # p
      <4>1. q \in DOMAIN passes /\ passes'[q] = passes[q]
        BY <1>3, <1>15, <3>2
      <4>2. event >= passes[q].from + n \/ ToJudge(q, n, feedback, ahead)
        BY <1>2, <4>1 DEF QueueInv, HeardInv
      <4>3. ToJudge(q, n, feedback, ahead) => ToJudge(q, n, feedback, ahead')
        BY <2>0 DEF ToJudge
      <4> QED BY <4>1, <4>2, <4>3
    <3> QED BY <3>1, <3>2
  <2>2. \A q \in completed : Heard(q, passes', event)
    <3>1. \A q \in completed : q \in DOMAIN passes /\ Heard(q, passes, event)
      BY DEF QueueInv, HeardInv, ReachedInv
    <3> QED BY <1>3, <1>15, <3>1 DEF Heard
  <2>3. event \in Nat
    BY DEF QueueInv, HeardInv
  <2> QED BY <1>2, <2>1, <2>2, <2>3 DEF HeardInv
<1> QED BY <1>16, <1>18, <1>19, <1>20, <1>21, <1>22, <1>23, <1>24 DEF QueueInv

LEMMA TakesFirst ==
    ASSUME NEW s \in Seq(Command), NEW r \in Seq(Command), s # <<>>
    PROVE  /\ Tail(s) \o r = Tail(s \o r) /\ Head(s \o r) = Head(s) /\ s \o r # <<>>
           /\ Tail(s) \in Seq(Command)
<1>0. Len(s) \in Nat /\ Len(r) \in Nat /\ Len(s) # 0
  BY LenProperties, EmptySeq
<1>1. /\ s \o r \in Seq(Command) /\ Len(s \o r) = Len(s) + Len(r)
      /\ \A i \in 1 .. Len(s) + Len(r) : (s \o r)[i] = IF i <= Len(s) THEN s[i] ELSE r[i - Len(s)]
  BY ConcatProperties
<1>2. /\ Tail(s) \in Seq(Command) /\ Len(Tail(s)) = Len(s) - 1
      /\ \A i \in 1 .. Len(s) - 1 : Tail(s)[i] = s[i + 1]
      /\ Head(s) = s[1]
  BY HeadTailProperties
<1> DEFINE all == s \o r
           t == Tail(s)
<1>3. all # <<>> /\ all \in Seq(Command) /\ t \in Seq(Command)
  BY <1>0, <1>1, <1>2, EmptySeq
<1> HIDE DEF all, t, Command
<1>4. /\ Tail(all) \in Seq(Command) /\ Len(Tail(all)) = Len(all) - 1
      /\ \A i \in 1 .. Len(all) - 1 : Tail(all)[i] = all[i + 1]
      /\ Head(all) = all[1]
  BY <1>3, HeadTailProperties
<1>5. /\ t \o r \in Seq(Command) /\ Len(t \o r) = Len(t) + Len(r)
      /\ \A i \in 1 .. Len(t) + Len(r) : (t \o r)[i] = IF i <= Len(t) THEN t[i] ELSE r[i - Len(t)]
  BY <1>3, ConcatProperties
<1> DEFINE m == Len(s) + Len(r) - 1
<1>6. m \in Nat /\ Len(t) = Len(s) - 1 /\ Len(all) = Len(s) + Len(r) /\ Len(t) + Len(r) = m /\ Len(all) - 1 = m
  BY <1>0, <1>1, <1>2 DEF all, t
<1>7. ASSUME NEW i \in 1 .. m PROVE (t \o r)[i] = Tail(all)[i]
  <2>1. CASE i =< Len(t)
    <3>1. i \in 1 .. Len(s) - 1 /\ i + 1 \in 1 .. Len(s) + Len(r) /\ i + 1 =< Len(s)
      BY <1>0, <1>6, <2>1
    <3>2. t[i] = s[i + 1] /\ all[i + 1] = s[i + 1]
      BY <1>1, <1>2, <3>1 DEF all, t
    <3> QED BY <1>4, <1>5, <1>6, <2>1, <3>2
  <2>2. CASE ~(i =< Len(t))
    <3>1. i + 1 \in 1 .. Len(s) + Len(r) /\ ~(i + 1 =< Len(s)) /\ (i + 1) - Len(s) = i - Len(t)
      BY <1>0, <1>6, <2>2
    <3>2. all[i + 1] = r[i - Len(t)]
      BY <1>1, <3>1 DEF all
    <3> QED BY <1>4, <1>5, <1>6, <2>2, <3>2
  <2> QED BY <2>1, <2>2
<1>8. t \o r = Tail(all)
  <2>1. t \o r \in [1 .. m -> Command] /\ Tail(all) \in [1 .. m -> Command]
    BY <1>4, <1>5, <1>6, LenProperties
  <2> QED BY SMTT(30), <1>7, <2>1
<1>9. Head(all) = Head(s)
  BY <1>0, <1>1, <1>2, <1>4 DEF all
<1> QED BY <1>2, <1>3, <1>8, <1>9 DEF all, t

(* One command buffer runs, raises a signal, or gives its pass's fence. *)
LEMMA GpuQ == QueueInv /\ QueueGpu => QueueInv'
<1> SUFFICES ASSUME QueueInv, QueueGpu PROVE QueueInv'
  OBVIOUS
<1> DEFINE h == Head(submitted)
<1>1. /\ UNCHANGED <<feeding, feeder, checked, passes, doing, of, pending, recycled, completed, fault, event>>
      /\ submitted # <<>> /\ submitted' = Tail(submitted) /\ RunItem(h)
  BY DEF QueueGpu, feedSide, commitSide
<1>2. /\ Len(passes) \in Nat /\ DOMAIN passes = 1 .. Len(passes) /\ fence \in Nat
      /\ submitted \in Seq(Command) /\ feeder.rest \in Seq(Command) /\ InOrder(ahead, passes, fence)
      /\ \A p \in DOMAIN passes : passes[p].waits \in Nat /\ p \in Nat
  BY QueueParts DEF QueueInv
<1>3. /\ ahead' = Tail(ahead) /\ Head(ahead) = h /\ ahead # <<>> /\ submitted' \in Seq(Command)
  BY <1>1, <1>2, TakesFirst DEF ahead
<1>4. /\ InOrder(Tail(ahead), passes, fence)
      /\ h = ahead[1] /\ h \in Command /\ 1 \in 1 .. Len(ahead)
      /\ h.kind = "fence" => InOrder(Tail(ahead), passes, h.pass)
      /\ \A i \in 1 .. Len(Tail(ahead)) :
            Tail(ahead)[i] = ahead[i + 1] /\ i + 1 \in 1 .. Len(ahead) /\ Tail(ahead)[i] # h
  BY <1>2, <1>3, RunsFirst
<1>5. h.pass > fence /\ h.pass \in DOMAIN passes /\ h.n =< passes[h.pass].waits /\ h.n \in Nat
  BY SMTT(30), <1>2, <1>4 DEF InOrder, Command
<1>6. FeederInv'
  BY <1>1 DEF QueueInv, FeederInv
<1>7. \A i \in 1 .. Len(ahead') : \E j \in 1 .. Len(ahead) : ahead'[i] = ahead[j]
  BY <1>3, <1>4
<1> HIDE DEF h
<1>8. CASE h.kind = "cmd"
  <2>1. PICK bad \in BOOLEAN, told \in {FALSE, Early(h.pass, h.n)} :
           /\ feedback' = feedback \cup IF bad \/ h.n > 0
                                        THEN {[pass |-> h.pass, n |-> h.n, early |-> told,
                                               bad |-> bad, judged |-> FALSE]}
                                        ELSE {}
           /\ too_early' = IF told THEN too_early \cup {h.pass} ELSE too_early
           /\ fence' = fence
    BY <1>1, <1>8, Zenon DEF RunItem, RunCmd
  <2> DEFINE e == [pass |-> h.pass, n |-> h.n, early |-> told, bad |-> bad, judged |-> FALSE]
  <2>2. told \in BOOLEAN /\ (told => h.n > 0)
    BY DEF Early
  <2>3. /\ e \in Entry /\ e.pass = h.pass /\ e.n = h.n /\ e.judged = FALSE
        /\ told => e.early = TRUE
    BY <1>5, <2>2, <1>4 DEF Entry, Command
  <2>4. /\ feedback' \subseteq feedback \cup {e} /\ feedback \subseteq feedback'
        /\ h.n > 0 => e \in feedback'
    BY <2>1
  <2> HIDE DEF e
  <2>5. InOrder(ahead, passes, fence)'
    BY <1>1, <1>3, <1>4, <2>1
  <2>6. HandlersInv'
    <3>1. \A f \in feedback : ~(f.pass = h.pass /\ f.n = h.n)
      BY <1>4, <1>8 DEF QueueInv, HandlersInv, IsCmd
    <3>2. \A f, g \in feedback' : f.pass = g.pass /\ f.n = g.n => f = g
      BY <2>3, <2>4, <3>1 DEF QueueInv, HandlersInv
    <3>3. \A i \in 1 .. Len(Tail(ahead)) : ~IsCmd(Tail(ahead)[i], h.pass, h.n)
      <4>1. \A i \in 1 .. Len(Tail(ahead)) : Tail(ahead)[i] \in Command
        BY <1>4, ElementOfSeq DEF InOrder
      <4> QED BY <1>4, <1>8, <4>1 DEF IsCmd, Command
    <3>4. \A f \in feedback : \A i \in 1 .. Len(Tail(ahead)) : ~IsCmd(Tail(ahead)[i], f.pass, f.n)
      BY <1>3, <1>7 DEF QueueInv, HandlersInv
    <3>5. \A f \in feedback' : \A i \in 1 .. Len(Tail(ahead)) : ~IsCmd(Tail(ahead)[i], f.pass, f.n)
      BY <2>3, <2>4, <3>3, <3>4
    <3>6. \A f \in feedback' : f \in Entry /\ f.pass =< Len(passes) /\ f.n =< passes[f.pass].waits
      BY <1>2, <1>5, <2>3, <2>4 DEF QueueInv, HandlersInv
    <3> QED BY <1>1, <1>3, <3>2, <3>5, <3>6 DEF HandlersInv
  <2>7. CountInv'
    <3>1. ASSUME NEW p \in DOMAIN passes
          PROVE  checked[p] + Cardinality(Open(p, passes, feedback', ahead')) =< passes[p].waits
      <4> DEFINE O1 == Open(p, passes, feedback, ahead)
                 O2 == Open(p, passes, feedback', ahead')
      <4>1. O2 \in SUBSET O1
        <5>1. \A n : \A f \in feedback' : f.pass = p /\ f.n = n =>
                 (\E g \in feedback : g.pass = p /\ g.n = n) \/ IsCmd(ahead[1], p, n)
          BY <1>4, <1>8, <2>3, <2>4 DEF IsCmd
        <5>2. \A n : \A i \in 1 .. Len(ahead') : IsCmd(ahead'[i], p, n) =>
                 \E j \in 1 .. Len(ahead) : IsCmd(ahead[j], p, n)
          BY <1>7 DEF IsCmd
        <5> QED BY <1>4, <5>1, <5>2 DEF Open
      <4>2. passes[p].waits \in Nat /\ checked[p] \in Nat /\ checked[p] + Cardinality(O1) =< passes[p].waits
        <5>1. p \in DOMAIN PassWaits
          BY <1>2, QueueParts DEF QueueInv, QueueTypeOK
        <5> QED BY <1>2, <5>1 DEF QueueInv, QueueTypeOK, CountInv
      <4> HIDE DEF O1
      <4>3. Cardinality(O2) \in Nat /\ Cardinality(O2) =< Cardinality(O1) /\ Cardinality(O1) \in Nat
        <5> HIDE DEF O2
        <5> QED BY <4>1, <4>2, OpenIs DEF O1
      <4> HIDE DEF O2
      <4>4. checked[p] + Cardinality(O2) =< passes[p].waits
        BY <4>2, <4>3
      <4> QED BY <4>4 DEF O2
    <3> QED BY <1>1, <3>1 DEF QueueInv, CountInv
  <2>8. EarlyInv'
    <3>1. CASE told
      <4>1. e \in feedback' /\ e.pass = h.pass /\ e.n > 0 /\ e.early = TRUE /\ e.judged = FALSE
        BY <2>2, <2>3, <2>4, <3>1
      <4>2. too_early' = too_early \cup {h.pass}
        BY <2>1, <3>1
      <4> QED BY <1>1, <2>4, <4>1, <4>2 DEF QueueInv, EarlyInv
    <3>2. CASE ~told
      BY <1>1, <2>1, <2>4, <3>2 DEF QueueInv, EarlyInv
    <3> QED BY <3>1, <3>2
  <2>9. ReachedInv'
    <3>1. \A p \in completed : p \notin too_early'
      <4>1. \A p \in completed : fence >= p /\ p \notin too_early /\ p \in Nat
        BY <1>2 DEF QueueInv, ReachedInv
      <4>2. \A p \in completed : p # h.pass
        BY <1>2, <1>5, <4>1
      <4> QED BY <2>1, <4>1, <4>2
    <3> QED BY <1>1, <2>1, <3>1 DEF QueueInv, ReachedInv
  <2>10. QueueTypeOK'
    BY <1>1, <1>3, <2>1 DEF QueueInv, QueueTypeOK
  <2>11. HeardInv'
    <3>1. ASSUME NEW p \in DOMAIN passes, NEW n \in 1 .. passes[p].waits, ToJudge(p, n, feedback, ahead)
          PROVE  ToJudge(p, n, feedback', ahead')
      <4>1. CASE \E f \in feedback : f.pass = p /\ f.n = n /\ f.judged = FALSE
        BY <2>4, <4>1 DEF ToJudge
      <4>2. CASE \E i \in 1 .. Len(ahead) : IsCmd(ahead[i], p, n)
        <5>1. PICK i \in 1 .. Len(ahead) : IsCmd(ahead[i], p, n)
          BY <4>2
        <5>2. CASE i = 1
          <6>1. h.pass = p /\ h.n = n /\ n > 0
            BY <1>2, <1>4, <5>1, <5>2 DEF IsCmd
          <6>2. e \in feedback' /\ e.pass = p /\ e.n = n /\ e.judged = FALSE
            BY <2>3, <2>4, <6>1
          <6> QED BY <6>2 DEF ToJudge
        <5>3. CASE i # 1
          <6>1. \E j \in 1 .. Len(ahead') : ahead'[j] = ahead[i]
            <7>1. /\ ahead \in Seq(Command) /\ Len(ahead) \in Nat /\ Len(Tail(ahead)) = Len(ahead) - 1
              BY <1>3, QueueParts, HeadTailProperties
            <7>2. i - 1 \in 1 .. Len(Tail(ahead)) /\ (i - 1) + 1 = i
              BY <5>3, <7>1
            <7>3. Tail(ahead)[i - 1] = ahead[i]
              BY <1>4, <7>2
            <7> QED BY <1>3, <7>2, <7>3
          <6> QED BY <5>1, <6>1 DEF ToJudge
        <5> QED BY <5>2, <5>3
      <4> QED BY <3>1, <4>1, <4>2 DEF ToJudge
    <3>2. ~fault => \A p \in DOMAIN passes : \A n \in 1 .. passes[p].waits :
                       event >= passes[p].from + n \/ ToJudge(p, n, feedback', ahead')
      BY <3>1 DEF QueueInv, HeardInv
    <3> QED BY <1>1, <3>2 DEF QueueInv, HeardInv
  <2> QED BY <1>6, <2>5, <2>6, <2>7, <2>8, <2>9, <2>10, <2>11 DEF QueueInv
<1>9. CASE h.kind # "cmd"
  <2>1. /\ UNCHANGED <<feedback, too_early>>
        /\ fence' = fence \/ (h.kind = "fence" /\ fence' = h.pass)
    <3>1. h.kind \in {"done", "fence"}
      BY <1>4, <1>9 DEF Command
    <3> QED BY <1>1, <3>1 DEF RunItem
  <2>2. fence' \in Nat /\ fence' >= fence /\ fence' =< Len(passes)
    BY <1>2, <1>5, <2>1 DEF QueueInv, QueueTypeOK
  <2>3. InOrder(ahead, passes, fence)'
    BY <1>1, <1>3, <1>4, <2>1
  <2>4. HandlersInv' /\ CountInv'
    BY <1>1, <1>7, <2>1, Shrinks
  <2>5. EarlyInv'
    BY <1>1, <2>1 DEF QueueInv, EarlyInv
  <2>6. ReachedInv'
    <3>1. \A p \in recycled \cup completed : p \in Nat
      BY <1>2 DEF QueueInv, ReachedInv
    <3>2. doing = "checks" => of \in Nat
      BY <1>2 DEF QueueInv, QueueTypeOK, Places
    <3> QED BY <1>1, <1>2, <2>1, <2>2, <3>1, <3>2 DEF QueueInv, ReachedInv
  <2>7. QueueTypeOK'
    BY <1>1, <1>3, <2>2 DEF QueueInv, QueueTypeOK
  <2>8. HeardInv'
    <3>1. ASSUME NEW p, NEW n, ToJudge(p, n, feedback, ahead) PROVE ToJudge(p, n, feedback, ahead')
      <4>1. \A i \in 1 .. Len(ahead) : IsCmd(ahead[i], p, n) => \E j \in 1 .. Len(ahead') : ahead'[j] = ahead[i]
        <5> SUFFICES ASSUME NEW i \in 1 .. Len(ahead), IsCmd(ahead[i], p, n)
                     PROVE  \E j \in 1 .. Len(ahead') : ahead'[j] = ahead[i]
          OBVIOUS
        <5>1. i # 1
          BY <1>4, <1>9 DEF IsCmd
        <5>2. /\ ahead \in Seq(Command) /\ Len(ahead) \in Nat /\ Len(Tail(ahead)) = Len(ahead) - 1
          BY <1>3, QueueParts, HeadTailProperties
        <5>3. i - 1 \in 1 .. Len(Tail(ahead)) /\ (i - 1) + 1 = i
          BY <5>1, <5>2
        <5>4. Tail(ahead)[i - 1] = ahead[i]
          BY <1>4, <5>3
        <5> QED BY <1>3, <5>3, <5>4
      <4> QED BY <3>1, <4>1 DEF ToJudge
    <3>2. ~fault => \A p \in DOMAIN passes : \A n \in 1 .. passes[p].waits :
                       event >= passes[p].from + n \/ ToJudge(p, n, feedback, ahead')
      BY <3>1 DEF QueueInv, HeardInv
    <3> QED BY <1>1, <2>1, <3>2 DEF QueueInv, HeardInv
  <2> QED BY <1>6, <2>3, <2>4, <2>5, <2>6, <2>7, <2>8 DEF QueueInv
<1> QED BY <1>8, <1>9

LEMMA HostSignalQ == QueueInv /\ HostSignal => QueueInv'
<1> SUFFICES ASSUME QueueInv, HostSignal PROVE QueueInv'
  OBVIOUS
<1>1. /\ UNCHANGED <<gpuSide, feedSide, judgeSide, commitSide, fault>>
  BY DEF HostSignal
<1>2. UNCHANGED <<feeder, feeding, pending, of, doing, recycled, completed, gpuSide, feedback, checked, fault, passes>>
  BY <1>1 DEF feedSide, commitSide, judgeSide
<1>3. ahead' = ahead
  BY <1>2 DEF ahead, gpuSide
<1>4. QueueTypeOK' /\ FeederInv'
  BY <1>2 DEF QueueInv, QueueTypeOK, FeederInv, gpuSide
<1>5. InOrder(ahead, passes, fence)' /\ HandlersInv' /\ CountInv' /\ EarlyInv' /\ ReachedInv'
  BY <1>2, <1>3 DEF QueueInv, HandlersInv, CountInv, EarlyInv, ReachedInv, gpuSide
<1>6. HeardInv'
  <2>1. event' \in Nat /\ event' >= event /\ completed \subseteq DOMAIN passes
    BY DEF QueueInv, HeardInv, ReachedInv, HostSignal
  <2> QED BY <1>2, <1>3, <2>1, StillHeard
<1> QED BY <1>4, <1>5, <1>6 DEF QueueInv

LEMMA ThatOrIt == ASSUME NEW b, NEW P, NEW Q, b = (P \/ Q) PROVE b \in BOOLEAN /\ (P => b) /\ (Q => b)
  BY Zenon

LEMMA JudgeQ == ASSUME QueueInv, NEW f \in feedback, Judge(f) PROVE QueueInv'
<1> DEFINE g == [f EXCEPT !.judged = TRUE]
<1>1. /\ UNCHANGED <<submitted, fence, too_early, feeding, feeder, checked, passes, doing, of, pending,
                     recycled, completed, event>>
      /\ feedback' = (feedback \ {f}) \cup {g}
  BY DEF Judge, gpuSide, feedSide, commitSide
<1>2. fault' \in BOOLEAN /\ (fault => fault') /\ (ReleasedEarly(f) => fault')
  <2>1. fault' = ((fault \/ f.bad) \/ ReleasedEarly(f))
    BY Zenon DEF Judge
  <2>2. fault' \in BOOLEAN /\ (fault \/ f.bad => fault') /\ (ReleasedEarly(f) => fault')
    BY <2>1, ThatOrIt
  <2> QED BY <2>2
<1>3. f \in Entry
  BY DEF QueueInv, HandlersInv
<1>4. g \in Entry /\ g.pass = f.pass /\ g.n = f.n /\ g.early = f.early
  BY <1>3 DEF Entry
<1> HIDE DEF g
<1>5. ahead' = ahead
  BY <1>1 DEF ahead
<1>6. QueueTypeOK' /\ FeederInv'
  <2>1. QueueTypeOK'
    BY <1>1, <1>2 DEF QueueInv, QueueTypeOK
  <2>2. FeederInv'
    BY <1>1, <1>2 DEF QueueInv, FeederInv
  <2> QED BY <2>1, <2>2
<1>7. HandlersInv'
  BY <1>1, <1>3, <1>4, <1>5 DEF QueueInv, HandlersInv
<1>8. CountInv'
  <2>1. \A p, n : (\E e \in feedback' : e.pass = p /\ e.n = n) <=> (\E e \in feedback : e.pass = p /\ e.n = n)
    BY <1>1, <1>4
  <2>2. \A p : Open(p, passes, feedback', ahead) = Open(p, passes, feedback, ahead)
    BY <2>1 DEF Open
  <2> QED BY <1>1, <1>5, <2>2 DEF QueueInv, CountInv
<1>9. EarlyInv'
  <2> SUFFICES ASSUME NEW p \in too_early, ~fault'
               PROVE  \E e \in feedback' : e.pass = p /\ e.n > 0 /\ e.early = TRUE /\ e.judged = FALSE
    BY <1>1 DEF EarlyInv
  <2>1. PICK e \in feedback : e.pass = p /\ e.n > 0 /\ e.early = TRUE /\ e.judged = FALSE
    BY <1>2 DEF QueueInv, EarlyInv
  <2>2. e # f
    <3> SUFFICES ASSUME e = f PROVE FALSE
      OBVIOUS
    <3>1. ReleasedEarly(f)
      BY <2>1 DEF ReleasedEarly
    <3> QED BY <1>2, <3>1
  <2> QED BY <1>1, <2>1, <2>2
<1>10. ReachedInv'
  BY <1>1, <1>2 DEF QueueInv, ReachedInv
<1>11. InOrder(ahead, passes, fence)'
  BY <1>1, <1>5 DEF QueueInv
<1>12. HeardInv'
  <2>1. ASSUME ~fault', NEW p \in DOMAIN passes, NEW n \in 1 .. passes[p].waits
        PROVE  event >= passes[p].from + n \/ ToJudge(p, n, feedback', ahead)
    <3>1. CASE f.pass = p /\ f.n = n
      <4>1. f.n > 0 /\ ~(event < passes[p].from + n)
        BY <1>2, <2>1, <3>1 DEF ReleasedEarly, Awaited
      <4>2. event \in Nat /\ passes[p].from \in Nat
        BY QueueParts DEF QueueInv, HeardInv
      <4> QED BY <4>1, <4>2
    <3>2. CASE ~(f.pass = p /\ f.n = n)
      <4>1. event >= passes[p].from + n \/ ToJudge(p, n, feedback, ahead)
        BY <1>2, <2>1 DEF QueueInv, HeardInv
      <4>2. ToJudge(p, n, feedback, ahead) => ToJudge(p, n, feedback', ahead)
        BY <1>1, <3>2 DEF ToJudge
      <4> QED BY <4>1, <4>2
    <3> QED BY <3>1, <3>2
  <2> QED BY <1>1, <1>5, <2>1 DEF QueueInv, HeardInv
<1> QED BY <1>6, <1>7, <1>8, <1>9, <1>10, <1>11, <1>12 DEF QueueInv

LEMMA CountQ == ASSUME QueueInv, NEW f \in feedback, Count(f) PROVE QueueInv'
<1>1. /\ UNCHANGED <<submitted, fence, too_early, feeding, feeder, passes, doing, of, pending,
                     recycled, completed, fault, event>>
      /\ f.judged /\ feedback' = feedback \ {f}
      /\ checked' = [checked EXCEPT ![f.pass] = IF f.n > 0 THEN @ + 1 ELSE @]
  BY DEF Count, gpuSide, feedSide, commitSide
<1>2. f \in Entry /\ f.pass \in DOMAIN passes /\ f.pass \in DOMAIN PassWaits /\ f.n =< passes[f.pass].waits
  BY QueueParts DEF QueueInv, HandlersInv, QueueTypeOK, Entry
<1>3. ahead' = ahead
  BY <1>1 DEF ahead
<1>4. checked \in [DOMAIN PassWaits -> Nat] /\ checked[f.pass] \in Nat
  BY <1>2 DEF QueueInv, QueueTypeOK
<1>5. /\ checked' \in [DOMAIN PassWaits -> Nat]
      /\ \A p \in DOMAIN PassWaits : p # f.pass \/ f.n = 0 => checked'[p] = checked[p]
      /\ f.n > 0 => checked'[f.pass] = checked[f.pass] + 1
  <2>1. f.n \in Nat
    BY <1>2 DEF Entry
  <2> DEFINE c == IF f.n > 0 THEN checked[f.pass] + 1 ELSE checked[f.pass]
  <2>2. c \in Nat /\ checked' = [checked EXCEPT ![f.pass] = c]
    BY <1>1, <1>4
  <2>3. /\ checked' \in [DOMAIN PassWaits -> Nat] /\ checked'[f.pass] = c
        /\ \A p \in DOMAIN PassWaits : p # f.pass => checked'[p] = checked[p]
    <3> HIDE DEF c
    <3> QED BY <1>2, <1>4, <2>2
  <2>4. f.n = 0 => c = checked[f.pass]
    BY <2>1
  <2>5. f.n > 0 => c = checked[f.pass] + 1
    OBVIOUS
  <2> HIDE DEF c
  <2> QED BY <2>3, <2>4, <2>5
<1>6. QueueTypeOK' /\ FeederInv'
  <2>1. QueueTypeOK'
    BY <1>1, <1>5 DEF QueueInv, QueueTypeOK
  <2>2. FeederInv'
    BY <1>1 DEF QueueInv, FeederInv
  <2> QED BY <2>1, <2>2
<1>7. HandlersInv'
  BY <1>1, <1>3 DEF QueueInv, HandlersInv
<1>8. CountInv'
  <2>1. ASSUME NEW p \in DOMAIN passes
        PROVE  checked'[p] + Cardinality(Open(p, passes, feedback', ahead)) =< passes[p].waits
    <3> DEFINE O1 == Open(p, passes, feedback, ahead)
               O2 == Open(p, passes, feedback', ahead)
    <3>1. O2 \in SUBSET O1
      BY <1>1 DEF Open
    <3>2. /\ passes[p].waits \in Nat /\ checked[p] \in Nat /\ p \in DOMAIN PassWaits
          /\ checked[p] + Cardinality(O1) =< passes[p].waits
      <4>1. p \in DOMAIN PassWaits
        BY QueueParts DEF QueueInv, QueueTypeOK
      <4> QED BY <1>4, <4>1, QueueParts DEF QueueInv, CountInv
    <3>3. /\ Cardinality(O2) \in Nat /\ Cardinality(O2) =< Cardinality(O1) /\ Cardinality(O1) \in Nat
          /\ IsFiniteSet(O1)
      <4>1. /\ Cardinality(O1) \in Nat /\ IsFiniteSet(O1)
            /\ \A T \in SUBSET O1 : Cardinality(T) \in Nat /\ Cardinality(T) =< Cardinality(O1)
        BY <3>2, OpenIs
      <4> HIDE DEF O1, O2
      <4> QED BY <3>1, <4>1
    <3>4. CASE p # f.pass \/ f.n = 0
      <4>1. checked'[p] = checked[p]
        BY <1>5, <3>2, <3>4
      <4> HIDE DEF O1, O2
      <4>2. checked[p] + Cardinality(O2) =< passes[p].waits
        BY <3>2, <3>3
      <4> QED BY <4>1, <4>2 DEF O2
    <3>5. CASE p = f.pass /\ f.n # 0
      <4>1. f.n \in Nat /\ f.n > 0 /\ checked'[p] = checked[p] + 1
        BY <1>2, <1>5, <3>5 DEF Entry
      <4>2. f.n \in O1
        BY <1>2, <3>2, <3>5, <4>1 DEF Open
      <4>3. f.n \notin O2
        <5>1. \A e \in feedback' : ~(e.pass = p /\ e.n = f.n)
          BY <1>1, <3>5 DEF QueueInv, HandlersInv
        <5>2. \A i \in 1 .. Len(ahead) : ~IsCmd(ahead[i], p, f.n)
          BY <3>5 DEF QueueInv, HandlersInv
        <5> QED BY <5>1, <5>2 DEF Open
      <4> HIDE DEF O1, O2
      <4>4. O2 \in SUBSET (O1 \ {f.n})
        BY <3>1, <4>3
      <4>5. IsFiniteSet(O1 \ {f.n}) /\ Cardinality(O1 \ {f.n}) = Cardinality(O1) - 1
        BY <3>3, <4>2, FS_RemoveElement
      <4>6. Cardinality(O2) =< Cardinality(O1 \ {f.n})
        BY <4>4, <4>5, FS_Subset
      <4>7. checked[p] + 1 + Cardinality(O2) =< passes[p].waits
        BY <3>2, <3>3, <4>5, <4>6
      <4> QED BY <4>1, <4>7 DEF O2
    <3> QED BY <3>4, <3>5
  <2>2. \A p \in DOMAIN PassWaits : p > Len(passes) => checked'[p] = 0
    <3>1. \A p \in DOMAIN PassWaits : p > Len(passes) => p # f.pass
      BY <1>2, QueueParts
    <3> QED BY <1>5, <3>1 DEF QueueInv, CountInv
  <2> QED BY <1>1, <1>3, <2>1, <2>2 DEF CountInv
<1>9. EarlyInv'
  <2> SUFFICES ASSUME NEW p \in too_early, ~fault
               PROVE  \E e \in feedback' : e.pass = p /\ e.n > 0 /\ e.early = TRUE /\ e.judged = FALSE
    BY <1>1 DEF EarlyInv
  <2>1. PICK e \in feedback : e.pass = p /\ e.n > 0 /\ e.early = TRUE /\ e.judged = FALSE
    BY DEF QueueInv, EarlyInv
  <2>2. e # f
    BY <1>1, <2>1
  <2> QED BY <1>1, <2>1, <2>2
<1>10. ReachedInv'
  BY <1>1 DEF QueueInv, ReachedInv
<1>11. InOrder(ahead, passes, fence)'
  BY <1>1, <1>3 DEF QueueInv
<1>12. HeardInv'
  <2>1. \A p, n : ToJudge(p, n, feedback, ahead) => ToJudge(p, n, feedback', ahead)
    BY <1>1 DEF ToJudge
  <2> QED BY <1>1, <1>3, <2>1 DEF QueueInv, HeardInv
<1> QED BY <1>6, <1>7, <1>8, <1>9, <1>10, <1>11, <1>12 DEF QueueInv

LEMMA StepQueue == QueueInv /\ [QueueNext]_queueVars => QueueInv'
<1> SUFFICES ASSUME QueueInv, [QueueNext]_queueVars PROVE QueueInv'
  OBVIOUS
<1>1. CASE \E gated, threads \in BOOLEAN : Commit(gated, threads)
  BY <1>1, CommitQ
<1>2. CASE Handlers
  BY <1>2, JudgeQ, CountQ DEF Handlers
<1>3. CASE FeederThread
  BY <1>3, FeedPartQ, FeedStopsQ, FeedFaultQ, FeedEndsQ DEF FeederThread
<1>4. CASE UNCHANGED queueVars
  <2>1. UNCHANGED <<submitted, fence, too_early, feeding, feeder, feedback, checked, passes, doing, of, pending,
                    recycled, completed, fault, event>>
    BY <1>4 DEF queueVars, gpuSide, feedSide, judgeSide, commitSide
  <2>2. ahead' = ahead
    BY <2>1 DEF ahead
  <2>3. QueueTypeOK' /\ FeederInv'
    BY <2>1 DEF QueueInv, QueueTypeOK, FeederInv
  <2>4. InOrder(ahead, passes, fence)' /\ HandlersInv' /\ CountInv' /\ EarlyInv' /\ HeardInv' /\ ReachedInv'
    BY <2>1, <2>2 DEF QueueInv, HandlersInv, CountInv, EarlyInv, HeardInv, ReachedInv
  <2> QED BY <2>3, <2>4 DEF QueueInv
<1>5. CASE StartCommit \/ StartWait \/ CommitFails \/ FedInline \/ JoinFeeder
  BY <1>5, StartCommitQ, StartWaitQ, CommitFailsQ, FedInlineQ, JoinQ
<1>6. CASE Milestone \/ Poll \/ Fence \/ Checks \/ DropPass
  BY <1>6, PollsQ, FenceQ, ChecksQ, DropQ
<1>7. CASE QueueGpu \/ HostSignal
  BY <1>7, GpuQ, HostSignalQ
<1> QED BY <1>1, <1>2, <1>3, <1>4, <1>5, <1>6, <1>7 DEF QueueNext, QueueHost

(* A wait that returns without error means that its pass ran to its end, is *)
(* signalled whatever it waited for, and is not known to have begun before  *)
(* it was; the fence is reached in order, at a fault too; and command       *)
(* memory is not reused under the GPU (QueueSafe), for any passes and waits.*)
THEOREM QueueIsSafe == QueueSpec => []QueueSafe
<1>1. QueueInit => QueueInv
  BY InitQueue
<1>2. QueueInv /\ [QueueNext]_queueVars => QueueInv'
  BY StepQueue
<1>3. QueueInv => QueueSafe
  BY QueueInvGives
<1> QED BY <1>1, <1>2, <1>3, PTL DEF QueueSpec
-----------------------------------------------------------------------------
(***************************************************************************)
(* Recorder                                                                *)
(***************************************************************************)

Mail    == {"row", "stop"} \cup HttpThreads
Working == {"write", "new", "receive", "more", "changes", "commit", "publish", "close"}

CountsOK ==
    /\ offered \in Nat /\ stored \in Nat /\ dropped \in Nat
    /\ lost \in Nat /\ waiting \in Nat /\ retry \in Nat

RecTypeOK ==
    /\ mail \in Seq(Mail) /\ changes \in Seq(HttpThreads) /\ CountsOK
    /\ http \in [HttpThreads -> {"idle", "send", "await", "made", "not made", "unknown"}]
    /\ claim \in [HttpThreads -> {"pending", "taken", "abandoned"}]
    /\ reply \in [HttpThreads -> {"none", "made", "not made"}]
    /\ rec_at \in Working \cup {"opening", "opened", "backoff", "ending", "counted", "gone"}
    /\ making \in HttpThreads \cup {NoRow} /\ made \subseteq HttpThreads

(* The batch that failed is written before a new one may fail. *)
RowsInv == RowsAccounted /\ (rec_at = "new" => retry = 0)

(* A change is made only while its claim stands, and the claim of one that  *)
(* is answered as not made is gone, or nobody holds the change any more.    *)
Sent(h) == h \in Range(mail) \cup Range(changes)

ThreadInv(h) ==
    /\ http[h] \in {"idle", "send"} => ~Sent(h) /\ claim[h] = "pending"
    /\ claim[h] = "pending" => h \notin made /\ making # h /\ reply[h] = "none"
    /\ http[h] = "not made" => h \notin made /\ making # h /\ (claim[h] = "pending" => ~Sent(h))
    /\ reply[h] = "not made" => h \notin made /\ making # h
    /\ reply[h] = "made" \/ http[h] = "made" => h \in made
    /\ h \in made => http[h] # "await" \/ reply[h] = "made" \/ making = h

MakingInv ==
    /\ making # NoRow <=> rec_at \in {"commit", "publish"}
    /\ rec_at = "commit" => making \notin made
    /\ rec_at = "publish" => making \in made

(* The override a row stands for. *)
Applied(r) == IF r \in SettingValues THEN r ELSE NoRow

(* Nobody has asked for a change: nobody does before the database is open,  *)
(* nor when the settings in it could not be read.                           *)
NobodyAsked ==
    /\ \A h \in HttpThreads : http[h] \in {"idle", "not made"} /\ ~Sent(h)
    /\ making = NoRow

SettingInv ==
    /\ (rec_phase = "open" \/ rec_at = "opened") /\ ~unreadable /\ rec_at # "publish" => override = Applied(row)
    /\ rec_at \in {"opening", "opened", "backoff"} => rec_phase = "opening"
    /\ rec_at \in Working => rec_phase = "open"
    /\ rec_phase = "opening" \/ unreadable => NobodyAsked
    /\ rec_at = "commit" => plan.override = Applied(plan.row)
    /\ rec_at = "publish" => plan.override = Applied(row)

RecInv == RecTypeOK /\ RowsInv /\ MakingInv /\ SettingInv /\ \A h \in HttpThreads : ThreadInv(h)

------------------------------------------------------------------------------
(* Facts about the channel. *)

LEMMA RangeOfAppend ==
    ASSUME NEW S, NEW s \in Seq(S), NEW x \in S
    PROVE  Append(s, x) \in Seq(S) /\ Range(Append(s, x)) = Range(s) \cup {x}
  <1>1. /\ DOMAIN s = 1 .. Len(s) /\ Len(s) \in Nat
        /\ DOMAIN Append(s, x) = 1 .. Len(s) + 1 /\ Append(s, x) \in Seq(S)
        /\ \A i \in 1 .. Len(s) : Append(s, x)[i] = s[i]
        /\ Append(s, x)[Len(s) + 1] = x
    BY AppendProperties, LenProperties
  <1> QED BY <1>1 DEF Range

LEMMA RangeOfTail ==
    ASSUME NEW S, NEW s \in Seq(S), s # <<>>
    PROVE  /\ Tail(s) \in Seq(S) /\ Head(s) \in S
           /\ Range(s) = {Head(s)} \cup Range(Tail(s))
  <1>1. /\ DOMAIN s = 1 .. Len(s) /\ Len(s) \in Nat \ {0} /\ Head(s) = s[1]
        /\ DOMAIN Tail(s) = 1 .. Len(s) - 1 /\ Tail(s) \in Seq(S) /\ Head(s) \in S
        /\ \A i \in 1 .. Len(s) - 1 : Tail(s)[i] = s[i + 1]
    BY HeadTailProperties, LenProperties, EmptySeq
  <1>2. \A i \in 2 .. Len(s) : i - 1 \in 1 .. Len(s) - 1 /\ Tail(s)[i - 1] = s[i]
    BY <1>1
  <1>3. ASSUME NEW x \in Range(s) PROVE x \in {Head(s)} \cup Range(Tail(s))
    <2>1. PICK i \in 1 .. Len(s) : x = s[i]
      BY <1>1, <1>3 DEF Range
    <2>2. CASE i = 1
      BY <2>1, <2>2, <1>1
    <2>3. CASE i # 1
      <3>1. i \in 2 .. Len(s)
        BY <2>3, <1>1
      <3> QED BY <3>1, <2>1, <1>1, <1>2 DEF Range
    <2> QED BY <2>2, <2>3
  <1>4. Head(s) \in Range(s) /\ Range(Tail(s)) \subseteq Range(s)
    BY <1>1 DEF Range
  <1> QED BY <1>1, <1>3, <1>4

RowsAt(s) == {i \in DOMAIN s : s[i] = "row"}

LEMMA RowsFinite ==
    ASSUME NEW S, NEW s \in Seq(S)
    PROVE  IsFiniteSet(RowsAt(s)) /\ Cardinality(RowsAt(s)) \in Nat
  <1>1. DOMAIN s = 1 .. Len(s) /\ Len(s) \in Nat
    BY LenProperties
  <1>2. IsFiniteSet(1 .. Len(s))
    BY <1>1, FS_Interval
  <1>3. IsFiniteSet(RowsAt(s))
    BY <1>1, <1>2, FS_Subset DEF RowsAt
  <1> QED BY <1>3, FS_CardinalityType

LEMMA NoRowsInNone == Cardinality(RowsAt(<<>>)) = 0
  BY FS_EmptySet, LenProperties DEF RowsAt

LEMMA RowsOfAppend ==
    ASSUME NEW S, NEW s \in Seq(S), NEW x \in S
    PROVE  Cardinality(RowsAt(Append(s, x))) = Cardinality(RowsAt(s)) + (IF x = "row" THEN 1 ELSE 0)
  <1>1. /\ DOMAIN s = 1 .. Len(s) /\ Len(s) \in Nat
        /\ DOMAIN Append(s, x) = 1 .. Len(s) + 1
        /\ \A i \in 1 .. Len(s) : Append(s, x)[i] = s[i]
        /\ Append(s, x)[Len(s) + 1] = x
    BY AppendProperties, LenProperties
  <1>2. RowsAt(Append(s, x)) = IF x = "row" THEN RowsAt(s) \cup {Len(s) + 1} ELSE RowsAt(s)
    BY <1>1 DEF RowsAt
  <1>3. Len(s) + 1 \notin RowsAt(s)
    BY <1>1 DEF RowsAt
  <1>4. IsFiniteSet(RowsAt(s)) /\ Cardinality(RowsAt(s)) \in Nat
    BY RowsFinite
  <1>5. Cardinality(RowsAt(s) \cup {Len(s) + 1}) = Cardinality(RowsAt(s)) + 1
    BY <1>3, <1>4, FS_AddElement
  <1> QED BY <1>2, <1>4, <1>5

LEMMA RowsOfTail ==
    ASSUME NEW S, NEW s \in Seq(S), s # <<>>
    PROVE  Cardinality(RowsAt(s)) = Cardinality(RowsAt(Tail(s))) + (IF Head(s) = "row" THEN 1 ELSE 0)
  <1> DEFINE T == RowsAt(s) \ {1}
             U == RowsAt(Tail(s))
             f == [i \in U |-> i + 1]
  <1>1. /\ DOMAIN s = 1 .. Len(s) /\ Len(s) \in Nat \ {0} /\ Head(s) = s[1]
        /\ DOMAIN Tail(s) = 1 .. Len(s) - 1 /\ Tail(s) \in Seq(S)
        /\ \A i \in 1 .. Len(s) - 1 : Tail(s)[i] = s[i + 1]
    BY HeadTailProperties, LenProperties, EmptySeq
  <1>2. U \subseteq 1 .. Len(s) - 1 /\ T \subseteq 2 .. Len(s)
    BY <1>1 DEF RowsAt
  <1>3. \A i \in U : i + 1 \in T
    BY <1>1, <1>2 DEF RowsAt
  <1>4. \A j \in T : j - 1 \in U
    BY <1>1, <1>2 DEF RowsAt
  <1>5. f \in Bijection(U, T)
    <2>1. f \in Injection(U, T)
      BY <1>2, <1>3 DEF Injection, IsInjective
    <2>2. ASSUME NEW j \in T PROVE \E i \in U : f[i] = j
      <3>1. j - 1 \in U /\ j \in Int
        BY <1>2, <1>4
      <3>2. f[j - 1] = j
        BY <3>1
      <3> QED BY <3>1, <3>2
    <2> QED BY <2>1, <2>2, <1>3 DEF Bijection, Surjection
  <1>6. IsFiniteSet(U) /\ Cardinality(U) \in Nat /\ IsFiniteSet(RowsAt(s)) /\ Cardinality(RowsAt(s)) \in Nat
    BY <1>1, RowsFinite
  <1>7. Cardinality(T) = Cardinality(U)
    BY <1>5, <1>6, FS_Bijection DEF ExistsBijection
  <1>8. 1 \in RowsAt(s) <=> Head(s) = "row"
    BY <1>1 DEF RowsAt
  <1>9. Cardinality(T) = IF 1 \in RowsAt(s) THEN Cardinality(RowsAt(s)) - 1 ELSE Cardinality(RowsAt(s))
    BY <1>6, FS_RemoveElement
  <1> HIDE DEF T, U, f
  <1> QED BY <1>6, <1>7, <1>8, <1>9 DEF U

------------------------------------------------------------------------------
LEMMA Sums ==
    ASSUME RecInv
    PROVE  /\ CountsOK /\ QueuedRows \in Nat /\ offered = Settled + OnTheirWay
           /\ Settled \in Nat /\ OnTheirWay \in Nat
           /\ rec_at = "new" => retry = 0
  <1>1. CountsOK /\ QueuedRows \in Nat
    BY RowsFinite DEF RecInv, RecTypeOK, QueuedRows, RowsAt
  <1>2. Settled \in Nat /\ OnTheirWay \in Nat
    BY <1>1 DEF CountsOK, Settled, OnTheirWay
  <1> QED BY <1>1, <1>2 DEF RecInv, RecTypeOK, RowsInv, RowsAccounted

LEMMA Channels == RecInv => mail \in Seq(Mail) /\ changes \in Seq(HttpThreads)
  BY DEF RecInv, RecTypeOK

LEMMA Regroup == \A a, b, c, d, e, f \in Nat : b + d = e + f => (a + b) + (c + d) = (a + e) + (c + f)
  OBVIOUS

(* Rows that are settled, and rows that are on their way, as they were. *)
LEMMA SumsKept ==
    ASSUME RecInv, UNCHANGED offered, Settled' + OnTheirWay' = Settled + OnTheirWay, rec_at' = "new" => retry' = 0
    PROVE  RowsInv'
  BY Sums DEF RowsInv, RowsAccounted

LEMMA InitRec == RecInit => RecInv
  <1> SUFFICES ASSUME RecInit PROVE RecInv
    OBVIOUS
  <1>1. Range(mail) = {} /\ Range(changes) = {} /\ mail \in Seq(Mail) /\ changes \in Seq(HttpThreads)
    <2>1. DOMAIN <<>> = {}
      OBVIOUS
    <2> QED BY <2>1, EmptySeq DEF RecInit, Range
  <1>2. QueuedRows = 0
    BY NoRowsInNone DEF RecInit, QueuedRows, RowsAt
  <1>3. making \notin HttpThreads /\ making = NoRow
    BY RecorderAssumption DEF RecInit, RecorderAssumption
  <1>4. \A h \in HttpThreads : ~Sent(h)
    BY <1>1 DEF Sent
  <1>5. ~(rec_phase = "open" \/ rec_at = "opened") /\ ~unreadable
    BY DEF RecInit
  <1>6. SettingInv
    <2>1. NobodyAsked
      BY <1>3, <1>4 DEF RecInit, NobodyAsked
    <2>2. rec_at = "opening" /\ rec_phase = "opening"
      BY DEF RecInit
    <2> QED BY <1>5, <2>1, <2>2 DEF SettingInv, Working
  <1>7. RecTypeOK
    BY <1>1, <1>3 DEF RecInit, RecTypeOK, CountsOK
  <1>8. RowsInv
    BY <1>2 DEF RecInit, RowsInv, RowsAccounted, Settled, OnTheirWay
  <1>9. MakingInv /\ \A h \in HttpThreads : ThreadInv(h)
    BY <1>3, <1>4 DEF RecInit, MakingInv, ThreadInv
  <1> QED BY <1>6, <1>7, <1>8, <1>9 DEF RecInv

(* A step that changes nothing a setting or an HTTP thread goes by, and     *)
(* only takes the thread on between the places outside a change.            *)
RecorderQuiet ==
    /\ UNCHANGED <<http, claim, reply, made, making, plan, rec_phase, unreadable, row, override>>
    /\ \A h \in HttpThreads : Sent(h)' => Sent(h)
    /\ \/ rec_at' = rec_at
       \/ /\ rec_at \notin {"commit", "publish"}
          /\ \/ rec_at' \in {"ending", "counted"}
             \/ {rec_at, rec_at'} \subseteq Working \ {"commit", "publish"}
             \/ {rec_at, rec_at'} \subseteq {"opening", "backoff"}

LEMMA QuietKeeps ==
    ASSUME RecInv, RecorderQuiet
    PROVE  MakingInv' /\ SettingInv' /\ \A h \in HttpThreads : ThreadInv(h)'
  <1>1. MakingInv'
    BY DEF RecInv, RecorderQuiet, MakingInv, Working
  <1>2. NobodyAsked => NobodyAsked'
    BY DEF NobodyAsked, RecorderQuiet
  <1>3. SettingInv'
    BY <1>2 DEF RecInv, RecorderQuiet, SettingInv, Working, Applied
  <1>4. ASSUME NEW h \in HttpThreads PROVE ThreadInv(h)'
    <2>1. ThreadInv(h) /\ (Sent(h)' => Sent(h)) /\ UNCHANGED <<http, claim, reply, made, making>>
      BY DEF RecInv, RecorderQuiet
    <2> QED BY <2>1 DEF ThreadInv
  <1> QED BY <1>1, <1>3, <1>4

(* What a channel that was read, or written with something that is not a    *)
(* change, holds of changes.                                                *)
LEMMA MailKeeps ==
    ASSUME RecInv, UNCHANGED changes,
           \/ UNCHANGED mail
           \/ \E x \in {"row", "stop"} : mail' = Append(mail, x)
           \/ mail' = <<>>
    PROVE  /\ \A h \in HttpThreads : Sent(h)' => Sent(h)
           /\ mail' \in Seq(Mail)
  <1>1. mail \in Seq(Mail) /\ {"row", "stop"} \subseteq Mail /\ HttpThreads \cap {"row", "stop"} = {}
    BY RecorderAssumption DEF RecInv, RecTypeOK, Mail, RecorderAssumption
  <1>2. CASE UNCHANGED mail
    BY <1>1, <1>2 DEF Sent
  <1>3. CASE \E x \in {"row", "stop"} : mail' = Append(mail, x)
    <2>1. PICK x \in {"row", "stop"} : mail' = Append(mail, x)
      BY <1>3
    <2>2. Range(mail') = Range(mail) \cup {x} /\ mail' \in Seq(Mail)
      BY <1>1, <2>1, RangeOfAppend
    <2> QED BY <1>1, <2>1, <2>2 DEF Sent
  <1>4. CASE mail' = <<>>
    <2>1. Range(mail') = {}
      BY <1>4 DEF Range
    <2> QED BY <1>4, <2>1, EmptySeq DEF Sent
  <1> QED BY <1>2, <1>3, <1>4

(* What Take does. *)
LEMMA TakeDoes ==
    ASSUME RecInv, NEW cap \in Nat, Take(cap)
    PROVE  /\ mail' \in Seq(Mail) /\ changes' \in Seq(HttpThreads)
           /\ \A h \in HttpThreads : Sent(h)' => Sent(h)
           /\ waiting' \in Nat /\ dropped' \in Nat
           /\ waiting' + dropped' + QueuedRows' = waiting + dropped + QueuedRows
  <1> DEFINE msg == Head(mail)
  <1>1. /\ mail \in Seq(Mail) /\ mail # <<>> /\ mail' = Tail(mail) /\ changes \in Seq(HttpThreads)
        /\ waiting \in Nat /\ dropped \in Nat /\ HttpThreads \cap {"row", "stop"} = {}
    BY RecorderAssumption, Sums, Channels DEF CountsOK, Take, RecorderAssumption
  <1>2. mail' \in Seq(Mail) /\ Range(mail) = {msg} \cup Range(mail') /\ msg \in Mail
    BY <1>1, RangeOfTail
  <1>3. changes' = IF msg \in HttpThreads THEN Append(changes, msg) ELSE changes
    BY DEF Take
  <1>4. changes' \in Seq(HttpThreads) /\ Range(changes') \subseteq Range(changes) \cup {msg}
    <2>1. CASE msg \in HttpThreads
      BY <2>1, <1>1, <1>3, RangeOfAppend
    <2>2. CASE msg \notin HttpThreads
      BY <2>2, <1>1, <1>3
    <2> QED BY <2>1, <2>2
  <1>5. QueuedRows = QueuedRows' + (IF msg = "row" THEN 1 ELSE 0) /\ QueuedRows' \in Nat
    BY <1>1, <1>2, RowsOfTail, RowsFinite DEF QueuedRows, RowsAt
  <1>6. /\ waiting' = IF msg = "row" /\ waiting < cap THEN waiting + 1 ELSE waiting
        /\ dropped' = IF msg = "row" /\ waiting >= cap THEN dropped + 1 ELSE dropped
    BY DEF Take
  <1>7. \A h \in HttpThreads : Sent(h)' => Sent(h)
    BY <1>2, <1>4 DEF Sent
  <1>8. waiting' \in Nat /\ dropped' \in Nat /\ waiting' + dropped' + QueuedRows' = waiting + dropped + QueuedRows
    <2>1. CASE msg # "row"
      BY <2>1, <1>1, <1>5, <1>6
    <2>2. CASE msg = "row" /\ waiting < cap
      BY <2>2, <1>1, <1>5, <1>6
    <2>3. CASE msg = "row" /\ waiting >= cap
      BY <2>3, <1>1, <1>5, <1>6
    <2> QED BY <2>1, <2>2, <2>3, <1>1
  <1> QED BY <1>2, <1>4, <1>7, <1>8

------------------------------------------------------------------------------
(* The steps that handle rows and the stop. *)

(* The parts that a quiet step still has to show. *)
LEMMA QuietStep ==
    ASSUME RecInv, RecorderQuiet, RowsInv',
           mail' \in Seq(Mail), changes' \in Seq(HttpThreads), CountsOK'
    PROVE  RecInv'
  <1>1. rec_at' \in Working \cup {"opening", "opened", "backoff", "ending", "counted", "gone"}
    BY DEF RecInv, RecTypeOK, RecorderQuiet
  <1>2. RecTypeOK'
    BY <1>1 DEF RecInv, RecTypeOK, RecorderQuiet
  <1> QED BY <1>2, QuietKeeps DEF RecInv

LEMMA Offering == ASSUME RecInv, OfferRow PROVE RecInv'
  <1>1. mail \in Seq(Mail) /\ "row" \in Mail
    BY DEF RecInv, RecTypeOK, Mail
  <1>2. UNCHANGED <<stored, waiting, retry, changes, rec_at>> /\ offered' = offered + 1
    BY DEF OfferRow, threadVars
  <1>3. \/ dropped' = dropped + 1 /\ UNCHANGED <<mail, lost>>
        \/ lost' = lost + 1 /\ UNCHANGED <<mail, dropped>>
        \/ mail' = Append(mail, "row") /\ UNCHANGED <<dropped, lost>>
    BY DEF OfferRow
  <1>4. (\A h \in HttpThreads : Sent(h)' => Sent(h)) /\ mail' \in Seq(Mail)
    BY <1>2, <1>3, MailKeeps
  <1>5. RecorderQuiet
    BY <1>4 DEF OfferRow, RecorderQuiet, threadVars, healthVars, settingVars, httpVars
  <1>6. /\ UNCHANGED mail => QueuedRows' = QueuedRows
        /\ mail' = Append(mail, "row") => QueuedRows' = QueuedRows + 1
    BY <1>1, RowsOfAppend DEF QueuedRows, RowsAt
  <1>7. QueuedRows \in Nat
    BY <1>1, RowsFinite DEF QueuedRows, RowsAt
  <1>8. CountsOK'
    BY SMTT(20), <1>2, <1>3, Sums DEF CountsOK
  <1>9. RowsInv'
    <2>0. \/ dropped' = dropped + 1 /\ lost' = lost /\ QueuedRows' = QueuedRows
          \/ lost' = lost + 1 /\ dropped' = dropped /\ QueuedRows' = QueuedRows
          \/ QueuedRows' = QueuedRows + 1 /\ lost' = lost /\ dropped' = dropped
      BY <1>3, <1>6
    <2>1. \/ Settled' = Settled + 1 /\ OnTheirWay' = OnTheirWay
          \/ Settled' = Settled /\ OnTheirWay' = OnTheirWay + 1
      BY <2>0, <1>2, Sums DEF CountsOK, Settled, OnTheirWay
    <2> QED BY <2>1, <1>2, Sums DEF CountsOK, RowsInv, RowsAccounted
  <1> QED BY <1>2, <1>4, <1>5, <1>8, <1>9, QuietStep, Channels

(* Steps that leave the mail's rows and every count alone. *)
LEMMA CountsKept ==
    ASSUME RecInv, RecorderQuiet, UNCHANGED <<rowVars, changes>>, mail' \in Seq(Mail), QueuedRows' = QueuedRows,
           rec_at' = "new" => rec_at = "new"
    PROVE  RecInv'
  <1>1. Settled' = Settled /\ OnTheirWay' = OnTheirWay /\ CountsOK'
    BY Sums DEF rowVars, Settled, OnTheirWay, CountsOK
  <1>2. RowsInv'
    BY <1>1, SumsKept, Sums DEF rowVars
  <1> QED BY <1>1, <1>2, QuietStep, Channels

LEMMA Stopping == ASSUME RecInv, SendStop PROVE RecInv'
  <1>1. UNCHANGED <<rowVars, changes, rec_at>> /\ (UNCHANGED mail \/ mail' = Append(mail, "stop"))
    BY DEF SendStop, threadVars
  <1>2. (\A h \in HttpThreads : Sent(h)' => Sent(h)) /\ mail' \in Seq(Mail)
    BY <1>1, MailKeeps
  <1>3. RecorderQuiet
    BY <1>2 DEF SendStop, RecorderQuiet, threadVars, healthVars, settingVars, httpVars
  <1>4. QueuedRows' = QueuedRows
    <2>1. mail \in Seq(Mail) /\ "stop" \in Mail /\ "stop" # "row" /\ QueuedRows \in Nat
      BY RowsFinite DEF RecInv, RecTypeOK, Mail, QueuedRows, RowsAt
    <2> QED BY <2>1, <1>1, RowsOfAppend DEF QueuedRows, RowsAt
  <1> QED BY <1>1, <1>2, <1>3, <1>4, CountsKept

(* Between two places outside a change, nothing else touched. *)
LEMMA Moving ==
    ASSUME RecInv, UNCHANGED <<mail, rowVars, changes, making, plan, healthVars, settingVars, httpVars, made>>,
           rec_at \notin {"commit", "publish"}, rec_at' # "new",
           \/ rec_at' = "ending"
           \/ {rec_at, rec_at'} \subseteq Working \ {"commit", "publish"}
           \/ {rec_at, rec_at'} \subseteq {"opening", "backoff"}
    PROVE  RecInv'
  <1>1. mail' \in Seq(Mail) /\ QueuedRows' = QueuedRows
    BY DEF RecInv, RecTypeOK, QueuedRows
  <1>2. RecorderQuiet
    BY DEF RecorderQuiet, healthVars, settingVars, httpVars, Sent
  <1> QED BY <1>1, <1>2, CountsKept

LEMMA Moves == ASSUME RecInv, OpenFails \/ NothingNew \/ LoopAgain PROVE RecInv'
  <1>1. CASE OpenFails
    <2>1. UNCHANGED <<mail, rowVars, changes, making, plan, healthVars, settingVars, httpVars, made>>
      BY <1>1 DEF OpenFails, healthVars
    <2> QED BY <1>1, <2>1, Moving DEF OpenFails
  <1>2. CASE NothingNew
    BY <1>2, Moving DEF NothingNew, Working
  <1>3. CASE LoopAgain
    BY <1>3, Moving DEF LoopAgain, Onward, Working
  <1> QED BY <1>1, <1>2, <1>3

(* The rows that wait are counted as dropped. *)
LEMMA WaitingDropped ==
    ASSUME RecInv, dropped' = dropped + waiting, waiting' = 0,
           UNCHANGED <<mail, offered, stored, lost, retry>>, rec_at' # "new"
    PROVE  RowsInv' /\ CountsOK'
  <1>1. QueuedRows' = QueuedRows
    BY DEF QueuedRows
  <1>2. CountsOK'
    BY Sums DEF CountsOK
  <1>3. Settled' = Settled + waiting /\ OnTheirWay' = OnTheirWay - waiting
    BY <1>1, Sums DEF CountsOK, Settled, OnTheirWay
  <1>4. waiting \in Nat
    BY Sums DEF CountsOK
  <1>5. Settled' + OnTheirWay' = Settled + OnTheirWay
    BY <1>3, <1>4, Sums
  <1> QED BY <1>2, <1>5, SumsKept

LEMMA Taking ==
    ASSUME RecInv, NEW cap \in Nat, Take(cap), rec_at' # "new",
           \/ rec_at' = rec_at
           \/ {rec_at, rec_at'} \subseteq Working \ {"commit", "publish"}
    PROVE  RecInv'
  <1>1. /\ mail' \in Seq(Mail) /\ changes' \in Seq(HttpThreads)
        /\ \A h \in HttpThreads : Sent(h)' => Sent(h)
    BY TakeDoes
  <1>a. /\ waiting' \in Nat /\ dropped' \in Nat
        /\ waiting' + dropped' + QueuedRows' = waiting + dropped + QueuedRows
    BY TakeDoes
  <1>2. RecorderQuiet
    BY <1>1 DEF Take, RecorderQuiet, healthVars, settingVars, httpVars
  <1>3. QueuedRows' \in Nat
    BY <1>1, RowsFinite DEF QueuedRows, RowsAt
  <1>4. UNCHANGED <<offered, stored, lost, retry>>
    BY DEF Take
  <1>5. CountsOK'
    BY <1>a, <1>4, Sums DEF CountsOK
  <1>6. Settled' + OnTheirWay' = Settled + OnTheirWay
    <2>1. /\ Settled' = (stored + lost) + dropped' /\ Settled = (stored + lost) + dropped
          /\ stored + lost \in Nat /\ dropped \in Nat /\ dropped' \in Nat
      BY <1>a, <1>4, Sums DEF CountsOK, Settled
    <2>2. /\ OnTheirWay' = retry + (waiting' + QueuedRows') /\ OnTheirWay = retry + (waiting + QueuedRows)
          /\ retry \in Nat /\ waiting + QueuedRows \in Nat /\ waiting' + QueuedRows' \in Nat
      <3>1. retry' = retry /\ retry \in Nat /\ waiting \in Nat /\ QueuedRows \in Nat
        BY <1>4, Sums DEF CountsOK
      <3>2. waiting' \in Nat
        BY <1>a
      <3>3. OnTheirWay' = waiting' + retry' + QueuedRows' /\ OnTheirWay = waiting + retry + QueuedRows
        BY DEF OnTheirWay
      <3>4. \A a, b, c \in Nat : a + b + c = b + (a + c) /\ a + c \in Nat
        OBVIOUS
      <3> QED BY ZenonT(30), <1>3, <3>1, <3>2, <3>3, <3>4
    <2>3. dropped' + (waiting' + QueuedRows') = dropped + (waiting + QueuedRows)
      BY <1>a, <1>3, Sums DEF CountsOK
    <2> QED BY <2>1, <2>2, <2>3, Regroup
  <1>7. RowsInv'
    BY <1>4, <1>6, SumsKept
  <1> QED BY <1>1, <1>2, <1>5, <1>7, QuietStep

LEMMA Receiving == ASSUME RecInv, Backoff \/ Receive PROVE RecInv'
  <1>0. ChannelRoom \in Nat /\ BatchRows \in Nat
    BY RecorderAssumption DEF RecorderAssumption
  <1>1. CASE rec_at = "backoff" /\ Take(ChannelRoom) /\ UNCHANGED rec_at
    BY <1>0, <1>1, Taking
  <1>2. CASE rec_at = "backoff" /\ rec_at' = "opening"
             /\ UNCHANGED <<mail, rowVars, changes, stopping, making, plan, healthVars, settingVars, httpVars, made,
                            misfortunes>>
    BY <1>2, Moving
  <1>3. CASE /\ rec_at = "backoff" /\ rec_at' = "ending" /\ dropped' = dropped + waiting /\ waiting' = 0
             /\ UNCHANGED <<mail, offered, stored, lost, retry, changes, stopping, making, plan, healthVars,
                            settingVars, httpVars, made, misfortunes>>
    <2>1. RecorderQuiet
      BY <1>3 DEF RecorderQuiet, healthVars, settingVars, httpVars, Sent
    <2>2. RowsInv' /\ CountsOK'
      BY <1>3, WaitingDropped
    <2> QED BY <1>3, <2>1, <2>2, QuietStep, Channels
  <1>4. CASE rec_at \in {"receive", "more"} /\ Take(BatchRows) /\ rec_at' \in {"write", "more"}
    BY <1>0, <1>4, Taking DEF Working
  <1>5. CASE rec_at \in {"receive", "more"} /\ rec_at' = "write"
             /\ UNCHANGED <<mail, rowVars, changes, stopping, making, plan, healthVars, settingVars, httpVars, made,
                            misfortunes>>
    BY <1>5, Moving DEF Working
  <1>6. Backoff => \/ rec_at = "backoff" /\ Take(ChannelRoom) /\ UNCHANGED rec_at
                   \/ rec_at = "backoff" /\ rec_at' = "opening"
                      /\ UNCHANGED <<mail, rowVars, changes, stopping, making, plan, healthVars, settingVars,
                                     httpVars, made, misfortunes>>
                   \/ /\ rec_at = "backoff" /\ rec_at' = "ending" /\ dropped' = dropped + waiting /\ waiting' = 0
                      /\ UNCHANGED <<mail, offered, stored, lost, retry, changes, stopping, making, plan,
                                     healthVars, settingVars, httpVars, made, misfortunes>>
    BY DEF Backoff
  <1>7. Receive => \/ rec_at \in {"receive", "more"} /\ Take(BatchRows) /\ rec_at' \in {"write", "more"}
                   \/ rec_at \in {"receive", "more"} /\ rec_at' = "write"
                      /\ UNCHANGED <<mail, rowVars, changes, stopping, making, plan, healthVars, settingVars,
                                     httpVars, made, misfortunes>>
    BY DEF Receive
  <1> QED BY <1>1, <1>2, <1>3, <1>4, <1>5, <1>6, <1>7

(* Writing: the rows of a batch are stored, or kept for once more, or       *)
(* counted, whatever fails.                                                 *)
LEMMA Writing == ASSUME RecInv, WriteOld \/ WriteNew \/ Close PROVE RecInv'
  <1>1. QueuedRows' = QueuedRows /\ UNCHANGED <<mail, offered, lost, changes>>
    BY DEF QueuedRows, WriteOld, WriteNew, Close, WriteRetry
  <1>2. RecorderQuiet
    BY DEF WriteOld, WriteNew, Close, WriteRetry, RecorderQuiet, healthVars, settingVars, httpVars, Sent, Working
  <1>3. ASSUME NEW n \in Nat, Written(n)
        PROVE  /\ stored' \in Nat /\ dropped' \in Nat /\ stored' + dropped' = stored + dropped + n
    <2>1. CASE stored' = stored + n /\ UNCHANGED dropped
      BY <2>1, Sums DEF CountsOK
    <2>2. CASE n > 0 /\ stored' = stored + n - 1 /\ dropped' = dropped + 1
      BY <2>2, Sums DEF CountsOK
    <2> QED BY <1>3, <2>1, <2>2 DEF Written
  <1>4. CASE WriteOld \/ Close
    <2>1. retry' = 0 /\ UNCHANGED waiting /\ retry \in Nat /\ rec_at' \in {"new", "ending"}
      BY <1>4, Sums DEF WriteOld, Close, WriteRetry, CountsOK
    <2>2. stored' \in Nat /\ dropped' \in Nat /\ stored' + dropped' = stored + dropped + retry
      <3>1. CASE Written(retry)
        BY <3>1, <1>3, <2>1
      <3>2. CASE dropped' = dropped + retry /\ UNCHANGED stored
        BY <3>2, Sums DEF CountsOK
      <3> QED BY <1>4, <3>1, <3>2 DEF WriteOld, Close, WriteRetry
    <2>3. Settled' = Settled + retry /\ OnTheirWay' = OnTheirWay - retry
      BY <1>1, <2>1, <2>2, Sums DEF CountsOK, Settled, OnTheirWay
    <2>4. Settled' + OnTheirWay' = Settled + OnTheirWay
      BY <2>1, <2>3, Sums
    <2>5. RowsInv' /\ CountsOK'
      BY <1>1, <2>1, <2>2, <2>4, SumsKept, Sums DEF CountsOK
    <2> QED BY <1>1, <1>2, <2>5, QuietStep, Channels
  <1>5. CASE WriteNew
    <2>1. waiting' = 0 /\ rec_at' = "changes" /\ retry = 0 /\ waiting \in Nat
      BY <1>5, Sums DEF WriteNew, CountsOK
    <2>2. CASE Written(waiting) /\ UNCHANGED retry
      <3>1. stored' \in Nat /\ dropped' \in Nat /\ stored' + dropped' = stored + dropped + waiting
        BY <2>2, <1>3, <2>1
      <3>2. Settled' = Settled + waiting /\ OnTheirWay' = OnTheirWay - waiting
        BY <1>1, <2>1, <2>2, <3>1, Sums DEF CountsOK, Settled, OnTheirWay
      <3>3. Settled' + OnTheirWay' = Settled + OnTheirWay
        BY <2>1, <3>2, Sums
      <3>4. RowsInv' /\ CountsOK'
        BY <1>1, <2>1, <2>2, <3>1, <3>3, SumsKept, Sums DEF CountsOK
      <3> QED BY <1>1, <1>2, <3>4, QuietStep, Channels
    <2>3. CASE retry' = waiting /\ UNCHANGED <<stored, dropped>>
      <3>1. Settled' = Settled /\ OnTheirWay' = OnTheirWay
        BY <1>1, <2>1, <2>3, Sums DEF CountsOK, Settled, OnTheirWay
      <3>2. RowsInv' /\ CountsOK'
        BY <1>1, <2>1, <2>3, <3>1, SumsKept, Sums DEF CountsOK
      <3> QED BY <1>1, <1>2, <3>2, QuietStep, Channels
    <2> QED BY <1>5, <2>2, <2>3 DEF WriteNew
  <1> QED BY <1>4, <1>5

LEMMA Counting == ASSUME RecInv, CountQueued PROVE RecInv'
  <1>1. UNCHANGED changes /\ mail' = <<>>
    BY DEF CountQueued
  <1>a. UNCHANGED <<offered, stored, lost, waiting, retry>> /\ dropped' = dropped + QueuedRows /\ rec_at' = "counted"
    BY DEF CountQueued
  <1>2. (\A h \in HttpThreads : Sent(h)' => Sent(h)) /\ mail' \in Seq(Mail)
    BY <1>1, MailKeeps
  <1>3. RecorderQuiet
    BY <1>2 DEF CountQueued, RecorderQuiet, healthVars, settingVars, httpVars
  <1>4. QueuedRows' = 0
    BY <1>1, NoRowsInNone DEF QueuedRows, RowsAt
  <1>5. CountsOK'
    BY <1>a, Sums DEF CountsOK
  <1>6. Settled' = Settled + QueuedRows /\ OnTheirWay' = OnTheirWay - QueuedRows
    BY <1>a, <1>4, Sums DEF CountsOK, Settled, OnTheirWay
  <1>7. Settled' + OnTheirWay' = Settled + OnTheirWay
    BY <1>6, Sums
  <1>8. RowsInv'
    BY <1>a, <1>7, SumsKept
  <1> QED BY <1>1, <1>2, <1>3, <1>5, <1>8, QuietStep, Channels

------------------------------------------------------------------------------
(* The steps that open, and the HTTP threads'. *)

LEMMA RowsKept ==
    ASSUME RecInv, UNCHANGED rowVars, QueuedRows' = QueuedRows, rec_at' # "new"
    PROVE  RowsInv' /\ CountsOK'
  <1>1. Settled' = Settled /\ OnTheirWay' = OnTheirWay /\ CountsOK'
    BY Sums DEF rowVars, Settled, OnTheirWay, CountsOK
  <1> QED BY <1>1, SumsKept DEF rowVars

(* Nothing of the HTTP threads and the changes is touched. *)
LEMMA ThreadsKept ==
    ASSUME RecInv, UNCHANGED <<httpVars, made, making>>, \A h \in HttpThreads : Sent(h)' => Sent(h)
    PROVE  (\A h \in HttpThreads : ThreadInv(h)') /\ (NobodyAsked => NobodyAsked')
  <1>1. ASSUME NEW h \in HttpThreads PROVE ThreadInv(h)'
    <2>1. ThreadInv(h) /\ (Sent(h)' => Sent(h)) /\ UNCHANGED <<http, claim, reply, made, making>>
      BY DEF RecInv, httpVars
    <2> QED BY <2>1 DEF ThreadInv
  <1>2. UNCHANGED <<http, making>>
    BY DEF httpVars
  <1> QED BY <1>1, <1>2 DEF NobodyAsked

LEMMA Opening == ASSUME RecInv, OpenSucceeds \/ SayOpen \/ OpenRefused \/ End PROVE RecInv'
  <1>1. UNCHANGED <<mail, httpVars, made, making, plan>>
    BY DEF OpenSucceeds, SayOpen, OpenRefused, End
  <1>2. changes' = changes \/ changes' = <<>>
    BY DEF OpenSucceeds, SayOpen, OpenRefused, End
  <1>3. (\A h \in HttpThreads : Sent(h)' => Sent(h)) /\ changes' \in Seq(HttpThreads)
    <2>1. Range(<<>>) = {}
      BY DEF Range
    <2> QED BY <1>1, <1>2, <2>1, EmptySeq, Channels DEF Sent
  <1>4. (\A h \in HttpThreads : ThreadInv(h)') /\ (NobodyAsked => NobodyAsked')
    BY <1>1, <1>3, ThreadsKept
  <1>5. /\ rec_at \in {"opening", "opened", "counted"}
        /\ rec_at' \in {"opened", "write", "ending", "gone"}
    BY DEF OpenSucceeds, SayOpen, OpenRefused, End
  <1>6. MakingInv'
    BY <1>1, <1>5 DEF RecInv, MakingInv
  <1>7. RowsInv' /\ CountsOK'
    <2>1. QueuedRows' = QueuedRows
      BY <1>1 DEF QueuedRows
    <2>2. CASE OpenRefused
      BY <2>2, WaitingDropped DEF OpenRefused
    <2>3. CASE ~OpenRefused
      <3>1. UNCHANGED rowVars
        BY <2>3 DEF OpenSucceeds, SayOpen, End
      <3> QED BY <3>1, <2>1, <1>5, RowsKept
    <2> QED BY <2>2, <2>3
  <1>8. SettingInv'
    <2>1. CASE OpenSucceeds
      <3>1. rec_at = "opening" /\ rec_at' = "opened" /\ UNCHANGED <<rec_phase, row>>
        BY <2>1 DEF OpenSucceeds
      <3>2. rec_phase = "opening" /\ NobodyAsked
        BY <3>1 DEF RecInv, SettingInv
      <3>3. ~unreadable' => override' = Applied(row)
        <4>1. CASE override' = (IF row \in SettingValues THEN row ELSE NoRow)
          BY <4>1 DEF Applied
        <4>2. CASE unreadable' = TRUE
          BY <4>2
        <4> QED BY <2>1, <4>1, <4>2 DEF OpenSucceeds
      <3> QED BY <3>1, <3>2, <3>3, <1>4 DEF SettingInv, Working, Applied
    <2>2. CASE SayOpen
      <3>1. rec_at = "opened" /\ rec_at' = "write" /\ rec_phase' = "open" /\ UNCHANGED <<unreadable, row, override>>
        BY <2>2 DEF SayOpen, settingVars
      <3> QED BY <3>1, <1>4 DEF RecInv, SettingInv, Working, Applied
    <2>3. CASE OpenRefused
      <3>1. rec_at' = "ending" /\ rec_phase' = "failed" /\ unreadable' = unreadable
        BY <2>3 DEF OpenRefused
      <3> QED BY <3>1, <1>4 DEF RecInv, SettingInv, Working
    <2>4. CASE End
      <3>1. rec_at' = "gone" /\ rec_phase' = "failed" /\ unreadable' = unreadable
        BY <2>4 DEF End
      <3> QED BY <3>1, <1>4 DEF RecInv, SettingInv, Working
    <2> QED BY <2>1, <2>2, <2>3, <2>4
  <1>9. RecTypeOK'
    BY <1>1, <1>3, <1>5, <1>7 DEF RecInv, RecTypeOK, httpVars, Working
  <1> QED BY <1>4, <1>6, <1>7, <1>8, <1>9 DEF RecInv

(* What an HTTP thread does: one place moves, at most its claim with it. *)
LEMMA Threads == ASSUME RecInv, NEW h \in HttpThreads, HttpThread(h) PROVE RecInv'
  <1>1. UNCHANGED <<rowVars, threadVars, healthVars, settingVars, made>> /\ UNCHANGED <<reply, changes, making, rec_at>>
    BY DEF HttpThread, threadVars, AskPhase, SendChange, Answered, TimesOut
  <1>2. mail \in Seq(Mail) /\ h \in Mail /\ h # "row"
    BY RecorderAssumption, Channels DEF Mail, RecorderAssumption
  <1>3. \/ UNCHANGED mail
        \/ mail' = Append(mail, h)
    BY DEF HttpThread, AskPhase, SendChange, Answered, TimesOut
  <1>4. QueuedRows' = QueuedRows
    <2>1. CASE UNCHANGED mail
      BY <2>1 DEF QueuedRows
    <2>2. CASE mail' = Append(mail, h)
      <3>1. QueuedRows' = QueuedRows + 0
        BY <2>2, <1>2, RowsOfAppend DEF QueuedRows, RowsAt
      <3> QED BY <3>1, Sums
    <2> QED BY <1>3, <2>1, <2>2
  <1>5. mail' \in Seq(Mail) /\ (UNCHANGED mail \/ Range(mail') = Range(mail) \cup {h})
    <2>1. CASE mail' = Append(mail, h)
      BY <2>1, <1>2, RangeOfAppend
    <2>2. CASE UNCHANGED mail
      BY <2>2, <1>2
    <2> QED BY <1>3, <2>1, <2>2
  <1>6. RowsInv' /\ CountsOK'
    <2>1. Settled' = Settled /\ OnTheirWay' = OnTheirWay /\ CountsOK'
      BY <1>1, <1>4, Sums DEF rowVars, Settled, OnTheirWay, CountsOK
    <2> QED BY <1>1, <2>1, SumsKept, Sums DEF rowVars
  <1>7. /\ http' \in [HttpThreads -> {"idle", "send", "await", "made", "not made", "unknown"}]
        /\ claim' \in [HttpThreads -> {"pending", "taken", "abandoned"}]
        /\ \A g \in HttpThreads \ {h} : http'[g] = http[g] /\ claim'[g] = claim[g]
    BY DEF HttpThread, AskPhase, SendChange, Answered, TimesOut, Http, RecInv, RecTypeOK
  <1>8. RecTypeOK'
    BY <1>1, <1>5, <1>6, <1>7 DEF RecInv, RecTypeOK
  <1>9. MakingInv'
    BY <1>1 DEF RecInv, MakingInv
  <1>10. ASSUME NEW g \in HttpThreads \ {h} PROVE ThreadInv(g)' /\ (Sent(g)' => Sent(g))
    <2>1. Sent(g)' => Sent(g)
      BY <1>1, <1>5 DEF Sent
    <2>2. ThreadInv(g)
      BY DEF RecInv
    <2> QED BY <2>1, <2>2, <1>1, <1>7 DEF ThreadInv
  <1>11. ThreadInv(h)
    BY DEF RecInv
  <1>12. ThreadInv(h)'
    <2>1. CASE AskPhase(h)
      <3>1. http[h] = "idle" /\ http'[h] \in {"send", "not made"} /\ UNCHANGED <<mail, claim>>
        BY <2>1 DEF AskPhase, Http, RecInv, RecTypeOK
      <3>2. ~Sent(h)'
        BY <3>1, <1>1, <1>11 DEF Sent, ThreadInv
      <3> QED BY <3>1, <3>2, <1>1, <1>11 DEF ThreadInv
    <2>2. CASE SendChange(h)
      <3>1. http[h] = "send" /\ http'[h] \in {"await", "not made"} /\ UNCHANGED claim
            /\ (http'[h] = "not made" => UNCHANGED mail)
        BY <2>2 DEF SendChange, Http, RecInv, RecTypeOK
      <3>2. http'[h] = "not made" => ~Sent(h)'
        BY <3>1, <1>1, <1>11 DEF Sent, ThreadInv
      <3> QED BY <3>1, <3>2, <1>1, <1>11 DEF ThreadInv
    <2>3. CASE Answered(h)
      <3>1. http[h] = "await" /\ UNCHANGED <<mail, claim>>
            /\ \/ reply[h] # "none" /\ http'[h] = reply[h]
               \/ reply[h] = "none" /\ ~Sent(h) /\ making # h /\ http'[h] = "not made"
        BY <2>3 DEF Answered, Http, Unreachable, Sent, RecInv, RecTypeOK
      <3>2. Sent(h)' <=> Sent(h)
        BY <3>1, <1>1 DEF Sent
      <3>3. reply[h] \in {"none", "made", "not made"}
        BY DEF RecInv, RecTypeOK
      <3> QED BY <3>1, <3>2, <3>3, <1>1, <1>11 DEF ThreadInv
    <2>4. CASE TimesOut(h)
      <3>1. http[h] = "await" /\ UNCHANGED mail
            /\ \/ claim[h] = "pending" /\ http'[h] = "not made" /\ claim'[h] = "abandoned"
               \/ http'[h] = "unknown" /\ claim'[h] = claim[h] /\ claim[h] # "pending"
        BY <2>4 DEF TimesOut, Http, RecInv, RecTypeOK
      <3>2. Sent(h)' <=> Sent(h)
        BY <3>1, <1>1 DEF Sent
      <3> QED BY <3>1, <3>2, <1>1, <1>11 DEF ThreadInv
    <2> QED BY <2>1, <2>2, <2>3, <2>4 DEF HttpThread
  <1>13. SettingInv'
    <2>1. UNCHANGED <<rec_phase, unreadable, row, override, rec_at, plan, making>>
      BY <1>1 DEF healthVars, settingVars, threadVars
    <2>2. rec_phase = "opening" \/ unreadable => (NobodyAsked => NobodyAsked')
      <3> SUFFICES ASSUME rec_phase = "opening" \/ unreadable, NobodyAsked PROVE NobodyAsked'
        OBVIOUS
      <3>1. http[h] \in {"idle", "not made"} /\ ~Sent(h)
        BY DEF NobodyAsked
      <3>2. AskPhase(h)
        BY <3>1 DEF HttpThread, SendChange, Answered, TimesOut, Http
      <3>3. http'[h] = "not made" /\ UNCHANGED mail
        <4>1. ~(rec_phase = "open" /\ ~unreadable)
          OBVIOUS
        <4> QED BY <3>2, <4>1 DEF AskPhase, Http, RecInv, RecTypeOK
      <3>4. ~Sent(h)'
        BY <3>1, <3>3, <1>1 DEF Sent
      <3> QED BY <3>3, <3>4, <1>1, <1>7, <1>10 DEF NobodyAsked
    <2> QED BY <2>1, <2>2 DEF RecInv, SettingInv, Applied
  <1> QED BY <1>6, <1>8, <1>9, <1>10, <1>12, <1>13 DEF RecInv

------------------------------------------------------------------------------
(* A change, from its claim to its answer. *)

(* A step of a change leaves the rows and the mail alone. *)
LEMMA ChangeRows ==
    ASSUME RecInv, UNCHANGED <<mail, rowVars>>, rec_at' # "new"
    PROVE  RowsInv' /\ CountsOK' /\ mail' \in Seq(Mail)
  <1>1. QueuedRows' = QueuedRows
    BY DEF QueuedRows
  <1> QED BY <1>1, RowsKept, Channels

(* In the midst of a change the database is open and was read. *)
LEMMA Changing ==
    ASSUME RecInv, rec_at \in {"changes", "commit", "publish"}
    PROVE  /\ rec_phase = "open"
           /\ rec_at # "changes" \/ (\E h \in HttpThreads : Sent(h)) => ~unreadable
           /\ ~unreadable /\ rec_at # "publish" => override = Applied(row)
  <1>1. rec_phase = "open"
    BY DEF RecInv, SettingInv, Working
  <1>2. rec_at # "changes" => making # NoRow
    BY DEF RecInv, MakingInv
  <1>3. rec_at # "changes" \/ (\E h \in HttpThreads : Sent(h)) => ~unreadable
    BY <1>2 DEF RecInv, SettingInv, NobodyAsked
  <1> QED BY <1>1, <1>3 DEF RecInv, SettingInv

(* Whatever is asked for, the override it plans is the one its row stands   *)
(* for.                                                                     *)
LEMMA PlanAgrees ==
    ASSUME NEW w \in Wishes, override = Applied(row)
    PROVE  Planned(w).override = Applied(Planned(w).row)
  <1>1. NoRow \notin SettingValues
    BY RecorderAssumption DEF RecorderAssumption
  <1>2. CASE ~w.set
    BY <1>1, <1>2 DEF Planned, Applied
  <1>3. CASE w.set /\ w.value = InEffect
    BY <1>3 DEF Planned
  <1>4. CASE w.set /\ w.value # InEffect
    <2>1. w.value \in SettingValues
      BY <1>4 DEF Wishes
    <2>2. Planned(w) = [writes |-> TRUE, row |-> w.value, override |-> w.value]
      BY <1>4 DEF Planned
    <2> QED BY <2>1, <2>2 DEF Applied
  <1> QED BY <1>2, <1>3, <1>4

LEMMA Claiming == ASSUME RecInv, ChangeNext PROVE RecInv'
  <1> DEFINE h == Head(changes)
  <1>1. /\ rec_at = "changes" /\ changes # <<>> /\ changes' = Tail(changes)
        /\ UNCHANGED <<mail, rowVars, healthVars, settingVars, http, reply, made>>
    BY DEF ChangeNext
  <1>2. changes' \in Seq(HttpThreads) /\ h \in HttpThreads /\ Range(changes) = {h} \cup Range(changes')
    BY <1>1, Channels, RangeOfTail
  <1>3. Sent(h) /\ \A g \in HttpThreads : Sent(g)' => Sent(g)
    BY <1>1, <1>2 DEF Sent
  <1>4. ~unreadable /\ override = Applied(row) /\ rec_phase = "open"
    BY <1>1, <1>2, <1>3, Changing
  <1>5. making = NoRow /\ NoRow \notin HttpThreads
    BY <1>1, RecorderAssumption DEF RecInv, MakingInv, RecorderAssumption
  <1> HIDE DEF h
  <1>6. CASE Takes(h)
    <2>1. /\ claim[h] = "pending" /\ claim' = [claim EXCEPT ![h] = "taken"] /\ making' = h /\ rec_at' = "commit"
      BY <1>6 DEF ChangeNext, Takes, h
    <2>2. plan'.override = Applied(plan'.row)
      <3>1. PICK w \in Wishes : plan' = Planned(w)
        BY <1>6 DEF ChangeNext, h
      <3> QED BY <3>1, <1>4, PlanAgrees
    <2>3. h \notin made /\ reply[h] = "none" /\ http[h] \notin {"idle", "send", "not made"}
      BY <1>2, <1>3, <2>1 DEF RecInv, ThreadInv
    <2>4. RowsInv' /\ CountsOK' /\ mail' \in Seq(Mail)
      BY <1>1, <2>1, ChangeRows
    <2>5. claim' \in [HttpThreads -> {"pending", "taken", "abandoned"}] /\ claim'[h] = "taken"
          /\ \A g \in HttpThreads \ {h} : claim'[g] = claim[g]
      BY <1>2, <2>1 DEF RecInv, RecTypeOK
    <2>6. RecTypeOK'
      BY <1>1, <1>2, <2>1, <2>4, <2>5 DEF RecInv, RecTypeOK, Working
    <2>7. MakingInv'
      BY <1>1, <1>2, <1>5, <2>1, <2>3 DEF MakingInv
    <2>8. SettingInv'
      BY <1>1, <1>4, <2>1, <2>2 DEF SettingInv, Working, healthVars, settingVars
    <2>9. ASSUME NEW g \in HttpThreads PROVE ThreadInv(g)'
      <3>1. ThreadInv(g) /\ (Sent(g)' => Sent(g)) /\ UNCHANGED <<http, reply, made>>
        BY <1>1, <1>3 DEF RecInv
      <3>2. CASE g = h
        BY <3>1, <3>2, <2>1, <2>3, <2>5 DEF ThreadInv
      <3>3. CASE g # h
        BY <3>1, <3>3, <2>1, <2>5, <1>5 DEF ThreadInv
      <3> QED BY <3>2, <3>3
    <2> QED BY <2>4, <2>6, <2>7, <2>8, <2>9 DEF RecInv
  <1>7. CASE ~Takes(h)
    <2>1. UNCHANGED <<claim, making, plan, rec_at>>
      BY <1>7 DEF ChangeNext, h
    <2>2. RowsInv' /\ CountsOK' /\ mail' \in Seq(Mail)
      BY <1>1, <2>1, ChangeRows
    <2>3. RecorderQuiet
      BY <1>1, <1>3, <2>1 DEF RecorderQuiet, healthVars, settingVars
    <2> QED BY <1>2, <2>2, <2>3, QuietStep
  <1> QED BY <1>6, <1>7

(* An answer changes at most the one reply, and only while it is awaited. *)
LEMMA RepliesDoes ==
    ASSUME RecInv, NEW h \in HttpThreads, NEW answer \in {"made", "not made"}, Replies(h, answer)
    PROVE  /\ reply' \in [HttpThreads -> {"none", "made", "not made"}]
           /\ \A g \in HttpThreads \ {h} : reply'[g] = reply[g]
           /\ http[h] = "await" => reply'[h] = answer
           /\ http[h] # "await" => reply'[h] = reply[h]
  <1>1. reply \in [HttpThreads -> {"none", "made", "not made"}]
    BY DEF RecInv, RecTypeOK
  <1> QED BY <1>1 DEF Replies

LEMMA Committing == ASSUME RecInv, CommitChange PROVE RecInv'
  <1>1. /\ rec_at = "commit" /\ UNCHANGED <<mail, rowVars, changes, healthVars, override, http, claim>>
    BY DEF CommitChange
  <1>2. making \in HttpThreads /\ making \notin made /\ making # NoRow
    BY <1>1 DEF RecInv, RecTypeOK, MakingInv
  <1>3. ~unreadable /\ override = Applied(row) /\ rec_phase = "open" /\ plan.override = Applied(plan.row)
    BY <1>1, Changing DEF RecInv, SettingInv
  <1>4. ThreadInv(making)
    BY <1>2 DEF RecInv
  <1>5. \A g \in HttpThreads : ThreadInv(g) /\ (Sent(g)' <=> Sent(g))
    BY <1>1 DEF RecInv, Sent
  <1>6. rec_at' \in {"publish", "changes"}
    BY DEF CommitChange
  <1>7. RowsInv' /\ CountsOK' /\ mail' \in Seq(Mail)
    BY <1>1, <1>6, ChangeRows
  <1>8. CASE row' = plan.row /\ made' = made \cup {making} /\ rec_at' = "publish" /\ UNCHANGED <<making, plan, reply>>
    <2>1. RecTypeOK'
      BY <1>1, <1>2, <1>7, <1>8 DEF RecInv, RecTypeOK, Working
    <2>2. MakingInv'
      BY <1>1, <1>2, <1>8 DEF MakingInv
    <2>3. SettingInv'
      BY <1>1, <1>3, <1>8 DEF SettingInv, Working, healthVars
    <2>4. ASSUME NEW g \in HttpThreads PROVE ThreadInv(g)'
      <3>1. ThreadInv(g) /\ (Sent(g)' <=> Sent(g)) /\ UNCHANGED <<http, claim, reply, making>>
        BY <1>1, <1>5, <1>8
      <3>2. CASE g = making
        BY <3>1, <3>2, <1>8 DEF ThreadInv
      <3>3. CASE g # making
        BY <3>1, <3>3, <1>8 DEF ThreadInv
      <3> QED BY <3>2, <3>3
    <2> QED BY <1>7, <2>1, <2>2, <2>3, <2>4 DEF RecInv
  <1>9. CASE /\ Replies(making, "not made") /\ making' = NoRow /\ rec_at' = "changes" /\ UNCHANGED <<row, made>>
    <2>1. /\ reply' \in [HttpThreads -> {"none", "made", "not made"}]
          /\ \A g \in HttpThreads \ {making} : reply'[g] = reply[g]
          /\ http[making] = "await" => reply'[making] = "not made"
          /\ http[making] # "await" => reply'[making] = reply[making]
      BY <1>2, <1>9, RepliesDoes
    <2>2. RecTypeOK'
      BY <1>1, <1>7, <1>9, <2>1 DEF RecInv, RecTypeOK, Working
    <2>3. MakingInv'
      BY <1>9 DEF MakingInv
    <2>4. SettingInv'
      BY <1>1, <1>3, <1>9 DEF SettingInv, Working, healthVars
    <2>5. ASSUME NEW g \in HttpThreads PROVE ThreadInv(g)'
      <3>1. ThreadInv(g) /\ (Sent(g)' <=> Sent(g)) /\ UNCHANGED <<http, claim, made>> /\ NoRow \notin HttpThreads
        BY <1>1, <1>5, <1>9, RecorderAssumption DEF RecorderAssumption
      <3>2. CASE g = making
        BY <3>1, <3>2, <1>2, <1>9, <2>1 DEF ThreadInv
      <3>3. CASE g # making
        BY <3>1, <3>3, <1>9, <2>1 DEF ThreadInv
      <3> QED BY <3>2, <3>3
    <2> QED BY <1>7, <2>2, <2>3, <2>4, <2>5 DEF RecInv
  <1> QED BY <1>8, <1>9 DEF CommitChange

LEMMA Publishing == ASSUME RecInv, PublishChange PROVE RecInv'
  <1>1. /\ rec_at = "publish" /\ rec_at' = "changes" /\ override' = plan.override /\ Replies(making, "made")
        /\ making' = NoRow /\ UNCHANGED <<mail, rowVars, changes, healthVars, row, http, claim, made>>
    BY DEF PublishChange
  <1>2. making \in HttpThreads /\ making \in made /\ NoRow \notin HttpThreads
    BY <1>1, RecorderAssumption DEF RecInv, RecTypeOK, MakingInv, RecorderAssumption
  <1>3. ~unreadable /\ rec_phase = "open" /\ plan.override = Applied(row)
    BY <1>1, Changing DEF RecInv, SettingInv
  <1>4. RowsInv' /\ CountsOK' /\ mail' \in Seq(Mail)
    BY <1>1, ChangeRows
  <1>5. /\ reply' \in [HttpThreads -> {"none", "made", "not made"}]
        /\ \A g \in HttpThreads \ {making} : reply'[g] = reply[g]
        /\ http[making] = "await" => reply'[making] = "made"
        /\ http[making] # "await" => reply'[making] = reply[making]
    BY <1>1, <1>2, RepliesDoes
  <1>6. RecTypeOK'
    BY <1>1, <1>4, <1>5 DEF RecInv, RecTypeOK, Working
  <1>7. MakingInv'
    BY <1>1 DEF MakingInv
  <1>8. SettingInv'
    BY <1>1, <1>3 DEF SettingInv, Working, healthVars, Applied
  <1>9. ASSUME NEW g \in HttpThreads PROVE ThreadInv(g)'
    <2>1. ThreadInv(g) /\ (Sent(g)' <=> Sent(g)) /\ UNCHANGED <<http, claim, made>>
      BY <1>1 DEF RecInv, Sent
    <2>2. CASE g = making
      BY <2>1, <2>2, <1>1, <1>2, <1>5 DEF ThreadInv
    <2>3. CASE g # making
      BY <2>1, <2>3, <1>1, <1>2, <1>5 DEF ThreadInv
    <2> QED BY <2>2, <2>3
  <1> QED BY <1>4, <1>6, <1>7, <1>8, <1>9 DEF RecInv

LEMMA StepRec == RecInv /\ [RecorderNext]_recorderVars => RecInv'
  <1> SUFFICES ASSUME RecInv, [RecorderNext]_recorderVars PROVE RecInv'
    OBVIOUS
  <1>1. CASE UNCHANGED recorderVars
    <2>1. RecorderQuiet /\ UNCHANGED <<rowVars, changes, mail, rec_at>>
      BY <1>1 DEF RecorderQuiet, recorderVars, threadVars, healthVars, settingVars, httpVars, Sent
    <2>2. QueuedRows' = QueuedRows
      BY <2>1 DEF QueuedRows
    <2> QED BY <2>1, <2>2, CountsKept, Channels
  <1>2. CASE RecorderThread
    BY <1>2, Opening, Moves, Receiving, Writing, Counting, Claiming, Committing, Publishing DEF RecorderThread
  <1> QED BY <1>1, <1>2, Offering, Stopping, Threads DEF RecorderNext

(* What the dashboard and the settings page are told is so: for any number  *)
(* of HTTP threads and rows, however late the recorder takes a change up    *)
(* and whatever fails (Writer, change_settings, Claim).                     *)
THEOREM RecorderIsSafe == RecorderSpec => []RecorderSafe
  <1>1. RecInv => RecorderSafe
    <2> SUFFICES ASSUME RecInv PROVE RecorderSafe
      OBVIOUS
    <2>1. AnswersTrue
      BY DEF RecInv, ThreadInv, AnswersTrue
    <2>2. NeverDisagree
      <3>1. unreadable => rec_at # "publish"
        BY Changing
      <3> QED BY <3>1 DEF RecInv, SettingInv, NeverDisagree, Applied
    <2> QED BY <2>1, <2>2 DEF RecInv, RowsInv, RecorderSafe
  <1> QED BY <1>1, InitRec, StepRec, PTL DEF RecorderSpec
=============================================================================
