----------------------------- MODULE Connection -----------------------------
(***************************************************************************)
(* One request's connection while the engine works on it (Watched,         *)
(* ChunkedResponse of src/serve/http.rs, relay of src/serve.rs).  The      *)
(* relay thread writes what the engine sends.  A watcher thread reads until*)
(* the client's side ends, then probes whether the client is gone or only  *)
(* closed its sending side.  Both write under the lock on `phase`.  The    *)
(* engine looks at `cancelled` between two chunks or tokens.               *)
(***************************************************************************)
EXTENDS Naturals, Sequences, SequencesExt

CONSTANTS MaxBodies  \* bound: chunks of one response

ASSUME ConnectionAssumption == MaxBodies \in Nat

VARIABLES
    client,     \* "reads", "half" (closed its sending side) or "left"
    reset,      \* a reset from the client has arrived
    interim,    \* HTTP/1.1: an interim response may be sent
    events,     \* the response will be an event stream
    phase,      \* "Waiting", "Events", "Body", "Done"
    wire,       \* what was written, in pieces
    cancelled,
    relay,      \* where the relay thread is
    watcher,    \* where the watcher thread is
    job,        \* the engine's side: "work", "started", "over" (its sender is dropped)
    out         \* the messages in the channel: "start", "body", "end"

connVars == <<client, reset, interim, events, phase, wire, cancelled, relay, watcher, job, out>>
peer     == <<client, reset, interim, events>>

ConnInit ==
    /\ client = "reads" /\ reset = FALSE /\ interim \in BOOLEAN /\ events \in BOOLEAN
    /\ phase = "Waiting" /\ wire = <<>> /\ cancelled = FALSE
    /\ relay = "first" /\ watcher = "read" /\ job = "work" /\ out = <<>>

-----------------------------------------------------------------------------
(* The client half-closes and reads on, or leaves.  Its system answers what *)
(* is written to it afterwards with a reset, and may send one at any time.  *)

Leave ==
    /\ client' \in (IF client = "reads" THEN {"half", "left"} ELSE {"left"}) /\ client # "left"
    /\ reset' \in (IF client' = "left" THEN BOOLEAN ELSE {FALSE})
    /\ UNCHANGED <<interim, events, phase, wire, cancelled, relay, watcher, job, out>>

ResetArrives ==
    /\ client = "left" /\ ~reset /\ reset' = TRUE
    /\ UNCHANGED <<client, interim, events, phase, wire, cancelled, relay, watcher, job, out>>

-----------------------------------------------------------------------------
(* The engine never waits for the client. *)

Pieces(s, piece) == Cardinality({i \in DOMAIN s : s[i] = piece})
Bodies == Pieces(out, "body") + Pieces(wire, "chunk")

Work ==
    /\ \/ job = "work" /\ ~cancelled /\ job' = "started" /\ out' = Append(out, "start")
       \/ job = "started" /\ Bodies < MaxBodies /\ out' = Append(out, "body") /\ UNCHANGED job
       \/ job = "started" /\ job' = "over" /\ out' = Append(out, "end")
       \/ job = "work" /\ job' = "over" /\ out' = <<>>  \* failed, or dropped: no response
    /\ UNCHANGED <<peer, phase, wire, cancelled, relay, watcher>>

(* The next chunk or token finds the request cancelled. *)
Notice ==
    /\ cancelled /\ job # "over" /\ job' = "over" /\ out' = Append(out, "end")
    /\ UNCHANGED <<peer, phase, wire, cancelled, relay, watcher>>

-----------------------------------------------------------------------------
(* Writing: fails once the reset arrived, and that flags the client. *)

write(piece) ==
    IF reset THEN cancelled' = TRUE /\ UNCHANGED wire
             ELSE wire' = Append(wire, piece) /\ UNCHANGED cancelled

goOn(pc) == relay' = pc
engineKeeps == UNCHANGED <<peer, watcher, job>>
Next1 == IF out = <<>> THEN "closed" ELSE Head(out)
Received == out # <<>> \/ job = "over"
Taken == out' = IF out = <<>> THEN out ELSE Tail(out)

(* The head, and from then on the phase says how the watcher may probe. *)
start ==
    /\ relay = "first" /\ Received /\ Next1 = "start" /\ Taken /\ write("head")
    /\ IF reset THEN goOn("close") /\ UNCHANGED phase
                ELSE goOn("stream") /\ phase' = (IF events THEN "Events" ELSE "Body")
    /\ engineKeeps

(* No response: the client is gone, or something failed and it is told. *)
NoResponse ==
    /\ relay = "first" /\ Received /\ Next1 # "start" /\ Taken
    /\ \/ cancelled /\ goOn("close") /\ UNCHANGED <<phase, wire, cancelled>>
       \/ ~cancelled /\ goOn("respond") /\ UNCHANGED <<phase, wire, cancelled>>
    /\ engineKeeps

respond ==
    /\ relay = "respond" /\ write("whole") /\ phase' = "Done" /\ goOn("done")
    /\ engineKeeps /\ UNCHANGED out

write_chunk ==
    /\ relay = "stream" /\ Received /\ Next1 = "body" /\ Taken /\ write("chunk")
    /\ goOn(IF reset THEN "drain" ELSE "stream")
    /\ engineKeeps /\ UNCHANGED phase

StreamEnds ==
    /\ relay = "stream" /\ Received /\ Next1 \in {"end", "closed"} /\ Taken
    /\ goOn(IF cancelled THEN "close" ELSE "finish")
    /\ engineKeeps /\ UNCHANGED <<phase, wire, cancelled>>

finish ==
    /\ relay = "finish" /\ write("last") /\ phase' = "Done" /\ goOn("done")
    /\ engineKeeps /\ UNCHANGED out

(* Keeps draining until the engine drops its side. *)
drain ==
    /\ relay = "drain" /\ Received /\ Taken
    /\ goOn(IF out = <<>> THEN "close" ELSE "drain")
    /\ engineKeeps /\ UNCHANGED <<phase, wire, cancelled>>

(* Dropping the connection closes it. *)
close ==
    /\ relay = "close" /\ phase' = "Done" /\ goOn("done")
    /\ engineKeeps /\ UNCHANGED <<wire, cancelled, out>>

Relay ==
    start \/ NoResponse \/ respond \/ write_chunk \/ StreamEnds \/ finish \/ drain \/ close

-----------------------------------------------------------------------------
(* The watcher.  The server's own close ends its read too. *)

relayKeeps == UNCHANGED <<peer, phase, relay, job, out>>

ReadsReset ==
    /\ watcher = "read" /\ reset /\ watcher' = "over"
    /\ cancelled' = (cancelled \/ phase # "Done")
    /\ relayKeeps /\ UNCHANGED wire

ReadsEnd ==
    /\ watcher = "read" /\ ((client # "reads" /\ ~reset) \/ phase = "Done") /\ watcher' = "probe"
    /\ relayKeeps /\ UNCHANGED <<wire, cancelled>>

(* departed: what the client must accept anyway, or nothing. *)
ProbeOnlyEvents(p) == IF p = "Events" THEN "comment" ELSE "none" \* mutant: not while it waits
probe(p) ==
    IF p = "Waiting" /\ interim THEN "interim" ELSE IF p = "Events" THEN "comment" ELSE "none"

departed ==
    /\ watcher = "probe"
    /\ \/ probe(phase) = "none" /\ watcher' = "over" /\ UNCHANGED <<wire, cancelled>>
       \/ /\ probe(phase) # "none" /\ write(probe(phase))
          /\ watcher' = (IF reset THEN "over" ELSE "listen")
    /\ relayKeeps

(* A client that is still there sends no reset within PROBE_WINDOW. *)
GoneOnEof == TRUE \* mutant: an EOF is enough
GoneOnReset == reset
Listens ==
    /\ watcher = "listen" /\ (reset \/ client # "left" \/ phase = "Done") /\ watcher' = "over"
    /\ cancelled' = (cancelled \/ GoneOnReset)
    /\ relayKeeps /\ UNCHANGED wire

Watcher == ReadsReset \/ ReadsEnd \/ departed \/ Listens

ConnNext == Leave \/ ResetArrives \/ Work \/ Notice \/ Relay \/ Watcher

(* The threads go on, a cancelled request is noticed, and a client that     *)
(* left resets within the probe's window; nothing else has to happen.       *)
ConnFairness ==
    /\ WF_connVars(Relay) /\ WF_connVars(Watcher) /\ WF_connVars(Notice)
    /\ WF_connVars(ResetArrives /\ watcher = "listen")

ConnSpec == ConnInit /\ [][ConnNext]_connVars /\ ConnFairness

-----------------------------------------------------------------------------
(* Properties. *)

(* What reaches the client is a response it can parse, wherever the probe   *)
(* falls: interim responses before the head, comments only between the      *)
(* chunks of an event stream, nothing after the end.                        *)
WireWellFormed ==
    \A i \in 1 .. Len(wire) :
        LET before == ToSet(SubSeq(wire, 1, i - 1)) IN
        /\ wire[i] \in {"interim", "head", "whole"} => before \subseteq {"interim"}
        /\ wire[i] \in {"chunk", "comment", "last"} => "head" \in before /\ "last" \notin before
        /\ wire[i] = "interim" => interim
        /\ wire[i] = "comment" => events

(* Only a client that left has its request cancelled, never one that        *)
(* half-closed and waits, and a connection the server closes has a complete *)
(* answer on it unless the client left (Watched: "is still served").        *)
LiveIsServed ==
    /\ cancelled => client = "left"
    /\ phase = "Done" /\ ~cancelled => wire # <<>> /\ Last(wire) \in {"last", "whole"}

(* A client that leaves while it is watched, where a probe or a reset can   *)
(* tell, stops the engine's work, unless a plain body began meanwhile.      *)
GoneIsNoticed ==
    (/\ client = "left" /\ watcher = "read"
     /\ reset \/ phase = "Events" \/ (phase = "Waiting" /\ interim))
        ~> (job = "over" \/ phase = "Body")

(* The relay thread ends when the engine is done with the request. *)
RelayEnds == []<>(job = "over" => relay = "done")

(* Together: what holds at every moment of a connection, and what must come.*)
ConnSafe == WireWellFormed /\ LiveIsServed
ConnLive == GoneIsNoticed /\ RelayEnds
=============================================================================
