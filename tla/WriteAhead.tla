----------------------------- MODULE WriteAhead -----------------------------
(***************************************************************************)
(* The idle time between two requests: the engine loop (src/serve.rs)      *)
(* calls write_ahead (src/serve/session.rs) after a request and, as long   *)
(* as a write is in flight, on every poll.  Here entries have no numbers,  *)
(* so an idle period without end is a cycle of finitely many states;       *)
(* SessionStore has everything else that can meet a write ahead.           *)
(***************************************************************************)
EXTENDS Naturals, FiniteSets, FiniteSetsExt, SequencesExt

CONSTANTS
    Bytes,       \* GPU bytes of the resident sessions, in eviction order
    CopyBytes,   \* bytes of each one's disk entry
    GpuBudget,   \* budget_bytes
    Target,      \* headroom_target
    DiskBudget   \* bytes the disk tier may hold

Sessions == DOMAIN Bytes

VARIABLES
    copy,     \* per session: "none", "written" or "refused" (DiskCopy)
    index,    \* the sessions whose entries the tier holds, oldest first
    writing,  \* the parked session, or 0
    ended,    \* its thread ended
    polled    \* the loop calls write_ahead (again)

vars == <<copy, index, writing, ended, polled>>

Total(f, held) == MapThenSumSet(LAMBDA s : f[s], held)

(* The longest suffix that leaves room: trim deletes from the front. *)
Kept(order, room) ==
    LET fits(k) == Total(CopyBytes, ToSet(SubSeq(order, k, Len(order)))) =< room
    IN  SubSeq(order, Min({k \in 1 .. Len(order) + 1 : fits(k)}), Len(order))

Indexed(s) == CopyBytes[s] =< DiskBudget

(* finish_write and commit. *)
Collected ==
    IF writing = 0 THEN [copy |-> copy, index |-> index]
    ELSE IF Indexed(writing)
         THEN [copy  |-> [copy EXCEPT ![writing] = "written"],
               index |-> Append(Kept(index, DiskBudget - CopyBytes[writing]), writing)]
         ELSE [copy |-> [copy EXCEPT ![writing] = "refused"], index |-> index]

(* The copies the tier has deleted since no longer count. *)
Refreshed(c) ==
    [s \in Sessions |-> IF c.copy[s] = "written" /\ s \notin ToSet(c.index) THEN "none" ELSE c.copy[s]]

(* The session to write: none while the room that costs no write suffices; *)
(* the most recently used one is never written.                            *)
ToWrite(copies) ==
    {s \in 1 .. Len(Bytes) - 1 :
        /\ copies[s] = "none" /\ \A t \in 1 .. s - 1 : copies[t] # "none"
        /\ Max({0, GpuBudget - Total(Bytes, Sessions)}) + Total(Bytes, 1 .. s - 1) < Target}

write_ahead ==
    /\ polled /\ (writing = 0 \/ ended)
    /\ copy' = Refreshed(Collected) /\ index' = Collected.index
    /\ writing' = IF ToWrite(copy') = {} THEN 0 ELSE Min(ToWrite(copy'))
    /\ ended' = FALSE /\ polled' = (writing' # 0)

WriterEnds == writing # 0 /\ ~ended /\ ended' = TRUE /\ UNCHANGED <<copy, index, writing, polled>>

(* No write in flight: the loop waits for a request. *)
Waiting == ~polled /\ UNCHANGED vars

Init ==
    /\ copy = [s \in Sessions |-> "none"] /\ index = <<>>
    /\ writing = 0 /\ ended = FALSE /\ polled = TRUE

Next == write_ahead \/ WriterEnds \/ Waiting

(* The loop polls, and a writer thread ends. *)
Spec == Init /\ [][Next]_vars /\ WF_vars(write_ahead) /\ WF_vars(WriterEnds)
-----------------------------------------------------------------------------
(* An idle engine runs the write ahead until nothing is in flight          *)
(* (tests/unit/serve/session.rs, settle): it does not write forever.       *)
WriteAheadSettles == <>[](writing = 0)
=============================================================================
