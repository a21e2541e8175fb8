----------------------------- MODULE ComputePass -----------------------------
(***************************************************************************)
(* The GPU runs what was encoded (src/metal.rs): between two fences the    *)
(* dispatches run in any order, and a fence waits for everything in front  *)
(* of it.  The host takes part at the waits, as early as their events let  *)
(* it.  A program is what one or several passes encode, in the order of    *)
(* their commits.                                                          *)
(***************************************************************************)
EXTENDS PassItems

CONSTANTS
    Programs,  \* sequences of items
    Carried(_) \* a region a program may find filled: caches, states, the last token

Kinds == {"run", "barrier", "signal", "wait"}

RegionsOf(items) == UNION {items[i].reads \cup items[i].writes : i \in DOMAIN items}
Regions == UNION {RegionsOf(text) : text \in Programs}

ASSUME ProgramsAssumption ==
    /\ \A text \in Programs :
        text \in Seq([kind : Kinds, reads : SUBSET Regions, writes : SUBSET Regions,
                     event : STRING])
    /\ \A r \in Regions : Carried(r) \in BOOLEAN

VARIABLES
    prog,  \* the program and its tables
    at,    \* the last fence the GPU has passed
    ran,   \* what ran behind it, and the waits the host has served ahead
    holds  \* per region: the item whose result it holds, or 0

passVars == <<prog, at, ran, holds>>

------------------------------------------------------------------------------
(* A program's dispatches and waits, its fences, and the place the GPU     *)
(* must have passed before an item may start: the fence in front of a      *)
(* dispatch, the signal a wait's host reacts to.                           *)

ItemsOf(program) == {i \in DOMAIN program : program[i].kind \in {"run", "wait"}}
EndsOf(program)  == {i \in DOMAIN program : program[i].kind # "run"} \cup {Len(program) + 1}
Raising(program, event) ==
    {i \in DOMAIN program : program[i].kind = "signal" /\ program[i].event = event}

LastBefore(i, places) ==
    CHOOSE f \in 0 .. i - 1 : (f = 0 \/ f \in places) /\ \A g \in f + 1 .. i - 1 : g \notin places

StartOf(program, ends, i) ==
    LastBefore(i, IF program[i].kind = "run" THEN ends ELSE Raising(program, program[i].event))

(* Whose result is in a region when the program runs in its own order.     *)
FillersOf(program, items) ==
    [r \in RegionsOf(program) |-> {i \in items : r \in program[i].writes}]

(* A program with these as tables.                                         *)
TableOf(program) ==
    LET items   == ItemsOf(program)
        ends    == EndsOf(program)
        fillers == FillersOf(program, items)
    IN  [text    |-> program,
         items   |-> items,
         ends    |-> ends,
         fillers |-> fillers,
         start   |-> [i \in items |-> StartOf(program, ends, i)],
         latest  |-> [i \in items |->
                         [r \in program[i].reads |-> LastBefore(i, fillers[r])]]]
Encoded == {TableOf(text) : text \in Programs}

------------------------------------------------------------------------------
MayStart(i) == i > at /\ i \notin ran /\ prog.start[i] =< at

(* A dispatch runs, or the host serves a wait.                             *)
Complete(i) ==
    /\ MayStart(i)
    /\ ran' = ran \cup {i}
    /\ holds' = [r \in DOMAIN holds |-> IF r \in prog.text[i].writes THEN i ELSE holds[r]]
    /\ UNCHANGED <<prog, at>>

(* Everything up to the fence has run, and a wait is served.               *)
PassFence(f) ==
    /\ f > at /\ \A i \in at + 1 .. f : i \in prog.items => i \in ran
    /\ at' = f /\ ran' = {i \in ran : i > f}
    /\ UNCHANGED <<prog, holds>>

PassInit ==
    /\ prog \in Encoded /\ at = 0 /\ ran = {}
    /\ holds = [r \in RegionsOf(prog.text) |-> 0]

PassNext ==
    \/ \E i \in prog.items : Complete(i)
    \/ \E f \in prog.ends : PassFence(f)

PassSpec == PassInit /\ [][PassNext]_passVars

------------------------------------------------------------------------------
(* Of two items that touch a region and do not both only read it, the      *)
(* later starts behind a place the earlier is done; and what an item reads *)
(* an earlier one has filled, unless it outlives the program.              *)
Conflict(p, i, j) ==
    LET a == p.text[i]
        b == p.text[j]
    IN  a.writes \cap (b.reads \cup b.writes) # {} \/ a.reads \cap b.writes # {}
ConflictsOrdered(p) ==
    \A j \in p.items : \A i \in p.start[j] + 1 .. j - 1 :
        i \in p.items => ~Conflict(p, i, j)
FilledFirst(p) ==
    \A i \in p.items : \A r \in p.text[i].reads : Carried(r) \/ p.latest[i][r] # 0
WellEncoded(p) == ConflictsOrdered(p) /\ FilledFirst(p)

(* An item finds in what it reads the results the program's own order      *)
(* gives it, and no scratch nothing has filled.                            *)
ReadsInOrder ==
    \A i \in prog.items : MayStart(i) =>
        \A r \in prog.text[i].reads : holds[r] = prog.latest[i][r]
NothingStale ==
    \A i \in prog.items : MayStart(i) =>
        \A r \in prog.text[i].reads : Carried(r) \/ holds[r] # 0

(* What the program leaves is what its own order leaves.                   *)
EndsInOrder ==
    at > Len(prog.text) =>
        \A r \in DOMAIN holds : holds[r] = LastBefore(at, prog.fillers[r])

(* Passes are well encoded, and compute what their order says whatever     *)
(* order the GPU and the host take (begin_concurrent: the caller owns      *)
(* every hazard).                                                          *)
PassSound == (at = 0 => WellEncoded(prog)) /\ ReadsInOrder /\ NothingStale /\ EndsInOrder
=============================================================================
