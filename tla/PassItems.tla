----------------------------- MODULE PassItems -----------------------------
(***************************************************************************)
(* What the engine encodes into a compute pass (src/metal.rs), as a        *)
(* sequence of items: dispatches that read and write tensors, barriers,    *)
(* and the waits and signals the pass shares with the host.                *)
(*                                                                         *)
(* A tensor is a set of regions: a view is a subset of what it views, and  *)
(* a batch of rows the union of its rows.  Weights never change and are    *)
(* left out.                                                               *)
(***************************************************************************)
EXTENDS Naturals, Sequences, SequencesExt, FiniteSets

Item(kind, reads, writes, event) ==
    [kind |-> kind, reads |-> reads, writes |-> writes, event |-> event]

NoEvent == "none"

(* One kernel over its tensors, in place when one is in both. *)
dispatch(reads, writes) == <<Item("run", reads, writes, NoEvent)>>

level_barrier == <<Item("barrier", {}, {}, NoEvent)>>

(* The GPU raises an event once everything encoded before has completed.   *)
signal_event(event) == <<Item("signal", {}, {}, event)>>

(* The GPU blocks until the host has signalled.  What the host does first  *)
(* belongs to the wait: once the GPU has raised `after` it reads `takes`   *)
(* and writes `stages`.                                                    *)
wait_event(after, takes, stages) == <<Item("wait", takes, stages, after)>>

(* A pass begins behind everything before it on the queue.  A serial pass, *)
(* and any pass while profiling, orders every dispatch, and the barriers   *)
(* its encoders ask for add nothing.                                       *)
begin_concurrent(items) == level_barrier \o items
begin(items) ==
    LET kept == SelectSeq(items, LAMBDA item : item.kind # "barrier")
    IN  level_barrier \o [i \in 1 .. 2 * Len(kept) |->
            IF i % 2 = 1 THEN kept[(i + 1) \div 2] ELSE Head(level_barrier)]

(* Writing the kernels' sequences: steps one behind the other, and the     *)
(* same steps for each of several rows or layers.                          *)
ForEach(n, Steps(_)) == FlattenSeq([i \in 1 .. n |-> Steps(i)])
If(condition, items) == IF condition THEN items ELSE <<>>

(* The tensor a scratch, a state or a log keeps under a name, and some     *)
(* rows of one.                                                            *)
tensor(owner, name)     == {<<owner, name>>}
rows(owner, name, some) == {<<owner, name, row>> : row \in some}
=============================================================================
