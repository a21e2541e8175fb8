------------------------------ MODULE DiskTier ------------------------------
(***************************************************************************)
(* The disk tier's index (DiskStore of src/serve/disk.rs) as operators on  *)
(* the set of its entries.  Entries are records with at least the fields   *)
(* id, bytes, used (seconds, last_used) and durable.  An operation whose   *)
(* result the code does not fix (entries used in the same second) returns  *)
(* the set of its possible results.  DiskStore models the files behind the *)
(* index and what a crash leaves of them.                                  *)
(***************************************************************************)
EXTENDS Naturals, FiniteSets, FiniteSetsExt

CONSTANTS DiskBudget,   \* bytes the tier may hold
          DurableMax,   \* DURABLE_MAX_ENTRIES
          MaxAge        \* seconds an entry may go unused; 0: forever

ASSUME DiskTierAssumption ==
    DiskBudget \in Nat /\ DurableMax \in Nat \ {0} /\ MaxAge \in Nat

disk_used_bytes(entries) == MapThenSumSet(LAMBDA e : e.bytes, entries)

contains(entries, id) == \E e \in entries : e.id = id

remove(entries, id) == {e \in entries : e.id # id}

touch(entries, id, now) ==
    {IF e.id = id THEN [e EXCEPT !.used = now] ELSE e : e \in entries}

expire(entries, now) ==
    IF MaxAge = 0 THEN entries ELSE {e \in entries : now - e.used =< MaxAge}

(* The loop "while `over` what remains, delete the least recently used of  *)
(* the candidates": the victims are the oldest, and all of them were       *)
(* needed (before the youngest victim went, too much remained).            *)
Trimmed(entries, candidates, over(_)) ==
    {entries \ victims : victims \in
        {V \in SUBSET candidates :
            /\ \A v \in V, k \in candidates \ V : v.used =< k.used
            /\ over(entries \ V) => V = candidates
            /\ V # {} => \E v \in V : /\ \A w \in V : w.used =< v.used
                                      /\ over((entries \ V) \cup {v})}}

(* Room for `extra` more bytes. *)
trim(entries, extra) ==
    Trimmed(entries, entries, LAMBDA rest : disk_used_bytes(rest) + extra > DiskBudget)

(* The durable cap; evicted sessions are no candidates. *)
trim_durable(entries) ==
    Trimmed(entries, {e \in entries : e.durable},
            LAMBDA rest : Cardinality({e \in rest : e.durable}) > DurableMax)

(* Mutant: the durable cap is not kept. *)
CommitUncapped(entries, new, spare) ==
    IF new.bytes > DiskBudget THEN {entries}
    ELSE {IF spare THEN room \cup {new} ELSE room : room \in trim(entries, new.bytes)}

(* commit of a written entry `new`: the sets of entries it may leave.      *)
(* `spare` says whether the volume keeps its free-space margin.  A refused *)
(* entry may have cost others their place: room is made first.             *)
commit(entries, new, spare) ==
    IF new.bytes > DiskBudget THEN {entries}
    ELSE UNION {IF ~spare THEN {room}
                ELSE UNION {trim(kept, 0) : kept \in
                        IF new.durable THEN trim_durable(room \cup {new})
                                       ELSE {room \cup {new}}}
                : room \in trim(entries, new.bytes)}
=============================================================================
