---------------------------- MODULE DecodeSpacing ----------------------------
(***************************************************************************)
(* What the decode checkpoints of a generation add up to                   *)
(* (src/serve/session.rs), as functions: DecodeCheckpoints is the object   *)
(* that gets there one draw at a time.                                     *)
(***************************************************************************)
EXTENDS Naturals, FiniteSets, FiniteSetsExt

(* The most a generation of `n` draws holds at once: what admission counts. *)
decode_checkpoints_within(interval, max, n) ==
    IF interval = 0 THEN 0 ELSE Min({n \div interval, max})

(* The powers of two up to n: of their divisors only 1 is odd.             *)
PowersOfTwo(n) == {k \in 1 .. n : \A d \in 2 .. k : k % d = 0 => d % 2 = 0}

(* Where they are when the loop last asked at `end`, having asked at every *)
(* position since `start`.                                                 *)
decode_positions(interval, max, start, end) ==
    IF interval = 0 \/ max = 0 THEN {}
    ELSE LET every(k) == {start + i * k * interval : i \in 1 .. end} \cap (start .. end)
             widened == Min({k \in PowersOfTwo(end + 1) : Cardinality(every(k)) =< max})
         IN  every(widened)
=============================================================================
