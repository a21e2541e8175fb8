---------------------------- MODULE MCWriteAhead ----------------------------
(***************************************************************************)
(* WriteAhead with two sessions a new one would evict, and the tier's      *)
(* budget too small for the copies of both.                                *)
(***************************************************************************)
EXTENDS WriteAhead

TwoAndOne == <<2, 2, 1>>
=============================================================================
