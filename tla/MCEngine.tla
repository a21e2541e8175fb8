------------------------------ MODULE MCEngine ------------------------------
(***************************************************************************)
(* EngineLoop with two clients and one place: one is served while the      *)
(* other is queued, or both ask for the place at once and one is refused.  *)
(***************************************************************************)
EXTENDS EngineLoop
=============================================================================
