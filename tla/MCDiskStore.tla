----------------------------- MODULE MCDiskStore -----------------------------
(***************************************************************************)
(* Instance of DiskStore: one lineage is larger than the smaller budget.   *)
(***************************************************************************)
EXTENDS DiskStore, TLC

Sizes == "A" :> 1 @@ "B" :> 3
=============================================================================
