---------------------------- MODULE MCGeneration ----------------------------
(***************************************************************************)
(* What makes the tokens of an answer: the decode loops of one generation, *)
(* the batch scheduler, the expert cache.  They share no state here, so a  *)
(* behaviour is one of one `machine`, and the others keep still.           *)
(***************************************************************************)
EXTENDS DecodeLoop, Batch, ExpertCache

VARIABLE machine

allVars == <<machine, decodeVars, batchVars, cacheVars>>

AllInit ==
    /\ machine \in {"loop", "batch", "cache"}
    /\ DecodeInit /\ BatchInit /\ CacheInit
    /\ machine # "loop" => mode = "park" /\ spaced = 0 /\ capacity = 0
    /\ machine # "cache" => prefetch = "none"

LoopAlone  == machine = "loop" /\ UNCHANGED <<machine, batchVars, cacheVars>>
BatchAlone == machine = "batch" /\ UNCHANGED <<machine, decodeVars, cacheVars>>
CacheAlone == machine = "cache" /\ UNCHANGED <<machine, decodeVars, batchVars>>

AllNext ==
    \/ LoopAlone /\ DecodeNext
    \/ BatchAlone /\ BatchNext
    \/ CacheAlone /\ CacheNext

(* The fairness of the machine that runs: its host thread, its GPU (or the *)
(* cache's service thread), its reads.  Only its own steps change its      *)
(* variables.                                                              *)
AllFairness ==
    /\ WF_decodeVars(machine = "loop" /\ DecodeHost)
    /\ WF_decodeVars(machine = "loop" /\ Gpu)
    /\ WF_batchVars(machine = "batch" /\ Engine)
    /\ WF_batchVars(machine = "batch" /\ RunStep)
    /\ WF_cacheVars(machine = "cache" /\ CacheService)
    /\ WF_cacheVars(machine = "cache" /\ CacheGpu)
    /\ WF_cacheVars(machine = "cache" /\ Land)

AllSpec == AllInit /\ [][AllNext]_allVars /\ AllFairness

(* Every generation ends, an aborted one too: no parked step keeps the     *)
(* queue (ReleaseOnExit, PendingPass::drop).                               *)
GenerationEnds == <>[](machine = "loop" => GenerationOver)
=============================================================================
