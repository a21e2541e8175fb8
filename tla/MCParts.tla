------------------------------- MODULE MCParts -------------------------------
(***************************************************************************)
(* Parts whose properties need no fairness: the disk tier's files, the     *)
(* decode checkpoints, prefix matching, the thinking control, the compute  *)
(* passes.  They share no state, so a behaviour is one of one `machine`,   *)
(* and the others keep still.                                              *)
(***************************************************************************)
EXTENDS MCDiskStore, DecodeCheckpoints, LineagePair, ThinkingControl, ComputePass

VARIABLE machine

ImageLens == [i \in Images |-> IF i = "i" THEN 1 ELSE 2]

(* Texts that reach every rule, a budget with and without windows, and the *)
(* calls that end thinking.                                                *)
SomePieces ==
    {<<"word">>, <<"word", "mark">>, <<"newline">>, <<"blank">>,
     <<"tick", "tick", "tick">>, <<"tilde", "tilde", "tilde", "newline">>}
SomeThinkings ==
    {[budget |-> t[1], grace |-> t[2], nudges |-> TRUE, ends |-> t[3]] :
        t \in {<<NoBudget, 0, TRUE>>, <<3, 1, FALSE>>, <<3, 0, TRUE>>}}
ThirdAndTwo == <<<<1, 3>>, <<2, 3>>>>

(* The passes the engine encodes, and none. *)
Passes == INSTANCE PassPrograms
SomePrograms == Passes!PassesEncoded \cup {<<>>}
Outlives(r)  == Passes!Outlives(r)

pairVars  == <<lineage, prompt>>
partsVars == <<machine, diskVars, vars, pairVars, thinkingVars, passVars>>

PartsInit ==
    /\ machine \in {"disk", "spacing", "pair", "thinking", "pass"}
    /\ PassInit /\ (machine # "pass" => prog.text = <<>>)
    /\ DiskInit /\ Init /\ PairInit /\ ThinkingInit
    /\ machine # "disk" => budget = 3
    /\ machine # "spacing" => interval = 0 /\ max = 0 /\ start = 0 /\ drafts = 0
    /\ machine # "thinking" => settings.budget = NoBudget /\ ~open

DiskAlone     == machine = "disk" /\ UNCHANGED <<machine, vars, pairVars, thinkingVars, passVars>>
SpacingAlone  == machine = "spacing" /\ UNCHANGED <<machine, diskVars, pairVars, thinkingVars, passVars>>
PairAlone     == machine = "pair" /\ UNCHANGED <<machine, diskVars, vars, thinkingVars, passVars>>
ThinkingAlone == machine = "thinking" /\ UNCHANGED <<machine, diskVars, vars, pairVars, passVars>>
PassAlone     == machine = "pass" /\ UNCHANGED <<machine, diskVars, vars, pairVars, thinkingVars>>

PartsNext ==
    \/ DiskAlone /\ DiskNext
    \/ SpacingAlone /\ Next
    \/ PairAlone /\ PairNext
    \/ ThinkingAlone /\ ThinkingNext
    \/ PassAlone /\ PassNext

PartsSpec == PartsInit /\ [][PartsNext]_partsVars
=============================================================================
