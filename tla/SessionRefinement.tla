-------------------------- MODULE SessionRefinement --------------------------
(***************************************************************************)
(* SessionStore implements PromptCache.                                    *)
(***************************************************************************)
EXTENDS SessionStore

(* Every position something resident, parked or on disk can be resumed at. *)
KeptStates ==
    {c.rec : c \in UNION {l.ckpts : l \in entries \cup parked \cup disk}}
      \cup {s.rec : s \in entries \cup parked}

(* A request runs from its lookup to its release. *)
RunningRequests ==
    [r \in Slots |-> IF session[r] = NoSession THEN None
                     ELSE [prompt |-> plan[r].prompt.cells, done |-> session[r].rec]]

Cache == INSTANCE PromptCache WITH
    Requests <- Slots, Prompted <- {p.cells : p \in Prompts}, Image <- Images, Nothing <- None,
    kept <- KeptStates, running <- RunningRequests

(* None is no request (an Option of the code). *)
ASSUME IdleAssumption == None \notin [prompt : Seq(Cell), done : Seq(CellType)]

(* Whatever the store does in its tiers, a request starts from the longest *)
(* state ever computed of its prompt that the cache still has, and the     *)
(* cache has nothing that no request computed (acquire, release, spills,   *)
(* write ahead, cancelled or not).                                         *)
ImplementsPromptCache == Cache!Spec
=============================================================================
