----------------------------- MODULE PromptCache -----------------------------
(***************************************************************************)
(* What the session cache promises its requests, whatever it does inside   *)
(* (tiers, write ahead, forks, lineage ids): decode states it can start a  *)
(* request from, each known by the cells it was computed from.  A request  *)
(* starts from the longest of them that its prompt properly extends and    *)
(* that ends in none of its images, and the cache only ever keeps what     *)
(* some request computed, across restarts too.                             *)
(***************************************************************************)
EXTENDS Naturals, SequencesExt

CONSTANTS Requests,  \* the requests that can run at once
          Prompted,  \* the cells of the prompts
          Image,     \* the cells that belong to images
          Nothing    \* no request

VARIABLES kept,      \* the cells behind each state that can be resumed
          running    \* per request: the prompt and what is computed so far

(* Everything a run that computed `cells` passes through. *)
Behind(cells) == {SubSeq(cells, 1, n) : n \in 0 .. Len(cells)}

(* What ends inside an image of `cells` (a prefill stopped there). *)
Torn(k, cells) == k # <<>> /\ {cells[Len(k)], cells[Len(k) + 1]} \subseteq Image

(* At least the last cell of a prompt is computed for its request. *)
Usable(cells) == {k \in kept \cup {<<>>} : IsStrictPrefix(k, cells) /\ ~Torn(k, cells)}

Begin(r, cells) ==
    /\ running[r] = Nothing
    /\ \E from \in Usable(cells) :
         /\ \A other \in Usable(cells) : Len(other) =< Len(from)
         /\ running' = [running EXCEPT ![r] = [prompt |-> cells, done |-> from]]
    /\ kept' \subseteq kept

(* The prompt is computed in order, then whatever is generated. *)
Compute(r) ==
    /\ running[r] # Nothing /\ running'[r] # Nothing
    /\ running' = [running EXCEPT ![r].done = running'[r].done]
    /\ IsPrefix(running[r].done, running'[r].done)
    /\ IsPrefix(running[r].prompt, running'[r].done) \/ IsPrefix(running'[r].done, running[r].prompt)
    /\ kept' \subseteq kept \cup Behind(running'[r].done)

End(r) ==
    /\ running[r] # Nothing
    /\ running' = [running EXCEPT ![r] = Nothing]
    /\ kept' \subseteq kept \cup Behind(running[r].done)

(* Evictions, expiry, failed writes. *)
Forget == kept' \subseteq kept /\ UNCHANGED running

(* The process is another one, which finds some of what was kept. *)
Restart == kept' \subseteq kept /\ running' = [r \in Requests |-> Nothing]

Init == kept = {} /\ running = [r \in Requests |-> Nothing]

Next ==
    \/ \E r \in Requests : (\E cells \in Prompted : Begin(r, cells)) \/ Compute(r) \/ End(r)
    \/ Forget \/ Restart

Spec == Init /\ [][Next]_<<kept, running>>
=============================================================================
