---------------------------- MODULE PassPrograms ----------------------------
(***************************************************************************)
(* The programs the passes are checked over: sequences of passes the       *)
(* engine commits, of a model of one recurrent and one attention layer     *)
(* (the n-gram embedding in front of the second) and a draft head.         *)
(***************************************************************************)
EXTENDS RowsGraph, VisionGraph, TLC

Greedy == [greedy |-> TRUE, penalties |-> FALSE, two_phase |-> FALSE]
Penalized == [greedy |-> FALSE, penalties |-> TRUE, two_phase |-> TRUE]

DenseRow(slot) ==
    [slot |-> slot, sparse |-> FALSE, split |-> TRUE, completes |-> FALSE, head_completes |-> TRUE]
SparseRow(slot) ==
    [slot |-> slot, sparse |-> TRUE, split |-> FALSE, completes |-> TRUE, head_completes |-> FALSE]

Plain == [m |-> 1, skinny |-> TRUE, fused |-> TRUE, cached |-> FALSE, q8 |-> FALSE,
          logs |-> FALSE, blocks |-> FALSE, sparse |-> FALSE, split |-> FALSE,
          dense |-> 0, qb |-> 1, main |-> FALSE, tail |-> TRUE, params |-> Greedy,
          images |-> FALSE, verify |-> FALSE, slot |-> 0, buffer |-> 0, pos |-> {}, rope |-> {},
          draws |-> FALSE, mtp |-> TRUE, first |-> FALSE, done |-> "done",
          parked |-> FALSE, row |-> <<>>]

(* Steps of one session, each parked behind the one before.                *)
Steps(c) ==
    encode_decode_step(c, 0, 1, 0) \o
    encode_decode_step([c EXCEPT !.parked = TRUE], 1, 0, 0)

(* A prompt of three chunks, the first from the start of the sequence; the *)
(* second and the third are staged ahead, into the two buffers in turn.    *)
Prompt(c, tokens) == prefill_chunks([c EXCEPT !.first = TRUE, !.draws = TRUE], tokens, TRUE, 3)
Chunk(c) == prefill_chunks(c, c.m, FALSE, 1)

(* The first proposals, two speculative steps, and an end in front of a    *)
(* row the GPU accepted.                                                   *)
Speculation(c, chain) ==
    LET turned == [c EXCEPT !.slot = 1 - c.slot]
    IN  draft_initial(c, c.m - 1) \o
        verify(c, chain) \o finish_speculation(c) \o
        verify(turned, chain) \o finish_speculation(turned) \o
        ends_early(turned)

(* Two batched steps, the second parked behind the first.                  *)
Batched(c) == commit_session_rows(c, "rows") \o park_session_rows(c, 0)

PassesEncoded == {
    \* decoding, within the dense limit and past it, and logged
    Steps([Plain EXCEPT !.split = TRUE, !.blocks = TRUE]),
    Steps([Plain EXCEPT !.sparse = TRUE, !.cached = TRUE, !.params = Penalized]),
    encode_decode_step([Plain EXCEPT !.logs = TRUE], 0, 1, 0),
    \* a prompt with an image; chunks long enough for the other kernels; a logged one
    Prompt([Plain EXCEPT !.m = 6, !.dense = 8, !.qb = 6, !.blocks = TRUE, !.images = TRUE,
                         !.rope = tensor("ps", "positions"), !.cached = TRUE], 15),
    Chunk([Plain EXCEPT !.m = 10, !.fused = FALSE, !.skinny = FALSE, !.dense = 4,
                        !.qb = 3, !.split = TRUE, !.q8 = TRUE, !.draws = TRUE]),
    Chunk([Plain EXCEPT !.m = 17, !.dense = 1, !.qb = 16, !.main = TRUE, !.cached = TRUE]),
    Chunk([Plain EXCEPT !.m = 2, !.logs = TRUE, !.dense = 2, !.first = TRUE]),
    \* speculation, batched rows, two images
    Speculation([Plain EXCEPT !.m = 3, !.verify = TRUE, !.dense = 2, !.params = Penalized,
                              !.done = "verified"], 2),
    Batched([Plain EXCEPT !.m = 2, !.row = (0 :> DenseRow(1) @@ 1 :> SparseRow(0)),
                          !.params = Penalized]),
    forward_with \o forward_with}

(* What a program finds filled: what outlives a pass, and the last token.  *)
Lasting == {"state", "session", "mst", "sampler", "rs.sampler", "slot_of"}
Outlives(r) == r[1] \in Lasting \/ r \in next_token(0)
=============================================================================
