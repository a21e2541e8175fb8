----------------------------- MODULE DraftGraph ------------------------------
(***************************************************************************)
(* The draft head's passes (src/qwen4exp/spec.rs).  Behind a verify pass   *)
(* the GPU itself decides how many rows it accepts, rolls the state back   *)
(* to them and chains the next proposals, while the host still reads what  *)
(* the verify pass drew.                                                   *)
(***************************************************************************)
EXTENDS BatchGraph

ctrl_word(name) == tensor("sp.ctrl", name)
AtChain(i)  == {<<"sp.ctrl", word, i>> : word \in {"pos", "block", "count"}}
ctrl(chain) == ctrl_word("accepted") \cup ctrl_word("keep") \cup UNION {AtChain(i) : i \in 1 .. chain}

(* The recurrent state and the windows of the rows that stay: `keep` says  *)
(* on the GPU how many, `accepted` which state after a row.                *)
GdnLayers == {layer \in DOMAIN Layers : Layers[layer].mixer = "gdn"}
PleLayers == {layer \in DOMAIN Layers : Layers[layer].ple}

roll_window(c, name, captured, layer, keep) ==
    conv_window_rollback(Window(name, layer, c.slot), Captured([c EXCEPT !.verify = TRUE], captured, layer),
                         keep, Window(name, layer, 1 - c.slot))

rollback(c, accepted, keep) ==
    ForEach(Len(Layers), LAMBDA layer :
        If(layer \in GdnLayers,
           copy_row({<<"sp", "mid", layer>>}, accepted, StateOf(layer, "gdn")) \o
           roll_window(c, "conv_window", "conv_in", layer, keep)) \o
        If(layer \in PleLayers, roll_window(c, "ple_window", "ple_conv_in", layer, keep))) \o
    level_barrier

(* Proposals one behind the other: each is drawn from the head's last      *)
(* residual, and stands for the next row's token.                          *)
one_row(c, pos) == [c EXCEPT !.m = 1, !.pos = pos, !.images = FALSE]

propose(c, last, i) ==
    hc_read_batched(one_row(c, {}), FALSE, last) \o
    project_mat(c, 1, phc("mixed"), logits_rows({0})) \o
    level_barrier \o
    sample_draft_f32(logits_rows({0}), sampler, c.params, draft_tokens({i - 1}), dists(i - 1)) \o
    level_barrier

ChainLast(first, i) == IF i = 1 THEN first ELSE row("mtp_hyper", 0)

chained(c, chain, first, At(_)) ==
    ForEach(chain, LAMBDA i :
        propose(c, ChainLast(first, i), i) \o
        If(i < chain, mtp_block(one_row(c, At(i)), ChainLast(first, i), draft_tokens({i - 1}))))

(* The draft pass behind a verify pass of c.m rows.                        *)
encode_draft_selected(c, chain) ==
    LET draws    == verify_tokens(Rows(c))
        accepted == ctrl_word("accepted")
    IN  begin_concurrent(
            spec_accept(draws, rows("ps", "ids", Rows(c)), ctrl(chain)) \o
            level_barrier \o
            If(c.m > 1, rollback(c, accepted, ctrl_word("keep"))) \o
            copy_row(hyper_rows(c), accepted, mst_hidden) \o
            mtp_block(c, hyper_rows(c), draws) \o
            If(chain > 0,
               copy_row(mtp_hyper(c), accepted, sp("chain_in")) \o
               level_barrier \o
               chained(c, chain, sp("chain_in"), AtChain)) \o
            signal_event("drafted"))

(* A draft pass the host drives: the first proposals of a request, or a    *)
(* rollback further than the GPU's.                                        *)
HostRows(n) == {<<"sp", "mtp_ids", i>> : i \in 0 .. n - 1}
encode_draft(c, hidden, n, keep, rolls, proposed) ==
    begin_concurrent(
        If(rolls, rollback(c, {}, {})) \o
        If(keep # {}, copy_words(keep, mst_hidden)) \o
        If(n > 0,
           mtp_block([c EXCEPT !.m = n], hidden, HostRows(n)) \o
           chained(c, proposed, row("mtp_hyper", 0), LAMBDA i : {})) \o
        signal_event("drafted"))

draft_initial(c, proposed) ==
    wait_event("done", next_token(0), HostRows(1)) \o
    encode_draft(c, mst_hidden, 1, {}, FALSE, proposed)

(* A speculative step: verify and draft pass follow each other on the      *)
(* queue.  The host takes the draws, uncounts what is not accepted and     *)
(* waits for the draft pass before it stages the next step.                *)
verify(c, chain) ==
    wait_event("drafted", draft_tokens(0 .. c.m - 2), rows("ps", "ids", Rows(c)) \cup staged_rows(0)) \o
    encode_batch(c) \o
    encode_draft_selected(c, chain)

finish_speculation(c) ==
    wait_event("verified", verify_tokens(Rows(c)),
               IF c.params.penalties THEN tensor("sampler", "counts") ELSE {})

(* The generation ends in front of a row the GPU accepted.                 *)
ends_early(c) ==
    wait_event("drafted", {}, {}) \o encode_draft(c, {}, 0, row("hyper", 0), TRUE, 0)
=============================================================================
