------------------------------ MODULE RowsGraph ------------------------------
(***************************************************************************)
(* A batched decode step (src/qwen4exp/batch.rs): one row of each of       *)
(* several sessions.  Projections run over all rows at once, the recurrent *)
(* and the attention kernels row by row, a level for all of them, on the   *)
(* row's own state and its part of the shared scratch.                     *)
(*                                                                         *)
(* `c.row` says of every row whether it is past the dense limit (sparse),  *)
(* whether its attention splits, whether it completes an indexer block,    *)
(* and whether it does for the draft head, a position behind; and of which *)
(* session it is (slot).                                                   *)
(***************************************************************************)
EXTENDS DraftGraph

EachRow(c, Steps(_)) == ForEach(c.m, LAMBDA i : Steps(i - 1))
ThoseRows(c, Test(_), Steps(_)) == EachRow(c, LAMBDA r : If(Test(r), Steps(r)))

session(c, r, layer, name) == {<<"session", name, layer, c.row[r].slot>>}
row_scratch(r, name)       == {<<"rs", name, r>>}
row_sampler(c, r) ==
    [name \in {"counts", "adjusted", "maxima", "local_ids", "argmax_partials"} |->
        {<<"rs.sampler", name, c.row[r].slot>>}]
AllRows(c, name) == rows("ps", name, Rows(c))
draws(out, some) == {<<"draws", out, i>> : i \in some}

ple_rows(c, layer) ==
    gather_ngram("ps.ple", 0) \o
    rmsnorm_grouped_bf16(hyper_rows(c), pp("query_n")) \o
    level_barrier \o
    project_mat(c, c.m, pp("emb"), pp("key")) \o
    project_mat(c, c.m, pp("emb"), pp("value")) \o
    level_barrier \o
    rmsnorm_grouped_bf16(pp("key"), pp("key_n")) \o
    level_barrier \o
    ple_gate_value_bf16(pp("key_n"), pp("query_n"), pp("value"), pp("gated")) \o
    level_barrier \o
    rmsnorm_grouped_bf16(pp("gated"), pp("gated_n")) \o
    level_barrier \o
    EachRow(c, LAMBDA r :
        ple_conv1d_step(session(c, r, layer, "ple_window"), pp("gated_n"), pp("gated"), row("hyper", r))) \o
    level_barrier

gdn_rows(c, layer) ==
    project_stack_or_slices(c, phc("mixed"), ps("stack"), <<ps("qkv"), ps("z"), ps("a"), ps("b")>>) \o
    level_barrier \o
    EachRow(c, LAMBDA r :
        conv1d_step(session(c, r, layer, "conv_window"), ps("qkv"), row("qkv_conv", r))) \o
    level_barrier \o
    EachRow(c, LAMBDA r :
        gdn_step_gated_fused(row("qkv_conv", r), ps("a"), ps("b"), session(c, r, layer, "gdn"),
                             ps("z"), row("gdn_gated", r))) \o
    level_barrier \o
    project_mat(c, c.m, AllRows(c, "gdn_gated"), ps("branch_out"))

------------------------------------------------------------------------------
(* Attention against each row's caches. *)

row_blocks(c, layer) ==
    LET completes(r) == IF layer = MtpLayer THEN c.row[r].head_completes ELSE c.row[r].completes
    IN  ThoseRows(c, completes, LAMBDA r :
            qsa_block_keys(session(c, r, layer, "idx_keys"), session(c, r, layer, "blk_keys"), {})) \o
        If(\E r \in Rows(c) : completes(r), level_barrier)

row_attention(c, layer) ==
    LET sparse(r) == c.row[r].sparse
    IN  EachRow(c, LAMBDA r :
            IF sparse(r)
            THEN qsa_scores(row("idx_q", r), session(c, r, layer, "blk_keys"), row_scratch(r, "scores"), {})
            ELSE sdpa_decode(row("q", r), session(c, r, layer, "k_cache"), session(c, r, layer, "v_cache"),
                             row("attn_o", r), row_scratch(r, "sdpa_partials"), c.row[r].split)) \o
        If(\E r \in Rows(c) : sparse(r),
           level_barrier \o
           ThoseRows(c, sparse, LAMBDA r :
               qsa_select_blocks(row_scratch(r, "scores"), row_scratch(r, "sel"), {})) \o
           level_barrier \o
           ThoseRows(c, sparse, LAMBDA r :
               qsa_attention(row("q", r), session(c, r, layer, "k_cache"), session(c, r, layer, "v_cache"),
                             row_scratch(r, "sel"), row("attn_o", r), row_scratch(r, "partials"), {})))

row_keys(c, r, layer) ==
    k_norm_rope_scatter_decode(ps("k_new"), session(c, r, layer, "k_cache")) \o
    scatter_kv(session(c, r, layer, "v_cache"), ps("v_new"), {})
row_index(c, r, layer) ==
    qsa_scatter_keys(ps("idx_qk"), session(c, r, layer, "idx_keys"), {})

attn_rows(c, layer) ==
    project_stack_or_slices(c, phc("mixed"), ps("stack"), <<ps("qg"), ps("k_new"), ps("v_new")>>) \o
    project_mat(c, c.m, phc("mixed"), ps("idx_qk")) \o
    level_barrier \o
    EachRow(c, LAMBDA r :
        q_norm_rope_split_decode(ps("qg"), row("q", r), row("gate", r)) \o
        row_keys(c, r, layer) \o
        qsa_prep_q(ps("idx_qk"), row("idx_q", r), {}) \o
        row_index(c, r, layer)) \o
    level_barrier \o
    row_blocks(c, layer) \o
    row_attention(c, layer) \o
    level_barrier \o
    sigmoid_mul_bf16(AllRows(c, "gate"), AllRows(c, "attn_o"), ps("attn_gated")) \o
    level_barrier \o
    project_mat(c, c.m, ps("attn_gated"), ps("branch_out"))

attn_rows_cache_writes(c, layer) ==
    project_mat(c, c.m, phc("mixed"), ps("k_new")) \o
    project_mat(c, c.m, phc("mixed"), ps("v_new")) \o
    project_mat(c, c.m, phc("mixed"), ps("idx_qk")) \o
    level_barrier \o
    EachRow(c, LAMBDA r : row_keys(c, r, layer) \o row_index(c, r, layer)) \o
    level_barrier \o
    row_blocks(c, layer)

(* The draft head keeps up: a row's token with the hidden in front of it.  *)
mtp_rows(c, ids) ==
    EachRow(c, LAMBDA r : copy_words(session(c, r, MtpLayer, "hidden"), hidden_in({r}))) \o
    level_barrier \o
    mtp_input([c EXCEPT !.images = FALSE], hidden_in(Rows(c)), ids) \o
    hc_read_batched(c, TRUE, mtp_hyper(c)) \o
    attn_rows_cache_writes(c, MtpLayer) \o
    EachRow(c, LAMBDA r : copy_words(row("hyper", r), session(c, r, MtpLayer, "hidden"))) \o
    level_barrier

------------------------------------------------------------------------------
row_layer(c, layer, parked_wait) ==
    If(Layers[layer].ple, parked_wait \o ple_rows(c, layer)) \o
    hc_read_batched(c, TRUE, hyper_rows(c)) \o
    (IF Layers[layer].mixer = "gdn" THEN gdn_rows(c, layer) ELSE attn_rows(c, layer)) \o
    level_barrier \o
    inject(hyper_rows(c)) \o
    hc_read_batched(c, TRUE, hyper_rows(c)) \o
    prefill_moe(c, layer, moe_io, "ps.moe") \o
    level_barrier \o
    inject(hyper_rows(c))

(* Every row draws with its own sampler, all of them in one level.         *)
encode_rows(c, ids, out, parked_wait) ==
    gather_rows_quant(ids, ps("x")) \o
    level_barrier \o
    hc_broadcast_bf16(ps("x"), hyper_rows(c)) \o
    level_barrier \o
    ForEach(Len(Layers), LAMBDA layer : row_layer(c, layer, parked_wait)) \o
    hc_read_batched(c, FALSE, hyper_rows(c)) \o
    project_mat(c, c.m, phc("mixed"), ps("logits")) \o
    level_barrier \o
    EachRow(c, LAMBDA r : sample_f32(ps("logits"), row_sampler(c, r), c.params, draws(out, {r}))) \o
    level_barrier \o
    If(c.mtp, mtp_rows(c, ids))

(* A step the host has staged, and the one parked behind it: that reads    *)
(* the draws as its ids, and the host stages its rows once it has taken    *)
(* them.  Either's pass completes before anything of the next starts.      *)
commit_session_rows(c, behind) ==
    wait_event(behind, {}, rows("ps", "ids", Rows(c)) \cup staged_rows(0)) \o
    begin_batched(c, encode_rows(c, rows("ps", "ids", Rows(c)), 0, <<>>) \o signal_event("rows"))

park_session_rows(c, after) ==
    begin_batched(c, encode_rows(c, draws(after, Rows(c)), 1 - after,
                                 wait_event("rows", draws(after, Rows(c)), staged_rows(0))) \o
                     signal_event("rows"))
=============================================================================
