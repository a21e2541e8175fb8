----------------------------- MODULE DecodeGraph -----------------------------
(***************************************************************************)
(* One decode step of one session (encode_decode_graph of                  *)
(* src/qwen4exp/model.rs), encoded concurrently; parked, it waits in the   *)
(* middle for the rows the host stages once it knows the token.            *)
(***************************************************************************)
EXTENDS StreamGraph

s(name)   == tensor("s", name)
ple(name) == tensor("s.ple", name)
qsa(name) == tensor("s.qsa", name)
hc(name)  == tensor("s.hc", name)

(* The fused projections are one tensor, read in slices.                   *)
gdn_in   == s("qkv") \cup s("a") \cup s("b") \cup s("z")
attn_qkv == s("qg") \cup s("k_new") \cup s("v_new")

ple_decode(layer, conv_slot) ==
    gather_ngram("s.ple", 0) \o
    rmsnorm_grouped_bf16(s("hyper"), ple("query_n")) \o
    level_barrier \o
    gemv_quant(ple("emb"), ple("key")) \o
    gemv_quant(ple("emb"), ple("value")) \o
    level_barrier \o
    rmsnorm_grouped_bf16(ple("key"), ple("key_n")) \o
    level_barrier \o
    ple_gate_value_bf16(ple("key_n"), ple("query_n"), ple("value"), ple("gated")) \o
    level_barrier \o
    rmsnorm_grouped_bf16(ple("gated"), ple("gated_n")) \o
    level_barrier \o
    ple_conv1d_step(Window("ple_window", layer, conv_slot), ple("gated_n"), ple("gated"), s("hyper")) \o
    level_barrier

gdn_decode_branch(layer, conv_slot) ==
    gemv_quant(hc("mixed"), gdn_in) \o
    level_barrier \o
    conv1d_step(Window("conv_window", layer, conv_slot), s("qkv"), s("qkv_conv")) \o
    level_barrier \o
    gdn_step_gated_fused(s("qkv_conv"), s("a"), s("b"), StateOf(layer, "gdn"), s("z"), s("gdn_gated")) \o
    level_barrier \o
    gemv_quant(s("gdn_gated"), s("branch_out"))

(* Within the dense limit every position is attended to, beyond it the     *)
(* blocks the indexer selects.                                             *)
dense_or_sparse(c, k_cache, v_cache, blk_keys) ==
    IF ~c.sparse
    THEN sdpa_decode(s("q"), k_cache, v_cache, s("attn_o"), s("sdpa_partials"), c.split)
    ELSE qsa_scores(s("idx_q"), blk_keys, qsa("scores"), {}) \o
         level_barrier \o
         qsa_select_blocks(qsa("scores"), qsa("sel"), {}) \o
         level_barrier \o
         qsa_attention(s("q"), k_cache, v_cache, qsa("sel"), s("attn_o"), qsa("partials"), {})

attn_decode_branch(c, layer) ==
    LET k_cache  == StateOf(layer, "k_cache")
        v_cache  == StateOf(layer, "v_cache")
        idx_keys == StateOf(layer, "idx_keys")
        blk_keys == StateOf(layer, "blk_keys")
    IN  gemv_quant(hc("mixed"), attn_qkv) \o
        gemv_quant(hc("mixed"), s("idx_qk")) \o
        level_barrier \o
        q_norm_rope_split_decode(s("qg"), s("q"), s("gate")) \o
        k_norm_rope_scatter_decode(s("k_new"), k_cache) \o
        scatter_kv(v_cache, s("v_new"), {}) \o
        qsa_prep_q(s("idx_qk"), s("idx_q"), {}) \o
        qsa_scatter_keys(s("idx_qk"), idx_keys, {}) \o
        level_barrier \o
        If(c.blocks, qsa_block_keys(idx_keys, blk_keys, {}) \o level_barrier) \o
        dense_or_sparse(c, k_cache, v_cache, blk_keys) \o
        level_barrier \o
        sigmoid_mul_bf16(s("gate"), s("attn_o"), s("attn_gated")) \o
        level_barrier \o
        gemv_quant(s("attn_gated"), s("branch_out"))

(* The parked wait: the host reads the token of the step before, once that *)
(* step is done, and stages its rows.                                      *)
encode_wait(slot_in) == wait_event("done", next_token(slot_in), staged_rows(0))

decode_layer(c, layer, conv_slot, slot_in) ==
    LET io == [x |-> hc("mixed"), out |-> s("branch_out"), mlp_gate |-> s("mlp_gate"),
               mlp_up |-> s("mlp_up"), mlp_act |-> s("mlp_act")]
    IN  If(Layers[layer].ple, If(c.parked, encode_wait(slot_in)) \o ple_decode(layer, conv_slot)) \o
        hc_read_decode(TRUE) \o
        (IF Layers[layer].mixer = "gdn" THEN gdn_decode_branch(layer, conv_slot)
                                        ELSE attn_decode_branch(c, layer)) \o
        level_barrier \o
        hc_inject_bf16(s("hyper"), s("branch_out"), hc("inj")) \o
        level_barrier \o
        hc_read_decode(TRUE) \o
        decode_moe(c, layer, io, "s.moe") \o
        level_barrier \o
        encode_read_check(c, TRUE, layer, s("hyper")) \o
        hc_inject_bf16(s("hyper"), s("branch_out"), hc("inj")) \o
        level_barrier \o
        encode_routing_log(c, TRUE, layer, hc("mixed"), s("hyper"), tensor("s.moe", "indices"))

sampler == [name \in {"counts", "adjusted", "maxima", "local_ids", "argmax_partials"} |->
               tensor("sampler", name)]

decode_head(params, out) ==
    hc_read_decode(FALSE) \o
    gemv_quant(hc("mixed"), s("logits")) \o
    level_barrier \o
    sample_f32(s("logits"), sampler, params, out) \o
    level_barrier

encode_decode_graph(c, slot_in, slot_out, conv_slot) ==
    gather_rows_quant(next_token(slot_in), s("x")) \o
    level_barrier \o
    hc_broadcast_bf16(s("x"), s("hyper")) \o
    level_barrier \o
    ForEach(Len(Layers), LAMBDA layer : decode_layer(c, layer, conv_slot, slot_in)) \o
    decode_head(c.params, next_token(slot_out)) \o
    signal_event("done")

(* A step: unparked, the host stages the rows before it commits.           *)
prepare_step_inputs(slot_in) == wait_event("done", next_token(slot_in), staged_rows(0))
encode_decode_step(c, slot_in, slot_out, conv_slot) ==
    If(~c.parked, prepare_step_inputs(slot_in)) \o
    begin_concurrent(encode_decode_graph(c, slot_in, slot_out, conv_slot))
=============================================================================
