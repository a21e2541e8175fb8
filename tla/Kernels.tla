------------------------------ MODULE Kernels ------------------------------
(***************************************************************************)
(* What each kernel wrapper encodes (src/kernels): the tensors its         *)
(* dispatch reads and writes, and the barriers of those that take several. *)
(* Arithmetic, shapes and the choice between variants of one dispatch are  *)
(* abstracted.  A K/V cache holds its values and, in q8, its scales.       *)
(***************************************************************************)
EXTENDS PassItems

------------------------------------------------------------------------------
(* elementwise.rs *)

copy_words(src, dst)         == dispatch(src, dst)
silu_mul_bf16(gate, up, out) == dispatch(gate \cup up, out)
silu_mul_rows_bf16(gu, out)  == dispatch(gu, out)
sigmoid_mul_bf16(a, b, out)  == dispatch(a \cup b, out)
add_bf16(a, b, out)          == dispatch(a \cup b, out)
gelu_bf16(x)                 == dispatch(x, x)
split_cols_bf16(src, dsts)   == dispatch(src, dsts)
gather_rows_bf16(table, ids, out) == dispatch(table \cup ids, out)
gather_row_bf16(table, out)  == dispatch(table, out)

argmax_f32_partial(x, partials) == dispatch(x, partials)
argmax_f32_final(partials, out) == dispatch(partials, out)
argmax_f32(x, partials, out) ==
    argmax_f32_partial(x, partials) \o level_barrier \o argmax_f32_final(partials, out)

------------------------------------------------------------------------------
(* norm.rs, hc.rs, ple.rs *)

rmsnorm_bf16(x, out)         == dispatch(x, out)
layernorm_bf16(x, out)       == dispatch(x, out)
rmsnorm_grouped_bf16(x, out) == dispatch(x, out)
silu_scaled_bf16(x, out)     == dispatch(x, out)
hc_mix_bf16(up, hn, mixed)   == dispatch(up \cup hn, mixed)
hc_inject_bf16(hyper, branch, inj) == dispatch(hyper \cup branch \cup inj, hyper)
hc_broadcast_bf16(x, hyper)  == dispatch(x, hyper)

(* The two halves of a fused read; of several rows the first half also     *)
(* applies the activation.                                                 *)
dispatch_read_down(hyper, down, inj, inv_rms, act) ==
    dispatch(hyper, down \cup inj \cup inv_rms \cup act)
hc_read_down_q8(hyper, down, inj, inv_rms) ==
    dispatch_read_down(hyper, down, inj, inv_rms, {})
hc_read_down_q8_rows(hyper, down, inj, inv_rms, act) ==
    dispatch_read_down(hyper, down, inj, inv_rms, act)
dispatch_read_up_mix(down, hyper, inv_rms, mixed) ==
    dispatch(down \cup hyper \cup inv_rms, mixed)
hc_read_up_mix_q8(down, hyper, inv_rms, mixed) ==
    dispatch_read_up_mix(down, hyper, inv_rms, mixed)
hc_read_up_mix_q8_rows(act, hyper, inv_rms, mixed) ==
    dispatch_read_up_mix(act, hyper, inv_rms, mixed)

ple_gather_q4(table, ids, out) == dispatch(table \cup ids, out)
ple_gate_value_bf16(key, query, value, gated) == dispatch(key \cup query \cup value, gated)
ple_conv1d_prefill(window_in, window_out, x, base, hyper) ==
    dispatch(window_in \cup x \cup base \cup hyper, window_out \cup hyper)
ple_conv1d_step(window, x, base, hyper) ==
    dispatch(window \cup x \cup base \cup hyper, window \cup hyper)

------------------------------------------------------------------------------
(* quant.rs, skinny.rs, gemm.rs *)

gemv_quant(x, y)           == dispatch(x, y)
gather_rows_quant(ids, out) == dispatch(ids, out)
gemm_skinny_nt(a, c)       == dispatch(a, c)
gemm_bf16_nt(a, b, c)      == dispatch(a \cup b, c)
gemm_bf16_nt_bias(a, c)    == dispatch(a, c)
dequant_to_bf16(out)       == dispatch({}, out)
gemm_q4_grouped_nt(a, blocks, c) == dispatch(a \cup blocks, c)

(* A wide projection dequantizes into staging all of them share: both      *)
(* edges get a barrier.                                                    *)
gemm_quant_bf16_nt(a, c, scratch) ==
    dequant_to_bf16(scratch) \o level_barrier \o gemm_bf16_nt(a, scratch, c) \o level_barrier

------------------------------------------------------------------------------
(* gdn.rs *)

gdn_step_gated_fused(qkv, a, b, state, z, out) ==
    dispatch(qkv \cup a \cup b \cup z \cup state, state \cup out)
gdn_qk_l2norm(qkv, qk_norm)      == dispatch(qkv, qk_norm)
gdn_gates(a, b, decay, beta)     == dispatch(a \cup b, decay \cup beta)
conv_window_rollback(window_in, x, n, window_out) ==
    dispatch(window_in \cup x \cup n, window_out)
conv1d_prefill(window_in, window_out, x, out) ==
    dispatch(window_in \cup x, window_out \cup out)
conv1d_step(window, x, out)      == dispatch(window \cup x, window \cup out)
gated_rmsnorm(x, gate, out)      == dispatch(x \cup gate, out)

(* The register scan, which leaves the state after every row in `mid` when *)
(* a verify pass asks for it.                                              *)
RegisterScan(qkv, a, b, st, state, out, mid) ==
    gdn_qk_l2norm(qkv, st.qk_norm) \o gdn_gates(a, b, st.decay, st.beta) \o level_barrier \o
    dispatch(qkv \cup st.qk_norm \cup st.decay \cup st.beta \cup state, state \cup out \cup mid)

gdn_prefill_chunked(qkv, a, b, st, state, out) ==
    gdn_qk_l2norm(qkv, st.qk_norm) \o level_barrier \o
    dispatch(qkv \cup st.qk_norm \cup a \cup b, st.wy) \o level_barrier \o
    dispatch(st.qk_norm \cup st.wy \cup state, state \cup out)

(* Whole chunks take the chunked scan, the rows after them the register    *)
(* scan on the state the chunks left.  `main` and `tail` say whether there *)
(* are such rows.                                                          *)
gdn_prefill_mid(qkv, a, b, st, state, out, mid, main, tail) ==
    IF ~main THEN RegisterScan(qkv, a, b, st, state, out, mid)
    ELSE gdn_prefill_chunked(qkv, a, b, st, state, out) \o
         If(tail, level_barrier \o RegisterScan(qkv, a, b, st, state, out, {}))

------------------------------------------------------------------------------
(* attention.rs, qsa.rs *)

rope_neox(x, positions)      == dispatch(x \cup positions, x)
split_q_gate(qg, q, gate)    == dispatch(qg, q \cup gate)
scatter_kv(cache, new, positions)  == dispatch(new \cup positions, cache)
q_norm_rope_split_decode(qg, q, gate)   == dispatch(qg, q \cup gate)
k_norm_rope_scatter_decode(k, cache)    == dispatch(k, cache)
kv_dequant_q8(cache, out)    == dispatch(cache, out)
sdpa_prefill(q, k_cache, v_cache, out, positions) ==
    dispatch(q \cup k_cache \cup v_cache \cup positions, out)
sdpa_split(q, k_cache, v_cache, out, partials) ==
    dispatch(q \cup k_cache \cup v_cache, partials) \o level_barrier \o dispatch(partials, out)
sdpa_decode(q, k_cache, v_cache, out, partials, splits) ==
    IF splits THEN sdpa_split(q, k_cache, v_cache, out, partials)
    ELSE dispatch(q \cup k_cache \cup v_cache, out)

qsa_prep_q(qk, q, positions)            == dispatch(qk \cup positions, q)
qsa_scatter_keys(qk, cache, positions)  == dispatch(qk \cup positions, cache)
qsa_block_keys(cache, blocks, positions) == dispatch(cache \cup positions, blocks)
qsa_scores(q, blocks, scores, positions) == dispatch(q \cup blocks \cup positions, scores)
qsa_select_blocks(scores, sel, positions) == dispatch(scores \cup positions, sel)
qsa_attention(q, k_cache, v_cache, sel, out, partials, positions) ==
    dispatch(q \cup k_cache \cup v_cache \cup sel \cup positions, partials) \o level_barrier \o
    dispatch(partials, out)
qsa_attention_query(q, k_cache, v_cache, sel, out, positions) ==
    dispatch(q \cup k_cache \cup v_cache \cup sel \cup positions, out)

------------------------------------------------------------------------------
(* moe.rs *)

moe_router_topk(logits, indices, scores)      == dispatch(logits, indices \cup scores)
moe_router_topk_rows(logits, indices, scores) == dispatch(logits, indices \cup scores)
moe_gather_gemv_gate_up(x, indices, y)        == dispatch(x \cup indices, y)
moe_gather_gemv_down_combine(x, indices, scores, shared_out, gate, out) ==
    dispatch(x \cup indices \cup scores \cup shared_out \cup gate, out)
moe_smallm_gate_up(x, indices, y)             == dispatch(x \cup indices, y)
moe_smallm_down_combine(x, indices, scores, shared_out, gate, out) ==
    dispatch(x \cup indices \cup scores \cup shared_out \cup gate, out)
fill_zero_u32(dst)                            == dispatch({}, dst)
moe_build_blocks(offsets, tile_offsets, blocks, slot_of) ==
    dispatch(offsets \cup tile_offsets \cup slot_of, blocks)
moe_remap_slots(indices, slot_of, slots)      == dispatch(indices \cup slot_of, slots)
moe_combine_rows_gate_add(ed, slots, scores, shared, gate, out) ==
    dispatch(ed \cup slots \cup scores \cup shared \cup gate, out)

(* The counting sort counts and places with atomics, on what the caller    *)
(* zeroed.                                                                 *)
moe_sort_slots(b) ==
    dispatch(b.indices \cup b.counts, b.counts) \o level_barrier \o
    dispatch(b.counts, b.offsets \cup b.tile_offsets) \o level_barrier \o
    dispatch(b.indices \cup b.offsets \cup b.cursors,
             b.cursors \cup b.ids_sorted \cup b.slot_of)

------------------------------------------------------------------------------
(* sample.rs, spec.rs *)

samples(params) == ~params.greedy \/ params.penalties

(* Only a sampler with penalties touches the counts of what was emitted.   *)
Counts(s, params) == IF params.penalties THEN s.counts ELSE {}

(* The draw, in one phase or with the slices' candidates first.  A draft   *)
(* also writes its distribution, a verify pass reads the draft's.          *)
encode_draw(logits, s, params, out, reads, writes) ==
    dispatch(logits \cup Counts(s, params), s.adjusted \cup s.maxima) \o level_barrier \o
    If(params.two_phase, dispatch(s.adjusted \cup s.maxima, s.local_ids) \o level_barrier) \o
    dispatch(s.adjusted \cup s.maxima \cup Counts(s, params) \cup reads \cup
                 (IF params.two_phase THEN s.local_ids ELSE {}),
             Counts(s, params) \cup out \cup writes)

draft_params(params) == [params EXCEPT !.penalties = FALSE]

Drawn(logits, s, params, out, reads, writes) ==
    IF samples(params) THEN encode_draw(logits, s, params, out, reads, writes)
    ELSE argmax_f32(logits, s.argmax_partials, out)
sample_f32(logits, s, params, out) == Drawn(logits, s, params, out, {}, {})
sample_draft_f32(logits, s, params, out, dist) ==
    Drawn(logits, s, draft_params(params), out, {}, dist)
sample_spec_f32(logits, s, params, dist, draft, out) ==
    Drawn(logits, s, params, out, dist \cup draft, {})

spec_accept(draws, ids, ctrl) == dispatch(draws \cup ids, ctrl)
copy_row(src, row, dst)       == dispatch(src \cup row, dst)

------------------------------------------------------------------------------
(* vision.rs *)

patch_pos_embed_bf16(x)           == dispatch(x, x)
qkv_rope_2d_bf16(qkv, positions)        == dispatch(qkv \cup positions, qkv)
attention_full_bf16(qkv, out)     == dispatch(qkv, out)
=============================================================================
