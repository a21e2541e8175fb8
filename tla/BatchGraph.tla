----------------------------- MODULE BatchGraph ------------------------------
(***************************************************************************)
(* A batch of rows of one session (encode_batch of                         *)
(* src/qwen4exp/model.rs): a chunk of a prompt, or the rows a verify pass  *)
(* checks.  The code marks every edge with a barrier, so that the same     *)
(* items run on the serial and on the concurrent encoder.  A long          *)
(* prefill's pass is gated: submitted part by part, as the host serves its *)
(* waits, which changes neither the items nor their order.                 *)
(*                                                                         *)
(* `c.pos` is what a kernel reads of the rows' indices in the sequence,    *)
(* `c.rope` what the roping ones read of their rotary positions: words of  *)
(* the GPU, the positions of a prompt with images, or nothing.             *)
(***************************************************************************)
EXTENDS DecodeGraph

CONCURRENT_ROWS_MAX == 16
QSA_QUERY_MIN_ROWS  == 16
Streams == 4 \* hc_count: a row of the residual is this many rows of a projection

ps(name)      == tensor("ps", name)
pq(name)      == tensor("ps.qsa", name)
pp(name)      == tensor("ps.ple", name)
phc(name)     == tensor("ps.hc", name)
sp(name)      == tensor("sp", name)
Rows(c)       == 0 .. c.m - 1
row(name, i)  == rows("ps", name, {i})
hyper_rows(c) == rows("ps", "hyper", Rows(c))

begin_batched(c, items) ==
    IF c.m =< CONCURRENT_ROWS_MAX THEN begin_concurrent(items) ELSE begin(items)

(* The rows of images take the place of the gathered embeddings; `some`    *)
(* are the rows that hold a placeholder.                                   *)
override_rows(c) == copy_words({}, ps("x"))
embeddings(c, ids) ==
    gather_rows_quant(ids, ps("x")) \o
    If(c.images, level_barrier \o override_rows(c)) \o
    level_barrier

(* What a verify pass keeps of a layer for a rollback.                     *)
Captured(c, name, layer) == IF c.verify THEN {<<"sp", name, layer>>} ELSE {}

ple_batched(c, layer, hyper) ==
    gather_ngram("ps.ple", c.buffer) \o
    rmsnorm_grouped_bf16(hyper, pp("query_n")) \o
    level_barrier \o
    project_mat(c, c.m, pp("emb"), pp("key")) \o
    project_mat(c, c.m, pp("emb"), pp("value")) \o
    level_barrier \o
    rmsnorm_grouped_bf16(pp("key"), pp("key_n")) \o
    level_barrier \o
    ple_gate_value_bf16(pp("key_n"), pp("query_n"), pp("value"), pp("gated")) \o
    level_barrier \o
    rmsnorm_grouped_bf16(pp("gated"), pp("gated_n")) \o
    level_barrier \o
    If(c.verify, copy_words(pp("gated_n"), Captured(c, "ple_conv_in", layer))) \o
    ple_conv1d_prefill(Window("ple_window", layer, c.slot), Window("ple_window", layer, 1 - c.slot),
                       pp("gated_n"), pp("gated"), hyper) \o
    level_barrier

gdn_staging ==
    [name \in {"qk_norm", "decay", "beta", "wy"} |-> tensor("gdn_stage", name)]

gdn_batched(c, layer) ==
    project_stack_or_slices(c, phc("mixed"), ps("stack"), <<ps("qkv"), ps("z"), ps("a"), ps("b")>>) \o
    level_barrier \o
    If(c.verify, copy_words(ps("qkv"), Captured(c, "conv_in", layer))) \o
    conv1d_prefill(Window("conv_window", layer, c.slot), Window("conv_window", layer, 1 - c.slot),
                   ps("qkv"), ps("qkv_conv")) \o
    level_barrier \o
    gdn_prefill_mid(ps("qkv_conv"), ps("a"), ps("b"), gdn_staging, StateOf(layer, "gdn"),
                    ps("gdn_out"), IF c.m > 1 THEN Captured(c, "mid", layer) ELSE {},
                    c.main, c.tail) \o
    level_barrier \o
    gated_rmsnorm(ps("gdn_out"), ps("z"), ps("gdn_gated")) \o
    level_barrier \o
    project_mat(c, c.m, ps("gdn_gated"), ps("branch_out"))

------------------------------------------------------------------------------
(* Attention, against the caches of `layer`. *)

kv_staged(c, layer) ==
    If(c.q8, kv_dequant_q8(StateOf(layer, "k_cache"), ps("k_staging")) \o
             kv_dequant_q8(StateOf(layer, "v_cache"), ps("v_staging")) \o
             level_barrier)
dense_kv(c, layer) ==
    IF c.q8 THEN [k |-> ps("k_staging"), v |-> ps("v_staging")]
    ELSE [k |-> StateOf(layer, "k_cache"), v |-> StateOf(layer, "v_cache")]

dense_attention(c, layer, some) ==
    kv_staged(c, layer) \o
    sdpa_prefill(rows("ps", "q", some), dense_kv(c, layer).k, dense_kv(c, layer).v,
                 rows("ps", "attn_o", some), c.pos)

(* The rows past the dense limit, `c.qb` at a time.  Few rows keep the     *)
(* split kernel whatever the route of the scratch.                         *)
SplitRoute(c, some) == c.split \/ Cardinality(some) < QSA_QUERY_MIN_ROWS

sparse_attention(c, layer, some) ==
    qsa_scores(rows("ps", "idx_q", some), StateOf(layer, "blk_keys"), pq("scores"), c.pos) \o
    level_barrier \o
    qsa_select_blocks(pq("scores"), pq("sel"), c.pos) \o
    level_barrier \o
    (IF SplitRoute(c, some)
     THEN qsa_attention(rows("ps", "q", some), StateOf(layer, "k_cache"), StateOf(layer, "v_cache"),
                        pq("sel"), rows("ps", "attn_o", some), pq("partials"), c.pos)
     ELSE qsa_attention_query(rows("ps", "q", some), StateOf(layer, "k_cache"),
                              StateOf(layer, "v_cache"), pq("sel"), rows("ps", "attn_o", some), c.pos)) \o
    level_barrier

SubBatch(c, k) == {i \in Rows(c) : c.dense + (k - 1) * c.qb =< i /\ i < c.dense + k * c.qb}
SubBatches(c)  == IF c.m > c.dense THEN (c.m - c.dense + c.qb - 1) \div c.qb ELSE 0

attend(c, layer) ==
    If(c.dense > 0, dense_attention(c, layer, {i \in Rows(c) : i < c.dense})) \o
    ForEach(SubBatches(c), LAMBDA k : sparse_attention(c, layer, SubBatch(c, k)))

block_keys(c, layer) ==
    If(c.blocks, qsa_block_keys(StateOf(layer, "idx_keys"), StateOf(layer, "blk_keys"), c.pos \cup c.rope))

scatter_both(c, layer) ==
    scatter_kv(StateOf(layer, "k_cache"), ps("k_new"), c.pos) \o
    scatter_kv(StateOf(layer, "v_cache"), ps("v_new"), c.pos)

attn_batched_theta(c, layer) ==
    LET q_rows   == rows("ps", "q", Rows(c))
        idx_rows == rows("ps", "idx_q", Rows(c))
    IN  project_stack_or_slices(c, phc("mixed"), ps("stack"), <<ps("qg"), ps("k_new"), ps("v_new")>>) \o
        project_mat(c, c.m, phc("mixed"), ps("idx_qk")) \o
        level_barrier \o
        split_q_gate(ps("qg"), q_rows, ps("gate")) \o
        rmsnorm_bf16(ps("k_new"), ps("k_new")) \o
        qsa_prep_q(ps("idx_qk"), idx_rows, c.pos \cup c.rope) \o
        qsa_scatter_keys(ps("idx_qk"), StateOf(layer, "idx_keys"), c.pos) \o
        level_barrier \o
        rmsnorm_bf16(q_rows, q_rows) \o
        rope_neox(ps("k_new"), c.pos \cup c.rope) \o
        block_keys(c, layer) \o
        level_barrier \o
        rope_neox(q_rows, c.pos \cup c.rope) \o
        scatter_both(c, layer) \o
        level_barrier \o
        attend(c, layer) \o
        level_barrier \o
        sigmoid_mul_bf16(ps("gate"), rows("ps", "attn_o", Rows(c)), ps("attn_gated")) \o
        level_barrier \o
        project_mat(c, c.m, ps("attn_gated"), ps("branch_out"))

------------------------------------------------------------------------------
moe_io == [x |-> phc("mixed"), out |-> ps("branch_out"), stack |-> ps("stack"),
           mlp_gate |-> ps("mlp_gate"), mlp_up |-> ps("mlp_up"), mlp_act |-> ps("mlp_act")]

hc_read_batched(c, inject, hyper) == hc_read_rows(c, "ps.hc", inject, hyper)

inject(hyper) == hc_inject_bf16(hyper, ps("branch_out"), phc("inj")) \o level_barrier

block_batched(c, layer, hyper) ==
    If(Layers[layer].ple, ple_batched(c, layer, hyper)) \o
    hc_read_batched(c, TRUE, hyper) \o
    (IF Layers[layer].mixer = "gdn" THEN gdn_batched(c, layer) ELSE attn_batched_theta(c, layer)) \o
    level_barrier \o
    inject(hyper) \o
    hc_read_batched(c, TRUE, hyper) \o
    prefill_moe(c, layer, moe_io, "ps.moe") \o
    level_barrier \o
    encode_read_check(c, FALSE, layer, hyper) \o
    inject(hyper)

------------------------------------------------------------------------------
(* The draft head: one attention layer behind its input.                   *)

MtpLayer == Len(Layers) + 1
mtp_hyper(c)   == rows("ps", "mtp_hyper", Rows(c))
mst_hidden     == tensor("mst", "hidden")

mtp_input(c, hidden, ids) ==
    rmsnorm_grouped_bf16(hidden, phc("hn")) \o
    embeddings(c, ids) \o
    project_mat(c, c.m * Streams, phc("hn"), mtp_hyper(c)) \o
    rmsnorm_bf16(ps("x"), ps("x")) \o
    level_barrier \o
    project_mat(c, c.m, ps("x"), ps("branch_out")) \o
    level_barrier \o
    hc_broadcast_bf16(ps("branch_out"), phc("up")) \o
    level_barrier \o
    add_bf16(mtp_hyper(c), phc("up"), mtp_hyper(c)) \o
    level_barrier

mtp_block(c, hidden, ids) ==
    mtp_input(c, hidden, ids) \o
    hc_read_batched(c, TRUE, mtp_hyper(c)) \o
    attn_batched_theta(c, MtpLayer) \o
    level_barrier \o
    inject(mtp_hyper(c)) \o
    hc_read_batched(c, TRUE, mtp_hyper(c)) \o
    prefill_moe(c, MtpLayer, moe_io, "ps.moe") \o
    level_barrier \o
    inject(mtp_hyper(c))

(* What the block writes into the head's caches, and nothing else.         *)
attn_cache_writes(c, layer) ==
    project_mat(c, c.m, phc("mixed"), ps("k_new")) \o
    project_mat(c, c.m, phc("mixed"), ps("v_new")) \o
    project_mat(c, c.m, phc("mixed"), ps("idx_qk")) \o
    level_barrier \o
    rmsnorm_bf16(ps("k_new"), ps("k_new")) \o
    qsa_scatter_keys(ps("idx_qk"), StateOf(layer, "idx_keys"), c.pos) \o
    level_barrier \o
    rope_neox(ps("k_new"), c.pos \cup c.rope) \o
    block_keys(c, layer) \o
    level_barrier \o
    scatter_both(c, layer) \o
    level_barrier

mtp_block_caches(c, hidden, ids) ==
    mtp_input(c, hidden, ids) \o
    hc_read_batched(c, TRUE, mtp_hyper(c)) \o
    attn_cache_writes(c, MtpLayer)

(* The head's caches keep up with the chunk: row j pairs the hidden in     *)
(* front of a token with the token.  At the start of the sequence the      *)
(* first row has none.                                                     *)
hidden_in(some) == rows("ps", "mtp_hidden_in", some)

catch_up_inputs(c) ==
    IF c.first
    THEN copy_words(rows("ps", "hyper", 0 .. c.m - 2), hidden_in(0 .. c.m - 2))
    ELSE copy_words(mst_hidden, hidden_in({0})) \o
         If(c.m > 1, copy_words(rows("ps", "hyper", 0 .. c.m - 2), hidden_in(1 .. c.m - 1)))

mtp_catch_up(c) ==
    LET n   == IF c.first THEN c.m - 1 ELSE c.m
        ids == rows("ps", "ids", IF c.first THEN 1 .. c.m - 1 ELSE Rows(c))
    IN  If(n > 0, catch_up_inputs(c) \o
                  level_barrier \o
                  mtp_block_caches([c EXCEPT !.m = n], hidden_in(0 .. n - 1), ids)) \o
        copy_words(row("hyper", c.m - 1), mst_hidden) \o
        level_barrier

------------------------------------------------------------------------------
(* The head of a prompt's last chunk, and that of a verify pass.           *)

prefill_head(c) ==
    encode_hidden_log(c, hyper_rows(c)) \o
    If(c.draws, gather_row_bf16(hyper_rows(c), s("hyper")) \o
                level_barrier \o
                decode_head(c.params, next_token(0))) \o
    If(c.mtp, mtp_catch_up(c))

logits_rows(some) == {<<"sp", "logits", i>> : i \in some}
verify_tokens(some) == {<<"sp", "verify_tokens", i>> : i \in some}
draft_tokens(some) == {<<"sp", "draft_tokens", i>> : i \in some}
dists(i) == {<<"sp", "dists", i>>}

verify_draw(c, j) ==
    (IF j + 1 < c.m
     THEN sample_spec_f32(logits_rows({j}), sampler, c.params, dists(j), row("ids", j + 1), verify_tokens({j}))
     ELSE sample_f32(logits_rows({j}), sampler, c.params, verify_tokens({j}))) \o
    level_barrier

verify_head(c) ==
    hc_read_batched(c, FALSE, hyper_rows(c)) \o
    project_mat(c, c.m, phc("mixed"), logits_rows(Rows(c))) \o
    level_barrier \o
    ForEach(c.m, LAMBDA j : verify_draw(c, j - 1))

batch_graph(c) ==
    embeddings(c, rows("ps", "ids", Rows(c))) \o
    hc_broadcast_bf16(ps("x"), hyper_rows(c)) \o
    level_barrier \o
    ForEach(Len(Layers), LAMBDA layer :
        block_batched(c, layer, hyper_rows(c)) \o
        encode_routing_log(c, FALSE, layer, phc("mixed"), hyper_rows(c), tensor("ps.moe", "indices")) \o
        encode_trunk_log(c, layer, phc("mixed"), hyper_rows(c))) \o
    (IF c.verify THEN verify_head(c) ELSE prefill_head(c)) \o
    signal_event(c.done)

encode_batch(c) == begin_batched(c, batch_graph(c))

------------------------------------------------------------------------------
(* A prompt, c.m tokens at a time (prefill_chunks).  The windows turn with *)
(* every chunk, and only the last one draws.  `stopped` is how many chunks *)
(* are fed before the caller's stop says so, if it does.                   *)

ChunkDone == <<"done", "second", "third">> \* the values a prompt's passes raise in turn
Chunks(c, tokens) == (tokens + c.m - 1) \div c.m
Done(k) == IF k = 0 THEN "begun" ELSE ChunkDone[k]

chunk(c, tokens, ahead, k) ==
    LET fed == (k - 1) * c.m
    IN  [c EXCEPT !.m      = IF tokens - fed < c.m THEN tokens - fed ELSE c.m,
                  !.dense  = IF fed < c.dense THEN c.dense - fed ELSE 0,
                  !.first  = c.first /\ k = 1,
                  !.draws  = c.draws /\ k = Chunks(c, tokens),
                  !.slot   = (c.slot + k - 1) % 2,
                  !.buffer = IF ahead THEN (k - 1) % 2 ELSE 0,
                  !.done   = Done(k)]

(* The host writes a chunk's ids and positions, and its n-gram rows unless *)
(* they are there, once the chunk before is done; ahead, it stages the     *)
(* next chunk's into the other buffer as soon as it has committed this one.*)
prefill_chunks(c, tokens, ahead, stopped) ==
    ForEach(stopped, LAMBDA k :
        LET now  == chunk(c, tokens, ahead, k)
            next == chunk(c, tokens, ahead, k + 1)
            rows_now == IF ahead /\ k > 1 THEN {} ELSE staged_rows(now.buffer)
        IN  wait_event(Done(k - 1), {}, rows("ps", "ids", Rows(now)) \cup c.rope \cup rows_now) \o
            encode_batch(now) \o
            If(ahead /\ k < Chunks(c, tokens),
               wait_event(Done(k - 1), {}, staged_rows(next.buffer))))
=============================================================================
