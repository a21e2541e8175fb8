----------------------------- MODULE StreamGraph -----------------------------
(***************************************************************************)
(* What the decode, prefill, verify and draft passes share                 *)
(* (src/qwen4exp/model.rs): hyper-connection reads, the n-gram gather, and *)
(* the measurement logs a pass may carry.                                  *)
(***************************************************************************)
EXTENDS MoeGraph

HC_FUSED_MAX_ROWS == 4
EXPERT_PRED_LOOKAHEADS == 3

next_token(slot) == {<<"s", "next_token", slot>>}

(* The layers of the model: their mixers, and whether a PLE is in front.   *)
Layers == <<[mixer |-> "gdn", ple |-> FALSE], [mixer |-> "attn", ple |-> TRUE]>>
StateOf(layer, name) == {<<"state", name, layer>>}
Window(name, layer, slot) == {<<"state", name, layer, slot>>}

------------------------------------------------------------------------------
(* A read of the streams into the scratch `o`; `inject` when the block     *)
(* writes back.                                                            *)

WriteGate(o, inject) == IF inject THEN tensor(o, "inj") ELSE {}

ReadUnordered(o, inject, hyper) == \* mutant: the up projection does not wait
    hc_read_down_q8(hyper, tensor(o, "down"), WriteGate(o, inject), tensor(o, "inv_rms")) \o
    hc_read_up_mix_q8(tensor(o, "down"), hyper, tensor(o, "inv_rms"), tensor(o, "mixed")) \o
    level_barrier
hc_read_one(o, inject, hyper) ==
    hc_read_down_q8(hyper, tensor(o, "down"), WriteGate(o, inject), tensor(o, "inv_rms")) \o
    level_barrier \o
    hc_read_up_mix_q8(tensor(o, "down"), hyper, tensor(o, "inv_rms"), tensor(o, "mixed")) \o
    level_barrier

hc_read_decode(inject) == hc_read_one("s.hc", inject, tensor("s", "hyper"))

(* Up to HC_FUSED_MAX_ROWS rows take the fused read, more the chain.       *)
fused_read(o, inject, hyper) ==
    hc_read_down_q8_rows(hyper, tensor(o, "down"), WriteGate(o, inject), tensor(o, "inv_rms"),
                         tensor(o, "act")) \o
    level_barrier \o
    hc_read_up_mix_q8_rows(tensor(o, "act"), hyper, tensor(o, "inv_rms"), tensor(o, "mixed")) \o
    level_barrier

chained_read(c, o, inject, hyper) ==
    rmsnorm_grouped_bf16(hyper, tensor(o, "hn")) \o
    level_barrier \o
    project_mat(c, c.m, tensor(o, "hn"), tensor(o, "down")) \o
    If(inject, project_mat(c, c.m, tensor(o, "hn"), tensor(o, "inj"))) \o
    level_barrier \o
    silu_scaled_bf16(tensor(o, "down"), tensor(o, "act")) \o
    level_barrier \o
    project_mat(c, c.m, tensor(o, "act"), tensor(o, "up")) \o
    level_barrier \o
    hc_mix_bf16(tensor(o, "up"), tensor(o, "hn"), tensor(o, "mixed")) \o
    level_barrier

hc_read_rows(c, o, inject, hyper) ==
    IF c.m =< HC_FUSED_MAX_ROWS /\ c.fused THEN fused_read(o, inject, hyper)
    ELSE chained_read(c, o, inject, hyper)

------------------------------------------------------------------------------
(* The n-gram rows the host staged for the tokens of this pass.            *)
staged_rows(buffer) == {<<"ngram", "stage", buffer>>}
gather_ngram(p, buffer) == ple_gather_q4({}, staged_rows(buffer), tensor(p, "emb"))

------------------------------------------------------------------------------
(* The logs.  Each has scratch of its own, and a place per layer.          *)

LogAt(name, place) == {<<"log", name, place>>}

RoutesOf(c, decode, o, x) ==
    IF decode THEN route_decode(x, tensor(o, "logits"), tensor(o, "indices"), tensor(o, "picked"))
    ELSE route_rows(c, x, tensor(o, "rows_logits"), tensor(o, "rows_indices"), tensor(o, "rows_scores"))

log_prediction(c, decode, variant, lookahead, target, x) ==
    LET o      == "pred"
        picked == IF decode THEN tensor(o, "indices") ELSE tensor(o, "rows_indices")
        scores == IF decode THEN tensor(o, "picked") ELSE tensor(o, "rows_scores")
        place  == <<variant, lookahead, target>>
    IN  RoutesOf(c, decode, o, x) \o
        level_barrier \o
        copy_words(picked, LogAt("pred", place)) \o
        copy_words(scores, LogAt("pred_scores", place)) \o
        level_barrier

(* A later layer's read, of the streams as they are now.                   *)
PredictionHc(decode) == IF decode THEN "pred.hc" ELSE "pred.rows_hc"
prediction_read(c, decode, hyper) ==
    IF decode THEN hc_read_one(PredictionHc(decode), TRUE, hyper)
    ELSE hc_read_rows(c, PredictionHc(decode), TRUE, hyper)

encode_read_check(c, decode, layer, hyper) ==
    If(c.logs, prediction_read(c, decode, hyper) \o
               log_prediction(c, decode, 1, 0, layer, tensor(PredictionHc(decode), "mixed")))

Ahead(layer, first) == {d \in first .. EXPERT_PRED_LOOKAHEADS - 1 : layer + d =< Len(Layers)}

encode_routing_log(c, decode, layer, x, hyper, indices) ==
    If(c.logs,
       copy_words(indices, LogAt("routing", layer)) \o
       level_barrier \o
       ForEach(Cardinality(Ahead(layer, 0)), LAMBDA i :
           log_prediction(c, decode, 0, i - 1, layer + i - 1, x)) \o
       ForEach(Cardinality(Ahead(layer, 1)), LAMBDA d :
           prediction_read(c, decode, hyper) \o
           log_prediction(c, decode, 1, d, layer + d, tensor(PredictionHc(decode), "mixed"))))

(* The layer's router over its gate input, and at a cut the next read-in.  *)
encode_trunk_log(c, layer, x, hyper) ==
    If(c.logs,
       route_rows(c, x, tensor("trunk", "rows_logits"), tensor("trunk", "rows_indices"),
                  tensor("trunk", "rows_scores")) \o
       level_barrier \o
       copy_words(tensor("trunk", "rows_indices"), LogAt("router", layer)) \o
       copy_words(tensor("trunk", "rows_scores"), LogAt("router_scores", layer)) \o
       level_barrier \o
       If(layer < Len(Layers),
          hc_read_rows(c, "trunk.hc", TRUE, hyper) \o
          copy_words(tensor("trunk.hc", "mixed"), LogAt("reads", layer)) \o
          level_barrier))

encode_hidden_log(c, hyper) ==
    If(c.logs,
       hc_read_rows(c, "ps.hc", FALSE, hyper) \o
       copy_words(tensor("ps.hc", "mixed"), LogAt("hidden", 0)) \o
       level_barrier)
=============================================================================
