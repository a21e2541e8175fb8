------------------------------ MODULE MoeGraph ------------------------------
(***************************************************************************)
(* The mixture-of-experts layer as encoded passes run it (src/moe_ffn.rs): *)
(* projections, the router, the expert cache's resolution of the routed    *)
(* ids, the experts, the shared expert beside them.                        *)
(*                                                                         *)
(* `c` is what the graphs branch on: c.m the rows of the pass, c.cached    *)
(* whether an expert cache serves, c.skinny whether the weights have a     *)
(* kernel for few rows, c.fused whether a stack of projections is one.     *)
(***************************************************************************)
EXTENDS Kernels

(* Chunks of up to DENSE_SMALLM_THRESHOLD rows project without staging;    *)
(* past MOE_SMALLM rows the experts' GEMMs are grouped.                    *)
DENSE_SMALLM_THRESHOLD == 16
MOE_SMALLM == 8

dense_smallm_routes(m) == 0 < m /\ m =< DENSE_SMALLM_THRESHOLD

dequant == tensor("s", "dequant")

project_mat(c, m, a, out) ==
    IF c.skinny /\ dense_smallm_routes(m) THEN gemm_skinny_nt(a, out)
    ELSE gemm_quant_bf16_nt(a, out, dequant)

(* A stack of projections as one, where that is eligible.                  *)
stacks(c) == c.fused /\ c.skinny /\ dense_smallm_routes(c.m)

project_stack_or_slices(c, a, stack, outs) ==
    IF stacks(c)
    THEN gemm_skinny_nt(a, stack) \o level_barrier \o split_cols_bf16(stack, UNION Range(outs))
    ELSE ForEach(Len(outs), LAMBDA i : project_mat(c, c.m, a, outs[i]))

------------------------------------------------------------------------------
(* The router of a batch, and of a single token. *)

router_project_rows(c, x, logits) == project_mat(c, c.m, x, logits)
router_select_rows(logits, indices, scores) == moe_router_topk_rows(logits, indices, scores)
route_rows(c, x, logits, indices, scores) ==
    router_project_rows(c, x, logits) \o level_barrier \o
    router_select_rows(logits, indices, scores)

router_project_decode(x, logits) == gemv_quant(x, logits)
router_select_decode(logits, indices, scores) == moe_router_topk(logits, indices, scores)
route_decode(x, logits, indices, scores) ==
    router_project_decode(x, logits) \o level_barrier \o
    router_select_decode(logits, indices, scores)

------------------------------------------------------------------------------
(* The expert cache: the service reads the routed ids once the pass has    *)
(* signalled, loads what is missing and writes the layer's slot table      *)
(* before it signals back.                                                 *)

slot_table(c, layer) == IF c.cached THEN tensor("slot_of", layer) ELSE {}

resolve_experts(c, layer, indices) ==
    If(c.cached, signal_event("routed") \o
                 wait_event("routed", indices, slot_table(c, layer)))

(* The ids resolved and remapped, and the ids the experts' kernels take.   *)
remapped(c, layer, indices, slots) ==
    If(c.cached, resolve_experts(c, layer, indices) \o
                 moe_remap_slots(indices, slot_table(c, layer), slots) \o level_barrier)
slots_of(c, indices, slots) == IF c.cached THEN slots ELSE indices

------------------------------------------------------------------------------
(* One token.  The shared expert's chain is interleaved with the router's. *)
decode_moe(c, layer, io, ms) ==
    LET of(name) == tensor(ms, name)
        slots    == slots_of(c, of("indices"), of("slots"))
    IN  router_project_decode(io.x, of("router_logits")) \o
        gemv_quant(io.x, io.mlp_gate \cup io.mlp_up) \o
        gemv_quant(io.x, of("shared_gate")) \o
        level_barrier \o
        router_select_decode(of("router_logits"), of("indices"), of("scores")) \o
        silu_mul_bf16(io.mlp_gate, io.mlp_up, io.mlp_act) \o
        level_barrier \o
        remapped(c, layer, of("indices"), of("slots")) \o
        moe_gather_gemv_gate_up(io.x, slots, of("act")) \o
        gemv_quant(io.mlp_act, of("shared_out")) \o
        level_barrier \o
        moe_gather_gemv_down_combine(of("act"), slots, of("scores"), of("shared_out"),
                                     of("shared_gate"), io.out)

------------------------------------------------------------------------------
(* A chunk of rows. *)

sort_buffers(ms) ==
    [name \in {"indices", "counts", "cursors", "offsets", "tile_offsets", "ids_sorted",
               "slot_of"} |-> tensor(ms, name)]

smallm_experts(io, ms, slots) ==
    LET of(name) == tensor(ms, name)
    IN  moe_smallm_gate_up(io.x, slots, of("ea")) \o
        level_barrier \o
        moe_smallm_down_combine(of("ea"), slots, of("scores"), of("shared_out"),
                                of("shared_gate"), io.out)

(* The routed rows sorted by expert, the experts' GEMMs over the blocks,   *)
(* and the rows combined.  `slot_of` is where a row went; the block maps   *)
(* translate the experts themselves.                                       *)
grouped_experts(c, layer, io, ms) ==
    LET of(name) == tensor(ms, name)
    IN  fill_zero_u32(of("counts")) \o fill_zero_u32(of("cursors")) \o
        level_barrier \o
        moe_sort_slots(sort_buffers(ms)) \o
        level_barrier \o
        gather_rows_bf16(io.x, of("ids_sorted"), of("gx")) \o
        moe_build_blocks(of("offsets"), of("tile_offsets"), of("blocks_gu"), slot_table(c, layer)) \o
        moe_build_blocks(of("offsets"), of("tile_offsets"), of("blocks_dn"), slot_table(c, layer)) \o
        level_barrier \o
        gemm_q4_grouped_nt(of("gx"), of("blocks_gu"), of("eg")) \o
        gemm_q4_grouped_nt(of("gx"), of("blocks_gu"), of("eu")) \o
        level_barrier \o
        silu_mul_bf16(of("eg"), of("eu"), of("ea")) \o
        level_barrier \o
        gemm_q4_grouped_nt(of("ea"), of("blocks_dn"), of("ed")) \o
        level_barrier \o
        moe_combine_rows_gate_add(of("ed"), of("slot_of"), of("scores"), of("shared_out"),
                                  of("shared_gate"), io.out)

prefill_moe(c, layer, io, ms) ==
    LET of(name) == tensor(ms, name)
        slots    == slots_of(c, of("indices"), of("slots"))
    IN  router_project_rows(c, io.x, of("router_logits")) \o
        (IF stacks(c) THEN gemm_skinny_nt(io.x, io.stack)
         ELSE project_mat(c, c.m, io.x, io.mlp_gate) \o project_mat(c, c.m, io.x, io.mlp_up)) \o
        project_mat(c, c.m, io.x, of("shared_gate")) \o
        level_barrier \o
        router_select_rows(of("router_logits"), of("indices"), of("scores")) \o
        (IF stacks(c) THEN silu_mul_rows_bf16(io.stack, io.mlp_act)
         ELSE silu_mul_bf16(io.mlp_gate, io.mlp_up, io.mlp_act)) \o
        level_barrier \o
        remapped(c, layer, of("indices"), of("slots")) \o
        project_mat(c, c.m, io.mlp_act, of("shared_out")) \o
        (IF c.m =< MOE_SMALLM THEN smallm_experts(io, ms, slots)
         ELSE grouped_experts(c, layer, io, ms))
=============================================================================
