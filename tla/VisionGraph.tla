----------------------------- MODULE VisionGraph -----------------------------
(***************************************************************************)
(* The vision tower over one image (src/qwen4exp/vision.rs), in one serial *)
(* pass: the encoders ask for no barrier.  The merger reads four rows of   *)
(* the scratch as one and reuses that of the MLP.                          *)
(***************************************************************************)
EXTENDS Kernels

v(name) == tensor("vision", name)
Depth == 2

vision_block ==
    layernorm_bf16(v("x"), v("h")) \o
    gemm_bf16_nt_bias(v("h"), v("qkv")) \o
    qkv_rope_2d_bf16(v("qkv"), {}) \o
    attention_full_bf16(v("qkv"), v("attn")) \o
    gemm_bf16_nt_bias(v("attn"), v("tmp")) \o
    add_bf16(v("x"), v("tmp"), v("x")) \o
    layernorm_bf16(v("x"), v("h")) \o
    gemm_bf16_nt_bias(v("h"), v("mlp")) \o
    gelu_bf16(v("mlp")) \o
    gemm_bf16_nt_bias(v("mlp"), v("tmp")) \o
    add_bf16(v("x"), v("tmp"), v("x"))

merger ==
    layernorm_bf16(v("x"), v("h")) \o
    gemm_bf16_nt_bias(v("h"), v("mlp")) \o
    gelu_bf16(v("mlp")) \o
    gemm_bf16_nt_bias(v("mlp"), v("merged"))

(* The host writes the pixels once the image before is done with, and      *)
(* takes the merged rows.                                                  *)
forward_with ==
    wait_event("seen", {}, v("pixels")) \o
    begin(gemm_bf16_nt_bias(v("pixels"), v("x")) \o
          patch_pos_embed_bf16(v("x")) \o
          ForEach(Depth, LAMBDA b : vision_block) \o
          merger) \o
    signal_event("seen") \o
    wait_event("seen", v("merged"), {})
=============================================================================
