----------------------------- MODULE DFlashGraph -----------------------------
(***************************************************************************)
(* The assistant's graphs (metal/dflash.rs): a whole round, a round split  *)
(* into preparation and finish, and the K/V of a prompt chunk, as closures *)
(* of MetalKernels; and the equations of the CPU assistant they must agree *)
(* with (dflash/forward.rs, dflash/attention.rs).                          *)
(*                                                                         *)
(* Rows 1..n of the target are context, rows 1..Noise the draft block, of  *)
(* which the first is the token just decided and the others are masks.     *)
(* Row r of the context is rotated to ctx_offset + r, given here as r.     *)
(***************************************************************************)
EXTENDS MetalKernels

Noise == 2

RoundBuffer(kv, l) == "round_" \o kv \o ToString(l)
CachedPlane(kv, l) == "cached_" \o kv \o ToString(l)

\* encode_rms_norm_inplace, encode_rms_norm_per_head
NormInPlace(buf, w, n) == Rowwise(buf, n, LAMBDA r : Norm(w, "eps", Row(buf, r)))

\* encode_rope_neox_batch_cached: in place, from position start on.
RopeNeox(buf, start, n) ==
    Rowwise(buf, n, LAMBDA r : Term("rope_neox", start + r, <<Row(buf, r)>>))

\* encode_fused_residual_norm: hidden += source, then its norm.
FusedResidualNorm(hidden, source, w, out, n) ==
    LET Sum(r) == Term("add", "", <<Row(hidden, r), Row(source, r)>>)
    IN Dispatch([r \in 1..n |-> Set(hidden, r, Sum(r))]
                \o [r \in 1..n |-> Set(out, r, Norm(w, "eps", Sum(r)))])

\* encode_pack_dflash_layer_major: n rows of a captured chunk, from start on.
PackLayerMajor(slot, start, out, n) == Rowwise(out, n, LAMBDA r : Row(slot, start + r))

\* encode_dflash_dual_attention: every draft row attends to the cached rows,
\* the first n context rows and the whole draft block.
DualAttention(l, k, v, n) ==
    LET rows(buf, m) == [r \in 1..m |-> Row(buf, r)]
    IN Rowwise("attention", Noise, LAMBDA b :
           Term("dual", "", <<Row("q", b), Row(CachedPlane("k", l), 1), Row(CachedPlane("v", l), 1)>>
                \o rows(k, n) \o rows(v, n) \o rows("k_noise", Noise) \o rows("v_noise", Noise)))

\* The features of the target rows: fc and its norm.
TargetProjected(n) ==
    <<MatMul(<<"fc", 0>>, "target_input", "target_projected", n),
      NormInPlace("target_projected", <<"hidden_norm", 0>>, n)>>

\* A layer's context K/V, computed straight into the round arena.
RoundKv(l, n) ==
    LET k == RoundBuffer("k", l)
    IN <<MatMul(<<"k_proj", l>>, "target_projected", k, n),
         MatMul(<<"v_proj", l>>, "target_projected", RoundBuffer("v", l), n),
         NormInPlace(k, <<"k_norm", l>>, n),
         RopeNeox(k, 0, n)>>

ContextKv(layers, n) ==
    TargetProjected(n) \o FlattenSeq([l \in 1..layers |-> RoundKv(l, n)])

\* enqueue_prompt_chunk
PromptChunk(layers, start, n) ==
    <<PackLayerMajor("slot", start, "target_input", n)>> \o ContextKv(layers, n)

\* The draft block's projections of one layer, up to the head norms.
NoiseProjections(l) ==
    <<RmsNormMul("hidden", <<"input_norm", l>>, "eps", "normed", Noise),
      MatMul(<<"q_proj", l>>, "normed", "q", Noise),
      MatMul(<<"k_proj", l>>, "normed", "k_noise", Noise),
      MatMul(<<"v_proj", l>>, "normed", "v_noise", Noise)>>

\* From the attention output to the layer's output.
DraftTail(l) ==
    <<MatMul(<<"o_proj", l>>, "attention", "attention_projected", Noise),
      FusedResidualNorm("hidden", "attention_projected", <<"post_attention_norm", l>>,
                        "normed", Noise),
      MatMul(<<"gate_proj", l>>, "normed", "gate", Noise),
      MatMul(<<"up_proj", l>>, "normed", "up", Noise),
      SiluMul("gate", "up", Noise),
      MatMul(<<"down_proj", l>>, "gate", "down", Noise),
      ResidualAdd("hidden", "down", Noise)>>

\* finish_prepared: the draft block over the first n prepared rows.
FinishLayer(l, n) ==
    NoiseProjections(l)
    \o <<NormInPlace("q", <<"q_norm", l>>, Noise),
         NormInPlace("k_noise", <<"k_norm", l>>, Noise),
         RopeNeox("k_noise", n, Noise),
         RopeNeox("q", n, Noise),
         DualAttention(l, RoundBuffer("k", l), RoundBuffer("v", l), n)>>
    \o DraftTail(l)

OutputNormed == <<NormInPlace("hidden", <<"output_norm", 0>>, Noise)>>

SplitRound(layers, prepared, selected) ==
    ContextKv(layers, prepared)
    \o FlattenSeq([l \in 1..layers |-> FinishLayer(l, selected)])
    \o OutputNormed

\* forward: one command; the context rows go through scratch and are copied
\* to the arena after attention.
ForwardLayer(l, n) ==
    NoiseProjections(l)
    \o <<MatMul(<<"k_proj", l>>, "target_projected", "k_context", n),
         MatMul(<<"v_proj", l>>, "target_projected", "v_context", n),
         NormInPlace("q", <<"q_norm", l>>, Noise),
         NormInPlace("k_noise", <<"k_norm", l>>, Noise),
         NormInPlace("k_context", <<"k_norm", l>>, n),
         RopeNeox("k_context", 0, n),
         RopeNeox("k_noise", n, Noise),
         RopeNeox("q", n, Noise),
         DualAttention(l, "k_context", "v_context", n),
         Copy("k_context", RoundBuffer("k", l), n),
         Copy("v_context", RoundBuffer("v", l), n)>>
    \o DraftTail(l)

WholeRound(layers, n) ==
    TargetProjected(n)
    \o FlattenSeq([l \in 1..layers |-> ForwardLayer(l, n)])
    \o OutputNormed

-----------------------------------------------------------------------------
(* The CPU assistant, one equation per tensor, for n committed rows.       *)

TargetEquations(r) ==
    {Equation(Node("fc", 0, r), "matmul", <<"fc", 0>>, <<Node("target", 0, r)>>),
     Equation(Node("target_proj", 0, r), "norm", <<<<"hidden_norm", 0>>, "eps">>,
              <<Node("fc", 0, r)>>)}

\* forward_attention's target rows: project, head norm, rotate.
ContextEquations(l, r) ==
    {Equation(Node("k_target", l, r), "matmul", <<"k_proj", l>>, <<Node("target_proj", 0, r)>>),
     Equation(Node("v_fresh", l, r), "matmul", <<"v_proj", l>>, <<Node("target_proj", 0, r)>>),
     Equation(Node("k_target_normed", l, r), "norm", <<<<"k_norm", l>>, "eps">>,
              <<Node("k_target", l, r)>>),
     Equation(Node("k_fresh", l, r), "rope_neox", r, <<Node("k_target_normed", l, r)>>)}

DraftInput(l, b) == Node(IF l = 1 THEN "noise" ELSE "draft_out", IF l = 1 THEN 0 ELSE l - 1, b)

\* forward_attention's draft rows, and the attention over the concatenation.
DraftAttentionEquations(l, b, n) ==
    LET N(name) == Node(name, l, b)
        all(name, m) == [r \in 1..m |-> Node(name, l, r)]
        headed(name, w) == {Equation(N(name), "matmul", <<w, l>>, <<N("draft_normed")>>)}
    IN {Equation(N("draft_normed"), "norm", <<<<"input_norm", l>>, "eps">>, <<DraftInput(l, b)>>),
        Equation(N("draft_q_normed"), "norm", <<<<"q_norm", l>>, "eps">>, <<N("draft_q")>>),
        Equation(N("draft_k_normed"), "norm", <<<<"k_norm", l>>, "eps">>, <<N("draft_k")>>),
        Equation(N("draft_q_rope"), "rope_neox", n + b, <<N("draft_q_normed")>>),
        Equation(N("draft_k_rope"), "rope_neox", n + b, <<N("draft_k_normed")>>),
        Equation(N("draft_attn"), "dual", "",
                 <<N("draft_q_rope"), Node("cached_k", l, 1), Node("cached_v", l, 1)>>
                    \o all("k_fresh", n) \o all("v_fresh", n)
                    \o all("draft_k_rope", Noise) \o all("draft_v", Noise))}
       \cup headed("draft_q", "q_proj") \cup headed("draft_k", "k_proj")
       \cup headed("draft_v", "v_proj")

\* forward_layer around the attention, with the residuals.
DraftLayerEquations(l, b) ==
    LET N(name) == Node(name, l, b)
        Linear(name, w, x) == Equation(N(name), "matmul", <<w, l>>, <<x>>)
    IN {Linear("draft_projected", "o_proj", N("draft_attn")),
        Equation(N("draft_mid"), "add", "", <<DraftInput(l, b), N("draft_projected")>>),
        Equation(N("draft_mid_normed"), "norm", <<<<"post_attention_norm", l>>, "eps">>,
                 <<N("draft_mid")>>),
        Linear("draft_gate", "gate_proj", N("draft_mid_normed")),
        Linear("draft_up", "up_proj", N("draft_mid_normed")),
        Equation(N("draft_swiglu"), "swiglu", "", <<N("draft_gate"), N("draft_up")>>),
        Linear("draft_ffn", "down_proj", N("draft_swiglu")),
        Equation(N("draft_out"), "add", "", <<N("draft_mid"), N("draft_ffn")>>)}

DraftEquations(layers, rows, n) ==
    UNION {TargetEquations(r) : r \in 1..rows}
    \cup UNION {ContextEquations(l, r) : l \in 1..layers, r \in 1..rows}
    \cup UNION {DraftAttentionEquations(l, b, n) \cup DraftLayerEquations(l, b) :
                   l \in 1..layers, b \in 1..Noise}
    \cup {Equation(Node("draft_hidden", 0, b), "norm", <<<<"output_norm", 0>>, "eps">>,
                   <<Node("draft_out", layers, b)>>) : b \in 1..Noise}
=============================================================================
