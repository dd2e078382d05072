---------------------------- MODULE ForwardGraph ----------------------------
(***************************************************************************)
(* The Metal forward graphs of muser-engine/src/decode.rs: the batch graph *)
(* (encode_batch_hidden_range) with its callers, the packed decode group   *)
(* and the single-token graph, executed dispatch by dispatch on a GPU that *)
(* may overlap whatever no barrier orders, and compared with the equations *)
(* of the CPU reference (reference.rs, MuseModel::forward_inputs).         *)
(*                                                                         *)
(* All graphs reuse a few activation buffers in place and choose between   *)
(* fused, exact ("cross vendor") and pinned llama kernels by shape, so a   *)
(* stale or overwritten row is what can go wrong.  Buffers start with the  *)
(* unspecified contents of an earlier call.                                *)
(*                                                                         *)
(* A configuration c of a call:                                            *)
(*   path        which entry point encodes it                              *)
(*   n           rows: tokens of the block, or sequences of a group        *)
(*   fused, cross, vec   fused_prefill_dual_norm, MUSER_CROSS_VENDOR_QK,   *)
(*               and whether the llama flash-attention library is loaded   *)
(*   wrapped     the sliding-window ring does not hold the block in place  *)
(*   shape       "short" below 20 rows; else "aligned" to the llama tile   *)
(*               or "plain"                                                *)
(*   concurrent  the encoder overlaps dispatches                           *)
(*   captures    layers whose output is copied out (capture_layers)        *)
(*   debug       the layer of a tail or debug capture, 0 for none          *)
(*   prequant    scaled NVFP4 weights at 16 rows                           *)
(*   full        a ring length that is a multiple of 32                    *)
(*   ferrite     ferrite_ffn_gate_up on Q4_K weights                       *)
(*   selected    context rows a split assistant round is finished with     *)
(***************************************************************************)
EXTENDS DFlashGraph

CONSTANTS
    NLayers,    \* cfg.n_layers, at least 1
    Swa,        \* the sliding-window layers, which also use RoPE
    Confs       \* the calls checked

VARIABLES
    conf,       \* the call
    pc,         \* index of the closure being executed
    done,       \* its dispatches that have run
    mem         \* contents of the buffer rows written so far

vars == <<conf, pc, done, mem>>

-----------------------------------------------------------------------------
(* The graphs.  Weights of layer l are <<name, l>>.                        *)

Exact(c) == c.vec /\ ~c.cross

\* encode_batch_projection, encode_projection, encode_decode_group_projection
Project(c, w, in, out, n) ==
    IF c.prequant THEN Prequant(w, in, out, n) ELSE MatMul(w, in, out, n)

\* A debug capture of layer l: one closure of copies.
DebugCopies(c, l, pairs) ==
    IF c.debug = l /\ c.path \in {"debug", "stopped"}
    THEN <<FlattenSeq([i \in DOMAIN pairs |->
                Copy(pairs[i][1], "dbg_" \o pairs[i][2], c.n)])>>
    ELSE <<>>

\* Entry: the weightless norm of the embeddings.
Entry(c) ==
    <<RmsNormMul("hidden", <<"ones", 0>>, "rms_eps", "normed", c.n)>>
        \o IF c.path \in {"debug", "stopped"}
           THEN <<Copy("hidden", "dbg_embedding", c.n)
                  \o Copy("normed", "dbg_entry_norm", c.n)>>
           ELSE <<>>

\* Pre-attention norm (the fused tail of the layer below already wrote it),
\* the four projections and the head norms.
Projections(c, l) ==
    (IF l = 1 \/ ~c.fused
     THEN <<RmsNormMul("normed", <<"attn_norm", l>>, "rms_eps", "post_norm", c.n)>>
     ELSE <<>>)
    \o DebugCopies(c, l, <<<<"post_norm", "attn_norm">>>>)
    \o <<Project(c, <<"q", l>>, "post_norm", "q", c.n)
         \o Project(c, <<"k", l>>, "post_norm", "k", c.n)
         \o Project(c, <<"v", l>>, "post_norm", "v", c.n)
         \o Project(c, <<"gate", l>>, "post_norm", "gate", c.n)>>
    \o DebugCopies(c, l, <<<<"q", "Qcur">>, <<"k", "Kcur">>, <<"v", "Vcur">>,
                           <<"gate", "attn_gate">>>>)
    \o <<QkNorm(c.cross, "q", <<"q_norm", l>>, c.n)
         \o QkNorm(c.cross, "k", <<"k_norm", l>>, c.n)>>
    \o DebugCopies(c, l, <<<<"q", "Qcur_normed">>, <<"k", "Kcur_normed">>>>)

Plane(l) == "kv" \o ToString(l)
AllRows(c) == [r \in 1..c.n |-> r]

\* The rotation of a block's queries and keys (sliding layers only).
Rotation(c, l) ==
    (IF l \in Swa THEN <<RopeNorm(Exact(c), "q", "k", c.n)>> ELSE <<>>)
    \o DebugCopies(c, l, <<<<"q", "Qcur_rope">>, <<"k", "Kcur_rope">>>>)

\* A wrapped ring is staged into contiguous rows before attention reads it.
StagedAttention(c, l) ==
    <<StageSwa(Plane(l), "k", "v", c.n)>>
    \o IF c.n = 1 /\ Exact(c)
       THEN <<Barrier({"staged"})
              \o DecodeVec(FALSE, FALSE, "q", 1, "staged", 1, 1, "attention", 1)>>
       ELSE <<FlashAttention("q", "staged", 1, "attention", c.n)>>

\* Otherwise the block is stored first and attention reads the plane.  first:
\* no earlier layer of this range has filled the llama mask.
StoredAttention(c, l, first) ==
    <<KvStore(Plane(l), 1, "k", "v", AllRows(c))>>
    \o IF c.shape = "short" /\ Exact(c)
       THEN <<FlattenSeq([r \in 1..c.n |->
                DecodeVec(FALSE, TRUE, "q", r, Plane(l), 1, r, "attention", r)])>>
       ELSE IF l \notin Swa /\ c.shape = "aligned" /\ Exact(c)
       THEN (IF first THEN <<MaskBlk>> ELSE <<>>)
            \o <<LlamaPrefill("q", Plane(l), 1, "attention", c.n)>>
       ELSE <<FlashAttention("q", Plane(l), 1, "attention", c.n)>>

BatchAttention(c, l, first) ==
    Rotation(c, l)
    \o (IF l \in Swa /\ c.wrapped THEN StagedAttention(c, l) ELSE StoredAttention(c, l, first))
    \o DebugCopies(c, l, <<<<"attention", "attn_out">>>>)

\* encode_group_sequence_attention, which the token graph repeats inline: one
\* new row for sequence s, on the buffers p names.
SequenceAttention(c, l, s, p) ==
    LET q == p \o "q"
        k == p \o "k"
        v == p \o "v"
        out == p \o "attention"
        Turned(buf) == Set(buf, s, Term("rope", s, <<Row(buf, s)>>))
        store == KvStore(Plane(l), s, k, v, <<s>>)
        Vec(padded) == store \o Barrier({Plane(l)})
            \o DecodeVec(c.cross, padded, q, s, Plane(l), s, s, out, s)
    IN (IF l \notin Swa THEN <<>>
        ELSE IF Exact(c) THEN <<Dispatch(<<Turned(q)>>) \o Dispatch(<<Turned(k)>>)>>
        ELSE <<Dispatch(<<Turned(q), Turned(k)>>)>>)
       \o IF l \in Swa
          THEN IF (c.vec \/ c.cross) /\ c.full THEN <<Vec(FALSE)>>
               ELSE <<store, SplitK(q, Plane(l), s, s, out)>>
          ELSE IF c.vec \/ c.cross THEN <<Vec(~c.full)>>
               ELSE <<FerriteInterleaved(q, k, v, Plane(l), s, s, out)>>

\* The group copies its rows into the sequences' own buffers and back.
GroupAttention(c, l) ==
    LET Out(b) == FlattenSeq([s \in 1..c.n |-> CopyRow(b, s, "a_" \o b, s)])
        Back(b) == FlattenSeq([s \in 1..c.n |-> CopyRow("a_" \o b, s, b, s)])
    IN <<Out("q") \o Out("k") \o Out("v") \o Out("gate")>>
       \o FlattenSeq([s \in 1..c.n |-> SequenceAttention(c, l, s, "a_")])
       \o <<Back("attention") \o Back("gate")>>

\* llama.cpp gathers the output row before the last residual add.
FinalRowBoundary(c, l, output) ==
    /\ c.path \notin {"group", "token"}
    /\ c.n = 1 /\ output /\ c.wrapped /\ l = NLayers /\ Exact(c)

\* Gate, output projection, post-attention norm and residual, FFN norm.
AttentionTail(c, l, output) ==
    <<SigmoidGate("attention", "gate", c.n)>>
    \o (IF c.debug = l
        THEN <<Copy("attention", "dbg_attn_gated", c.n)
               \o Copy("normed", "dbg_residual", c.n)>>
        ELSE <<>>)
    \o <<Project(c, <<"output", l>>, "attention", "projected", c.n)>>
    \o DebugCopies(c, l, <<<<"projected", "attn_o_proj">>>>)
    \o (IF FinalRowBoundary(c, l, output)
        THEN <<RmsNormMul("projected", <<"post_attn_norm", l>>, "post_norm_eps", "post_norm", c.n),
               ResidualAdd("normed", "post_norm", c.n),
               RmsNormMul("normed", <<"ffn_norm", l>>, "rms_eps", "post_norm", c.n)>>
        ELSE IF c.fused
        THEN <<FusedNormResidualRmsNorm(c.cross, "normed", "projected", "post_norm",
                   <<"post_attn_norm", l>>, <<"ffn_norm", l>>, c.n)>>
        ELSE <<FusedRmsNormResidualAdd(c.cross, "normed", "projected", <<"post_attn_norm", l>>, c.n),
               RmsNormMul("normed", <<"ffn_norm", l>>, "rms_eps", "post_norm", c.n)>>)
    \o DebugCopies(c, l, <<<<"normed", "ffn_inp">>, <<"post_norm", "ffn_norm">>>>)

\* The feed-forward half; its fused tail also writes the next norm.
FeedForward(c, l) ==
    (IF c.path = "token" /\ c.ferrite
     THEN <<GateUpSilu(<<"ffn_gate", l>>, <<"ffn_up", l>>, "post_norm", "ffn_gate")>>
     ELSE <<Project(c, <<"ffn_gate", l>>, "post_norm", "ffn_gate", c.n)
            \o Project(c, <<"ffn_up", l>>, "post_norm", "ffn_up", c.n)>>
          \o DebugCopies(c, l, <<<<"ffn_gate", "ffn_gate">>, <<"ffn_up", "ffn_up">>>>)
          \o <<SiluMul("ffn_gate", "ffn_up", c.n)>>)
    \o DebugCopies(c, l, <<<<"ffn_gate", "ffn_swiglu">>>>)
    \o <<Project(c, <<"ffn_down", l>>, "ffn_gate", "projected", c.n)>>
    \o DebugCopies(c, l, <<<<"projected", "ffn_out">>>>)
    \o (IF c.fused
        THEN <<FusedNormResidualRmsNorm(c.cross, "normed", "projected",
                   IF l < NLayers THEN "post_norm" ELSE "hidden",
                   <<"post_ffn_norm", l>>,
                   IF l < NLayers THEN <<"attn_norm", l + 1>> ELSE <<"output_norm", 0>>, c.n)>>
        ELSE <<FusedRmsNormResidualAdd(c.cross, "normed", "projected", <<"post_ffn_norm", l>>, c.n)>>)

CaptureName(l) == "capture" \o ToString(l)

Captured(c, l) ==
    IF l \in c.captures THEN <<Copy("normed", CaptureName(l), c.n)>> ELSE <<>>

OutputNorm(c) ==
    IF c.fused THEN <<>>
    ELSE <<RmsNormMul("normed", <<"output_norm", 0>>, "rms_eps", "hidden", c.n)>>

\* One-row calls below the window keep the one-kernel softcap.
CapLogits(c, buf, n) ==
    IF c.n = 1 /\ ~c.wrapped THEN <<SoftcapLegacy(buf, n)>>
    ELSE <<Softcap(c.vec \/ c.cross, buf, n)>>

DebugResult(c, buf, name, n) ==
    IF c.path = "debug" /\ c.debug = NLayers
    THEN <<Copy(buf, "dbg_" \o name, n)>> ELSE <<>>

\* The output head of the batch graph: all rows for verification, otherwise
\* the last row only.
Output(c, all) ==
    OutputNorm(c) \o DebugResult(c, "hidden", "result_norm", c.n)
    \o IF all
       THEN <<Project(c, <<"lm_head", 0>>, "hidden", "logits", c.n)>> \o CapLogits(c, "logits", c.n)
       ELSE (IF c.n = 1 THEN <<>> ELSE <<CopyRow("hidden", c.n, "a_hidden", 1)>>)
            \o <<MatMul(<<"lm_head", 0>>, IF c.n = 1 THEN "hidden" ELSE "a_hidden", "a_logits", 1)>>
            \o DebugResult(c, "a_logits", "result_projection", 1)
            \o CapLogits(c, "a_logits", 1)

\* encode_batch_hidden_range: layers a..b, with or without entry and output.
BatchRange(c, a, b, entry, output, all) ==
    (IF entry THEN Entry(c) ELSE <<>>)
    \o FlattenSeq([i \in 1..(b + 1 - a) |->
           LET l == a + i - 1
           IN Projections(c, l)
              \o BatchAttention(c, l, \A j \in a..l - 1 : j \in Swa)
              \o AttentionTail(c, l, output) \o FeedForward(c, l) \o Captured(c, l)])
    \o IF output THEN Output(c, all) ELSE <<>>

\* A later segment of a split verification, a command buffer of its own: with
\* fused norms the boundary norm is computed again.
Segment(c, a, b) ==
    (IF c.fused
     THEN <<RmsNormMul("normed", <<"attn_norm", a>>, "rms_eps", "post_norm", c.n)>>
     ELSE <<>>)
    \o BatchRange(c, a, b, FALSE, b = NLayers, TRUE)

\* begin_dflash_verify_suffix: the layers up to capture_end, then the rest.
SplitGraph(c, cut) ==
    <<Embedding("hidden", c.n)>> \o BatchRange(c, 1, cut, TRUE, FALSE, TRUE)
        \o Segment(c, cut + 1, NLayers)

\* begin_dflash_verify_suffix_capture_fc: a segment ends at every captured layer.
CaptureFcGraph(c) ==
    LET ends == SetToSortSeq(c.captures, <) \o <<NLayers>>
    IN <<Embedding("hidden", c.n)>> \o BatchRange(c, 1, ends[1], TRUE, FALSE, TRUE)
       \o FlattenSeq([i \in 1..Len(ends) - 1 |-> Segment(c, ends[i] + 1, ends[i + 1])])

\* encode_token: one row of one sequence, on the sequence's own activations.
TokenAttention(c, l) == SequenceAttention(c, l, 1, "")
StepTail(c, l) == AttentionTail(c, l, TRUE) \o FeedForward(c, l)

StepHead(c) ==
    OutputNorm(c)
    \o <<MatMul(<<"lm_head", 0>>, "hidden", "logits", c.n),
         Softcap(c.vec \/ c.cross, "logits", c.n)>>

TokenGraph(c) ==
    <<Embedding("hidden", c.n)>> \o Entry(c)
    \o FlattenSeq([l \in 1..NLayers |->
           Projections(c, l) \o TokenAttention(c, l) \o StepTail(c, l)])
    \o StepHead(c)

\* encode_decode_group: the same, one row of each of several sequences.
GroupGraph(c) ==
    <<Embedding("hidden", c.n)>> \o Entry(c)
    \o FlattenSeq([l \in 1..NLayers |->
           Projections(c, l) \o GroupAttention(c, l) \o StepTail(c, l)])
    \o StepHead(c)

\* run_swa_tail_metal: the second half of layer c.debug on given inputs.
TailGraph(c) ==
    LET l == c.debug
    IN <<MatMul(<<"output", l>>, "attention", "projected", c.n),
         FusedRmsNormResidualAdd(c.cross, "normed", "projected", <<"post_attn_norm", l>>, c.n),
         RmsNormMul("normed", <<"ffn_norm", l>>, "rms_eps", "post_norm", c.n),
         MatMul(<<"ffn_gate", l>>, "post_norm", "ffn_gate", c.n),
         MatMul(<<"ffn_up", l>>, "post_norm", "ffn_up", c.n),
         SiluMul("ffn_gate", "ffn_up", c.n),
         MatMul(<<"ffn_down", l>>, "ffn_gate", "projected", c.n),
         FusedRmsNormResidualAdd(c.cross, "normed", "projected", <<"post_ffn_norm", l>>, c.n)>>

\* forward_batch and forward_batch_capturing(_layer_major): the last row's logits.
BatchGraph(c) ==
    <<Embedding("hidden", c.n)>> \o BatchRange(c, 1, NLayers, TRUE, TRUE, FALSE)

\* forward_batch_all_logits_capturing: every row's.
VerifyGraph(c) ==
    <<Embedding("hidden", c.n)>> \o BatchRange(c, 1, NLayers, TRUE, TRUE, TRUE)

\* forward_capturing_debug_layer: stops behind the layer unless it is the last.
DebugGraph(c) ==
    IF c.path = "debug" THEN BatchGraph(c)
    ELSE <<Embedding("hidden", c.n)>> \o BatchRange(c, 1, c.debug, TRUE, FALSE, FALSE)

Graph(c) ==
    CASE c.path = "token" -> TokenGraph(c)
      [] c.path = "group" -> GroupGraph(c)
      [] c.path = "tail" -> TailGraph(c)
      [] c.path = "split" -> SplitGraph(c, NLayers - 1)
      [] c.path = "capture_fc" -> CaptureFcGraph(c)
      [] c.path \in {"debug", "stopped"} -> DebugGraph(c)
      [] c.path = "verify" -> VerifyGraph(c)
      [] c.path = "draft" -> WholeRound(NLayers, c.n)
      [] c.path = "draft_split" -> SplitRound(NLayers, c.n, c.selected)
      [] c.path = "draft_prompt" -> PromptChunk(NLayers, 1, c.n)
      [] OTHER -> BatchGraph(c)

Graphs == [c \in Confs |-> Graph(c)]

-----------------------------------------------------------------------------
(* The reference: one equation per named tensor of forward_inputs, for row *)
(* r of layer l.  grouped: every row is a sequence of its own.             *)

LayerInput(l, r) == IF l = 1 THEN Node("entry_norm", 0, r) ELSE Node("l_out", l - 1, r)
Rotated(name, l, r) ==
    Node(IF l \in Swa THEN name \o "_rope" ELSE name \o "_normed", l, r)
PlaneOf(grouped, r) == IF grouped THEN r ELSE 1
NewRows(grouped, s, n) == IF grouped THEN <<s>> ELSE [r \in 1..n |-> r]

LayerEquations(grouped, n, l, r) ==
    LET N(name) == Node(name, l, r)
        Linear(name, w, x) == Equation(N(name), "matmul", <<w, l>>, <<x>>)
        Normed(name, w, eps, x) == Equation(N(name), "norm", <<<<w, l>>, eps>>, <<x>>)
        Sum(name, x, y) == Equation(N(name), "add", "", <<x, y>>)
    IN {Normed("attn_norm", "attn_norm", "rms_eps", LayerInput(l, r)),
        Linear("Qcur", "q", N("attn_norm")), Linear("Kcur", "k", N("attn_norm")),
        Linear("Vcur", "v", N("attn_norm")), Linear("attn_gate", "gate", N("attn_norm")),
        Normed("Qcur_normed", "q_norm", "rms_eps", N("Qcur")),
        Normed("Kcur_normed", "k_norm", "rms_eps", N("Kcur")),
        Equation(N("Qcur_rope"), "rope", r, <<N("Qcur_normed")>>),
        Equation(N("Kcur_rope"), "rope", r, <<N("Kcur_normed")>>),
        Equation(N("attn_out"), "attn", r,
                 <<Rotated("Qcur", l, r), Node("kv", l, PlaneOf(grouped, r))>>),
        Equation(N("attn_gated"), "gate", "", <<N("attn_out"), N("attn_gate")>>),
        Linear("attn_o_proj", "output", N("attn_gated")),
        Normed("attn_post_norm", "post_attn_norm", "post_norm_eps", N("attn_o_proj")),
        Sum("ffn_inp", LayerInput(l, r), N("attn_post_norm")),
        Normed("ffn_norm", "ffn_norm", "rms_eps", N("ffn_inp")),
        Linear("ffn_gate", "ffn_gate", N("ffn_norm")),
        Linear("ffn_up", "ffn_up", N("ffn_norm")),
        Equation(N("ffn_swiglu"), "swiglu", "", <<N("ffn_gate"), N("ffn_up")>>),
        Linear("ffn_out", "ffn_down", N("ffn_swiglu")),
        Normed("ffn_post_norm", "post_ffn_norm", "post_norm_eps", N("ffn_out")),
        Sum("l_out", N("ffn_inp"), N("ffn_post_norm"))}

\* KvCache::append of the block's rows.
AppendEquation(grouped, n, l, s) ==
    LET rows == NewRows(grouped, s, n)
    IN Equation(Node("kv", l, s), "append", "",
           <<Node("old", l, s)>> \o [i \in DOMAIN rows |-> Rotated("Kcur", l, rows[i])]
                                 \o [i \in DOMAIN rows |-> Node("Vcur", l, rows[i])])

HeadEquations(r) ==
    LET N(name) == Node(name, 0, r)
    IN {Equation(N("embedding"), "embed", r, <<>>),
        Equation(N("entry_norm"), "norm", <<<<"ones", 0>>, "rms_eps">>, <<N("embedding")>>),
        Equation(N("result_norm"), "norm", <<<<"output_norm", 0>>, "rms_eps">>,
                 <<Node("l_out", NLayers, r)>>),
        Equation(N("result_projection"), "matmul", <<"lm_head", 0>>, <<N("result_norm")>>),
        Equation(N("scaled"), "scale", "logit", <<N("result_projection")>>),
        Equation(N("inverse"), "scale", "1/softcap", <<N("scaled")>>),
        Equation(N("tanh"), "tanh", "", <<N("inverse")>>),
        Equation(N("result_output"), "scale", "softcap", <<N("tanh")>>)}

Equations(grouped, n) ==
    UNION {LayerEquations(grouped, n, l, r) : l \in 1..NLayers, r \in 1..n}
        \cup UNION {HeadEquations(r) : r \in 1..n}
        \cup {AppendEquation(grouped, n, l, s) :
                 l \in 1..NLayers, s \in IF grouped THEN 1..n ELSE {1}}
        \cup {Equation(<<"mask">>, "mask", "", <<>>),
              Equation(<<"blk">>, "blk", "", <<<<"mask">>>>)}

MaxRows == 2
Table(eqs) == [k \in {e.key : e \in eqs} |-> (CHOOSE e \in eqs : e.key = k).node]
Reference == [g \in BOOLEAN, n \in 1..MaxRows |-> Table(Equations(g, n))]
DraftReference == [n \in 1..MaxRows |-> Table(DraftEquations(NLayers, MaxRows, n))]
Drafts == {"draft", "draft_split", "draft_prompt"}

-----------------------------------------------------------------------------
(* Execution.                                                              *)

Junk == <<"junk">>

\* What an operation computes: the reference tensor with that equation, or
\* something else.  Kernels that share an operation between dispatches leave
\* tagged intermediate values.
Apply(c, op, w, x) ==
    LET table == IF c.path \in Drafts THEN DraftReference[c.selected]
                 ELSE Reference[c.path = "group", c.n]
        Known(o, v, a) == IF <<o, v, a>> \in DOMAIN table THEN table[<<o, v, a>>] ELSE Junk
    IN CASE op = "rms" -> <<"rms", w, x[1]>>
         [] op = "weight" -> IF x[1][1] = "rms" THEN Known("norm", <<w, x[1][2]>>, <<x[1][3]>>)
                             ELSE Junk
         [] op = "quantize" -> <<"quantized", w, x[1]>>
         [] op = "qmatmul" -> IF x[1][1] = "quantized" /\ x[1][2] = w
                              THEN Known("matmul", w, <<x[1][3]>>) ELSE Junk
         [] op = "pad" -> <<"pad", w, x[1]>>
         [] op = "partial" -> IF w[2] => x[3] = <<"pad", w[1], x[2]>>
                              THEN <<"partial", Known("attn", w[1], <<x[1], x[2]>>)>> ELSE Junk
         [] op = "reduce" -> IF x[1][1] = "partial" THEN x[1][2] ELSE Junk
         [] op = "masked" -> IF x[2] = <<"blk">> THEN x[1] ELSE Junk
         [] OTHER -> Known(op, w, x)

RECURSIVE Val(_, _, _)
Val(c, m, t) ==
    IF t.op = "load" THEN (IF t.w \in DOMAIN m THEN m[t.w] ELSE Junk)
    ELSE Apply(c, t.op, t.w, [i \in DOMAIN t.args |-> Val(c, m, t.args[i])])

\* A dispatch reads everything before it writes anything.
Effect(c, m, sets) ==
    LET new == [i \in DOMAIN sets |-> Val(c, m, sets[i].term)]
        At(loc) == CHOOSE i \in DOMAIN sets : <<sets[i].buf, sets[i].row>> = loc
        locs == {<<sets[i].buf, sets[i].row>> : i \in DOMAIN sets}
    IN [loc \in DOMAIN m \cup locs |-> IF loc \in locs THEN new[At(loc)] ELSE m[loc]]

Sequences(c) == IF c.path = "group" THEN 1..c.n ELSE {1}

\* Memory a call starts from: the caches and its inputs.
Before(c) ==
    LET caches == [loc \in {<<Plane(l), s>> : l \in 1..NLayers, s \in Sequences(c)} |->
                      Node("old", CHOOSE l \in 1..NLayers : Plane(l) = loc[1], loc[2])]
        tail == [loc \in {"attention", "normed"} \X (1..c.n) |->
                    IF loc[1] = "attention" THEN Node("attn_gated", c.debug, loc[2])
                    ELSE LayerInput(c.debug, loc[2])]
        mirror == [loc \in {CachedPlane(kv, l) : kv \in {"k", "v"}, l \in 1..NLayers} \X {1} |->
                      LET at == CHOOSE p \in {"k", "v"} \X (1..NLayers) :
                                    CachedPlane(p[1], p[2]) = loc[1]
                      IN  Node("cached_" \o at[1], at[2], 1)]
        noise == [loc \in {"hidden"} \X (1..Noise) |-> Node("noise", 0, loc[2])]
        target == [loc \in {"target_input"} \X (1..c.n) |-> Node("target", 0, loc[2])]
        slot == [loc \in {"slot"} \X (1..c.n + 1) |-> Node("target", 0, loc[2] - 1)]
    IN CASE c.path = "tail" -> caches @@ tail
         [] c.path \in {"draft", "draft_split"} -> mirror @@ noise @@ target
         [] c.path = "draft_prompt" -> slot
         [] OTHER -> caches

Call(c) == conf = c /\ pc = 1 /\ done = {} /\ mem = Before(c)
Init == \E c \in Confs : Call(c)

Finished == pc > Len(Graphs[conf])
Closure == Graphs[conf][pc]

\* The GPU executes one dispatch.
Execute ==
    /\ ~Finished
    /\ \E i \in Ready(conf.concurrent, Closure, done) :
          /\ mem' = Effect(conf, mem, Closure[i].sets)
          /\ IF done \cup {i} = Dispatches(Closure)
             THEN pc' = pc + 1 /\ done' = {}
             ELSE done' = done \cup {i} /\ UNCHANGED pc
    /\ UNCHANGED conf

\* The next call finds the activation buffers with whatever they hold.
NextCall ==
    /\ Finished
    /\ conf' \in Confs
    /\ pc' = 1
    /\ done' = {}
    /\ mem' = Before(conf')

Next == Execute \/ NextCall
Spec == Init /\ [][Next]_vars

-----------------------------------------------------------------------------
(* Properties.                                                             *)

At(buf, r) == IF <<buf, r>> \in DOMAIN mem THEN mem[<<buf, r>>] ELSE Junk

\* The logits a call returns are the reference's, on every route and however
\* the encoder overlaps dispatches: no route reads a row an earlier kernel
\* has not produced, or that a later one has already overwritten.
LogitsExact ==
    (Finished /\ conf.path \notin {"tail", "stopped"} \cup Drafts) =>
        IF conf.path \in {"batch", "debug"}
        THEN At("a_logits", 1) = Node("result_output", 0, conf.n)
        ELSE \A r \in 1..conf.n : At("logits", r) = Node("result_output", 0, r)

\* Every layer the call ran left exactly the block's rotated keys and its
\* values appended to that sequence's cache, so the next call resumes from it.
PlanesExact ==
    (Finished /\ conf.path \notin {"tail"} \cup Drafts) =>
        \A l \in 1..(IF conf.path = "stopped" THEN conf.debug ELSE NLayers),
           s \in Sequences(conf) :
              At(Plane(l), s) = Node("kv", l, s)

\* An assistant round drafts from the tensors of the CPU assistant, whether
\* it runs whole or is prepared for more rows than the verifier then selects,
\* and the arena holds the context rows it commits, from a prompt chunk too.
DraftExact ==
    (Finished /\ conf.path \in Drafts) =>
        /\ \A l \in 1..NLayers, r \in 1..conf.selected :
              /\ At(RoundBuffer("k", l), r) = Node("k_fresh", l, r)
              /\ At(RoundBuffer("v", l), r) = Node("v_fresh", l, r)
        /\ conf.path # "draft_prompt" =>
              \A b \in 1..Noise : At("hidden", b) = Node("draft_hidden", 0, b)

\* What a call hands to its caller besides the logits is the tensor its name
\* says: captured layer outputs (the draft model's input), the tail capture,
\* the debug tensors, and the recomputed tail itself.
DebugNames ==
    {"attn_norm", "Qcur", "Kcur", "Vcur", "attn_gate", "Qcur_normed", "Kcur_normed",
     "attn_out", "attn_gated", "attn_o_proj", "ffn_inp", "ffn_norm", "ffn_gate",
     "ffn_up", "ffn_swiglu", "ffn_out"}
CapturesExact ==
    Finished => \A r \in 1..conf.n :
        /\ \A l \in conf.captures : At(CaptureName(l), r) = Node("l_out", l, r)
        /\ conf.debug # 0 /\ conf.path # "tail" =>
              /\ At("dbg_attn_gated", r) = Node("attn_gated", conf.debug, r)
              /\ At("dbg_residual", r) = LayerInput(conf.debug, r)
        /\ conf.path \in {"debug", "stopped"} =>
              /\ At("dbg_embedding", r) = Node("embedding", 0, r)
              /\ At("dbg_entry_norm", r) = Node("entry_norm", 0, r)
              /\ \A name \in DebugNames :
                    At("dbg_" \o name, r) = Node(name, conf.debug, r)
              /\ \A name \in {"Qcur", "Kcur"} :
                    At("dbg_" \o name \o "_rope", r) = Rotated(name, conf.debug, r)
        /\ conf.path = "debug" /\ conf.debug = NLayers =>
              At("dbg_result_norm", r) = Node("result_norm", 0, r)
        /\ conf.path = "tail" => At("normed", r) = Node("l_out", conf.debug, r)
=============================================================================
