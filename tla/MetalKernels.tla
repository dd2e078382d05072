---------------------------- MODULE MetalKernels ----------------------------
(***************************************************************************)
(* What the Metal command encoder is told to do (muser-engine/src/metal/   *)
(* encode/*.rs and the GraphEncoder of decode.rs), down to the dispatches  *)
(* and the memory barriers between them.                                   *)
(*                                                                         *)
(* A wrapper encodes a sequence of items into a closure.  An item is a     *)
(* dispatch, which stores into some buffer rows the values of terms over   *)
(* rows it reads, or a barrier on buffers.  Arithmetic is symbolic: a term *)
(* names the operation, the weights and the operands, so two routes agree  *)
(* exactly when they combine the same operands in the same order.  Kernel  *)
(* geometry, rounding and pipeline selection are left out.                 *)
(***************************************************************************)
EXTENDS Naturals, Sequences, FiniteSets, SequencesExt, TLC

\* Terms: the content of a row, or an operation on terms.
Row(buf, r) == [op |-> "load", w |-> <<buf, r>>, args |-> <<>>]
Term(op, w, args) == [op |-> op, w |-> w, args |-> args]
Set(buf, r, term) == [buf |-> buf, row |-> r, term |-> term]

Dispatch(sets) == <<[kind |-> "dispatch", sets |-> sets, on |-> {}]>>
Barrier(bufs) == <<[kind |-> "barrier", sets |-> <<>>, on |-> bufs]>>

\* A reference gives one equation per tensor: node is what op makes of args.
Node(name, l, r) == <<name, l, r>>
Equation(node, op, w, args) == [key |-> <<op, w, args>>, node |-> node]

\* One row-wise kernel over n rows.
Rowwise(buf, n, T(_)) == Dispatch([r \in 1..n |-> Set(buf, r, T(r))])

-----------------------------------------------------------------------------
(* norm.rs                                                                 *)

Norm(w, eps, x) == Term("norm", <<w, eps>>, <<x>>)

\* encode_rms_norm_mul: one dispatch on every route.
RmsNormMul(in, w, eps, out, n) ==
    Rowwise(out, n, LAMBDA r : Norm(w, eps, Row(in, r)))

\* encode_cross_vendor_rms_then_weight: the division, a barrier, the product.
CrossVendorRmsThenWeight(in, w, eps, out, n) ==
    Rowwise(out, n, LAMBDA r : Term("rms", eps, <<Row(in, r)>>))
        \o Barrier({out})
        \o Rowwise(out, n, LAMBDA r : Term("weight", w, <<Row(out, r)>>))

\* encode_qk_norm, in place.
QkNorm(cross, buf, w, n) ==
    IF cross THEN CrossVendorRmsThenWeight(buf, w, "rms_eps", buf, n)
    ELSE RmsNormMul(buf, w, "rms_eps", buf, n)

ResidualAdd(hidden, src, n) ==
    Rowwise(hidden, n, LAMBDA r : Term("add", "", <<Row(hidden, r), Row(src, r)>>))

\* encode_fused_norm_residual_rms_norm_*: residual += norm(source), then the
\* next norm of the residual; the exact route takes five dispatches for it.
FusedNormResidualRmsNorm(cross, hidden, source, out, first, second, n) ==
    IF cross
    THEN CrossVendorRmsThenWeight(source, first, "post_norm_eps", out, n)
         \o Barrier({out}) \o ResidualAdd(hidden, out, n)
         \o Barrier({hidden})
         \o CrossVendorRmsThenWeight(hidden, second, "rms_eps", out, n)
    ELSE LET Sum(r) == Term("add", "", <<Row(hidden, r),
                            Norm(first, "post_norm_eps", Row(source, r))>>)
         IN Dispatch([r \in 1..n |-> Set(hidden, r, Sum(r))]
                     \o [r \in 1..n |-> Set(out, r, Norm(second, "rms_eps", Sum(r)))])

\* encode_fused_rms_norm_residual_add_batch; the exact route works in place on
\* its input.
FusedRmsNormResidualAdd(cross, residual, in, w, n) ==
    IF cross
    THEN CrossVendorRmsThenWeight(in, w, "post_norm_eps", in, n)
         \o Barrier({in}) \o ResidualAdd(residual, in, n)
    ELSE Rowwise(residual, n, LAMBDA r :
             Term("add", "", <<Row(residual, r),
                               Norm(w, "post_norm_eps", Row(in, r))>>))

-----------------------------------------------------------------------------
(* qkv.rs, rope.rs, gate.rs, ffn.rs                                        *)

\* encode_f16_matmul, encode_nvfp4_matmul, encode_quantized_matmul and
\* encode_quantized_decode_group: one dispatch whatever the weight type.
MatMul(w, in, out, n) ==
    Rowwise(out, n, LAMBDA r : Term("matmul", w, <<Row(in, r)>>))

\* encode_nvfp4_w4a4_prequant_m16: quantize the activations into the shared
\* scratch, then multiply from it.
Prequant(w, in, out, n) ==
    Rowwise("quantized", n, LAMBDA r : Term("quantize", w, <<Row(in, r)>>))
        \o Rowwise(out, n, LAMBDA r : Term("qmatmul", w, <<Row("quantized", r)>>))

\* encode_rope_norm_batch_cached; the ggml pipeline takes one dispatch each.
RopeNorm(ggml, q, k, n) ==
    LET Turn(buf) == [r \in 1..n |-> Set(buf, r, Term("rope", r, <<Row(buf, r)>>))]
    IN IF ggml THEN Dispatch(Turn(q)) \o Dispatch(Turn(k))
       ELSE Dispatch(Turn(q) \o Turn(k))

SigmoidGate(attention, gate, n) ==
    Rowwise(attention, n, LAMBDA r :
        Term("gate", "", <<Row(attention, r), Row(gate, r)>>))

SiluMul(gate, up, n) ==
    Rowwise(gate, n, LAMBDA r : Term("swiglu", "", <<Row(gate, r), Row(up, r)>>))

\* encode_ffn_q4k_gate_up_silu_4r2s
GateUpSilu(wg, wu, in, out) ==
    Dispatch(<<Set(out, 1, Term("swiglu", "",
        <<Term("matmul", wg, <<Row(in, 1)>>), Term("matmul", wu, <<Row(in, 1)>>)>>))>>)

\* encode_embedding_q4k: row r is the embedding of the block's r-th token.
Embedding(out, n) == Rowwise(out, n, LAMBDA r : Term("embed", r, <<>>))

\* encode_copy_f32, encode_copy_f32_region and encode_copy_row.
Copy(src, dst, n) == Rowwise(dst, n, LAMBDA r : Row(src, r))
CopyRow(src, r, dst, s) == Dispatch(<<Set(dst, s, Row(src, r))>>)

-----------------------------------------------------------------------------
(* attn.rs.  A plane is one buffer; kv is its row for the sequence.        *)

Kv(plane, s) == Row(plane, s)
Appended(plane, s, k, v, rows) ==
    Term("append", "", <<Kv(plane, s)>> \o [i \in DOMAIN rows |-> Row(k, rows[i])]
                                        \o [i \in DOMAIN rows |-> Row(v, rows[i])])
Attend(r, q, kv) == Term("attn", r, <<q, kv>>)

\* encode_kv_store_f16, encode_kv_store_batch_f16
KvStore(plane, s, k, v, rows) ==
    Dispatch(<<Set(plane, s, Appended(plane, s, k, v, rows))>>)

\* encode_flash_attention_v2, encode_attention_prefill_f32
FlashAttention(q, plane, s, out, n) ==
    Rowwise(out, n, LAMBDA r : Attend(r, Row(q, r), Kv(plane, s)))

\* encode_stage_swa_prefill_f16 and encode_stage_swa_llama_decode_f16 shadow
\* the ring with the new rows and store them in the ring as well.
StageSwa(plane, k, v, n) ==
    LET now == Appended(plane, 1, k, v, [r \in 1..n |-> r])
    IN Dispatch(<<Set("staged", 1, now), Set(plane, 1, now)>>)

\* encode_llama_fa_prefill_mask_blk and encode_llama_flash_attn_prefill_f16
MaskBlk == Dispatch(<<Set("mask", 1, Term("mask", "", <<>>))>>) \o Barrier({"mask"})
           \o Dispatch(<<Set("blk", 1, Term("blk", "", <<Row("mask", 1)>>))>>)
LlamaPrefill(q, plane, s, out, n) ==
    Rowwise(out, n, LAMBDA r :
        Term("masked", "", <<Attend(r, Row(q, r), Kv(plane, s)), Row("blk", 1)>>))

\* Mutant: no barrier between the partial sums and their reduction.
DecodeVecUnordered(cross, padded, q, qr, plane, s, r, out, or) ==
    (IF padded
     THEN Dispatch(<<Set("pad", s, Term("pad", r, <<Kv(plane, s)>>))>>)
          \o Barrier({"pad"})
     ELSE <<>>)
    \o Dispatch(<<Set("partials", s, Term("partial", <<r, padded>>,
           <<Row(q, qr), Kv(plane, s), Row("pad", s)>>))>>)
    \o Dispatch(<<Set(out, or, Term("reduce", "", <<Row("partials", s)>>))>>)
    \o Barrier({"partials", out})

\* encode_llama_flash_attn_decode_vec_f16: [pad], partial sums, reduction.
DecodeVec(cross, padded, q, qr, plane, s, r, out, or) ==
    IF cross
    THEN Dispatch(<<Set(out, or, Attend(r, Row(q, qr), Kv(plane, s)))>>)
    ELSE (IF padded
          THEN Dispatch(<<Set("pad", s, Term("pad", r, <<Kv(plane, s)>>))>>)
               \o Barrier({"pad"})
          ELSE <<>>)
         \o Dispatch(<<Set("partials", s, Term("partial", <<r, padded>>,
                <<Row(q, qr), Kv(plane, s), Row("pad", s)>>))>>)
         \o Barrier({"partials"})
         \o Dispatch(<<Set(out, or, Term("reduce", "", <<Row("partials", s)>>))>>)
         \o Barrier({"partials", out})

\* encode_attention_decode_splitk_f16
SplitK(q, plane, s, r, out) ==
    Barrier({q, plane})
        \o Dispatch(<<Set("partials", s, Term("partial", <<r, FALSE>>,
               <<Row(q, s), Kv(plane, s), Row("pad", s)>>))>>)
        \o Barrier({"partials"})
        \o Dispatch(<<Set(out, s, Term("reduce", "", <<Row("partials", s)>>))>>)
        \o Barrier({"partials", out})

\* encode_ferrite_attention_decode_interleaved_f16 also stores the new row.
FerriteInterleaved(q, k, v, plane, s, r, out) ==
    LET now == Appended(plane, s, k, v, <<s>>)
    IN Dispatch(<<Set("partials", s, Term("partial", <<r, FALSE>>,
              <<Row(q, s), now, Row("pad", s)>>)), Set(plane, s, now)>>)
       \o Barrier({"partials"})
       \o Dispatch(<<Set(out, s, Term("reduce", "", <<Row("partials", s)>>))>>)
       \o Barrier({"partials", out})

-----------------------------------------------------------------------------
(* lmhead.rs                                                               *)

Capped(x) == Term("scale", "softcap", <<Term("tanh", "",
                <<Term("scale", "1/softcap", <<Term("scale", "logit", <<x>>)>>)>>)>>)

\* encode_scale_softcap_legacy: one kernel.
SoftcapLegacy(buf, n) == Rowwise(buf, n, LAMBDA r : Capped(Row(buf, r)))

\* encode_scale_softcap(_count): a chain of unary kernels in place.
Softcap(chain, buf, n) ==
    LET Unary(op, w) == Rowwise(buf, n, LAMBDA r : Term(op, w, <<Row(buf, r)>>))
    IN IF chain
       THEN Unary("scale", "logit") \o Barrier({buf})
            \o Unary("scale", "1/softcap") \o Barrier({buf})
            \o Unary("tanh", "") \o Barrier({buf})
            \o Unary("scale", "softcap")
       ELSE SoftcapLegacy(buf, n)

-----------------------------------------------------------------------------
(* The encoder.                                                            *)

RECURSIVE Loads(_)
Loads(t) == IF t.op = "load" THEN {t.w[1]}
            ELSE UNION {Loads(t.args[i]) : i \in DOMAIN t.args}

\* The buffers an item touches.
Touched(item) ==
    UNION {{item.sets[i].buf} \cup Loads(item.sets[i].term) :
               i \in DOMAIN item.sets}

\* Must item i of a closure wait for item j?  A serial encoder runs dispatches
\* in order.  In a concurrent one a barrier holds back everything after it
\* until what came before and touches one of its buffers is done.
Waits(concurrent, closure, j, i) ==
    /\ j < i
    /\ \/ ~concurrent
       \/ \E b \in j + 1..i - 1 :
             /\ closure[b].kind = "barrier"
             /\ closure[b].on \cap Touched(closure[j]) # {}

\* The dispatches of a closure that may run next.
Ready(concurrent, closure, done) ==
    {i \in DOMAIN closure \ done :
        /\ closure[i].kind = "dispatch"
        /\ \A j \in DOMAIN closure \ done :
              closure[j].kind = "dispatch" => ~Waits(concurrent, closure, j, i)}

Dispatches(closure) == {i \in DOMAIN closure : closure[i].kind = "dispatch"}
=============================================================================
