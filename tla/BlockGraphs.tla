---------------------------- MODULE BlockGraphs ----------------------------
(***************************************************************************)
(* The graphs the architectures build (src/arch, src/forward).  A tensor   *)
(* is the term that computes it: an operation and its operands, or a leaf, *)
(* which is a weight of a layer or an input of a sub-batch.  Equal terms   *)
(* compute equal tensors.  Shapes are left out: reshapes, permutations,    *)
(* views and the flattening of a batch are not operations here, and the    *)
(* scores, their softmax and the product with the values are one.          *)
(***************************************************************************)
EXTENDS Integers, Sequences, SequencesExt

Leaf(name, n) == [op |-> name, n |-> n, of |-> <<>>]
Node(op, of)  == [op |-> op, n |-> 0, of |-> of]

Null == Leaf("nullptr", 0)

ggml_add(x, y)  == Node("add", <<x, y>>)
ggml_mul(x, y)  == Node("mul", <<x, y>>)
ggml_norm(x)    == Node("norm", <<x>>)

build_linear(weight, x)   == Node("mul_mat", <<weight, x>>)
build_rms_norm(x, weight) == ggml_mul(Node("rms_norm", <<x>>), weight)
build_rope(x, pos)        == Node("rope", <<x, pos>>)

Biased(weight, bias, x)    == ggml_add(build_linear(weight, x), bias)
LayerNorm(x, weight, bias) == ggml_add(ggml_mul(ggml_norm(x), weight), bias)

Attention(q, k, v, mask) == Node("attention", <<q, k, v, mask>>)

-----------------------------------------------------------------------------
(* What bind_weights resolves: the tensors of the embedding and final      *)
(* phases, and those of a layer.                                           *)
BertEmbed ==
  [tok    |-> Leaf("token_embd.weight", 0),      pos    |-> Leaf("position_embd.weight", 0),
   type   |-> Leaf("token_types.weight", 0),     norm_w |-> Leaf("token_embd_norm.weight", 0),
   norm_b |-> Leaf("token_embd_norm.bias", 0)]

BertLayer(l) ==
  [q_w |-> Leaf("attn_q.weight", l),      q_b |-> Leaf("attn_q.bias", l),
   k_w |-> Leaf("attn_k.weight", l),      k_b |-> Leaf("attn_k.bias", l),
   v_w |-> Leaf("attn_v.weight", l),      v_b |-> Leaf("attn_v.bias", l),
   o_w |-> Leaf("attn_output.weight", l), o_b |-> Leaf("attn_output.bias", l),
   norm_w |-> Leaf("attn_output_norm.weight", l),
   norm_b |-> Leaf("attn_output_norm.bias", l),
   up_w   |-> Leaf("ffn_up.weight", l),   up_b   |-> Leaf("ffn_up.bias", l),
   down_w |-> Leaf("ffn_down.weight", l), down_b |-> Leaf("ffn_down.bias", l),
   ffn_norm_w |-> Leaf("layer_output_norm.weight", l),
   ffn_norm_b |-> Leaf("layer_output_norm.bias", l)]

Gemma3Common ==
  [tok_embed |-> Leaf("token_embd.weight", 0), output_norm |-> Leaf("output_norm.weight", 0)]

Gemma3Layer(l) ==
  [attn_norm |-> Leaf("attn_norm.weight", l),
   q |-> Leaf("attn_q.weight", l), k |-> Leaf("attn_k.weight", l),
   v |-> Leaf("attn_v.weight", l), o |-> Leaf("attn_output.weight", l),
   q_norm |-> Leaf("attn_q_norm.weight", l), k_norm |-> Leaf("attn_k_norm.weight", l),
   attn_post_norm |-> Leaf("post_attention_norm.weight", l),
   ffn_norm |-> Leaf("ffn_norm.weight", l),
   gate |-> Leaf("ffn_gate.weight", l), up |-> Leaf("ffn_up.weight", l),
   down |-> Leaf("ffn_down.weight", l),
   ffn_post_norm |-> Leaf("post_ffw_norm.weight", l)]

-----------------------------------------------------------------------------
(* BERT: each sub-layer adds the residual and normalizes at its end. *)
build_attention_projections(x, w) ==
  <<Biased(w.q_w, w.q_b, x), Biased(w.k_w, w.k_b, x), Biased(w.v_w, w.v_b, x)>>

build_attention_output(proj, residual, mask, w) ==
  LayerNorm(ggml_add(residual,
                     Biased(w.o_w, w.o_b, Attention(proj[1], proj[2], proj[3], mask))),
            w.norm_w, w.norm_b)

build_attention_block(x, mask, w) ==
  build_attention_output(build_attention_projections(x, w), x, mask, w)

build_ffn_up(x, w) == Node("gelu_erf", <<Biased(w.up_w, w.up_b, x)>>)

build_ffn_down(h, residual, w) ==
  LayerNorm(ggml_add(Biased(w.down_w, w.down_b, h), residual), w.ffn_norm_w, w.ffn_norm_b)

build_ffn_block(x, w) == build_ffn_down(build_ffn_up(x, w), x, w)

build_encoder_block(x, in, l) ==
  build_ffn_block(build_attention_block(x, in.kq_mask, BertLayer(l)), BertLayer(l))

build_embed_layer(in, w) ==
  LayerNorm(ggml_add(ggml_add(Node("get_rows", <<w.tok, in.token_ids>>),
                              Node("get_rows", <<w.pos, in.learned_pos_ids>>)),
                     Node("get_rows", <<w.type, in.type_ids>>)),
            w.norm_w, w.norm_b)

-----------------------------------------------------------------------------
(* Gemma 3: normalized going in and coming out, the residual added last. *)
build_gqa_projections(x, w) == <<build_linear(w.q, x), build_linear(w.k, x), build_linear(w.v, x)>>

(* Given the lengths, one causal attention per sentence, unmasked; a batch *)
(* with lengths has more than one sentence.                                *)
build_gqa_attention_core(proj, in, w) ==
  LET q == build_rope(build_rms_norm(proj[1], w.q_norm), in.rope_pos_ids)
      k == build_rope(build_rms_norm(proj[2], w.k_norm), in.rope_pos_ids)
  IN  build_linear(w.o,
        IF in.seq_lengths # Null
        THEN Node("causal_attention_per_sentence",
                  <<q, k, proj[3], in.seq_lengths, in.seq_offsets>>)
        ELSE Node("causal", <<Attention(q, k, proj[3], in.kq_mask)>>))

build_gqa_attention(x, in, w) == build_gqa_attention_core(build_gqa_projections(x, w), in, w)

build_gated_ffn_gate_up(x, w) ==
  Node("geglu_split", <<build_linear(w.gate, x), build_linear(w.up, x)>>)

build_gated_ffn_down(h, w) == build_linear(w.down, h)

build_gated_ffn(x, w) == build_gated_ffn_down(build_gated_ffn_gate_up(x, w), w)

build_block(x, in, l) ==
  LET w  == Gemma3Layer(l)
      h  == build_gqa_attention(build_rms_norm(x, w.attn_norm), in, w)
      x1 == ggml_add(x, build_rms_norm(h, w.attn_post_norm))
      f  == build_gated_ffn(build_rms_norm(x1, w.ffn_norm), w)
  IN  ggml_add(x1, build_rms_norm(f, w.ffn_post_norm))

build_embeddings(in) == Node("scale", <<Node("get_rows", <<Gemma3Common.tok_embed, in.token_ids>>)>>)

-----------------------------------------------------------------------------
(* The phases both ways of running a model share. *)
build_embedding_phase(arch, in) ==
  CASE arch = "bert"   -> build_embed_layer(in, BertEmbed)
    [] arch = "gemma3" -> build_embeddings(in)
    [] OTHER           -> in.token_ids

build_final_phase(arch, x) ==
  IF arch = "gemma3" THEN build_rms_norm(x, Gemma3Common.output_norm) ELSE x

(* The whole model as one graph. *)
build_graph(arch, layers, in) ==
  LET x[l \in 0 .. layers] ==
        IF l = 0 THEN build_embedding_phase(arch, in)
        ELSE IF arch = "bert" THEN build_encoder_block(x[l - 1], in, l)
        ELSE build_block(x[l - 1], in, l)
  IN  build_final_phase(arch, x[layers])

-----------------------------------------------------------------------------
(* Pooling, and the inputs a pool may be given (forward/pool.cpp). *)
NoPoolInputs == [valid_mask |-> Null, mean_scale |-> Null, last_indices |-> Null]

build_pool(x, type, pool) ==
  CASE type = "mean" /\ pool.valid_mask = Null    -> Node("mean", <<x>>)
    [] type = "mean" /\ pool.valid_mask # Null    ->
         ggml_mul(Node("sum_rows", <<ggml_mul(x, pool.valid_mask)>>), pool.mean_scale)
    [] type = "cls"                               -> Node("first_token", <<x>>)
    [] type = "last" /\ pool.last_indices = Null  -> Node("last_token", <<x>>)
    [] type = "last" /\ pool.last_indices # Null  -> Node("get_rows", <<x, pool.last_indices>>)

build_packed_pool(x, type, offsets, lengths) ==
  Node("packed_" \o type, <<x, offsets, lengths>>)

build_l2_normalize(x) == Node("l2_norm", <<x>>)

-----------------------------------------------------------------------------
(* The graph inputs an architecture asks for, and a sub-batch to embed:    *)
(* padded or not, with the configuration of the call.                      *)
arch_inputs(arch) ==
  CASE arch = "bert"   -> {"learned_pos", "type_ids", "kq_mask"}
    [] arch = "gemma3" -> {"rope_pos", "kq_mask", "seq_lengths", "packed"}
    [] OTHER           -> {}

embedding_inputs(arch) == IF arch = "bert" THEN {"learned_pos", "type_ids"} ELSE {}

Batch == [padded : BOOLEAN, layout : {"default", "padded"},
          pooling : {"mean", "cls", "last"}, normalize : BOOLEAN]

If(c, t) == IF c THEN t ELSE Null

(* What a padded batch is pooled with: materialize_batch's vectors of      *)
(* sub-batch n.                                                            *)
PoolInputs(batch, n) ==
  [valid_mask   |-> If(batch.padded /\ batch.pooling = "mean", Leaf("valid_mask", n)),
   mean_scale   |-> If(batch.padded /\ batch.pooling = "mean", Leaf("mean_scale", n)),
   last_indices |-> If(batch.padded /\ batch.pooling = "last", Leaf("last_indices", n))]
=============================================================================
