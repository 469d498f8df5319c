----------------------------- MODULE LayerPlans -----------------------------
(***************************************************************************)
(* What the two architectures tell the streaming runner: the units of a    *)
(* layer (streaming_units), the weights outside the layers                 *)
(* (streaming_common_plan), and the tensors their scanners require of the  *)
(* file.  A layer reads the residual "x" and leaves its result there.      *)
(***************************************************************************)
EXTENDS BlockGraphs, FiniteSets

(* ins and outs in the order the unit's builder indexes them; in and out   *)
(* the same slots as sets; weights the tensors it declares.                *)
Unit(name, weights, ins, outs, stage, needs) ==
  [name |-> name, weights |-> weights, ins |-> ins, outs |-> outs,
   in |-> Range(ins), out |-> Range(outs), stage |-> stage, needs |-> needs]

BertUnits == <<
  Unit("attn_qkv", {"attn_q.weight", "attn_q.bias", "attn_k.weight", "attn_k.bias",
                    "attn_v.weight", "attn_v.bias"},
       <<"x">>, <<"q", "k", "v">>, "Attention", {}),
  Unit("attn_out", {"attn_output.weight", "attn_output.bias",
                    "attn_output_norm.weight", "attn_output_norm.bias"},
       <<"q", "k", "v", "x">>, <<"xa">>, "Attention", {"kq_mask"}),
  Unit("ffn_up", {"ffn_up.weight", "ffn_up.bias"}, <<"xa">>, <<"fh">>, "Ffn", {}),
  Unit("ffn_down", {"ffn_down.weight", "ffn_down.bias",
                    "layer_output_norm.weight", "layer_output_norm.bias"},
       <<"fh", "xa">>, <<"x">>, "Ffn", {}) >>

Gemma3Units == <<
  Unit("attn_norm", {"attn_norm.weight"}, <<"x">>, <<"xn">>, "Attention", {}),
  Unit("attn_qkv", {"attn_q.weight", "attn_k.weight", "attn_v.weight"},
       <<"xn">>, <<"q", "k", "v">>, "Attention", {}),
  Unit("attn_core", {"attn_q_norm.weight", "attn_k_norm.weight", "attn_output.weight"},
       <<"q", "k", "v">>, <<"h">>, "Attention",
       {"rope_pos", "kq_mask", "seq_lengths", "packed"}),
  Unit("attn_post", {"post_attention_norm.weight"}, <<"h", "x">>, <<"x1">>, "Attention", {}),
  Unit("ffn_norm", {"ffn_norm.weight"}, <<"x1">>, <<"fn">>, "Ffn", {}),
  Unit("ffn_gate_up", {"ffn_gate.weight", "ffn_up.weight"}, <<"fn">>, <<"fh">>, "Ffn", {}),
  Unit("ffn_down", {"ffn_down.weight"}, <<"fh">>, <<"fd">>, "Ffn", {}),
  Unit("ffn_post", {"post_ffw_norm.weight"}, <<"fd", "x1">>, <<"x">>, "Ffn", {}) >>

(* What the builder of a unit makes of its inputs x, one term per output.  *)
(* Any other architecture's units compute something of their own.          *)
BertBuild(u, l, x, in) ==
  LET w == BertLayer(l)
  IN  CASE u.name = "attn_qkv" -> build_attention_projections(x[1], w)
        [] u.name = "attn_out" -> <<build_attention_output(SubSeq(x, 1, 3), x[4], in.kq_mask, w)>>
        [] u.name = "ffn_up"   -> <<build_ffn_up(x[1], w)>>
        [] u.name = "ffn_down" -> <<build_ffn_down(x[1], x[2], w)>>

Gemma3Build(u, l, x, in) ==
  LET w == Gemma3Layer(l)
  IN  CASE u.name = "attn_norm"   -> <<build_rms_norm(x[1], w.attn_norm)>>
        [] u.name = "attn_qkv"    -> build_gqa_projections(x[1], w)
        [] u.name = "attn_core"   -> <<build_gqa_attention_core(x, in, w)>>
        [] u.name = "attn_post"   -> <<ggml_add(x[2], build_rms_norm(x[1], w.attn_post_norm))>>
        [] u.name = "ffn_norm"    -> <<build_rms_norm(x[1], w.ffn_norm)>>
        [] u.name = "ffn_gate_up" -> <<build_gated_ffn_gate_up(x[1], w)>>
        [] u.name = "ffn_down"    -> <<build_gated_ffn_down(x[1], w)>>
        [] u.name = "ffn_post"    -> <<ggml_add(x[2], build_rms_norm(x[1], w.ffn_post_norm))>>

Build(arch, u, l, x, in) ==
  CASE arch = "bert"   -> BertBuild(u, l, x, in)
    [] arch = "gemma3" -> Gemma3Build(u, l, x, in)
    [] OTHER           -> [k \in DOMAIN u.outs |-> Node(u.outs[k], <<Leaf(u.name, l)>> \o x)]

-----------------------------------------------------------------------------
\* Slip: a norm of the final phase is left out of the common plan.
CommonWithoutNorms(arch) ==
  IF arch = "bert" THEN {"position_embd.weight", "token_types.weight"} ELSE {}

(* streaming_common_plan: the token table, and the small tensors. *)
Token(arch) == IF arch \in {"bert", "gemma3"} THEN {"token_embd.weight"} ELSE {}

Common(arch) ==
  CASE arch = "bert"   -> {"position_embd.weight", "token_types.weight",
                           "token_embd_norm.weight", "token_embd_norm.bias"}
    [] arch = "gemma3" -> {"output_norm.weight"}
    [] OTHER           -> {}

-----------------------------------------------------------------------------
(* The tensors scan_bert and scan_gemma3 require; those of a layer are the *)
(* fields bind_weights resolves.  Shapes are left out.                     *)
LayerTensors(w) == {w[f] : f \in DOMAIN w}

Pooler == {Leaf("pooler.dense.weight", 0), Leaf("pooler.dense.bias", 0)}

scan_bert(layers, file) ==
  LayerTensors(BertEmbed) \cup UNION {LayerTensors(BertLayer(l)) : l \in 1 .. layers}
    \cup {t \in Pooler : Leaf("pooler.dense.weight", 0) \in file}

scan_gemma3(layers) ==
  LayerTensors(Gemma3Common) \cup UNION {LayerTensors(Gemma3Layer(l)) : l \in 1 .. layers}

(* create_model_arch scans with the family the file names. *)
Scanned(arch, layers, file) ==
  CASE arch = "bert"   -> scan_bert(layers, file)
    [] arch = "gemma3" -> scan_gemma3(layers)
    [] OTHER           -> {}
=============================================================================
