---------------------------- MODULE EagerGraphs ----------------------------
(***************************************************************************)
(* What the eager embedder computes of a sub-batch (embedder.cpp): one     *)
(* graph over all layers, with the inputs build_graph makes and the data   *)
(* embed_batch sets them to.  It is what streaming is compared with.       *)
(***************************************************************************)
EXTENDS BlockGraphs

Packed(arch, batch) ==
  batch.padded /\ batch.layout # "padded" /\ {"seq_lengths", "packed"} \subseteq arch_inputs(arch)

PackedInputs(arch, n) ==
  [token_ids       |-> Leaf("packed_token_ids", n),
   learned_pos_ids |-> Null,
   rope_pos_ids    |-> If("rope_pos" \in arch_inputs(arch), Leaf("packed_positions", n)),
   type_ids        |-> Null,
   kq_mask         |-> Null,
   seq_lengths     |-> Leaf("lengths", n),
   seq_offsets     |-> Leaf("offsets", n)]

(* Lengths for an attention per sentence where the architecture takes      *)
(* them, the mask where it does not.                                       *)
PaddedInputs(arch, batch, n) ==
  LET req     == arch_inputs(arch)
      lengths == batch.padded /\ batch.layout # "padded" /\ "seq_lengths" \in req
  IN  [token_ids       |-> Leaf("token_ids", n),
       learned_pos_ids |-> If("learned_pos" \in req, Leaf("learned_positions", n)),
       rope_pos_ids    |-> If("rope_pos" \in req, Leaf("rope_positions", n)),
       type_ids        |-> If("type_ids" \in req, Leaf("type_ids", n)),
       kq_mask         |-> If(batch.padded /\ "kq_mask" \in req /\ ~lengths,
                              Leaf("attention_mask", n)),
       seq_lengths     |-> If(lengths, Leaf("lengths", n)),
       seq_offsets     |-> Null]

Normalized(batch, x) == IF batch.normalize THEN build_l2_normalize(x) ELSE x

EagerOutput(arch, layers, batch, n) ==
  Normalized(batch,
    IF Packed(arch, batch)
    THEN build_packed_pool(build_graph(arch, layers, PackedInputs(arch, n)), batch.pooling,
                           Leaf("offsets", n), Leaf("lengths", n))
    ELSE build_pool(build_graph(arch, layers, PaddedInputs(arch, batch, n)), batch.pooling,
                    PoolInputs(batch, n)))
=============================================================================
