-------------------------- MODULE MC_GroupExecution --------------------------
EXTENDS GroupWeights

(* Every plan of three units over the residual x and one other slot; with  *)
(* these weights the presets reach all four partitions.                    *)
AnyUnit(name, w, st) ==
  {[name |-> name, weights |-> {name}, ins |-> SetToSeq(i), outs |-> SetToSeq(o),
    in |-> i, out |-> o, stage |-> st, needs |-> {}, weight |-> w] :
      i \in SUBSET {"x", "a"}, o \in SUBSET {"x", "a"} \ {{}}}

AnyPlan == {<<u, v, w>> : u \in AnyUnit("u1", 2, "Attention"), v \in AnyUnit("u2", 1, "Attention"),
                          w \in AnyUnit("u3", 1, "Ffn")}

AnyBatch == [padded |-> FALSE, layout |-> "default", pooling |-> "mean", normalize |-> FALSE]

AnyModel ==
  {[arch |-> "any", units |-> us, batches |-> {AnyBatch},
    file |-> {Leaf(u, l) : u \in {"u1", "u2", "u3"}, l \in 1 .. Layers}] : us \in AnyPlan}

-----------------------------------------------------------------------------
(* The two architectures, with the tensors of a complete file, with a      *)
(* pooler, with one tensor more and with each tensor of layer 1 or of no   *)
(* layer missing.                                                          *)
Weighed(us, w) ==
  [i \in 1 .. Len(us) |-> [weight |-> w[1 + (i % 2)]] @@ us[i]]

Files(a) ==
  LET all == Scanned(a, Layers, {})
  IN  {all, all \cup Pooler, all \cup {Leaf("rope_freqs.weight", 0)}}
        \cup {all \ {t} : t \in {u \in all : u.n < 2}}

(* Each pooling with one setting of normalize. *)
MCBatches == {b \in Batch : b.normalize = (b.pooling # "cls")}

Family(a, us) ==
  {[arch |-> a, units |-> Weighed(us, w), batches |-> MCBatches, file |-> Scanned(a, Layers, {})] :
     w \in {<<1, 2>>, <<2, 1>>}}
  \cup {[arch |-> a, units |-> Weighed(us, <<1, 2>>), batches |-> {AnyBatch}, file |-> f] :
          f \in Files(a)}

MCModels == AnyModel \cup Family("bert", BertUnits) \cup Family("gemma3", Gemma3Units)

MCPresets == {[name |-> s, bytes |-> 0] : s \in {"layer", "unit", "attn-ffn"}}
             \cup {[name |-> "budget", bytes |-> b] : b \in 1 .. 6}
=============================================================================
