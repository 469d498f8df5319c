--------------------------- MODULE GroupExecution ---------------------------
(***************************************************************************)
(* The values a streaming context carries between groups: the plan the     *)
(* model makes when it is loaded, SlotStore, run_group and the phases of   *)
(* embed_batch (streaming_execution.cpp), over the groups GroupSlots       *)
(* resolves and the units LayerPlans lists.  The header calls a mistake in *)
(* them the one failure of the design that is silent: a group would upload *)
(* the value of another layer, or of the previous sentence.                *)
(*                                                                         *)
(* A value is the term that computes it, from the weights and from the     *)
(* inputs of its sub-batch; Null is a slot whose valid bit is clear.       *)
(***************************************************************************)
EXTENDS GroupSlots, LayerPlans, EagerGraphs, FiniteSetsExt

CONSTANTS
  Slot,        \* slot ids
  Residual,    \* the slot every layer reads and writes
  Models,      \* the files tried: [arch, units (of every layer), file (its tensors),
               \* batches (the sub-batches it is asked to embed)]
  Presets,     \* the partition presets tried
  Layers,      \* number of layers
  SubBatches   \* bound: sub-batches run by the context

ASSUME ResidualAssumption == Residual \in Slot
ASSUME BoundAssumption == Layers \in Nat \ {0} /\ SubBatches \in Nat \ {0}

(* A layer has units; a unit leaves something, and weighs what the file    *)
(* says.                                                                   *)
IsPlan(us) ==
  /\ us \in Seq(Range(us)) /\ us # <<>>
  /\ \A i \in Index(us) :
       LET u == us[i]
       IN  /\ u.ins \in Seq(Slot)  /\ u.in  = Range(u.ins)
           /\ u.outs \in Seq(Slot) /\ u.out = Range(u.outs) /\ u.out # {}
           /\ u.weight \in Nat

(* The units of an architecture, whatever the file says of their weights.  *)
PlanOf(us, family) ==
  /\ Len(us) = Len(family)
  /\ \A i \in Index(us) : \A f \in DOMAIN family[i] : us[i][f] = family[i][f]

ASSUME ModelAssumption ==
  \A m \in Models :
    /\ IsPlan(m.units) /\ m.batches \subseteq Batch
    /\ m.arch = "bert"   => PlanOf(m.units, BertUnits)   /\ Residual = "x"
    /\ m.arch = "gemma3" => PlanOf(m.units, Gemma3Units) /\ Residual = "x"

ASSUME PresetAssumption ==
  Presets \subseteq [name : {"layer", "unit", "attn-ffn", "budget"}, bytes : Nat]

VARIABLES
  model,   \* the file loaded
  preset,  \* NANOEMBED_STREAMING_PARTITION
  starts,  \* the partition of a layer
  store,   \* SlotStore: slot -> value
  status,  \* "rejected", "ready", "running", "slot_error", "failed"
  begun,   \* sub-batches begun
  batch,   \* the sub-batch in progress
  layer, group, \* the group to run next: layer and first unit
  vector   \* what the sub-batch was embedded to, Null until it is

groupVars == <<model, preset, starts, store, status, begun, batch, layer, group, vector>>

arch  == model.arch
units == model.units

UnitWeights(i, l) == {Leaf(name, l) : name \in units[i].weights}

(* The units of all layers in order: unit UnitAt(k) of layer LayerAt(k). *)
UnitAt(k)  == 1 + ((k - 1) % Len(units))
LayerAt(k) == 1 + ((k - 1) \div Len(units))
AllUnits   == [k \in 1 .. Layers * Len(units) |-> k]

-----------------------------------------------------------------------------
(* Loading: the scan, the classification of every tensor under exactly one *)
(* claimant, and the partition.                                            *)
Claims ==
  <<{Leaf(name, 0) : name \in Token(arch)}, {Leaf(name, 0) : name \in Common(arch)}>>
    \o [k \in DOMAIN AllUnits |-> UnitWeights(UnitAt(k), LayerAt(k))]

Claimed == UNION Range(Claims)

Classified ==
  /\ \A j, k \in DOMAIN Claims : j # k => Claims[j] \cap Claims[k] = {}
  /\ Claimed = model.file

Loads ==
  /\ Scanned(arch, Layers, model.file) \subseteq model.file
  /\ Classified
  /\ Accepted(units, starts, Residual)

GroupInit ==
  /\ model  \in Models
  /\ preset \in Presets
  /\ starts = Starts(units, preset)
  /\ store  = [s \in Slot |-> Null]
  /\ status = IF Loads THEN "ready" ELSE "rejected"
  /\ begun  = 0
  /\ batch  \in model.batches
  /\ layer  = 1
  /\ group  = 1
  /\ vector = Null

-----------------------------------------------------------------------------
(* One decision for the whole sub-batch. *)
PerSentence(b) == b.padded /\ b.layout # "padded" /\ "seq_lengths" \in arch_inputs(arch)
PackedStream(b) == PerSentence(b) /\ "packed" \in arch_inputs(arch)

EmbeddingIn(b, n) ==
  LET req == embedding_inputs(arch)
  IN  [token_ids       |-> Leaf(IF PackedStream(b) THEN "packed_token_ids" ELSE "token_ids", n),
       learned_pos_ids |-> If("learned_pos" \in req, Leaf("learned_positions", n)),
       rope_pos_ids    |-> If("rope_pos" \in req, Leaf("rope_positions", n)),
       type_ids        |-> If("type_ids" \in req, Leaf("type_ids", n)),
       kq_mask         |-> Null,
       seq_lengths     |-> Null,
       seq_offsets     |-> Null]

(* invalidate_all, then the embedding phase drains into the entry slot. *)
BeginSubBatch ==
  /\ status \in {"ready", "failed", "slot_error"} /\ begun < SubBatches
  /\ begun'  = begun + 1
  /\ batch'  \in model.batches
  /\ store'  = [s \in Slot |->
                  If(s = Residual, build_embedding_phase(arch, EmbeddingIn(batch', begun')))]
  /\ layer'  = 1
  /\ group'  = 1
  /\ vector' = Null
  /\ status' = "running"
  /\ UNCHANGED <<model, preset, starts>>

(* The embedding phase fails before it drains. *)
EmbeddingFails ==
  /\ status \in {"ready", "failed", "slot_error"} /\ begun < SubBatches
  /\ begun'  = begun + 1
  /\ batch'  \in model.batches
  /\ store'  = [s \in Slot |-> Null]
  /\ vector' = Null
  /\ status' = "failed"
  /\ UNCHANGED <<model, preset, starts, layer, group>>

-----------------------------------------------------------------------------
Run     == RunFrom(units, starts, group)
Inputs  == GroupInputs(units, Run)
Outputs == GroupOutputs(units, Run, Residual)

\* Slip: the ranges of a group's last member are left out of its lease.
LeasedWithoutLast == UNION {UnitWeights(i, layer) : i \in Run \ {Max(Run)}}

(* The weights whose pages the lease of the group covers. *)
Leased == UNION {UnitWeights(i, layer) : i \in Run}

(* The graph inputs of a group: what any of its members needs. *)
GraphIn ==
  LET needs   == UNION {units[i].needs : i \in Run}
      lengths == PerSentence(batch) /\ "seq_lengths" \in needs
  IN  [token_ids       |-> Null,
       learned_pos_ids |-> If("learned_pos" \in needs, Leaf("learned_positions", begun)),
       rope_pos_ids    |-> If("rope_pos" \in needs,
                              Leaf(IF PackedStream(batch) THEN "packed_positions"
                                                          ELSE "rope_positions", begun)),
       type_ids        |-> If("type_ids" \in needs, Leaf("type_ids", begun)),
       kq_mask         |-> If(batch.padded /\ "kq_mask" \in needs /\ ~lengths,
                              Leaf("attention_mask", begun)),
       seq_lengths     |-> If(lengths, Leaf("lengths", begun)),
       seq_offsets     |-> If(PackedStream(batch), Leaf("offsets", begun))]

\* Slip: what the store has hides what the group itself built.
StoredFirst(tensors, i, l, in) ==
  LET u == units[i]
      y == Build(arch, u, l, [k \in DOMAIN u.ins |->
             IF store[u.ins[k]] # Null THEN store[u.ins[k]] ELSE tensors[u.ins[k]]], in)
  IN  [s \in Slot |-> IF s \in u.out THEN y[CHOOSE k \in DOMAIN u.outs : u.outs[k] = s]
                                     ELSE tensors[s]]

(* Unit i of layer l reads its slots in the graph so far and writes them. *)
AfterUnit(tensors, i, l, in) ==
  LET u == units[i]
      y == Build(arch, u, l, [k \in DOMAIN u.ins |-> tensors[u.ins[k]]], in)
  IN  [s \in Slot |-> IF s \in u.out THEN y[CHOOSE k \in DOMAIN u.outs : u.outs[k] = s]
                                     ELSE tensors[s]]

(* Units j + 1 to k of the model, built one after the other. *)
Built(tensors, j, k, in) ==
  LET after[i \in j .. k] ==
        IF i = j THEN tensors ELSE AfterUnit(after[i - 1], UnitAt(i), LayerAt(i), in)
  IN  after[k]

(* slot_tensors once the members are built over the uploaded inputs. *)
SlotTensors(uploaded) ==
  LET before == (layer - 1) * Len(units)
  IN  Built([s \in Slot |-> If(s \in Inputs, uploaded[s])],
            before + group - 1, before + Max(Run), GraphIn)

\* Slip: create_input without the check of the valid bit.
RunnableUnchecked ==
  \A i \in Run : \A s \in units[i].in :
    s \in Inputs \/ WritersBefore(units, Run, i, s) # {}

(* create_input needs a valid slot, and a unit a slot uploaded or built. *)
Runnable ==
  /\ \A s \in Inputs : store[s] # Null
  /\ \A i \in Run : \A s \in units[i].in :
       s \in Inputs \/ WritersBefore(units, Run, i, s) # {}

Drained(slots) ==
  LET tensors == SlotTensors(store)
  IN  [s \in Slot |-> IF s \in slots THEN tensors[s] ELSE store[s]]

RunGroup ==
  /\ status = "running" /\ layer <= Layers
  /\ Runnable
  /\ store' = Drained(Outputs)
  /\ IF \E s \in starts : s > group
     THEN /\ group' = Min({s \in starts : s > group})
          /\ UNCHANGED layer
     ELSE /\ group' = 1
          /\ layer' = layer + 1
  /\ UNCHANGED <<model, preset, starts, status, begun, batch, vector>>

RunGroupThrows ==
  /\ status = "running" /\ layer <= Layers
  /\ ~Runnable
  /\ status' = "slot_error"
  /\ UNCHANGED <<model, preset, starts, store, begun, batch, layer, group, vector>>

(* Allocation or compute fails, or the drain of some output does. *)
RunGroupFails ==
  /\ status = "running" /\ layer <= Layers
  /\ Runnable
  /\ \E drained \in SUBSET Outputs : store' = Drained(drained)
  /\ status' = "failed"
  /\ UNCHANGED <<model, preset, starts, begun, batch, layer, group, vector>>

(* The final phase pools what the last layer left in the residual slot. *)
Pooled(x) ==
  IF PackedStream(batch)
  THEN build_packed_pool(x, batch.pooling, Leaf("offsets", begun), Leaf("lengths", begun))
  ELSE build_pool(x, batch.pooling, PoolInputs(batch, begun))

RunFinalPhase ==
  /\ status = "running" /\ layer > Layers
  /\ store[Residual] # Null
  /\ LET x == Pooled(build_final_phase(arch, store[Residual]))
     IN  vector' = IF batch.normalize THEN build_l2_normalize(x) ELSE x
  /\ status' = "ready"
  /\ UNCHANGED <<model, preset, starts, store, begun, batch, layer, group>>

RunFinalPhaseFails ==
  /\ status = "running" /\ layer > Layers
  /\ status' = "failed"
  /\ UNCHANGED <<model, preset, starts, store, begun, batch, layer, group, vector>>

GroupNext ==
  \/ BeginSubBatch \/ EmbeddingFails
  \/ RunGroup \/ RunGroupThrows \/ RunGroupFails
  \/ RunFinalPhase \/ RunFinalPhaseFails

GroupSpec == GroupInit /\ [][GroupNext]_groupVars

-----------------------------------------------------------------------------
(* Every unit reads only the residual and what units before it produce. *)
WellFormed ==
  \A i \in Index(units) : \A s \in units[i].in :
    s = Residual \/ \E j \in 1 .. i - 1 : s \in units[j].out

(* The reference: the eager embedder for an architecture it knows, and for *)
(* any other plan its units one after the other over plain variables.      *)
UnitByUnit(x, in) ==
  Built([s \in Slot |-> If(s = Residual, x)], 0, Layers * Len(units), in)[Residual]

Reference ==
  IF arch \in {"bert", "gemma3"}
  THEN EagerOutput(arch, Layers, batch, begun)
  ELSE Normalized(batch, build_pool(UnitByUnit(Leaf("token_ids", begun), GraphIn),
                                    batch.pooling, PoolInputs(batch, begun)))

(* Whatever the partition, whatever ran or failed before, what streaming   *)
(* computes of a sub-batch is the graph the eager embedder computes, over  *)
(* the same weights and the inputs of that same sub-batch: the units of    *)
(* streaming_units drift from build_graph nowhere, each group is given the *)
(* graph inputs its members need, and embedding, groups and pooling agree  *)
(* on the layout.                                                          *)
StreamedVectorIsEager == vector # Null => vector = Reference

(* The slot checks of create_input and run_group are exact.  A plan whose  *)
(* units read only what was produced never trips them; in another, "a      *)
(* group read a slot nothing wrote this sentence" becomes an exception and *)
(* no sub-batch is finished.                                               *)
SlotChecksAreExact ==
  IF WellFormed THEN status # "slot_error" ELSE vector = Null

(* A preset keeps its promise.  "attn-ffn" mixes no stages; a budget run   *)
(* stays within N bytes unless one unit alone exceeds them, and ends only  *)
(* where the next unit would not have fitted.                              *)
RunBytes(run) ==
  LET sum[i \in 0 .. Len(units)] ==
        IF i = 0 THEN 0 ELSE sum[i - 1] + (IF i \in run THEN units[i].weight ELSE 0)
  IN  sum[Len(units)]

PartitionMeetsPreset ==
  \A b \in starts :
    LET run == RunFrom(units, starts, b)
    IN  /\ preset.name = "attn-ffn" => \A i, j \in run : units[i].stage = units[j].stage
        /\ preset.name = "budget" =>
             /\ RunBytes(run) <= preset.bytes \/ run = {b}
             /\ Max(run) < Len(units) =>
                  RunBytes(run \cup {Max(run) + 1}) > preset.bytes
        /\ \A i \in Index(units) : \E c \in starts : i \in RunFrom(units, starts, c)
=============================================================================
