----------------------------- MODULE GroupSlots -----------------------------
(***************************************************************************)
(* How a layer's units are cut into groups and which slots a group         *)
(* exchanges with the rest of the layer: partition_runs and                *)
(* resolve_group_slots of streaming_execution.cpp.                         *)
(*                                                                         *)
(* A layer is a sequence of units [in, out, stage, weight], a preset a     *)
(* [name, bytes] (bytes is the N of budget:N), and a partition the set of  *)
(* the indices at which its runs start.                                    *)
(***************************************************************************)
EXTENDS Integers, Sequences

Index(units) == 1 .. Len(units)

\* Slip: the weight is not reset when a run is closed.
RunWeightWithoutReset(units, budget) ==
  LET w[i \in Index(units)] ==
        IF i > 1 THEN w[i - 1] + units[i].weight ELSE units[i].weight
  IN  w

(* The greedy budget: what the run holding unit i weighs once i is added. *)
RunWeight(units, budget) ==
  LET w[i \in Index(units)] ==
        IF i > 1 /\ w[i - 1] + units[i].weight <= budget
        THEN w[i - 1] + units[i].weight
        ELSE units[i].weight
  IN  w

LayerStarts(units) == {1}

UnitStarts(units) == Index(units)

AttnFfnStarts(units) ==
  {i \in Index(units) : i > 1 => units[i].stage # units[i - 1].stage}

BudgetStarts(units, budget) ==
  {i \in Index(units) :
     i > 1 => RunWeight(units, budget)[i - 1] + units[i].weight > budget}

Starts(units, preset) ==
  CASE preset.name = "layer"    -> LayerStarts(units)
    [] preset.name = "unit"     -> UnitStarts(units)
    [] preset.name = "attn-ffn" -> AttnFfnStarts(units)
    [] preset.name = "budget"   -> BudgetStarts(units, preset.bytes)

(* The run that begins at b: up to the next start or the end of the layer. *)
RunFrom(units, starts, b) ==
  {i \in Index(units) : i >= b /\ \A s \in starts : s > b => i < s}

WritersBefore(units, run, i, s) == {j \in run : j < i /\ s \in units[j].out}

(* Read in the run without having been written there first. *)
GroupInputs(units, run) ==
  UNION {{s \in units[i].in : WritersBefore(units, run, i, s) = {}} : i \in run}

(* Written in the run and read by a unit after it, or the layer's result. *)
GroupOutputs(units, run, result) ==
  {s \in UNION {units[i].out : i \in run} :
     \/ s = result
     \/ \E k \in Index(units) : (\A i \in run : k > i) /\ s \in units[k].in}

(* resolve_group_slots refuses a run nothing later needs. *)
Accepted(units, starts, result) ==
  \A b \in starts : GroupOutputs(units, RunFrom(units, starts, b), result) # {}
=============================================================================
