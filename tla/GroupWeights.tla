---------------------------- MODULE GroupWeights ----------------------------
(***************************************************************************)
(* Which weights the graphs of GroupExecution read: those leased for a     *)
(* group, and those of the file.  Collecting the leaves of a term recurs   *)
(* over the term.                                                          *)
(***************************************************************************)
EXTENDS GroupExecution

(* The weights in a term. *)
RECURSIVE Leaves(_)
Leaves(t) == IF t.of = <<>> THEN {t} ELSE UNION {Leaves(t.of[k]) : k \in DOMAIN t.of}

(* The weights a group's graph reads are those its units declare, no other *)
(* and no fewer.  A mismatch computes the right result from pages nobody   *)
(* leased, or leases pages nobody reads: model_arch.h calls it silent.     *)
WeightsAreLeased ==
  status = "running" /\ layer <= Layers /\ arch \in {"bert", "gemma3"} =>
    LET tensors == SlotTensors([s \in Slot |-> Leaf(s, 0)])
    IN  UNION {Leaves(tensors[s]) : s \in Outputs} \cap Claimed = Leased

(* The three lists of an architecture's tensors agree: a file streams      *)
(* exactly if it has the tensors the scanner requires and no other, and    *)
(* the plan claims just those the eager graph reads.                       *)
ModelIsStreamable ==
  arch \in {"bert", "gemma3"} =>
    /\ (status # "rejected") <=>
         /\ model.file = Scanned(arch, Layers, model.file)
         /\ Pooler \cap model.file = {}
    /\ status # "rejected" => Leaves(EagerOutput(arch, Layers, batch, 0)) \cap model.file
                                = model.file
=============================================================================
