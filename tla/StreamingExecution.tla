------------------------- MODULE StreamingExecution -------------------------
(***************************************************************************)
(* InternalStreamingModel::embed_batch of streaming_execution.cpp, run by  *)
(* several contexts at once over one ResidencyCoordinator.                 *)
(*                                                                         *)
(* A call is cut into sub-batches; each sub-batch runs the embedding       *)
(* phase (0), the layer groups in order (1 .. LastGroup) and the final     *)
(* phase (LastGroup + 1).  The embedding phase and every group take a      *)
(* graph context, lease their pages, compute, drain the activation into    *)
(* the context's slots and give the lease back; the final phase reads only *)
(* common pages.  An exception anywhere after planning fills the whole     *)
(* output with NaN.                                                        *)
(***************************************************************************)
EXTENDS Integers, FiniteSets

CONSTANTS
  Page, CommonPages,
  Context,      \* InternalStreamingContext objects, one thread each
  LastGroup,    \* layer groups of the model, all layers together
  GroupPages,   \* group -> the pages of its weights
  TokenRows,    \* the sets of pages the token rows of a sub-batch may cover
  MaxSubBatch,  \* bound: sub-batches of a call
  MaxCalls,     \* bound: calls of a context
  MaxLeases     \* bound of the coordinator, large enough never to be reached

Group     == 1 .. LastGroup
Phase     == 0 .. LastGroup + 1
Final     == LastGroup + 1
SubBatch  == 1 .. MaxSubBatch
RegionKey == 0 .. LastGroup     \* 0 is "token"

ASSUME PlanAssumption ==
  /\ LastGroup \in Nat \ {0} /\ MaxSubBatch \in Nat \ {0} /\ MaxCalls \in Nat
  /\ GroupPages \in [Group -> (SUBSET Page) \ {{}}]
  /\ TokenRows \subseteq (SUBSET Page) \ {{}}

ASSUME PagesAssumption ==
  Page \subseteq Int /\ CommonPages \subseteq Page /\ MaxLeases \in Nat

VARIABLES
  stage, nextId, active, count, pending, common, poisoned, handle, advised,
  orphans,
  pc,       \* where the context is in embed_batch
  sub,      \* current sub-batch
  subs,     \* sub-batches of the call, 0 if it has no text
  phase,    \* current phase of the sub-batch
  arena,    \* a ggml_context over the context's metadata arena is live
  out,      \* the caller's output rows, per sub-batch
  result,   \* of the last call: "none", "ok", "error"
  calls,    \* calls begun
  late      \* the call began after the coordinator was poisoned

residencyVars == <<stage, nextId, active, count, pending, common, poisoned,
                   handle, advised, orphans>>
localVars == <<pc, sub, subs, phase, arena, out, result, calls, late>>
vars == <<residencyVars, localVars>>

Residency == INSTANCE ResidencyCoordinator WITH Key <- RegionKey, Holder <- Context

Goto(c, l) == pc' = [pc EXCEPT ![c] = l]

PhasePages(p) == IF p = 0 THEN TokenRows ELSE {GroupPages[p]}

Init ==
  /\ Residency!Init
  /\ pc     = [c \in Context |-> "idle"]
  /\ sub    = [c \in Context |-> 1]
  /\ subs   = [c \in Context |-> 1]
  /\ phase  = [c \in Context |-> 0]
  /\ arena  = [c \in Context |-> FALSE]
  /\ out    = [c \in Context |-> [s \in SubBatch |-> "untouched"]]
  /\ result = [c \in Context |-> "none"]
  /\ calls  = [c \in Context |-> 0]
  /\ late   = [c \in Context |-> FALSE]

(* The constructor of the shared model. *)
BuildModel ==
  /\ Residency!RetainCommon \/ Residency!RetainCommonFails
  /\ UNCHANGED localVars

-----------------------------------------------------------------------------
\* Slip: only the rows of the sub-batch that failed become NaN.
ThrowFillingOneSubBatch(c) ==
  /\ Goto(c, "idle")
  /\ arena'  = [arena EXCEPT ![c] = FALSE]
  /\ out'    = [out EXCEPT ![c][sub[c]] = "nan"]
  /\ result' = [result EXCEPT ![c] = "error"]
  /\ UNCHANGED <<sub, subs, phase, calls, late>>

(* The outer catch: the graph context is freed on the way, the output of    *)
(* every text of the call becomes NaN.                                      *)
Throw(c) ==
  /\ Goto(c, "idle")
  /\ arena'  = [arena EXCEPT ![c] = FALSE]
  /\ out'    = [out EXCEPT ![c] =
                  [s \in SubBatch |-> IF s <= subs[c] THEN "nan" ELSE @[s]]]
  /\ result' = [result EXCEPT ![c] = "error"]
  /\ UNCHANGED <<sub, subs, phase, calls, late>>

(* A call without texts returns at once, whatever the coordinator's state.  *)
(* Planning runs before the try block: its failure leaves the output alone, *)
(* and so does the check of the output pointer.                             *)
BeginCall(c) ==
  /\ pc[c] = "idle" /\ stage = "serving" /\ calls[c] < MaxCalls
  /\ calls' = [calls EXCEPT ![c] = @ + 1]
  /\ out'   = [out EXCEPT ![c] = [s \in SubBatch |-> "untouched"]]
  /\ late'  = [late EXCEPT ![c] = poisoned]
  /\ sub'   = [sub EXCEPT ![c] = 1]
  /\ \/ \E n \in SubBatch :
          /\ subs'   = [subs EXCEPT ![c] = n]
          /\ result' = [result EXCEPT ![c] = "none"]
          /\ Goto(c, "materialize")
     \/ /\ subs'   = [subs EXCEPT ![c] = 0]
        /\ result' = [result EXCEPT ![c] = "ok"]
        /\ UNCHANGED pc
     \/ /\ result' = [result EXCEPT ![c] = "error"]
        /\ UNCHANGED <<pc, subs>>
  /\ UNCHANGED <<phase, arena, residencyVars>>

(* materialize_batch; what the slots carry is the subject of GroupSlots. *)
Materialize(c) ==
  /\ pc[c] = "materialize"
  /\ \/ /\ phase' = [phase EXCEPT ![c] = 0]
        /\ Goto(c, "context")
        /\ UNCHANGED <<sub, subs, arena, out, result, calls, late>>
     \/ Throw(c)
  /\ UNCHANGED residencyVars

(* new_graph_context: taken before the lease, so its failure leaks none. *)
NewGraphContext(c) ==
  /\ pc[c] = "context"
  /\ \/ /\ arena' = [arena EXCEPT ![c] = TRUE]
        /\ Goto(c, IF phase[c] = Final THEN "compute" ELSE "acquire")
        /\ UNCHANGED <<sub, subs, phase, out, result, calls, late>>
     \/ Throw(c)
  /\ UNCHANGED residencyVars

AcquireLease(c) ==
  /\ pc[c] = "acquire"
  /\ \E S \in PhasePages(phase[c]) : Residency!Acquire(c, phase[c], S)
  /\ Goto(c, "compute")
  /\ UNCHANGED <<sub, subs, phase, arena, out, result, calls, late>>

\* Slip: a context waits for a poisoned coordinator instead of failing.
AcquireWaits(c) ==
  /\ pc[c] = "acquire"
  /\ \/ \E S \in PhasePages(phase[c]) : Residency!AcquireFails(c, S)
     \/ ~poisoned /\ phase[c] = 0 /\ UNCHANGED residencyVars
  /\ Throw(c)

(* WILLNEED fails, the coordinator is poisoned, or token_row_ranges throws. *)
AcquireThrows(c) ==
  /\ pc[c] = "acquire"
  /\ \/ \E S \in PhasePages(phase[c]) : Residency!AcquireFails(c, S)
     \/ (poisoned \/ phase[c] = 0) /\ UNCHANGED residencyVars
  /\ Throw(c)

\* Slip: a failing computation leaves with its lease still held.
ComputeLeaking(c) ==
  /\ pc[c] = "compute" /\ phase[c] # Final
  /\ \/ /\ Goto(c, "complete")
        /\ UNCHANGED <<sub, subs, phase, arena, out, result, calls, late>>
     \/ Throw(c)
  /\ UNCHANGED residencyVars

(* Build, allocate, upload, compute and download; any of them may throw.    *)
ComputePhase(c) ==
  /\ pc[c] = "compute" /\ phase[c] # Final
  /\ Goto(c, "complete") \/ Goto(c, "unwind")
  /\ UNCHANGED <<sub, subs, phase, arena, out, result, calls, late, residencyVars>>

(* mark_compute_complete, after the computation or in the inner catch. *)
MarkComplete(c) ==
  /\ \/ pc[c] = "complete" /\ Goto(c, "release")
     \/ pc[c] = "unwind"   /\ Goto(c, "destroy")
  /\ Residency!MarkComplete(c)
  /\ UNCHANGED <<sub, subs, phase, arena, out, result, calls, late>>

(* lease.release(), then ggml_free. *)
ReleaseLease(c) ==
  /\ pc[c] = "release"
  /\ \E a \in active : Residency!ReleaseShared(c, a) \/ Residency!ReleaseLast(c, a)
  /\ arena' = [arena EXCEPT ![c] = FALSE]
  /\ phase' = [phase EXCEPT ![c] = @ + 1]
  /\ Goto(c, "context")
  /\ UNCHANGED <<sub, subs, out, result, calls, late>>

ReleaseThrows(c) ==
  /\ pc[c] = "release"
  /\ \E a \in active : Residency!ReleaseLastFails(c, a)
  /\ Throw(c)

(* Unwinding: the destructor of the lease swallows a failing release. *)
DestroyLease(c) ==
  /\ pc[c] = "destroy"
  /\ \E a \in active : \/ Residency!ReleaseShared(c, a)
                       \/ Residency!ReleaseLast(c, a)
                       \/ Residency!ReleaseLastFails(c, a)
  /\ Throw(c)

(* The final phase takes no lease; its rows are scattered to the output. *)
FinalPhase(c) ==
  /\ pc[c] = "compute" /\ phase[c] = Final
  /\ \/ /\ arena' = [arena EXCEPT ![c] = FALSE]
        /\ out'   = [out EXCEPT ![c][sub[c]] = "vector"]
        /\ IF sub[c] < subs[c]
           THEN /\ sub' = [sub EXCEPT ![c] = @ + 1]
                /\ Goto(c, "materialize")
                /\ UNCHANGED result
           ELSE /\ result' = [result EXCEPT ![c] = "ok"]
                /\ Goto(c, "idle")
                /\ UNCHANGED sub
        /\ UNCHANGED <<subs, phase, calls, late>>
     \/ Throw(c)
  /\ UNCHANGED residencyVars

Step(c) ==
  \/ Materialize(c) \/ NewGraphContext(c) \/ AcquireLease(c) \/ AcquireThrows(c)
  \/ ComputePhase(c) \/ MarkComplete(c) \/ ReleaseLease(c) \/ ReleaseThrows(c)
  \/ DestroyLease(c) \/ FinalPhase(c)

Next == BuildModel \/ \E c \in Context : BeginCall(c) \/ Step(c)

Spec == Init /\ [][Next]_vars

(* A thread inside embed_batch runs on: it blocks only on the coordinator's *)
(* mutex, which every operation leaves in one step.                         *)
FairSpec == Spec /\ \A c \in Context : WF_vars(Step(c))

-----------------------------------------------------------------------------
Leasing(c) == \/ pc[c] \in {"complete", "release", "unwind", "destroy"}
              \/ pc[c] = "compute" /\ phase[c] # Final

(* A phase computes only while this context leases its pages and they are   *)
(* resident, however the other contexts' releases interleave.               *)
ComputesOnLeasedPages ==
  \A c \in Context : pc[c] = "compute" /\ phase[c] # Final =>
    \E a \in active : /\ Residency!Owns(c, a)
                      /\ a.key = phase[c]
                      /\ a.pages \in PhasePages(phase[c])
                      /\ a.pages \subseteq advised

(* The lease never outlives its phase: every active lease belongs to a      *)
(* context between acquire and release, whose graph context is still live.  *)
(* (The tests assert zero active leases and premature releases at the end.) *)
LeasesBelongToRunningPhases ==
  /\ \A a \in active : \E c \in Context : Residency!Owns(c, a) /\ Leasing(c) /\ arena[c]
  /\ \A c \in Context : pc[c] = "idle" => ~arena[c]

(* "runner fills the caller output with NaNs before throwing": a call that  *)
(* succeeds has written every row, one that fails leaves no vector behind.  *)
OutputIsAllOrNothing ==
  \A c \in Context : pc[c] = "idle" =>
    /\ result[c] = "ok"    => \A s \in 1 .. subs[c] : out[c][s] = "vector"
    /\ result[c] = "error" => \A s \in SubBatch : out[c][s] # "vector"

(* "poisons the streaming residency coordinator so later calls also fail    *)
(* loudly until the model is recreated": all that have a text to embed.     *)
CallsAfterPoisonFail ==
  \A c \in Context : late[c] /\ result[c] = "ok" => subs[c] = 0

(* Every call returns or throws, also when the coordinator is poisoned.     *)
EveryCallEnds == \A c \in Context : pc[c] # "idle" ~> pc[c] = "idle"
=============================================================================
