---------------------- MODULE StreamingExecutionProofs ----------------------
(***************************************************************************)
(* Proofs about StreamingExecution, for any contexts, layer groups, pages, *)
(* sub-batches and numbers of calls and leases.  What the coordinator      *)
(* keeps is cited from ResidencyCoordinatorProofs; here is what the calls  *)
(* add to it.  Then proofs about GroupExecution, the values a sub-batch    *)
(* carries from group to group, for any plan, preset, layers and batches.  *)
(***************************************************************************)
EXTENDS StreamingExecution, GroupExecution, CommonFacts, TLAPS

Coordinator == INSTANCE ResidencyCoordinatorProofs WITH Key <- RegionKey, Holder <- Context

\* Where a call has a graph context, and where it has a lease to give back.
Working   == {"acquire", "compute", "complete", "unwind", "release", "destroy"}
Returning == {"complete", "unwind", "release", "destroy"}

Types ==
  /\ pc     \in [Context -> Working \cup {"idle", "materialize", "context"}]
  /\ sub    \in [Context -> SubBatch]
  /\ subs   \in [Context -> SubBatch \cup {0}]
  /\ phase  \in [Context -> Phase]
  /\ arena  \in [Context -> BOOLEAN]
  /\ out    \in [Context -> [SubBatch -> {"untouched", "nan", "vector"}]]
  /\ result \in [Context -> {"none", "ok", "error"}]
  /\ late   \in [Context -> BOOLEAN]

(* A context owns a lease on its current phase exactly while it is leasing, *)
(* and has declared the computation over before it gives the lease back.    *)
LeaseOfPhase(c) ==
  /\ pc[c] \in Returning \cup {"acquire"} => phase[c] # Final
  /\ Leasing(c) => \E a \in active : /\ Residency!Owns(c, a)
                                     /\ a.key = phase[c]
                                     /\ a.pages \in PhasePages(phase[c])
  /\ ~Leasing(c) => handle[c] = Residency!NoHandle
  /\ pc[c] \in {"release", "destroy"} => handle[c].done
  /\ arena[c] <=> pc[c] \in Working

(* The sub-batches before the current one are written, the others are not, *)
(* and nothing is written beyond the call's.                               *)
RowsWritten(c) ==
  IF pc[c] = "idle"
  THEN /\ result[c] = "ok"    => \A s \in 1 .. subs[c] : out[c][s] = "vector"
       /\ result[c] = "error" => \A s \in SubBatch : out[c][s] # "vector"
  ELSE /\ result[c] = "none"
       /\ sub[c] <= subs[c]
       /\ \A s \in SubBatch : out[c][s] = IF s < sub[c] THEN "vector" ELSE "untouched"

(* A call that began after the poisoning never gets past its first lease,  *)
(* if it has a text at all.                                                *)
LateCallIsStuck(c) ==
  late[c] =>
    /\ result[c] = "ok" => subs[c] = 0
    /\ pc[c] # "idle" => /\ poisoned
                         /\ \/ pc[c] = "materialize"
                            \/ pc[c] \in {"context", "acquire"} /\ phase[c] = 0

(* No lease is ever abandoned: marking complete comes before every release. *)
LeasesHaveOwners == \A a \in active : \E c \in Context : Residency!Owns(c, a)

Local(c) == LeaseOfPhase(c) /\ RowsWritten(c) /\ LateCallIsStuck(c)

(* The inductive invariant. *)
IInv ==
  /\ Types
  /\ Coordinator!IInv
  /\ LeasesHaveOwners
  /\ \A c \in Context : Local(c)

-----------------------------------------------------------------------------
(* The two instances of the coordinator, the model's and the one its proofs *)
(* come with, are the same operations.                                      *)
LEMMA SameOperations ==
  /\ Residency!NoHandle = Coordinator!NoHandle
  /\ Residency!Init <=> Coordinator!Init
  /\ Residency!RetainCommon <=> Coordinator!RetainCommon
  /\ Residency!RetainCommonFails <=> Coordinator!RetainCommonFails
  /\ \A c, a : Residency!Owns(c, a) <=> Coordinator!Owns(c, a)
  /\ \A c, k, S : Residency!Acquire(c, k, S) <=> Coordinator!Acquire(c, k, S)
  /\ \A c, S : Residency!AcquireFails(c, S) <=> Coordinator!AcquireFails(c, S)
  /\ \A c : Residency!MarkComplete(c) <=> Coordinator!MarkComplete(c)
  /\ \A c, a : Residency!ReleaseShared(c, a) <=> Coordinator!ReleaseShared(c, a)
  /\ \A c, a : Residency!ReleaseLast(c, a) <=> Coordinator!ReleaseLast(c, a)
  /\ \A c, a : Residency!ReleaseLastFails(c, a) <=> Coordinator!ReleaseLastFails(c, a)
<1>1. Residency!NoHandle = Coordinator!NoHandle
  BY DEF Residency!NoHandle, Coordinator!NoHandle
<1>2. Residency!Init <=> Coordinator!Init
  BY <1>1 DEF Residency!Init, Coordinator!Init
<1>3. /\ \A S : Residency!RunStarts(S) = Coordinator!RunStarts(S)
      /\ \A S, q : Residency!AdvisedBefore(S, q) = Coordinator!AdvisedBefore(S, q)
  BY DEF Residency!RunStarts, Coordinator!RunStarts,
         Residency!AdvisedBefore, Coordinator!AdvisedBefore
<1>4. /\ Residency!RetainCommon <=> Coordinator!RetainCommon
      /\ Residency!RetainCommonFails <=> Coordinator!RetainCommonFails
  BY <1>3 DEF Residency!RetainCommon, Coordinator!RetainCommon,
              Residency!RetainCommonFails, Coordinator!RetainCommonFails
<1>5. \A c, a : Residency!Owns(c, a) <=> Coordinator!Owns(c, a)
  BY DEF Residency!Owns, Coordinator!Owns
<1>6. \A c, S : Residency!CanAcquire(c, S) <=> Coordinator!CanAcquire(c, S)
  BY <1>1 DEF Residency!CanAcquire, Coordinator!CanAcquire
<1>7. \A c, k, S : Residency!Acquire(c, k, S) <=> Coordinator!Acquire(c, k, S)
  BY <1>6 DEF Residency!Acquire, Coordinator!Acquire
<1>8. \A c, S : Residency!AcquireFails(c, S) <=> Coordinator!AcquireFails(c, S)
  BY <1>3, <1>6 DEF Residency!AcquireFails, Coordinator!AcquireFails
<1>9. \A c : Residency!MarkComplete(c) <=> Coordinator!MarkComplete(c)
  BY DEF Residency!MarkComplete, Coordinator!MarkComplete
<1>10. \A a : Residency!Releasable(a) = Coordinator!Releasable(a)
  BY DEF Residency!Releasable, Coordinator!Releasable, Residency!InUse, Coordinator!InUse
<1>11. \A c, a : Residency!Unlease(c, a) <=> Coordinator!Unlease(c, a)
  BY <1>1, <1>5 DEF Residency!Unlease, Coordinator!Unlease
<1>12. \A c, a : Residency!ReleaseShared(c, a) <=> Coordinator!ReleaseShared(c, a)
  BY <1>11 DEF Residency!ReleaseShared, Coordinator!ReleaseShared
<1>13. \A c, a : Residency!ReleaseLast(c, a) <=> Coordinator!ReleaseLast(c, a)
  BY <1>10, <1>11 DEF Residency!ReleaseLast, Coordinator!ReleaseLast
<1>14. \A c, a : Residency!ReleaseLastFails(c, a) <=> Coordinator!ReleaseLastFails(c, a)
  BY <1>3, <1>10, <1>11 DEF Residency!ReleaseLastFails, Coordinator!ReleaseLastFails
<1> QED
  BY <1>1, <1>2, <1>4, <1>5, <1>7, <1>8, <1>9, <1>12, <1>13, <1>14

(* What a phase leases is a set of pages. *)
LEMMA PhasePagesArePages ==
  ASSUME NEW p \in Phase, p # Final
  PROVE  /\ p \in RegionKey
         /\ PhasePages(p) \subseteq SUBSET Page
<1>1. p \in RegionKey
  BY PlanAssumption DEF Phase, Final, RegionKey
<1>2. CASE p = 0
  BY <1>1, <1>2, PlanAssumption DEF PhasePages
<1>3. CASE p # 0
  <2>1. p \in Group
    BY <1>1, <1>3, PlanAssumption DEF RegionKey, Group
  <2>2. GroupPages[p] \in SUBSET Page
    BY <2>1, PlanAssumption
  <2> QED
    BY <1>1, <1>3, <2>2 DEF PhasePages
<1> QED
  BY <1>2, <1>3

(* Before the final phase there is a next one. *)
LEMMA NextPhase ==
  ASSUME NEW p \in Phase, p # Final
  PROVE  p + 1 \in Phase
<1>1. LastGroup \in Nat
  BY PlanAssumption
<1> QED
  BY <1>1 DEF Phase, Final

(* A call takes its steps on the coordinator through the coordinator's     *)
(* operations only.                                                        *)
LEMMA StepIsCoordinators ==
  ASSUME Types, \A c \in Context : LeaseOfPhase(c), [Next]_vars
  PROVE  [Coordinator!Next]_(Coordinator!vars)
<1> USE DEF Coordinator!vars, residencyVars
<1>1. CASE UNCHANGED vars
  BY <1>1 DEF vars
<1>2. CASE BuildModel
  BY <1>2, SameOperations DEF BuildModel, Coordinator!Next
<1>3. ASSUME NEW c \in Context,
             \/ BeginCall(c) \/ Materialize(c) \/ NewGraphContext(c)
             \/ ComputePhase(c) \/ FinalPhase(c)
      PROVE  [Coordinator!Next]_(Coordinator!vars)
  BY <1>3 DEF BeginCall, Materialize, NewGraphContext, ComputePhase, FinalPhase
<1>4. ASSUME NEW c \in Context, AcquireLease(c) \/ AcquireThrows(c)
      PROVE  [Coordinator!Next]_(Coordinator!vars)
  <2>1. pc[c] = "acquire"
    BY <1>4 DEF AcquireLease, AcquireThrows
  <2>2. phase[c] \in Phase /\ phase[c] # Final
    BY <2>1 DEF Types, LeaseOfPhase
  <2>3. phase[c] \in RegionKey /\ PhasePages(phase[c]) \subseteq SUBSET Page
    BY <2>2, PhasePagesArePages
  <2>4. CASE AcquireLease(c)
    <3>1. PICK S \in PhasePages(phase[c]) : Coordinator!Acquire(c, phase[c], S)
      BY <2>4, SameOperations DEF AcquireLease
    <3> QED
      BY <2>3, <3>1 DEF Coordinator!Next
  <2>5. CASE AcquireThrows(c) /\ ~UNCHANGED residencyVars
    <3>1. PICK S \in PhasePages(phase[c]) : Coordinator!AcquireFails(c, S)
      BY <2>5, SameOperations DEF AcquireThrows
    <3> QED
      BY <2>3, <3>1 DEF Coordinator!Next
  <2> QED
    BY <1>4, <2>4, <2>5
<1>5. ASSUME NEW c \in Context, MarkComplete(c)
      PROVE  Coordinator!Next
  BY <1>5, SameOperations DEF MarkComplete, Coordinator!Next
<1>6. ASSUME NEW c \in Context, ReleaseLease(c) \/ ReleaseThrows(c) \/ DestroyLease(c)
      PROVE  Coordinator!Next
  <2>1. PICK a \in active : \/ Coordinator!ReleaseShared(c, a)
                            \/ Coordinator!ReleaseLast(c, a)
                            \/ Coordinator!ReleaseLastFails(c, a)
    BY <1>6, SameOperations DEF ReleaseLease, ReleaseThrows, DestroyLease
  <2> QED
    BY <2>1 DEF Coordinator!Release, Coordinator!Next
<1> QED
  BY <1>1, <1>2, <1>3, <1>4, <1>5, <1>6 DEF Next, Step

(* Before any call the invariant holds. *)
LEMMA InitIInv == Init => IInv
<1> SUFFICES ASSUME Init PROVE IInv
  OBVIOUS
<1>1. Types
  BY PlanAssumption DEF Init, Types, SubBatch, Phase
<1>2. Coordinator!IInv
  BY SameOperations, Coordinator!InitIInv, PagesAssumption DEF Init
<1>3. active = {} /\ \A c \in Context : handle[c] = Residency!NoHandle
  BY DEF Init, Residency!Init
<1>4. \A c \in Context : Local(c)
  BY <1>3 DEF Init, Local, LeaseOfPhase, RowsWritten, LateCallIsStuck, Leasing, Working, Returning
<1> QED
  BY <1>1, <1>2, <1>3, <1>4 DEF IInv, LeasesHaveOwners

(* Every step keeps the variables of the calls in their types. *)
LEMMA StepTypes ==
  ASSUME Types, \A c \in Context : LeaseOfPhase(c), poisoned \in BOOLEAN, [Next]_vars
  PROVE  Types'
<1> USE DEF Types, Goto, Working
<1>1. CASE UNCHANGED vars \/ BuildModel
  BY <1>1 DEF vars, localVars, BuildModel
<1>2. ASSUME NEW c \in Context, Throw(c) PROVE Types'
  <2>1. out' \in [Context -> [SubBatch -> {"untouched", "nan", "vector"}]]
    BY <1>2 DEF Throw
  <2> QED
    BY <1>2, <2>1 DEF Throw
<1>3. ASSUME NEW c \in Context, BeginCall(c) PROVE Types'
  <2>1. late' \in [Context -> BOOLEAN]
    BY <1>3, Zenon DEF BeginCall
  <2>2. 1 \in SubBatch
    BY PlanAssumption DEF SubBatch
  <2>3. out' \in [Context -> [SubBatch -> {"untouched", "nan", "vector"}]]
    BY <1>3 DEF BeginCall
  <2>4. sub' \in [Context -> SubBatch] /\ subs' \in [Context -> SubBatch \cup {0}]
    BY <1>3, <2>2 DEF BeginCall
  <2>5. UNCHANGED <<phase, arena>> /\ result' \in [Context -> {"none", "ok", "error"}]
    BY <1>3 DEF BeginCall
  <2>6. pc' = pc \/ pc' = [pc EXCEPT ![c] = "materialize"]
    BY <1>3 DEF BeginCall
  <2> QED
    BY <2>1, <2>3, <2>4, <2>5, <2>6
<1>4. ASSUME NEW c \in Context, Materialize(c) PROVE Types'
  <2>1. 0 \in Phase
    BY PlanAssumption DEF Phase
  <2>2. CASE Throw(c)
    BY <1>2, <2>2
  <2>3. CASE /\ phase' = [phase EXCEPT ![c] = 0]
             /\ Goto(c, "context")
             /\ UNCHANGED <<sub, subs, arena, out, result, calls, late>>
    BY <1>4, <2>1, <2>3 DEF Materialize, Goto
  <2> QED
    BY <1>4, <2>2, <2>3 DEF Materialize
<1>5. ASSUME NEW c \in Context, NewGraphContext(c) PROVE Types'
  BY <1>2, <1>5 DEF NewGraphContext
<1>6. ASSUME NEW c \in Context,
             AcquireLease(c) \/ ComputePhase(c) \/ MarkComplete(c)
      PROVE  Types'
  BY <1>6 DEF AcquireLease, ComputePhase, MarkComplete
<1>7. ASSUME NEW c \in Context, AcquireThrows(c) \/ ReleaseThrows(c) \/ DestroyLease(c)
      PROVE  Types'
  BY <1>2, <1>7 DEF AcquireThrows, ReleaseThrows, DestroyLease
<1>8. ASSUME NEW c \in Context, ReleaseLease(c) PROVE Types'
  <2>1. phase[c] + 1 \in Phase
    <3>1. phase[c] \in Phase /\ phase[c] # Final
      BY <1>8 DEF ReleaseLease, LeaseOfPhase, Returning
    <3> QED
      BY <3>1, NextPhase
  <2> QED
    BY <1>8, <2>1 DEF ReleaseLease
<1>9. ASSUME NEW c \in Context, FinalPhase(c) PROVE Types'
  <2>1. sub[c] < subs[c] => sub[c] + 1 \in SubBatch
    <3>1. sub[c] \in SubBatch /\ (subs[c] \in SubBatch \/ subs[c] = 0)
      OBVIOUS
    <3> QED
      BY <3>1, PlanAssumption DEF SubBatch
  <2>2. CASE ~Throw(c)
    <3>1. /\ arena' = [arena EXCEPT ![c] = FALSE]
          /\ out' = [out EXCEPT ![c][sub[c]] = "vector"]
          /\ UNCHANGED <<subs, phase, late>>
          /\ pc' = [pc EXCEPT ![c] = "materialize"] \/ pc' = [pc EXCEPT ![c] = "idle"]
          /\ result' = result \/ result' = [result EXCEPT ![c] = "ok"]
          /\ \/ sub' = sub
             \/ sub[c] < subs[c] /\ sub' = [sub EXCEPT ![c] = @ + 1]
      BY <1>9, <2>2 DEF FinalPhase
    <3>2. out' \in [Context -> [SubBatch -> {"untouched", "nan", "vector"}]]
      <4>1. [out[c] EXCEPT ![sub[c]] = "vector"] \in [SubBatch -> {"untouched", "nan", "vector"}]
        OBVIOUS
      <4> QED
        BY <3>1, <4>1
    <3>3. sub' \in [Context -> SubBatch]
      BY <2>1, <3>1
    <3> QED
      BY <3>1, <3>2, <3>3
  <2> QED
    BY <1>2, <2>2
<1> QED
  BY <1>1, <1>3, <1>4, <1>5, <1>6, <1>7, <1>8, <1>9 DEF Next, Step

-----------------------------------------------------------------------------
\* What a step of another context leaves to context d.
SameLocals(d) ==
  /\ pc'[d] = pc[d] /\ sub'[d] = sub[d] /\ subs'[d] = subs[d] /\ phase'[d] = phase[d]
  /\ arena'[d] = arena[d] /\ out'[d] = out[d] /\ result'[d] = result[d] /\ late'[d] = late[d]

(* A call writes its own variables only. *)
LEMMA OnlyOwnLocals ==
  ASSUME Types, NEW c \in Context, BeginCall(c) \/ Step(c), NEW d \in Context, d # c
  PROVE  SameLocals(d)
<1> USE DEF Types, Goto, SameLocals
<1>1. ASSUME Throw(c) PROVE SameLocals(d)
  BY <1>1 DEF Throw
<1>2. CASE BeginCall(c)
  BY <1>2 DEF BeginCall
<1>3. CASE Materialize(c) \/ NewGraphContext(c)
  BY <1>1, <1>3 DEF Materialize, NewGraphContext
<1>4. CASE AcquireLease(c) \/ ComputePhase(c) \/ MarkComplete(c) \/ ReleaseLease(c)
  BY <1>4 DEF AcquireLease, ComputePhase, MarkComplete, ReleaseLease
<1>5. CASE AcquireThrows(c) \/ ReleaseThrows(c) \/ DestroyLease(c)
  BY <1>1, <1>5 DEF AcquireThrows, ReleaseThrows, DestroyLease
<1>6. CASE FinalPhase(c)
  BY <1>1, <1>6 DEF FinalPhase
<1> QED
  BY <1>2, <1>3, <1>4, <1>5, <1>6 DEF Step

(* The coordinator's operations for c leave the leases of d in the table,  *)
(* and the poison, if any, in place.                                       *)
LEMMA OthersKeepLeases ==
  ASSUME Coordinator!IInv, NEW c \in Context,
         \/ UNCHANGED residencyVars
         \/ \E k \in RegionKey, S \in SUBSET Page : Residency!Acquire(c, k, S)
         \/ \E S \in SUBSET Page : Residency!AcquireFails(c, S)
         \/ Residency!MarkComplete(c)
         \/ \E a \in active : \/ Residency!ReleaseShared(c, a)
                              \/ Residency!ReleaseLast(c, a)
                              \/ Residency!ReleaseLastFails(c, a),
         NEW d \in Context, d # c
  PROVE  /\ handle'[d] = handle[d]
         /\ \A a \in active : Residency!Owns(d, a) => a \in active'
         /\ poisoned => poisoned'
<1> USE DEF Coordinator!IInv, Coordinator!TypeOK
<1>1. CASE UNCHANGED residencyVars
  BY <1>1 DEF residencyVars
<1>2. ASSUME NEW k \in RegionKey, NEW S \in SUBSET Page, Residency!Acquire(c, k, S)
      PROVE  handle'[d] = handle[d] /\ active \subseteq active' /\ poisoned' = poisoned
  BY <1>2 DEF Residency!Acquire
<1>3. CASE Residency!MarkComplete(c)
  BY <1>3 DEF Residency!MarkComplete
<1>4. ASSUME NEW a \in active,
             \/ Residency!ReleaseShared(c, a)
             \/ Residency!ReleaseLast(c, a)
             \/ Residency!ReleaseLastFails(c, a)
      PROVE  /\ handle'[d] = handle[d]
             /\ \A b \in active : Residency!Owns(d, b) => b \in active'
             /\ poisoned => poisoned'
  <2>1. Residency!Unlease(c, a) /\ (poisoned => poisoned')
    BY <1>4 DEF Residency!ReleaseShared, Residency!ReleaseLast, Residency!ReleaseLastFails
  <2>2. ~Residency!Owns(d, a)
    BY <2>1 DEF Residency!Unlease, Residency!Owns, Coordinator!Handles
  <2> QED
    BY <2>1, <2>2 DEF Residency!Unlease
<1>5. ASSUME NEW S \in SUBSET Page, Residency!AcquireFails(c, S)
      PROVE  handle' = handle /\ active' = active /\ poisoned' = poisoned
  BY <1>5 DEF Residency!AcquireFails
<1> QED
  BY <1>1, <1>2, <1>3, <1>4, <1>5

(* So d keeps its part of the invariant whatever step c takes. *)
LEMMA OthersKeepLocal ==
  ASSUME NEW d \in Context, Local(d), SameLocals(d),
         handle'[d] = handle[d],
         \A a \in active : Residency!Owns(d, a) => a \in active',
         poisoned => poisoned'
  PROVE  Local(d)'
<1> USE DEF SameLocals
<1>1. LeaseOfPhase(d)'
  BY DEF Local, LeaseOfPhase, Leasing, PhasePages, Residency!Owns
<1>2. RowsWritten(d)'
  BY DEF Local, RowsWritten
<1>3. LateCallIsStuck(d)'
  BY DEF Local, LateCallIsStuck
<1> QED
  BY <1>1, <1>2, <1>3 DEF Local

-----------------------------------------------------------------------------
(* A throw ends the call with nothing but NaN, no arena and no lease. *)
LEMMA ThrowKeepsLocal ==
  ASSUME Types, Types', NEW c \in Context, Local(c), Throw(c), pc[c] # "idle",
         handle'[c] = Residency!NoHandle
  PROVE  Local(c)'
<1>1. /\ pc'[c] = "idle" /\ arena'[c] = FALSE /\ result'[c] = "error" /\ late'[c] = late[c]
      /\ subs'[c] = subs[c]
      /\ out'[c] = [s \in SubBatch |-> IF s <= subs[c] THEN "nan" ELSE out[c][s]]
  BY DEF Throw, Goto, Types
<1>2. LeaseOfPhase(c)'
  BY <1>1 DEF LeaseOfPhase, Leasing, Returning, Working
<1>3. RowsWritten(c)'
  <2>1. ASSUME NEW s \in SubBatch PROVE out'[c][s] # "vector"
    <3>1. CASE s <= subs[c]
      BY <1>1, <3>1
    <3>2. CASE ~(s <= subs[c])
      <4>1. ~(s < sub[c])
        <5>1. sub[c] \in Nat /\ subs[c] \in Nat /\ s \in Nat /\ sub[c] <= subs[c]
          BY PlanAssumption DEF Local, RowsWritten, Types, SubBatch
        <5> QED
          BY <3>2, <5>1
      <4> QED
        BY <1>1, <3>2, <4>1 DEF Local, RowsWritten
    <3> QED
      BY <3>1, <3>2
  <2> QED
    BY <1>1, <2>1 DEF RowsWritten
<1>4. LateCallIsStuck(c)'
  BY <1>1 DEF LateCallIsStuck
<1> QED
  BY <1>2, <1>3, <1>4 DEF Local

(* The steps that take no lease and give none back. *)
LEMMA QuietKeepsLocal ==
  ASSUME Types, Types', NEW c \in Context, Local(c), UNCHANGED residencyVars,
         BeginCall(c) \/ Materialize(c) \/ NewGraphContext(c) \/ ComputePhase(c) \/ FinalPhase(c)
  PROVE  Local(c)'
<1>1. UNCHANGED <<handle, active, poisoned>>
  BY DEF residencyVars
<1>2. ASSUME Throw(c), pc[c] # "idle", ~Leasing(c) PROVE Local(c)'
  BY <1>1, <1>2, ThrowKeepsLocal DEF Local, LeaseOfPhase
<1> USE DEF Goto
<1>3. CASE BeginCall(c)
  <2>1. /\ pc[c] = "idle" /\ late'[c] = poisoned /\ sub'[c] = 1 /\ arena'[c] = arena[c]
        /\ out'[c] = [s \in SubBatch |-> "untouched"]
        /\ \/ pc'[c] = "materialize" /\ result'[c] = "none" /\ subs'[c] \in SubBatch
           \/ pc'[c] = "idle" /\ result'[c] = "ok" /\ subs'[c] = 0
           \/ pc'[c] = "idle" /\ result'[c] = "error"
    BY <1>3 DEF BeginCall, Types
  <2>2. LeaseOfPhase(c)'
    BY <1>1, <2>1 DEF Local, LeaseOfPhase, Leasing, Returning, Working
  <2>3. RowsWritten(c)'
    BY <2>1, PlanAssumption DEF RowsWritten, Types, SubBatch
  <2>4. LateCallIsStuck(c)'
    BY <1>1, <2>1 DEF LateCallIsStuck
  <2> QED
    BY <2>2, <2>3, <2>4 DEF Local
<1>4. CASE Materialize(c) /\ ~Throw(c)
  <2>1. /\ pc[c] = "materialize" /\ pc'[c] = "context" /\ phase'[c] = 0
        /\ UNCHANGED <<sub, subs, arena, out, result, late>>
    BY <1>4 DEF Materialize, Types
  <2>2. LeaseOfPhase(c)'
    BY <1>1, <2>1 DEF Local, LeaseOfPhase, Leasing, Returning, Working
  <2>3. RowsWritten(c)' /\ LateCallIsStuck(c)'
    BY <1>1, <2>1 DEF Local, RowsWritten, LateCallIsStuck
  <2> QED
    BY <2>2, <2>3 DEF Local
<1>5. CASE NewGraphContext(c) /\ ~Throw(c)
  <2>1. /\ pc[c] = "context" /\ arena'[c] = TRUE
        /\ pc'[c] = IF phase[c] = Final THEN "compute" ELSE "acquire"
        /\ UNCHANGED <<sub, subs, phase, out, result, late>>
    BY <1>5 DEF NewGraphContext, Types
  <2>2. LeaseOfPhase(c)'
    BY <1>1, <2>1 DEF Local, LeaseOfPhase, Leasing, Returning, Working
  <2>3. RowsWritten(c)'
    BY <2>1 DEF Local, RowsWritten
  <2>4. LateCallIsStuck(c)'
    <3>1. Final # 0
      BY PlanAssumption DEF Final
    <3> QED
      BY <1>1, <2>1, <3>1 DEF Local, LateCallIsStuck
  <2> QED
    BY <2>2, <2>3, <2>4 DEF Local
<1>6. CASE ComputePhase(c)
  <2>1. /\ pc[c] = "compute" /\ phase[c] # Final /\ pc'[c] \in {"complete", "unwind"}
        /\ UNCHANGED <<sub, subs, phase, arena, out, result, late>>
    BY <1>6 DEF ComputePhase, Types
  <2>2. LeaseOfPhase(c)'
    BY <1>1, <2>1 DEF Local, LeaseOfPhase, Leasing, Returning, Working, PhasePages, Residency!Owns
  <2>3. RowsWritten(c)' /\ LateCallIsStuck(c)'
    BY <1>1, <2>1 DEF Local, RowsWritten, LateCallIsStuck
  <2> QED
    BY <2>2, <2>3 DEF Local
<1>7. CASE FinalPhase(c) /\ ~Throw(c)
  <2>1. /\ pc[c] = "compute" /\ phase[c] = Final /\ arena'[c] = FALSE
        /\ out'[c] = [out[c] EXCEPT ![sub[c]] = "vector"]
        /\ subs'[c] = subs[c] /\ phase'[c] = phase[c] /\ late'[c] = late[c]
        /\ \/ /\ sub[c] < subs[c] /\ sub'[c] = sub[c] + 1
              /\ pc'[c] = "materialize" /\ result'[c] = result[c]
           \/ /\ ~(sub[c] < subs[c]) /\ sub'[c] = sub[c]
              /\ pc'[c] = "idle" /\ result'[c] = "ok"
    BY <1>7 DEF FinalPhase, Types
  <2>2. LeaseOfPhase(c)'
    BY <1>1, <2>1 DEF Local, LeaseOfPhase, Leasing, Returning, Working
  <2>3. RowsWritten(c)'
    <3>1. /\ result[c] = "none" /\ sub[c] <= subs[c]
          /\ \A s \in SubBatch : out[c][s] = IF s < sub[c] THEN "vector" ELSE "untouched"
      BY <2>1 DEF Local, RowsWritten
    <3>2. \A s \in SubBatch : out'[c][s] = IF s = sub[c] THEN "vector" ELSE out[c][s]
      BY <2>1 DEF Types
    <3>3. sub[c] \in Nat /\ subs[c] \in SubBatch /\ SubBatch = 1 .. MaxSubBatch
      BY <3>1, PlanAssumption DEF Types, SubBatch
    <3>4. CASE sub[c] < subs[c]
      <4>1. sub'[c] = sub[c] + 1 /\ pc'[c] = "materialize" /\ result'[c] = "none"
        BY <2>1, <3>1, <3>4
      <4>2. \A s \in SubBatch : out'[c][s] = IF s < sub[c] + 1 THEN "vector" ELSE "untouched"
        BY <3>1, <3>2, <3>3
      <4>3. sub[c] + 1 <= subs'[c]
        BY <2>1, <3>3, <3>4
      <4> QED
        BY <4>1, <4>2, <4>3 DEF RowsWritten
    <3>5. CASE ~(sub[c] < subs[c])
      <4>1. pc'[c] = "idle" /\ result'[c] = "ok" /\ sub[c] = subs[c]
        BY <2>1, <3>1, <3>3, <3>5
      <4>2. \A s \in 1 .. subs'[c] : out'[c][s] = "vector"
        BY <2>1, <3>1, <3>2, <3>3, <4>1, PlanAssumption
      <4> QED
        BY <4>1, <4>2 DEF RowsWritten
    <3> QED
      BY <3>4, <3>5
  <2>4. LateCallIsStuck(c)'
    BY <2>1 DEF Local, LateCallIsStuck
  <2> QED
    BY <2>2, <2>3, <2>4 DEF Local
<1>8. CASE (Materialize(c) \/ NewGraphContext(c) \/ FinalPhase(c)) /\ Throw(c)
  BY <1>2, <1>8 DEF Materialize, NewGraphContext, FinalPhase, Leasing
<1> QED
  BY <1>3, <1>4, <1>5, <1>6, <1>7, <1>8

(* The steps on the coordinator. *)
LEMMA LeasingKeepsLocal ==
  ASSUME Types, Types', Coordinator!IInv, NEW c \in Context, Local(c),
         \/ AcquireLease(c) \/ AcquireThrows(c) \/ MarkComplete(c)
         \/ ReleaseLease(c) \/ ReleaseThrows(c) \/ DestroyLease(c)
  PROVE  Local(c)'
<1> USE DEF Goto
<1>1. handle \in [Context -> Coordinator!Handle] /\ nextId # 0 /\ poisoned \in BOOLEAN
  BY DEF Coordinator!IInv, Coordinator!TypeOK
<1>2. CASE AcquireLease(c)
  <2>1. PICK S \in PhasePages(phase[c]) : Residency!Acquire(c, phase[c], S)
    BY <1>2 DEF AcquireLease
  <2>2. /\ pc[c] = "acquire" /\ pc'[c] = "compute"
        /\ UNCHANGED <<sub, subs, phase, arena, out, result, late>>
    BY <1>2 DEF AcquireLease, Types
  <2>3. /\ [id |-> nextId, key |-> phase[c], pages |-> S] \in active'
        /\ handle'[c].id = nextId /\ poisoned' = poisoned /\ ~poisoned
    BY <1>1, <2>1 DEF Residency!Acquire, Residency!CanAcquire
  <2>4. PICK x \in active' : x.id = nextId /\ x.key = phase[c] /\ x.pages = S
    BY <2>3
  <2>5. Residency!Owns(c, x)' /\ x.key = phase'[c] /\ x.pages \in PhasePages(phase[c])'
    BY <1>1, <2>2, <2>3, <2>4 DEF Residency!Owns, PhasePages
  <2>6. LeaseOfPhase(c)'
    <3>1. phase[c] # Final /\ arena[c]
      BY <2>2 DEF Local, LeaseOfPhase, Returning, Working
    <3> QED
      BY <2>2, <2>4, <2>5, <3>1 DEF LeaseOfPhase, Leasing, Returning, Working
  <2>7. RowsWritten(c)' /\ LateCallIsStuck(c)'
    BY <2>2, <2>3 DEF Local, RowsWritten, LateCallIsStuck
  <2> QED
    BY <2>6, <2>7 DEF Local
<1>3. CASE AcquireThrows(c)
  <2>1. handle' = handle /\ pc[c] = "acquire" /\ Throw(c)
    BY <1>3 DEF AcquireThrows, Residency!AcquireFails, residencyVars
  <2>2. handle[c] = Residency!NoHandle
    BY <2>1 DEF Local, LeaseOfPhase, Leasing
  <2> QED
    BY <2>1, <2>2, ThrowKeepsLocal
<1>4. CASE MarkComplete(c)
  <2>1. /\ \/ pc[c] = "complete" /\ pc'[c] = "release"
           \/ pc[c] = "unwind" /\ pc'[c] = "destroy"
        /\ UNCHANGED <<sub, subs, phase, arena, out, result, late>>
    BY <1>4 DEF MarkComplete, Types
  <2>2. /\ handle'[c].id = handle[c].id /\ handle'[c].done
        /\ active' = active /\ poisoned' = poisoned
    BY <1>1, <1>4 DEF MarkComplete, Residency!MarkComplete, Coordinator!Handle
  <2>3. LeaseOfPhase(c)'
    BY <2>1, <2>2 DEF Local, LeaseOfPhase, Leasing, Returning, Working, PhasePages, Residency!Owns
  <2>4. RowsWritten(c)' /\ LateCallIsStuck(c)'
    BY <2>1, <2>2 DEF Local, RowsWritten, LateCallIsStuck
  <2> QED
    BY <2>3, <2>4 DEF Local
<1>5. ASSUME NEW a \in active, Residency!Unlease(c, a)
      PROVE  handle'[c] = Residency!NoHandle
  BY <1>1, <1>5 DEF Residency!Unlease
<1>6. ASSUME ReleaseLease(c) \/ ReleaseThrows(c) \/ DestroyLease(c)
      PROVE  handle'[c] = Residency!NoHandle
  BY <1>5, <1>6 DEF ReleaseLease, ReleaseThrows, DestroyLease, Residency!ReleaseShared,
                    Residency!ReleaseLast, Residency!ReleaseLastFails
<1>7. CASE ReleaseLease(c)
  <2>1. /\ pc[c] = "release" /\ pc'[c] = "context" /\ arena'[c] = FALSE
        /\ UNCHANGED <<sub, subs, out, result, late>>
    BY <1>7 DEF ReleaseLease, Types
  <2>2. LeaseOfPhase(c)'
    BY <1>6, <1>7, <2>1 DEF LeaseOfPhase, Leasing, Returning, Working
  <2>3. RowsWritten(c)' /\ LateCallIsStuck(c)'
    BY <2>1 DEF Local, RowsWritten, LateCallIsStuck
  <2> QED
    BY <2>2, <2>3 DEF Local
<1>8. CASE ReleaseThrows(c) \/ DestroyLease(c)
  BY <1>6, <1>8, ThrowKeepsLocal DEF ReleaseThrows, DestroyLease
<1> QED
  BY <1>2, <1>3, <1>4, <1>7, <1>8

(* No operation a call makes leaves a lease without an owner. *)
LEMMA StepLeasesHaveOwners ==
  ASSUME Coordinator!IInv, LeasesHaveOwners, NEW c \in Context,
         \/ UNCHANGED residencyVars
         \/ \E k \in RegionKey, S \in SUBSET Page : Residency!Acquire(c, k, S)
         \/ \E S \in SUBSET Page : Residency!AcquireFails(c, S)
         \/ Residency!MarkComplete(c)
         \/ \E a \in active : \/ Residency!ReleaseShared(c, a)
                              \/ Residency!ReleaseLast(c, a)
                              \/ Residency!ReleaseLastFails(c, a)
  PROVE  LeasesHaveOwners'
<1> USE DEF LeasesHaveOwners
<1>1. /\ handle \in [Context -> Coordinator!Handle] /\ nextId # 0
      /\ \A d, e \in Context : d # e /\ handle[d].id # 0 => handle[d].id # handle[e].id
      /\ \A a, b \in active : a.id = b.id => a = b
  BY DEF Coordinator!IInv, Coordinator!TypeOK, Coordinator!Handles, Coordinator!LeaseIds
<1>2. ASSUME active' = active, \A d \in Context : handle'[d].id = handle[d].id
      PROVE  LeasesHaveOwners'
  BY <1>2 DEF Residency!Owns
<1>3. CASE UNCHANGED residencyVars \/ \E S \in SUBSET Page : Residency!AcquireFails(c, S)
  BY <1>2, <1>3 DEF residencyVars, Residency!AcquireFails
<1>4. CASE Residency!MarkComplete(c)
  BY <1>1, <1>2, <1>4 DEF Residency!MarkComplete, Coordinator!Handle
<1>5. ASSUME NEW k \in RegionKey, NEW S \in SUBSET Page, Residency!Acquire(c, k, S)
      PROVE  LeasesHaveOwners'
  <2>1. /\ handle[c].id = 0 /\ handle'[c].id = nextId
        /\ \A d \in Context : d # c => handle'[d] = handle[d]
        /\ \A a \in active' : a \in active \/ a.id = nextId
    BY <1>1, <1>5 DEF Residency!Acquire, Residency!CanAcquire, Residency!NoHandle
  <2> QED
    BY <1>1, <2>1 DEF Residency!Owns
<1>6. ASSUME NEW a \in active, Residency!Unlease(c, a)
      PROVE  LeasesHaveOwners'
  <2>1. /\ handle[c].id = a.id /\ active' = active \ {a}
        /\ \A d \in Context : d # c => handle'[d] = handle[d]
    BY <1>1, <1>6 DEF Residency!Unlease, Residency!Owns
  <2>2. \A b \in active' : ~Residency!Owns(c, b)
    BY <1>1, <2>1 DEF Residency!Owns
  <2> QED
    BY <2>1, <2>2 DEF Residency!Owns
<1> QED
  BY <1>3, <1>4, <1>5, <1>6 DEF Residency!ReleaseShared, Residency!ReleaseLast,
                                Residency!ReleaseLastFails

(* Every step of the shared model, by its constructor or by a call, keeps   *)
(* the invariant.                                                           *)
LEMMA StepIInv == IInv /\ [Next]_vars => IInv'
<1> SUFFICES ASSUME IInv, [Next]_vars PROVE IInv'
  OBVIOUS
<1>1. /\ Types /\ Coordinator!IInv /\ LeasesHaveOwners /\ poisoned \in BOOLEAN
      /\ \A c \in Context : Local(c) /\ LeaseOfPhase(c)
  BY DEF IInv, Local, Coordinator!IInv, Coordinator!TypeOK
<1>2. Types'
  BY <1>1, StepTypes
<1>3. Coordinator!IInv'
  BY <1>1, StepIsCoordinators, Coordinator!StepIInv, PagesAssumption
<1>4. CASE BuildModel \/ UNCHANGED vars
  <2>1. /\ UNCHANGED <<handle, active, localVars>>
        /\ poisoned => poisoned'
    BY <1>4 DEF BuildModel, vars, residencyVars, Residency!RetainCommon, Residency!RetainCommonFails
  <2>2. LeasesHaveOwners'
    BY <1>1, <2>1 DEF LeasesHaveOwners, Residency!Owns
  <2>3. ASSUME NEW d \in Context PROVE Local(d)'
    BY <1>1, <2>1, OthersKeepLocal DEF SameLocals, localVars
  <2> QED
    BY <1>2, <1>3, <2>2, <2>3 DEF IInv
<1>5. ASSUME NEW c \in Context, BeginCall(c) \/ Step(c)
      PROVE  IInv'
  <2>1. \/ UNCHANGED residencyVars
        \/ \E k \in RegionKey, S \in SUBSET Page : Residency!Acquire(c, k, S)
        \/ \E S \in SUBSET Page : Residency!AcquireFails(c, S)
        \/ Residency!MarkComplete(c)
        \/ \E a \in active : \/ Residency!ReleaseShared(c, a)
                             \/ Residency!ReleaseLast(c, a)
                             \/ Residency!ReleaseLastFails(c, a)
    <3>1. pc[c] = "acquire" =>
            phase[c] \in RegionKey /\ PhasePages(phase[c]) \subseteq SUBSET Page
      BY <1>1, PhasePagesArePages DEF LeaseOfPhase, Types
    <3>2. CASE AcquireLease(c)
      BY <3>1, <3>2 DEF AcquireLease
    <3>3. CASE AcquireThrows(c)
      BY <3>1, <3>3 DEF AcquireThrows
    <3>4. CASE ~AcquireLease(c) /\ ~AcquireThrows(c)
      BY <1>5, <3>4 DEF BeginCall, Step, Materialize, NewGraphContext, ComputePhase, MarkComplete,
                        ReleaseLease, ReleaseThrows, DestroyLease, FinalPhase
    <3> QED
      BY <3>2, <3>3, <3>4
  <2>2. LeasesHaveOwners'
    BY <1>1, <2>1, StepLeasesHaveOwners
  <2>3. ASSUME NEW d \in Context, d # c PROVE Local(d)'
    <3>1. SameLocals(d)
      BY <1>1, <1>5, <2>3, OnlyOwnLocals
    <3>2. /\ handle'[d] = handle[d]
          /\ \A a \in active : Residency!Owns(d, a) => a \in active'
          /\ poisoned => poisoned'
      BY <1>1, <2>1, <2>3, OthersKeepLeases
    <3> QED
      BY <1>1, <3>1, <3>2, OthersKeepLocal
  <2>4. Local(c)'
    <3>1. CASE BeginCall(c) \/ Materialize(c) \/ NewGraphContext(c) \/ ComputePhase(c)
               \/ FinalPhase(c)
      <4>1. UNCHANGED residencyVars
        BY <3>1 DEF BeginCall, Materialize, NewGraphContext, ComputePhase, FinalPhase
      <4> QED
        BY <1>1, <1>2, <3>1, <4>1, QuietKeepsLocal
    <3>2. CASE AcquireLease(c) \/ AcquireThrows(c) \/ MarkComplete(c)
               \/ ReleaseLease(c) \/ ReleaseThrows(c) \/ DestroyLease(c)
      BY <1>1, <1>2, <3>2, LeasingKeepsLocal
    <3> QED
      BY <1>5, <3>1, <3>2 DEF Step
  <2> QED
    BY <1>2, <1>3, <2>2, <2>3, <2>4 DEF IInv
<1> QED
  BY <1>4, <1>5 DEF Next

(* Hence it holds in every state of the shared model. *)
LEMMA Inductive == Spec => []IInv
BY InitIInv, StepIInv, PTL DEF Spec

-----------------------------------------------------------------------------
(* However releases of other contexts interleave, a phase computes while   *)
(* its own lease covers its pages and they are resident.                   *)
THEOREM PhasesComputeOnLeasedPages == Spec => []ComputesOnLeasedPages
<1>1. IInv => ComputesOnLeasedPages
  <2> SUFFICES ASSUME IInv, NEW c \in Context, pc[c] = "compute", phase[c] # Final
               PROVE  \E a \in active : /\ Residency!Owns(c, a)
                                        /\ a.key = phase[c]
                                        /\ a.pages \in PhasePages(phase[c])
                                        /\ a.pages \subseteq advised
    BY DEF ComputesOnLeasedPages
  <2>1. Leasing(c) /\ LeaseOfPhase(c)
    BY DEF IInv, Local, Leasing
  <2>2. \A a \in active : a.pages \subseteq advised
    BY DEF IInv, Coordinator!IInv, Coordinator!LeasedPagesResident
  <2> QED
    BY <2>1, <2>2 DEF LeaseOfPhase
<1> QED
  BY <1>1, Inductive, PTL

(* Whatever throws, no lease and no graph context outlives its phase. *)
THEOREM NoLeaseOutlivesItsPhase == Spec => []LeasesBelongToRunningPhases
<1>1. IInv => LeasesBelongToRunningPhases
  <2> SUFFICES ASSUME IInv PROVE LeasesBelongToRunningPhases
    OBVIOUS
  <2>1. ASSUME NEW a \in active
        PROVE  \E c \in Context : Residency!Owns(c, a) /\ Leasing(c) /\ arena[c]
    <3>1. PICK c \in Context : Residency!Owns(c, a)
      BY DEF IInv, LeasesHaveOwners
    <3>2. Leasing(c)
      BY <3>1 DEF IInv, Local, LeaseOfPhase, Residency!Owns, Residency!NoHandle
    <3>3. arena[c]
      BY <3>2 DEF IInv, Local, LeaseOfPhase, Leasing, Working
    <3> QED
      BY <3>1, <3>2, <3>3
  <2>2. \A c \in Context : pc[c] = "idle" => ~arena[c]
    BY DEF IInv, Local, LeaseOfPhase, Working
  <2> QED
    BY <2>1, <2>2 DEF LeasesBelongToRunningPhases
<1> QED
  BY <1>1, Inductive, PTL

(* A call that succeeds wrote every row; one that fails left no vector. *)
THEOREM CallsAreAllOrNothing == Spec => []OutputIsAllOrNothing
<1>1. IInv => OutputIsAllOrNothing
  BY DEF IInv, Local, RowsWritten, OutputIsAllOrNothing
<1> QED
  BY <1>1, Inductive, PTL

(* A call that begins on a poisoned coordinator does not succeed, unless   *)
(* it has no text.                                                         *)
THEOREM PoisonedModelServesNobody == Spec => []CallsAfterPoisonFail
<1>1. IInv => CallsAfterPoisonFail
  BY DEF IInv, Local, LateCallIsStuck, CallsAfterPoisonFail
<1> QED
  BY <1>1, Inductive, PTL

(* The calls use the coordinator by its operations alone: their executions *)
(* are executions of ResidencyCoordinator, whose theorems therefore apply. *)
THEOREM ImplementsCoordinator == Spec => Coordinator!Spec
<1>1. Init => Coordinator!Init
  BY SameOperations DEF Init
<1>2. IInv /\ [Next]_vars => [Coordinator!Next]_(Coordinator!vars)
  BY StepIsCoordinators DEF IInv, Local
<1> QED
  BY <1>1, <1>2, Inductive, PTL DEF Spec, Coordinator!Spec

-----------------------------------------------------------------------------
(***************************************************************************)
(* GroupExecution.  A group builds over the slots it reads what the units  *)
(* of a layer build one after the other (GroupBuilds), with the graph      *)
(* inputs of the eager embedder (InputsAlike); so between groups the slots *)
(* still to be read hold those values (SlotsAreHeld), and the units of all *)
(* layers are the eager graph (UnitsAreGraph).                             *)
(***************************************************************************)
(* What ModelAssumption says of a plan. *)
LEMMA PlanFacts ==
  ASSUME NEW us, IsPlan(us)
  PROVE  /\ Len(us) \in Nat \ {0} /\ Index(us) = 1 .. Len(us) /\ DOMAIN us = 1 .. Len(us)
         /\ \A i \in Index(us) :
              /\ us[i].ins \in Seq(Slot)  /\ us[i].in  = Range(us[i].ins)
              /\ us[i].outs \in Seq(Slot) /\ us[i].out = Range(us[i].outs)
              /\ us[i].out # {} /\ us[i].weight \in Nat
  <1>1. us \in Seq(Range(us)) /\ us # <<>>  BY DEF IsPlan
  <1>2. Len(us) \in Nat \ {0} /\ DOMAIN us = 1 .. Len(us)  BY <1>1
  <1>3. QED  BY <1>2 DEF IsPlan, Index

(* The slots of a unit. *)
LEMMA UnitSlots ==
  ASSUME NEW us, IsPlan(us), NEW i \in Index(us)
  PROVE  us[i].in \subseteq Slot /\ us[i].out \subseteq Slot
  <1>1. /\ us[i].ins \in Seq(Slot)  /\ us[i].in  = Range(us[i].ins)
        /\ us[i].outs \in Seq(Slot) /\ us[i].out = Range(us[i].outs)
    BY PlanFacts
  <1>2. QED  BY <1>1 DEF Range

(* The run that begins at b ends before the next start, or with the layer. *)
IsRun(us, ss, b, e) ==
  /\ e \in Index(us) /\ b <= e
  /\ RunFrom(us, ss, b) = b .. e
  /\ Max(RunFrom(us, ss, b)) = e
  /\ \A s \in ss : s > b => s > e
  /\ IF \E s \in ss : s > b
     THEN e + 1 \in ss /\ Min({s \in ss : s > b}) = e + 1
     ELSE e = Len(us)

LEMMA RunIsInterval ==
  ASSUME NEW us, IsPlan(us), NEW ss \in SUBSET Index(us), NEW b \in ss
  PROVE  \E e \in Index(us) : IsRun(us, ss, b, e)
  <1> DEFINE n == Len(us)
             later == {s \in ss : s > b}
  <1>1. n \in Nat \ {0} /\ Index(us) = 1 .. n  BY PlanFacts
  <1>2. ASSUME NEW e \in 1 .. n, b <= e, RunFrom(us, ss, b) = b .. e
        PROVE  Max(RunFrom(us, ss, b)) = e
    <2>1. b \in 1 .. n  BY <1>1
    <2>2. Max(b .. e) \in b .. e /\ \A y \in b .. e : Max(b .. e) >= y
      <3>1. b .. e \in SUBSET (1 .. n) /\ e \in b .. e  BY <1>1, <1>2, <2>1
      <3>2. QED  BY <1>1, <3>1, MaxOfIndexes
    <2>3. QED  BY <1>1, <1>2, <2>1, <2>2
  <1>3. CASE \E s \in ss : s > b
    <2>1. later \in SUBSET Nat /\ later # {}  BY <1>1, <1>3
    <2>2. PICK m \in later : \A y \in later : m <= y  BY <2>1, LeastElement
    <2>3. Min(later) = m
      <3>1. Min(later) \in later /\ \A y \in later : Min(later) <= y  BY <2>2 DEF Min
      <3>2. m <= Min(later) /\ Min(later) <= m  BY <2>2, <3>1
      <3>3. m \in Nat /\ Min(later) \in Nat  BY <2>1, <2>2, <3>1
      <3>4. QED  BY <3>2, <3>3
    <2>4. m \in 1 .. n /\ m > b /\ m \in ss /\ b \in 1 .. n  BY <1>1, <2>2
    <2> DEFINE e == m - 1
    <2>5. e \in 1 .. n /\ b <= e /\ e + 1 = m  BY <1>1, <2>4
    <2>6. \A s \in ss : s > b => s >= m /\ s > e  BY <1>1, <2>2, <2>4
    <2>7. RunFrom(us, ss, b) = b .. e
      <3>1. RunFrom(us, ss, b) \subseteq b .. e
        <4>1. \A i \in 1 .. n : i >= b /\ i < m => i \in b .. e  BY <1>1, <2>4
        <4>2. QED  BY <1>1, <2>4, <4>1 DEF RunFrom
      <3>2. b .. e \subseteq RunFrom(us, ss, b)
        <4>1. \A i \in b .. e : i \in 1 .. n /\ i >= b /\ i < m  BY <1>1, <2>4
        <4>2. \A i \in b .. e : \A s \in ss : s > b => i < s  BY <1>1, <2>4, <2>6, <4>1
        <4>3. QED  BY <1>1, <4>1, <4>2 DEF RunFrom
      <3>3. QED  BY <3>1, <3>2
    <2>8. Max(RunFrom(us, ss, b)) = e  BY <1>2, <2>5, <2>7
    <2> HIDE DEF e
    <2>9. IsRun(us, ss, b, e)  BY <1>1, <1>3, <2>3, <2>4, <2>5, <2>6, <2>7, <2>8 DEF IsRun
    <2>10. QED  BY <1>1, <2>5, <2>9
  <1>4. CASE ~(\E s \in ss : s > b)
    <2>1. b \in 1 .. n /\ n \in 1 .. n /\ b <= n  BY <1>1
    <2>2. RunFrom(us, ss, b) = b .. n
      <3>1. RunFrom(us, ss, b) = {i \in Index(us) : i >= b}  BY <1>4 DEF RunFrom
      <3>2. {i \in 1 .. n : i >= b} = b .. n  BY <1>1, <2>1
      <3>3. QED  BY <1>1, <3>1, <3>2
    <2>3. Max(RunFrom(us, ss, b)) = n  BY <1>2, <2>1, <2>2
    <2>4. IsRun(us, ss, b, n)  BY <1>1, <1>4, <2>1, <2>2, <2>3 DEF IsRun
    <2>5. QED  BY <1>1, <2>1, <2>4
  <1>5. QED  BY <1>3, <1>4

(* Every preset starts a run with the first unit. *)
LEMMA StartsAreIndexes ==
  ASSUME NEW us, IsPlan(us), NEW p \in Presets
  PROVE  Starts(us, p) \subseteq Index(us) /\ 1 \in Starts(us, p)
  <1>1. 1 \in Index(us)
    <2>1. Len(us) \in Nat \ {0} /\ Index(us) = 1 .. Len(us)  BY PlanFacts
    <2>2. QED  BY <2>1
  <1>2. p.name \in {"layer", "unit", "attn-ffn", "budget"}  BY PresetAssumption
  <1>3. CASE p.name = "layer"     BY <1>1, <1>3 DEF Starts, LayerStarts
  <1>4. CASE p.name = "unit"      BY <1>1, <1>4 DEF Starts, UnitStarts
  <1>5. CASE p.name = "attn-ffn"  BY <1>1, <1>5 DEF Starts, AttnFfnStarts
  <1>6. CASE p.name = "budget"    BY <1>1, <1>6 DEF Starts, BudgetStarts
  <1>7. QED  BY <1>2, <1>3, <1>4, <1>5, <1>6

-----------------------------------------------------------------------------
(* A recursion over the numbers up to n is satisfied by some function. *)
Iterates(f, n, base, h) ==
  f = [i \in 0 .. n |-> IF i = 0 THEN base ELSE h[<<i, f[i - 1]>>]]

LEMMA Iteration ==
  ASSUME NEW n \in Nat, NEW V, NEW base \in V, NEW h \in [(1 .. n) \X V -> V]
  PROVE  \E f \in [0 .. n -> V] : Iterates(f, n, base, h)
  <1> DEFINE Upto(k, f) == \A i \in 0 .. k : f[i] = IF i = 0 THEN base ELSE h[<<i, f[i - 1]>>]
             A == {k \in 0 .. n : \E f \in [0 .. k -> V] : Upto(k, f)}
  <1>1. 0 \in A
    <2>1. [i \in 0 .. 0 |-> base] \in [0 .. 0 -> V] /\ Upto(0, [i \in 0 .. 0 |-> base])  OBVIOUS
    <2> HIDE DEF Upto
    <2>2. 0 \in 0 .. n  OBVIOUS
    <2>3. QED  BY <2>1, <2>2
  <1>2. ASSUME NEW k \in 0 .. n - 1, k \in A
        PROVE  k + 1 \in A
    <2>1. PICK f \in [0 .. k -> V] : Upto(k, f)  BY <1>2
    <2>2. /\ k + 1 \in 0 .. n /\ k + 1 \in 1 .. n
          /\ \A i \in 0 .. k + 1 : i = k + 1 \/ i \in 0 .. k
          /\ \A i \in 0 .. k : i # k + 1 /\ i \in 0 .. k + 1 /\ (i # 0 => i - 1 \in 0 .. k)
          /\ k + 1 # 0 /\ k \in 0 .. k /\ (k + 1) - 1 = k
      OBVIOUS
    <2> DEFINE g == [i \in 0 .. k + 1 |-> IF i = k + 1 THEN h[<<k + 1, f[k]>>] ELSE f[i]]
    <2>3. h[<<k + 1, f[k]>>] \in V  BY <2>1, <2>2
    <2>4. g \in [0 .. k + 1 -> V]  BY <2>1, <2>2, <2>3
    <2>5. \A i \in 0 .. k : g[i] = f[i]  BY <2>2
    <2>6. g[k + 1] = h[<<k + 1, f[k]>>] /\ g[k] = f[k]  BY <2>2, <2>5
    <2> HIDE DEF g
    <2>7. Upto(k + 1, g)
      <3> SUFFICES ASSUME NEW i \in 0 .. k + 1
                   PROVE  g[i] = IF i = 0 THEN base ELSE h[<<i, g[i - 1]>>]
        OBVIOUS
      <3>1. CASE i = k + 1  BY <2>2, <2>6, <3>1
      <3>2. CASE i \in 0 .. k
        <4>1. f[i] = IF i = 0 THEN base ELSE h[<<i, f[i - 1]>>]  BY <2>1, <3>2
        <4>2. i # 0 => g[i - 1] = f[i - 1]  BY <2>2, <2>5, <3>2
        <4>3. QED  BY <2>5, <3>2, <4>1, <4>2
      <3>3. QED  BY <2>2, <3>1, <3>2
    <2> HIDE DEF Upto
    <2>8. QED  BY <2>2, <2>4, <2>7
  <1> HIDE DEF A
  <1>3. 0 .. n \subseteq A  BY <1>1, <1>2, Induction
  <1>4. n \in A  BY <1>3
  <1>5. PICK f \in [0 .. n -> V] : Upto(n, f)  BY <1>4 DEF A
  <1>6. f = [i \in 0 .. n |-> f[i]]  BY <1>5
  <1>7. Iterates(f, n, base, h)  BY <1>5, <1>6 DEF Iterates
  <1>8. QED  BY <1>5, <1>7

(* What the loop of the greedy budget carries. *)
IsRunWeight(us, budget, w) ==
  \A i \in Index(us) :
    w[i] = IF i > 1 /\ w[i - 1] + us[i].weight <= budget
           THEN w[i - 1] + us[i].weight ELSE us[i].weight

LEMMA RunWeightIs ==
  ASSUME NEW us, IsPlan(us), NEW budget \in Nat
  PROVE  /\ RunWeight(us, budget) \in [Index(us) -> Nat]
         /\ IsRunWeight(us, budget, RunWeight(us, budget))
  <1> DEFINE n == Len(us)
             h == [x \in (1 .. n) \X Nat |->
                     IF x[1] > 1 /\ x[2] + us[x[1]].weight <= budget
                     THEN x[2] + us[x[1]].weight ELSE us[x[1]].weight]
             Body(w) == [i \in Index(us) |->
                           IF i > 1 /\ w[i - 1] + us[i].weight <= budget
                           THEN w[i - 1] + us[i].weight ELSE us[i].weight]
  <1>1. /\ n \in Nat /\ Index(us) = 1 .. n
        /\ \A i \in 1 .. n : us[i].weight \in Nat
    BY PlanFacts
  <1>2. h \in [(1 .. n) \X Nat -> Nat]
    <2>1. ASSUME NEW x \in (1 .. n) \X Nat
          PROVE  (IF x[1] > 1 /\ x[2] + us[x[1]].weight <= budget
                  THEN x[2] + us[x[1]].weight ELSE us[x[1]].weight) \in Nat
      <3>1. x[1] \in 1 .. n /\ x[2] \in Nat  OBVIOUS
      <3>2. us[x[1]].weight \in Nat  BY <1>1, <3>1
      <3>3. QED  BY <3>1, <3>2
    <2>2. QED  BY <2>1
  <1>3. \E f \in [0 .. n -> Nat] : Iterates(f, n, 0, h)
    <2> HIDE DEF h
    <2>1. 0 \in Nat  OBVIOUS
    <2>2. QED  BY <1>1, <1>2, <2>1, Iteration
  <1>4. PICK f \in [0 .. n -> Nat] : Iterates(f, n, 0, h)  BY <1>3
  <1> DEFINE g == [i \in 1 .. n |-> f[i]]
  <1>5. ASSUME NEW i \in 1 .. n
        PROVE  /\ f[i] = h[<<i, f[i - 1]>>]
               /\ i \in 0 .. n /\ i - 1 \in 0 .. n /\ i # 0
               /\ i > 1 => i - 1 \in 1 .. n
               /\ f[i - 1] \in Nat
    <2>1. i \in 0 .. n /\ i - 1 \in 0 .. n /\ i # 0 /\ (i > 1 => i - 1 \in 1 .. n)  BY <1>1
    <2>2. f[i] = h[<<i, f[i - 1]>>]
      <3> HIDE DEF h
      <3>1. QED  BY <1>4, <2>1 DEF Iterates
    <2>3. QED  BY <1>4, <2>1, <2>2
  <1>6. \A i \in 1 .. n :
          g[i] = IF i > 1 /\ g[i - 1] + us[i].weight <= budget
                 THEN g[i - 1] + us[i].weight ELSE us[i].weight
    <2> TAKE i \in 1 .. n
    <2>1. h[<<i, f[i - 1]>>] = IF i > 1 /\ f[i - 1] + us[i].weight <= budget
                               THEN f[i - 1] + us[i].weight ELSE us[i].weight
      BY <1>5
    <2>2. g[i] = f[i] /\ (i > 1 => g[i - 1] = f[i - 1])  BY <1>5
    <2>3. QED  BY <1>5, <2>1, <2>2
  <1>7. g = Body(g)
    <2>1. Body(g) = [i \in 1 .. n |-> g[i]]  BY <1>1, <1>6
    <2>2. QED  BY <2>1
  <1> DEFINE w == RunWeight(us, budget)
  <1>8. w = Body(w)
    <2>1. w = CHOOSE v : v = Body(v)  BY DEF RunWeight
    <2> HIDE DEF w, g, Body
    <2>2. QED  BY <1>7, <2>1
  <1> HIDE DEF w
  <1>9. DOMAIN w = 1 .. n /\ IsRunWeight(us, budget, w)  BY <1>1, <1>8 DEF IsRunWeight
  <1>10. \A i \in 1 .. n : w[i] \in Nat
    <2> DEFINE A == {k \in 0 .. n : \A i \in 1 .. k : w[i] \in Nat}
    <2>1. 0 \in A  BY <1>1
    <2>2. ASSUME NEW k \in 0 .. n - 1, k \in A
          PROVE  k + 1 \in A
      <3>1. /\ k + 1 \in 1 .. n /\ k + 1 \in 0 .. n /\ (k + 1) - 1 = k
            /\ \A i \in 1 .. k + 1 : i = k + 1 \/ i \in 1 .. k
            /\ (k + 1 > 1 => k \in 1 .. k)
        BY <1>1
      <3>2. k + 1 > 1 => w[k] \in Nat  BY <2>2, <3>1
      <3>3. us[k + 1].weight \in Nat  BY <1>1, <3>1
      <3>4. w[k + 1] = IF k + 1 > 1 /\ w[k] + us[k + 1].weight <= budget
                       THEN w[k] + us[k + 1].weight ELSE us[k + 1].weight
        BY <1>1, <1>9, <3>1 DEF IsRunWeight
      <3>5. w[k + 1] \in Nat  BY <3>2, <3>3, <3>4
      <3>6. QED  BY <2>2, <3>1, <3>5
    <2> HIDE DEF A
    <2>3. 0 .. n \subseteq A  BY <1>1, <2>1, <2>2, Induction
    <2>4. n \in A  BY <1>1, <2>3
    <2>5. QED  BY <2>4 DEF A
  <1>11. w \in [1 .. n -> Nat]
    <2>1. w = [i \in 1 .. n |-> w[i]]  BY <1>1, <1>8
    <2>2. QED  BY <1>10, <2>1
  <1>12. QED  BY <1>1, <1>9, <1>11 DEF w

(* What a run weighs, counted unit after unit. *)
IsSum(run, f) ==
  /\ f \in [0 .. Len(units) -> Nat] /\ f[0] = 0
  /\ \A i \in 1 .. Len(units) : f[i] = f[i - 1] + (IF i \in run THEN units[i].weight ELSE 0)

LEMMA RunBytesIs ==
  ASSUME IsPlan(units), NEW run
  PROVE  \E f : IsSum(run, f) /\ RunBytes(run) = f[Len(units)]
  <1> DEFINE n == Len(units)
             h == [x \in (1 .. n) \X Nat |-> x[2] + (IF x[1] \in run THEN units[x[1]].weight ELSE 0)]
             Body(f) == [i \in 0 .. n |->
                           IF i = 0 THEN 0
                           ELSE f[i - 1] + (IF i \in run THEN units[i].weight ELSE 0)]
  <1>1. n \in Nat /\ \A i \in 1 .. n : units[i].weight \in Nat  BY PlanFacts
  <1>2. h \in [(1 .. n) \X Nat -> Nat]
    <2>1. ASSUME NEW x \in (1 .. n) \X Nat
          PROVE  x[2] + (IF x[1] \in run THEN units[x[1]].weight ELSE 0) \in Nat
      <3>1. x[1] \in 1 .. n /\ x[2] \in Nat  OBVIOUS
      <3>2. units[x[1]].weight \in Nat  BY <1>1, <3>1
      <3>3. QED  BY <3>1, <3>2
    <2>2. QED  BY <2>1
  <1>3. \E f \in [0 .. n -> Nat] : Iterates(f, n, 0, h)
    <2> HIDE DEF h
    <2>1. 0 \in Nat  OBVIOUS
    <2>2. QED  BY <1>1, <1>2, <2>1, Iteration
  <1>4. PICK g \in [0 .. n -> Nat] : Iterates(g, n, 0, h)  BY <1>3
  <1>5. g = Body(g)
    <2>1. ASSUME NEW i \in 0 .. n, i # 0
          PROVE  h[<<i, g[i - 1]>>] = g[i - 1] + (IF i \in run THEN units[i].weight ELSE 0)
      <3>1. i \in 1 .. n /\ i - 1 \in 0 .. n  BY <1>1, <2>1
      <3>2. g[i - 1] \in Nat  BY <1>4, <3>1
      <3>3. QED  BY <3>1, <3>2
    <2>2. g = [i \in 0 .. n |-> IF i = 0 THEN 0 ELSE h[<<i, g[i - 1]>>]]  BY <1>4 DEF Iterates
    <2> HIDE DEF h, n
    <2>3. QED  BY <2>1, <2>2
  <1> DEFINE f == CHOOSE v : v = Body(v)
  <1>6. f = Body(f)
    <2> HIDE DEF Body
    <2>1. QED  BY <1>5
  <1>7. RunBytes(run) = f[n]  BY DEF RunBytes
  <1> HIDE DEF f
  <1>8. /\ f[0] = 0
        /\ \A i \in 1 .. n : f[i] = f[i - 1] + (IF i \in run THEN units[i].weight ELSE 0)
    <2>1. 0 \in 0 .. n /\ \A i \in 1 .. n : i \in 0 .. n /\ i # 0  BY <1>1
    <2> HIDE DEF n
    <2>2. QED  BY <1>6, <2>1
  <1>9. f \in [0 .. n -> Nat]
    <2> DEFINE A == {k \in 0 .. n : f[k] \in Nat}
    <2>1. 0 \in A  BY <1>1, <1>8
    <2>2. ASSUME NEW k \in 0 .. n - 1, k \in A
          PROVE  k + 1 \in A
      <3>1. k + 1 \in 1 .. n /\ k + 1 \in 0 .. n /\ (k + 1) - 1 = k  BY <1>1
      <3>2. f[k + 1] = f[k] + (IF k + 1 \in run THEN units[k + 1].weight ELSE 0)  BY <1>8, <3>1
      <3>3. units[k + 1].weight \in Nat /\ f[k] \in Nat  BY <1>1, <2>2, <3>1
      <3>4. f[k + 1] \in Nat  BY <3>2, <3>3
      <3>5. QED  BY <3>1, <3>4
    <2> HIDE DEF A
    <2>3. 0 .. n \subseteq A  BY <1>1, <2>1, <2>2, Induction
    <2>4. f = [i \in 0 .. n |-> f[i]]  BY <1>6
    <2>5. \A i \in 0 .. n : f[i] \in Nat  BY <2>3 DEF A
    <2> HIDE DEF n
    <2>6. QED  BY <2>4, <2>5
  <1>10. QED  BY <1>7, <1>8, <1>9 DEF IsSum

(* The weight of consecutive units, from the weights of what begins them. *)
LEMMA RunBytesOf ==
  ASSUME IsPlan(units), NEW b \in Index(units), NEW e \in Index(units), b <= e,
         NEW v, v[b] = units[b].weight,
         \A x \in b .. e - 1 : v[x + 1] = v[x] + units[x + 1].weight
  PROVE  RunBytes(b .. e) = v[e] /\ v[e] \in Nat
  <1> DEFINE n == Len(units)
  <1>1. n \in Nat /\ b \in 1 .. n /\ e \in 1 .. n /\ \A i \in 1 .. n : units[i].weight \in Nat
    BY PlanFacts
  <1>2. PICK f : IsSum(b .. e, f) /\ RunBytes(b .. e) = f[n]  BY RunBytesIs
  <1>3. /\ f[0] = 0
        /\ \A i \in 1 .. n : f[i] = f[i - 1] + (IF i \in b .. e THEN units[i].weight ELSE 0)
        /\ \A i \in 0 .. n : f[i] \in Nat
    BY <1>2 DEF IsSum
  <1> DEFINE P(k) == f[k] = (IF k < b THEN 0 ELSE IF k <= e THEN v[k] ELSE v[e])
             A == {k \in 0 .. n : P(k)}
  <1>4. 0 \in A  BY <1>1, <1>3
  <1>5. ASSUME NEW k \in 0 .. n - 1, k \in A
        PROVE  k + 1 \in A
    <2>1. k + 1 \in 1 .. n /\ k + 1 \in 0 .. n /\ (k + 1) - 1 = k /\ k \in 0 .. n  BY <1>1
    <2>2. f[k + 1] = f[k] + (IF k + 1 \in b .. e THEN units[k + 1].weight ELSE 0)  BY <1>3, <2>1
    <2>3. P(k) /\ f[k] \in Nat /\ units[k + 1].weight \in Nat  BY <1>1, <1>3, <1>5, <2>1
    <2>4. CASE k + 1 < b
      <3>1. k + 1 \notin b .. e /\ k < b  BY <1>1, <2>1, <2>4
      <3>2. f[k + 1] = 0  BY <2>2, <2>3, <3>1
      <3>3. QED  BY <2>1, <2>4, <3>2
    <2>5. CASE k + 1 = b
      <3>1. k + 1 \in b .. e /\ k < b /\ ~(k + 1 < b) /\ k + 1 <= e  BY <1>1, <2>1, <2>5
      <3>2. f[k + 1] = units[b].weight  BY <2>2, <2>3, <2>5, <3>1
      <3>3. QED  BY <2>1, <2>5, <3>1, <3>2
    <2>6. CASE b <= k /\ k < e
      <3>1. /\ k + 1 \in b .. e /\ ~(k < b) /\ ~(k + 1 < b) /\ k <= e /\ k + 1 <= e
            /\ k \in b .. e - 1
        BY <1>1, <2>1, <2>6
      <3>2. f[k + 1] = v[k] + units[k + 1].weight  BY <2>2, <2>3, <3>1
      <3>3. v[k + 1] = v[k] + units[k + 1].weight  BY <3>1
      <3>4. QED  BY <2>1, <3>1, <3>2, <3>3
    <2>7. CASE e <= k
      <3>1. k + 1 \notin b .. e /\ ~(k < b) /\ ~(k + 1 < b) /\ ~(k + 1 <= e) /\ (k <= e => k = e)
        BY <1>1, <2>1, <2>7
      <3>2. f[k] = v[e]  BY <2>3, <3>1
      <3>3. f[k + 1] = v[e]  BY <2>2, <2>3, <3>1, <3>2
      <3>4. QED  BY <2>1, <3>1, <3>3
    <2>8. QED  BY <1>1, <2>1, <2>4, <2>5, <2>6, <2>7
  <1> HIDE DEF A
  <1>6. 0 .. n \subseteq A  BY <1>1, <1>4, <1>5, Induction
  <1>7. e \in 0 .. n /\ n \in 0 .. n /\ ~(e < b) /\ ~(n < b) /\ (n <= e => n = e)  BY <1>1
  <1>8. P(e) /\ P(n)  BY <1>6, <1>7 DEF A
  <1>9. f[e] = v[e] /\ f[n] = v[e]  BY <1>1, <1>7, <1>8
  <1>10. QED  BY <1>2, <1>3, <1>7, <1>9

(* "attn-ffn": no start, no change of stage. *)
LEMMA OneStage ==
  ASSUME NEW us, IsPlan(us), NEW b, NEW e, b \in AttnFfnStarts(us),
         IsRun(us, AttnFfnStarts(us), b, e)
  PROVE  \A i \in b .. e : us[i].stage = us[b].stage
  <1> DEFINE ss == AttnFfnStarts(us)
  <1>1. /\ Len(us) \in Nat /\ Index(us) = 1 .. Len(us)
        /\ b \in 1 .. Len(us) /\ e \in 1 .. Len(us) /\ b <= e
        /\ \A s \in ss : s > b => s > e
    BY PlanFacts DEF IsRun, AttnFfnStarts
  <1> DEFINE A == {k \in 0 .. e - b : us[b + k].stage = us[b].stage}
  <1>2. 0 \in A
    <2>1. b + 0 = b /\ 0 \in 0 .. e - b  BY <1>1
    <2>2. QED  BY <2>1
  <1>3. ASSUME NEW k \in 0 .. (e - b) - 1, k \in A
        PROVE  k + 1 \in A
    <2> DEFINE x == b + (k + 1)
    <2>1. x \in 1 .. Len(us) /\ x > b /\ x <= e /\ x > 1 /\ x - 1 = b + k /\ k + 1 \in 0 .. e - b
      BY <1>1
    <2> HIDE DEF x
    <2>2. x \notin ss  BY <1>1, <2>1
    <2>3. us[x].stage = us[x - 1].stage  BY <1>1, <2>1, <2>2 DEF AttnFfnStarts
    <2>4. us[b + (k + 1)].stage = us[b].stage  BY <1>3, <2>1, <2>3 DEF x
    <2>5. QED  BY <2>1, <2>4
  <1> HIDE DEF A
  <1>4. e - b \in Nat  BY <1>1
  <1>5. 0 .. e - b \subseteq A  BY <1>2, <1>3, <1>4, Induction
  <1>6. ASSUME NEW i \in b .. e
        PROVE  us[i].stage = us[b].stage
    <2>1. i - b \in 0 .. e - b /\ b + (i - b) = i  BY <1>1
    <2>2. us[b + (i - b)].stage = us[b].stage  BY <1>5, <2>1 DEF A
    <2>3. QED  BY <2>1, <2>2
  <1>7. QED  BY <1>6

(* "budget": the run fits, or is one unit; with the next it would not fit. *)
LEMMA WithinBudget ==
  ASSUME IsPlan(units), NEW budget \in Nat, NEW b, NEW e,
         b \in BudgetStarts(units, budget), IsRun(units, BudgetStarts(units, budget), b, e)
  PROVE  /\ RunBytes(b .. e) <= budget \/ b .. e = {b}
         /\ e < Len(units) => RunBytes(b .. e \cup {e + 1}) > budget
  <1> DEFINE n  == Len(units)
             w  == RunWeight(units, budget)
             ss == BudgetStarts(units, budget)
  <1>1. /\ n \in Nat /\ Index(units) = 1 .. n
        /\ \A i \in 1 .. n : units[i].weight \in Nat
        /\ b \in 1 .. n /\ e \in 1 .. n /\ b <= e
        /\ \A s \in ss : s > b => s > e
        /\ e # n => e + 1 \in ss
    <2>1. b \in Index(units)  BY DEF BudgetStarts
    <2>2. /\ e \in Index(units) /\ b <= e
          /\ \A s \in ss : s > b => s > e
          /\ e # n => e + 1 \in ss
      BY DEF IsRun
    <2> HIDE DEF ss
    <2>3. QED  BY <2>1, <2>2, PlanFacts
  <1>2. (\A i \in 1 .. n : w[i] \in Nat) /\ IsRunWeight(units, budget, w)
    <2>1. w \in [Index(units) -> Nat] /\ IsRunWeight(units, budget, w)  BY RunWeightIs
    <2> HIDE DEF w
    <2>2. QED  BY <1>1, <2>1
  <1>3. \A i \in 1 .. n : i \in ss <=> (i > 1 => w[i - 1] + units[i].weight > budget)
    BY <1>1 DEF BudgetStarts
  <1> HIDE DEF ss, w
  <1>4. \A i \in 1 .. n : i > 1 => i - 1 \in 1 .. n  BY <1>1
  <1>5. \A i \in 1 .. n :
          w[i] = IF i > 1 /\ w[i - 1] + units[i].weight <= budget
                 THEN w[i - 1] + units[i].weight ELSE units[i].weight
    BY <1>1, <1>2 DEF IsRunWeight
  <1>6. w[b] = units[b].weight
    <2>1. b \in ss  BY DEF ss
    <2>2. b > 1 => w[b - 1] + units[b].weight > budget  BY <1>1, <1>3, <2>1
    <2>3. b > 1 => w[b - 1] \in Nat  BY <1>1, <1>2, <1>4
    <2>4. units[b].weight \in Nat  BY <1>1
    <2>5. ~(b > 1 /\ w[b - 1] + units[b].weight <= budget)  BY <2>2, <2>3, <2>4
    <2>6. QED  BY <1>1, <1>5, <2>5
  <1>7. ASSUME NEW x \in b .. e - 1
        PROVE  w[x + 1] = w[x] + units[x + 1].weight /\ w[x + 1] <= budget
    <2>1. x \in 1 .. n /\ x + 1 \in 1 .. n /\ x + 1 > 1 /\ (x + 1) - 1 = x /\ x + 1 > b /\ x + 1 <= e
      BY <1>1
    <2>2. x + 1 \notin ss  BY <1>1, <2>1
    <2>3. w[x] \in Nat /\ units[x + 1].weight \in Nat  BY <1>1, <1>2, <2>1
    <2>4. ~(w[x] + units[x + 1].weight > budget)  BY <1>3, <2>1, <2>2
    <2>5. w[x] + units[x + 1].weight <= budget  BY <2>3, <2>4
    <2>6. w[x + 1] = w[x] + units[x + 1].weight  BY <1>5, <2>1, <2>5
    <2>7. QED  BY <2>5, <2>6
  <1>8. RunBytes(b .. e) = w[e]
    <2>1. b \in Index(units) /\ e \in Index(units) /\ b <= e  BY <1>1
    <2>2. QED  BY <1>6, <1>7, <2>1, RunBytesOf
  <1>9. RunBytes(b .. e) <= budget \/ b .. e = {b}
    <2>1. CASE b = e
      <3>1. b .. e = {b}  BY <1>1, <2>1
      <3>2. QED  BY <3>1
    <2>2. CASE b # e
      <3>1. e - 1 \in b .. e - 1 /\ (e - 1) + 1 = e  BY <1>1, <2>2
      <3>2. w[e] <= budget  BY <1>7, <3>1
      <3>3. QED  BY <1>8, <3>2
    <2>3. QED  BY <2>1, <2>2
  <1>10. ASSUME e < n
         PROVE  RunBytes(b .. e \cup {e + 1}) > budget
    <2>1. e + 1 \in 1 .. n /\ e # n /\ e + 1 > 1 /\ (e + 1) - 1 = e /\ b <= e + 1
      BY <1>1, <1>10
    <2>2. w[e] + units[e + 1].weight > budget  BY <1>1, <1>3, <2>1
    <2> DEFINE v == [x \in b .. e + 1 |-> IF x = e + 1 THEN w[e] + units[e + 1].weight ELSE w[x]]
    <2>3. v[b] = units[b].weight
      <3>1. b \in b .. e + 1 /\ b # e + 1  BY <1>1
      <3>2. QED  BY <1>6, <3>1
    <2>4. ASSUME NEW x \in b .. (e + 1) - 1
          PROVE  v[x + 1] = v[x] + units[x + 1].weight
      <3>1. x \in b .. e + 1 /\ x + 1 \in b .. e + 1 /\ x # e + 1  BY <1>1
      <3>2. v[x] = w[x]  BY <3>1
      <3>3. CASE x = e
        <4>1. v[x + 1] = w[e] + units[e + 1].weight  BY <3>1, <3>3
        <4>2. QED  BY <3>2, <3>3, <4>1
      <3>4. CASE x # e
        <4>1. x \in b .. e - 1 /\ x + 1 # e + 1  BY <1>1, <3>4
        <4>2. v[x + 1] = w[x + 1]  BY <3>1, <4>1
        <4>3. w[x + 1] = w[x] + units[x + 1].weight  BY <1>7, <4>1
        <4>4. QED  BY <3>2, <4>2, <4>3
      <3>5. QED  BY <3>3, <3>4
    <2>5. v[e + 1] = w[e] + units[e + 1].weight
      <3>1. e + 1 \in b .. e + 1  BY <1>1
      <3>2. QED  BY <3>1
    <2> HIDE DEF v
    <2>6. RunBytes(b .. e + 1) = v[e + 1]
      <3>1. b \in Index(units) /\ e + 1 \in Index(units) /\ b <= e + 1  BY <1>1, <2>1
      <3>2. QED  BY <2>3, <2>4, <3>1, RunBytesOf
    <2>7. b .. e + 1 = b .. e \cup {e + 1}  BY <1>1
    <2>8. QED  BY <2>2, <2>5, <2>6, <2>7
  <1>11. QED  BY <1>9, <1>10

(* Each unit is in the run of the last start up to it. *)
LEMMA RunsCover ==
  ASSUME NEW us, IsPlan(us), NEW ss \in SUBSET Index(us), 1 \in ss, NEW i \in Index(us)
  PROVE  \E c \in ss : i \in RunFrom(us, ss, c)
  <1> DEFINE n == Len(us)
             early == {s \in ss : s <= i}
  <1>1. n \in Nat /\ Index(us) = 1 .. n  BY PlanFacts
  <1>2. early \in SUBSET (1 .. n) /\ early # {}
    <2>1. 1 <= i  BY <1>1
    <2>2. QED  BY <1>1, <2>1
  <1>3. Max(early) \in early /\ \A y \in early : Max(early) >= y
    <2> HIDE DEF early, n
    <2>1. QED  BY <1>1, <1>2, MaxOfIndexes
  <1> DEFINE c == Max(early)
  <1>4. c \in ss /\ c <= i /\ c \in 1 .. n /\ i \in 1 .. n  BY <1>1, <1>3
  <1>5. \A s \in ss : s > c => i < s
    <2> SUFFICES ASSUME NEW s \in ss, s > c
                 PROVE  i < s
      OBVIOUS
    <2>1. s \in 1 .. n  BY <1>1
    <2>2. ~(s <= i)
      <3>1. s <= i => c >= s  BY <1>3
      <3> HIDE DEF c, early
      <3>2. QED  BY <1>1, <1>4, <2>1, <3>1
    <2> HIDE DEF c
    <2>3. QED  BY <1>4, <2>1, <2>2
  <1> HIDE DEF c
  <1>6. i >= c  BY <1>4
  <1>7. QED  BY <1>1, <1>4, <1>5, <1>6 DEF RunFrom

LEMMA PartitionHolds ==
  ASSUME IsPlan(units), preset \in Presets, starts = Starts(units, preset)
  PROVE  PartitionMeetsPreset
  <1>1. starts \in SUBSET Index(units) /\ 1 \in starts  BY StartsAreIndexes
  <1>2. preset.bytes \in Nat  BY PresetAssumption
  <1>3. ASSUME NEW b \in starts
        PROVE  LET run == RunFrom(units, starts, b)
               IN  /\ preset.name = "attn-ffn" => \A i, j \in run : units[i].stage = units[j].stage
                   /\ preset.name = "budget" =>
                        /\ RunBytes(run) <= preset.bytes \/ run = {b}
                        /\ Max(run) < Len(units) =>
                             RunBytes(run \cup {Max(run) + 1}) > preset.bytes
    <2>1. PICK e \in Index(units) : IsRun(units, starts, b, e)  BY <1>1, RunIsInterval
    <2>2. RunFrom(units, starts, b) = b .. e /\ Max(RunFrom(units, starts, b)) = e  BY <2>1 DEF IsRun
    <2>3. ASSUME preset.name = "attn-ffn"
          PROVE  \A i, j \in b .. e : units[i].stage = units[j].stage
      <3>1. starts = AttnFfnStarts(units)  BY <2>3 DEF Starts
      <3>2. \A i \in b .. e : units[i].stage = units[b].stage  BY <2>1, <3>1, OneStage
      <3>3. QED  BY <3>2
    <2>4. ASSUME preset.name = "budget"
          PROVE  /\ RunBytes(b .. e) <= preset.bytes \/ b .. e = {b}
                 /\ e < Len(units) => RunBytes(b .. e \cup {e + 1}) > preset.bytes
      <3>1. starts = BudgetStarts(units, preset.bytes)  BY <2>4 DEF Starts
      <3>2. QED  BY <1>2, <2>1, <3>1, WithinBudget
    <2>5. QED  BY <2>2, <2>3, <2>4
  <1>4. \A i \in Index(units) : \E c \in starts : i \in RunFrom(units, starts, c)
    BY <1>1, RunsCover
  <1>5. QED  BY <1>3, <1>4 DEF PartitionMeetsPreset

-----------------------------------------------------------------------------
(* Units j + 1 to k one after the other. *)
Chain(f, base, j, k, in) ==
  /\ f[j] = base
  /\ \A i \in j + 1 .. k : f[i] = AfterUnit(f[i - 1], UnitAt(i), LayerAt(i), in)

LEMMA ChainExists ==
  ASSUME NEW base, NEW in, NEW j \in Nat, NEW k \in Nat, j <= k
  PROVE  \E f : Chain(f, base, j, k, in) /\ Built(base, j, k, in) = f[k]
  <1> DEFINE One(x, i) == AfterUnit(x, UnitAt(i), LayerAt(i), in)
             Body(f, e) == [i \in j .. e |-> IF i = j THEN base ELSE One(f[i - 1], i)]
             A == {m \in 0 .. k - j : \E f : f = Body(f, j + m)}
  <1> HIDE DEF One
  <1>1. 0 \in A
    <2> DEFINE f == [i \in j .. j + 0 |-> base]
    <2>1. \A i \in j .. j + 0 : i = j  OBVIOUS
    <2>2. f = Body(f, j + 0)  BY <2>1
    <2>3. 0 \in 0 .. k - j  OBVIOUS
    <2> HIDE DEF Body, f
    <2>4. QED  BY <2>2, <2>3
  <1>2. ASSUME NEW m \in 0 .. (k - j) - 1, m \in A
        PROVE  m + 1 \in A
    <2> DEFINE e == j + m
    <2>1. PICK f : f = Body(f, e)  BY <1>2
    <2>2. /\ m + 1 \in 0 .. k - j /\ e \in Nat /\ j + (m + 1) = e + 1 /\ e \in j .. e
          /\ \A i \in j .. e + 1 : i = e + 1 \/ i \in j .. e
          /\ \A i \in j .. e : i # e + 1 /\ i \in j .. e + 1 /\ (i # j => i - 1 \in j .. e)
          /\ e + 1 # j /\ (e + 1) - 1 = e
      OBVIOUS
    <2> HIDE DEF e
    <2> DEFINE g == [i \in j .. e + 1 |-> IF i = e + 1 THEN One(f[e], e + 1) ELSE f[i]]
    <2>3. \A i \in j .. e : g[i] = f[i]  BY <2>2
    <2>4. ASSUME NEW i \in j .. e + 1
          PROVE  (IF i = e + 1 THEN One(f[e], e + 1) ELSE f[i])
                    = IF i = j THEN base ELSE One(g[i - 1], i)
      <3>1. CASE i = e + 1
        <4>1. g[i - 1] = f[e]  BY <2>2, <2>3, <3>1
        <4> HIDE DEF g
        <4>2. QED  BY <2>2, <3>1, <4>1
      <3>2. CASE i \in j .. e
        <4>1. f[i] = IF i = j THEN base ELSE One(f[i - 1], i)  BY <2>1, <3>2
        <4>2. i # j => g[i - 1] = f[i - 1]  BY <2>2, <2>3, <3>2
        <4> HIDE DEF g
        <4>3. QED  BY <2>2, <3>2, <4>1, <4>2
      <3>3. QED  BY <2>2, <3>1, <3>2
    <2>5. g = Body(g, e + 1)
      <3> DEFINE G(i) == IF i = e + 1 THEN One(f[e], e + 1) ELSE f[i]
      <3>1. g = [i \in j .. e + 1 |-> G(i)]  OBVIOUS
      <3>2. \A i \in j .. e + 1 : G(i) = IF i = j THEN base ELSE One(g[i - 1], i)  BY <2>4
      <3> HIDE DEF g, G
      <3>3. QED  BY <3>1, <3>2
    <2> HIDE DEF g, Body
    <2>6. QED  BY <2>2, <2>5
  <1> HIDE DEF A
  <1>3. k - j \in Nat  OBVIOUS
  <1>4. 0 .. k - j \subseteq A  BY <1>1, <1>2, <1>3, Induction
  <1>5. k - j \in A /\ j + (k - j) = k
    <2>1. k - j \in 0 .. k - j  OBVIOUS
    <2>2. QED  BY <1>4, <2>1
  <1>6. \E f : f = Body(f, k)
    <2> HIDE DEF Body
    <2>1. QED  BY <1>5 DEF A
  <1> DEFINE f == CHOOSE v : v = Body(v, k)
  <1>7. Built(base, j, k, in) = f[k]  BY DEF Built, One
  <1>8. f = Body(f, k)
    <2> HIDE DEF Body
    <2>1. QED  BY <1>6
  <1> HIDE DEF f
  <1>9. f[j] = base /\ \A i \in j + 1 .. k : f[i] = One(f[i - 1], i)
    <2>1. j \in j .. k /\ \A i \in j + 1 .. k : i \in j .. k /\ i # j  OBVIOUS
    <2>2. QED  BY <1>8, <2>1
  <1>10. Chain(f, base, j, k, in)  BY <1>9 DEF Chain, One
  <1>11. QED  BY <1>7, <1>10

(* Nothing built; one unit more. *)
LEMMA BuiltStep ==
  ASSUME NEW base, NEW in, NEW j \in Nat, NEW k \in Nat, j <= k
  PROVE  /\ Built(base, j, j, in) = base
         /\ Built(base, j, k + 1, in)
              = AfterUnit(Built(base, j, k, in), UnitAt(k + 1), LayerAt(k + 1), in)
  <1>1. Built(base, j, j, in) = base
    <2>1. j <= j  OBVIOUS
    <2>2. PICK f : Chain(f, base, j, j, in) /\ Built(base, j, j, in) = f[j]  BY <2>1, ChainExists
    <2>3. QED  BY <2>2 DEF Chain
  <1>2. PICK f : Chain(f, base, j, k, in) /\ Built(base, j, k, in) = f[k]  BY ChainExists
  <1>3. PICK g : Chain(g, base, j, k + 1, in) /\ Built(base, j, k + 1, in) = g[k + 1]
    <2>1. k + 1 \in Nat /\ j <= k + 1  OBVIOUS
    <2>2. QED  BY <2>1, ChainExists
  <1> DEFINE A == {m \in 0 .. k - j : g[j + m] = f[j + m]}
  <1>4. 0 \in A
    <2>1. 0 \in 0 .. k - j /\ j + 0 = j  OBVIOUS
    <2>2. QED  BY <1>2, <1>3, <2>1 DEF Chain
  <1>5. ASSUME NEW m \in 0 .. (k - j) - 1, m \in A
        PROVE  m + 1 \in A
    <2> DEFINE i == j + (m + 1)
    <2>1. /\ m + 1 \in 0 .. k - j /\ i \in j + 1 .. k /\ i \in j + 1 .. k + 1
          /\ i - 1 = j + m
      OBVIOUS
    <2>2. g[j + m] = f[j + m]  BY <1>5
    <2> HIDE DEF i
    <2>3. g[i] = AfterUnit(g[i - 1], UnitAt(i), LayerAt(i), in)  BY <1>3, <2>1 DEF Chain
    <2>4. f[i] = AfterUnit(f[i - 1], UnitAt(i), LayerAt(i), in)  BY <1>2, <2>1 DEF Chain
    <2>5. g[i] = f[i]  BY <2>1, <2>2, <2>3, <2>4
    <2>6. QED  BY <2>1, <2>5 DEF i
  <1> HIDE DEF A
  <1>6. k - j \in Nat  OBVIOUS
  <1>7. 0 .. k - j \subseteq A  BY <1>4, <1>5, <1>6, Induction
  <1>8. g[k] = f[k]
    <2>1. k - j \in 0 .. k - j /\ j + (k - j) = k  OBVIOUS
    <2>2. k - j \in A  BY <1>7, <2>1
    <2>3. QED  BY <2>1, <2>2 DEF A
  <1>9. k + 1 \in j + 1 .. k + 1 /\ (k + 1) - 1 = k  OBVIOUS
  <1>10. g[k + 1] = AfterUnit(g[(k + 1) - 1], UnitAt(k + 1), LayerAt(k + 1), in)
    BY <1>3, <1>9 DEF Chain
  <1>11. QED  BY <1>1, <1>2, <1>3, <1>8, <1>9, <1>10

-----------------------------------------------------------------------------
(* The units of BERT and of Gemma 3, as the file weighs them. *)
IsUnit(u, name, ins, outs, needs) ==
  u.name = name /\ u.ins = ins /\ u.outs = outs /\ u.needs = needs

LEMMA BertPlan ==
  ASSUME NEW us, IsPlan(us), PlanOf(us, BertUnits)
  PROVE  /\ Len(us) = 4 /\ Index(us) = 1 .. 4
         /\ IsUnit(us[1], "attn_qkv", <<"x">>, <<"q", "k", "v">>, {})
         /\ IsUnit(us[2], "attn_out", <<"q", "k", "v", "x">>, <<"xa">>, {"kq_mask"})
         /\ IsUnit(us[3], "ffn_up", <<"xa">>, <<"fh">>, {})
         /\ IsUnit(us[4], "ffn_down", <<"fh", "xa">>, <<"x">>, {})
  <1> DEFINE F == {"name", "weights", "ins", "outs", "in", "out", "stage", "needs"}
  <1>1. Len(BertUnits) = 4 /\ \A i \in 1 .. 4 : DOMAIN BertUnits[i] = F
    <2>1. Len(BertUnits) = 4  BY DEF BertUnits
    <2>2. \A i \in 1 .. 4 : i = 1 \/ i = 2 \/ i = 3 \/ i = 4  OBVIOUS
    <2>3. /\ DOMAIN BertUnits[1] = F /\ DOMAIN BertUnits[2] = F
          /\ DOMAIN BertUnits[3] = F /\ DOMAIN BertUnits[4] = F
      BY DEF BertUnits, Unit
    <2>4. QED  BY <2>1, <2>2, <2>3
  <1>2. Len(us) = 4 /\ Index(us) = 1 .. 4  BY <1>1, PlanFacts DEF PlanOf
  <1>3. \A i \in 1 .. 4 : \A f \in F : us[i][f] = BertUnits[i][f]  BY <1>1, <1>2 DEF PlanOf
  <1>4. \A i \in 1 .. 4 : /\ us[i].name = BertUnits[i].name /\ us[i].ins = BertUnits[i].ins
                          /\ us[i].outs = BertUnits[i].outs /\ us[i].needs = BertUnits[i].needs
    BY <1>3
  <1>5. /\ 1 \in 1 .. 4 /\ 2 \in 1 .. 4 /\ 3 \in 1 .. 4 /\ 4 \in 1 .. 4  OBVIOUS
  <1>6. IsUnit(us[1], "attn_qkv", <<"x">>, <<"q", "k", "v">>, {})
    BY <1>4, <1>5 DEF BertUnits, Unit, IsUnit
  <1>7. IsUnit(us[2], "attn_out", <<"q", "k", "v", "x">>, <<"xa">>, {"kq_mask"})
    BY <1>4, <1>5 DEF BertUnits, Unit, IsUnit
  <1>8. IsUnit(us[3], "ffn_up", <<"xa">>, <<"fh">>, {})
    BY <1>4, <1>5 DEF BertUnits, Unit, IsUnit
  <1>9. IsUnit(us[4], "ffn_down", <<"fh", "xa">>, <<"x">>, {})
    BY <1>4, <1>5 DEF BertUnits, Unit, IsUnit
  <1>10. QED  BY <1>2, <1>6, <1>7, <1>8, <1>9

LEMMA Gemma3Plan ==
  ASSUME NEW us, IsPlan(us), PlanOf(us, Gemma3Units)
  PROVE  /\ Len(us) = 8 /\ Index(us) = 1 .. 8
         /\ IsUnit(us[1], "attn_norm", <<"x">>, <<"xn">>, {})
         /\ IsUnit(us[2], "attn_qkv", <<"xn">>, <<"q", "k", "v">>, {})
         /\ IsUnit(us[3], "attn_core", <<"q", "k", "v">>, <<"h">>,
                   {"rope_pos", "kq_mask", "seq_lengths", "packed"})
         /\ IsUnit(us[4], "attn_post", <<"h", "x">>, <<"x1">>, {})
         /\ IsUnit(us[5], "ffn_norm", <<"x1">>, <<"fn">>, {})
         /\ IsUnit(us[6], "ffn_gate_up", <<"fn">>, <<"fh">>, {})
         /\ IsUnit(us[7], "ffn_down", <<"fh">>, <<"fd">>, {})
         /\ IsUnit(us[8], "ffn_post", <<"fd", "x1">>, <<"x">>, {})
  <1> DEFINE F == {"name", "weights", "ins", "outs", "in", "out", "stage", "needs"}
  <1>1. Len(Gemma3Units) = 8 /\ \A i \in 1 .. 8 : DOMAIN Gemma3Units[i] = F
    <2>1. Len(Gemma3Units) = 8  BY DEF Gemma3Units
    <2>2. \A i \in 1 .. 8 : i = 1 \/ i = 2 \/ i = 3 \/ i = 4 \/ i = 5 \/ i = 6 \/ i = 7 \/ i = 8
      OBVIOUS
    <2>3. /\ DOMAIN Gemma3Units[1] = F /\ DOMAIN Gemma3Units[2] = F
          /\ DOMAIN Gemma3Units[3] = F /\ DOMAIN Gemma3Units[4] = F
          /\ DOMAIN Gemma3Units[5] = F /\ DOMAIN Gemma3Units[6] = F
          /\ DOMAIN Gemma3Units[7] = F /\ DOMAIN Gemma3Units[8] = F
      BY DEF Gemma3Units, Unit
    <2>4. QED  BY <2>1, <2>2, <2>3
  <1>2. Len(us) = 8 /\ Index(us) = 1 .. 8  BY <1>1, PlanFacts DEF PlanOf
  <1>3. \A i \in 1 .. 8 : \A f \in F : us[i][f] = Gemma3Units[i][f]  BY <1>1, <1>2 DEF PlanOf
  <1>4. \A i \in 1 .. 8 : /\ us[i].name = Gemma3Units[i].name /\ us[i].ins = Gemma3Units[i].ins
                          /\ us[i].outs = Gemma3Units[i].outs /\ us[i].needs = Gemma3Units[i].needs
    BY <1>3
  <1>5. /\ 1 \in 1 .. 8 /\ 2 \in 1 .. 8 /\ 3 \in 1 .. 8 /\ 4 \in 1 .. 8
        /\ 5 \in 1 .. 8 /\ 6 \in 1 .. 8 /\ 7 \in 1 .. 8 /\ 8 \in 1 .. 8
    OBVIOUS
  <1>6. IsUnit(us[1], "attn_norm", <<"x">>, <<"xn">>, {})
    BY <1>4, <1>5 DEF Gemma3Units, Unit, IsUnit
  <1>7. IsUnit(us[2], "attn_qkv", <<"xn">>, <<"q", "k", "v">>, {})
    BY <1>4, <1>5 DEF Gemma3Units, Unit, IsUnit
  <1>8. IsUnit(us[3], "attn_core", <<"q", "k", "v">>, <<"h">>,
               {"rope_pos", "kq_mask", "seq_lengths", "packed"})
    BY <1>4, <1>5 DEF Gemma3Units, Unit, IsUnit
  <1>9. IsUnit(us[4], "attn_post", <<"h", "x">>, <<"x1">>, {})
    BY <1>4, <1>5 DEF Gemma3Units, Unit, IsUnit
  <1>10. IsUnit(us[5], "ffn_norm", <<"x1">>, <<"fn">>, {})
    BY <1>4, <1>5 DEF Gemma3Units, Unit, IsUnit
  <1>11. IsUnit(us[6], "ffn_gate_up", <<"fn">>, <<"fh">>, {})
    BY <1>4, <1>5 DEF Gemma3Units, Unit, IsUnit
  <1>12. IsUnit(us[7], "ffn_down", <<"fh">>, <<"fd">>, {})
    BY <1>4, <1>5 DEF Gemma3Units, Unit, IsUnit
  <1>13. IsUnit(us[8], "ffn_post", <<"fd", "x1">>, <<"x">>, {})
    BY <1>4, <1>5 DEF Gemma3Units, Unit, IsUnit
  <1>14. QED  BY <1>2, <1>6, <1>7, <1>8, <1>9, <1>10, <1>11, <1>12, <1>13

(* A file that may be loaded: the assumption on models, of the one there is. *)
IsModel ==
  /\ IsPlan(units)
  /\ arch = "bert"   => PlanOf(units, BertUnits)   /\ Residual = "x"
  /\ arch = "gemma3" => PlanOf(units, Gemma3Units) /\ Residual = "x"

(* Whatever a unit builds is a node of the graph, never a missing tensor. *)
IsNode(t) == t.of # <<>>

LEMMA NodeIsNotNull ==
  ASSUME NEW t, IsNode(t)
  PROVE  t # Null
  BY DEF IsNode, Null, Leaf

LEMMA OperationsAreNodes ==
  /\ \A op, a : IsNode(Node(op, <<a>>))
  /\ \A op, a, b : IsNode(Node(op, <<a, b>>))
  /\ \A op, a, b, c : IsNode(Node(op, <<a, b, c>>))
  /\ \A op, a, b, c, d : IsNode(Node(op, <<a, b, c, d>>))
  /\ \A a, b : IsNode(ggml_add(a, b)) /\ IsNode(ggml_mul(a, b)) /\ IsNode(build_linear(a, b))
  /\ \A a, b : IsNode(build_rms_norm(a, b))
  /\ \A a, b, c : IsNode(Biased(a, b, c)) /\ IsNode(LayerNorm(a, b, c))
  BY DEF IsNode, Node, ggml_add, ggml_mul, build_linear, build_rms_norm, Biased, LayerNorm

LEMMA BertBuilds ==
  ASSUME IsPlan(units), PlanOf(units, BertUnits), arch = "bert", NEW i \in Index(units), NEW l,
         NEW x, NEW in, NEW k \in DOMAIN units[i].outs
  PROVE  IsNode(Build(arch, units[i], l, x, in)[k])
  <1> DEFINE u == units[i]
             w == BertLayer(l)
  <1>1. Build(arch, u, l, x, in) = BertBuild(u, l, x, in)  BY DEF Build
  <1>2. i = 1 \/ i = 2 \/ i = 3 \/ i = 4
    <2>1. i \in 1 .. 4  BY BertPlan
    <2>2. QED  BY <2>1
  <1>3. CASE i = 1
    <2>1. u.name = "attn_qkv" /\ (k = 1 \/ k = 2 \/ k = 3)
      <3>1. u.name = "attn_qkv" /\ u.outs = <<"q", "k", "v">>  BY <1>3, BertPlan DEF IsUnit
      <3>2. k \in 1 .. 3  BY <3>1
      <3>3. QED  BY <3>1, <3>2
    <2> HIDE DEF u
    <2>2. BertBuild(u, l, x, in) = build_attention_projections(x[1], w)  BY <2>1 DEF BertBuild
    <2> DEFINE a == Biased(w.q_w, w.q_b, x[1])
               b == Biased(w.k_w, w.k_b, x[1])
               c == Biased(w.v_w, w.v_b, x[1])
    <2>5. IsNode(a) /\ IsNode(b) /\ IsNode(c)  BY OperationsAreNodes
    <2>6. build_attention_projections(x[1], w) = <<a, b, c>>  BY DEF build_attention_projections
    <2> HIDE DEF a, b, c
    <2>3. IsNode(build_attention_projections(x[1], w)[k])
      BY <2>1, <2>5, <2>6
    <2>4. QED  BY <1>1, <2>2, <2>3 DEF u
  <1>4. CASE i = 2
    <2>1. u.name = "attn_out" /\ k = 1
      <3>1. u.name = "attn_out" /\ u.outs = <<"xa">>  BY <1>4, BertPlan DEF IsUnit
      <3>2. QED  BY <3>1
    <2> HIDE DEF u
    <2>2. BertBuild(u, l, x, in) = <<build_attention_output(SubSeq(x, 1, 3), x[4], in.kq_mask, w)>>
      BY <2>1 DEF BertBuild
    <2>3. IsNode(build_attention_output(SubSeq(x, 1, 3), x[4], in.kq_mask, w))
      BY OperationsAreNodes DEF build_attention_output
    <2>4. QED  BY <1>1, <2>1, <2>2, <2>3 DEF u
  <1>5. CASE i = 3
    <2>1. u.name = "ffn_up" /\ k = 1
      <3>1. u.name = "ffn_up" /\ u.outs = <<"fh">>  BY <1>5, BertPlan DEF IsUnit
      <3>2. QED  BY <3>1
    <2> HIDE DEF u
    <2>2. BertBuild(u, l, x, in) = <<build_ffn_up(x[1], w)>>  BY <2>1 DEF BertBuild
    <2>3. IsNode(build_ffn_up(x[1], w))  BY OperationsAreNodes DEF build_ffn_up
    <2>4. QED  BY <1>1, <2>1, <2>2, <2>3 DEF u
  <1>6. CASE i = 4
    <2>1. u.name = "ffn_down" /\ k = 1
      <3>1. u.name = "ffn_down" /\ u.outs = <<"x">>  BY <1>6, BertPlan DEF IsUnit
      <3>2. QED  BY <3>1
    <2> HIDE DEF u
    <2>2. BertBuild(u, l, x, in) = <<build_ffn_down(x[1], x[2], w)>>  BY <2>1 DEF BertBuild
    <2>3. IsNode(build_ffn_down(x[1], x[2], w))
      BY OperationsAreNodes DEF build_ffn_down
    <2>4. QED  BY <1>1, <2>1, <2>2, <2>3 DEF u
  <1>7. QED  BY <1>2, <1>3, <1>4, <1>5, <1>6

LEMMA Gemma3Builds ==
  ASSUME IsPlan(units), PlanOf(units, Gemma3Units), arch = "gemma3", NEW i \in Index(units), NEW l,
         NEW x, NEW in, NEW k \in DOMAIN units[i].outs
  PROVE  IsNode(Build(arch, units[i], l, x, in)[k])
  <1> DEFINE u == units[i]
             w == Gemma3Layer(l)
             y == Gemma3Build(u, l, x, in)
  <1>1. Build(arch, u, l, x, in) = y  BY DEF Build
  <1>2. i = 1 \/ i = 2 \/ i = 3 \/ i = 4 \/ i = 5 \/ i = 6 \/ i = 7 \/ i = 8
    <2>1. i \in 1 .. 8  BY Gemma3Plan
    <2>2. QED  BY <2>1
  <1>3. CASE i = 2
    <2>1. u.name = "attn_qkv" /\ (k = 1 \/ k = 2 \/ k = 3)
      <3>1. u.name = "attn_qkv" /\ u.outs = <<"q", "k", "v">>  BY <1>3, Gemma3Plan DEF IsUnit
      <3>2. k \in 1 .. 3  BY <3>1
      <3>3. QED  BY <3>1, <3>2
    <2> DEFINE a == build_linear(w.q, x[1])
               b == build_linear(w.k, x[1])
               c == build_linear(w.v, x[1])
    <2>2. IsNode(a) /\ IsNode(b) /\ IsNode(c)  BY OperationsAreNodes
    <2> HIDE DEF u
    <2>3. y = <<a, b, c>>  BY <2>1 DEF Gemma3Build, build_gqa_projections
    <2> HIDE DEF a, b, c, y
    <2>4. QED  BY <1>1, <2>1, <2>2, <2>3 DEF u
  <1>4. CASE i # 2
    <2>1. k = 1
      <3>1. PICK s : u.outs = <<s>>  BY <1>2, <1>4, Gemma3Plan DEF IsUnit
      <3>2. QED  BY <3>1
    <2>2. \E t : IsNode(t) /\ y = <<t>>
      <3>1. CASE i = 1
        <4>1. u.name = "attn_norm"  BY <3>1, Gemma3Plan DEF IsUnit
        <4> HIDE DEF u
        <4>2. y = <<build_rms_norm(x[1], w.attn_norm)>>  BY <4>1 DEF Gemma3Build
        <4> HIDE DEF y
        <4>3. QED  BY <4>2, OperationsAreNodes
      <3>2. CASE i = 3
        <4>1. u.name = "attn_core"  BY <3>2, Gemma3Plan DEF IsUnit
        <4> HIDE DEF u
        <4>2. y = <<build_gqa_attention_core(x, in, w)>>  BY <4>1 DEF Gemma3Build
        <4>3. IsNode(build_gqa_attention_core(x, in, w))
          BY OperationsAreNodes DEF build_gqa_attention_core
        <4> HIDE DEF y
        <4>4. QED  BY <4>2, <4>3
      <3>3. CASE i = 4
        <4>1. u.name = "attn_post"  BY <3>3, Gemma3Plan DEF IsUnit
        <4> HIDE DEF u
        <4>2. y = <<ggml_add(x[2], build_rms_norm(x[1], w.attn_post_norm))>>  BY <4>1 DEF Gemma3Build
        <4> HIDE DEF y
        <4>3. QED  BY <4>2, OperationsAreNodes
      <3>4. CASE i = 5
        <4>1. u.name = "ffn_norm"  BY <3>4, Gemma3Plan DEF IsUnit
        <4> HIDE DEF u
        <4>2. y = <<build_rms_norm(x[1], w.ffn_norm)>>  BY <4>1 DEF Gemma3Build
        <4> HIDE DEF y
        <4>3. QED  BY <4>2, OperationsAreNodes
      <3>5. CASE i = 6
        <4>1. u.name = "ffn_gate_up"  BY <3>5, Gemma3Plan DEF IsUnit
        <4> HIDE DEF u
        <4>2. y = <<build_gated_ffn_gate_up(x[1], w)>>  BY <4>1 DEF Gemma3Build
        <4>3. IsNode(build_gated_ffn_gate_up(x[1], w))
          BY OperationsAreNodes DEF build_gated_ffn_gate_up
        <4> HIDE DEF y
        <4>4. QED  BY <4>2, <4>3
      <3>6. CASE i = 7
        <4>1. u.name = "ffn_down"  BY <3>6, Gemma3Plan DEF IsUnit
        <4> HIDE DEF u
        <4>2. y = <<build_gated_ffn_down(x[1], w)>>  BY <4>1 DEF Gemma3Build
        <4>3. IsNode(build_gated_ffn_down(x[1], w))
          BY OperationsAreNodes DEF build_gated_ffn_down
        <4> HIDE DEF y
        <4>4. QED  BY <4>2, <4>3
      <3>7. CASE i = 8
        <4>1. u.name = "ffn_post"  BY <3>7, Gemma3Plan DEF IsUnit
        <4> HIDE DEF u
        <4>2. y = <<ggml_add(x[2], build_rms_norm(x[1], w.ffn_post_norm))>>  BY <4>1 DEF Gemma3Build
        <4> HIDE DEF y
        <4>3. QED  BY <4>2, OperationsAreNodes
      <3>8. QED  BY <1>2, <1>4, <3>1, <3>2, <3>3, <3>4, <3>5, <3>6, <3>7
    <2> HIDE DEF y
    <2>3. QED  BY <1>1, <2>1, <2>2
  <1>5. QED  BY <1>3, <1>4

(* What unit u reads of the tensors. *)
Read(tensors, u) == [k \in DOMAIN u.ins |-> tensors[u.ins[k]]]

LEMMA UnitBuilds ==
  ASSUME IsModel, NEW i \in Index(units), NEW l, NEW t, NEW in, NEW k \in DOMAIN units[i].outs
  PROVE  IsNode(Build(arch, units[i], l, Read(t, units[i]), in)[k])
  <1> DEFINE u == units[i]
             x == Read(t, u)
  <1>1. CASE arch = "bert"    BY <1>1, BertBuilds DEF IsModel
  <1>2. CASE arch = "gemma3"  BY <1>2, Gemma3Builds DEF IsModel
  <1>3. CASE arch # "bert" /\ arch # "gemma3"
    <2>1. u.ins \in Seq(Slot)  BY PlanFacts DEF IsModel
    <2>2. Len(x) \in Nat /\ DOMAIN x = 1 .. Len(x) /\ x = [j \in 1 .. Len(x) |-> x[j]]
      <3>1. Len(u.ins) \in Nat /\ DOMAIN u.ins = 1 .. Len(u.ins)  BY <2>1
      <3> HIDE DEF u
      <3>2. x = [j \in 1 .. Len(u.ins) |-> t[u.ins[j]]]  BY <3>1 DEF Read
      <3>3. DOMAIN x = 1 .. Len(u.ins) /\ Len(x) = Len(u.ins)  BY <3>1, <3>2
      <3> HIDE DEF x
      <3>4. QED  BY <3>1, <3>2, <3>3
    <2> HIDE DEF x
    <2> DEFINE first == <<Leaf(u.name, l)>>
    <2>3. first \o x # <<>>
      <3>1. Len(first) = 1 /\ Len(first \o x) = Len(first) + Len(x)  BY <2>2
      <3>2. Len(first \o x) # 0  BY <2>2, <3>1
      <3>3. QED  BY <3>2
    <2>4. Build(arch, u, l, x, in) = [j \in DOMAIN u.outs |-> Node(u.outs[j], first \o x)]
      BY <1>3 DEF Build
    <2> HIDE DEF first, u
    <2>5. Build(arch, u, l, x, in)[k] = Node(u.outs[k], first \o x)  BY <2>4 DEF u
    <2>6. IsNode(Build(arch, u, l, x, in)[k])  BY <2>3, <2>5 DEF IsNode, Node
    <2>7. QED  BY <2>6 DEF u, x
  <1>4. QED  BY <1>1, <1>2, <1>3

-----------------------------------------------------------------------------
(* A unit writes its outputs, which then hold nodes, and nothing else. *)
LEMMA AfterUnitIs ==
  ASSUME IsModel, NEW i \in Index(units), NEW l, NEW t, NEW in
  PROVE  /\ AfterUnit(t, i, l, in) = [s \in Slot |-> AfterUnit(t, i, l, in)[s]]
         /\ \A s \in Slot : s \notin units[i].out => AfterUnit(t, i, l, in)[s] = t[s]
         /\ \A s \in units[i].out : IsNode(AfterUnit(t, i, l, in)[s])
         /\ \A s \in units[i].out :
              AfterUnit(t, i, l, in)[s] = Build(arch, units[i], l, Read(t, units[i]), in)
                                            [CHOOSE k \in DOMAIN units[i].outs : units[i].outs[k] = s]
  <1> DEFINE u == units[i]
             y == Build(arch, u, l, Read(t, u), in)
             At(s) == CHOOSE k \in DOMAIN u.outs : u.outs[k] = s
             a == AfterUnit(t, i, l, in)
  <1>1. u.out = Range(u.outs) /\ u.out \subseteq Slot  BY PlanFacts, UnitSlots DEF IsModel
  <1>2. a = [s \in Slot |-> IF s \in u.out THEN y[At(s)] ELSE t[s]]  BY DEF AfterUnit, Read
  <1>3. ASSUME NEW s \in u.out
        PROVE  At(s) \in DOMAIN u.outs
    <2> HIDE DEF u
    <2>1. \E k \in DOMAIN u.outs : u.outs[k] = s  BY <1>1 DEF Range
    <2>2. QED  BY <2>1
  <1>4. ASSUME NEW s \in u.out
        PROVE  IsNode(y[At(s)])
    <2> DEFINE k == At(s)
    <2>1. k \in DOMAIN u.outs  BY <1>3
    <2> HIDE DEF k
    <2>2. IsNode(y[k])  BY <2>1, UnitBuilds
    <2>3. QED  BY <2>2 DEF k
  <1> HIDE DEF y, u, At, a
  <1>5. a = [s \in Slot |-> a[s]]  BY <1>2
  <1>6. \A s \in Slot : s \notin u.out => a[s] = t[s]  BY <1>2
  <1>7. \A s \in u.out : a[s] = y[At(s)]  BY <1>1, <1>2
  <1>8. \A s \in u.out : IsNode(a[s])  BY <1>4, <1>7
  <1>9. QED  BY <1>5, <1>6, <1>7, <1>8 DEF a, u, y, At

(* What it writes depends on what it reads and on the graph inputs only. *)
LEMMA AfterUnitAgrees ==
  ASSUME IsModel, NEW i \in Index(units), NEW l, NEW t, NEW v, NEW in, NEW ref,
         \A s \in units[i].in : t[s] = v[s],
         \A x : Build(arch, units[i], l, x, in) = Build(arch, units[i], l, x, ref)
  PROVE  \A s \in units[i].out : AfterUnit(t, i, l, in)[s] = AfterUnit(v, i, l, ref)[s]
  <1> DEFINE u == units[i]
  <1>1. Read(t, u) = Read(v, u)
    <2>1. u.in = Range(u.ins)  BY PlanFacts DEF IsModel
    <2>2. \A k \in DOMAIN u.ins : u.ins[k] \in u.in  BY <2>1 DEF Range
    <2>3. \A k \in DOMAIN u.ins : t[u.ins[k]] = v[u.ins[k]]  BY <2>2
    <2> HIDE DEF u
    <2>4. QED  BY <2>3 DEF Read
  <1>2. Build(arch, u, l, Read(t, u), in) = Build(arch, u, l, Read(v, u), ref)
    <2> DEFINE x == Read(t, u)
    <2>1. Read(v, u) = x  BY <1>1
    <2> HIDE DEF x
    <2>2. QED  BY <2>1, <1>1
  <1> HIDE DEF u
  <1>3. QED  BY <1>2, AfterUnitIs DEF u

(* Where a unit of a layer is among those of all layers. *)
Before(l) == (l - 1) * Len(units)

LEMMA Positions ==
  ASSUME IsModel, NEW l \in Nat \ {0}, NEW i \in Index(units)
  PROVE  /\ UnitAt(Before(l) + i) = i /\ LayerAt(Before(l) + i) = l
         /\ Before(l) \in Nat /\ Before(l + 1) = Before(l) + Len(units)
  <1> DEFINE n == Len(units)
  <1>1. n \in Nat \ {0} /\ i \in 1 .. n  BY PlanFacts DEF IsModel
  <1> HIDE DEF n
  <1>2. /\ n * (l - 1) \in Nat
        /\ ((i - 1) + n * (l - 1)) \div n = l - 1
        /\ ((i - 1) + n * (l - 1)) % n = i - 1
    <2>1. l - 1 \in Nat /\ i - 1 \in 0 .. n - 1  BY <1>1
    <2>2. QED  BY <1>1, <2>1, CellOf
  <1>3. Before(l) = n * (l - 1)  BY <1>1 DEF Before, n
  <1>4. (Before(l) + i) - 1 = (i - 1) + n * (l - 1)  BY <1>1, <1>2, <1>3
  <1>5. UnitAt(Before(l) + i) = i  BY <1>1, <1>2, <1>4 DEF UnitAt, n
  <1>6. LayerAt(Before(l) + i) = l  BY <1>2, <1>4 DEF LayerAt, n
  <1>7. Before(l + 1) = Before(l) + n
    <2>1. Before(l + 1) = ((l + 1) - 1) * n  BY DEF Before, n
    <2>2. ((l + 1) - 1) * n = n * (l - 1) + n  BY <1>1
    <2>3. QED  BY <1>3, <2>1, <2>2
  <1>8. QED  BY <1>2, <1>3, <1>5, <1>6, <1>7 DEF n

(* One unit more of layer l. *)
LEMMA LayerStep ==
  ASSUME IsModel, NEW base, NEW in, NEW l \in Nat \ {0}, NEW j \in Nat,
         NEW i \in Index(units), j <= Before(l) + (i - 1)
  PROVE  Built(base, j, Before(l) + i, in)
           = AfterUnit(Built(base, j, Before(l) + (i - 1), in), i, l, in)
  <1> DEFINE k == Before(l) + (i - 1)
  <1>1. UnitAt(Before(l) + i) = i /\ LayerAt(Before(l) + i) = l /\ Before(l) \in Nat
    BY Positions
  <1>2. i \in Nat \ {0}  BY PlanFacts DEF IsModel
  <1>3. k \in Nat /\ k + 1 = Before(l) + i /\ j <= k  BY <1>1, <1>2
  <1> HIDE DEF k
  <1>4. Built(base, j, k + 1, in) = AfterUnit(Built(base, j, k, in), UnitAt(k + 1), LayerAt(k + 1), in)
    BY <1>3, BuiltStep
  <1>5. QED  BY <1>1, <1>3, <1>4 DEF k

(* The group to run next, up to its last unit e. *)
AtGroup(e) ==
  /\ IsModel /\ layer \in Nat \ {0}
  /\ starts \subseteq Index(units) /\ group \in starts
  /\ IsRun(units, starts, group, e)

LEMMA GroupIs ==
  ASSUME NEW e, AtGroup(e)
  PROVE  /\ Len(units) \in Nat \ {0} /\ Index(units) = 1 .. Len(units)
         /\ group \in 1 .. Len(units) /\ e \in 1 .. Len(units) /\ group <= e
         /\ Run = group .. e /\ Max(Run) = e
         /\ Before(layer) \in Nat /\ Before(layer + 1) = Before(layer) + Len(units)
         /\ \A s \in starts : s > group => s > e
         /\ \A i \in Run : i \in Index(units)
         /\ Inputs \subseteq Slot /\ Outputs \subseteq Slot
  <1>1. Len(units) \in Nat \ {0} /\ Index(units) = 1 .. Len(units)
    BY PlanFacts DEF AtGroup, IsModel
  <1>2. group \in 1 .. Len(units) /\ e \in 1 .. Len(units) /\ group <= e
    BY <1>1 DEF AtGroup, IsRun
  <1>3. Run = group .. e /\ Max(Run) = e /\ \A s \in starts : s > group => s > e
    BY DEF AtGroup, IsRun, Run
  <1>4. Before(layer) \in Nat /\ Before(layer + 1) = Before(layer) + Len(units)
    BY <1>1, <1>2, Positions DEF AtGroup
  <1>5. \A i \in group .. e : i \in 1 .. Len(units)  BY <1>1, <1>2
  <1>6. \A i \in Run : units[i].in \subseteq Slot /\ units[i].out \subseteq Slot
    BY <1>1, <1>3, <1>5, UnitSlots DEF AtGroup, IsModel
  <1>7. Inputs \subseteq Slot /\ Outputs \subseteq Slot
    BY <1>6 DEF Inputs, Outputs, GroupInputs, GroupOutputs
  <1>8. QED  BY <1>1, <1>2, <1>3, <1>4, <1>5, <1>7

(* Given the values its inputs have in a run of the units one after the    *)
(* other, a group leaves in the slots it writes the values they have there.*)
SameBuild(i, in, ref) ==
  \A l, x : Build(arch, units[i], l, x, in) = Build(arch, units[i], l, x, ref)

LEMMA GroupBuilds ==
  ASSUME NEW e, AtGroup(e), NEW uploaded, NEW base, NEW ref,
         \A s \in Inputs : uploaded[s] = Built(base, 0, Before(layer) + (group - 1), ref)[s],
         \A i \in Run : SameBuild(i, GraphIn, ref)
  PROVE  /\ \A i \in Run : \A s \in units[i].out :
              /\ SlotTensors(uploaded)[s] = Built(base, 0, Before(layer) + e, ref)[s]
              /\ IsNode(SlotTensors(uploaded)[s])
         /\ \A s \in Slot : (\A i \in Run : s \notin units[i].out) =>
              Built(base, 0, Before(layer) + e, ref)[s]
                = Built(base, 0, Before(layer) + (group - 1), ref)[s]
  <1> DEFINE n == Len(units)
             b == Before(layer)
             g == group - 1
             start == [s \in Slot |-> If(s \in Inputs, uploaded[s])]
             U(m) == Built(start, b + g, b + m, GraphIn)
             T(m) == Built(base, 0, b + m, ref)
  <1>1. /\ n \in Nat \ {0} /\ Index(units) = 1 .. n
        /\ group \in 1 .. n /\ e \in 1 .. n /\ group <= e
        /\ Run = group .. e /\ Max(Run) = e /\ b \in Nat
        /\ Inputs \subseteq Slot
    BY GroupIs
  <1>2. /\ g \in Nat /\ g <= e /\ b + g \in Nat
        /\ \A m \in g + 1 .. e : /\ m \in 1 .. n /\ m \in group .. e
                                 /\ b + g <= b + (m - 1) /\ 0 <= b + (m - 1)
    BY <1>1
  <1>3. IsModel /\ layer \in Nat \ {0}  BY DEF AtGroup
  <1>4. U(g) = start
    <2>1. b + g <= b + g  BY <1>2
    <2> HIDE DEF start, b, g
    <2>2. QED  BY <1>2, <2>1, BuiltStep
  <1>5. ASSUME NEW m \in g + 1 .. e
        PROVE  /\ U(m) = AfterUnit(U(m - 1), m, layer, GraphIn)
               /\ T(m) = AfterUnit(T(m - 1), m, layer, ref)
    <2>1. m \in Index(units) /\ b + g <= Before(layer) + (m - 1) /\ 0 <= Before(layer) + (m - 1)
      BY <1>1, <1>2
    <2>2. U(m) = AfterUnit(U(m - 1), m, layer, GraphIn)
      <3> DEFINE j == b + g
      <3>1. j \in Nat /\ j <= Before(layer) + (m - 1)  BY <1>2, <2>1
      <3> HIDE DEF j, start
      <3>2. Built(start, j, Before(layer) + m, GraphIn)
              = AfterUnit(Built(start, j, Before(layer) + (m - 1), GraphIn), m, layer, GraphIn)
        BY <1>3, <2>1, <3>1, LayerStep
      <3>3. QED  BY <3>2 DEF j
    <2>3. T(m) = AfterUnit(T(m - 1), m, layer, ref)
      <3>1. 0 \in Nat  OBVIOUS
      <3>2. Built(base, 0, Before(layer) + m, ref)
              = AfterUnit(Built(base, 0, Before(layer) + (m - 1), ref), m, layer, ref)
        BY <1>3, <2>1, <3>1, LayerStep
      <3>3. QED  BY <3>2
    <2>4. QED  BY <2>2, <2>3
  <1>6. SlotTensors(uploaded) = U(e)
    <2>1. (layer - 1) * Len(units) + group - 1 = b + g
      <3>1. b = (layer - 1) * Len(units)  BY DEF Before
      <3> HIDE DEF b
      <3>2. b + group - 1 = b + (group - 1)  BY <1>1
      <3>3. QED  BY <3>1, <3>2
    <2>2. (layer - 1) * Len(units) + Max(Run) = b + e  BY <1>1 DEF Before
    <2> HIDE DEF g, b, start
    <2>3. QED  BY <2>1, <2>2 DEF SlotTensors, start
  <1> DEFINE Written(s, m) == \E i \in group .. m : s \in units[i].out
             P(m) == /\ \A s \in Slot : s \in Inputs \/ Written(s, m) => U(m)[s] = T(m)[s]
                     /\ \A s \in Slot : Written(s, m) => IsNode(U(m)[s])
                     /\ \A s \in Slot : ~Written(s, m) => T(m)[s] = T(g)[s]
             A == {k \in 0 .. e - g : P(g + k)}
  <1> HIDE DEF U, T, b
  <1>7. 0 \in A
    <2>1. g + 0 = g /\ 0 \in 0 .. e - g /\ \A i \in group .. g : FALSE  BY <1>1, <1>2
    <2>2. \A s \in Slot : ~Written(s, g)  BY <2>1
    <2>3. \A s \in Inputs : U(g)[s] = T(g)[s]
      <3>1. \A s \in Inputs : uploaded[s] = T(g)[s]  BY DEF T, b
      <3>2. \A s \in Inputs : s \in Slot  BY <1>1
      <3> HIDE DEF g
      <3>3. QED  BY <1>4, <3>1, <3>2 DEF If
    <2> HIDE DEF Written
    <2>4. P(g)  BY <2>2, <2>3
    <2>5. QED  BY <2>1, <2>4
  <1>8. ASSUME NEW k \in 0 .. (e - g) - 1, k \in A
        PROVE  k + 1 \in A
    <2> DEFINE p == g + k
               m == g + (k + 1)
               u == units[m]
    <2>1. /\ m \in g + 1 .. e /\ m \in group .. m /\ m - 1 = p /\ k + 1 \in 0 .. e - g
          /\ \A i \in group .. m : i = m \/ i \in group .. p
          /\ \A i \in group .. p : i \in group .. m /\ i < m /\ i \in group .. e
          /\ \A i \in group .. e : i < m => i \in group .. p
          /\ m \in Index(units) /\ m \in Run
      BY <1>1, <1>2
    <2>2. P(p)  BY <1>8
    <2> HIDE DEF m, p
    <2>3. U(m) = AfterUnit(U(p), m, layer, GraphIn) /\ T(m) = AfterUnit(T(p), m, layer, ref)
      BY <1>5, <2>1
    <2>4. \A s \in Slot : Written(s, m) <=> (Written(s, p) \/ s \in u.out)  BY <2>1
    <2>5. u.in \subseteq Slot /\ u.out \subseteq Slot  BY <1>3, <2>1, UnitSlots DEF IsModel
    <2>6. \A s \in u.in : U(p)[s] = T(p)[s]
      <3>1. ASSUME NEW s \in u.in
            PROVE  s \in Inputs \/ Written(s, p)
        <4>1. CASE WritersBefore(units, Run, m, s) = {}
          BY <2>1, <3>1, <4>1 DEF Inputs, GroupInputs
        <4>2. CASE WritersBefore(units, Run, m, s) # {}
          <5>1. PICK j \in Run : j < m /\ s \in units[j].out  BY <4>2 DEF WritersBefore
          <5>2. j \in group .. p  BY <1>1, <2>1, <5>1
          <5>3. QED  BY <5>1, <5>2
        <4>3. QED  BY <4>1, <4>2
      <3> HIDE DEF Written
      <3>2. QED  BY <2>2, <2>5, <3>1
    <2>7. /\ \A s \in u.out : U(m)[s] = T(m)[s]
          /\ \A s \in u.out : IsNode(U(m)[s])
          /\ \A s \in Slot : s \notin u.out => U(m)[s] = U(p)[s] /\ T(m)[s] = T(p)[s]
      <3>1. \A x : Build(arch, units[m], layer, x, GraphIn) = Build(arch, units[m], layer, x, ref)
        BY <2>1 DEF SameBuild
      <3>2. \A s \in units[m].out : AfterUnit(U(p), m, layer, GraphIn)[s] = AfterUnit(T(p), m, layer, ref)[s]
        <4> DEFINE v == U(p)
                   w == T(p)
        <4>1. \A s \in units[m].in : v[s] = w[s]  BY <2>6
        <4> HIDE DEF v, w
        <4>2. \A s \in units[m].out : AfterUnit(v, m, layer, GraphIn)[s] = AfterUnit(w, m, layer, ref)[s]
          BY <1>3, <2>1, <3>1, <4>1, AfterUnitAgrees
        <4>3. QED  BY <4>2 DEF v, w
      <3>3. \A v, in : /\ \A s \in Slot : s \notin units[m].out => AfterUnit(v, m, layer, in)[s] = v[s]
                       /\ \A s \in units[m].out : IsNode(AfterUnit(v, m, layer, in)[s])
        BY <1>3, <2>1, AfterUnitIs
      <3>4. QED  BY <2>3, <3>2, <3>3
    <2> HIDE DEF Written, u
    <2>8. P(m)
      <3>1. \A s \in Slot : s \in Inputs \/ Written(s, m) => U(m)[s] = T(m)[s]
        BY <2>2, <2>4, <2>7
      <3>2. \A s \in Slot : Written(s, m) => IsNode(U(m)[s])  BY <2>2, <2>4, <2>7
      <3>3. \A s \in Slot : ~Written(s, m) => T(m)[s] = T(g)[s]  BY <2>2, <2>4, <2>7
      <3>4. QED  BY <3>1, <3>2, <3>3
    <2> HIDE DEF P
    <2>9. QED  BY <2>1, <2>8 DEF m
  <1> HIDE DEF A
  <1>9. e - g \in Nat /\ g + (e - g) = e /\ e - g \in 0 .. e - g  BY <1>1, <1>2
  <1>10. 0 .. e - g \subseteq A
    <2> HIDE DEF g
    <2>1. QED  BY <1>7, <1>8, <1>9, Induction
  <1>11. P(e)
    <2> HIDE DEF P
    <2>1. QED  BY <1>9, <1>10 DEF A
  <1>12. ASSUME NEW i \in Run, NEW s \in units[i].out
         PROVE  U(e)[s] = T(e)[s] /\ IsNode(U(e)[s])
    <2>1. Written(s, e)  BY <1>1
    <2>2. s \in Slot
      <3>1. i \in Index(units)  BY GroupIs
      <3>2. QED  BY <1>3, <3>1, UnitSlots DEF IsModel
    <2> HIDE DEF Written
    <2>3. QED  BY <1>11, <2>1, <2>2
  <1>13. ASSUME NEW s \in Slot, \A i \in Run : s \notin units[i].out
         PROVE  T(e)[s] = T(g)[s]
    <2>1. ~Written(s, e)  BY <1>1, <1>13
    <2> HIDE DEF Written
    <2>2. QED  BY <1>11, <2>1
  <1>14. QED  BY <1>6, <1>12, <1>13 DEF T, b

-----------------------------------------------------------------------------
(* The graph inputs of the eager embedder for the sub-batch. *)
EagerIn ==
  IF Packed(arch, batch) THEN PackedInputs(arch, begun) ELSE PaddedInputs(arch, batch, begun)

LEMMA ArchInputs ==
  /\ arch_inputs("bert") = {"learned_pos", "type_ids", "kq_mask"}
  /\ arch_inputs("gemma3") = {"rope_pos", "kq_mask", "seq_lengths", "packed"}
  /\ \A a : a # "bert" /\ a # "gemma3" => arch_inputs(a) = {}
  BY DEF arch_inputs

(* One decision for the sub-batch: as the eager embedder's. *)
LEMMA PackedAlike == PackedStream(batch) <=> Packed(arch, batch)
  <1>1. CASE arch = "bert"
    BY <1>1, ArchInputs DEF PackedStream, PerSentence, Packed
  <1>2. CASE arch = "gemma3"
    BY <1>2, ArchInputs DEF PackedStream, PerSentence, Packed
  <1>3. CASE arch # "bert" /\ arch # "gemma3"
    <2>1. arch_inputs(arch) = {}  BY <1>3, ArchInputs
    <2>2. QED  BY <2>1 DEF PackedStream, PerSentence, Packed
  <1>4. QED  BY <1>1, <1>2, <1>3

(* A group is given the graph inputs its members need, and those as the    *)
(* eager embedder sets them.                                               *)
LEMMA InputsAlikeBert ==
  ASSUME IsModel, arch = "bert", \A i \in Run : i \in Index(units), NEW i \in Run
  PROVE  SameBuild(i, GraphIn, EagerIn)
  <1>1. /\ i \in 1 .. 4 /\ arch_inputs(arch) = {"learned_pos", "type_ids", "kq_mask"}
        /\ IsPlan(units) /\ PlanOf(units, BertUnits)
    BY ArchInputs, BertPlan DEF IsModel
  <1>2. i = 1 \/ i = 2 \/ i = 3 \/ i = 4  BY <1>1
  <1> DEFINE u == units[i]
  <1>3. \A l, x, in : Build(arch, u, l, x, in) = BertBuild(u, l, x, in)  BY DEF Build
  <1>4. CASE i = 2
    <2>1. u.name = "attn_out" /\ "kq_mask" \in u.needs  BY <1>1, <1>4, BertPlan DEF IsUnit
    <2>2. GraphIn.kq_mask = EagerIn.kq_mask
      <3> DEFINE needs == UNION {units[j].needs : j \in Run}
      <3>1. "kq_mask" \in needs  BY <2>1
      <3>2. ~PerSentence(batch)  BY <1>1 DEF PerSentence
      <3> HIDE DEF needs
      <3>3. GraphIn.kq_mask = If(batch.padded, Leaf("attention_mask", begun))
        BY <3>1, <3>2 DEF GraphIn, needs, If
      <3>4. ~Packed(arch, batch)  BY <1>1 DEF Packed
      <3>5. EagerIn.kq_mask = If(batch.padded, Leaf("attention_mask", begun))
        BY <1>1, <3>4 DEF EagerIn, PaddedInputs, If
      <3>6. QED  BY <3>3, <3>5
    <2> HIDE DEF u
    <2>3. \A l, x, in : BertBuild(u, l, x, in)
            = <<build_attention_output(SubSeq(x, 1, 3), x[4], in.kq_mask, BertLayer(l))>>
      BY <2>1 DEF BertBuild
    <2>4. QED  BY <1>3, <2>2, <2>3 DEF u, SameBuild
  <1>5. CASE i = 1
    <2>1. u.name = "attn_qkv"  BY <1>1, <1>5, BertPlan DEF IsUnit
    <2> HIDE DEF u
    <2>2. QED  BY <1>3, <2>1 DEF u, SameBuild, BertBuild
  <1>6. CASE i = 3
    <2>1. u.name = "ffn_up"  BY <1>1, <1>6, BertPlan DEF IsUnit
    <2> HIDE DEF u
    <2>2. QED  BY <1>3, <2>1 DEF u, SameBuild, BertBuild
  <1>7. CASE i = 4
    <2>1. u.name = "ffn_down"  BY <1>1, <1>7, BertPlan DEF IsUnit
    <2> HIDE DEF u
    <2>2. QED  BY <1>3, <2>1 DEF u, SameBuild, BertBuild
  <1>8. QED  BY <1>2, <1>4, <1>5, <1>6, <1>7

LEMMA InputsAlikeGemma3 ==
  ASSUME IsModel, arch = "gemma3", \A i \in Run : i \in Index(units), NEW i \in Run
  PROVE  SameBuild(i, GraphIn, EagerIn)
  <1>1. /\ i \in 1 .. 8 /\ arch_inputs(arch) = {"rope_pos", "kq_mask", "seq_lengths", "packed"}
        /\ IsPlan(units) /\ PlanOf(units, Gemma3Units)
    BY ArchInputs, Gemma3Plan DEF IsModel
  <1>2. i = 1 \/ i = 2 \/ i = 3 \/ i = 4 \/ i = 5 \/ i = 6 \/ i = 7 \/ i = 8  BY <1>1
  <1> DEFINE u == units[i]
  <1>3. \A l, x, in : Build(arch, u, l, x, in) = Gemma3Build(u, l, x, in)  BY DEF Build
  <1>4. CASE i = 3
    <2>1. /\ u.name = "attn_core"
          /\ u.needs = {"rope_pos", "kq_mask", "seq_lengths", "packed"}
      BY <1>1, <1>4, Gemma3Plan DEF IsUnit
    <2> DEFINE needs == UNION {units[j].needs : j \in Run}
               packed == Packed(arch, batch)
               mask == batch.padded /\ ~packed
    <2>2. "rope_pos" \in needs /\ "kq_mask" \in needs /\ "seq_lengths" \in needs  BY <2>1
    <2>3. (PerSentence(batch) <=> packed) /\ (PackedStream(batch) <=> packed)
      BY <1>1 DEF PerSentence, PackedStream, Packed
    <2>4. packed <=> batch.padded /\ batch.layout # "padded"  BY <1>1 DEF Packed
    <2> HIDE DEF packed, needs, u
    <2>5. /\ GraphIn.rope_pos_ids = Leaf(IF packed THEN "packed_positions" ELSE "rope_positions", begun)
          /\ GraphIn.seq_lengths = If(packed, Leaf("lengths", begun))
          /\ GraphIn.seq_offsets = If(packed, Leaf("offsets", begun))
          /\ GraphIn.kq_mask = If(mask, Leaf("attention_mask", begun))
      <3>1. GraphIn.rope_pos_ids = Leaf(IF packed THEN "packed_positions" ELSE "rope_positions", begun)
        BY <2>2, <2>3 DEF GraphIn, needs, If
      <3>2. GraphIn.seq_lengths = If(packed, Leaf("lengths", begun))
        BY <2>2, <2>3 DEF GraphIn, needs, If
      <3>3. GraphIn.seq_offsets = If(packed, Leaf("offsets", begun))
        BY <2>3 DEF GraphIn, If
      <3>4. GraphIn.kq_mask = If(mask, Leaf("attention_mask", begun))
        BY <2>2, <2>3 DEF GraphIn, needs, If
      <3>5. QED  BY <3>1, <3>2, <3>3, <3>4
    <2> DEFINE Alike == /\ GraphIn.rope_pos_ids = EagerIn.rope_pos_ids
                        /\ GraphIn.seq_lengths = EagerIn.seq_lengths
                        /\ GraphIn.seq_offsets = EagerIn.seq_offsets
                        /\ GraphIn.kq_mask = EagerIn.kq_mask
    <2>6. ASSUME packed
          PROVE  Alike
      <3>1. EagerIn = PackedInputs(arch, begun)  BY <2>6 DEF EagerIn, packed
      <3>2. /\ EagerIn.rope_pos_ids = Leaf("packed_positions", begun)
            /\ EagerIn.seq_lengths = Leaf("lengths", begun)
            /\ EagerIn.seq_offsets = Leaf("offsets", begun)
            /\ EagerIn.kq_mask = Null
        BY <1>1, <3>1 DEF PackedInputs, If
      <3>3. QED  BY <2>5, <2>6, <3>2 DEF If
    <2>7. ASSUME ~packed
          PROVE  Alike
      <3>1. EagerIn = PaddedInputs(arch, batch, begun)  BY <2>7 DEF EagerIn, packed
      <3>2. ~(batch.padded /\ batch.layout # "padded")  BY <2>4, <2>7
      <3>3. /\ EagerIn.rope_pos_ids = Leaf("rope_positions", begun)
            /\ EagerIn.seq_lengths = Null
            /\ EagerIn.seq_offsets = Null
            /\ EagerIn.kq_mask = If(batch.padded, Leaf("attention_mask", begun))
        BY <1>1, <3>1, <3>2 DEF PaddedInputs, If
      <3>4. QED  BY <2>5, <2>7, <3>3 DEF If
    <2>8. Alike  BY <2>6, <2>7
    <2>9. \A l, x, in : Gemma3Build(u, l, x, in) = <<build_gqa_attention_core(x, in, Gemma3Layer(l))>>
      BY <2>1 DEF Gemma3Build, u
    <2>10. \A x, w : build_gqa_attention_core(x, GraphIn, w) = build_gqa_attention_core(x, EagerIn, w)
      BY <2>8 DEF build_gqa_attention_core
    <2>11. QED  BY <1>3, <2>9, <2>10 DEF u, SameBuild
  <1>5. CASE i # 3
    <2>1. u.name \in {"attn_norm", "attn_qkv", "attn_post", "ffn_norm", "ffn_gate_up",
                      "ffn_down", "ffn_post"}
      BY <1>1, <1>2, <1>5, Gemma3Plan DEF IsUnit
    <2> HIDE DEF u
    <2>2. \A l, x, in, ref : Gemma3Build(u, l, x, in) = Gemma3Build(u, l, x, ref)
      <3>1. CASE u.name = "attn_norm"    BY <3>1 DEF Gemma3Build
      <3>2. CASE u.name = "attn_qkv"     BY <3>2 DEF Gemma3Build
      <3>3. CASE u.name = "attn_post"    BY <3>3 DEF Gemma3Build
      <3>4. CASE u.name = "ffn_norm"     BY <3>4 DEF Gemma3Build
      <3>5. CASE u.name = "ffn_gate_up"  BY <3>5 DEF Gemma3Build
      <3>6. CASE u.name = "ffn_down"     BY <3>6 DEF Gemma3Build
      <3>7. CASE u.name = "ffn_post"     BY <3>7 DEF Gemma3Build
      <3>8. QED  BY <2>1, <3>1, <3>2, <3>3, <3>4, <3>5, <3>6, <3>7
    <2>3. QED  BY <1>3, <2>2 DEF u, SameBuild
  <1>6. QED  BY <1>4, <1>5

LEMMA InputsAlike ==
  ASSUME IsModel, \A i \in Run : i \in Index(units), NEW i \in Run
  PROVE  SameBuild(i, GraphIn, EagerIn)
  <1>1. CASE arch = "bert"    BY <1>1, InputsAlikeBert
  <1>2. CASE arch = "gemma3"  BY <1>2, InputsAlikeGemma3
  <1>3. CASE arch # "bert" /\ arch # "gemma3"  BY <1>3 DEF SameBuild, Build
  <1>4. QED  BY <1>1, <1>2, <1>3

-----------------------------------------------------------------------------
(* What the slots hold between groups.  The embedding phase leaves Entry;  *)
(* LiveAt says which slots the units after unit e of a layer still read.   *)
Entry == [s \in Slot |-> If(s = Residual, build_embedding_phase(arch, EmbeddingIn(batch, begun)))]

UpTo(l, e) == Built(Entry, 0, Before(l) + e, EagerIn)

LiveAt(s, e) ==
  s = Residual \/ \E j \in 1 .. e, k \in e + 1 .. Len(units) :
                    s \in units[j].out /\ s \in units[k].in

Holds(slots, l, e) ==
  \A s \in Slot : LiveAt(s, e) => slots[s] # Null /\ slots[s] = UpTo(l, e)[s]

(* Unit i reads slot s that neither an earlier unit nor the layer before   *)
(* leaves.                                                                 *)
Missing(i, s) == s \in units[i].in /\ s # Residual /\ \A j \in 1 .. i - 1 : s \notin units[j].out

LEMMA WellFormedIs ==
  ASSUME IsModel
  PROVE  WellFormed <=> \A i \in Index(units) : \A s \in units[i].in : ~Missing(i, s)
  BY DEF WellFormed, Missing

(* In a well formed plan a group finds its inputs in the slots. *)
LEMMA InputsAreLive ==
  ASSUME NEW e, AtGroup(e), WellFormed
  PROVE  \A s \in Inputs : LiveAt(s, group - 1)
  <1> DEFINE n == Len(units)
  <1>1. /\ n \in Nat \ {0} /\ Index(units) = 1 .. n
        /\ group \in 1 .. n /\ e \in 1 .. n /\ Run = group .. e
    BY GroupIs
  <1>2. SUFFICES ASSUME NEW i \in Run, NEW s \in units[i].in, WritersBefore(units, Run, i, s) = {},
                        s # Residual
                 PROVE  LiveAt(s, group - 1)
    BY DEF Inputs, GroupInputs, LiveAt
  <1>3. i \in 1 .. n /\ i \in (group - 1) + 1 .. n  BY <1>1
  <1>4. PICK j \in 1 .. i - 1 : s \in units[j].out  BY <1>1, <1>2, <1>3 DEF WellFormed
  <1>5. ~(j \in Run)
    <2>1. j < i  BY <1>1, <1>3
    <2>2. QED  BY <1>2, <1>4, <2>1 DEF WritersBefore
  <1>6. j \in 1 .. group - 1  BY <1>1, <1>3, <1>5
  <1>7. QED  BY <1>2, <1>3, <1>4, <1>6 DEF LiveAt

LEMMA GroupRunnable ==
  ASSUME NEW e, AtGroup(e), WellFormed, Holds(store, layer, group - 1)
  PROVE  Runnable
  <1>1. \A s \in Inputs : s \in Slot /\ store[s] # Null
    BY InputsAreLive, GroupIs DEF Holds
  <1>2. ASSUME NEW i \in Run, NEW s \in units[i].in, s \notin Inputs
        PROVE  WritersBefore(units, Run, i, s) # {}
    BY <1>2 DEF Inputs, GroupInputs
  <1>3. QED  BY <1>1, <1>2 DEF Runnable

(* What its outputs are drained to is what the units after it read. *)
LEMMA GroupHolds ==
  ASSUME NEW e, AtGroup(e), WellFormed, Holds(store, layer, group - 1)
  PROVE  Holds(Drained(Outputs), layer, e)
  <1> DEFINE n == Len(units)
             new == SlotTensors(store)
  <1>1. /\ n \in Nat \ {0} /\ Index(units) = 1 .. n
        /\ group \in 1 .. n /\ e \in 1 .. n /\ group <= e /\ Run = group .. e
        /\ \A i \in Run : i \in Index(units)
        /\ Inputs \subseteq Slot /\ IsModel
    BY GroupIs DEF AtGroup
  <1>2. \A s \in Inputs : store[s] = UpTo(layer, group - 1)[s]
    BY <1>1, InputsAreLive DEF Holds
  <1>3. \A i \in Run : SameBuild(i, GraphIn, EagerIn)  BY <1>1, InputsAlike
  <1>4. /\ \A i \in Run : \A s \in units[i].out : new[s] = UpTo(layer, e)[s] /\ IsNode(new[s])
        /\ \A s \in Slot : (\A i \in Run : s \notin units[i].out) =>
             UpTo(layer, e)[s] = UpTo(layer, group - 1)[s]
    BY <1>2, <1>3, GroupBuilds DEF UpTo
  <1>5. ASSUME NEW s \in Slot, LiveAt(s, e), \E i \in Run : s \in units[i].out
        PROVE  s \in Outputs
    <2>1. CASE s = Residual  BY <1>5, <2>1 DEF Outputs, GroupOutputs
    <2>2. CASE s # Residual
      <3>1. PICK k \in e + 1 .. n : s \in units[k].in  BY <1>5, <2>2 DEF LiveAt
      <3>2. k \in Index(units) /\ \A i \in Run : k > i  BY <1>1
      <3>3. QED  BY <1>5, <3>1, <3>2 DEF Outputs, GroupOutputs
    <2>3. QED  BY <2>1, <2>2
  <1>6. ASSUME NEW s \in Slot, LiveAt(s, e), \A i \in Run : s \notin units[i].out
        PROVE  LiveAt(s, group - 1) /\ s \notin Outputs
    <2>1. s \notin Outputs  BY <1>6 DEF Outputs, GroupOutputs
    <2>2. CASE s = Residual  BY <2>1, <2>2 DEF LiveAt
    <2>3. CASE s # Residual
      <3>1. PICK j \in 1 .. e, k \in e + 1 .. n : s \in units[j].out /\ s \in units[k].in
        BY <1>6, <2>3 DEF LiveAt
      <3>2. j \notin Run  BY <1>6, <3>1
      <3>3. j \in 1 .. group - 1 /\ k \in (group - 1) + 1 .. n  BY <1>1, <3>2
      <3>4. QED  BY <2>1, <3>1, <3>3 DEF LiveAt
    <2>4. QED  BY <2>2, <2>3
  <1> HIDE DEF new
  <1>7. ASSUME NEW s \in Slot, LiveAt(s, e)
        PROVE  Drained(Outputs)[s] # Null /\ Drained(Outputs)[s] = UpTo(layer, e)[s]
    <2>1. Drained(Outputs)[s] = IF s \in Outputs THEN new[s] ELSE store[s]  BY DEF Drained, new
    <2>2. CASE \E i \in Run : s \in units[i].out
      <3>1. s \in Outputs  BY <1>5, <1>7, <2>2
      <3>2. new[s] = UpTo(layer, e)[s] /\ new[s] # Null  BY <1>4, <2>2, NodeIsNotNull
      <3>3. QED  BY <2>1, <3>1, <3>2
    <2>3. CASE \A i \in Run : s \notin units[i].out
      <3>1. LiveAt(s, group - 1) /\ s \notin Outputs  BY <1>6, <1>7, <2>3
      <3>2. store[s] # Null /\ store[s] = UpTo(layer, group - 1)[s]  BY <3>1 DEF Holds
      <3>3. UpTo(layer, e)[s] = UpTo(layer, group - 1)[s]  BY <1>4, <2>3
      <3>4. QED  BY <2>1, <3>1, <3>2, <3>3
    <2>4. QED  BY <2>2, <2>3
  <1>8. QED  BY <1>7 DEF Holds

(* After its last unit a layer leaves what the next finds. *)
LEMMA LayerHolds ==
  ASSUME IsModel, NEW l \in Nat \ {0}, NEW slots, Holds(slots, l, Len(units))
  PROVE  Holds(slots, l + 1, 0)
  <1> DEFINE n == Len(units)
  <1>1. n \in Nat \ {0} /\ n \in Index(units)  BY PlanFacts DEF IsModel
  <1>2. Before(l) \in Nat /\ Before(l + 1) = Before(l) + n  BY <1>1, Positions
  <1>3. UpTo(l + 1, 0) = UpTo(l, n)
    <2>1. Before(l + 1) + 0 = Before(l) + n  BY <1>1, <1>2
    <2> HIDE DEF n
    <2>2. QED  BY <2>1 DEF UpTo
  <1>4. ASSUME NEW s, LiveAt(s, 0)
        PROVE  s = Residual /\ LiveAt(s, n)
    BY <1>4 DEF LiveAt
  <1>5. QED  BY <1>3, <1>4 DEF Holds

(* A sub-batch begins with nothing but its embedding. *)
LEMMA EntryHolds ==
  ASSUME IsModel
  PROVE  Holds(Entry, 1, 0)
  <1> DEFINE x == build_embedding_phase(arch, EmbeddingIn(batch, begun))
  <1>1. UpTo(1, 0) = Entry
    <2>1. Before(1) + 0 = 0
      <3>1. Len(units) \in Nat  BY PlanFacts DEF IsModel
      <3>2. QED  BY <3>1 DEF Before
    <2>2. 0 \in Nat /\ 0 <= 0  OBVIOUS
    <2>3. QED  BY <2>1, <2>2, BuiltStep DEF UpTo
  <1>2. x # Null
    <2>1. CASE arch = "bert"
      <3>1. x = build_embed_layer(EmbeddingIn(batch, begun), BertEmbed)
        BY <2>1 DEF build_embedding_phase
      <3>2. IsNode(x)  BY <3>1, OperationsAreNodes DEF build_embed_layer
      <3>3. QED  BY <3>2, NodeIsNotNull
    <2>2. CASE arch = "gemma3"
      <3>1. x = build_embeddings(EmbeddingIn(batch, begun))
        BY <2>2 DEF build_embedding_phase
      <3>2. IsNode(x)  BY <3>1, OperationsAreNodes DEF build_embeddings
      <3>3. QED  BY <3>2, NodeIsNotNull
    <2>3. CASE arch # "bert" /\ arch # "gemma3"
      <3>1. x = EmbeddingIn(batch, begun).token_ids  BY <2>3 DEF build_embedding_phase
      <3>2. x = Leaf(IF PackedStream(batch) THEN "packed_token_ids" ELSE "token_ids", begun)
        BY <3>1 DEF EmbeddingIn
      <3>3. QED  BY <3>2 DEF Leaf, Null
    <2>4. QED  BY <2>1, <2>2, <2>3
  <1>3. ASSUME NEW s \in Slot, LiveAt(s, 0)
        PROVE  Entry[s] # Null
    <2>1. s = Residual  BY <1>3 DEF LiveAt
    <2> HIDE DEF x
    <2>2. Entry[s] = x  BY <2>1 DEF Entry, If, x
    <2>3. QED  BY <1>2, <2>2
  <1>4. QED  BY <1>1, <1>3 DEF Holds

-----------------------------------------------------------------------------
(* The inductive invariant, but for the vector.  Where a slot is missing,  *)
(* the sub-batch never comes past the group that reads it.                 *)
GroupTypes ==
  /\ model \in Models /\ preset \in Presets /\ starts = Starts(units, preset)
  /\ layer \in 1 .. Layers + 1 /\ group \in starts
  /\ layer > Layers => group = 1

SlotsAreHeld == status = "running" /\ WellFormed => Holds(store, layer, group - 1)

StoredIsWritten ==
  status = "running" /\ layer = 1 =>
    \A s \in Slot : s # Residual /\ store[s] # Null =>
      \E j \in 1 .. group - 1 : s \in units[j].out

MissingIsAhead ==
  status = "running" =>
    \A i \in Index(units) : \A s \in units[i].in : Missing(i, s) => layer = 1 /\ group <= i

VectorIsLast == status # "ready" => vector = Null

SlotInv == GroupTypes /\ SlotsAreHeld /\ StoredIsWritten /\ MissingIsAhead /\ VectorIsLast

LEMMA ModelIs ==
  ASSUME GroupTypes
  PROVE  /\ IsModel /\ Len(units) \in Nat \ {0} /\ Index(units) = 1 .. Len(units)
         /\ Layers \in Nat \ {0} /\ layer \in Nat \ {0}
         /\ starts \in SUBSET Index(units) /\ 1 \in starts
         /\ \E e \in Index(units) : AtGroup(e)
  <1>1. IsModel  BY ModelAssumption DEF GroupTypes, IsModel, arch, units
  <1>2. Len(units) \in Nat \ {0} /\ Index(units) = 1 .. Len(units)
    BY <1>1, PlanFacts DEF IsModel
  <1>3. Layers \in Nat \ {0} /\ layer \in Nat \ {0}  BY BoundAssumption DEF GroupTypes
  <1>4. starts \in SUBSET Index(units) /\ 1 \in starts
    BY <1>1, StartsAreIndexes DEF GroupTypes, IsModel
  <1>5. PICK e \in Index(units) : IsRun(units, starts, group, e)
    BY <1>1, <1>4, RunIsInterval DEF GroupTypes, IsModel
  <1>6. AtGroup(e)  BY <1>1, <1>3, <1>4, <1>5 DEF AtGroup, GroupTypes
  <1>7. QED  BY <1>1, <1>2, <1>3, <1>4, <1>5, <1>6

(* What the terms depend on. *)
LEMMA TermsAreKept ==
  ASSUME model' = model, batch' = batch, begun' = begun
  PROVE  /\ \A s, l, e : Holds(s, l, e)' = Holds(s, l, e)
         /\ WellFormed' = WellFormed /\ units' = units
         /\ \A i, s : Missing(i, s)' = Missing(i, s)
  <1>1. arch' = arch /\ units' = units  BY DEF arch, units
  <1>2. \A base, j, k, in : Built(base, j, k, in)' = Built(base, j, k, in)
    BY <1>1 DEF Built, AfterUnit, UnitAt, LayerAt
  <1>3. \A l : Before(l)' = Before(l)  BY <1>1 DEF Before
  <1>4. EagerIn' = EagerIn  BY <1>1 DEF EagerIn
  <1>5. Entry' = Entry  BY <1>1 DEF Entry, EmbeddingIn, PackedStream, PerSentence
  <1>6. \A l, e : UpTo(l, e)' = UpTo(l, e)  BY <1>2, <1>3, <1>4, <1>5 DEF UpTo
  <1>7. \A s, e : LiveAt(s, e)' = LiveAt(s, e)  BY <1>1 DEF LiveAt
  <1>8. \A s, l, e : Holds(s, l, e)' = Holds(s, l, e)  BY <1>6, <1>7 DEF Holds
  <1>9. WellFormed' = WellFormed  BY <1>1 DEF WellFormed
  <1>10. \A i, s : Missing(i, s)' = Missing(i, s)  BY <1>1 DEF Missing
  <1>11. QED  BY <1>1, <1>8, <1>9, <1>10

(* A group that reads a missing slot cannot run. *)
LEMMA MissingBlocks ==
  ASSUME NEW e, AtGroup(e), StoredIsWritten, status = "running", Runnable,
         NEW i \in Index(units), NEW s \in units[i].in, Missing(i, s), layer = 1, group <= i
  PROVE  i > e
  <1>1. /\ Len(units) \in Nat /\ Index(units) = 1 .. Len(units)
        /\ group \in 1 .. Len(units) /\ e \in 1 .. Len(units) /\ Run = group .. e
    BY GroupIs
  <1>2. SUFFICES ASSUME ~(i > e) PROVE FALSE  OBVIOUS
  <1>3. i \in Run  BY <1>1, <1>2
  <1>4. WritersBefore(units, Run, i, s) = {}
    <2>1. \A j \in Run : j < i => j \in 1 .. i - 1  BY <1>1, <1>3
    <2>2. QED  BY <2>1 DEF WritersBefore, Missing
  <1>5. s \in Inputs  BY <1>3, <1>4 DEF Inputs, GroupInputs
  <1>6. store[s] # Null /\ s \in Slot /\ s # Residual  BY <1>5, GroupIs DEF Runnable, Missing
  <1>7. PICK j \in 1 .. group - 1 : s \in units[j].out  BY <1>6 DEF StoredIsWritten
  <1>8. j \in 1 .. i - 1  BY <1>1, <1>7
  <1>9. QED  BY <1>7, <1>8 DEF Missing

LEMMA RunGroupKeeps ==
  ASSUME SlotInv, RunGroup
  PROVE  SlotInv'
  <1>1. PICK e \in Index(units) : AtGroup(e)  BY ModelIs DEF SlotInv
  <1>2. /\ Len(units) \in Nat \ {0} /\ Index(units) = 1 .. Len(units)
        /\ Layers \in Nat \ {0} /\ layer \in Nat \ {0} /\ IsModel /\ 1 \in starts
    BY ModelIs DEF SlotInv
  <1>3. /\ group \in 1 .. Len(units) /\ e \in 1 .. Len(units) /\ Run = group .. e
        /\ Outputs \subseteq Slot
    BY <1>1, GroupIs
  <1>4. /\ status = "running" /\ layer <= Layers /\ Runnable /\ store' = Drained(Outputs)
        /\ model' = model /\ preset' = preset /\ starts' = starts /\ status' = status
        /\ begun' = begun /\ batch' = batch /\ vector' = vector
    BY DEF RunGroup
  <1>5. /\ GroupTypes /\ SlotsAreHeld /\ StoredIsWritten /\ MissingIsAhead /\ VectorIsLast
    BY DEF SlotInv
  <1>6. /\ \A s, l, d : Holds(s, l, d)' = Holds(s, l, d)
        /\ WellFormed' = WellFormed /\ units' = units
        /\ \A i, s : Missing(i, s)' = Missing(i, s)
    BY <1>4, TermsAreKept
  <1>7. WellFormed => Holds(store', layer, e)
    BY <1>1, <1>4, <1>5, GroupHolds DEF SlotsAreHeld
  <1>8. \A i \in Index(units) : \A s \in units[i].in : Missing(i, s) => layer = 1 /\ i > e
    BY <1>1, <1>4, <1>5, MissingBlocks DEF MissingIsAhead
  <1>9. ASSUME NEW s \in Slot, layer = 1, s # Residual, store'[s] # Null
        PROVE  \E j \in 1 .. e : s \in units[j].out
    <2>1. CASE s \in Outputs
      <3>1. PICK j \in Run : s \in units[j].out  BY <2>1 DEF Outputs, GroupOutputs
      <3>2. j \in 1 .. e  BY <1>3
      <3>3. QED  BY <3>1, <3>2
    <2>2. CASE s \notin Outputs
      <3>1. store'[s] = store[s]  BY <1>4, <2>2 DEF Drained
      <3>2. PICK j \in 1 .. group - 1 : s \in units[j].out
        BY <1>4, <1>5, <1>9, <3>1 DEF StoredIsWritten
      <3>3. j \in 1 .. e
        <4>1. group <= e  BY <1>1, GroupIs
        <4>2. QED  BY <1>3, <4>1
      <3>4. QED  BY <3>2, <3>3
    <2>3. QED  BY <2>1, <2>2
  <1>10. VectorIsLast'  BY <1>4, <1>5 DEF VectorIsLast
  <1>11. units' = units /\ Index(units)' = Index(units)  BY <1>6 DEF Index
  <1>12. CASE \E s \in starts : s > group
    <2>1. group' = e + 1 /\ e + 1 \in starts /\ layer' = layer
      <3>1. group' = Min({s \in starts : s > group}) /\ layer' = layer  BY <1>12 DEF RunGroup
      <3>2. QED  BY <1>1, <1>12, <3>1 DEF AtGroup, IsRun
    <2>2. (e + 1) - 1 = e  BY <1>3
    <2>3. GroupTypes'
      <3>1. layer' <= Layers /\ layer' \in Nat  BY <1>2, <1>4, <2>1
      <3>2. QED  BY <1>2, <1>4, <1>5, <1>6, <2>1, <3>1 DEF GroupTypes
    <2>4. SlotsAreHeld'
      <3>1. WellFormed => Holds(store', layer', group' - 1)  BY <1>7, <2>1, <2>2
      <3>2. QED  BY <1>6, <3>1 DEF SlotsAreHeld
    <2>5. StoredIsWritten'  BY <1>6, <1>9, <2>1, <2>2 DEF StoredIsWritten
    <2>6. MissingIsAhead'
      <3>1. \A i \in Index(units) : i > e => e + 1 <= i  BY <1>2, <1>3
      <3>2. QED  BY <1>6, <1>8, <1>11, <2>1, <3>1 DEF MissingIsAhead
    <2>7. QED  BY <1>10, <2>3, <2>4, <2>5, <2>6 DEF SlotInv
  <1>13. CASE ~(\E s \in starts : s > group)
    <2>1. group' = 1 /\ layer' = layer + 1 /\ e = Len(units)
      <3>1. group' = 1 /\ layer' = layer + 1  BY <1>13 DEF RunGroup
      <3>2. QED  BY <1>1, <1>13, <3>1 DEF AtGroup, IsRun
    <2>2. GroupTypes'
      <3>1. layer' \in 1 .. Layers + 1  BY <1>2, <1>4, <2>1
      <3>2. QED  BY <1>2, <1>4, <1>5, <1>6, <2>1, <3>1 DEF GroupTypes
    <2>3. SlotsAreHeld'
      <3>1. WellFormed => Holds(store', layer + 1, 0)  BY <1>2, <1>7, <2>1, LayerHolds
      <3>2. WellFormed => Holds(store', layer', group' - 1)  BY <2>1, <3>1
      <3>3. QED  BY <1>6, <3>2 DEF SlotsAreHeld
    <2>4. StoredIsWritten'
      <3>1. layer' # 1  BY <1>2, <2>1
      <3>2. QED  BY <3>1 DEF StoredIsWritten
    <2>5. MissingIsAhead'
      <3>1. \A i \in Index(units) : ~(i > e)  BY <1>2, <1>3, <2>1
      <3>2. QED  BY <1>6, <1>8, <1>11, <3>1 DEF MissingIsAhead
    <2>6. QED  BY <1>10, <2>2, <2>3, <2>4, <2>5 DEF SlotInv
  <1>14. QED  BY <1>12, <1>13

LEMMA BeginKeeps ==
  ASSUME SlotInv, BeginSubBatch
  PROVE  SlotInv'
  <1>1. /\ model' = model /\ preset' = preset /\ starts' = starts
        /\ layer' = 1 /\ group' = 1 /\ vector' = Null /\ status' = "running"
        /\ store' = [s \in Slot |-> If(s = Residual,
                                       build_embedding_phase(arch, EmbeddingIn(batch', begun')))]
    BY DEF BeginSubBatch
  <1>2. arch' = arch /\ units' = units  BY <1>1 DEF arch, units
  <1>3. store' = Entry'
    BY <1>1, <1>2 DEF Entry, EmbeddingIn, PackedStream, PerSentence
  <1>4. GroupTypes'
    <2>1. 1 \in starts /\ Layers \in Nat \ {0}  BY ModelIs DEF SlotInv
    <2>2. 1 \in 1 .. Layers + 1  BY <2>1
    <2>3. QED  BY <1>1, <1>2, <2>1, <2>2 DEF SlotInv, GroupTypes
  <1>5. IsModel'
    <2>1. IsModel  BY ModelIs DEF SlotInv
    <2>2. QED  BY <1>2, <2>1 DEF IsModel
  <1>6. SlotsAreHeld'
    <2>1. Holds(Entry, 1, 0)'  BY <1>5, EntryHolds, PTL
    <2>2. 1 - 1 = 0  OBVIOUS
    <2>3. Holds(store, layer, group - 1)'  BY <1>1, <1>3, <2>1, <2>2 DEF Holds
    <2>4. QED  BY <2>3 DEF SlotsAreHeld
  <1>7. StoredIsWritten'
    <2>1. \A s \in Slot : s # Residual => store'[s] = Null  BY <1>1 DEF If
    <2>2. QED  BY <2>1 DEF StoredIsWritten
  <1>8. MissingIsAhead'
    <2>1. \A i \in Index(units) : 1 <= i
      <3>1. Len(units) \in Nat /\ Index(units) = 1 .. Len(units)  BY ModelIs DEF SlotInv
      <3>2. QED  BY <3>1
    <2>2. \A i \in Index(units') : 1 <= i  BY <1>2, <2>1
    <2>3. QED  BY <1>1, <2>2 DEF MissingIsAhead
  <1>9. VectorIsLast'  BY <1>1 DEF VectorIsLast
  <1>10. QED  BY <1>4, <1>6, <1>7, <1>8, <1>9 DEF SlotInv

LEMMA SlotsInit ==
  ASSUME GroupInit
  PROVE  SlotInv
  <1>1. status # "running"  BY DEF GroupInit
  <1>2. GroupTypes
    <2>1. IsModel  BY ModelAssumption DEF GroupInit, IsModel, arch, units
    <2>2. 1 \in starts  BY <2>1, StartsAreIndexes DEF GroupInit, IsModel
    <2>3. 1 \in 1 .. Layers + 1  BY BoundAssumption
    <2>4. QED  BY <2>2, <2>3 DEF GroupInit, GroupTypes
  <1>3. QED
    BY <1>1, <1>2 DEF GroupInit, SlotInv, SlotsAreHeld, StoredIsWritten, MissingIsAhead, VectorIsLast

LEMMA SlotsStep ==
  ASSUME SlotInv, [GroupNext]_groupVars
  PROVE  SlotInv'
  <1>1. ASSUME model' = model, preset' = preset, starts' = starts, layer' = layer, group' = group
        PROVE  GroupTypes'
    <2>1. units' = units  BY <1>1 DEF units
    <2>2. QED  BY <1>1, <2>1 DEF SlotInv, GroupTypes
  <1>2. ASSUME status' # "running"
        PROVE  SlotsAreHeld' /\ StoredIsWritten' /\ MissingIsAhead'
    BY <1>2 DEF SlotsAreHeld, StoredIsWritten, MissingIsAhead
  <1>3. CASE BeginSubBatch  BY <1>3, BeginKeeps
  <1>4. CASE RunGroup  BY <1>4, RunGroupKeeps
  <1>5. CASE EmbeddingFails
    BY <1>1, <1>2, <1>5 DEF EmbeddingFails, SlotInv, VectorIsLast
  <1>6. CASE RunGroupThrows
    BY <1>1, <1>2, <1>6 DEF RunGroupThrows, SlotInv, VectorIsLast
  <1>7. CASE RunGroupFails
    BY <1>1, <1>2, <1>7 DEF RunGroupFails, SlotInv, VectorIsLast
  <1>8. CASE RunFinalPhase
    BY <1>1, <1>2, <1>8 DEF RunFinalPhase, SlotInv, VectorIsLast
  <1>9. CASE RunFinalPhaseFails
    BY <1>1, <1>2, <1>9 DEF RunFinalPhaseFails, SlotInv, VectorIsLast
  <1>10. CASE UNCHANGED groupVars
    <2>1. /\ model' = model /\ preset' = preset /\ starts' = starts /\ layer' = layer
          /\ group' = group /\ batch' = batch /\ begun' = begun /\ store' = store
          /\ status' = status /\ vector' = vector
      BY <1>10 DEF groupVars
    <2>2. /\ \A s, l, d : Holds(s, l, d)' = Holds(s, l, d)
          /\ WellFormed' = WellFormed /\ units' = units
          /\ \A i, s : Missing(i, s)' = Missing(i, s)
      BY <2>1, TermsAreKept
    <2>3. SlotsAreHeld'
      <3>1. SlotsAreHeld  BY DEF SlotInv
      <3>2. QED  BY <2>1, <2>2, <3>1 DEF SlotsAreHeld
    <2>4. StoredIsWritten'  BY <2>1, <2>2 DEF SlotInv, StoredIsWritten
    <2>5. MissingIsAhead'
      <3>1. MissingIsAhead  BY DEF SlotInv
      <3>2. QED  BY <2>1, <2>2, <3>1 DEF MissingIsAhead
    <2>6. VectorIsLast'  BY <2>1 DEF SlotInv, VectorIsLast
    <2>7. QED  BY <1>1, <2>1, <2>3, <2>4, <2>5, <2>6 DEF SlotInv
  <1>11. QED
    BY <1>3, <1>4, <1>5, <1>6, <1>7, <1>8, <1>9, <1>10 DEF GroupNext

-----------------------------------------------------------------------------
(* The slot a unit names k-th holds the k-th of what it builds. *)
LEMMA OutputAt ==
  ASSUME IsModel, NEW i \in Index(units), NEW l, NEW t, NEW in,
         NEW k \in DOMAIN units[i].outs,
         \A j \in DOMAIN units[i].outs : units[i].outs[j] = units[i].outs[k] => j = k
  PROVE  /\ AfterUnit(t, i, l, in)[units[i].outs[k]]
              = Build(arch, units[i], l, Read(t, units[i]), in)[k]
         /\ units[i].outs[k] \in units[i].out
  <1> DEFINE u == units[i]
             s == u.outs[k]
             a == AfterUnit(t, i, l, in)
             y == Build(arch, u, l, Read(t, u), in)
  <1>1. u.out = Range(u.outs)  BY PlanFacts DEF IsModel
  <1>2. s \in u.out  BY <1>1 DEF Range
  <1>3. (CHOOSE j \in DOMAIN u.outs : u.outs[j] = s) = k  OBVIOUS
  <1>4. a[s] = y[CHOOSE j \in DOMAIN u.outs : u.outs[j] = s]
    <2> HIDE DEF s
    <2>1. QED  BY <1>2, AfterUnitIs
  <1>5. QED  BY <1>2, <1>3, <1>4

(* A unit with one output writes that slot, and no other. *)
LEMMA OneOutput ==
  ASSUME IsModel, NEW i \in Index(units), NEW l, NEW t, NEW in, NEW r, units[i].outs = <<r>>
  PROVE  /\ AfterUnit(t, i, l, in)[r] = Build(arch, units[i], l, Read(t, units[i]), in)[1]
         /\ \A s \in Slot : s # r => AfterUnit(t, i, l, in)[s] = t[s]
         /\ r \in Slot
  <1> DEFINE u == units[i]
  <1>1. 1 \in DOMAIN u.outs /\ u.outs[1] = r /\ \A j \in DOMAIN u.outs : j = 1  OBVIOUS
  <1>2. u.out = Range(u.outs) /\ u.out \subseteq Slot  BY PlanFacts, UnitSlots DEF IsModel
  <1>3. u.out = {r}  BY <1>1, <1>2 DEF Range
  <1>4. \A j \in DOMAIN units[i].outs : units[i].outs[j] = units[i].outs[1] => j = 1  BY <1>1
  <1>5. AfterUnit(t, i, l, in)[r] = Build(arch, u, l, Read(t, u), in)[1]
    BY <1>1, <1>4, OutputAt
  <1>6. \A s \in Slot : s # r => AfterUnit(t, i, l, in)[s] = t[s]  BY <1>3, AfterUnitIs
  <1>7. QED  BY <1>2, <1>3, <1>5, <1>6

(* Both attn_qkv units write the three projections. *)
LEMMA ThreeOutputs ==
  ASSUME IsModel, NEW i \in Index(units), NEW l, NEW t, NEW in, units[i].outs = <<"q", "k", "v">>
  PROVE  /\ AfterUnit(t, i, l, in)["q"] = Build(arch, units[i], l, Read(t, units[i]), in)[1]
         /\ AfterUnit(t, i, l, in)["k"] = Build(arch, units[i], l, Read(t, units[i]), in)[2]
         /\ AfterUnit(t, i, l, in)["v"] = Build(arch, units[i], l, Read(t, units[i]), in)[3]
         /\ \A s \in Slot : s \notin {"q", "k", "v"} => AfterUnit(t, i, l, in)[s] = t[s]
         /\ {"q", "k", "v"} \subseteq Slot
  <1> DEFINE u == units[i]
             a == AfterUnit(t, i, l, in)
             y == Build(arch, u, l, Read(t, u), in)
  <1>1. /\ DOMAIN u.outs = 1 .. 3 /\ u.outs[1] = "q" /\ u.outs[2] = "k" /\ u.outs[3] = "v"
    OBVIOUS
  <1>2. u.out = Range(u.outs) /\ u.out \subseteq Slot  BY PlanFacts, UnitSlots DEF IsModel
  <1>3. \A j \in 1 .. 3 : j = 1 \/ j = 2 \/ j = 3  OBVIOUS
  <1>4. \A j, k \in DOMAIN units[i].outs : units[i].outs[j] = units[i].outs[k] => j = k
    BY <1>1, <1>3
  <1>5. 1 \in DOMAIN u.outs /\ 2 \in DOMAIN u.outs /\ 3 \in DOMAIN u.outs  BY <1>1
  <1>6. \A k \in DOMAIN units[i].outs : a[u.outs[k]] = y[k] /\ u.outs[k] \in u.out
    BY <1>4, OutputAt
  <1>7. u.out = {"q", "k", "v"}
    <2> HIDE DEF u
    <2>1. u.out = {u.outs[k] : k \in 1 .. 3}  BY <1>1, <1>2 DEF Range
    <2>2. QED  BY <1>1, <1>3, <2>1
  <1>8. \A s \in Slot : s \notin u.out => a[s] = t[s]  BY AfterUnitIs
  <1> HIDE DEF a, y, u
  <1>9. QED  BY <1>1, <1>2, <1>5, <1>6, <1>7, <1>8 DEF a, y, u

-----------------------------------------------------------------------------
(* The units of a BERT layer, one after the other, are the encoder block. *)
LEMMA BertLayerIsBlock ==
  ASSUME IsModel, arch = "bert", NEW l, NEW in, NEW t0, NEW t1, NEW t2, NEW t3, NEW t4,
         t1 = AfterUnit(t0, 1, l, in), t2 = AfterUnit(t1, 2, l, in),
         t3 = AfterUnit(t2, 3, l, in), t4 = AfterUnit(t3, 4, l, in)
  PROVE  t4["x"] = build_encoder_block(t0["x"], in, l)
  <1> DEFINE w == BertLayer(l)
             x == t0["x"]
  <1>1. /\ Index(units) = 1 .. 4 /\ IsPlan(units) /\ Residual = "x"
        /\ IsUnit(units[1], "attn_qkv", <<"x">>, <<"q", "k", "v">>, {})
        /\ IsUnit(units[2], "attn_out", <<"q", "k", "v", "x">>, <<"xa">>, {"kq_mask"})
        /\ IsUnit(units[3], "ffn_up", <<"xa">>, <<"fh">>, {})
        /\ IsUnit(units[4], "ffn_down", <<"fh", "xa">>, <<"x">>, {})
    BY BertPlan DEF IsModel
  <1>2. \A u, z : Build(arch, u, l, z, in) = BertBuild(u, l, z, in)  BY DEF Build
  <1>3. 1 \in Index(units) /\ 2 \in Index(units) /\ 3 \in Index(units) /\ 4 \in Index(units)
    BY <1>1
  <1>4. "x" \in Slot  BY <1>1, ResidualAssumption
  <1>5. /\ t1["q"] = Biased(w.q_w, w.q_b, x) /\ t1["k"] = Biased(w.k_w, w.k_b, x)
        /\ t1["v"] = Biased(w.v_w, w.v_b, x) /\ t1["x"] = x
    <2> DEFINE u == units[1]
               z == Read(t0, u)
               y == Build(arch, u, l, z, in)
    <2>1. u.name = "attn_qkv" /\ u.ins = <<"x">> /\ u.outs = <<"q", "k", "v">>  BY <1>1 DEF IsUnit
    <2>2. z[1] = x  BY <2>1 DEF Read
    <2> HIDE DEF w, x, z
    <2>3. BertBuild(u, l, z, in) = build_attention_projections(z[1], w)
      <3> HIDE DEF u
      <3>1. QED  BY <2>1 DEF BertBuild, w
    <2>4. y = build_attention_projections(x, w)  BY <1>2, <2>2, <2>3
    <2>5. /\ t1["q"] = y[1] /\ t1["k"] = y[2] /\ t1["v"] = y[3]
          /\ \A s \in Slot : s \notin {"q", "k", "v"} => t1[s] = t0[s]
      BY <1>3, <2>1, ThreeOutputs DEF z
    <2> HIDE DEF y, u
    <2>6. QED  BY <1>4, <2>4, <2>5 DEF build_attention_projections, x
  <1>6. t2["xa"] = build_attention_output(build_attention_projections(x, w), x, in.kq_mask, w)
    <2> DEFINE u == units[2]
               z == Read(t1, u)
               y == Build(arch, u, l, z, in)
    <2>1. u.name = "attn_out" /\ u.ins = <<"q", "k", "v", "x">> /\ u.outs = <<"xa">>
      BY <1>1 DEF IsUnit
    <2>2. z = <<t1["q"], t1["k"], t1["v"], t1["x"]>>
      <3>1. DOMAIN u.ins = 1 .. 4 /\ u.ins[1] = "q" /\ u.ins[2] = "k" /\ u.ins[3] = "v" /\ u.ins[4] = "x"
        BY <2>1
      <3> HIDE DEF u
      <3>2. z = [k \in 1 .. 4 |-> t1[u.ins[k]]]  BY <3>1 DEF Read
      <3>3. QED  BY <3>1, <3>2
    <2> HIDE DEF w, x, z
    <2>3. BertBuild(u, l, z, in) = <<build_attention_output(SubSeq(z, 1, 3), z[4], in.kq_mask, w)>>
      <3> HIDE DEF u
      <3>1. QED  BY <2>1 DEF BertBuild, w
    <2>4. t2["xa"] = y[1]  BY <1>3, <2>1, OneOutput DEF z
    <2>5. t2["xa"] = build_attention_output(SubSeq(z, 1, 3), z[4], in.kq_mask, w)
      BY <1>2, <2>3, <2>4
    <2> DEFINE p == SubSeq(z, 1, 3)
    <2>6. p[1] = t1["q"] /\ p[2] = t1["k"] /\ p[3] = t1["v"] /\ z[4] = t1["x"]
      BY <2>2
    <2> DEFINE r == build_attention_projections(x, w)
    <2>7. r[1] = p[1] /\ r[2] = p[2] /\ r[3] = p[3]
      BY <1>5, <2>6 DEF build_attention_projections
    <2> HIDE DEF p, r
    <2>8. build_attention_output(p, x, in.kq_mask, w) = build_attention_output(r, x, in.kq_mask, w)
      BY <2>7 DEF build_attention_output
    <2>9. QED  BY <1>5, <2>5, <2>6, <2>8 DEF p, r
  <1>7. t3["fh"] = build_ffn_up(t2["xa"], w) /\ t3["xa"] = t2["xa"]
    <2> DEFINE u == units[3]
               z == Read(t2, u)
               y == Build(arch, u, l, z, in)
    <2>1. u.name = "ffn_up" /\ u.ins = <<"xa">> /\ u.outs = <<"fh">>  BY <1>1 DEF IsUnit
    <2>2. z[1] = t2["xa"]  BY <2>1 DEF Read
    <2> HIDE DEF w, x, z
    <2>3. BertBuild(u, l, z, in) = <<build_ffn_up(z[1], w)>>
      <3> HIDE DEF u
      <3>1. QED  BY <2>1 DEF BertBuild, w
    <2>4. t3["fh"] = y[1] /\ \A s \in Slot : s # "fh" => t3[s] = t2[s]
      BY <1>3, <2>1, OneOutput DEF z
    <2>5. "xa" \in Slot
      <3>1. units[2].outs = <<"xa">>  BY <1>1 DEF IsUnit
      <3>2. QED  BY <1>3, <3>1, OneOutput
    <2>6. y[1] = build_ffn_up(t2["xa"], w)  BY <1>2, <2>2, <2>3
    <2>7. QED  BY <2>4, <2>5, <2>6
  <1>8. t4["x"] = build_ffn_down(t3["fh"], t3["xa"], w)
    <2> DEFINE u == units[4]
               z == Read(t3, u)
               y == Build(arch, u, l, z, in)
    <2>1. u.name = "ffn_down" /\ u.ins = <<"fh", "xa">> /\ u.outs = <<"x">>  BY <1>1 DEF IsUnit
    <2>2. z[1] = t3["fh"] /\ z[2] = t3["xa"]  BY <2>1 DEF Read
    <2> HIDE DEF w, x, z
    <2>3. BertBuild(u, l, z, in) = <<build_ffn_down(z[1], z[2], w)>>
      <3> HIDE DEF u
      <3>1. QED  BY <2>1 DEF BertBuild, w
    <2>4. t4["x"] = y[1]  BY <1>3, <2>1, OneOutput DEF z
    <2>5. QED  BY <1>2, <2>2, <2>3, <2>4
  <1> DEFINE m == t2["xa"]
  <1>9. t4["x"] = build_ffn_down(build_ffn_up(m, w), m, w)  BY <1>7, <1>8
  <1>10. m = build_attention_block(x, in.kq_mask, w)  BY <1>6 DEF build_attention_block
  <1> HIDE DEF m, x
  <1>11. QED  BY <1>9, <1>10 DEF build_encoder_block, build_ffn_block, w, x

(* The units of a Gemma 3 layer are the transformer block. *)
LEMMA Gemma3LayerIsBlock ==
  ASSUME IsModel, arch = "gemma3", NEW l, NEW in, NEW t0, NEW t1, NEW t2, NEW t3, NEW t4,
         NEW t5, NEW t6, NEW t7, NEW t8,
         t1 = AfterUnit(t0, 1, l, in), t2 = AfterUnit(t1, 2, l, in),
         t3 = AfterUnit(t2, 3, l, in), t4 = AfterUnit(t3, 4, l, in),
         t5 = AfterUnit(t4, 5, l, in), t6 = AfterUnit(t5, 6, l, in),
         t7 = AfterUnit(t6, 7, l, in), t8 = AfterUnit(t7, 8, l, in)
  PROVE  t8["x"] = build_block(t0["x"], in, l)
  <1> DEFINE w == Gemma3Layer(l)
             x == t0["x"]
  <1>1. /\ Index(units) = 1 .. 8 /\ IsPlan(units) /\ Residual = "x"
        /\ IsUnit(units[1], "attn_norm", <<"x">>, <<"xn">>, {})
        /\ IsUnit(units[2], "attn_qkv", <<"xn">>, <<"q", "k", "v">>, {})
        /\ IsUnit(units[3], "attn_core", <<"q", "k", "v">>, <<"h">>,
                  {"rope_pos", "kq_mask", "seq_lengths", "packed"})
        /\ IsUnit(units[4], "attn_post", <<"h", "x">>, <<"x1">>, {})
        /\ IsUnit(units[5], "ffn_norm", <<"x1">>, <<"fn">>, {})
        /\ IsUnit(units[6], "ffn_gate_up", <<"fn">>, <<"fh">>, {})
        /\ IsUnit(units[7], "ffn_down", <<"fh">>, <<"fd">>, {})
        /\ IsUnit(units[8], "ffn_post", <<"fd", "x1">>, <<"x">>, {})
    BY Gemma3Plan DEF IsModel
  <1>2. \A u, z : Build(arch, u, l, z, in) = Gemma3Build(u, l, z, in)  BY DEF Build
  <1>3. /\ 1 \in Index(units) /\ 2 \in Index(units) /\ 3 \in Index(units) /\ 4 \in Index(units)
        /\ 5 \in Index(units) /\ 6 \in Index(units) /\ 7 \in Index(units) /\ 8 \in Index(units)
    BY <1>1
  <1>4. "x" \in Slot  BY <1>1, ResidualAssumption
  <1>5. t1["xn"] = build_rms_norm(x, w.attn_norm) /\ t1["x"] = x
    <2> DEFINE u == units[1]
               z == Read(t0, u)
               y == Build(arch, u, l, z, in)
    <2>1. u.name = "attn_norm" /\ u.ins = <<"x">> /\ u.outs = <<"xn">>  BY <1>1 DEF IsUnit
    <2>2. z[1] = x  BY <2>1 DEF Read
    <2> HIDE DEF w, x, z
    <2>3. Gemma3Build(u, l, z, in) = <<build_rms_norm(z[1], w.attn_norm)>>
      <3> HIDE DEF u
      <3>1. QED  BY <2>1 DEF Gemma3Build, w
    <2>4. t1["xn"] = y[1] /\ \A s \in Slot : s # "xn" => t1[s] = t0[s]
      BY <1>3, <2>1, OneOutput DEF z
    <2>5. y[1] = build_rms_norm(x, w.attn_norm)  BY <1>2, <2>2, <2>3
    <2>6. QED  BY <1>4, <2>4, <2>5 DEF x
  <1> DEFINE p == build_gqa_projections(t1["xn"], w)
  <1>6. t2["q"] = p[1] /\ t2["k"] = p[2] /\ t2["v"] = p[3] /\ t2["x"] = x
    <2> DEFINE u == units[2]
               z == Read(t1, u)
               y == Build(arch, u, l, z, in)
    <2>1. u.name = "attn_qkv" /\ u.ins = <<"xn">> /\ u.outs = <<"q", "k", "v">>  BY <1>1 DEF IsUnit
    <2>2. z[1] = t1["xn"]  BY <2>1 DEF Read
    <2> HIDE DEF w, x, z
    <2>3. Gemma3Build(u, l, z, in) = build_gqa_projections(z[1], w)
      <3> HIDE DEF u
      <3>1. QED  BY <2>1 DEF Gemma3Build, w
    <2>4. y = p  BY <1>2, <2>2, <2>3
    <2>5. /\ t2["q"] = y[1] /\ t2["k"] = y[2] /\ t2["v"] = y[3]
          /\ \A s \in Slot : s \notin {"q", "k", "v"} => t2[s] = t1[s]
      BY <1>3, <2>1, ThreeOutputs DEF z
    <2> HIDE DEF p, y
    <2>6. QED  BY <1>4, <1>5, <2>4, <2>5
  <1>7. t3["h"] = build_gqa_attention_core(p, in, w) /\ t3["x"] = x
    <2> DEFINE u == units[3]
               z == Read(t2, u)
               y == Build(arch, u, l, z, in)
    <2>1. u.name = "attn_core" /\ u.ins = <<"q", "k", "v">> /\ u.outs = <<"h">>  BY <1>1 DEF IsUnit
    <2>2. z[1] = p[1] /\ z[2] = p[2] /\ z[3] = p[3]
      <3>1. z[1] = t2["q"] /\ z[2] = t2["k"] /\ z[3] = t2["v"]  BY <2>1 DEF Read
      <3> HIDE DEF z, p
      <3>2. QED  BY <1>6, <3>1
    <2> HIDE DEF w, x, z, p
    <2>3. Gemma3Build(u, l, z, in) = <<build_gqa_attention_core(z, in, w)>>
      <3> HIDE DEF u
      <3>1. QED  BY <2>1 DEF Gemma3Build, w
    <2>4. t3["h"] = y[1] /\ \A s \in Slot : s # "h" => t3[s] = t2[s]
      BY <1>3, <2>1, OneOutput DEF z
    <2>5. build_gqa_attention_core(z, in, w) = build_gqa_attention_core(p, in, w)
      BY <2>2 DEF build_gqa_attention_core
    <2>6. y[1] = build_gqa_attention_core(p, in, w)  BY <1>2, <2>3, <2>5
    <2>7. QED  BY <1>4, <1>6, <2>4, <2>6
  <1> DEFINE x1 == ggml_add(x, build_rms_norm(t3["h"], w.attn_post_norm))
  <1>8. t4["x1"] = x1
    <2> DEFINE u == units[4]
               z == Read(t3, u)
               y == Build(arch, u, l, z, in)
    <2>1. u.name = "attn_post" /\ u.ins = <<"h", "x">> /\ u.outs = <<"x1">>  BY <1>1 DEF IsUnit
    <2>2. z[1] = t3["h"] /\ z[2] = x
      <3>1. z[1] = t3["h"] /\ z[2] = t3["x"]  BY <2>1 DEF Read
      <3>2. QED  BY <1>7, <3>1
    <2> HIDE DEF w, x, z
    <2>3. Gemma3Build(u, l, z, in) = <<ggml_add(z[2], build_rms_norm(z[1], w.attn_post_norm))>>
      <3> HIDE DEF u
      <3>1. QED  BY <2>1 DEF Gemma3Build, w
    <2>4. t4["x1"] = y[1]  BY <1>3, <2>1, OneOutput DEF z
    <2>5. QED  BY <1>2, <2>2, <2>3, <2>4
  <1>9. "x1" \in Slot
    <2>1. units[4].outs = <<"x1">>  BY <1>1 DEF IsUnit
    <2>2. QED  BY <1>3, <2>1, OneOutput
  <1>10. t5["fn"] = build_rms_norm(x1, w.ffn_norm) /\ t5["x1"] = x1
    <2> DEFINE u == units[5]
               z == Read(t4, u)
               y == Build(arch, u, l, z, in)
    <2>1. u.name = "ffn_norm" /\ u.ins = <<"x1">> /\ u.outs = <<"fn">>  BY <1>1 DEF IsUnit
    <2>2. z[1] = t4["x1"]  BY <2>1 DEF Read
    <2> HIDE DEF w, x, z, x1
    <2>3. Gemma3Build(u, l, z, in) = <<build_rms_norm(z[1], w.ffn_norm)>>
      <3> HIDE DEF u
      <3>1. QED  BY <2>1 DEF Gemma3Build, w
    <2>4. t5["fn"] = y[1] /\ \A s \in Slot : s # "fn" => t5[s] = t4[s]
      BY <1>3, <2>1, OneOutput DEF z
    <2>5. y[1] = build_rms_norm(x1, w.ffn_norm)  BY <1>2, <1>8, <2>2, <2>3
    <2>6. QED  BY <1>8, <1>9, <2>4, <2>5
  <1>11. t6["fh"] = build_gated_ffn_gate_up(t5["fn"], w) /\ t6["x1"] = x1
    <2> DEFINE u == units[6]
               z == Read(t5, u)
               y == Build(arch, u, l, z, in)
    <2>1. u.name = "ffn_gate_up" /\ u.ins = <<"fn">> /\ u.outs = <<"fh">>  BY <1>1 DEF IsUnit
    <2>2. z[1] = t5["fn"]  BY <2>1 DEF Read
    <2> HIDE DEF w, x, z, x1
    <2>3. Gemma3Build(u, l, z, in) = <<build_gated_ffn_gate_up(z[1], w)>>
      <3> HIDE DEF u
      <3>1. QED  BY <2>1 DEF Gemma3Build, w
    <2>4. t6["fh"] = y[1] /\ \A s \in Slot : s # "fh" => t6[s] = t5[s]
      BY <1>3, <2>1, OneOutput DEF z
    <2>5. y[1] = build_gated_ffn_gate_up(t5["fn"], w)  BY <1>2, <2>2, <2>3
    <2>6. QED  BY <1>9, <1>10, <2>4, <2>5
  <1>12. t7["fd"] = build_gated_ffn_down(t6["fh"], w) /\ t7["x1"] = x1
    <2> DEFINE u == units[7]
               z == Read(t6, u)
               y == Build(arch, u, l, z, in)
    <2>1. u.name = "ffn_down" /\ u.ins = <<"fh">> /\ u.outs = <<"fd">>  BY <1>1 DEF IsUnit
    <2>2. z[1] = t6["fh"]  BY <2>1 DEF Read
    <2> HIDE DEF w, x, z, x1
    <2>3. Gemma3Build(u, l, z, in) = <<build_gated_ffn_down(z[1], w)>>
      <3> HIDE DEF u
      <3>1. QED  BY <2>1 DEF Gemma3Build, w
    <2>4. t7["fd"] = y[1] /\ \A s \in Slot : s # "fd" => t7[s] = t6[s]
      BY <1>3, <2>1, OneOutput DEF z
    <2>5. y[1] = build_gated_ffn_down(t6["fh"], w)  BY <1>2, <2>2, <2>3
    <2>6. QED  BY <1>9, <1>11, <2>4, <2>5
  <1>13. t8["x"] = ggml_add(x1, build_rms_norm(t7["fd"], w.ffn_post_norm))
    <2> DEFINE u == units[8]
               z == Read(t7, u)
               y == Build(arch, u, l, z, in)
    <2>1. u.name = "ffn_post" /\ u.ins = <<"fd", "x1">> /\ u.outs = <<"x">>  BY <1>1 DEF IsUnit
    <2>2. z[1] = t7["fd"] /\ z[2] = t7["x1"]  BY <2>1 DEF Read
    <2> HIDE DEF w, x, z, x1
    <2>3. Gemma3Build(u, l, z, in) = <<ggml_add(z[2], build_rms_norm(z[1], w.ffn_post_norm))>>
      <3> HIDE DEF u
      <3>1. QED  BY <2>1 DEF Gemma3Build, w
    <2>4. t8["x"] = y[1]  BY <1>3, <2>1, OneOutput DEF z
    <2>5. QED  BY <1>2, <1>12, <2>2, <2>3, <2>4
  <1>14. t3["h"] = build_gqa_attention(build_rms_norm(x, w.attn_norm), in, w)
    BY <1>5, <1>7 DEF build_gqa_attention
  <1>15. t7["fd"] = build_gated_ffn(build_rms_norm(x1, w.ffn_norm), w)
    <2> HIDE DEF x1, w
    <2>1. QED  BY <1>10, <1>11, <1>12 DEF build_gated_ffn
  <1>16. QED  BY <1>13, <1>14, <1>15 DEF build_block

-----------------------------------------------------------------------------
(* The embedding phase is given what it reads of the eager inputs. *)
LEMMA EmbeddingAlike ==
  ASSUME arch = "bert" \/ arch = "gemma3"
  PROVE  build_embedding_phase(arch, EmbeddingIn(batch, begun)) = build_embedding_phase(arch, EagerIn)
  <1> DEFINE in == EmbeddingIn(batch, begun)
  <1>1. CASE arch = "bert"
    <2>1. arch_inputs(arch) = {"learned_pos", "type_ids", "kq_mask"}  BY <1>1, ArchInputs
    <2>2. embedding_inputs(arch) = {"learned_pos", "type_ids"}  BY <1>1 DEF embedding_inputs
    <2>3. ~Packed(arch, batch) /\ ~PackedStream(batch)  BY <2>1, PackedAlike DEF Packed
    <2>4. EagerIn = PaddedInputs(arch, batch, begun)  BY <2>3 DEF EagerIn
    <2>5. /\ EagerIn.token_ids = Leaf("token_ids", begun)
          /\ EagerIn.learned_pos_ids = Leaf("learned_positions", begun)
          /\ EagerIn.type_ids = Leaf("type_ids", begun)
      BY <2>1, <2>4 DEF PaddedInputs, If
    <2>6. /\ in.token_ids = Leaf("token_ids", begun)
          /\ in.learned_pos_ids = Leaf("learned_positions", begun)
          /\ in.type_ids = Leaf("type_ids", begun)
      BY <2>2, <2>3 DEF EmbeddingIn, If
    <2> HIDE DEF in
    <2>7. build_embed_layer(in, BertEmbed) = build_embed_layer(EagerIn, BertEmbed)
      BY <2>5, <2>6 DEF build_embed_layer
    <2>8. QED  BY <1>1, <2>7 DEF in, build_embedding_phase
  <1>2. CASE arch = "gemma3"
    <2>1. in.token_ids = Leaf(IF PackedStream(batch) THEN "packed_token_ids" ELSE "token_ids", begun)
      BY DEF EmbeddingIn
    <2>2. EagerIn.token_ids = Leaf(IF Packed(arch, batch) THEN "packed_token_ids" ELSE "token_ids", begun)
      <3>1. CASE Packed(arch, batch)   BY <3>1 DEF EagerIn, PackedInputs
      <3>2. CASE ~Packed(arch, batch)  BY <3>2 DEF EagerIn, PaddedInputs
      <3>3. QED  BY <3>1, <3>2
    <2>3. in.token_ids = EagerIn.token_ids  BY <2>1, <2>2, PackedAlike
    <2> HIDE DEF in
    <2>4. build_embeddings(in) = build_embeddings(EagerIn)  BY <2>3 DEF build_embeddings
    <2>5. QED  BY <1>2, <2>4 DEF in, build_embedding_phase
  <1>3. QED  BY <1>1, <1>2

(* A layer of the eager graph. *)
Block(x, l) ==
  IF arch = "bert" THEN build_encoder_block(x, EagerIn, l) ELSE build_block(x, EagerIn, l)

LEMMA LayerIsBlock ==
  ASSUME IsModel, arch = "bert" \/ arch = "gemma3", NEW l \in Nat \ {0}
  PROVE  UpTo(l + 1, 0)["x"] = Block(UpTo(l, 0)["x"], l)
  <1> DEFINE n == Len(units)
  <1>1. n \in Nat \ {0} /\ Index(units) = 1 .. n  BY PlanFacts DEF IsModel
  <1>2. Before(l) \in Nat /\ Before(l + 1) = Before(l) + n
    <2>1. 1 \in Index(units)  BY <1>1
    <2>2. QED  BY <2>1, Positions
  <1>3. UpTo(l + 1, 0) = UpTo(l, n)
    <2>1. Before(l + 1) + 0 = Before(l) + n  BY <1>1, <1>2
    <2> HIDE DEF n
    <2>2. QED  BY <2>1 DEF UpTo
  <1>4. ASSUME NEW i \in 1 .. n
        PROVE  UpTo(l, i) = AfterUnit(UpTo(l, i - 1), i, l, EagerIn)
    <2>1. i \in Index(units) /\ 0 <= Before(l) + (i - 1) /\ 0 \in Nat  BY <1>1, <1>2
    <2>2. QED  BY <2>1, LayerStep DEF UpTo
  <1>5. CASE arch = "bert"
    <2>1. n = 4  BY <1>5, BertPlan DEF IsModel
    <2>2. /\ UpTo(l, 1) = AfterUnit(UpTo(l, 0), 1, l, EagerIn)
          /\ UpTo(l, 2) = AfterUnit(UpTo(l, 1), 2, l, EagerIn)
          /\ UpTo(l, 3) = AfterUnit(UpTo(l, 2), 3, l, EagerIn)
          /\ UpTo(l, 4) = AfterUnit(UpTo(l, 3), 4, l, EagerIn)
      <3>1. 1 - 1 = 0 /\ 2 - 1 = 1 /\ 3 - 1 = 2 /\ 4 - 1 = 3  OBVIOUS
      <3>2. 1 \in 1 .. n /\ 2 \in 1 .. n /\ 3 \in 1 .. n /\ 4 \in 1 .. n  BY <2>1
      <3> HIDE DEF n
      <3>3. QED  BY <1>4, <3>1, <3>2
    <2>3. UpTo(l, 4)["x"] = build_encoder_block(UpTo(l, 0)["x"], EagerIn, l)
      BY <1>5, <2>2, BertLayerIsBlock
    <2> HIDE DEF n
    <2>4. QED  BY <1>3, <1>5, <2>1, <2>3 DEF Block
  <1>6. CASE arch = "gemma3"
    <2>1. n = 8  BY <1>6, Gemma3Plan DEF IsModel
    <2>2. /\ UpTo(l, 1) = AfterUnit(UpTo(l, 0), 1, l, EagerIn)
          /\ UpTo(l, 2) = AfterUnit(UpTo(l, 1), 2, l, EagerIn)
          /\ UpTo(l, 3) = AfterUnit(UpTo(l, 2), 3, l, EagerIn)
          /\ UpTo(l, 4) = AfterUnit(UpTo(l, 3), 4, l, EagerIn)
          /\ UpTo(l, 5) = AfterUnit(UpTo(l, 4), 5, l, EagerIn)
          /\ UpTo(l, 6) = AfterUnit(UpTo(l, 5), 6, l, EagerIn)
          /\ UpTo(l, 7) = AfterUnit(UpTo(l, 6), 7, l, EagerIn)
          /\ UpTo(l, 8) = AfterUnit(UpTo(l, 7), 8, l, EagerIn)
      <3>1. /\ 1 - 1 = 0 /\ 2 - 1 = 1 /\ 3 - 1 = 2 /\ 4 - 1 = 3
            /\ 5 - 1 = 4 /\ 6 - 1 = 5 /\ 7 - 1 = 6 /\ 8 - 1 = 7
        OBVIOUS
      <3>2. /\ 1 \in 1 .. n /\ 2 \in 1 .. n /\ 3 \in 1 .. n /\ 4 \in 1 .. n
            /\ 5 \in 1 .. n /\ 6 \in 1 .. n /\ 7 \in 1 .. n /\ 8 \in 1 .. n
        BY <2>1
      <3> HIDE DEF n
      <3>3. QED  BY <1>4, <3>1, <3>2
    <2>3. UpTo(l, 8)["x"] = build_block(UpTo(l, 0)["x"], EagerIn, l)
      BY <1>6, <2>2, Gemma3LayerIsBlock
    <2> HIDE DEF n
    <2>4. QED  BY <1>3, <1>6, <2>1, <2>3 DEF Block
  <1>7. QED  BY <1>5, <1>6

(* All units one after the other are the eager graph. *)
LEMMA UnitsAreGraph ==
  ASSUME IsModel, arch = "bert" \/ arch = "gemma3"
  PROVE  build_graph(arch, Layers, EagerIn) = build_final_phase(arch, UpTo(Layers + 1, 0)["x"])
  <1> DEFINE first == build_embedding_phase(arch, EagerIn)
             X(l) == UpTo(l + 1, 0)["x"]
             Body(f) == [l \in 0 .. Layers |-> IF l = 0 THEN first ELSE Block(f[l - 1], l)]
             g == CHOOSE f : f = Body(f)
  <1>1. Layers \in Nat \ {0}  BY BoundAssumption
  <1>2. X(0) = first
    <2>1. UpTo(1, 0) = Entry
      <3>1. Before(1) + 0 = 0
        <4>1. Len(units) \in Nat  BY PlanFacts DEF IsModel
        <4>2. QED  BY <4>1 DEF Before
      <3>2. 0 \in Nat /\ 0 <= 0  OBVIOUS
      <3>3. QED  BY <3>1, <3>2, BuiltStep DEF UpTo
    <2>2. Residual = "x" /\ "x" \in Slot  BY ResidualAssumption DEF IsModel
    <2>3. Entry["x"] = build_embedding_phase(arch, EmbeddingIn(batch, begun))
      BY <2>2 DEF Entry, If
    <2>4. 0 + 1 = 1  OBVIOUS
    <2>5. Entry["x"] = first  BY <2>3, EmbeddingAlike
    <2> HIDE DEF first
    <2>6. QED  BY <2>1, <2>4, <2>5
  <1>3. ASSUME NEW l \in 0 .. Layers, l # 0
        PROVE  X(l) = Block(X(l - 1), l)
    <2>1. l \in Nat \ {0} /\ (l - 1) + 1 = l  BY <1>1, <1>3
    <2>2. UpTo(l + 1, 0)["x"] = Block(UpTo(l, 0)["x"], l)  BY <2>1, LayerIsBlock
    <2>3. QED  BY <2>1, <2>2
  <1>4. build_graph(arch, Layers, EagerIn) = build_final_phase(arch, g[Layers])
    BY DEF build_graph, Block
  <1> HIDE DEF first, X
  <1>5. g = Body(g)
    <2> DEFINE f == [l \in 0 .. Layers |-> X(l)]
    <2>1. \A l \in 0 .. Layers : l # 0 => f[l - 1] = X(l - 1)
      <3>1. \A l \in 0 .. Layers : l # 0 => l - 1 \in 0 .. Layers  BY <1>1
      <3>2. QED  BY <3>1
    <2>2. \A l \in 0 .. Layers : X(l) = IF l = 0 THEN first ELSE Block(f[l - 1], l)
      BY <1>2, <1>3, <2>1
    <2>3. f = Body(f)
      <3> DEFINE F(l) == IF l = 0 THEN first ELSE Block(f[l - 1], l)
      <3>1. \A l \in 0 .. Layers : X(l) = F(l)  BY <2>2
      <3> HIDE DEF F
      <3>2. [l \in 0 .. Layers |-> X(l)] = [l \in 0 .. Layers |-> F(l)]  BY <3>1
      <3>3. QED  BY <3>2 DEF F
    <2> HIDE DEF f, Body
    <2>4. \E v : v = Body(v)  BY <2>3
    <2>5. QED  BY <2>4
  <1> HIDE DEF g
  <1>6. \A l \in 0 .. Layers : g[l] = IF l = 0 THEN first ELSE Block(g[l - 1], l)  BY <1>5
  <1> HIDE DEF Body
  <1> DEFINE A == {l \in 0 .. Layers : g[l] = X(l)}
  <1>7. 0 \in A
    <2>1. 0 \in 0 .. Layers  BY <1>1
    <2>2. QED  BY <1>2, <1>6, <2>1
  <1>8. ASSUME NEW k \in 0 .. Layers - 1, k \in A
        PROVE  k + 1 \in A
    <2>1. k + 1 \in 0 .. Layers /\ k + 1 # 0 /\ (k + 1) - 1 = k  BY <1>1
    <2>2. g[k + 1] = Block(g[k], k + 1)  BY <1>6, <2>1
    <2>3. X(k + 1) = Block(X(k), k + 1)
      <3>1. X(k + 1) = Block(X((k + 1) - 1), k + 1)  BY <1>3, <2>1
      <3>2. QED  BY <2>1, <3>1
    <2>4. QED  BY <1>8, <2>1, <2>2, <2>3
  <1> HIDE DEF A
  <1>9. 0 .. Layers \subseteq A  BY <1>1, <1>7, <1>8, Induction
  <1>10. g[Layers] = X(Layers)
    <2>1. Layers \in 0 .. Layers  BY <1>1
    <2>2. QED  BY <1>9, <2>1 DEF A
  <1>11. QED  BY <1>4, <1>10 DEF X

(* Units that ask for no graph input do not depend on them. *)
LEMMA BuiltAlike ==
  ASSUME IsModel, arch # "bert", arch # "gemma3", NEW base, NEW k \in Nat, NEW in, NEW ref
  PROVE  Built(base, 0, k, in) = Built(base, 0, k, ref)
  <1> DEFINE A == {m \in 0 .. k : Built(base, 0, m, in) = Built(base, 0, m, ref)}
  <1>1. \A t, i, l : AfterUnit(t, i, l, in) = AfterUnit(t, i, l, ref)
    <2>1. \A u, l, x : Build(arch, u, l, x, in) = Build(arch, u, l, x, ref)  BY DEF Build
    <2>2. QED  BY <2>1 DEF AfterUnit
  <1>2. 0 \in A
    <2>1. 0 \in 0 .. k /\ 0 \in Nat /\ 0 <= 0  OBVIOUS
    <2>2. QED  BY <2>1, BuiltStep
  <1>3. ASSUME NEW m \in 0 .. k - 1, m \in A
        PROVE  m + 1 \in A
    <2>1. m \in Nat /\ 0 <= m /\ m + 1 \in 0 .. k /\ 0 \in Nat  OBVIOUS
    <2>2. /\ Built(base, 0, m + 1, in)
               = AfterUnit(Built(base, 0, m, in), UnitAt(m + 1), LayerAt(m + 1), in)
          /\ Built(base, 0, m + 1, ref)
               = AfterUnit(Built(base, 0, m, ref), UnitAt(m + 1), LayerAt(m + 1), ref)
      BY <2>1, BuiltStep
    <2>3. Built(base, 0, m, in) = Built(base, 0, m, ref)  BY <1>3
    <2>4. QED  BY <1>1, <2>1, <2>2, <2>3
  <1> HIDE DEF A
  <1>4. 0 .. k \subseteq A  BY <1>2, <1>3, Induction
  <1>5. QED  BY <1>4 DEF A

-----------------------------------------------------------------------------
(* What the final phase finds in the residual slot of a well formed plan.  *)
LEMMA LastHolds ==
  ASSUME SlotInv, status = "running", layer > Layers, WellFormed
  PROVE  store[Residual] = UpTo(Layers + 1, 0)[Residual]
  <1>1. layer = Layers + 1 /\ group - 1 = 0
    <2>1. layer \in 1 .. Layers + 1 /\ group = 1  BY DEF SlotInv, GroupTypes
    <2>2. QED  BY <2>1, BoundAssumption
  <1>2. Holds(store, Layers + 1, 0)  BY <1>1 DEF SlotInv, SlotsAreHeld
  <1>3. QED  BY <1>2, ResidualAssumption DEF Holds, LiveAt

LEMMA FinalIsEager ==
  ASSUME SlotInv, RunFinalPhase
  PROVE  WellFormed /\ vector' = Reference
  <1> DEFINE x == store[Residual]
             y == Pooled(build_final_phase(arch, x))
  <1>1. IsModel /\ Layers \in Nat \ {0} /\ layer \in Nat  BY ModelIs DEF SlotInv
  <1>2. status = "running" /\ layer > Layers /\ vector' = Normalized(batch, y)
    BY DEF RunFinalPhase, Normalized
  <1>3. WellFormed
    <2>1. layer # 1  BY <1>1, <1>2
    <2>2. \A i \in Index(units) : \A s \in units[i].in : ~Missing(i, s)
      BY <1>2, <2>1 DEF SlotInv, MissingIsAhead
    <2>3. QED  BY <1>1, <2>2, WellFormedIs
  <1>4. x = UpTo(Layers + 1, 0)[Residual]  BY <1>2, <1>3, LastHolds
  <1> DEFINE pool == build_pool(build_final_phase(arch, x), batch.pooling, PoolInputs(batch, begun))
             packed == build_packed_pool(build_final_phase(arch, x), batch.pooling,
                                         Leaf("offsets", begun), Leaf("lengths", begun))
  <1>5. y = IF Packed(arch, batch) THEN packed ELSE pool  BY PackedAlike DEF Pooled
  <1> HIDE DEF x, y
  <1>6. CASE arch = "bert" \/ arch = "gemma3"
    <2>1. Residual = "x"  BY <1>1, <1>6 DEF IsModel
    <2>2. build_graph(arch, Layers, EagerIn) = build_final_phase(arch, x)
      BY <1>1, <1>4, <1>6, <2>1, UnitsAreGraph
    <2>3. Reference = EagerOutput(arch, Layers, batch, begun)  BY <1>6 DEF Reference
    <2>4. CASE Packed(arch, batch)
      <3>1. EagerIn = PackedInputs(arch, begun)  BY <2>4 DEF EagerIn
      <3>2. EagerOutput(arch, Layers, batch, begun)
              = Normalized(batch, build_packed_pool(build_graph(arch, Layers, EagerIn),
                             batch.pooling, Leaf("offsets", begun), Leaf("lengths", begun)))
        BY <2>4, <3>1 DEF EagerOutput
      <3>3. QED  BY <1>2, <1>3, <1>5, <2>2, <2>3, <2>4, <3>2
    <2>5. CASE ~Packed(arch, batch)
      <3>1. EagerIn = PaddedInputs(arch, batch, begun)  BY <2>5 DEF EagerIn
      <3>2. EagerOutput(arch, Layers, batch, begun)
              = Normalized(batch, build_pool(build_graph(arch, Layers, EagerIn),
                             batch.pooling, PoolInputs(batch, begun)))
        BY <2>5, <3>1 DEF EagerOutput
      <3>3. QED  BY <1>2, <1>3, <1>5, <2>2, <2>3, <2>5, <3>2
    <2>6. QED  BY <2>4, <2>5
  <1>7. CASE arch # "bert" /\ arch # "gemma3"
    <2> DEFINE n == Layers * Len(units)
               base == [s \in Slot |-> If(s = Residual, Leaf("token_ids", begun))]
    <2>1. n \in Nat /\ Before(Layers + 1) + 0 = n
      <3>1. Len(units) \in Nat  BY <1>1, PlanFacts DEF IsModel
      <3>2. (Layers + 1) - 1 = Layers /\ n \in Nat  BY <1>1, <3>1
      <3>3. QED  BY <1>1, <3>1, <3>2 DEF Before
    <2>2. arch_inputs(arch) = {}  BY <1>7, ArchInputs
    <2>3. ~Packed(arch, batch) /\ ~PackedStream(batch)  BY <2>2, PackedAlike DEF Packed
    <2>4. Entry = base
      <3>1. build_embedding_phase(arch, EmbeddingIn(batch, begun)) = Leaf("token_ids", begun)
        BY <1>7, <2>3 DEF build_embedding_phase, EmbeddingIn
      <3>2. QED  BY <3>1 DEF Entry
    <2> HIDE DEF n, base
    <2>5. x = Built(base, 0, n, EagerIn)[Residual]  BY <1>4, <2>1, <2>4 DEF UpTo
    <2>6. x = Built(base, 0, n, GraphIn)[Residual]  BY <1>1, <1>7, <2>1, <2>5, BuiltAlike
    <2>7. UnitByUnit(Leaf("token_ids", begun), GraphIn) = x  BY <2>6 DEF UnitByUnit, n, base
    <2>8. build_final_phase(arch, x) = x  BY <1>7 DEF build_final_phase
    <2>9. Reference = Normalized(batch, build_pool(x, batch.pooling, PoolInputs(batch, begun)))
      BY <1>7, <2>7 DEF Reference
    <2>10. QED  BY <1>2, <1>3, <1>5, <2>3, <2>8, <2>9
  <1>8. QED  BY <1>6, <1>7

-----------------------------------------------------------------------------
(* The inductive invariant of the values carried between groups. *)
GroupInv == SlotInv /\ SlotChecksAreExact /\ StreamedVectorIsEager

LEMMA ReferenceIsKept ==
  ASSUME model' = model, starts' = starts, batch' = batch, begun' = begun, group' = group
  PROVE  Reference' = Reference
  <1>1. arch' = arch /\ units' = units  BY DEF arch, units
  <1>2. \A base, j, k, in : Built(base, j, k, in)' = Built(base, j, k, in)
    BY <1>1 DEF Built, AfterUnit, UnitAt, LayerAt
  <1>3. GraphIn' = GraphIn  BY <1>1 DEF GraphIn, Run, PerSentence, PackedStream
  <1>4. \A x, in : UnitByUnit(x, in)' = UnitByUnit(x, in)  BY <1>1, <1>2 DEF UnitByUnit
  <1>5. UnitByUnit(Leaf("token_ids", begun), GraphIn)'
          = UnitByUnit(Leaf("token_ids", begun), GraphIn)
    BY <1>1, <1>2, <1>3 DEF UnitByUnit
  <1>6. QED  BY <1>1, <1>5 DEF Reference

LEMMA GroupInvInit ==
  ASSUME GroupInit
  PROVE  GroupInv
  <1>1. SlotInv  BY SlotsInit
  <1>2. status # "slot_error" /\ vector = Null  BY DEF GroupInit
  <1>3. QED  BY <1>1, <1>2 DEF GroupInv, SlotChecksAreExact, StreamedVectorIsEager

LEMMA GroupInvStep ==
  ASSUME GroupInv, [GroupNext]_groupVars
  PROVE  GroupInv'
  <1>1. SlotInv /\ SlotInv'  BY SlotsStep DEF GroupInv
  <1>2. model' = model /\ WellFormed' = WellFormed
    <2>1. model' = model
      BY DEF GroupNext, groupVars, BeginSubBatch, EmbeddingFails, RunGroup, RunGroupThrows,
             RunGroupFails, RunFinalPhase, RunFinalPhaseFails
    <2>2. units' = units  BY <2>1 DEF units
    <2>3. QED  BY <2>1, <2>2 DEF WellFormed, Index
  <1>3. SlotChecksAreExact'
    <2>1. CASE RunGroupThrows
      <3>1. ~WellFormed
        <4>1. PICK e \in Index(units) : AtGroup(e)  BY <1>1, ModelIs DEF SlotInv
        <4>2. status = "running" /\ ~Runnable  BY <2>1 DEF RunGroupThrows
        <4>3. QED  BY <1>1, <4>1, <4>2, GroupRunnable DEF SlotInv, SlotsAreHeld
      <3>2. vector' = vector  BY <2>1 DEF RunGroupThrows
      <3>3. QED  BY <1>2, <3>1, <3>2 DEF GroupInv, SlotChecksAreExact
    <2>2. CASE RunFinalPhase
      <3>1. status' = "ready"  BY <2>2 DEF RunFinalPhase
      <3>2. QED  BY <1>1, <1>2, <2>2, <3>1, FinalIsEager DEF SlotChecksAreExact
    <2>3. CASE BeginSubBatch \/ EmbeddingFails
      <3>1. status' # "slot_error" /\ vector' = Null  BY <2>3 DEF BeginSubBatch, EmbeddingFails
      <3>2. QED  BY <3>1 DEF SlotChecksAreExact
    <2>4. CASE RunGroup \/ RunGroupFails \/ RunFinalPhaseFails \/ UNCHANGED groupVars
      <3>1. vector' = vector /\ (status' = "slot_error" => status = "slot_error")
        BY <2>4 DEF RunGroup, RunGroupFails, RunFinalPhaseFails, groupVars
      <3>2. QED  BY <1>2, <3>1 DEF GroupInv, SlotChecksAreExact
    <2>5. QED  BY <2>1, <2>2, <2>3, <2>4 DEF GroupNext
  <1>4. StreamedVectorIsEager'
    <2>1. CASE BeginSubBatch \/ EmbeddingFails
      <3>1. vector' = Null  BY <2>1 DEF BeginSubBatch, EmbeddingFails
      <3>2. QED  BY <3>1 DEF StreamedVectorIsEager
    <2>2. CASE RunGroup \/ RunGroupThrows \/ RunGroupFails \/ RunFinalPhaseFails
      <3>1. status = "running" /\ vector' = vector
        BY <2>2 DEF RunGroup, RunGroupThrows, RunGroupFails, RunFinalPhaseFails
      <3>2. vector = Null  BY <1>1, <3>1 DEF SlotInv, VectorIsLast
      <3>3. QED  BY <3>1, <3>2 DEF StreamedVectorIsEager
    <2>3. CASE RunFinalPhase
      <3>1. /\ starts' = starts /\ batch' = batch /\ begun' = begun /\ group' = group
        BY <2>3 DEF RunFinalPhase
      <3>2. vector' = Reference  BY <1>1, <2>3, FinalIsEager
      <3>3. QED  BY <1>2, <3>1, <3>2, ReferenceIsKept DEF StreamedVectorIsEager
    <2>4. CASE UNCHANGED groupVars
      <3>1. /\ starts' = starts /\ batch' = batch /\ begun' = begun /\ group' = group
            /\ vector' = vector
        BY <2>4 DEF groupVars
      <3>2. QED  BY <1>2, <3>1, ReferenceIsKept DEF GroupInv, StreamedVectorIsEager
    <2>5. QED  BY <2>1, <2>2, <2>3, <2>4 DEF GroupNext
  <1>5. QED  BY <1>1, <1>3, <1>4 DEF GroupInv

(* What embed_batch keeps from group to group, whatever runs or fails: the *)
(* slots still to be read hold what the units before them left.            *)
THEOREM GroupInvariant == GroupSpec => []GroupInv
  BY GroupInvInit, GroupInvStep, PTL DEF GroupSpec

(* run_group over partition_runs and resolve_group_slots: whatever the     *)
(* plan, the preset, the number of layers and the batches, and whatever    *)
(* failed before, the vector streaming returns is the one the eager        *)
(* embedder's graph computes of the same sub-batch.                        *)
THEOREM StreamingIsEager == GroupSpec => []StreamedVectorIsEager
  <1>1. GroupInv => StreamedVectorIsEager  BY DEF GroupInv
  <1>2. QED  BY <1>1, GroupInvariant, PTL

(* create_input's check of the valid bit: a plan whose units read only     *)
(* what was produced never trips it, and no sub-batch of any other plan is *)
(* finished.                                                               *)
THEOREM SlotErrorsAreExact == GroupSpec => []SlotChecksAreExact
  <1>1. GroupInv => SlotChecksAreExact  BY DEF GroupInv
  <1>2. QED  BY <1>1, GroupInvariant, PTL

(* partition_runs: every unit is in a run, "attn-ffn" mixes no stages, and *)
(* a budget run fits in it, unless it is one unit, and could not be longer.*)
THEOREM PresetsArePartitions == GroupSpec => []PartitionMeetsPreset
  <1>1. ASSUME GroupInv
        PROVE  PartitionMeetsPreset
    <2>1. GroupTypes /\ IsPlan(units)  BY <1>1, ModelIs DEF GroupInv, SlotInv, IsModel
    <2>2. QED  BY <2>1, PartitionHolds DEF GroupTypes
  <1>2. QED  BY <1>1, GroupInvariant, PTL
=============================================================================
