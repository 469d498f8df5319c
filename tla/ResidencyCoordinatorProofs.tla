--------------------- MODULE ResidencyCoordinatorProofs ---------------------
(***************************************************************************)
(* Proofs about ResidencyCoordinator, for any pages, keys, holders and     *)
(* number of leases.                                                       *)
(***************************************************************************)
EXTENDS ResidencyCoordinator, FiniteSetTheorems, TLAPS

(* Ids identify leases and are below the next one. *)
LeaseIds ==
  /\ \A a \in active : a.id > 0 /\ a.id < nextId
  /\ \A a, b \in active : a.id = b.id => a = b

Handles ==
  /\ \A h \in Holder : handle[h].id # 0 => \E a \in active : Owns(h, a)
  /\ \A h, g \in Holder : h # g /\ handle[h].id # 0 => handle[h].id # handle[g].id

Counts ==
  /\ IsFiniteSet(active)
  /\ \A k \in Key : count[k] = Cardinality(LeasesOn(k, active))

PendingCoversLeases == \A a \in active : a.pages \subseteq pending[a.key]

CommonWhenServing == stage = "serving" => common = CommonPages

(* Nothing is advised, leased or poisoned before the constructor retains   *)
(* the common pages.                                                       *)
OnlyServingLeases ==
  /\ active # {} => stage = "serving"
  /\ stage = "constructing" => advised = {}
  /\ poisoned => stage = "serving"

(* The inductive invariant. *)
IInv ==
  /\ TypeOK
  /\ LeaseIds
  /\ Handles
  /\ Counts
  /\ PendingCoversLeases
  /\ CommonWhenServing
  /\ OnlyServingLeases
  /\ LeasedPagesResident
  /\ AdviceIsAccounted

-----------------------------------------------------------------------------
(* Granting a lease on key j adds one to the leases of j and to no other. *)
LEMMA CountOfGrant ==
  ASSUME NEW A \in SUBSET Lease, IsFiniteSet(A), NEW x \in Lease, x \notin A,
         NEW k \in Key
  PROVE  /\ Cardinality(LeasesOn(k, A)) \in Nat
         /\ Cardinality(LeasesOn(k, A \cup {x})) =
              Cardinality(LeasesOn(k, A)) + (IF x.key = k THEN 1 ELSE 0)
<1>1. IsFiniteSet(LeasesOn(k, A))
  BY FS_Subset DEF LeasesOn
<1>2. Cardinality(LeasesOn(k, A)) \in Nat
  BY <1>1, FS_CardinalityType
<1>3. CASE x.key = k
  <2>1. LeasesOn(k, A \cup {x}) = LeasesOn(k, A) \cup {x}
    BY <1>3 DEF LeasesOn
  <2>2. x \notin LeasesOn(k, A)
    BY DEF LeasesOn
  <2>3. Cardinality(LeasesOn(k, A) \cup {x}) = Cardinality(LeasesOn(k, A)) + 1
    BY <1>1, <2>2, FS_AddElement
  <2> QED
    BY <1>2, <1>3, <2>1, <2>3
<1>4. CASE x.key # k
  <2>1. LeasesOn(k, A \cup {x}) = LeasesOn(k, A)
    BY <1>4 DEF LeasesOn
  <2> QED
    BY <1>2, <1>4, <2>1
<1> QED
  BY <1>3, <1>4, <1>2

(* Releasing it takes one away again. *)
LEMMA CountOfRelease ==
  ASSUME NEW A \in SUBSET Lease, IsFiniteSet(A), NEW x \in A, NEW k \in Key
  PROVE  /\ Cardinality(LeasesOn(k, A)) \in Nat
         /\ Cardinality(LeasesOn(k, A \ {x})) \in Nat
         /\ Cardinality(LeasesOn(k, A)) =
              Cardinality(LeasesOn(k, A \ {x})) + (IF x.key = k THEN 1 ELSE 0)
<1> DEFINE B == A \ {x}
<1>1. B \in SUBSET Lease /\ IsFiniteSet(B) /\ x \in Lease /\ x \notin B
  BY FS_Subset
<1>2. A = B \cup {x}
  OBVIOUS
<1> HIDE DEF B
<1>3. /\ Cardinality(LeasesOn(k, B)) \in Nat
      /\ Cardinality(LeasesOn(k, B \cup {x})) =
           Cardinality(LeasesOn(k, B)) + (IF x.key = k THEN 1 ELSE 0)
  BY <1>1, CountOfGrant
<1> QED
  BY <1>2, <1>3 DEF B

(* A region whose only lease goes has none left; a key with a lease counts. *)
LEMMA LeaseCounts ==
  ASSUME Counts, active \in SUBSET Lease, NEW a \in active
  PROVE  /\ count[a.key] # 0
         /\ count[a.key] = 1 => \A b \in active : b.key = a.key => b = a
<1>0. a.key \in Key
  BY DEF Lease
<1>1. IsFiniteSet(LeasesOn(a.key, active)) /\ a \in LeasesOn(a.key, active)
  BY FS_Subset DEF LeasesOn, Counts
<1>2. count[a.key] = Cardinality(LeasesOn(a.key, active))
  BY <1>0 DEF Counts
<1>3. count[a.key] # 0
  BY <1>1, <1>2, FS_EmptySet
<1>4. ASSUME count[a.key] = 1, NEW b \in active, b.key = a.key
      PROVE  b = a
  <2>1. PICK x : LeasesOn(a.key, active) = {x}
    BY <1>1, <1>2, <1>4, FS_Singleton
  <2> QED
    BY <2>1, <1>1, <1>4 DEF LeasesOn
<1> QED
  BY <1>3, <1>4

-----------------------------------------------------------------------------
(* The constructor's state satisfies the inductive invariant. *)
LEMMA InitIInv == Init => IInv
<1> SUFFICES ASSUME Init PROVE IInv
  OBVIOUS
<1> USE DEF Init
<1>1. TypeOK
  <2>1. handle \in [Holder -> Handle]
    BY DEF Handle, NoHandle
  <2>2. poisoned \in BOOLEAN
    BY Zenon
  <2>3. stage \in Stage /\ nextId \in Nat \ {0}
    BY DEF Stage
  <2> QED
    BY <2>1, <2>2, <2>3 DEF TypeOK
<1>2. Counts
  BY FS_EmptySet DEF Counts, LeasesOn
<1>3. LeaseIds /\ Handles /\ PendingCoversLeases /\ CommonWhenServing /\ OnlyServingLeases
  BY DEF LeaseIds, Handles, PendingCoversLeases, CommonWhenServing,
         OnlyServingLeases, NoHandle
<1>4. LeasedPagesResident /\ AdviceIsAccounted
  BY DEF LeasedPagesResident, AdviceIsAccounted
<1> QED
  BY <1>1, <1>2, <1>3, <1>4 DEF IInv

-----------------------------------------------------------------------------
(* Type correctness of a step. *)
LEMMA StepTypeOK == TypeOK /\ [Next]_vars => TypeOK'
<1> SUFFICES ASSUME TypeOK, [Next]_vars PROVE TypeOK'
  OBVIOUS
<1> USE PageAssumption DEF TypeOK
<1>1. CASE RetainCommon
  BY <1>1 DEF RetainCommon, Stage
<1>2. CASE RetainCommonFails
  BY <1>2 DEF RetainCommonFails, Stage, AdvisedBefore
<1>3. ASSUME NEW h \in Holder, NEW k \in Key, NEW S \in SUBSET Page, Acquire(h, k, S)
      PROVE  TypeOK'
  <2>1. [id |-> nextId, key |-> k, pages |-> S] \in Lease
    BY DEF Lease
  <2>2. [id |-> nextId, done |-> FALSE] \in Handle
    BY DEF Handle
  <2>3. handle' \in [Holder -> Handle] /\ active' \in SUBSET Lease
    BY <1>3, <2>1, <2>2 DEF Acquire
  <2>4. count' \in [Key -> Nat]
    BY <1>3 DEF Acquire
  <2>5. pending' \in [Key -> SUBSET Page]
    BY <1>3 DEF Acquire
  <2>6. nextId' \in Nat \ {0} /\ advised' \in SUBSET Page
    BY <1>3 DEF Acquire
  <2>7. UNCHANGED <<stage, common, poisoned, orphans>>
    BY <1>3 DEF Acquire
  <2> QED
    BY <2>3, <2>4, <2>5, <2>6, <2>7
<1>4. ASSUME NEW h \in Holder, NEW S \in SUBSET Page, AcquireFails(h, S)
      PROVE  TypeOK'
  BY <1>4 DEF AcquireFails, AdvisedBefore
<1>5. ASSUME NEW h \in Holder, MarkComplete(h)
      PROVE  TypeOK'
  BY <1>5 DEF MarkComplete, Handle
<1>6. ASSUME NEW h \in Holder, NEW g \in Holder, Move(h, g)
      PROVE  TypeOK'
  BY <1>6 DEF Move, Handle, NoHandle
<1>7. ASSUME NEW h \in Holder, ReleaseIncomplete(h)
      PROVE  TypeOK'
  BY <1>7 DEF ReleaseIncomplete, Handle, NoHandle
<1>8. ASSUME NEW h \in Holder, NEW a \in active, ReleaseShared(h, a)
      PROVE  TypeOK'
  BY <1>8 DEF ReleaseShared, Unlease, Handle, NoHandle, Lease
<1>9. ASSUME NEW h \in Holder, NEW a \in active, ReleaseLast(h, a)
      PROVE  TypeOK'
  <2>1. /\ handle' \in [Holder -> Handle]
        /\ active' \in SUBSET Lease
        /\ count' \in [Key -> Nat]
    BY <1>9 DEF ReleaseLast, Unlease, Handle, NoHandle, Lease
  <2>2. pending' \in [Key -> SUBSET Page]
    BY <1>9 DEF ReleaseLast
  <2> QED
    BY <1>9, <2>1, <2>2 DEF ReleaseLast, Unlease
<1>10. ASSUME NEW h \in Holder, NEW a \in active, ReleaseLastFails(h, a)
       PROVE  TypeOK'
  <2>1. /\ handle' \in [Holder -> Handle]
        /\ active' \in SUBSET Lease
        /\ count' \in [Key -> Nat]
    BY <1>10 DEF ReleaseLastFails, Unlease, Handle, NoHandle, Lease
  <2>2. pending' \in [Key -> SUBSET Page]
    BY <1>10 DEF ReleaseLastFails
  <2> QED
    BY <1>10, <2>1, <2>2 DEF ReleaseLastFails, Unlease
<1>11. CASE UNCHANGED vars
  BY <1>11 DEF vars
<1> QED
  BY <1>1, <1>2, <1>3, <1>4, <1>5, <1>6, <1>7, <1>8, <1>9, <1>10, <1>11
     DEF Next, Release

(* Every step of the coordinator ranges over its types. *)
THEOREM TypeCorrect == Spec => []TypeOK
<1>1. Init => TypeOK
  BY InitIInv DEF IInv
<1> QED
  BY <1>1, StepTypeOK, PTL DEF Spec

-----------------------------------------------------------------------------
(* Granting a lease keeps the invariant. *)
LEMMA AcquireKeepsIInv ==
  ASSUME IInv, TypeOK', NEW h \in Holder, NEW k \in Key, NEW S \in SUBSET Page,
         Acquire(h, k, S)
  PROVE  IInv'
<1> DEFINE x == [id |-> nextId, key |-> k, pages |-> S]
<1>1. /\ x \in Lease
      /\ x.id = nextId /\ x.key = k /\ x.pages = S
      /\ active \in SUBSET Lease
      /\ x \notin active
  BY DEF IInv, TypeOK, Lease, LeaseIds
<1>2. active' = active \cup {x}
  BY DEF Acquire
<1>3. handle' = [handle EXCEPT ![h] = [id |-> nextId, done |-> FALSE]]
  BY DEF Acquire
<1> HIDE DEF x
<1>4. LeaseIds'
  <2>1. nextId' = nextId + 1 /\ nextId > 0 /\ nextId \in Int
    BY DEF Acquire, IInv, TypeOK
  <2>2. \A a \in active : a.id > 0 /\ a.id < nextId /\ a.id \in Int
    BY DEF IInv, TypeOK, LeaseIds, Lease
  <2> QED
    BY <1>1, <1>2, <2>1, <2>2 DEF IInv, LeaseIds
<1>5. Handles'
  <2>1. \A a \in active : a.id # nextId
    BY DEF IInv, TypeOK, LeaseIds, Lease
  <2>2. /\ handle'[h].id = nextId
        /\ \A g \in Holder : g # h => handle'[g] = handle[g]
    BY <1>3 DEF IInv, TypeOK
  <2>3. ASSUME NEW g \in Holder, handle'[g].id # 0
        PROVE  /\ \E a \in active' : a.id = handle'[g].id
               /\ g # h => \E a \in active : a.id = handle'[g].id
    BY <1>1, <1>2, <2>2, <2>3 DEF IInv, Handles, Owns
  <2>4. ASSUME NEW f \in Holder, NEW g \in Holder, f # g, handle'[f].id # 0
        PROVE  handle'[f].id # handle'[g].id
    <3>1. CASE f # h /\ g # h
      BY <3>1, <2>2, <2>4 DEF IInv, Handles
    <3>2. CASE f = h
      BY <3>2, <2>1, <2>2, <2>3, <2>4
    <3>3. CASE g = h
      BY <3>3, <2>1, <2>2, <2>3, <2>4
    <3> QED
      BY <3>1, <3>2, <3>3
  <2> QED
    BY <2>3, <2>4 DEF Handles, Owns
<1>6. Counts'
  <2>1. IsFiniteSet(active')
    BY <1>2, FS_AddElement DEF IInv, Counts
  <2>2. ASSUME NEW j \in Key
        PROVE  count'[j] = Cardinality(LeasesOn(j, active'))
    <3>1. /\ Cardinality(LeasesOn(j, active)) \in Nat
          /\ Cardinality(LeasesOn(j, active \cup {x})) =
               Cardinality(LeasesOn(j, active)) + (IF x.key = j THEN 1 ELSE 0)
      BY <1>1, CountOfGrant DEF IInv, Counts
    <3>2. count[j] = Cardinality(LeasesOn(j, active))
      BY DEF IInv, Counts
    <3>3. count'[j] = count[j] + (IF k = j THEN 1 ELSE 0)
      BY DEF Acquire, IInv, TypeOK
    <3> QED
      BY <1>1, <1>2, <3>1, <3>2, <3>3
  <2> QED
    BY <2>1, <2>2 DEF Counts
<1>7. \A j \in Key : pending'[j] = IF j = k THEN pending[j] \cup S ELSE pending[j]
  BY DEF Acquire, IInv, TypeOK
<1>8. PendingCoversLeases'
  <2>1. \A a \in active : a.key \in Key
    BY DEF IInv, TypeOK, Lease
  <2> QED
    BY <1>1, <1>2, <1>7, <2>1 DEF IInv, PendingCoversLeases
<1>9. CommonWhenServing' /\ OnlyServingLeases'
  BY DEF Acquire, CanAcquire, IInv, CommonWhenServing, OnlyServingLeases
<1>10. LeasedPagesResident'
  BY <1>1, <1>2 DEF Acquire, IInv, LeasedPagesResident
<1>11. AdviceIsAccounted'
  <2>1. count'[k] > 0 /\ (\A j \in Key : count[j] > 0 => count'[j] > 0)
    BY DEF Acquire, IInv, TypeOK
  <2>2. Tracked \subseteq Tracked' /\ S \subseteq Tracked'
    BY <1>7, <2>1 DEF Tracked
  <2>3. advised \subseteq common \cup Tracked \cup orphans
    BY DEF Acquire, CanAcquire, IInv, AdviceIsAccounted
  <2> QED
    BY <2>2, <2>3 DEF Acquire, AdviceIsAccounted
<1> QED
  BY <1>4, <1>5, <1>6, <1>8, <1>9, <1>10, <1>11 DEF IInv

(* What every release that takes the lease out of the table has in common. *)
LEMMA UnleaseKeepsTable ==
  ASSUME IInv, TypeOK', NEW h \in Holder, NEW a \in active, Unlease(h, a)
  PROVE  LeaseIds' /\ Handles' /\ Counts' /\ CommonWhenServing' /\ OnlyServingLeases'
<1>1. active' = active \ {a} /\ active \in SUBSET Lease
  BY DEF Unlease, IInv, TypeOK
<1>2. LeaseIds'
  BY <1>1 DEF Unlease, IInv, LeaseIds
<1>3. Handles'
  <2>1. /\ handle'[h].id = 0
        /\ \A g \in Holder : g # h => handle'[g] = handle[g]
    BY DEF Unlease, IInv, TypeOK, NoHandle
  <2>2. handle[h].id # 0 /\ a.id = handle[h].id
    BY DEF Unlease, Owns
  <2>3. ASSUME NEW g \in Holder, handle'[g].id # 0
        PROVE  \E b \in active' : b.id = handle'[g].id
    <3>1. g # h /\ handle'[g] = handle[g]
      BY <2>1, <2>3
    <3>2. PICK b \in active : b.id = handle[g].id
      BY <2>3, <3>1 DEF IInv, Handles, Owns
    <3>3. b # a
      BY <2>2, <2>3, <3>1, <3>2 DEF IInv, Handles
    <3> QED
      BY <1>1, <3>1, <3>2, <3>3
  <2>4. ASSUME NEW f \in Holder, NEW g \in Holder, f # g, handle'[f].id # 0
        PROVE  handle'[f].id # handle'[g].id
    BY <2>1, <2>4 DEF IInv, Handles
  <2> QED
    BY <2>3, <2>4 DEF Handles, Owns
<1>4. Counts'
  <2>1. IsFiniteSet(active')
    BY <1>1, FS_Subset DEF IInv, Counts
  <2>2. ASSUME NEW j \in Key
        PROVE  count'[j] = Cardinality(LeasesOn(j, active'))
    <3>1. /\ Cardinality(LeasesOn(j, active)) \in Nat
          /\ Cardinality(LeasesOn(j, active \ {a})) \in Nat
          /\ Cardinality(LeasesOn(j, active)) =
               Cardinality(LeasesOn(j, active \ {a})) + (IF a.key = j THEN 1 ELSE 0)
      BY <1>1, CountOfRelease DEF IInv, Counts
    <3>2. count[j] = Cardinality(LeasesOn(j, active))
      BY DEF IInv, Counts
    <3>3. count'[j] = count[j] - (IF a.key = j THEN 1 ELSE 0)
      <4>1. a.key \in Key
        BY <1>1 DEF Lease
      <4> QED
        BY <4>1 DEF Unlease, IInv, TypeOK
    <3> QED
      BY <1>1, <3>1, <3>2, <3>3
  <2> QED
    BY <2>1, <2>2 DEF Counts
<1>5. CommonWhenServing' /\ OnlyServingLeases'
  BY <1>1 DEF Unlease, IInv, CommonWhenServing, OnlyServingLeases
<1> QED
  BY <1>2, <1>3, <1>4, <1>5

(* Dropping pages the last release may drop takes none from a lease. *)
LEMMA DropSparesLeases ==
  ASSUME IInv, NEW h \in Holder, NEW a \in active, Unlease(h, a),
         NEW D \in SUBSET Releasable(a), advised' = advised \ D
  PROVE  LeasedPagesResident'
<1>1. active' = active \ {a}
  BY DEF Unlease
<1>2. \A b \in active' : b.pages \cap D = {}
  BY <1>1 DEF Releasable, InUse
<1>3. stage' = stage /\ (stage = "serving" => CommonPages \cap D = {})
  BY DEF Unlease, Releasable, IInv, CommonWhenServing
<1> QED
  BY <1>1, <1>2, <1>3 DEF IInv, LeasedPagesResident

(* The last lease of a region goes: pending is cleared for no other lease. *)
LEMMA ClearingPending ==
  ASSUME IInv, NEW h \in Holder, NEW a \in active, Unlease(h, a), count[a.key] = 1,
         pending' = [pending EXCEPT ![a.key] = {}]
  PROVE  /\ PendingCoversLeases'
         /\ \A b \in active' : b.key # a.key /\ b.key \in Key /\ count'[b.key] > 0
<1>1. active' = active \ {a} /\ active \in SUBSET Lease /\ a.key \in Key
  BY DEF Unlease, IInv, TypeOK, Lease
<1>2. \A b \in active : b.key = a.key => b = a
  BY <1>1, LeaseCounts DEF IInv
<1>3. \A b \in active' : b.key # a.key /\ b.key \in Key /\ b \in active
  BY <1>1, <1>2 DEF Lease
<1>4. \A b \in active' : pending'[b.key] = pending[b.key] /\ count'[b.key] = count[b.key]
  BY <1>1, <1>3 DEF Unlease, IInv, TypeOK
<1>5. \A b \in active : count[b.key] # 0
  BY <1>1, LeaseCounts DEF IInv
<1>6. PendingCoversLeases'
  BY <1>3, <1>4 DEF IInv, PendingCoversLeases
<1>7. ASSUME NEW b \in active'
      PROVE  count'[b.key] > 0
  BY <1>3, <1>4, <1>5 DEF IInv, TypeOK
<1> QED
  BY <1>3, <1>6, <1>7

(* Every way a lease can be given back keeps the inductive invariant. *)
LEMMA ReleaseKeepsIInv ==
  ASSUME IInv, TypeOK', NEW h \in Holder, Release(h)
  PROVE  IInv'
<1>1. CASE ReleaseIncomplete(h)
  <2> USE <1>1 DEF ReleaseIncomplete
  <2>1. Handles'
    <3>1. /\ handle'[h].id = 0
          /\ \A g \in Holder : g # h => handle'[g] = handle[g]
      BY DEF IInv, TypeOK, NoHandle
    <3> QED
      BY <3>1 DEF IInv, Handles, Owns
  <2>2. LeaseIds' /\ Counts' /\ PendingCoversLeases' /\ CommonWhenServing'
    BY DEF IInv, LeaseIds, Counts, PendingCoversLeases, CommonWhenServing
  <2>3. OnlyServingLeases'
    BY DEF IInv, Handles, OnlyServingLeases
  <2>4. LeasedPagesResident' /\ AdviceIsAccounted'
    BY DEF IInv, LeasedPagesResident, AdviceIsAccounted
  <2> QED
    BY <2>1, <2>2, <2>3, <2>4 DEF IInv
<1>2. ASSUME NEW a \in active, ReleaseShared(h, a)
      PROVE  IInv'
  <2>1. Unlease(h, a) /\ advised' = advised \ {} /\ active' = active \ {a}
    BY <1>2 DEF ReleaseShared, Unlease
  <2>2. LeasedPagesResident'
    BY <2>1, DropSparesLeases
  <2>3. PendingCoversLeases'
    BY <1>2, <2>1 DEF ReleaseShared, IInv, PendingCoversLeases
  <2>4. AdviceIsAccounted'
    <3>1. a.key \in Key
      BY DEF IInv, TypeOK, Lease
    <3>2. \A k \in Key : count[k] > 0 => count'[k] > 0
      BY <1>2, <3>1 DEF ReleaseShared, Unlease, IInv, TypeOK
    <3>3. Tracked \subseteq Tracked'
      BY <1>2, <3>2 DEF ReleaseShared, Tracked
    <3> QED
      BY <1>2, <2>1, <3>3 DEF ReleaseShared, Unlease, IInv, AdviceIsAccounted
  <2> QED
    BY <2>1, <2>2, <2>3, <2>4, UnleaseKeepsTable DEF IInv
<1>3. ASSUME NEW a \in active, ReleaseLast(h, a)
      PROVE  IInv'
  <2>1. /\ Unlease(h, a) /\ count[a.key] = 1
        /\ pending' = [pending EXCEPT ![a.key] = {}]
        /\ advised' = advised \ Releasable(a)
        /\ orphans' = orphans \ Releasable(a)
        /\ poisoned' = poisoned /\ stage' = stage /\ common' = common
        /\ active' = active \ {a}
    BY <1>3 DEF ReleaseLast, Unlease
  <2>2. LeasedPagesResident'
    BY <2>1, DropSparesLeases
  <2>3. /\ PendingCoversLeases'
        /\ \A b \in active' : b.key # a.key /\ b.key \in Key /\ count'[b.key] > 0
    BY <2>1, ClearingPending
  <2>4. AdviceIsAccounted'
    <3> SUFFICES ASSUME ~poisoned, stage = "serving",
                        NEW p \in advised', p \notin common, p \notin orphans'
                 PROVE  p \in Tracked'
      BY <2>1 DEF AdviceIsAccounted
    <3>1. p \in Tracked /\ p \notin Releasable(a)
      BY <2>1 DEF IInv, AdviceIsAccounted
    <3>2. CASE \E b \in active' : p \in b.pages
      BY <2>3, <3>2 DEF PendingCoversLeases, Tracked
    <3>3. CASE ~ \E b \in active' : p \in b.pages
      <4>1. p \notin pending[a.key]
        BY <2>1, <3>1, <3>3 DEF Releasable, InUse
      <4>2. PICK k \in Key : count[k] > 0 /\ p \in pending[k]
        BY <3>1 DEF Tracked
      <4>3. count'[k] = count[k] /\ pending'[k] = pending[k]
        BY <2>1, <4>1, <4>2 DEF Unlease, IInv, TypeOK
      <4> QED
        BY <4>2, <4>3 DEF Tracked
    <3> QED
      BY <3>2, <3>3
  <2> QED
    BY <2>1, <2>2, <2>3, <2>4, UnleaseKeepsTable DEF IInv
<1>4. ASSUME NEW a \in active, ReleaseLastFails(h, a)
      PROVE  IInv'
  <2>1. /\ Unlease(h, a) /\ count[a.key] = 1
        /\ pending' = [pending EXCEPT ![a.key] = {}]
        /\ poisoned' = TRUE
    BY <1>4 DEF ReleaseLastFails
  <2>2. PICK D \in SUBSET Releasable(a) : advised' = advised \ D
    BY <1>4 DEF ReleaseLastFails, AdvisedBefore
  <2>3. LeasedPagesResident'
    BY <2>1, <2>2, DropSparesLeases
  <2>4. PendingCoversLeases'
    BY <2>1, ClearingPending
  <2>5. AdviceIsAccounted'
    BY <2>1 DEF AdviceIsAccounted
  <2> QED
    BY <2>1, <2>3, <2>4, <2>5, UnleaseKeepsTable DEF IInv
<1> QED
  BY <1>1, <1>2, <1>3, <1>4 DEF Release

-----------------------------------------------------------------------------
(* So does every step of the coordinator. *)
LEMMA StepIInv == IInv /\ [Next]_vars => IInv'
<1> SUFFICES ASSUME IInv, [Next]_vars PROVE IInv'
  OBVIOUS
<1>0. TypeOK'
  BY StepTypeOK DEF IInv
<1>1. CASE RetainCommon
  <2> USE <1>1 DEF RetainCommon
  <2>1. LeaseIds' /\ Handles' /\ Counts' /\ PendingCoversLeases'
    BY DEF IInv, LeaseIds, Handles, Owns, Counts, PendingCoversLeases
  <2>2. CommonWhenServing' /\ OnlyServingLeases' /\ LeasedPagesResident'
    BY DEF IInv, CommonWhenServing, OnlyServingLeases, LeasedPagesResident
  <2>3. AdviceIsAccounted'
    BY DEF IInv, OnlyServingLeases, AdviceIsAccounted
  <2> QED
    BY <1>0, <2>1, <2>2, <2>3 DEF IInv
<1>2. CASE RetainCommonFails
  <2> USE <1>2 DEF RetainCommonFails
  <2>1. LeaseIds' /\ Handles' /\ Counts' /\ PendingCoversLeases'
    BY DEF IInv, LeaseIds, Handles, Owns, Counts, PendingCoversLeases
  <2>2. CommonWhenServing' /\ OnlyServingLeases' /\ LeasedPagesResident' /\ AdviceIsAccounted'
    BY DEF IInv, CommonWhenServing, OnlyServingLeases, LeasedPagesResident, AdviceIsAccounted
  <2> QED
    BY <1>0, <2>1, <2>2 DEF IInv
<1>3. ASSUME NEW h \in Holder, NEW k \in Key, NEW S \in SUBSET Page, Acquire(h, k, S)
      PROVE  IInv'
  BY <1>0, <1>3, AcquireKeepsIInv
<1>4. ASSUME NEW h \in Holder, NEW S \in SUBSET Page, AcquireFails(h, S)
      PROVE  IInv'
  <2> USE <1>4 DEF AcquireFails
  <2>1. LeaseIds' /\ Handles' /\ Counts' /\ PendingCoversLeases'
    BY DEF IInv, LeaseIds, Handles, Owns, Counts, PendingCoversLeases
  <2>2. CommonWhenServing' /\ OnlyServingLeases' /\ LeasedPagesResident'
    BY DEF CanAcquire, IInv, CommonWhenServing, OnlyServingLeases, LeasedPagesResident
  <2>3. AdviceIsAccounted'
    BY DEF IInv, AdviceIsAccounted, Tracked
  <2> QED
    BY <1>0, <2>1, <2>2, <2>3 DEF IInv
<1>5. ASSUME NEW h \in Holder, MarkComplete(h)
      PROVE  IInv'
  <2> USE <1>5 DEF MarkComplete
  <2>1. \A g \in Holder : handle'[g].id = handle[g].id
    BY DEF IInv, TypeOK, Handle
  <2>2. Handles'
    BY <2>1 DEF IInv, Handles, Owns
  <2>3. LeaseIds' /\ Counts' /\ PendingCoversLeases' /\ CommonWhenServing' /\ OnlyServingLeases'
    BY DEF IInv, LeaseIds, Counts, PendingCoversLeases, CommonWhenServing, OnlyServingLeases
  <2>4. LeasedPagesResident' /\ AdviceIsAccounted'
    BY DEF IInv, LeasedPagesResident, AdviceIsAccounted, Tracked
  <2> QED
    BY <1>0, <2>2, <2>3, <2>4 DEF IInv
<1>6. ASSUME NEW h \in Holder, NEW g \in Holder, Move(h, g)
      PROVE  IInv'
  <2> USE <1>6 DEF Move
  <2>1. /\ h # g
        /\ handle'[g].id = handle[h].id /\ handle'[h].id = 0
        /\ \A f \in Holder : f # g /\ f # h => handle'[f].id = handle[f].id
    BY DEF IInv, TypeOK, NoHandle
  <2>2. Handles'
    <3>1. ASSUME NEW f \in Holder, handle'[f].id # 0
          PROVE  \E a \in active : a.id = handle'[f].id
      <4>1. \A e \in Holder : handle[e].id # 0 => \E a \in active : a.id = handle[e].id
        BY DEF IInv, Handles, Owns
      <4>2. CASE f = g
        BY <2>1, <3>1, <4>1, <4>2
      <4>3. CASE f # g
        BY <2>1, <3>1, <4>1, <4>3
      <4> QED
        BY <4>2, <4>3
    <3>2. ASSUME NEW e \in Holder, NEW f \in Holder, e # f, handle'[e].id # 0
          PROVE  handle'[e].id # handle'[f].id
      BY <2>1, <3>2 DEF IInv, Handles
    <3> QED
      BY <3>1, <3>2 DEF Handles, Owns
  <2>3. LeaseIds' /\ Counts' /\ PendingCoversLeases' /\ CommonWhenServing' /\ OnlyServingLeases'
    BY DEF IInv, LeaseIds, Counts, PendingCoversLeases, CommonWhenServing, OnlyServingLeases
  <2>4. LeasedPagesResident' /\ AdviceIsAccounted'
    BY DEF IInv, LeasedPagesResident, AdviceIsAccounted, Tracked
  <2> QED
    BY <1>0, <2>2, <2>3, <2>4 DEF IInv
<1>7. ASSUME NEW h \in Holder, Release(h)
      PROVE  IInv'
  BY <1>0, <1>7, ReleaseKeepsIInv
<1>8. CASE UNCHANGED vars
  <2> USE <1>8 DEF vars
  <2>1. LeaseIds' /\ Handles' /\ Counts' /\ PendingCoversLeases'
    BY DEF IInv, LeaseIds, Handles, Owns, Counts, PendingCoversLeases
  <2>2. CommonWhenServing' /\ OnlyServingLeases' /\ LeasedPagesResident' /\ AdviceIsAccounted'
    BY DEF IInv, CommonWhenServing, OnlyServingLeases, LeasedPagesResident,
           AdviceIsAccounted, Tracked
  <2> QED
    BY <1>0, <2>1, <2>2 DEF IInv
<1> QED
  BY <1>1, <1>2, <1>3, <1>4, <1>5, <1>6, <1>7, <1>8 DEF Next

(* Hence it holds in every state the coordinator can reach. *)
LEMMA Inductive == Spec => []IInv
BY InitIInv, StepIInv, PTL DEF Spec

(* No release advises away a page that some active lease still covers, nor *)
(* a common page.                                                          *)
THEOREM LeasedPagesStayResident == Spec => []LeasedPagesResident
<1>1. IInv => LeasedPagesResident
  BY DEF IInv
<1> QED
  BY <1>1, Inductive, PTL

(* The accounting underflow branch of release is unreachable. *)
THEOREM AccountingNeverUnderflows == Spec => []CountsMatchLeases
<1>1. IInv => CountsMatchLeases
  BY DEF IInv, Counts, Handles, CountsMatchLeases
<1> QED
  BY <1>1, Inductive, PTL

(* Every advised page is one that some release will hand back. *)
THEOREM NoAdviceIsForgotten == Spec => []AdviceIsAccounted
<1>1. IInv => AdviceIsAccounted
  BY DEF IInv
<1> QED
  BY <1>1, Inductive, PTL

(* With no lease active, only the common pages are held. *)
THEOREM QuiescenceHoldsCommonOnly == Spec => []QuiescentModelHoldsCommonOnly
<1>1. IInv => QuiescentModelHoldsCommonOnly
  <2> SUFFICES ASSUME IInv, active = {}
               PROVE  Tracked = {}
    BY DEF QuiescentModelHoldsCommonOnly, IInv, AdviceIsAccounted
  <2>1. \A k \in Key : LeasesOn(k, active) = {}
    BY DEF LeasesOn
  <2>2. \A k \in Key : count[k] = 0
    BY <2>1, FS_EmptySet DEF IInv, Counts
  <2> QED
    BY <2>2 DEF Tracked
<1> QED
  BY <1>1, Inductive, PTL

(* Poison is for good: no lease is granted and no page advised after it. *)
THEOREM PoisonStays == Spec => PoisonIsFinal
<1> DEFINE Final == poisoned' /\ nextId' = nextId /\ advised' \subseteq advised
<1>1. IInv /\ [Next]_vars => [poisoned => Final]_vars
  <2> SUFFICES ASSUME IInv, Next, poisoned PROVE Final
    OBVIOUS
  <2>1. stage = "serving"
    BY DEF IInv, OnlyServingLeases
  <2>2. ~RetainCommon /\ ~RetainCommonFails
    BY <2>1 DEF RetainCommon, RetainCommonFails
  <2>3. \A h \in Holder, S \in SUBSET Page :
          ~AcquireFails(h, S) /\ \A k \in Key : ~Acquire(h, k, S)
    BY DEF Acquire, AcquireFails, CanAcquire
  <2>4. ASSUME NEW h \in Holder, MarkComplete(h) PROVE Final
    BY <2>4 DEF MarkComplete
  <2>5. ASSUME NEW h \in Holder, NEW g \in Holder, Move(h, g) PROVE Final
    BY <2>5 DEF Move
  <2>6. ASSUME NEW h \in Holder, ReleaseIncomplete(h) PROVE Final
    BY <2>6 DEF ReleaseIncomplete
  <2>7. ASSUME NEW h \in Holder, NEW a \in active, Unlease(h, a),
               ReleaseShared(h, a) \/ ReleaseLast(h, a)
        PROVE  Final
    BY <2>7 DEF ReleaseShared, ReleaseLast, Unlease
  <2>8. ASSUME NEW h \in Holder, NEW a \in active, ReleaseLastFails(h, a)
        PROVE  Final
    BY <2>8 DEF ReleaseLastFails, Unlease
  <2>9. ASSUME NEW h \in Holder, Release(h) PROVE Final
    <3>1. \A a \in active : ReleaseShared(h, a) \/ ReleaseLast(h, a) => Unlease(h, a)
      BY DEF ReleaseShared, ReleaseLast
    <3> QED
      BY <2>6, <2>7, <2>8, <2>9, <3>1 DEF Release
  <2> QED
    BY <2>2, <2>3, <2>4, <2>5, <2>9 DEF Next
<1> QED
  BY <1>1, Inductive, PTL DEF Spec, PoisonIsFinal

-----------------------------------------------------------------------------
(* The refinement of PageResidency.  Its mapping speaks of the leases a     *)
(* holder owns and of those nobody owns any more.                           *)
OwnedBy(h) == {b \in active : Owns(h, b)}

Ownerless == {b \in active : \A h \in Holder : ~Owns(h, b)}

(* A lease covers pages, and loses its owner only by poisoning. *)
LeasesAreOwned ==
  \A a \in active : a.pages # {} /\ (poisoned \/ \E h \in Holder : Owns(h, a))

(* A grant gives its holder one lease and disturbs nobody else's. *)
LEMMA GrantGivesOne ==
  ASSUME IInv, NEW h \in Holder, NEW k \in Key, NEW S \in SUBSET Page, Acquire(h, k, S)
  PROVE  /\ OwnedBy(h) = {}
         /\ OwnedBy(h)' = {[id |-> nextId, key |-> k, pages |-> S]}
         /\ \A g \in Holder \ {h} : OwnedBy(g)' = OwnedBy(g)
         /\ Ownerless' = Ownerless
<1> DEFINE x == [id |-> nextId, key |-> k, pages |-> S]
<1> USE DEF IInv, TypeOK, Acquire, CanAcquire
<1>1. /\ active' = active \cup {x} /\ x.id = nextId /\ nextId # 0
      /\ handle[h].id = 0 /\ handle'[h].id = nextId
      /\ \A g \in Holder \ {h} : handle'[g] = handle[g]
  BY DEF NoHandle
<1>2. \A b \in active : b.id # nextId
  BY DEF LeaseIds, Lease
<1>3. \A g \in Holder : handle[g].id # nextId
  BY <1>1, <1>2 DEF Handles, Owns
<1> HIDE DEF x, IInv, TypeOK, Acquire, CanAcquire
<1>4. OwnedBy(h) = {} /\ OwnedBy(h)' = {x}
  BY <1>1, <1>2 DEF OwnedBy, Owns
<1>5. \A g \in Holder \ {h} : OwnedBy(g)' = OwnedBy(g)
  BY <1>1, <1>3 DEF OwnedBy, Owns
<1>6. Ownerless' = Ownerless
  BY <1>1, <1>2, <1>3 DEF Ownerless, Owns
<1> QED
  BY <1>4, <1>5, <1>6 DEF x

(* Who owns a lease owns that one alone. *)
LEMMA OwnsOne ==
  ASSUME IInv, NEW h \in Holder, handle[h].id # 0
  PROVE  \E a \in active :
           /\ OwnedBy(h) = {a}
           /\ Owns(h, a)
           /\ \A g \in Holder \ {h} : ~Owns(g, a)
           /\ a \notin Ownerless
<1>1. PICK a \in active : Owns(h, a)
  BY DEF IInv, Handles
<1>2. OwnedBy(h) = {a}
  BY <1>1 DEF OwnedBy, Owns, IInv, LeaseIds
<1>3. \A g \in Holder \ {h} : ~Owns(g, a)
  BY <1>1 DEF Owns, IInv, Handles
<1> QED
  BY <1>1, <1>2, <1>3 DEF Ownerless

(* The handle of h is emptied, whatever becomes of its lease. *)
LEMMA EmptyingDisturbsNobody ==
  ASSUME IInv, NEW h \in Holder, NEW a \in active, Owns(h, a),
         handle' = [handle EXCEPT ![h] = NoHandle],
         active' \in {active, active \ {a}}
  PROVE  /\ OwnedBy(h) = {a} /\ OwnedBy(h)' = {}
         /\ \A g \in Holder \ {h} : OwnedBy(g)' = OwnedBy(g)
         /\ Ownerless' = IF active' = active THEN Ownerless \cup {a} ELSE Ownerless
<1>1. /\ handle'[h].id = 0
      /\ \A g \in Holder \ {h} : handle'[g] = handle[g]
  BY DEF IInv, TypeOK, NoHandle
<1>2. /\ OwnedBy(h) = {a} /\ a \notin Ownerless
      /\ \A g \in Holder \ {h} : ~Owns(g, a)
  BY OwnsOne DEF Owns, IInv, LeaseIds
<1>3. OwnedBy(h)' = {}
  BY <1>1 DEF OwnedBy, Owns
<1>4. \A g \in Holder \ {h} : OwnedBy(g)' = OwnedBy(g)
  BY <1>1, <1>2 DEF OwnedBy, Owns
<1>5. \A b \in active \ {a} : Owns(h, b) <=> FALSE
  BY <1>2 DEF OwnedBy
<1>6. \A b \in active \ {a} : (\A g \in Holder : ~Owns(g, b))' <=> \A g \in Holder : ~Owns(g, b)
  BY <1>1, <1>5 DEF Owns
<1>7. (\A g \in Holder : ~Owns(g, a))'
  BY <1>1, <1>2 DEF Owns
<1>8. active' = active => Ownerless' = Ownerless \cup {a}
  BY <1>6, <1>7 DEF Ownerless
<1>9. active' = active \ {a} => Ownerless' = Ownerless
  BY <1>2, <1>6 DEF Ownerless
<1> QED
  BY <1>2, <1>3, <1>4, <1>8, <1>9

(* No step but a refused release leaves a lease without an owner. *)
LEMMA StepLeasesAreOwned ==
  ASSUME IInv, LeasesAreOwned, [Next]_vars
  PROVE  LeasesAreOwned'
<1> USE DEF LeasesAreOwned
<1>1. ASSUME active' = active, \A h \in Holder : handle'[h].id = handle[h].id,
             poisoned' = poisoned
      PROVE  LeasesAreOwned'
  BY <1>1 DEF Owns
<1>2. CASE UNCHANGED vars \/ RetainCommon \/ RetainCommonFails
  BY <1>1, <1>2 DEF vars, RetainCommon, RetainCommonFails
<1>3. ASSUME NEW h \in Holder, NEW k \in Key, NEW S \in SUBSET Page, Acquire(h, k, S)
      PROVE  LeasesAreOwned'
  <2> DEFINE x == [id |-> nextId, key |-> k, pages |-> S]
  <2>1. active' = active \cup {x} /\ poisoned' = poisoned /\ S # {}
    BY <1>3 DEF Acquire, CanAcquire
  <2>2. x.pages # {} /\ x \in OwnedBy(h)'
    BY <1>3, <2>1, GrantGivesOne
  <2>3. ASSUME NEW a \in active, NEW g \in Holder, Owns(g, a)
        PROVE  \E f \in Holder : Owns(f, a)'
    <3>1. OwnedBy(h) = {} /\ \A f \in Holder \ {h} : OwnedBy(f)' = OwnedBy(f)
      BY <1>3, GrantGivesOne
    <3> QED
      BY <2>3, <3>1 DEF OwnedBy
  <2> HIDE DEF x
  <2> QED
    BY <2>1, <2>2, <2>3 DEF OwnedBy
<1>4. ASSUME NEW h \in Holder, NEW S \in SUBSET Page, AcquireFails(h, S)
      PROVE  LeasesAreOwned'
  BY <1>1, <1>4 DEF AcquireFails
<1>5. ASSUME NEW h \in Holder, MarkComplete(h)
      PROVE  LeasesAreOwned'
  BY <1>1, <1>5 DEF MarkComplete, IInv, TypeOK, Handle
<1>6. ASSUME NEW h \in Holder, NEW g \in Holder, Move(h, g)
      PROVE  LeasesAreOwned'
  <2>1. /\ active' = active /\ poisoned' = poisoned /\ handle[g].id = 0 /\ h # g
        /\ handle'[g].id = handle[h].id
        /\ \A f \in Holder \ {h, g} : handle'[f].id = handle[f].id
    BY <1>6 DEF Move, NoHandle, IInv, TypeOK
  <2>2. ASSUME NEW a \in active, NEW f \in Holder, Owns(f, a)
        PROVE  \E e \in Holder : Owns(e, a)'
    BY <2>1, <2>2 DEF Owns
  <2> QED
    BY <2>1, <2>2
<1>7. ASSUME NEW h \in Holder, ReleaseIncomplete(h)
      PROVE  LeasesAreOwned'
  BY <1>7 DEF ReleaseIncomplete
<1>8. ASSUME NEW h \in Holder, NEW a \in active,
             ReleaseShared(h, a) \/ ReleaseLast(h, a) \/ ReleaseLastFails(h, a)
      PROVE  LeasesAreOwned'
  <2>1. Unlease(h, a) /\ (poisoned' = poisoned \/ poisoned')
    BY <1>8 DEF ReleaseShared, ReleaseLast, ReleaseLastFails
  <2>2. \A b \in active' : b \in active /\ b # a
    BY <2>1 DEF Unlease
  <2>3. /\ OwnedBy(h) = {a}
        /\ \A g \in Holder \ {h} : OwnedBy(g)' = OwnedBy(g)
    BY <2>1, EmptyingDisturbsNobody DEF Unlease
  <2>4. ASSUME NEW b \in active', NEW g \in Holder, Owns(g, b)
        PROVE  \E e \in Holder : Owns(e, b)'
    BY <2>2, <2>3, <2>4 DEF OwnedBy
  <2> QED
    BY <2>1, <2>2, <2>4
<1> QED
  BY <1>2, <1>3, <1>4, <1>5, <1>6, <1>7, <1>8 DEF Next, Release

(* The pages a set of leases covers. *)
LEMMA PagesOfOne ==
  /\ UNION {a.pages : a \in {}} = {}
  /\ \A x : UNION {a.pages : a \in {x}} = x.pages
  /\ \A A, x : UNION {a.pages : a \in A \cup {x}} = (UNION {a.pages : a \in A}) \cup x.pages
<1>1. \A x : UNION {a.pages : a \in {x}} = x.pages
  OBVIOUS
<1> QED
  BY <1>1

(* Every lease is somebody's or nobody's. *)
LEMMA HeldOrAbandoned == InUse(active) = Abandoned \cup Promise!Everyone
<1>1. Promise!Everyone = UNION {UNION {a.pages : a \in OwnedBy(h)} : h \in Holder}
  BY DEF Promise!Everyone, PagesHeld, OwnedBy
<1>2. Abandoned = UNION {a.pages : a \in Ownerless}
  BY DEF Abandoned, Ownerless
<1> QED
  BY <1>1, <1>2 DEF InUse, OwnedBy, Ownerless

(* What the mapping makes of each step of the coordinator. *)
LEMMA HeldAfterEmptying ==
  ASSUME IInv, NEW h \in Holder, NEW a \in active, Owns(h, a), a.pages # {},
         handle' = [handle EXCEPT ![h] = NoHandle],
         active' \in {active, active \ {a}}
  PROVE  /\ PagesHeld[h] = a.pages /\ PagesHeld[h] # {}
         /\ PagesHeld' = [PagesHeld EXCEPT ![h] = {}]
         /\ Abandoned' = IF active' = active THEN Abandoned \cup PagesHeld[h] ELSE Abandoned
<1>1. /\ OwnedBy(h) = {a} /\ OwnedBy(h)' = {}
      /\ \A g \in Holder \ {h} : OwnedBy(g)' = OwnedBy(g)
      /\ Ownerless' = IF active' = active THEN Ownerless \cup {a} ELSE Ownerless
  BY EmptyingDisturbsNobody
<1>2. /\ PagesHeld = [g \in Holder |-> UNION {b.pages : b \in OwnedBy(g)}]
      /\ PagesHeld' = [g \in Holder |-> UNION {b.pages : b \in OwnedBy(g)'}]
  BY DEF PagesHeld, OwnedBy
<1>3. /\ Abandoned = UNION {b.pages : b \in Ownerless}
      /\ Abandoned' = UNION {b.pages : b \in Ownerless'}
  BY DEF Abandoned, Ownerless
<1>4. PagesHeld[h] = a.pages /\ PagesHeld'[h] = {}
  BY <1>1, <1>2, PagesOfOne
<1>5. PagesHeld' = [PagesHeld EXCEPT ![h] = {}]
  BY <1>1, <1>2, <1>4
<1>6. Abandoned' = IF active' = active THEN Abandoned \cup PagesHeld[h] ELSE Abandoned
  BY <1>1, <1>3, <1>4, PagesOfOne
<1> QED
  BY <1>4, <1>5, <1>6

LEMMA HeldUnchanged ==
  ASSUME active' = active, \A h \in Holder : handle'[h].id = handle[h].id
  PROVE  PagesHeld' = PagesHeld /\ Abandoned' = Abandoned
BY DEF PagesHeld, Abandoned, Owns

(* Giving a lease back hands back what nobody else relies on, and, when it *)
(* was the last one, everything but the common pages.                      *)
LEMMA ReleaseLetsGo ==
  ASSUME IInv, IInv', LeasesAreOwned, LeasesAreOwned',
         NEW h \in Holder, NEW a \in active, Unlease(h, a),
         NEW D \in SUBSET Page, NEW fails \in BOOLEAN,
         D \subseteq Releasable(a) \/ D = {},
         advised' = advised \ D, orphans' = orphans \ D,
         poisoned' = (poisoned \/ fails)
  PROVE  Promise!LetGo(h, D, fails)
<1>1. /\ Owns(h, a) /\ a.pages # {} /\ stage = "serving" /\ stage' = stage
      /\ handle' = [handle EXCEPT ![h] = NoHandle]
      /\ active' = active \ {a} /\ active' # active
      /\ common = CommonPages /\ common' = common
  BY DEF Unlease, LeasesAreOwned, IInv, OnlyServingLeases, CommonWhenServing
<1>2. /\ PagesHeld[h] # {} /\ PagesHeld' = [PagesHeld EXCEPT ![h] = {}]
      /\ Abandoned' = Abandoned
  BY <1>1, HeldAfterEmptying
<1>3. InUse(active') = Abandoned' \cup Promise!Everyone'
  <2>1. Promise!Everyone' = UNION {UNION {b.pages : b \in OwnedBy(g)'} : g \in Holder}
    BY DEF Promise!Everyone, PagesHeld, OwnedBy
  <2>2. Abandoned' = UNION {b.pages : b \in Ownerless'}
    BY DEF Abandoned, Ownerless
  <2> QED
    BY <2>1, <2>2 DEF InUse, OwnedBy, Ownerless
<1>4. D \cap (CommonPages \cup Abandoned \cup Promise!Everyone') = {}
  BY <1>1, <1>2, <1>3 DEF Releasable
<1>5. ASSUME Promise!Everyone' = {}, ~poisoned'
      PROVE  advised' \subseteq CommonPages \cup orphans'
  <2>1. \A b \in active' : b.pages # {} /\ \E g \in Holder : b \in OwnedBy(g)'
    BY <1>5 DEF LeasesAreOwned, OwnedBy
  <2>2. \A g \in Holder : \A b \in OwnedBy(g)' : b.pages \subseteq Promise!Everyone'
    BY DEF Promise!Everyone, PagesHeld, OwnedBy
  <2>3. active' = {}
    BY <1>5, <2>1, <2>2
  <2>4. \A k \in Key : count'[k] = 0
    <3>1. \A k \in Key : LeasesOn(k, active') = {}
      BY <2>3 DEF LeasesOn
    <3> QED
      BY <3>1, FS_EmptySet DEF IInv, Counts
  <2>5. Tracked' = {}
    BY <2>4 DEF Tracked
  <2> QED
    BY <1>1, <1>5, <2>5 DEF IInv, AdviceIsAccounted
<1> QED
  BY <1>1, <1>2, <1>4, <1>5 DEF Promise!LetGo

(* Every step of the coordinator is one the promise allows, or invisible. *)
LEMMA StepKeepsPromise ==
  ASSUME IInv, IInv', LeasesAreOwned, LeasesAreOwned', [Next]_vars
  PROVE  [Promise!Next]_(Promise!vars)
<1> DEFINE Invisible == UNCHANGED <<stage, PagesHeld, Abandoned, advised, orphans, poisoned>>
<1> SUFFICES Promise!Next \/ Invisible
  BY DEF Promise!vars
<1>1. CASE UNCHANGED vars
  BY <1>1, HeldUnchanged DEF vars
<1>2. CASE RetainCommon
  BY <1>2, HeldUnchanged DEF RetainCommon, Promise!Start, Promise!Next
<1>3. CASE RetainCommonFails
  BY <1>3, HeldUnchanged
  DEF RetainCommonFails, AdvisedBefore, IInv, OnlyServingLeases, Promise!StartFails, Promise!Next
<1>4. ASSUME NEW h \in Holder, NEW k \in Key, NEW S \in SUBSET Page, Acquire(h, k, S)
      PROVE  Promise!Take(h, S)
  <2>1. /\ OwnedBy(h) = {}
        /\ OwnedBy(h)' = {[id |-> nextId, key |-> k, pages |-> S]}
        /\ \A g \in Holder \ {h} : OwnedBy(g)' = OwnedBy(g)
        /\ Ownerless' = Ownerless
    BY <1>4, GrantGivesOne
  <2>2. /\ PagesHeld = [g \in Holder |-> UNION {b.pages : b \in OwnedBy(g)}]
        /\ PagesHeld' = [g \in Holder |-> UNION {b.pages : b \in OwnedBy(g)'}]
    BY DEF PagesHeld, OwnedBy
  <2>3. PagesHeld[h] = {} /\ PagesHeld' = [PagesHeld EXCEPT ![h] = S]
    BY <2>1, <2>2, PagesOfOne
  <2>4. Abandoned' = Abandoned
    BY <2>1 DEF Abandoned, Ownerless
  <2> QED
    BY <1>4, <2>3, <2>4 DEF Acquire, CanAcquire, Promise!Take
<1>5. ASSUME NEW h \in Holder, NEW S \in SUBSET Page, AcquireFails(h, S)
      PROVE  Promise!Next
  <2>1. PICK q \in RunStarts(S) : /\ advised' = advised \cup AdvisedBefore(S, q)
                                  /\ orphans' = orphans \cup AdvisedBefore(S, q)
    BY <1>5 DEF AcquireFails
  <2>2. Promise!TakeFails(AdvisedBefore(S, q))
    BY <1>5, <2>1, HeldUnchanged DEF AcquireFails, CanAcquire, Promise!TakeFails
  <2> QED
    BY <2>2 DEF AdvisedBefore, Promise!Next
<1>6. ASSUME NEW h \in Holder, MarkComplete(h)
      PROVE  Invisible
  BY <1>6, HeldUnchanged DEF MarkComplete, IInv, TypeOK, Handle
<1>7. ASSUME NEW h \in Holder, NEW g \in Holder, Move(h, g)
      PROVE  Promise!HandOver(h, g)
  <2>1. /\ active' = active /\ handle[h].id # 0 /\ handle[g].id = 0 /\ h # g
        /\ handle'[g].id = handle[h].id /\ handle'[h].id = 0
        /\ \A f \in Holder \ {h, g} : handle'[f].id = handle[f].id
    BY <1>7 DEF Move, NoHandle, IInv, TypeOK
  <2>2. /\ OwnedBy(g) = {} /\ OwnedBy(h)' = {} /\ OwnedBy(g)' = OwnedBy(h)
        /\ \A f \in Holder \ {h, g} : OwnedBy(f)' = OwnedBy(f)
    BY <2>1 DEF OwnedBy, Owns
  <2>3. Ownerless' = Ownerless
    BY <2>1 DEF Ownerless, Owns
  <2>4. /\ PagesHeld = [f \in Holder |-> UNION {b.pages : b \in OwnedBy(f)}]
        /\ PagesHeld' = [f \in Holder |-> UNION {b.pages : b \in OwnedBy(f)'}]
    BY DEF PagesHeld, OwnedBy
  <2>5. /\ PagesHeld[g] = {}
        /\ PagesHeld' = [PagesHeld EXCEPT ![g] = PagesHeld[h], ![h] = {}]
    BY <2>1, <2>2, <2>4, PagesOfOne
  <2>6. PICK a \in active : OwnedBy(h) = {a}
    BY <2>1, OwnsOne
  <2>7. PagesHeld[h] # {}
    BY <2>4, <2>6, PagesOfOne DEF LeasesAreOwned
  <2>8. Abandoned' = Abandoned
    BY <2>3 DEF Abandoned, Ownerless
  <2> QED
    BY <1>7, <2>5, <2>7, <2>8 DEF Move, Promise!HandOver
<1>8. ASSUME NEW h \in Holder, ReleaseIncomplete(h)
      PROVE  Promise!Abandon(h)
  <2>1. PICK a \in active : Owns(h, a) /\ a.pages # {}
    BY <1>8 DEF ReleaseIncomplete, IInv, Handles, LeasesAreOwned
  <2>2. /\ PagesHeld[h] # {} /\ PagesHeld' = [PagesHeld EXCEPT ![h] = {}]
        /\ Abandoned' = Abandoned \cup PagesHeld[h]
    BY <1>8, <2>1, HeldAfterEmptying DEF ReleaseIncomplete
  <2> QED
    BY <1>8, <2>2 DEF ReleaseIncomplete, Promise!Abandon
<1>9. ASSUME NEW h \in Holder, NEW a \in active, ReleaseShared(h, a)
      PROVE  Promise!LetGo(h, {}, FALSE)
  <2>1. poisoned' = (poisoned \/ FALSE)
    BY <1>9, Zenon DEF ReleaseShared, IInv, TypeOK
  <2> QED
    BY <1>9, <2>1, ReleaseLetsGo DEF ReleaseShared
<1>10. ASSUME NEW h \in Holder, NEW a \in active, ReleaseLast(h, a)
       PROVE  Promise!LetGo(h, Releasable(a), FALSE)
  <2>1. poisoned' = (poisoned \/ FALSE)
    BY <1>10, Zenon DEF ReleaseLast, IInv, TypeOK
  <2>2. Releasable(a) \in SUBSET Page
    BY DEF Releasable, IInv, TypeOK, Lease
  <2> QED
    BY <1>10, <2>1, <2>2, ReleaseLetsGo DEF ReleaseLast
<1>11. ASSUME NEW h \in Holder, NEW a \in active, ReleaseLastFails(h, a)
       PROVE  Promise!Next
  <2>1. PICK q \in RunStarts(Releasable(a)) :
          /\ advised' = advised \ AdvisedBefore(Releasable(a), q)
          /\ orphans' = orphans \ AdvisedBefore(Releasable(a), q)
    BY <1>11 DEF ReleaseLastFails
  <2>2. poisoned' = (poisoned \/ TRUE)
    BY <1>11, Zenon DEF ReleaseLastFails
  <2>3. AdvisedBefore(Releasable(a), q) \in SUBSET Page
    BY DEF AdvisedBefore, Releasable, IInv, TypeOK, Lease
  <2>4. AdvisedBefore(Releasable(a), q) \subseteq Releasable(a)
    BY DEF AdvisedBefore
  <2>5. Unlease(h, a)
    BY <1>11 DEF ReleaseLastFails
  <2>6. Promise!LetGo(h, AdvisedBefore(Releasable(a), q), TRUE)
    BY <2>1, <2>2, <2>3, <2>4, <2>5, ReleaseLetsGo
  <2> QED
    BY <2>3, <2>6 DEF Promise!Next
<1>12. ASSUME NEW h \in Holder, NEW a \in active, ReleaseShared(h, a) \/ ReleaseLast(h, a)
       PROVE  Promise!Next
  <2>1. {} \in SUBSET Page /\ Releasable(a) \in SUBSET Page
    BY DEF Releasable, IInv, TypeOK, Lease
  <2> QED
    BY <1>9, <1>10, <1>12, <2>1 DEF Promise!Next
<1> QED
  BY <1>1, <1>2, <1>3, <1>4, <1>5, <1>6, <1>7, <1>8, <1>11, <1>12
  DEF Next, Release, Promise!Next

(* Regions, counts, pending lists and lease ids implement the page-level   *)
(* promise of PageResidency: what a holder leased stays resident until it  *)
(* lets go, whatever the other regions and contexts release.               *)
THEOREM ImplementsPageResidency == Spec => KeepsPromise
<1>1. Init => LeasesAreOwned /\ Promise!Init
  BY DEF Init, LeasesAreOwned, Promise!Init, PagesHeld, Abandoned
<1>2. IInv /\ IInv' /\ LeasesAreOwned /\ [Next]_vars => LeasesAreOwned'
  BY StepLeasesAreOwned
<1>3. IInv /\ IInv' /\ LeasesAreOwned /\ LeasesAreOwned' /\ [Next]_vars
        => [Promise!Next]_(Promise!vars)
  BY StepKeepsPromise
<1> QED
  BY <1>1, <1>2, <1>3, Inductive, PTL DEF Spec, KeepsPromise, Promise!Spec
=============================================================================
