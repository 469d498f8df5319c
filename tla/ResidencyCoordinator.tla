------------------------ MODULE ResidencyCoordinator ------------------------
(***************************************************************************)
(* The model-shared residency coordinator of streaming_execution.cpp       *)
(* (struct ResidencyCoordinator::Impl and class Lease).                    *)
(*                                                                         *)
(* Every context that streams weights leases the pages of a region (the    *)
(* token table, or one layer group) before it computes and releases them   *)
(* afterwards.  The coordinator counts the leases of each region, advises  *)
(* WILLNEED for what is leased and DONTNEED for what nobody needs any      *)
(* more.  Every operation runs under one mutex, the advice calls included, *)
(* so each is one action here.                                             *)
(*                                                                         *)
(* A list of page-aligned, coalesced byte ranges is the set of its pages;  *)
(* its ranges are the maximal runs of consecutive pages, advised in        *)
(* ascending order.  A failing madvise stops the loop at the first page of *)
(* some run, after the runs below it were advised.                         *)
(***************************************************************************)
EXTENDS Integers, FiniteSets

CONSTANTS
  Page,        \* the pages of the mapped model file
  CommonPages, \* the pages of the common tensors (norms, position tables)
  Key,         \* region keys: "token", "layer:i:unit+unit"
  Holder,      \* the Lease variables of the program, at most one per context
  MaxLeases    \* bound of the model: leases granted in one behaviour

ASSUME PageAssumption   == Page \subseteq Int /\ CommonPages \subseteq Page
ASSUME LeasesAssumption == MaxLeases \in Nat

VARIABLES
  stage,     \* life of the owning InternalStreamingModel
  nextId,    \* Impl::next_id
  active,    \* Impl::active, a set of leases
  count,     \* Region::count of every key
  pending,   \* Region::pending of every key, as pages
  common,    \* Impl::common, as pages
  poisoned,  \* diag.poisoned
  handle,    \* what each Lease object owns: owner_/id_ and compute_complete_
  advised,   \* external: pages under WILLNEED and not since under DONTNEED
  orphans    \* history: pages left advised by an acquisition that failed

vars == <<stage, nextId, active, count, pending, common, poisoned, handle,
          advised, orphans>>

Stage  == {"constructing", "serving", "discarded"}
Lease  == [id: Nat, key: Key, pages: SUBSET Page]
Handle == [id: Nat, done: BOOLEAN]

\* Lease::owner_ == nullptr
NoHandle == [id |-> 0, done |-> FALSE]

\* The pages at which a range of the coalesced list for S begins.
RunStarts(S) == {p \in S : p - 1 \notin S}

\* What the advice loop has reached when the call for the range at q fails.
AdvisedBefore(S, q) == {p \in S : p < q}

\* The pages the coordinator accounts for: pending in a region in use.
Tracked == UNION {pending[k] : k \in {j \in Key : count[j] > 0}}

InUse(leases) == UNION {a.pages : a \in leases}

LeasesOn(k, leases) == {a \in leases : a.key = k}

Owns(h, a) == handle[h].id # 0 /\ a.id = handle[h].id

-----------------------------------------------------------------------------
Init ==
  /\ stage    = "constructing"
  /\ nextId   = 1
  /\ active   = {}
  /\ count    = [k \in Key |-> 0]
  /\ pending  = [k \in Key |-> {}]
  /\ common   = {}
  /\ poisoned = FALSE
  /\ handle   = [h \in Holder |-> NoHandle]
  /\ advised  = {}
  /\ orphans  = {}

(* The model constructor retains the common pages for the model's lifetime. *)
RetainCommon ==
  /\ stage = "constructing"
  /\ stage'   = "serving"
  /\ common'  = CommonPages
  /\ advised' = advised \cup CommonPages
  /\ UNCHANGED <<nextId, active, count, pending, poisoned, handle, orphans>>

(* A failing advice call leaves the constructor by an exception. *)
RetainCommonFails ==
  /\ stage = "constructing"
  /\ \E q \in RunStarts(CommonPages) :
       advised' = advised \cup AdvisedBefore(CommonPages, q)
  /\ stage' = "discarded"
  /\ UNCHANGED <<nextId, active, count, pending, common, poisoned, handle,
                 orphans>>

\* Slip: acquire without the check of the poisoned flag.
CanAcquireWhenPoisoned(h, S) ==
  /\ stage = "serving"
  /\ handle[h] = NoHandle
  /\ S # {}

CanAcquire(h, S) ==
  /\ stage = "serving"
  /\ handle[h] = NoHandle
  /\ ~poisoned
  /\ S # {}

\* Slip: the region's pending list is replaced by the new lease's pages.
AcquireReplacingPending(h, k, S) ==
  /\ CanAcquire(h, S)
  /\ nextId <= MaxLeases
  /\ advised' = advised \cup S
  /\ nextId'  = nextId + 1
  /\ active'  = active \cup {[id |-> nextId, key |-> k, pages |-> S]}
  /\ count'   = [count EXCEPT ![k] = @ + 1]
  /\ pending' = [pending EXCEPT ![k] = S]
  /\ handle'  = [handle EXCEPT ![h] = [id |-> nextId, done |-> FALSE]]
  /\ UNCHANGED <<stage, common, poisoned, orphans>>

Acquire(h, k, S) ==
  /\ CanAcquire(h, S)
  /\ nextId <= MaxLeases
  /\ advised' = advised \cup S
  /\ nextId'  = nextId + 1
  /\ active'  = active \cup {[id |-> nextId, key |-> k, pages |-> S]}
  /\ count'   = [count EXCEPT ![k] = @ + 1]
  /\ pending' = [pending EXCEPT ![k] = @ \cup S]
  /\ handle'  = [handle EXCEPT ![h] = [id |-> nextId, done |-> FALSE]]
  /\ UNCHANGED <<stage, common, poisoned, orphans>>

(* WILLNEED fails at some range: acquire throws before it records anything. *)
AcquireFails(h, S) ==
  /\ CanAcquire(h, S)
  /\ \E q \in RunStarts(S) :
       /\ advised' = advised \cup AdvisedBefore(S, q)
       /\ orphans' = orphans \cup AdvisedBefore(S, q)
  /\ UNCHANGED <<stage, nextId, active, count, pending, common, poisoned,
                 handle>>

(* Lease::mark_compute_complete *)
MarkComplete(h) ==
  /\ handle[h].id # 0
  /\ handle' = [handle EXCEPT ![h].done = TRUE]
  /\ UNCHANGED <<stage, nextId, active, count, pending, common, poisoned,
                 advised, orphans>>

\* Slip: the move leaves the source with its id.
MoveKeepingSource(h, g) ==
  /\ handle[h].id # 0
  /\ handle[g] = NoHandle
  /\ handle' = [handle EXCEPT ![g] = handle[h]]
  /\ UNCHANGED <<stage, nextId, active, count, pending, common, poisoned,
                 advised, orphans>>

(* The move constructor: g takes over what h owned. *)
Move(h, g) ==
  /\ handle[h].id # 0
  /\ handle[g] = NoHandle
  /\ handle' = [handle EXCEPT ![g] = handle[h], ![h] = NoHandle]
  /\ UNCHANGED <<stage, nextId, active, count, pending, common, poisoned,
                 advised, orphans>>

-----------------------------------------------------------------------------
(* Release, explicit or by the destructor: the handle is emptied first.     *)

(* Compute had not completed: the coordinator is poisoned and the lease     *)
(* stays in the active table with nobody left to release it.                *)
ReleaseIncomplete(h) ==
  /\ handle[h].id # 0
  /\ ~handle[h].done
  /\ handle'   = [handle EXCEPT ![h] = NoHandle]
  /\ poisoned' = TRUE
  /\ UNCHANGED <<stage, nextId, active, count, pending, common, advised,
                 orphans>>

Unlease(h, a) ==
  /\ Owns(h, a)
  /\ handle[h].done
  /\ handle' = [handle EXCEPT ![h] = NoHandle]
  /\ active' = active \ {a}
  /\ count'  = [count EXCEPT ![a.key] = @ - 1]
  /\ UNCHANGED <<stage, nextId, common>>

\* Slip: the pages of a lease leave pending although the region stays in use.
ReleaseSharedForgetting(h, a) ==
  /\ Unlease(h, a)
  /\ count[a.key] > 1
  /\ pending' = [pending EXCEPT ![a.key] = @ \ a.pages]
  /\ UNCHANGED <<poisoned, advised, orphans>>

(* Another lease of the region remains: its pages stay pending. *)
ReleaseShared(h, a) ==
  /\ Unlease(h, a)
  /\ count[a.key] > 1
  /\ UNCHANGED <<pending, poisoned, advised, orphans>>

\* Slips: the leases of other regions, or the common pages, are not subtracted.
ReleasableIgnoringLeases(a) == pending[a.key] \ common

ReleasableIgnoringCommon(a) == pending[a.key] \ InUse(active \ {a})

\* What the region's last release may drop: neither common nor leased.
Releasable(a) == pending[a.key] \ (common \cup InUse(active \ {a}))

ReleaseLast(h, a) ==
  /\ Unlease(h, a)
  /\ count[a.key] = 1
  /\ pending' = [pending EXCEPT ![a.key] = {}]
  /\ advised' = advised \ Releasable(a)
  /\ orphans' = orphans \ Releasable(a)
  /\ UNCHANGED poisoned

(* DONTNEED fails at some range: the pages from there on stay advised. *)
ReleaseLastFails(h, a) ==
  /\ Unlease(h, a)
  /\ count[a.key] = 1
  /\ pending' = [pending EXCEPT ![a.key] = {}]
  /\ \E q \in RunStarts(Releasable(a)) :
       /\ advised' = advised \ AdvisedBefore(Releasable(a), q)
       /\ orphans' = orphans \ AdvisedBefore(Releasable(a), q)
  /\ poisoned' = TRUE

Release(h) ==
  \/ ReleaseIncomplete(h)
  \/ \E a \in active : ReleaseShared(h, a)
  \/ \E a \in active : ReleaseLast(h, a)
  \/ \E a \in active : ReleaseLastFails(h, a)

Next ==
  \/ RetainCommon
  \/ RetainCommonFails
  \/ \E h \in Holder, k \in Key, S \in SUBSET Page : Acquire(h, k, S)
  \/ \E h \in Holder, S \in SUBSET Page : AcquireFails(h, S)
  \/ \E h \in Holder : MarkComplete(h)
  \/ \E h, g \in Holder : Move(h, g)
  \/ \E h \in Holder : Release(h)

Spec == Init /\ [][Next]_vars

-----------------------------------------------------------------------------
(* Properties *)

(* Every variable ranges over what the fields of Impl and Lease can hold. *)
TypeOK ==
  /\ stage    \in Stage
  /\ nextId   \in Nat \ {0}
  /\ active   \in SUBSET Lease
  /\ count    \in [Key -> Nat]
  /\ pending  \in [Key -> SUBSET Page]
  /\ common   \in SUBSET CommonPages
  /\ poisoned \in BOOLEAN
  /\ handle   \in [Holder -> Handle]
  /\ advised  \in SUBSET Page
  /\ orphans  \in SUBSET Page

(* The design's reason for the coordinator: no release ever advises away a *)
(* page of a lease that is still active, whichever region or context holds *)
(* it, nor a common page.                                                  *)
LeasedPagesResident ==
  /\ \A a \in active : a.pages \subseteq advised
  /\ stage = "serving" => CommonPages \subseteq advised

(* The "lease accounting underflow" branch of release is dead: the count   *)
(* of a region is the number of active leases on it, and a lease that an   *)
(* object still owns is in the active table.                               *)
CountsMatchLeases ==
  /\ \A k \in Key : count[k] = Cardinality(LeasesOn(k, active))
  /\ \A h \in Holder : handle[h].id # 0 => \E a \in active : Owns(h, a)
  /\ \A h, g \in Holder : h # g /\ handle[h].id # 0 => handle[h].id # handle[g].id

(* Nothing the coordinator advised is forgotten: while it is not poisoned, *)
(* an advised page is common, or pending in a region that some lease will  *)
(* release, or was left behind by a failed acquisition.                    *)
AdviceIsAccounted ==
  ~poisoned /\ stage = "serving" => advised \subseteq common \cup Tracked \cup orphans

(* When the last lease goes, everything but the common pages has been      *)
(* handed back to the kernel (acquisitions that failed aside).             *)
QuiescentModelHoldsCommonOnly ==
  active = {} /\ ~poisoned /\ stage = "serving" => advised \subseteq common \cup orphans

(* "poisons the streaming residency coordinator so later calls also fail   *)
(* loudly until the model is recreated": poison is never cleared and no    *)
(* lease is granted, nor page advised, after it.                           *)
PoisonIsFinal ==
  [][poisoned => poisoned' /\ nextId' = nextId /\ advised' \subseteq advised]_vars

(* The comment of acquire says "A failed acquisition is rolled back"; then *)
(* no page could be advised outside common and the regions in use.         *)
FailedAcquisitionIsRolledBack ==
  ~poisoned /\ stage = "serving" => advised \subseteq common \cup Tracked

-----------------------------------------------------------------------------
(* The promise the coordinator keeps.  What a holder relies on is what the *)
(* lease it owns names; the leases nobody owns any more were abandoned.    *)
PagesHeld == [h \in Holder |-> UNION {a.pages : a \in {b \in active : Owns(h, b)}}]

Abandoned == UNION {a.pages : a \in {b \in active : \A h \in Holder : ~Owns(h, b)}}

Promise == INSTANCE PageResidency WITH
             held <- PagesHeld, abandoned <- Abandoned, resident <- advised,
             stray <- orphans, broken <- poisoned

(* Regions, counts and pending lists implement the page-level promise.     *)
KeepsPromise == Promise!Spec
=============================================================================
