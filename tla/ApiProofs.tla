------------------------------ MODULE ApiProofs ------------------------------
(***************************************************************************)
(* Proofs about what the C ABI promises.  First ModelHandle: contexts of a *)
(* handle, for any number of threads.  Then BatchEmbedding: embed_batch,   *)
(* for any texts, any number of them, any max_batch and any padding id.    *)
(***************************************************************************)
EXTENDS ModelHandle, BatchEmbedding, CommonFacts

-----------------------------------------------------------------------------
(* Contexts of a handle. *)

\* Where mode_mutex is held, and where a first context has its candidate.
Critical  == {"check", "weights", "verify", "match", "reserve", "publish"}
Candidate == {"weights", "verify", "match"}
Runner    == [arch: Version \cup {NoFile}, weights: Version \cup {NoFile}]

HandleTypes ==
  /\ disk \in Version /\ descriptor \in Version
  /\ mode      \in Mode \cup {Unlocked}
  /\ runner    \in [Mode -> Runner]
  /\ pc        \in [Thread -> Critical \cup {"idle", "lock"}]
  /\ request   \in [Thread -> Mode]
  /\ candidate \in [Thread -> Runner]
  /\ context   \in [Thread -> Mode \cup {Unlocked}]

(* mode_mutex excludes: its holder is the one thread past the lock. *)
HolderIsCritical == \A t \in Thread : pc[t] \in Critical <=> mutex = t

(* Only a thread that found the model Unlocked constructs a runner, and    *)
(* the mode a thread reserves or publishes for is not another one.         *)
OneMode ==
  \A t \in Thread :
    /\ pc[t] \in Candidate => mode = Unlocked
    /\ pc[t] \in {"reserve", "publish"} => mode \in {Unlocked, request[t]}

(* What the candidate of a first context is known to be, step by step. *)
CandidateIsChecked ==
  \A t \in Thread : mode = Unlocked =>
    /\ pc[t] \in Candidate \cup {"reserve"} => candidate[t].arch \in Version
    /\ pc[t] \in {"verify", "match", "reserve"} /\ request[t] = "Streaming" =>
         candidate[t].arch = candidate[t].weights
    /\ pc[t] = "reserve" => Matches(candidate[t])

(* A runner exists for the model's mode, and, in the last step of the      *)
(* first creation, for the mode about to be published; for no other.       *)
RunnerOfMode ==
  \A m \in Mode : runner[m] # NoRunner <=>
    mode = m \/ \E t \in Thread : pc[t] = "publish" /\ request[t] = m

(* A thread inside nanoembed_new_context owns no context yet. *)
NoContextInside == \A t \in Thread : pc[t] # "idle" => context[t] = Unlocked

(* The inductive invariant. *)
HandleIInv ==
  /\ HandleTypes
  /\ HolderIsCritical
  /\ OneMode
  /\ CandidateIsChecked
  /\ RunnerOfMode
  /\ NoContextInside
  /\ RunnerMatchesDescriptor

-----------------------------------------------------------------------------
(* nanoembed_load_model leaves a handle that satisfies the invariant. *)
LEMMA HandleInitIInv == HandleInit => HandleIInv
<1> SUFFICES ASSUME HandleInit PROVE HandleIInv
  OBVIOUS
<1> USE DEF HandleInit, Mode, Unlocked
<1>1. HandleTypes
  BY DEF HandleTypes, Runner, NoRunner, NoFile
<1>2. HolderIsCritical
  BY ThreadAssumption DEF HolderIsCritical, Critical
<1>3. OneMode /\ CandidateIsChecked /\ NoContextInside
  BY DEF OneMode, CandidateIsChecked, NoContextInside, Candidate
<1>4. RunnerOfMode /\ RunnerMatchesDescriptor
  BY DEF RunnerOfMode, RunnerMatchesDescriptor, NoRunner
<1> QED
  BY <1>1, <1>2, <1>3, <1>4 DEF HandleIInv

(* Every step keeps the variables in their types. *)
LEMMA HandleStepTypes == HandleTypes /\ [HandleNext]_handleVars => HandleTypes'
<1> SUFFICES ASSUME HandleTypes, [HandleNext]_handleVars PROVE HandleTypes'
  OBVIOUS
<1> USE DEF HandleTypes, Goto, Critical, Mode, model
<1>1. CASE ReplaceFile
  BY <1>1 DEF ReplaceFile
<1>2. ASSUME NEW t \in Thread, FailCreation(t) PROVE HandleTypes'
  BY <1>2 DEF FailCreation, Runner, NoRunner, NoFile
<1>3. ASSUME NEW t \in Thread, Request(t) \/ Lock(t) PROVE HandleTypes'
  BY <1>3 DEF Request, Lock
<1>4. ASSUME NEW t \in Thread, Check(t) PROVE HandleTypes'
  BY <1>4 DEF Check, Runner
<1>5. ASSUME NEW t \in Thread, ReadWeights(t) PROVE HandleTypes'
  BY <1>5 DEF ReadWeights, Runner
<1>6. ASSUME NEW t \in Thread, VerifyIdentity(t) PROVE HandleTypes'
  BY <1>6 DEF VerifyIdentity
<1>7. ASSUME NEW t \in Thread, MatchDescriptor(t) PROVE HandleTypes'
  BY <1>2, <1>7 DEF MatchDescriptor
<1>8. ASSUME NEW t \in Thread, Reserve(t) PROVE HandleTypes'
  BY <1>8 DEF Reserve, Runner, NoRunner, NoFile
<1>9. ASSUME NEW t \in Thread, Publish(t) \/ FreeContext(t) PROVE HandleTypes'
  BY <1>9 DEF Publish, FreeContext, Unlocked
<1>10. CASE UNCHANGED handleVars
  BY <1>10 DEF handleVars
<1> QED
  BY <1>1, <1>2, <1>3, <1>4, <1>5, <1>6, <1>7, <1>8, <1>9, <1>10 DEF HandleNext, Reject, Throw

(* A creator that leaves without a context had published nothing, or only  *)
(* what a later creator may use.                                           *)
LEMMA FailKeepsHandleIInv ==
  ASSUME HandleIInv, HandleTypes', NEW t \in Thread, FailCreation(t), pc[t] \in Critical \ {"publish"}
  PROVE  HandleIInv'
<1> USE DEF FailCreation, Goto, model
<1>1. HolderIsCritical'
  BY ThreadAssumption DEF HandleIInv, HandleTypes, HolderIsCritical, Critical
<1>2. OneMode' /\ CandidateIsChecked' /\ NoContextInside'
  <2>1. \A u \in Thread : u # t => pc'[u] = pc[u] /\ candidate'[u] = candidate[u]
    BY DEF HandleIInv, HandleTypes
  <2>2. pc'[t] = "idle"
    BY DEF HandleIInv, HandleTypes
  <2> QED
    BY <2>1, <2>2 DEF HandleIInv, OneMode, CandidateIsChecked, NoContextInside, Candidate, Matches
<1>3. RunnerOfMode'
  <2>1. \A u \in Thread : pc'[u] = "publish" <=> pc[u] = "publish"
    BY DEF HandleIInv, HandleTypes
  <2> QED
    BY <2>1 DEF HandleIInv, RunnerOfMode
<1>4. RunnerMatchesDescriptor'
  BY DEF HandleIInv, RunnerMatchesDescriptor
<1> QED
  BY <1>1, <1>2, <1>3, <1>4 DEF HandleIInv

(* The first creator hands its candidate to the model. *)
LEMMA ReserveKeepsHandleIInv ==
  ASSUME HandleIInv, HandleTypes', NEW t \in Thread, Reserve(t)
  PROVE  HandleIInv'
<1> USE DEF Reserve, Goto
<1>0. /\ mutex = t /\ pc'[t] = "publish" /\ mode \in {Unlocked, request[t]}
      /\ \A u \in Thread : u # t => pc'[u] = pc[u] /\ candidate'[u] = candidate[u]
      /\ \A u \in Thread : u # t => pc[u] \notin Critical
  BY DEF HandleIInv, HandleTypes, HolderIsCritical, OneMode, Critical
<1>1. HolderIsCritical'
  BY <1>0 DEF HandleIInv, HolderIsCritical, Critical
<1>2. OneMode' /\ CandidateIsChecked'
  BY <1>0 DEF HandleIInv, OneMode, CandidateIsChecked, Candidate, Matches
<1>3. NoContextInside'
  BY <1>0 DEF HandleIInv, NoContextInside
<1>4. RunnerOfMode' /\ RunnerMatchesDescriptor'
  <2>1. \A m \in Mode :
          (\E u \in Thread : pc'[u] = "publish" /\ request'[u] = m) <=> request[t] = m
    BY <1>0 DEF Critical
  <2>2. \A m \in Mode : runner[m] # NoRunner <=> mode = m
    BY <1>0 DEF HandleIInv, RunnerOfMode, Critical
  <2>3. CASE mode = Unlocked
    <3>1. /\ candidate[t].arch \in Version /\ Matches(candidate[t])
          /\ request[t] = "Streaming" => candidate[t].arch = candidate[t].weights
      BY <2>3 DEF HandleIInv, CandidateIsChecked
    <3>2. candidate[t] # NoRunner
      BY <3>1, VersionAssumption DEF NoRunner, NoFile
    <3>3. /\ request[t] \in Mode /\ runner'[request[t]] = candidate[t]
          /\ \A m \in Mode : m # request[t] => runner'[m] = runner[m]
      BY <2>3 DEF HandleIInv, HandleTypes
    <3>4. \A m \in Mode : mode # m
      BY <2>3 DEF Mode, Unlocked
    <3>5. RunnerOfMode'
      BY <2>1, <2>2, <3>2, <3>3, <3>4 DEF RunnerOfMode
    <3>6. RunnerMatchesDescriptor'
      BY <3>1, <3>3 DEF HandleIInv, RunnerMatchesDescriptor, Matches, Mode
    <3> QED
      BY <3>5, <3>6
  <2>4. CASE mode # Unlocked
    <3>1. mode = request[t] /\ runner' = runner
      BY <1>0, <2>4
    <3> QED
      BY <2>1, <2>2, <3>1 DEF RunnerOfMode, HandleIInv, RunnerMatchesDescriptor
  <2> QED
    BY <2>3, <2>4
<1> QED
  BY <1>1, <1>2, <1>3, <1>4 DEF HandleIInv

(* Every step of a thread, and every replacement of the file, keeps the    *)
(* invariant.                                                              *)
LEMMA HandleStepIInv == HandleIInv /\ [HandleNext]_handleVars => HandleIInv'
<1> SUFFICES ASSUME HandleIInv, [HandleNext]_handleVars PROVE HandleIInv'
  OBVIOUS
<1>0. HandleTypes'
  BY HandleStepTypes DEF HandleIInv
<1> USE DEF Goto, model
<1>1. CASE ReplaceFile
  BY <1>0, <1>1 DEF ReplaceFile, HandleIInv, HolderIsCritical, OneMode, CandidateIsChecked, Matches,
                    RunnerOfMode, NoContextInside, RunnerMatchesDescriptor
<1>2. ASSUME NEW t \in Thread, Request(t) PROVE HandleIInv'
  <2> USE <1>2 DEF Request
  <2>1. pc[t] = "idle" /\ pc'[t] = "lock" /\ \A u \in Thread : u # t =>
          pc'[u] = pc[u] /\ request'[u] = request[u]
    BY DEF HandleIInv, HandleTypes
  <2>2. HolderIsCritical' /\ OneMode' /\ CandidateIsChecked' /\ NoContextInside'
    BY <2>1 DEF HandleIInv, HolderIsCritical, OneMode, CandidateIsChecked, Matches, NoContextInside,
                Critical, Candidate
  <2>3. RunnerOfMode' /\ RunnerMatchesDescriptor'
    BY <2>1 DEF HandleIInv, RunnerOfMode, RunnerMatchesDescriptor
  <2> QED
    BY <1>0, <2>2, <2>3 DEF HandleIInv
<1>3. ASSUME NEW t \in Thread, Lock(t) PROVE HandleIInv'
  <2> USE <1>3 DEF Lock
  <2>1. pc[t] = "lock" /\ pc'[t] = "check" /\ \A u \in Thread : u # t => pc'[u] = pc[u]
    BY DEF HandleIInv, HandleTypes
  <2>2. HolderIsCritical'
    BY <2>1, ThreadAssumption DEF HandleIInv, HolderIsCritical, Critical
  <2>3. OneMode' /\ CandidateIsChecked' /\ NoContextInside'
    BY <2>1 DEF HandleIInv, OneMode, CandidateIsChecked, Matches, NoContextInside, Candidate
  <2>4. RunnerOfMode' /\ RunnerMatchesDescriptor'
    BY <2>1 DEF HandleIInv, RunnerOfMode, RunnerMatchesDescriptor
  <2> QED
    BY <1>0, <2>2, <2>3, <2>4 DEF HandleIInv
<1>4. ASSUME NEW t \in Thread, Reject(t) \/ Throw(t) PROVE HandleIInv'
  BY <1>0, <1>4, FailKeepsHandleIInv DEF Reject, Throw, Critical
<1>5. ASSUME NEW t \in Thread, Check(t) PROVE HandleIInv'
  <2> USE <1>5 DEF Check
  <2>1. /\ pc[t] = "check" /\ pc'[t] \in {"weights", "reserve"}
        /\ pc'[t] = "weights" <=> mode = Unlocked
        /\ mode = Unlocked => candidate'[t].arch = disk
        /\ \A u \in Thread : u # t => pc'[u] = pc[u] /\ candidate'[u] = candidate[u]
    BY DEF HandleIInv, HandleTypes, Runner
  <2>2. HolderIsCritical' /\ OneMode' /\ NoContextInside'
    BY <2>1 DEF HandleIInv, HolderIsCritical, OneMode, NoContextInside, Critical, Candidate
  <2>3. CandidateIsChecked'
    BY <2>1 DEF HandleIInv, HandleTypes, CandidateIsChecked, Matches, Candidate
  <2>4. RunnerOfMode' /\ RunnerMatchesDescriptor'
    BY <2>1 DEF HandleIInv, RunnerOfMode, RunnerMatchesDescriptor
  <2> QED
    BY <1>0, <2>2, <2>3, <2>4 DEF HandleIInv
<1>6. ASSUME NEW t \in Thread, ReadWeights(t) PROVE HandleIInv'
  <2> USE <1>6 DEF ReadWeights
  <2>1. /\ pc[t] = "weights" /\ pc'[t] \in {"verify", "match"}
        /\ candidate'[t].arch = candidate[t].arch
        /\ request[t] = "Streaming" => candidate'[t].weights = candidate[t].arch
        /\ \A u \in Thread : u # t => pc'[u] = pc[u] /\ candidate'[u] = candidate[u]
    BY DEF HandleIInv, HandleTypes, Runner
  <2>2. HolderIsCritical' /\ OneMode' /\ NoContextInside'
    BY <2>1 DEF HandleIInv, HolderIsCritical, OneMode, NoContextInside, Critical, Candidate
  <2>3. CandidateIsChecked'
    BY <2>1 DEF HandleIInv, CandidateIsChecked, Matches, Candidate
  <2>4. RunnerOfMode' /\ RunnerMatchesDescriptor'
    BY <2>1 DEF HandleIInv, RunnerOfMode, RunnerMatchesDescriptor
  <2> QED
    BY <1>0, <2>2, <2>3, <2>4 DEF HandleIInv
<1>7. ASSUME NEW t \in Thread,
             \/ VerifyIdentity(t)
             \/ MatchDescriptor(t) /\ Matches(candidate[t])
      PROVE  HandleIInv'
  <2> USE <1>7 DEF VerifyIdentity, MatchDescriptor
  <2>1. /\ \/ pc[t] = "verify" /\ pc'[t] = "match"
           \/ pc[t] = "match" /\ pc'[t] = "reserve" /\ Matches(candidate[t])
        /\ \A u \in Thread : u # t => pc'[u] = pc[u]
        /\ UNCHANGED <<disk, descriptor, mode, runner, mutex, request, candidate, context>>
    BY DEF HandleIInv, HandleTypes
  <2>2. HolderIsCritical' /\ OneMode' /\ NoContextInside'
    BY <2>1 DEF HandleIInv, HolderIsCritical, OneMode, NoContextInside, Critical, Candidate
  <2>3. CandidateIsChecked'
    BY <2>1 DEF HandleIInv, CandidateIsChecked, Matches, Candidate
  <2>4. RunnerOfMode' /\ RunnerMatchesDescriptor'
    BY <2>1 DEF HandleIInv, RunnerOfMode, RunnerMatchesDescriptor
  <2> QED
    BY <1>0, <2>2, <2>3, <2>4 DEF HandleIInv
<1>8. ASSUME NEW t \in Thread, MatchDescriptor(t), ~Matches(candidate[t]) PROVE HandleIInv'
  BY <1>0, <1>8, FailKeepsHandleIInv DEF MatchDescriptor, Critical
<1>9. ASSUME NEW t \in Thread, Reserve(t) PROVE HandleIInv'
  BY <1>0, <1>9, ReserveKeepsHandleIInv
<1>10. ASSUME NEW t \in Thread, Publish(t) PROVE HandleIInv'
  <2> USE <1>10 DEF Publish
  <2>1. /\ pc[t] = "publish" /\ pc'[t] = "idle" /\ mutex = t /\ mode' = request[t]
        /\ mode \in {Unlocked, request[t]} /\ request[t] \in Mode
        /\ \A u \in Thread : u # t =>
             pc'[u] = pc[u] /\ pc[u] \notin Critical /\ context'[u] = context[u]
    BY DEF HandleIInv, HandleTypes, HolderIsCritical, OneMode, Critical
  <2>2. HolderIsCritical' /\ OneMode' /\ CandidateIsChecked' /\ NoContextInside'
    BY <2>1, ThreadAssumption
    DEF HandleIInv, HolderIsCritical, OneMode, CandidateIsChecked, NoContextInside, Critical, Candidate
  <2>3. RunnerOfMode'
    BY <2>1 DEF HandleIInv, RunnerOfMode, Critical, Mode, Unlocked
  <2>4. RunnerMatchesDescriptor'
    BY DEF HandleIInv, RunnerMatchesDescriptor
  <2> QED
    BY <1>0, <2>2, <2>3, <2>4 DEF HandleIInv
<1>11. ASSUME NEW t \in Thread, FreeContext(t) PROVE HandleIInv'
  BY <1>0, <1>11 DEF FreeContext, HandleIInv, HandleTypes, HolderIsCritical, OneMode, CandidateIsChecked,
                     Matches, RunnerOfMode, NoContextInside, RunnerMatchesDescriptor
<1>12. CASE UNCHANGED handleVars
  BY <1>0, <1>12 DEF handleVars, HandleIInv, HolderIsCritical, OneMode, CandidateIsChecked, Matches,
                     RunnerOfMode, NoContextInside, RunnerMatchesDescriptor
<1> QED
  BY <1>1, <1>2, <1>3, <1>4, <1>5, <1>6, <1>7, <1>8, <1>9, <1>10, <1>11, <1>12 DEF HandleNext

(* Hence it holds in every state of the handle. *)
LEMMA HandleInductive == HandleSpec => []HandleIInv
BY HandleInitIInv, HandleStepIInv, PTL DEF HandleSpec

-----------------------------------------------------------------------------
(* A creator that checks the mode, after whatever failures of earlier ones, *)
(* finds a runner of the model's mode and no other: nothing half published. *)
THEOREM NoCreatorSeesHalfAHandle == HandleSpec => []NothingHalfPublished
<1>1. HandleIInv => NothingHalfPublished
  BY DEF HandleIInv, HolderIsCritical, RunnerOfMode, NothingHalfPublished, Critical
<1> QED
  BY <1>1, HandleInductive, PTL

(* The runner a handle publishes has the metadata of its descriptor, and a *)
(* mapped one takes its weights from the file it was validated on.         *)
THEOREM RunnersMatchDescriptor == HandleSpec => []RunnerMatchesDescriptor
<1>1. HandleIInv => RunnerMatchesDescriptor
  BY DEF HandleIInv
<1> QED
  BY <1>1, HandleInductive, PTL

(* The locked construction implements the abstract one-shot choice of      *)
(* ModeLock: a publication creates a context and may choose the mode, and  *)
(* every other step but a free is invisible there.                         *)
THEOREM ImplementsModeLock == HandleSpec => FirstContextChooses
<1>1. HandleInit => Choice!Init
  BY DEF HandleInit, Choice!Init
<1>2. HandleIInv /\ [HandleNext]_handleVars => [Choice!Next]_(Choice!vars)
  <2> SUFFICES ASSUME HandleIInv, [HandleNext]_handleVars
               PROVE  Choice!Next \/ UNCHANGED <<mode, context>>
    BY DEF Choice!vars
  <2>1. ASSUME NEW t \in Thread, Publish(t) PROVE Choice!Next
    <3>1. /\ context[t] = Unlocked /\ request[t] \in Mode
          /\ mode \in {Unlocked, request[t]}
      BY <2>1 DEF Publish, HandleIInv, HandleTypes, NoContextInside, OneMode
    <3>2. Choice!Create(t, request[t])
      BY <2>1, <3>1 DEF Publish, Choice!Create
    <3> QED
      BY <3>1, <3>2 DEF Choice!Next
  <2>2. ASSUME NEW t \in Thread, FreeContext(t) PROVE Choice!Next
    BY <2>2 DEF FreeContext, model, Choice!Free, Choice!Next
  <2>3. CASE ReplaceFile \/ UNCHANGED handleVars
    BY <2>3 DEF ReplaceFile, handleVars, model
  <2>4. ASSUME NEW t \in Thread, Request(t) \/ Lock(t) \/ Reject(t) \/ Throw(t) \/ Check(t)
        PROVE  UNCHANGED <<mode, context>>
    BY <2>4 DEF Request, Lock, Reject, Throw, Check, FailCreation, model
  <2>5. ASSUME NEW t \in Thread,
               ReadWeights(t) \/ VerifyIdentity(t) \/ MatchDescriptor(t) \/ Reserve(t)
        PROVE  UNCHANGED <<mode, context>>
    BY <2>5 DEF ReadWeights, VerifyIdentity, MatchDescriptor, Reserve, FailCreation, model
  <2> QED
    BY <2>1, <2>2, <2>3, <2>4, <2>5 DEF HandleNext
<1> QED
  BY <1>1, <1>2, HandleInductive, PTL DEF HandleSpec, FirstContextChooses, Choice!Spec

-----------------------------------------------------------------------------
(* Batches. *)

(* The arguments of a call, and a call whose texts all have tokens. *)
IsCall ==
  call \in [texts : Seq(Seq(Int)), max_batch : Nat \ {0}, family : Family,
            layout : Layout, pooling : Pooling]

Tokenized == IsCall /\ \A i \in DOMAIN call.texts : call.texts[i] # Null

Many == Len(call.texts)

(* Every text once, shorter ones first. *)
IsPlan(p) ==
  /\ p \in Bijection(1 .. Many, 1 .. Many)
  /\ \A i, j \in 1 .. Many : i < j => Length(p[i]) <= Length(p[j])

-----------------------------------------------------------------------------
(* Texts have lengths. *)
LEMMA Lengths ==
  ASSUME IsCall
  PROVE  /\ Many \in Nat /\ DOMAIN call.texts = 1 .. Many
         /\ \A i \in 1 .. Many : call.texts[i] \in Seq(Int) /\ Length(i) \in Nat
         /\ call.max_batch \in Nat \ {0}
<1>1. call.texts \in Seq(Seq(Int)) /\ call.max_batch \in Nat \ {0}
  BY DEF IsCall
<1>2. Many \in Nat /\ DOMAIN call.texts = 1 .. Many /\ \A i \in 1 .. Many : call.texts[i] \in Seq(Int)
  BY <1>1 DEF Many
<1> QED
  BY <1>1, <1>2 DEF Length

(* A text that has tokens has a length of at least one. *)
LEMMA NoEmptyText ==
  ASSUME Tokenized, NEW i \in 1 .. Many
  PROVE  call.texts[i] \in Seq(Int) /\ Length(i) \in Nat \ {0}
<1>1. call.texts[i] \in Seq(Int) /\ call.texts[i] # <<>>
  BY Lengths DEF Tokenized, Null
<1> QED
  BY <1>1 DEF Length

(* What stable_sort returns exists and is sorted. *)
LEMMA OrderIsPlan ==
  ASSUME IsCall
  PROVE  IsPlan(Order)
<1> DEFINE n == Many
           R == {e \in (1 .. n) \X (1 .. n) : Shorter(e[1], e[2])}
           s == [i \in 1 .. n |-> i]
<1>1. n \in Nat /\ DOMAIN call.texts = 1 .. n /\ \A i \in 1 .. n : Length(i) \in Nat
  BY Lengths
<1> HIDE DEF n
<1>2. \A a, b \in 1 .. n : <<a, b>> \in R <=> Shorter(a, b)
  OBVIOUS
<1>3. \A a, b \in 1 .. n : <<a, b>> \in R => <<b, a>> \notin R
  BY <1>1, <1>2 DEF Shorter
<1>4. \A a, b, c \in 1 .. n : <<a, b>> \notin R /\ <<b, c>> \notin R => <<a, c>> \notin R
  BY <1>1, <1>2 DEF Shorter
<1>5. s \in [1 .. n -> 1 .. n]
  OBVIOUS
<1> HIDE DEF R
<1>6. PICK p \in Bijection(1 .. n, 1 .. n) :
        \A i, j \in 1 .. n : i < j => <<s[p[j]], s[p[i]]>> \notin R
  <2> HIDE DEF s
  <2> QED
    BY <1>1, <1>3, <1>4, <1>5, SortExists
<1>7. p \in [1 .. n -> 1 .. n] /\ \A i, j \in 1 .. n : p[i] = p[j] => i = j
  BY DEF Bijection, Injection, IsInjective
<1>8. \A i, j \in 1 .. n : i < j => Shorter(p[i], p[j])
  <2>1. SUFFICES ASSUME NEW i \in 1 .. n, NEW j \in 1 .. n, i < j
                 PROVE  Shorter(p[i], p[j])
    OBVIOUS
  <2>2. p[i] \in 1 .. n /\ p[j] \in 1 .. n /\ p[i] # p[j]
    BY <1>1, <1>7, <2>1
  <2>3. ~Shorter(p[j], p[i])
    BY <1>2, <1>6, <2>1, <2>2
  <2> QED
    BY <1>1, <2>2, <2>3 DEF Shorter
<1>9. DOMAIN p = 1 .. n
  BY <1>7
<1>10. /\ Order \in Bijection(1 .. n, 1 .. n)
       /\ \A i, j \in DOMAIN Order : i < j => Shorter(Order[i], Order[j])
  BY <1>1, <1>8, <1>9 DEF Order
<1>11. Order \in [1 .. n -> 1 .. n]
  BY <1>10 DEF Bijection, Injection
<1>12. \A i, j \in 1 .. n : i < j => Length(Order[i]) <= Length(Order[j])
  BY <1>1, <1>10, <1>11 DEF Shorter
<1> QED
  BY <1>10, <1>12 DEF IsPlan, n

(* Where the rows of a packed copy begin. *)
LEMMA OffsetsAdd ==
  ASSUME NEW B \in Nat \ {0}, NEW lengths \in [0 .. B - 1 -> Nat]
  PROVE  /\ Offsets(lengths) \in [0 .. B -> Nat]
         /\ Offsets(lengths)[0] = 0
         /\ \A b \in 1 .. B : Offsets(lengths)[b] = Offsets(lengths)[b - 1] + lengths[b - 1]
<1> DEFINE F(n, f) == /\ f \in [0 .. n -> Nat]
                      /\ f[0] = 0
                      /\ \A b \in 1 .. n : f[b] = f[b - 1] + lengths[b - 1]
           A == {n \in 0 .. B : \E f : F(n, f)}
<1>1. 0 \in A
  <2> DEFINE f == [b \in 0 .. 0 |-> 0]
  <2>1. F(0, f)
    OBVIOUS
  <2>2. 0 \in 0 .. B
    OBVIOUS
  <2> HIDE DEF F, f
  <2> QED
    BY <2>1, <2>2
<1>2. ASSUME NEW n \in 0 .. B - 1, n \in A
      PROVE  n + 1 \in A
  <2>1. PICK f : F(n, f)
    BY <1>2
  <2> DEFINE g == [b \in 0 .. n + 1 |-> IF b = n + 1 THEN f[n] + lengths[n] ELSE f[b]]
  <2>2. lengths[n] \in Nat /\ \A b \in 0 .. n : f[b] \in Nat
    BY <2>1
  <2>3. \A b \in 0 .. n + 1 : b # n + 1 => b \in 0 .. n
    OBVIOUS
  <2>4. g \in [0 .. n + 1 -> Nat]
    BY <2>2, <2>3
  <2>5. g[0] = 0
    BY <2>1
  <2>6. ASSUME NEW b \in 1 .. n + 1
        PROVE  g[b] = g[b - 1] + lengths[b - 1]
    <3>1. CASE b = n + 1
      <4>1. b - 1 = n /\ n \in 0 .. n + 1 /\ n # n + 1
        BY <3>1
      <4> QED
        BY <3>1, <4>1
    <3>2. CASE b # n + 1
      <4>1. b \in 1 .. n /\ b - 1 \in 0 .. n + 1 /\ b - 1 # n + 1 /\ b \in 0 .. n + 1
        BY <3>2
      <4> QED
        BY <2>1, <3>2, <4>1
    <3> QED
      BY <3>1, <3>2
  <2> HIDE DEF g
  <2>7. F(n + 1, g)
    BY <2>4, <2>5, <2>6
  <2>8. n + 1 \in 0 .. B
    OBVIOUS
  <2> HIDE DEF F
  <2> QED
    BY <2>7, <2>8
<1>3. \E f : F(B, f)
  <2>1. \A n \in 0 .. B - 1 : n \in A => n + 1 \in A
    BY <1>2
  <2>2. B \in A
    <3> HIDE DEF A
    <3>1. 0 .. B \subseteq A
      BY <1>1, <2>1, Induction
    <3> QED
      BY <3>1
  <2> QED
    BY <2>2
<1>4. PICK f : F(B, f)
  BY <1>3
<1>5. Cardinality(DOMAIN lengths) = B
  <2>1. DOMAIN lengths = 0 .. B - 1
    OBVIOUS
  <2>2. Cardinality(0 .. B - 1) = B
    BY FS_Interval
  <2> QED
    BY <2>1, <2>2
<1>6. f = [b \in 0 .. B |-> IF b = 0 THEN 0 ELSE f[b - 1] + lengths[b - 1]]
  <2>1. \A b \in 0 .. B : b # 0 => b \in 1 .. B
    OBVIOUS
  <2>2. \A b \in 0 .. B : f[b] = IF b = 0 THEN 0 ELSE f[b - 1] + lengths[b - 1]
    BY <1>4, <2>1
  <2> QED
    BY <1>4, <2>2
<1> DEFINE G == CHOOSE G : G = [b \in 0 .. B |-> IF b = 0 THEN 0 ELSE G[b - 1] + lengths[b - 1]]
<1>7. Offsets(lengths) = G
  BY <1>5 DEF Offsets
<1>8. G = [b \in 0 .. B |-> IF b = 0 THEN 0 ELSE G[b - 1] + lengths[b - 1]]
  BY <1>6
<1> HIDE DEF G
<1>9. G[0] = 0 /\ \A b \in 1 .. B : G[b] = G[b - 1] + lengths[b - 1]
  <2>1. 0 \in 0 .. B /\ \A b \in 1 .. B : b \in 0 .. B /\ b # 0
    OBVIOUS
  <2> QED
    BY <1>8, <2>1
<1>10. \A b \in 0 .. B : G[b] \in Nat
  <2> DEFINE C == {b \in 0 .. B : G[b] \in Nat}
  <2>1. 0 \in C
    BY <1>9
  <2>2. ASSUME NEW b \in 0 .. B - 1, b \in C
        PROVE  b + 1 \in C
    <3>1. b + 1 \in 1 .. B /\ (b + 1) - 1 = b
      OBVIOUS
    <3>2. lengths[b] \in Nat
      OBVIOUS
    <3> QED
      BY <1>9, <2>2, <3>1, <3>2
  <2> HIDE DEF C
  <2>3. 0 .. B \subseteq C
    BY <2>1, <2>2, Induction
  <2> QED
    BY <2>3 DEF C
<1>11. G \in [0 .. B -> Nat]
  BY <1>8, <1>10
<1> QED
  BY <1>7, <1>9, <1>11

-----------------------------------------------------------------------------
(* The sub-batch that the next step computes: its rows and its width. *)
Rows  == Cardinality(DOMAIN Items)
Width == Length(Items[Rows - 1])

Working == /\ Tokenized /\ IsPlan(plan)
           /\ done \in Nat /\ done * call.max_batch < Many

(* A sub-batch is the run of the plan after those that are done, and its   *)
(* last text is its longest.                                               *)
LEMMA Window ==
  ASSUME Working
  PROVE  LET begin == done * call.max_batch
         IN  /\ begin \in Nat
             /\ Rows = IF begin + call.max_batch < Many THEN call.max_batch ELSE Many - begin
             /\ Rows \in Nat \ {0} /\ DOMAIN Items = 0 .. Rows - 1
             /\ \A b \in 0 .. Rows - 1 :
                  begin + b + 1 \in 1 .. Many /\ Items[b] = plan[begin + b + 1]
<1> DEFINE begin == done * call.max_batch
           end == IF begin + call.max_batch < Len(plan) THEN begin + call.max_batch ELSE Len(plan)
<1>1. Many \in Nat /\ call.max_batch \in Nat \ {0}
  BY Lengths DEF Working, Tokenized
<1>2. begin \in Nat /\ begin < Many
  BY <1>1 DEF Working
<1>3. Len(plan) = Many
  <2>1. plan \in [1 .. Many -> 1 .. Many]
    BY DEF Working, IsPlan, Bijection, Injection
  <2> QED
    BY <1>1, <2>1
<1>4. Items = [b \in 0 .. (end - begin) - 1 |-> plan[begin + b + 1]]
  BY DEF Items
<1> HIDE DEF begin
<1>5. end - begin \in Nat \ {0} /\ end <= Many
  BY <1>1, <1>2, <1>3
<1>6. Rows = end - begin
  <2>1. DOMAIN Items = 0 .. (end - begin) - 1
    BY <1>4
  <2>2. Cardinality(0 .. (end - begin) - 1) = end - begin
    <3> HIDE DEF end
    <3>1. end - begin - 1 \in Int
      BY <1>5
    <3> QED
      BY <1>5, <3>1, FS_Interval
  <2> QED
    BY <2>1, <2>2 DEF Rows
<1>7. \A b \in 0 .. Rows - 1 : begin + b + 1 \in 1 .. Many /\ Items[b] = plan[begin + b + 1]
  <2>1. \A b \in 0 .. (end - begin) - 1 : begin + b + 1 \in 1 .. Many
    BY <1>1, <1>2, <1>3
  <2> HIDE DEF end
  <2> QED
    BY <1>4, <1>6, <2>1
<1>8. Rows = IF begin + call.max_batch < Many THEN call.max_batch ELSE Many - begin
  BY <1>1, <1>2, <1>3, <1>6
<1>9. DOMAIN Items = 0 .. Rows - 1
  <2> HIDE DEF end
  <2> QED
    BY <1>4, <1>6
<1> QED
  BY <1>2, <1>5, <1>6, <1>7, <1>8, <1>9 DEF begin

(* Its rows are different texts, ascending in length. *)
LEMMA WindowRows ==
  ASSUME Working
  PROVE  /\ Rows \in Nat \ {0} /\ Items \in [0 .. Rows - 1 -> 1 .. Many]
         /\ \A b, c \in 0 .. Rows - 1 : Items[b] = Items[c] => b = c
         /\ \A b, c \in 0 .. Rows - 1 : b < c => Length(Items[b]) <= Length(Items[c])
<1> DEFINE begin == done * call.max_batch
<1>1. /\ begin \in Nat /\ Rows \in Nat \ {0} /\ DOMAIN Items = 0 .. Rows - 1
      /\ \A b \in 0 .. Rows - 1 :
           begin + b + 1 \in 1 .. Many /\ Items[b] = plan[begin + b + 1]
  BY Window
<1>2. /\ plan \in [1 .. Many -> 1 .. Many]
      /\ \A i, j \in 1 .. Many : plan[i] = plan[j] => i = j
      /\ \A i, j \in 1 .. Many : i < j => Length(plan[i]) <= Length(plan[j])
  BY DEF Working, IsPlan, Bijection, Injection, IsInjective
<1> HIDE DEF begin
<1>3. Items \in [0 .. Rows - 1 -> 1 .. Many]
  <2>1. Items = [b \in 0 .. Rows - 1 |-> Items[b]]
    BY <1>1 DEF Items
  <2> QED
    BY <1>1, <1>2, <2>1
<1>4. \A b, c \in 0 .. Rows - 1 : Items[b] = Items[c] => b = c
  <2>1. SUFFICES ASSUME NEW b \in 0 .. Rows - 1, NEW c \in 0 .. Rows - 1, Items[b] = Items[c]
                 PROVE  b = c
    OBVIOUS
  <2>2. begin + b + 1 = begin + c + 1
    BY <1>1, <1>2, <2>1
  <2> QED
    BY <1>1, <2>2
<1>5. \A b, c \in 0 .. Rows - 1 : b < c => Length(Items[b]) <= Length(Items[c])
  <2>1. SUFFICES ASSUME NEW b \in 0 .. Rows - 1, NEW c \in 0 .. Rows - 1, b < c
                 PROVE  Length(Items[b]) <= Length(Items[c])
    OBVIOUS
  <2>2. begin + b + 1 < begin + c + 1
    BY <1>1, <2>1
  <2>3. /\ begin + b + 1 \in 1 .. Many /\ Items[b] = plan[begin + b + 1]
        /\ begin + c + 1 \in 1 .. Many /\ Items[c] = plan[begin + c + 1]
    BY <1>1
  <2>4. Length(plan[begin + b + 1]) <= Length(plan[begin + c + 1])
    BY <1>2, <2>2, <2>3
  <2> QED
    BY <2>3, <2>4
<1> QED
  BY <1>1, <1>3, <1>4, <1>5

(* No row is longer than the width, and none is shorter than the first. *)
LEMMA RowLength ==
  ASSUME Working, NEW b \in 0 .. Rows - 1
  PROVE  /\ Items[b] \in 1 .. Many /\ call.texts[Items[b]] \in Seq(Int)
         /\ Length(Items[b]) \in Nat \ {0} /\ Width \in Nat \ {0}
         /\ Length(Items[b]) <= Width
         /\ Length(Items[0]) = Width => Length(Items[b]) = Width
<1>1. /\ Rows \in Nat \ {0} /\ Items \in [0 .. Rows - 1 -> 1 .. Many]
      /\ \A c, d \in 0 .. Rows - 1 : c < d => Length(Items[c]) <= Length(Items[d])
  BY WindowRows
<1>2. Tokenized
  BY DEF Working
<1>3. 0 \in 0 .. Rows - 1 /\ Rows - 1 \in 0 .. Rows - 1
  BY <1>1
<1>4. \A c \in 0 .. Rows - 1 : /\ Items[c] \in 1 .. Many /\ call.texts[Items[c]] \in Seq(Int)
                               /\ Length(Items[c]) \in Nat \ {0}
  <2>1. ASSUME NEW c \in 0 .. Rows - 1
        PROVE  /\ Items[c] \in 1 .. Many /\ call.texts[Items[c]] \in Seq(Int)
               /\ Length(Items[c]) \in Nat \ {0}
    <3>1. Items[c] \in 1 .. Many
      BY <1>1
    <3> QED
      BY <1>2, <3>1, NoEmptyText
  <2> QED
    BY <2>1
<1>5. Length(Items[b]) <= Length(Items[Rows - 1]) /\ Length(Items[0]) <= Length(Items[b])
  <2>1. b = 0 \/ 0 < b
    BY <1>1
  <2>2. b = Rows - 1 \/ b < Rows - 1
    BY <1>1
  <2>3. Length(Items[b]) \in Nat /\ Length(Items[0]) \in Nat
    BY <1>3, <1>4
  <2> QED
    BY <1>1, <1>3, <2>1, <2>2, <2>3
<1> QED
  BY <1>3, <1>4, <1>5 DEF Width

(* The tensors of a sub-batch, field by field. *)
LEMMA Shape ==
  ASSUME Working
  PROVE  /\ Materialized.seq_len = Width
         /\ Materialized.lengths = [b \in 0 .. Rows - 1 |-> Length(Items[b])]
         /\ Materialized.padded = (Length(Items[0]) # Width)
         /\ Materialized.last = [b \in 0 .. Rows - 1 |-> (b * Width) + Length(Items[b]) - 1]
<1>1. [b \in 0 .. Rows - 1 |-> (b * Width) + [a \in 0 .. Rows - 1 |-> Length(Items[a])][b] - 1]
        = [b \in 0 .. Rows - 1 |-> (b * Width) + Length(Items[b]) - 1]
  OBVIOUS
<1> QED
  BY <1>1 DEF Materialized, Rows, Width

(* Cell s of row b of the padded tensors holds token s of its text, or is  *)
(* not valid.                                                              *)
LEMMA PaddedCell ==
  ASSUME Working, NEW b \in 0 .. Rows - 1, NEW s \in 0 .. Width - 1
  PROVE  LET m == Materialized
             c == s + Width * b
         IN  /\ c \in Nat /\ c \div Width = b /\ c % Width = s
             /\ m.positions[c] = s
             /\ s < Length(Items[b]) => m.token_ids[c] = call.texts[Items[b]][s + 1]
             /\ c \in m.valid <=> s < Length(Items[b])
<1> DEFINE m == Materialized
           lengths == [r \in 0 .. Rows - 1 |-> Length(Items[r])]
           cells == 0 .. (Width * Rows) - 1
           c == s + Width * b
<1>1. Width \in Nat \ {0} /\ Rows \in Nat \ {0} /\ b \in Nat
  BY RowLength, WindowRows
<1>2. c \in cells /\ c \in Nat /\ c \div Width = b /\ c % Width = s
  <2>1. (s + Width * b) \in 0 .. (Width * Rows) - 1
    BY <1>1, CellInTable
  <2>2. Width * b \in Nat /\ (s + Width * b) \div Width = b /\ (s + Width * b) % Width = s
    BY <1>1, CellOf
  <2> QED
    BY <2>1, <2>2
<1>3. lengths[b] = Length(Items[b])
  OBVIOUS
<1>4. m.positions = [d \in cells |-> d % Width]
  BY DEF Materialized, Rows, Width
<1>5. m.token_ids = [d \in cells |-> IF d % Width < lengths[d \div Width]
                                     THEN call.texts[Items[d \div Width]][(d % Width) + 1] ELSE Padding]
  BY DEF Materialized, Rows, Width
<1>6. m.valid = {d \in cells : d % Width < lengths[d \div Width]}
  BY DEF Materialized, Rows, Width
<1> HIDE DEF m, lengths, cells, c
<1> QED
  BY <1>2, <1>3, <1>4, <1>5, <1>6 DEF c, m

(* Its line of the mask admits the tokens of its text. *)
LEMMA MaskLine ==
  ASSUME Working, NEW b \in 0 .. Rows - 1, NEW q \in 0 .. Width - 1, NEW k \in 0 .. Width - 1
  PROVE  k + (Width * (q + Width * b)) \in Materialized.attention_mask <=> k < Length(Items[b])
<1> DEFINE lengths == [r \in 0 .. Rows - 1 |-> Length(Items[r])]
           area == Width * Width
           place == k + Width * q
           c == k + (Width * (q + Width * b))
<1>1. Width \in Nat \ {0} /\ Rows \in Nat \ {0} /\ b \in Nat /\ q \in Nat /\ k \in Nat
  BY RowLength, WindowRows
<1>2. area \in Nat \ {0} /\ place \in 0 .. area - 1
  <2>1. Width * Width \in Nat \ {0}
    BY <1>1
  <2>2. k + Width * q \in 0 .. (Width * Width) - 1
    BY <1>1, CellInTable
  <2> QED
    BY <2>1, <2>2
<1>3. c = place + area * b
  <2>1. Width * (q + Width * b) = Width * q + (Width * Width) * b
    BY <1>1
  <2>2. Width * q \in Nat /\ (Width * Width) * b \in Nat
    BY <1>1
  <2> QED
    BY <1>1, <2>1, <2>2
<1>4. c % Width = k
  <2>1. (q + Width * b) \in Nat
    <3>1. Width * b \in Nat
      BY <1>1
    <3> QED
      BY <1>1, <3>1
  <2>2. (k + Width * (q + Width * b)) % Width = k
    BY <1>1, <2>1, CellOf
  <2> QED
    BY <2>2
<1>5. Materialized.attention_mask = {d \in 0 .. (area * Rows) - 1 : d % Width < lengths[d \div area]}
  BY DEF Materialized, Rows, Width
<1>6. lengths[b] = Length(Items[b])
  OBVIOUS
<1> HIDE DEF area, place, lengths
<1>7. c \in 0 .. (area * Rows) - 1 /\ c \div area = b
  <2>1. place + area * b \in 0 .. (area * Rows) - 1
    BY <1>1, <1>2, CellInTable
  <2>2. (place + area * b) \div area = b
    BY <1>1, <1>2, CellOf
  <2> QED
    BY <1>3, <2>1, <2>2
<1> QED
  BY <1>4, <1>5, <1>6, <1>7

(* Cursors that advance by the same lengths agree. *)
LEMMA SameCursor ==
  ASSUME NEW B \in Nat, NEW f \in [0 .. B -> Nat], NEW g \in [0 .. B -> Nat],
         NEW lengths \in [0 .. B - 1 -> Nat], f[0] = 0, g[0] = 0,
         \A k \in 1 .. B : f[k] = f[k - 1] + lengths[k - 1],
         \A k \in 1 .. B : g[k] = g[k - 1] + lengths[k - 1]
  PROVE  f = g
<1> DEFINE A == {k \in 0 .. B : f[k] = g[k]}
<1>1. 0 \in A
  OBVIOUS
<1>2. ASSUME NEW k \in 0 .. B - 1, k \in A
      PROVE  k + 1 \in A
  <2>1. PICK j \in 1 .. B : j = k + 1 /\ j - 1 = k
    OBVIOUS
  <2>2. f[j] = f[k] + lengths[k] /\ g[j] = g[k] + lengths[k]
    BY <2>1
  <2> QED
    BY <1>2, <2>1, <2>2
<1>3. 0 .. B \subseteq A
  <2> HIDE DEF A
  <2> QED
    BY <1>1, <1>2, Induction
<1>4. \A k \in 0 .. B : f[k] = g[k]
  BY <1>3
<1> QED
  BY <1>4

(* Parts as long as the rows, and where their concatenation has them. *)
PartsOf(ss, B, lengths) ==
  ss \in Seq(Seq(Int)) /\ Len(ss) = B /\ \A k \in 1 .. B : Len(ss[k]) = lengths[k - 1]

Behind(start, end, s, flat, part) ==
  start \in Nat /\ start + s \in 0 .. end - 1 /\ flat[start + s + 1] = part[s + 1]

(* Parts as long as the rows, concatenated, are where the offsets say. *)
LEMMA PartsAtOffsets ==
  ASSUME NEW B \in Nat \ {0}, NEW lengths \in [0 .. B - 1 -> Nat], NEW ss, PartsOf(ss, B, lengths),
         NEW b \in 0 .. B - 1, NEW s \in 0 .. lengths[b] - 1
  PROVE  Behind(Offsets(lengths)[b], Offsets(lengths)[B], s, FlattenSeq(ss), ss[b + 1])
<1> USE DEF PartsOf
<1> DEFINE flat == FlattenSeq(ss)
<1>1. PICK o \in [0 .. B -> Nat] :
        /\ o = Offsets(lengths) /\ o[0] = 0
        /\ \A k \in 1 .. B : o[k] = o[k - 1] + lengths[k - 1]
  BY OffsetsAdd
<1>2. PICK at : PartsAt(at, B, ss)
  <2>1. \E at : PartsAt(at, Len(ss), ss)
    BY FlattenedParts
  <2> QED
    BY <2>1
<1>3. /\ at \in [0 .. B -> Nat] /\ at[0] = 0
      /\ \A k \in 1 .. B : at[k] = at[k - 1] + lengths[k - 1]
  BY <1>2 DEF PartsAt
<1>4. \A k \in 1 .. B : \A i \in 1 .. lengths[k - 1] :
        at[k - 1] + i \in 1 .. at[B] /\ flat[at[k - 1] + i] = ss[k][i]
  BY <1>2 DEF PartsAt
<1> HIDE DEF flat
<1>5. PICK x \in Nat, y \in Nat : x = o[b] /\ y = o[B] /\ x = at[b] /\ y = at[B]
  <2>1. at = o
    <3>1. B \in Nat
      OBVIOUS
    <3> QED
      BY <1>1, <1>3, <3>1, SameCursor
  <2>2. b \in 0 .. B /\ B \in 0 .. B
    OBVIOUS
  <2>3. o[b] \in Nat /\ o[B] \in Nat
    BY <1>1, <2>2
  <2> QED
    BY <2>1, <2>3, Zenon
<1>6. PICK k \in 1 .. B : k = b + 1 /\ k - 1 = b
  OBVIOUS
<1>7. s \in Nat /\ s + 1 \in 1 .. lengths[b]
  OBVIOUS
<1>8. at[b] + (s + 1) \in 1 .. at[B] /\ flat[at[b] + (s + 1)] = ss[b + 1][s + 1]
  <2>1. \A i \in 1 .. lengths[k - 1] : at[k - 1] + i \in 1 .. at[B] /\ flat[at[k - 1] + i] = ss[k][i]
    BY <1>4
  <2>2. s + 1 \in 1 .. lengths[k - 1]
    BY <1>6, <1>7
  <2>3. at[k - 1] + (s + 1) \in 1 .. at[B] /\ flat[at[k - 1] + (s + 1)] = ss[k][s + 1]
    BY <2>1, <2>2, Zenon
  <2> QED
    BY <1>6, <2>3, Zenon
<1>9. x + (s + 1) \in 1 .. y /\ flat[x + (s + 1)] = ss[b + 1][s + 1]
  BY <1>5, <1>8, Zenon
<1>10. x + (s + 1) = x + s + 1 /\ x + s \in 0 .. y - 1
  <2>1. ASSUME NEW i \in Nat, x + (i + 1) \in 1 .. y
        PROVE  x + (i + 1) = x + i + 1 /\ x + i \in 0 .. y - 1
    BY <2>1
  <2> QED
    BY <1>7, <1>9, <2>1, Zenon
<1>11. x \in Nat /\ x + s \in 0 .. y - 1 /\ flat[x + s + 1] = ss[b + 1][s + 1]
  BY <1>9, <1>10, Zenon
<1> QED
  BY <1>1, <1>5, <1>11, Zenon DEF flat, Behind

(* Token s of row b is packed s cells behind the row's offset. *)
LEMMA PackedCell ==
  ASSUME Working, NEW b \in 0 .. Rows - 1, NEW s \in 0 .. Length(Items[b]) - 1
  PROVE  LET m == Materialized
             t == m.offsets[b] + s
         IN  /\ m.offsets[b] \in Nat
             /\ m.packed_token_ids[t] = call.texts[Items[b]][s + 1]
             /\ m.packed_positions[t] = s
<1> DEFINE m == Materialized
           lengths == [r \in 0 .. Rows - 1 |-> Length(Items[r])]
           texts == [r \in 1 .. Rows |-> call.texts[Items[r - 1]]]
           ramps == [r \in 1 .. Rows |-> [i \in 1 .. lengths[r - 1] |-> i - 1]]
           o == Offsets(lengths)
<1>1. Rows \in Nat \ {0}
  BY WindowRows
<1>2. \A r \in 0 .. Rows - 1 : call.texts[Items[r]] \in Seq(Int) /\ Length(Items[r]) \in Nat
  BY RowLength
<1>3. \A r \in 1 .. Rows : r - 1 \in 0 .. Rows - 1
  BY <1>1
<1>4. lengths \in [0 .. Rows - 1 -> Nat]
  BY <1>2
<1>5. texts \in Seq(Seq(Int)) /\ Len(texts) = Rows
  <2>1. texts \in [1 .. Rows -> Seq(Int)]
    BY <1>2, <1>3
  <2> QED
    BY <1>1, <2>1
<1>6. \A r \in 1 .. Rows : Len(texts[r]) = lengths[r - 1]
  BY <1>3 DEF Length
<1>7. ASSUME NEW n \in Nat
      PROVE  [i \in 1 .. n |-> i - 1] \in Seq(Int) /\ Len([i \in 1 .. n |-> i - 1]) = n
  OBVIOUS
<1>8. \A r \in 1 .. Rows : ramps[r] \in Seq(Int) /\ Len(ramps[r]) = lengths[r - 1]
  <2>1. ASSUME NEW r \in 1 .. Rows
        PROVE  ramps[r] \in Seq(Int) /\ Len(ramps[r]) = lengths[r - 1]
    <3>1. ramps[r] = [i \in 1 .. lengths[r - 1] |-> i - 1] /\ lengths[r - 1] \in Nat
      BY <1>3, <1>4
    <3> QED
      BY <1>7, <3>1
  <2> QED
    BY <2>1
<1>9. ramps \in Seq(Seq(Int)) /\ Len(ramps) = Rows
  <2>1. ramps \in [1 .. Rows -> Seq(Int)]
    BY <1>8
  <2> QED
    BY <1>1, <2>1
<1>10. m.offsets = o
  BY DEF Materialized, Rows, Width
<1>11. m.packed_token_ids = [t \in 0 .. o[Rows] - 1 |-> FlattenSeq(texts)[t + 1]]
  BY DEF Materialized, Rows, Width
<1>12. m.packed_positions = [t \in 0 .. o[Rows] - 1 |-> FlattenSeq(ramps)[t + 1]]
  BY DEF Materialized, Rows, Width
<1>13. s \in 0 .. lengths[b] - 1
  OBVIOUS
<1>14. b + 1 \in 1 .. Rows /\ (b + 1) - 1 = b /\ s + 1 \in 1 .. lengths[b] /\ (s + 1) - 1 = s
  BY <1>1, <1>4
<1>15. texts[b + 1][s + 1] = call.texts[Items[b]][s + 1] /\ ramps[b + 1][s + 1] = s
  BY <1>14
<1> HIDE DEF m, lengths, texts, ramps
<1>16. Behind(Offsets(lengths)[b], Offsets(lengths)[Rows], s, FlattenSeq(texts), texts[b + 1])
  <2>1. PartsOf(texts, Rows, lengths)
    BY <1>5, <1>6 DEF PartsOf
  <2> QED
    BY <1>1, <1>4, <1>13, <2>1, PartsAtOffsets, Zenon
<1>17. Behind(Offsets(lengths)[b], Offsets(lengths)[Rows], s, FlattenSeq(ramps), ramps[b + 1])
  <2>1. PartsOf(ramps, Rows, lengths)
    BY <1>8, <1>9 DEF PartsOf
  <2> QED
    BY <1>1, <1>4, <1>13, <2>1, PartsAtOffsets, Zenon
<1>18. m.offsets[b] \in Nat /\ m.offsets[b] + s \in 0 .. o[Rows] - 1
  BY <1>10, <1>16 DEF Behind
<1>19. m.packed_token_ids[m.offsets[b] + s] = call.texts[Items[b]][s + 1]
  BY <1>10, <1>11, <1>15, <1>16, <1>18 DEF Behind
<1>20. m.packed_positions[m.offsets[b] + s] = s
  BY <1>10, <1>12, <1>15, <1>17, <1>18 DEF Behind
<1> QED
  BY <1>18, <1>19, <1>20 DEF m

-----------------------------------------------------------------------------
(* Token q of a text alone, after attention, and the pooled text. *)
Tok(text, q) ==
  [token |-> <<text[q + 1], q>>,
   keys  |-> {<<text[k + 1], k>> : k \in Attended(0, Len(text), q)}]

Pooled(text) ==
  CASE call.pooling = "Mean" ->
         [of |-> {Tok(text, s) : s \in 0 .. Len(text) - 1}, over |-> Len(text)]
    [] call.pooling = "Cls"  -> [of |-> {Tok(text, 0)}, over |-> 1]
    [] call.pooling = "Last" -> [of |-> {Tok(text, Len(text) - 1)}, over |-> 1]

(* What embed computes of a text, token by token. *)
LEMMA SingleIs ==
  ASSUME NEW text \in Seq(Int), text # <<>>
  PROVE  Single(text) = Pooled(text)
<1> DEFINE S == Len(text)
           token == [s \in 0 .. S - 1 |-> text[s + 1]]
           ramp == [s \in 0 .. S - 1 |-> s]
           x == [s \in 0 .. S - 1 |-> State(token, ramp, s, Attended(0, S, s))]
<1>1. S \in Nat \ {0} /\ 0 \in 0 .. S - 1 /\ S - 1 \in 0 .. S - 1
  OBVIOUS
<1>2. ASSUME NEW s \in 0 .. S - 1
      PROVE  x[s] = Tok(text, s)
  <2>1. Attended(0, S, s) \subseteq 0 .. S - 1
    BY <1>1 DEF Attended
  <2>2. {<<token[k], ramp[k]>> : k \in Attended(0, S, s)}
          = {<<text[k + 1], k>> : k \in Attended(0, S, s)}
    <3> HIDE DEF S
    <3>1. \A k \in Attended(0, S, s) : token[k] = text[k + 1] /\ ramp[k] = k
      BY <2>1
    <3> HIDE DEF token, ramp
    <3> QED
      BY <3>1
  <2>3. token[s] = text[s + 1] /\ ramp[s] = s
    OBVIOUS
  <2>4. x[s] = [token |-> <<token[s], ramp[s]>>,
                keys  |-> {<<token[k], ramp[k]>> : k \in Attended(0, S, s)}]
    BY DEF State
  <2> HIDE DEF x, token, ramp
  <2> QED
    BY <2>2, <2>3, <2>4 DEF Tok
<1>3. {x[s] : s \in 0 .. S - 1} = {Tok(text, s) : s \in 0 .. S - 1}
  <2> HIDE DEF x, S
  <2> QED
    BY <1>2
<1>4. Single(text) = CASE call.pooling = "Mean" -> [of |-> {x[s] : s \in 0 .. S - 1}, over |-> S]
                       [] call.pooling = "Cls"  -> [of |-> {x[0]}, over |-> 1]
                       [] call.pooling = "Last" -> [of |-> {x[S - 1]}, over |-> 1]
  BY DEF Single
<1>5. x[0] = Tok(text, 0) /\ x[S - 1] = Tok(text, S - 1)
  BY <1>1, <1>2
<1> HIDE DEF x
<1> QED
  BY <1>3, <1>4, <1>5 DEF Pooled

(* A padded cell that holds a token has attended to what the token attends *)
(* to alone.                                                               *)
LEMMA PaddedToken ==
  ASSUME Working, NEW b \in 0 .. Rows - 1, NEW q \in 0 .. Length(Items[b]) - 1
  PROVE  LET m == Materialized
             c == q + Width * b
             scored == {k \in Attended(0, Width, q) : m.padded => k + (Width * c) \in m.attention_mask}
         IN  State(m.token_ids, m.positions, c, {(c - q) + k : k \in scored})
               = Tok(call.texts[Items[b]], q)
<1> DEFINE m == Materialized
           text == call.texts[Items[b]]
           L == Length(Items[b])
           c == q + Width * b
           scored == {k \in Attended(0, Width, q) : m.padded => k + (Width * c) \in m.attention_mask}
           keys == {(c - q) + k : k \in scored}
<1>1. /\ Rows \in Nat \ {0} /\ b \in Nat /\ Width \in Nat \ {0} /\ L \in Nat \ {0} /\ L <= Width
      /\ Length(Items[0]) = Width => L = Width
  BY RowLength, WindowRows
<1>2. q \in 0 .. Width - 1 /\ Len(text) = L /\ Width * b \in Nat
  BY <1>1 DEF Length
<1>3. m.padded = (Length(Items[0]) # Width)
  BY Shape
<1>4. scored = Attended(0, L, q)
  <2>1. \A k \in 0 .. Width - 1 : k + (Width * c) \in m.attention_mask <=> k < L
    BY <1>2, MaskLine
  <2>2. Attended(0, Width, q) = {k \in 0 .. Width - 1 : Causal(call.family) => k <= q}
    BY <1>1 DEF Attended
  <2>3. Attended(0, L, q) = {k \in 0 .. L - 1 : Causal(call.family) => k <= q}
    BY <1>1 DEF Attended
  <2> HIDE DEF m, L, c
  <2>4. ASSUME NEW k \in 0 .. Width - 1
        PROVE  (m.padded => k + (Width * c) \in m.attention_mask) <=> k \in 0 .. L - 1
    <3>1. k \in 0 .. L - 1 <=> k < L
      BY <1>1
    <3>2. CASE m.padded
      BY <2>1, <3>1, <3>2
    <3>3. CASE ~m.padded
      <4>1. L = Width
        BY <1>1, <1>3, <3>3
      <4> QED
        BY <3>3, <4>1
    <3> QED
      BY <3>2, <3>3
  <2>5. 0 .. L - 1 \subseteq 0 .. Width - 1
    BY <1>1
  <2> QED
    BY <2>2, <2>3, <2>4, <2>5
<1>5. \A k \in 0 .. L - 1 : m.token_ids[k + Width * b] = text[k + 1] /\ m.positions[k + Width * b] = k
  <2>1. ASSUME NEW k \in 0 .. L - 1
        PROVE  m.token_ids[k + Width * b] = text[k + 1] /\ m.positions[k + Width * b] = k
    <3>1. k \in 0 .. Width - 1 /\ k < Length(Items[b])
      BY <1>1
    <3> QED
      BY <3>1, PaddedCell
  <2> QED
    BY <2>1
<1>6. \A k \in 0 .. L - 1 : (c - q) + k = k + Width * b
  BY <1>1, <1>2
<1>7. Attended(0, L, q) \subseteq 0 .. L - 1 /\ q \in 0 .. L - 1
  BY <1>1 DEF Attended
<1> HIDE DEF m, text, L, c
<1>8. {<<m.token_ids[d], m.positions[d]>> : d \in keys}
        = {<<text[k + 1], k>> : k \in Attended(0, L, q)}
  <2>1. {<<m.token_ids[d], m.positions[d]>> : d \in keys}
          = {<<m.token_ids[(c - q) + k], m.positions[(c - q) + k]>> : k \in scored}
    <3> HIDE DEF scored
    <3> QED
      OBVIOUS
  <2> HIDE DEF keys, scored
  <2>2. \A k \in Attended(0, L, q) : /\ m.token_ids[(c - q) + k] = text[k + 1]
                                     /\ m.positions[(c - q) + k] = k
    BY <1>5, <1>6, <1>7
  <2> QED
    BY <1>4, <2>1, <2>2
<1>9. m.token_ids[c] = text[q + 1] /\ m.positions[c] = q
  BY <1>5, <1>7 DEF c
<1>10. State(m.token_ids, m.positions, c, keys) = Tok(text, q)
  <2> HIDE DEF keys
  <2> QED
    BY <1>2, <1>8, <1>9 DEF State, Tok
<1> QED
  BY <1>10 DEF m, text, c

(* A row of a padded, or of an equal-length, sub-batch is its text alone. *)
LEMMA PaddedRowIs ==
  ASSUME Working, NEW b \in 0 .. Rows - 1
  PROVE  PaddedRow(Materialized, b) = Pooled(call.texts[Items[b]])
<1> DEFINE m == Materialized
           text == call.texts[Items[b]]
           L == Length(Items[b])
           S == m.seq_len
           row == S * b .. (S * b) + S - 1
           scored(c) == {k \in Attended(0, S, c % S) : m.padded => k + (S * c) \in m.attention_mask}
           x(c) == State(m.token_ids, m.positions, c, {(c - (c % S)) + k : k \in scored(c)})
<1>1. /\ Rows \in Nat \ {0} /\ b \in Nat /\ Width \in Nat \ {0} /\ L \in Nat \ {0} /\ L <= Width
      /\ Length(Items[0]) = Width => L = Width
  BY RowLength, WindowRows
<1>2. /\ S = Width /\ m.padded = (Length(Items[0]) # Width)
      /\ m.lengths[b] = L /\ m.last[b] = (b * Width) + L - 1
  BY Shape
<1>3. Len(text) = L
  BY DEF Length
<1>4. \A s \in 0 .. Width - 1 : /\ (s + Width * b) % Width = s
                                /\ s + Width * b \in m.valid <=> s < L
  BY PaddedCell
<1>5. ASSUME NEW s \in 0 .. L - 1
      PROVE  x(s + Width * b) = Tok(text, s)
  <2> DEFINE c == s + Width * b
             admitted == {k \in Attended(0, Width, s) : m.padded => k + (Width * c) \in m.attention_mask}
  <2>1. c % S = s
    BY <1>1, <1>2, <1>4
  <2>2. State(m.token_ids, m.positions, c, {(c - s) + k : k \in admitted}) = Tok(text, s)
    BY PaddedToken
  <2>3. x(c) = State(m.token_ids, m.positions, c, {(c - s) + k : k \in admitted})
    <3> HIDE DEF m, S, c
    <3>1. scored(c) = admitted
      BY <1>2, <2>1
    <3> HIDE DEF scored, admitted
    <3> QED
      BY <2>1, <3>1
  <2> QED
    BY <2>2, <2>3
<1>6. CASE call.pooling = "Mean"
  <2>1. Pooled(text) = [of |-> {Tok(text, s) : s \in 0 .. L - 1}, over |-> L]
    BY <1>3, <1>6 DEF Pooled
  <2> DEFINE cells == {s + Width * b : s \in 0 .. L - 1}
  <2>2. {x(c) : c \in cells} = {Tok(text, s) : s \in 0 .. L - 1}
    <3>1. {x(c) : c \in cells} = {x(s + Width * b) : s \in 0 .. L - 1}
      <4> HIDE DEF x
      <4> QED
        OBVIOUS
    <3> HIDE DEF x, L, text
    <3> QED
      BY <1>5, <3>1
  <2>3. \A c \in row : \E s \in 0 .. Width - 1 : c = s + Width * b
    <3>1. ASSUME NEW base \in Nat
          PROVE  \A c \in base .. base + Width - 1 : \E s \in 0 .. Width - 1 : c = s + base
      <4>1. \A c \in base .. base + Width - 1 : c - base \in 0 .. Width - 1 /\ c = (c - base) + base
        BY <1>1
      <4> QED
        BY <4>1
    <3>2. Width * b \in Nat /\ row = Width * b .. (Width * b) + Width - 1
      BY <1>1, <1>2
    <3> QED
      BY <3>1, <3>2
  <2>4. \A s \in 0 .. Width - 1 : s + Width * b \in row
    <3>1. ASSUME NEW base \in Nat, NEW s \in 0 .. Width - 1
          PROVE  s + base \in base .. base + Width - 1
      BY <1>1
    <3>2. Width * b \in Nat /\ row = Width * b .. (Width * b) + Width - 1
      BY <1>1, <1>2
    <3> QED
      BY <3>1, <3>2
  <2>5. \A s \in 0 .. L - 1 : s \in 0 .. Width - 1 /\ s < L
    BY <1>1
  <2>6. CASE m.padded
    <3>1. PaddedRow(m, b) = [of |-> {x(c) : c \in row \cap m.valid}, over |-> L]
      BY <1>2, <1>6, <2>6 DEF PaddedRow
    <3>2. row \cap m.valid = cells
      <4>1. \A s \in 0 .. Width - 1 : s < L => s \in 0 .. L - 1
        BY <1>1
      <4> HIDE DEF row, L, m
      <4>2. ASSUME NEW c \in row \cap m.valid
            PROVE  c \in cells
        BY <1>4, <2>3, <4>1
      <4>3. ASSUME NEW c \in cells
            PROVE  c \in row \cap m.valid
        BY <1>4, <2>4, <2>5
      <4> QED
        BY <4>2, <4>3
    <3> HIDE DEF x, row, m, L, text, cells
    <3> QED
      BY <2>1, <2>2, <3>1, <3>2 DEF m, text
  <2>7. CASE ~m.padded
    <3>1. L = Width
      BY <1>1, <1>2, <2>7
    <3>2. PaddedRow(m, b) = [of |-> {x(c) : c \in row}, over |-> S]
      BY <1>6, <2>7 DEF PaddedRow
    <3>3. row = cells
      <4> HIDE DEF row, L, m
      <4>1. ASSUME NEW c \in row
            PROVE  c \in cells
        BY <2>3, <3>1
      <4>2. ASSUME NEW c \in cells
            PROVE  c \in row
        BY <2>4, <2>5
      <4> QED
        BY <4>1, <4>2
    <3> HIDE DEF x, row, L, text, cells
    <3> QED
      BY <1>2, <2>1, <2>2, <3>1, <3>2, <3>3 DEF text
  <2> QED
    BY <2>6, <2>7
<1>7. CASE call.pooling = "Cls"
  <2>1. PaddedRow(m, b) = [of |-> {x(S * b)}, over |-> 1]
    BY <1>7 DEF PaddedRow
  <2>2. S * b = 0 + Width * b /\ 0 \in 0 .. L - 1
    BY <1>1, <1>2
  <2>3. x(S * b) = Tok(text, 0)
    <3> HIDE DEF x
    <3> QED
      BY <1>5, <2>2
  <2> HIDE DEF x
  <2> QED
    BY <1>7, <2>1, <2>3 DEF Pooled
<1>8. CASE call.pooling = "Last"
  <2> DEFINE c == IF m.padded THEN m.last[b] ELSE (S * b) + S - 1
  <2>1. PaddedRow(m, b) = [of |-> {x(c)}, over |-> 1]
    BY <1>8 DEF PaddedRow
  <2>2. c = (L - 1) + Width * b /\ L - 1 \in 0 .. L - 1
    <3>1. Width * b \in Nat /\ b * Width = Width * b
      BY <1>1
    <3>2. m.padded => m.last[b] = (L - 1) + Width * b
      BY <1>1, <1>2, <3>1
    <3>3. ~m.padded => (S * b) + S - 1 = (L - 1) + Width * b
      <4>1. ~m.padded => L = Width
        BY <1>1, <1>2
      <4>2. (Width * b) + Width - 1 = (Width - 1) + Width * b
        BY <1>1, <3>1
      <4> HIDE DEF m, L
      <4> QED
        BY <1>2, <4>1, <4>2
    <3> QED
      BY <1>1, <3>2, <3>3
  <2>3. x(c) = Tok(text, L - 1)
    <3> HIDE DEF x, c
    <3> QED
      BY <1>5, <2>2
  <2> HIDE DEF x, c
  <2> QED
    BY <1>3, <1>8, <2>1, <2>3 DEF Pooled
<1>9. call.pooling \in Pooling
  BY DEF Working, Tokenized, IsCall
<1> QED
  BY <1>6, <1>7, <1>8, <1>9 DEF Pooling

(* A packed cell has attended to what its token attends to alone. *)
LEMMA PackedToken ==
  ASSUME Working, NEW b \in 0 .. Rows - 1, NEW q \in 0 .. Length(Items[b]) - 1
  PROVE  LET m == Materialized
             start == m.offsets[b]
         IN  State(m.packed_token_ids, m.packed_positions, start + q,
                   Attended(start, Length(Items[b]), start + q))
               = Tok(call.texts[Items[b]], q)
<1> DEFINE m == Materialized
           text == call.texts[Items[b]]
           L == Length(Items[b])
           start == m.offsets[b]
           keys == Attended(start, L, start + q)
<1>1. L \in Nat \ {0} /\ q \in 0 .. L - 1 /\ Len(text) = L
  BY RowLength DEF Length
<1>2. ASSUME NEW s \in 0 .. L - 1
      PROVE  m.packed_token_ids[start + s] = text[s + 1] /\ m.packed_positions[start + s] = s
  BY PackedCell
<1>3. start \in Nat
  BY <1>1, PackedCell
<1> HIDE DEF m, text, L, start
<1>4. keys = {start + k : k \in Attended(0, L, q)}
  <2>1. ASSUME NEW k \in keys
        PROVE  k \in {start + d : d \in Attended(0, L, q)}
    <3>1. k \in start .. start + L - 1 /\ (Causal(call.family) => k <= start + q)
      BY DEF Attended
    <3>2. k - start \in 0 .. 0 + L - 1 /\ k = start + (k - start)
      BY <1>1, <1>3, <3>1
    <3>3. k <= start + q => k - start <= q
      BY <1>1, <1>3, <3>1
    <3>4. k - start \in Attended(0, L, q)
      BY <3>1, <3>2, <3>3 DEF Attended
    <3> QED
      BY <3>2, <3>4
  <2>2. ASSUME NEW k \in Attended(0, L, q)
        PROVE  start + k \in keys
    <3>1. k \in 0 .. 0 + L - 1 /\ (Causal(call.family) => k <= q)
      BY DEF Attended
    <3>2. start + k \in start .. start + L - 1 /\ (k <= q => start + k <= start + q)
      BY <1>1, <1>3, <3>1
    <3> QED
      BY <3>1, <3>2 DEF Attended
  <2> HIDE DEF keys
  <2> QED
    BY <2>1, <2>2
<1>5. Attended(0, L, q) \subseteq 0 .. L - 1
  BY <1>1 DEF Attended
<1>6. {<<m.packed_token_ids[t], m.packed_positions[t]>> : t \in keys}
        = {<<text[k + 1], k>> : k \in Attended(0, L, q)}
  <2>1. {<<m.packed_token_ids[t], m.packed_positions[t]>> : t \in keys}
          = {<<m.packed_token_ids[start + k], m.packed_positions[start + k]>> : k \in Attended(0, L, q)}
    <3> HIDE DEF keys
    <3> QED
      BY <1>4
  <2> HIDE DEF keys
  <2> QED
    BY <1>2, <1>5, <2>1
<1>7. State(m.packed_token_ids, m.packed_positions, start + q, keys) = Tok(text, q)
  <2> HIDE DEF keys
  <2> QED
    BY <1>1, <1>2, <1>6 DEF State, Tok
<1> QED
  BY <1>7 DEF m, text, L, start

(* A row of a packed sub-batch is its text alone. *)
LEMMA PackedRowIs ==
  ASSUME Working, NEW b \in 0 .. Rows - 1
  PROVE  PackedRow(Materialized, b) = Pooled(call.texts[Items[b]])
<1> DEFINE m == Materialized
           text == call.texts[Items[b]]
           L == Length(Items[b])
           start == m.offsets[b]
           slice == start .. start + m.lengths[b] - 1
           x(t) == State(m.packed_token_ids, m.packed_positions, t,
                         Attended(start, m.lengths[b], t))
<1>1. L \in Nat \ {0} /\ Len(text) = L /\ 0 \in 0 .. L - 1 /\ L - 1 \in 0 .. L - 1
  BY RowLength DEF Length
<1>2. m.lengths[b] = L
  BY Shape
<1>3. start \in Nat
  BY <1>1, PackedCell
<1>4. ASSUME NEW s \in 0 .. L - 1
      PROVE  x(start + s) = Tok(text, s)
  <2>1. State(m.packed_token_ids, m.packed_positions, start + s, Attended(start, L, start + s))
          = Tok(text, s)
    BY PackedToken
  <2> HIDE DEF m, L, text, start
  <2> QED
    BY <1>2, <2>1
<1>5. CASE call.pooling = "Mean"
  <2>1. PackedRow(m, b) = [of |-> {x(t) : t \in slice}, over |-> L]
    BY <1>2, <1>5 DEF PackedRow
  <2>2. Pooled(text) = [of |-> {Tok(text, s) : s \in 0 .. L - 1}, over |-> L]
    BY <1>1, <1>5 DEF Pooled
  <2>3. slice = {start + s : s \in 0 .. L - 1}
    <3> HIDE DEF m, L, start
    <3>1. \A t \in start .. start + L - 1 : t - start \in 0 .. L - 1 /\ t = start + (t - start)
      BY <1>1, <1>3
    <3>2. \A s \in 0 .. L - 1 : start + s \in start .. start + L - 1
      BY <1>1, <1>3
    <3>3. slice = start .. start + L - 1
      BY <1>2
    <3> HIDE DEF slice
    <3> QED
      BY <3>1, <3>2, <3>3
  <2>4. {x(t) : t \in slice} = {x(start + s) : s \in 0 .. L - 1}
    <3> HIDE DEF x, slice, start, L
    <3> QED
      BY <2>3
  <2> HIDE DEF x, slice, start, L, text, m
  <2>5. {x(start + s) : s \in 0 .. L - 1} = {Tok(text, s) : s \in 0 .. L - 1}
    BY <1>4
  <2> QED
    BY <2>1, <2>2, <2>4, <2>5 DEF m, text
<1>6. CASE call.pooling = "Cls"
  <2>1. PackedRow(m, b) = [of |-> {x(start)}, over |-> 1]
    BY <1>6 DEF PackedRow
  <2>2. start = start + 0
    BY <1>3
  <2> HIDE DEF x
  <2>3. x(start) = Tok(text, 0)
    BY <1>1, <1>4, <2>2
  <2> QED
    BY <1>6, <2>1, <2>3 DEF Pooled
<1>7. CASE call.pooling = "Last"
  <2>1. PackedRow(m, b) = [of |-> {x(start + m.lengths[b] - 1)}, over |-> 1]
    BY <1>7 DEF PackedRow
  <2>2. start + m.lengths[b] - 1 = start + (L - 1)
    <3> HIDE DEF start, L, m
    <3> QED
      BY <1>1, <1>2, <1>3
  <2> HIDE DEF x
  <2>3. x(start + m.lengths[b] - 1) = Tok(text, L - 1)
    BY <1>1, <1>4, <2>2
  <2> QED
    BY <1>1, <1>7, <2>1, <2>3 DEF Pooled
<1>8. call.pooling \in Pooling
  BY DEF Working, Tokenized, IsCall
<1> QED
  BY <1>5, <1>6, <1>7, <1>8 DEF Pooling

(* Whatever the layout, a row is what embed computes of its text. *)
LEMMA RowIsSingle ==
  ASSUME Working, NEW b \in 0 .. Rows - 1
  PROVE  Row(Materialized, b) = Single(call.texts[Items[b]])
<1>1. Row(Materialized, b) = Pooled(call.texts[Items[b]])
  BY PaddedRowIs, PackedRowIs DEF Row
<1>2. call.texts[Items[b]] \in Seq(Int) /\ Items[b] \in 1 .. Many
  BY RowLength
<1>3. call.texts[Items[b]] # <<>>
  BY <1>2, Lengths DEF Working, Tokenized, Null
<1> QED
  BY <1>1, <1>2, <1>3, SingleIs

-----------------------------------------------------------------------------
(* The vector of a text is not one of the two markers: it is an average    *)
(* over at least one token.                                                *)
LEMMA SingleIsAVector ==
  ASSUME IsCall, NEW text \in Seq(Int), text # <<>>
  PROVE  Single(text) \notin {Untouched, NaN}
<1>1. Len(text) \in Nat \ {0}
  OBVIOUS
<1>2. call.pooling \in {"Mean", "Cls", "Last"}
  BY DEF IsCall, Pooling
<1>3. Pooled(text).over \in Nat \ {0}
  <2>1. CASE call.pooling = "Mean"
    <3>1. Pooled(text).over = Len(text)
      BY <2>1 DEF Pooled
    <3> QED
      BY <1>1, <3>1
  <2>2. CASE call.pooling = "Cls"
    <3>1. Pooled(text).over = 1
      BY <2>2 DEF Pooled
    <3> QED
      BY <3>1
  <2>3. CASE call.pooling = "Last"
    <3>1. Pooled(text).over = 1
      BY <2>3 DEF Pooled
    <3> QED
      BY <3>1
  <2> QED
    BY <1>2, <2>1, <2>2, <2>3
<1>4. Untouched.over = 0 /\ NaN.over = -1
  BY DEF Untouched, NaN
<1> QED
  BY <1>3, <1>4, SingleIs

(* The inductive invariant.  While the call runs, the texts of the         *)
(* sub-batches done, the first of the plan, have the vectors they have     *)
(* alone and the rest are untouched.                                       *)
Computed(p, d, o) ==
  \A j \in 1 .. Many :
    o[p[j]] = IF j <= d * call.max_batch THEN Single(call.texts[p[j]]) ELSE Untouched

Progress ==
  /\ status \in {"calling", "invalid", "running", "ok", "error"}
  /\ status \in {"calling", "invalid"} =>
       plan = <<>> /\ done = 0 /\ \A i \in 1 .. Many : out[i] = Untouched
  /\ status \in {"running", "ok"} =>
       Tokenized /\ IsPlan(plan) /\ done \in 0 .. SubBatchCount /\ Computed(plan, done, out)
  /\ status = "ok"    => done = SubBatchCount
  /\ status = "error" => \A i \in 1 .. Many : out[i] = NaN

IInv == IsCall /\ DOMAIN out = 1 .. Many /\ Progress

(* The sub-batches cover the plan and none of them is empty. *)
LEMMA SubBatches ==
  ASSUME Tokenized, IsPlan(plan)
  PROVE  /\ SubBatchCount \in Nat
         /\ \A d \in Nat : d < SubBatchCount <=> d * call.max_batch < Many
<1>1. Many \in Nat /\ call.max_batch \in Nat \ {0}
  BY Lengths DEF Tokenized
<1>2. plan \in [1 .. Many -> 1 .. Many]
  BY DEF IsPlan, Bijection, Injection
<1>3. Len(plan) = Many /\ (plan = <<>> <=> Many = 0)
  BY <1>1, <1>2
<1>4. CASE Many = 0
  <2>1. SubBatchCount = 0
    BY <1>3, <1>4 DEF SubBatchCount
  <2>2. \A d \in Nat : ~(d < 0) /\ ~(d * call.max_batch < 0)
    <3>1. \A d \in Nat : d * call.max_batch \in Nat
      BY <1>1
    <3> QED
      BY <3>1
  <2> QED
    BY <1>4, <2>1, <2>2
<1>5. CASE Many # 0
  <2> DEFINE mb == call.max_batch
             last == Many - 1
             q == last \div mb
  <2>0. mb \in Nat \ {0} /\ last \in Nat /\ last < Many
    BY <1>1, <1>5
  <2>1. q \in Nat /\ last = mb * q + (last % mb) /\ last % mb \in 0 .. mb - 1
    <3> HIDE DEF mb, last
    <3> QED
      BY <2>0, Quotient
  <2>2. SubBatchCount = 1 + q
    BY <1>3, <1>5 DEF SubBatchCount
  <2>3. mb * q <= last /\ last < mb * q + mb
    <3>1. mb * q \in Nat
      BY <2>0, <2>1
    <3> HIDE DEF mb, last, q
    <3> QED
      BY <2>0, <2>1, <3>1
  <2> HIDE DEF q
  <2>4. ASSUME NEW d \in Nat
        PROVE  d < SubBatchCount <=> d * mb < Many
    <3>1. d * mb = mb * d /\ mb * d \in Nat /\ mb * q \in Nat
      BY <2>0, <2>1
    <3>2. d < SubBatchCount <=> d = q \/ d < q
      BY <2>1, <2>2
    <3>3. d < q => mb * d + mb <= mb * q
      BY <2>0, <2>1, Monotone
    <3>4. q < d => mb * q + mb <= mb * d
      BY <2>0, <2>1, Monotone
    <3>5. Many = last + 1
      BY <1>1
    <3> HIDE DEF mb, last
    <3> QED
      BY <2>0, <2>1, <2>3, <3>1, <3>2, <3>3, <3>4, <3>5
  <2> QED
    BY <2>1, <2>2, <2>4
<1> QED
  BY <1>4, <1>5

(* Nothing that depends on the arguments changes while they do not. *)
LEMMA SameArguments ==
  ASSUME UNCHANGED call, NEW CONSTANT text, NEW CONSTANT p
  PROVE  /\ Single(text)' = Single(text) /\ Many' = Many
         /\ IsCall' = IsCall /\ Tokenized' = Tokenized /\ IsPlan(p)' = IsPlan(p)
<1>1. Many' = Many /\ IsCall' = IsCall
  BY DEF Many, IsCall
<1>2. Tokenized' = Tokenized
  BY <1>1 DEF Tokenized
<1>3. IsPlan(p)' = IsPlan(p)
  BY <1>1 DEF IsPlan, Length
<1>4. Single(text)' = Single(text)
  BY DEF Single, State, Attended, Causal
<1> QED
  BY <1>1, <1>2, <1>3, <1>4

(* The rows of a sub-batch reach their texts, and only theirs. *)
LEMMA Scattered ==
  ASSUME IInv, status = "running", RunSubBatch
  PROVE  /\ DOMAIN out' = 1 .. Many
         /\ Computed(plan, done + 1, out')
<1> DEFINE m == Materialized
           begin == done * call.max_batch
<1>1. Tokenized /\ IsPlan(plan) /\ done \in 0 .. SubBatchCount /\ Computed(plan, done, out)
  BY DEF IInv, Progress
<1>2. done \in Nat /\ done < SubBatchCount
  BY <1>1, SubBatches DEF RunSubBatch
<1>3. Working
  BY <1>1, <1>2, SubBatches DEF Working
<1>4. /\ Many \in Nat /\ call.max_batch \in Nat \ {0}
      /\ begin \in Nat /\ Rows \in Nat \ {0} /\ DOMAIN Items = 0 .. Rows - 1
      /\ Rows = IF begin + call.max_batch < Many THEN call.max_batch ELSE Many - begin
      /\ \A b \in 0 .. Rows - 1 : begin + b + 1 \in 1 .. Many /\ Items[b] = plan[begin + b + 1]
  BY <1>1, <1>3, Lengths, Window DEF Tokenized
<1>5. plan \in [1 .. Many -> 1 .. Many] /\ \A i, j \in 1 .. Many : plan[i] = plan[j] => i = j
  BY <1>1 DEF IsPlan, Bijection, Injection, IsInjective
<1>6. DOMAIN out = 1 .. Many
  BY DEF IInv
<1>7. out' = [i \in 1 .. Many |->
                IF \E b \in DOMAIN Items : Items[b] = i
                THEN Row(m, CHOOSE b \in DOMAIN Items : Items[b] = i) ELSE out[i]]
  BY <1>6 DEF RunSubBatch
<1>8. (done + 1) * call.max_batch = begin + call.max_batch
  <2>1. ASSUME NEW d \in Nat, NEW n \in Nat
        PROVE  (d + 1) * n = d * n + n
    OBVIOUS
  <2> QED
    BY <1>2, <1>4, <2>1
<1> HIDE DEF m, begin
<1>9. ASSUME NEW b \in 0 .. Rows - 1
      PROVE  out'[Items[b]] = Single(call.texts[Items[b]])
  <2>1. Items[b] \in 1 .. Many
    BY <1>4, <1>5
  <2>2. \A c \in DOMAIN Items : Items[c] = Items[b] => c = b
    BY <1>3, <1>4, WindowRows
  <2>3. (CHOOSE c \in DOMAIN Items : Items[c] = Items[b]) = b
    BY <1>4, <2>2
  <2>4. out'[Items[b]] = Row(m, b)
    BY <1>4, <1>7, <2>1, <2>3
  <2> QED
    BY <1>3, <2>4, RowIsSingle DEF m
<1>10. ASSUME NEW j \in 1 .. Many
       PROVE  out'[plan[j]] = IF j <= (done + 1) * call.max_batch
                              THEN Single(call.texts[plan[j]]) ELSE Untouched
  <2>1. out[plan[j]] = IF j <= begin THEN Single(call.texts[plan[j]]) ELSE Untouched
    BY <1>1 DEF Computed, begin
  <2>2. plan[j] \in 1 .. Many
    BY <1>5
  <2>3. CASE begin < j /\ j <= begin + call.max_batch
    <3>1. PICK b \in 0 .. Rows - 1 : j = begin + b + 1
      <4>1. j - begin - 1 \in 0 .. Rows - 1 /\ j = begin + (j - begin - 1) + 1
        BY <1>4, <2>3
      <4> QED
        BY <4>1
    <3>2. Items[b] = plan[j]
      BY <1>4, <3>1
    <3> QED
      BY <1>8, <1>9, <2>3, <3>2
  <2>4. CASE ~(begin < j /\ j <= begin + call.max_batch)
    <3>1. \A b \in DOMAIN Items : Items[b] # plan[j]
      <4>1. SUFFICES ASSUME NEW b \in DOMAIN Items, Items[b] = plan[j]
                     PROVE  FALSE
        OBVIOUS
      <4>2. b \in 0 .. Rows - 1 /\ begin + b + 1 \in 1 .. Many /\ plan[begin + b + 1] = plan[j]
        BY <1>4, <4>1
      <4>3. begin + b + 1 = j
        BY <1>5, <4>2
      <4> QED
        BY <1>4, <2>4, <4>2, <4>3
    <3>2. out'[plan[j]] = out[plan[j]]
      BY <1>7, <2>2, <3>1
    <3>3. j <= begin <=> j <= begin + call.max_batch
      BY <1>4, <2>4
    <3> QED
      BY <1>8, <2>1, <3>2, <3>3
  <2> QED
    BY <2>3, <2>4
<1>11. DOMAIN out' = 1 .. Many
  BY <1>7
<1>12. Computed(plan, done + 1, out')
  BY <1>10 DEF Computed
<1> QED
  BY <1>11, <1>12

(* The invariant holds in every initial state. *)
LEMMA InitIInv == Init => IInv
<1>1. SUFFICES ASSUME Init
               PROVE  IInv
  OBVIOUS
<1>2. PICK n \in 0 .. MaxTexts :
        call \in [texts : [1 .. n -> Text \cup {Null}], max_batch : 1 .. MaxBatch,
                  family : Family, layout : Layout, pooling : Pooling]
  BY <1>1 DEF Init
<1>3. n \in Nat
  BY <1>2, BatchAssumption
<1>4. Text \cup {Null} \subseteq Seq(Int)
  <2>1. <<>> \in Seq(Int)
    OBVIOUS
  <2> QED
    BY <2>1, TextAssumption, Zenon DEF Null
<1>5. call.texts \in [1 .. n -> Seq(Int)]
  BY <1>2, <1>4
<1>6. call.texts \in Seq(Seq(Int)) /\ Len(call.texts) = n
  BY <1>3, <1>5
<1>7. call.max_batch \in Nat \ {0}
  BY <1>2, BatchAssumption
<1>8. IsCall
  BY <1>2, <1>6, <1>7 DEF IsCall
<1>9. DOMAIN call.texts = 1 .. Many
  BY <1>8, Lengths
<1>10. out = [i \in 1 .. Many |-> Untouched]
  BY <1>1, <1>9 DEF Init
<1>11. Progress
  BY <1>1, <1>10 DEF Init, Progress
<1> QED
  BY <1>8, <1>10, <1>11 DEF IInv

(* ... and every step keeps it. *)
LEMMA NextIInv == IInv /\ [Next]_vars => IInv'
<1>1. SUFFICES ASSUME IInv, [Next]_vars
               PROVE  IInv'
  OBVIOUS
<1>2. UNCHANGED call
  BY <1>1 DEF Next, RejectArguments, MakePlan, RunSubBatch, Fail, Return, vars
<1>3. Many' = Many /\ IsCall' /\ Many \in Nat /\ DOMAIN call.texts = 1 .. Many
  BY <1>1, <1>2, SameArguments, Lengths DEF IInv
<1>4. Tokenized' = Tokenized /\ \A p : IsPlan(p)' = IsPlan(p)
  BY <1>2, SameArguments
<1>5. \A text : Single(text)' = Single(text)
  BY <1>2, SameArguments
<1>6. CASE RejectArguments
  BY <1>1, <1>3, <1>6 DEF RejectArguments, IInv, Progress
<1>7. CASE MakePlan
  <2>1. status = "calling" /\ plan' = Order /\ status' = "running" /\ done' = done /\ out' = out
    BY <1>7 DEF MakePlan
  <2>2. Tokenized
    BY <1>1, <1>7 DEF MakePlan, Tokenized, IInv
  <2>3. IsPlan(plan')
    BY <2>1, <2>2, OrderIsPlan DEF Tokenized
  <2>4. done = 0 /\ \A i \in 1 .. Many : out[i] = Untouched
    BY <1>1, <2>1 DEF IInv, Progress
  <2>5. Computed(plan', 0, out)
    <3>1. plan' \in [1 .. Many -> 1 .. Many]
      BY <2>3 DEF IsPlan, Bijection, Injection
    <3>2. call.max_batch \in Nat
      BY <1>1 DEF IInv, IsCall
    <3>3. \A j \in 1 .. Many : ~(j <= 0 * call.max_batch)
      BY <1>3, <3>2
    <3> QED
      BY <2>4, <3>1, <3>3 DEF Computed
  <2>6. (Computed(plan, done, out))'
    <3>1. ASSUME NEW p, NEW o, Computed(p, 0, o), p = plan', o = out'
          PROVE  (Computed(plan, done, out))'
      BY <1>2, <1>3, <1>5, <2>1, <2>4, <3>1 DEF Computed
    <3> QED
      BY <2>1, <2>5, <3>1
  <2>7. IsPlan(plan)'
    BY <1>2, <2>3 DEF IsPlan, Many, Length
  <2>8. (done \in 0 .. SubBatchCount)'
    <3>1. (Tokenized /\ IsPlan(plan))'
      BY <1>4, <2>2, <2>7
    <3>2. (SubBatchCount \in Nat)'
      BY <3>1, SubBatches, PTL
    <3> QED
      BY <2>1, <2>4, <3>2
  <2> QED
    BY <1>1, <1>3, <1>4, <2>1, <2>2, <2>6, <2>7, <2>8 DEF IInv, Progress
<1>8. CASE RunSubBatch
  <2>1. /\ status = "running" /\ done < SubBatchCount
        /\ done' = done + 1 /\ plan' = plan /\ status' = status
    BY <1>8 DEF RunSubBatch
  <2>2. Tokenized /\ IsPlan(plan) /\ done \in 0 .. SubBatchCount
    BY <1>1, <2>1 DEF IInv, Progress
  <2>3. DOMAIN out' = 1 .. Many /\ Computed(plan, done + 1, out')
    BY <1>1, <1>8, <2>1, Scattered
  <2>4. SubBatchCount \in Nat /\ SubBatchCount' = SubBatchCount
    BY <1>2, <2>1, <2>2, SubBatches DEF SubBatchCount
  <2>5. (Computed(plan, done, out))'
    BY <1>2, <1>3, <1>5, <2>1, <2>3 DEF Computed
  <2>6. done' \in 0 .. SubBatchCount'
    BY <2>1, <2>2, <2>4
  <2>7. IsPlan(plan)'
    BY <1>2, <2>1, <2>2 DEF IsPlan, Many, Length
  <2> QED
    BY <1>3, <1>4, <2>1, <2>2, <2>3, <2>5, <2>6, <2>7 DEF IInv, Progress
<1>9. CASE Fail
  <2>1. status' = "error" /\ out' = [i \in 1 .. Many |-> NaN]
    BY <1>1, <1>9 DEF Fail, IInv
  <2> QED
    BY <1>3, <2>1 DEF IInv, Progress
<1>10. CASE Return
  <2>1. /\ status = "running" /\ status' = "ok" /\ done = SubBatchCount
        /\ done' = done /\ plan' = plan /\ out' = out
    BY <1>10 DEF Return
  <2>2. Tokenized /\ IsPlan(plan) /\ done \in 0 .. SubBatchCount /\ Computed(plan, done, out)
    BY <1>1, <2>1 DEF IInv, Progress
  <2>3. SubBatchCount' = SubBatchCount
    BY <1>2, <2>1 DEF SubBatchCount
  <2>4. (Computed(plan, done, out))'
    BY <1>2, <1>3, <1>5, <2>1, <2>2 DEF Computed
  <2>5. IsPlan(plan)'
    BY <1>2, <2>1, <2>2 DEF IsPlan, Many, Length
  <2> QED
    BY <1>1, <1>3, <1>4, <2>1, <2>2, <2>3, <2>4, <2>5 DEF IInv, Progress
<1>11. CASE UNCHANGED vars
  <2>1. plan' = plan /\ done' = done /\ out' = out /\ status' = status
    BY <1>11 DEF vars
  <2>2. Progress'
    <3>1. Computed(plan, done, out) => (Computed(plan, done, out))'
      BY <1>2, <1>3, <1>5, <2>1 DEF Computed
    <3>2. IsPlan(plan) => IsPlan(plan)'
      BY <1>2, <2>1 DEF IsPlan, Many, Length
    <3>3. SubBatchCount' = SubBatchCount
      BY <1>2, <2>1 DEF SubBatchCount
    <3> QED
      BY <1>1, <1>3, <1>4, <2>1, <3>1, <3>2, <3>3 DEF IInv, Progress
  <2> QED
    BY <1>1, <1>3, <2>1, <2>2 DEF IInv
<1> QED
  BY <1>1, <1>6, <1>7, <1>8, <1>9, <1>10, <1>11 DEF Next

(* Every reachable state satisfies it. *)
LEMMA AlwaysIInv == Spec => []IInv
  BY InitIInv, NextIInv, PTL DEF Spec

-----------------------------------------------------------------------------
(* Every text has a place in the plan. *)
LEMMA Planned ==
  ASSUME IsPlan(plan), NEW i \in 1 .. Many
  PROVE  \E j \in 1 .. Many : plan[j] = i
  BY DEF IsPlan, Bijection, Surjection

(* What the caller finds for a text. *)
LEMMA Vectors ==
  ASSUME IInv, NEW i \in 1 .. Many
  PROVE  /\ status \in {"calling", "invalid"} => out[i] = Untouched
         /\ status = "running" => out[i] \in {Untouched, Single(call.texts[i])}
         /\ status = "ok"      => /\ out[i] = Single(call.texts[i])
                                  /\ out[i] \notin {Untouched, NaN}
         /\ status = "error"   => out[i] = NaN
<1>1. Progress /\ IsCall
  BY DEF IInv
<1>2. status \in {"running", "ok"} => out[i] \in {Untouched, Single(call.texts[i])}
  <2>1. SUFFICES ASSUME status \in {"running", "ok"}
                 PROVE  out[i] \in {Untouched, Single(call.texts[i])}
    OBVIOUS
  <2>2. IsPlan(plan) /\ Computed(plan, done, out)
    BY <1>1, <2>1 DEF Progress
  <2>3. PICK j \in 1 .. Many : plan[j] = i
    BY <2>2, Planned
  <2> QED
    BY <2>2, <2>3 DEF Computed
<1>3. ASSUME status = "ok"
      PROVE  out[i] = Single(call.texts[i]) /\ out[i] \notin {Untouched, NaN}
  <2>1. Tokenized /\ IsPlan(plan) /\ Computed(plan, done, out) /\ done = SubBatchCount
    BY <1>1, <1>3 DEF Progress
  <2>2. PICK j \in 1 .. Many : plan[j] = i
    BY <2>1, Planned
  <2>3. j <= done * call.max_batch
    <3>1. done \in Nat /\ ~(done < SubBatchCount)
      BY <2>1, SubBatches
    <3>2. ~(done * call.max_batch < Many)
      BY <2>1, <3>1, SubBatches
    <3>3. Many \in Nat /\ call.max_batch \in Nat
      BY <1>1, Lengths
    <3>4. done * call.max_batch \in Nat
      BY <3>1, <3>3
    <3> QED
      BY <3>2, <3>3, <3>4
  <2>4. out[i] = Single(call.texts[i])
    BY <2>1, <2>2, <2>3 DEF Computed
  <2>5. call.texts[i] \in Seq(Int) /\ call.texts[i] # <<>>
    BY <1>1, <2>1, Lengths DEF Tokenized, Null
  <2> QED
    BY <1>1, <2>4, <2>5, SingleIsAVector
<1> QED
  BY <1>1, <1>2, <1>3 DEF Progress

(* Neither padding nor neighbours leak: a vector that a call writes is the *)
(* one the text has alone, for any texts, sub-batch size, layout, pooling  *)
(* and padding id.                                                         *)
THEOREM BatchesDoNotMix == Spec => []RowsAreThoseOfSingleCalls
<1>1. IInv => RowsAreThoseOfSingleCalls
  <2>1. SUFFICES ASSUME IInv, NEW i \in 1 .. Many
                 PROVE  out[i] \in {Untouched, NaN} \/ out[i] = Single(call.texts[i])
    BY DEF RowsAreThoseOfSingleCalls, IInv
  <2>2. status \in {"calling", "invalid", "running", "ok", "error"}
    BY <2>1 DEF IInv, Progress
  <2> QED
    BY <2>1, <2>2, Vectors
<1> QED
  BY <1>1, AlwaysIInv, PTL

(* A call returns every vector, or none: nothing is left out in caller     *)
(* order, an invalid call writes nothing, a failed one poisons all.        *)
THEOREM ReturnsAreWhole == Spec => []ReturnIsWhole
<1>1. IInv => ReturnIsWhole
  <2>1. SUFFICES ASSUME IInv, NEW i \in 1 .. Many
                 PROVE  /\ status = "ok"      => out[i] \notin {Untouched, NaN}
                        /\ status = "invalid" => out[i] = Untouched
                        /\ status = "error"   => out[i] = NaN
    BY DEF ReturnIsWhole, IInv
  <2> QED
    BY <2>1, Vectors
<1> QED
  BY <1>1, AlwaysIInv, PTL
=============================================================================
