----------------------------- MODULE ModelHandle -----------------------------
(***************************************************************************)
(* nanoembed_model and nanoembed_new_context of api/c_api.cpp, with the    *)
(* constructors of the two runners they start (Embedder of embedder.cpp,   *)
(* MappedModelPreparation of mapped_weight_store.cpp).                     *)
(*                                                                         *)
(* Several threads create and free contexts of one model while the file    *)
(* behind its path may be replaced.  A version is the content of the file  *)
(* under the path; the metadata of a version is what ArchParams keeps.     *)
(* A runner is the version its architecture was read from and the version  *)
(* its weights come from.                                                  *)
(***************************************************************************)
EXTENDS Integers

CONSTANTS
  Thread,
  Version,      \* contents the file may have
  Metadata,     \* version -> what require_descriptor_match compares
  MaxReplaced,  \* bound: replacements of the file
  MaxRequests   \* bound: contexts requested per thread

ASSUME VersionAssumption == 0 \notin Version /\ Metadata \in [Version -> Int]

Mode     == {"Eager", "Streaming"}
Unlocked == "Unlocked"
NoThread == "none"
NoFile   == 0
NoRunner == [arch |-> NoFile, weights |-> NoFile]

ASSUME ThreadAssumption == NoThread \notin Thread

VARIABLES
  disk,        \* external: the version under the path
  descriptor,  \* the version the model was loaded from
  mode,        \* nanoembed_model::mode
  runner,      \* nanoembed_model::eager and ::streaming
  mutex,       \* who holds mode_mutex
  pc,          \* where each thread is in nanoembed_new_context
  request,     \* the mode it asks for
  candidate,   \* the runner it constructs
  context,     \* the mode of the context it owns, or Unlocked
  replaced,    \* replacements so far
  requests     \* contexts requested so far

model == <<descriptor, mode, runner>>
handleVars  == <<disk, model, mutex, pc, request, candidate, context, replaced, requests>>

Goto(t, l) == pc' = [pc EXCEPT ![t] = l]

(* nanoembed_load_model reads the descriptor. *)
HandleInit ==
  /\ disk \in Version
  /\ descriptor = disk
  /\ mode       = Unlocked
  /\ runner     = [m \in Mode |-> NoRunner]
  /\ mutex      = NoThread
  /\ pc         = [t \in Thread |-> "idle"]
  /\ request    = [t \in Thread |-> "Eager"]
  /\ candidate  = [t \in Thread |-> NoRunner]
  /\ context    = [t \in Thread |-> Unlocked]
  /\ replaced   = 0
  /\ requests   = [t \in Thread |-> 0]

(* External: the path is made to name another file. *)
ReplaceFile ==
  /\ replaced < MaxReplaced
  /\ \E v \in Version \ {disk} : disk' = v
  /\ replaced' = replaced + 1
  /\ UNCHANGED <<model, mutex, pc, request, candidate, context, requests>>

Request(t) ==
  /\ pc[t] = "idle" /\ context[t] = Unlocked /\ requests[t] < MaxRequests
  /\ \E m \in Mode : request' = [request EXCEPT ![t] = m]
  /\ requests' = [requests EXCEPT ![t] = @ + 1]
  /\ Goto(t, "lock")
  /\ UNCHANGED <<disk, model, mutex, candidate, context, replaced>>

Lock(t) ==
  /\ pc[t] = "lock"
  /\ mutex = NoThread
  /\ mutex' = t
  /\ Goto(t, "check")
  /\ UNCHANGED <<disk, model, request, candidate, context, replaced, requests>>

(* Leave without a context: the guard unlocks, RAII drops the candidate. *)
FailCreation(t) ==
  /\ mutex'     = NoThread
  /\ candidate' = [candidate EXCEPT ![t] = NoRunner]
  /\ Goto(t, "idle")
  /\ UNCHANGED <<disk, model, request, context, replaced, requests>>

(* The model is locked to the other mode. *)
Reject(t) == pc[t] = "check" /\ mode \notin {Unlocked, request[t]} /\ FailCreation(t)

\* Slip: the runner is published although a later step may still throw.
ThrowAfterPublication(t) ==
  /\ pc[t] \in {"check", "weights", "verify", "match", "reserve", "publish"}
  /\ FailCreation(t)

(* Anything that allocates or reads the file while the lock is held throws; *)
(* a streaming context reserves nothing.                                    *)
Throw(t) ==
  /\ \/ pc[t] \in {"check", "weights", "verify", "match"}
     \/ pc[t] = "reserve" /\ request[t] = "Eager"
  /\ FailCreation(t)

\* Slip: the requested mode is not compared with the locked one.
CheckAnyMode(t) ==
  /\ pc[t] = "check"
  /\ IF mode = Unlocked
     THEN /\ candidate' = [candidate EXCEPT ![t].arch = disk]
          /\ Goto(t, "weights")
     ELSE /\ Goto(t, "reserve")
          /\ UNCHANGED candidate
  /\ UNCHANGED <<disk, model, mutex, request, context, replaced, requests>>

Check(t) ==
  /\ pc[t] = "check" /\ mode \in {Unlocked, request[t]}
  /\ IF mode = Unlocked
     THEN /\ candidate' = [candidate EXCEPT ![t].arch = disk]
          /\ Goto(t, "weights")
     ELSE /\ Goto(t, "reserve")
          /\ UNCHANGED candidate
  /\ UNCHANGED <<disk, model, mutex, request, context, replaced, requests>>

(* Embedder opens the path again for the weights; the mapped store reads   *)
(* both from one descriptor.                                               *)
ReadWeights(t) ==
  /\ pc[t] = "weights"
  /\ candidate' = [candidate EXCEPT ![t].weights =
                     IF request[t] = "Eager" THEN disk ELSE candidate[t].arch]
  /\ Goto(t, IF request[t] = "Eager" THEN "match" ELSE "verify")
  /\ UNCHANGED <<disk, model, mutex, request, context, replaced, requests>>

(* The path names the file with this content: device, inode and size agree. *)
same_identity(v) == disk = v

(* verify_identity: the path still names the mapped file. *)
VerifyIdentity(t) ==
  /\ pc[t] = "verify" /\ same_identity(candidate[t].weights)
  /\ Goto(t, "match")
  /\ UNCHANGED <<disk, model, mutex, request, candidate, context, replaced, requests>>

\* Slip: the descriptor is not compared.
MatchesAnything(r) == r.arch \in Version

Matches(r) == Metadata[r.arch] = Metadata[descriptor]

MatchDescriptor(t) ==
  /\ pc[t] = "match"
  /\ IF Matches(candidate[t])
     THEN /\ Goto(t, "reserve")
          /\ UNCHANGED <<disk, model, mutex, request, candidate, context, replaced, requests>>
     ELSE FailCreation(t)

(* Embedder::reserve on the context's scratch succeeds; a first context    *)
(* hands its candidate over to the model.                                  *)
Reserve(t) ==
  /\ pc[t] = "reserve"
  /\ IF mode = Unlocked
     THEN /\ runner' = [runner EXCEPT ![request[t]] = candidate[t]]
          /\ candidate' = [candidate EXCEPT ![t] = NoRunner]
     ELSE UNCHANGED <<runner, candidate>>
  /\ Goto(t, "publish")
  /\ UNCHANGED <<disk, descriptor, mode, mutex, request, context, replaced, requests>>

(* model->mode, c->mode, and the lock is released on return. *)
Publish(t) ==
  /\ pc[t] = "publish"
  /\ mode'    = request[t]
  /\ context' = [context EXCEPT ![t] = request[t]]
  /\ mutex'   = NoThread
  /\ Goto(t, "idle")
  /\ UNCHANGED <<disk, descriptor, runner, request, candidate, replaced, requests>>

FreeContext(t) ==
  /\ pc[t] = "idle" /\ context[t] # Unlocked
  /\ context' = [context EXCEPT ![t] = Unlocked]
  /\ UNCHANGED <<disk, model, mutex, pc, request, candidate, replaced, requests>>

HandleNext ==
  \/ ReplaceFile
  \/ \E t \in Thread :
       \/ Request(t) \/ Lock(t) \/ Reject(t) \/ Throw(t) \/ Check(t) \/ ReadWeights(t)
       \/ VerifyIdentity(t) \/ MatchDescriptor(t) \/ Reserve(t) \/ Publish(t)
       \/ FreeContext(t)

HandleSpec == HandleInit /\ [][HandleNext]_handleVars

-----------------------------------------------------------------------------
(* "A failed first context therefore leaves the handle Unlocked and no     *)
(* other creator can observe partially initialized mode state."            *)
NothingHalfPublished ==
  \A t \in Thread : pc[t] = "check" =>
    \A m \in Mode : runner[m] # NoRunner <=> mode = m

(* The sizes the ABI reports, and fills with NaN on failure, are those of  *)
(* the runner that computes; a mapped runner takes its weights from the    *)
(* very file it was validated on.                                          *)
RunnerMatchesDescriptor ==
  /\ \A m \in Mode : runner[m] # NoRunner =>
       Metadata[runner[m].arch] = Metadata[descriptor]
  /\ runner["Streaming"].arch = runner["Streaming"].weights

(* require_descriptor_match refuses a model whose "metadata changed        *)
(* between model load and context creation": then the weights a runner     *)
(* computes with have the metadata of the descriptor.                      *)
ChangedMetadataIsRefused ==
  \A m \in Mode : runner[m] # NoRunner =>
    Metadata[runner[m].weights] = Metadata[descriptor]

(* Locks, candidates and failures implement the one-shot choice of a mode. *)
Choice == INSTANCE ModeLock

FirstContextChooses == Choice!Spec
==============================================================================
