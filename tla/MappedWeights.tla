--------------------------- MODULE MappedWeights ---------------------------
(***************************************************************************)
(* How a mapped model is prepared (mapped_weight_store.cpp): the file is   *)
(* opened and mapped, its metadata parsed, every tensor validated in       *)
(* size_t arithmetic, and only then does a tensor's data point into the    *)
(* mapping.  Meanwhile another process may change the file, by its         *)
(* descriptor or at its path, and the identity is verified, fstat first    *)
(* and stat second, before and after what depends on it.                   *)
(*                                                                         *)
(* What was validated is what ByteRanges plans leases of; before any file  *)
(* is opened the ranges are any a caller makes up, as in the unit test.    *)
(***************************************************************************)
EXTENDS ByteRanges, FiniteSets

CONSTANTS
  Headers,      \* metadata a file may hold: [alignment, data_offset, tensors], a
                \* tensor being [offset, nbytes, sound]
  CpuAlignment  \* of the CPU backend's buffers; the mapping is page-aligned

ASSUME HeadersAssumption ==
  Headers \subseteq [alignment : Nat, data_offset : 0 .. MaxSize,
                    tensors : Seq([offset : 0 .. MaxSize, nbytes : 0 .. MaxSize, sound : BOOLEAN])]

ASSUME AlignmentAssumption == CpuAlignment \in 1 .. PageSize /\ PageSize % CpuAlignment = 0

VARIABLES
  pc,       \* where the preparation is
  file,     \* against the identity at open: "same", "resized", "replaced", "missing"
  late,     \* the file last changed after the last verification
  header,   \* as parsed
  expected, \* expected_relative_offset
  borrows,  \* the validated tensors: byte ranges of the file
  data      \* the tensors whose data points into the mapping

ranges   == <<pending, protected, tokens>>
mapped   == <<pc, file, late, header, expected, borrows, data>>
allVars  == <<ranges, mapped>>

NoHeader == [alignment |-> 1, data_offset |-> 0, tensors |-> <<>>]

MappedInit ==
  /\ Init
  /\ pc = "closed" /\ file = "same" /\ late = FALSE
  /\ header = NoHeader /\ expected = 0
  /\ borrows = <<>> /\ data = {}

-----------------------------------------------------------------------------
(* A throw destroys the store: ~Impl clears the borrows and unmaps. *)
Fails ==
  /\ pc' = "failed"
  /\ borrows' = <<>> /\ data' = {}
  /\ UNCHANGED <<ranges, file, late, header, expected>>

At(point) == pc = point

Reaches(point) == pc' = point /\ UNCHANGED <<ranges, file, late, header, expected, borrows, data>>

(* open and fstat: what fstat says is the identity. *)
Open == At("closed") /\ ranges = <<<<>>, <<>>, <<>>>> /\ Reaches("opened")

(* The path must name the file opened; then mmap and dup, which may fail. *)
MapFile ==
  /\ At("opened")
  /\ \/ file = "same" /\ Reaches("mapped")
     \/ Fails

ParseMetadata ==
  /\ At("mapped")
  /\ \/ \E h \in Headers :
          /\ header' = h
          /\ pc' = "parsed"
          /\ UNCHANGED <<ranges, file, late, expected, borrows, data>>
     \/ Fails

(* verify_identity: fstat and stat, with the file free to change between.  *)
(* A descriptor sees the file resized, a path also replaced or missing.    *)
AfterFd == [parsed    |-> "parsed_path",   validated |-> "validated_path",
            consumed  |-> "consumed_path", published |-> "published_path"]

AfterPath == [parsed_path   |-> "checking", validated_path |-> "consuming",
              consumed_path |-> "binding",  published_path |-> "bound"]

VerifyFd ==
  /\ pc \in DOMAIN AfterFd
  /\ IF file = "resized" THEN Fails ELSE Reaches(AfterFd[pc])

VerifyPath ==
  /\ pc \in DOMAIN AfterPath
  /\ IF file # "same" THEN Fails ELSE Reaches(AfterPath[pc])

-----------------------------------------------------------------------------
PowerOfTwo(a) == a # 0 /\ \E k \in 0 .. MaxSize : 2 ^ k = a

HeaderIsSound ==
  /\ PowerOfTwo(header.alignment)
  /\ header.data_offset % header.alignment = 0
  /\ header.data_offset % CpuAlignment = 0
  /\ header.tensors # <<>>

CheckHeader ==
  /\ At("checking")
  /\ IF HeaderIsSound THEN Reaches("validating") ELSE Fails

\* Slip: the range is compared with the file in wrapping arithmetic.
RangeWrapping(t) == Plus(Plus(header.data_offset, t.offset), t.nbytes) <= MappingSize

(* validate_range *)
RangeIsValid(t) ==
  LET start == Plus(header.data_offset, t.offset)
  IN  /\ ~Overflows(header.data_offset, t.offset)
      /\ ~Overflows(start, t.nbytes)
      /\ start <= MappingSize /\ Plus(start, t.nbytes) <= MappingSize

Absolute(t) == Plus(header.data_offset, t.offset)

(* Its name is new, its type one the mapping supports and its rows whole   *)
(* blocks (sound); its size agrees, and it lies where the tensors before   *)
(* it end.                                                                 *)
TensorIsValid(t) ==
  /\ t.sound /\ t.nbytes # 0
  /\ t.offset = expected /\ t.offset % header.alignment = 0
  /\ RangeIsValid(t)
  /\ Absolute(t) % CpuAlignment = 0

(* checked_pad, added to the offset. *)
Extent(t) == Plus(t.nbytes, header.alignment - 1)
               - (Plus(t.nbytes, header.alignment - 1) % header.alignment)

ExtentOverflows(t) == Overflows(t.nbytes, header.alignment - 1) \/ Overflows(expected, Extent(t))

ValidateTensor ==
  /\ At("validating") /\ Len(borrows) < Len(header.tensors)
  /\ LET t == header.tensors[Len(borrows) + 1]
     IN  IF TensorIsValid(t) /\ ~ExtentOverflows(t)
         THEN /\ borrows' = Append(borrows, [offset |-> Absolute(t), length |-> t.nbytes])
              /\ expected' = expected + Extent(t)
              /\ UNCHANGED <<ranges, pc, file, late, header, data>>
         ELSE Fails

FinishValidation ==
  /\ At("validating") /\ Len(borrows) = Len(header.tensors)
  /\ Reaches("validated")

(* create_model_arch and create_tokenizer read metadata only, and may      *)
(* refuse it.                                                              *)
ConsumeMetadata ==
  /\ At("consuming")
  /\ Reaches("consumed") \/ Fails

(* bind_validated_tensors, one tensor after the other. *)
BindTensor ==
  /\ At("binding") /\ Cardinality(data) < Len(borrows)
  /\ data' = data \cup {Cardinality(data) + 1}
  /\ UNCHANGED <<ranges, pc, file, late, header, expected, borrows>>

\* Slip: the binding is not followed by a verification.
FinishUnverified ==
  /\ At("binding") /\ Cardinality(data) = Len(borrows)
  /\ Reaches("bound")

FinishBinding ==
  /\ At("binding") /\ Cardinality(data) = Len(borrows)
  /\ Reaches("published")

(* bind_weights throws if a tensor of the architecture is missing. *)
BindWeights ==
  /\ At("bound")
  /\ Reaches("ready") \/ Fails

(* The runner leases what was validated. *)
LeaseTensor ==
  /\ At("ready") /\ Small
  /\ \E i \in DOMAIN borrows :
       \/ pending' = Append(pending, borrows[i]) /\ UNCHANGED protected
       \/ protected' = Append(protected, borrows[i]) /\ UNCHANGED pending
  /\ UNCHANGED <<tokens, mapped>>

(* Another process.  What was moved away may be moved back. *)
FileChanges ==
  /\ pc \notin {"closed", "failed"}
  /\ \/ file = "same"    /\ file' \in {"resized", "replaced", "missing"}
     \/ file = "missing" /\ file' = "same"
  /\ late' = (pc \in {"bound", "ready"})
  /\ UNCHANGED <<ranges, pc, header, expected, borrows, data>>

MappedNext ==
  \/ At("closed") /\ Next /\ UNCHANGED mapped
  \/ Open \/ MapFile \/ ParseMetadata
  \/ VerifyFd \/ VerifyPath
  \/ CheckHeader \/ ValidateTensor \/ FinishValidation
  \/ ConsumeMetadata \/ BindTensor \/ FinishBinding \/ BindWeights
  \/ LeaseTensor
  \/ FileChanges

MappedSpec == MappedInit /\ [][MappedNext]_allVars

-----------------------------------------------------------------------------
(* What a tensor's data points to when the model is ready lies inside the  *)
(* mapping, counted without wrapping, aligned for the CPU and apart from   *)
(* the other tensors; and the planner of leases accepts it.                *)
ValidatedTensorsAreLeasable ==
  pc = "ready" =>
    /\ data = DOMAIN borrows /\ data # {}
    /\ \A i \in data :
         /\ Bytes(borrows[i]) # {} /\ Bytes(borrows[i]) \subseteq 0 .. MappingSize - 1
         /\ borrows[i].offset % CpuAlignment = 0
         /\ \A j \in data : i # j => Bytes(borrows[i]) \cap Bytes(borrows[j]) = {}
    /\ Accepted(pending) /\ Accepted(protected)

(* No tensor points into a file that changed before the pointers were      *)
(* published: a file cut short behind a mapping is a SIGBUS at the first   *)
(* lookup.  What changes afterwards nobody looks for.                      *)
OnlyLateChangesGoUnseen ==
  pc \in {"bound", "ready"} /\ file # "same" => late
=============================================================================
