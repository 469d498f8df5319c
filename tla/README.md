# A verification development for NanoEmbed

NanoEmbed (`src/`) turns text into embedding vectors with a quantised
transformer stored in a GGUF file. A model runs either *eagerly* (the weights
are read into memory) or *streaming* (Linux only: the weights stay in a mapped
file and the kernel is told, page by page, what is needed next and what may be
dropped). `nanoembed-bench`, the tool that measures it, runs each measurement in a
worker process. This directory models the parts whose correctness depends on
order, sharing, failure or bookkeeping, checks them with TLC on small instances
and proves the most important results for every instance with TLAPS: all safety
properties, but two about the tensors of a file.

## Inventory

| part | state it keeps | operations | hard because | what makes it correct |
|---|---|---|---|---|
| C ABI (`api/c_api.cpp`) | model handle: descriptor, mode, eager or streaming runner, mode mutex; context handle: mode, scratch | load, new_context, embed, embed_batch, free | several threads create contexts; the first success fixes the mode; the file may change between load and first context; any step may throw | at most one runner, published whole and never replaced, of the metadata the handle reports |
| Residency coordinator (`streaming_execution.cpp`) | active leases, regions with count and pending ranges, common ranges, poisoned flag | retain_common, acquire, mark complete, move, release | regions share pages, contexts share regions, madvise may fail half-way | leased and common pages stay resident; counts match leases; nothing advised is forgotten; poison is final |
| Byte ranges (same file) | none | page_align_and_coalesce, subtract_ranges, token_row_ranges | boundaries, overflow, order of guards | the lists denote exactly the page sets the coordinator reasons about |
| Streaming execution (same file) | per context: graph arena, slots, allocator; per call: plan, sub-batch, phase | embed_batch and its phases | any step may throw while a lease is held or output already written | a phase computes on leased pages only, no lease outlives its phase, output is all vectors or no vector |
| Groups and slots (same file) | partition of a layer, inputs and outputs of each group, SlotStore with valid bits | model construction, partition_runs, resolve_group_slots, run_group | a slot dropped or kept wrongly is a silent wrong result; a weight declared but not built, or built but not declared, is silent too | streaming computes the graph the eager embedder computes, from the weights it leases |
| Merge cache (`tokenizer/disk_merge_index.cpp`) | a content-addressed file shared by processes, temporary files; page slots of a lookup | open_validated, create_cache, atomic_replace, from_gguf, find | racing creators, crashes, corrupt files, stale page slots | an index handed out is complete; the name never leads to a torn file; no id outside the vocabulary comes out of an edited one |
| BPE tokenizer (`tokenizer/spm_bpe.cpp`) | per call: symbol list, candidate queue | encode | stale candidates, lookups that throw, truncation around special tokens | queue, symbol list and index implement byte-pair encoding by the merge list |
| WordPiece tokenizer (`tokenizer/wordpiece.cpp`) | vocabulary | from_gguf, encode | notation of pieces, duplicates, longest match, truncation | each word is its longest pieces or unknown, inside the wrapper |
| Batch planning (`batch.cpp`) | none | make_batch_plan, materialize_batch | index permutation, padding, packed offsets: a slip mixes vectors without any error | a vector does not depend on the batch its text came in; vectors come back in the caller's order |
| Eager embedder (`embedder.cpp`) | scratch with a reserved length | construct, reserve, embed, embed_batch | grow-only scratch; vectors already copied out when a later sub-batch throws | a call returns every vector or none |
| Mapped weights (`mapped_weight_store.cpp`) | mapping, identity, bound tensors | open, validate, bind, roll back | size arithmetic on a file nobody vouches for; the file changes under the mapping | every tensor bound lies in the mapping; a change before binding ends is noticed |
| Architectures (`arch/`) | weights bound once | build_graph; declare a layer's units and slots, the common tensors, graph inputs | the model is written twice, whole and in units | the two descriptions agree in graph, weights and inputs |
| Forward builders (`forward/`) | none | build blocks of the graph | shared by both descriptions | as above |
| GGUF scanner (`gguf_scanner.cpp`) | none across calls | require tensors, check shapes, read hyperparameters | its list of tensors against the plan's | a complete file streams |
| Bench harness (`tools/nanoembed-bench`) | per measurement: parent, worker process, sampler thread, two pipes | parse, spawn, ready, go, done, report, exit | processes that die or wedge, /proc read at the right moment, a condition variable, settings that cross an exec | a number reported is that of its phase and request; a failing run ends |
| SHA-256, other tools, bindings, Python benchmarks | none across calls | digest, print, convert | - | not modelled, see below |

Interactions: a C context calls its model's runner; a streaming runner owns one
coordinator, which every context of the model shares and which is the only
shared mutable state on the compute path; embed_batch plans with the tokenizer
(whose merge rules come from the merge cache) and runs each sub-batch through
embedding, groups and final phase; a group's pages come from the byte-range
functions and its slots from the group resolution. The ranges themselves are
those the mapped weight store validated. `nanoembed-bench` uses the C interface
in a worker it forks and execs, and watches that process from outside.

## Modules

| module | models | state and actions |
|---|---|---|
| `PageResidency` | what a user of the coordinator relies on | pages held by each owner, abandoned, resident and stray pages; grant, return, fail |
| `ResidencyCoordinator` | `ResidencyCoordinator` and its `Lease` | `active`, `count`/`pending` (the regions), `common`, `poisoned`, the lease objects `handle`, and the kernel's `advised` pages. One action per critical section: `RetainCommon`, `Acquire`, `AcquireFails` (a later range of the list fails), `MarkComplete`, `Move`, and the outcomes of release: incomplete, shared region, last lease, last lease with a failing DONTNEED |
| `ResidencyCoordinatorProofs` | theorems about it | |
| `StreamingExecution` | `InternalStreamingModel::embed_batch` of several contexts | instantiates the coordinator; per context a program counter, phase, sub-batch, graph arena and output rows; every statement that can throw leads to the unwinding the catch blocks do |
| `StreamingExecutionProofs` | theorems about it and about `GroupExecution` | |
| `GroupSlots` | `partition_runs`, `resolve_group_slots` | operators |
| `BlockGraphs` | `forward/`, `bind_weights` and the phases of the architectures | a tensor is the term that computes it, over weights and inputs; `build_graph` is the whole model |
| `EagerGraphs` | `build_graph` of `embedder.cpp` | the inputs, packed or padded, and the pooled term of a sub-batch |
| `LayerPlans` | `streaming_units`, `streaming_common_plan`, the tensors `scan_bert` and `scan_gemma3` require | the units of a layer with the slots they read and write, the weights they declare and what they build |
| `GroupExecution` | model construction, `SlotStore`, `run_group`, the phases of a sub-batch | a slot holds a term, whose leaves name the layer of a weight and the sub-batch of an input, so that a stale value is told from the right one; groups, embedding and final phase may fail anywhere |
| `GroupWeights` | the weights a graph reads | no state of its own: collects the leaves of the terms, to compare them with leases and file |
| `BatchEmbedding` | `nanoembed_embed_batch` on an eager context, `Embedder::embed` and `embed_batch`, `make_batch_plan`, `materialize_batch`, the choice of layout in `build_graph` | one call: arguments, plan, sub-batches done, output rows. The flat arrays are indexed as in the code; a vector is its provenance, the tokens pooled with the keys each scored |
| `ByteRanges` | range functions | operators over a small `size_t`; the state is the list of requests |
| `MappedWeights` | `MappedWeightStore` and `MappedModelPreparation` | extends `ByteRanges`; a program counter with one action per system call of a verification and per tensor; `FileChanges` is another process |
| `MappedWeightsProofs` | theorems about both | |
| `MergeCache` | cache creation (POSIX branch) | directory entries, inodes and their durability, loaders of several processes; one action per system call that others can observe |
| `MergeCacheProofs` | theorems about it | |
| `ModeLock` | the one-shot choice of a mode | |
| `ModelHandle` | `nanoembed_load_model`, `nanoembed_new_context`, the runners' constructors | content of the path, lock, candidate and published runner, one program counter per thread |
| `ApiProofs` | theorems about `ModelHandle` and `BatchEmbedding` | |
| `BpeMerging` | byte-pair encoding | a word; the leftmost pair of lowest rank is merged |
| `MergeIndex` | contents of the cache file: `create_cache`, the structural checks of `open_validated`, `find` | operators: merge list to records to pages and fences; a lookup over the pages as they are in the file now and the page slots |
| `SpmBpe` | `SpmBpeTokenizer::from_gguf`, `encode_impl` and `bpe` | linked symbol list, candidate queue, page slots, and the file; `EditFile` is whoever changes the file after it was validated |
| `WordPiece` | `WordPieceTokenizer` | load, then one encode; basic_tokenize and wordpiece as folds over bytes, next to what they promise: words are spans of a text, a word is cut into its best pieces |
| `Tokenizers` | `create_tokenizer` | the family named by the file decides which of the two runs |
| `TokenizersProofs` | theorems about `SpmBpe`, `MergeIndex` and `WordPiece` within it | |
| `BenchArgs` | `parse_args`, `worker_argv` | a command line is a sequence of options; operators |
| `BenchHarness` | `run_parent`, its sampler thread, `run_worker` | three program counters, two bounded pipes, the worker's resident size and high-water mark as the kernel keeps them, and `truth`, what they really were in each phase |
| `BenchHarnessProofs` | theorems about it | |
| `CommonFacts` | nothing: lemmas the proofs share, on division and cells of a table, folds, sorting permutations, concatenation, the enumeration of a set, and induction over a set of numbers | |

`MC_*` modules give the constants of the runs. A comment `Slip:` precedes an
alternative of the definition after it, with one plausible mistake; no
specification uses them. They serve to see that the properties notice the
mistake when it replaces the definition.

Abstractions worth knowing. Move assignment (`streaming_execution.cpp:489`) is a
release followed by a move. Ranges of the coordinator are sets of pages;
`ByteRanges` shows that the lists compute those sets. `std::bad_alloc` between
two statements of one critical section is not modelled. A rename that a power
failure undoes does not bring the temporary name back. The duplicate of a
candidate in the queue would be stale when popped, so the queue is a set.
`std::sort` and `std::stable_sort` are *some* sorting permutation (`CHOOSE`), stable
where the code asks for it. `SpmBpe` is
held to `BpeMerging` only while the file is as it was validated: the code accepts
that an edited record changes tokens. One
attention layer stands for all of `BatchEmbedding`'s: every layer scores the same
keys. No architecture consumes sentence lengths without consuming packed batches,
so the per-sentence attention over a padded window, which the code also has, is
not reachable and not modelled. In `BlockGraphs` shapes, views and copies are not
operations, and two equal terms stand for equal tensors; so its comparison is of
what is computed from what, not of rounding. The code's identity is
device, inode and size: a rewrite of the mapped file in place that keeps its size
is not seen by the code and not in the model. In `WordPiece` a normalized piece is a
string of bytes, as in the code, so different raw pieces may share one: "[" with the
mark ("_[") and without it, and "_##x" with "x". Of each the first of the vocabulary wins, and
"_##x" then is a continuation; the model, its properties and its theorem have both. In `SpmBpe`
a text is a sequence of symbols as the loop over the characters makes them: characters
with a piece, or the bytes of one without. Every byte of a text has its token (`InputAssumption`),
so the fallback to the unknown token is not taken, and the vocabulary does not repeat a byte token
(`ByteAssumption`): with two, a symbol would have the id of the last, while the rules of
the index name the first, and such a rule would never apply.
In `MergeCache` whatever a system call does may fail, the removal of a temporary in
create_cache's catch block too, which the code ignores: such names are remembered in `stuck`. In `BenchHarness` whoever
kills the parent from outside, `waitpid` failing and the self-check of sample
intervals are left out; the worker's memory is any sequence of sizes, with the
high-water mark kept by the kernel.

## Runs

| run | instance and bounds | shows |
|---|---|---|
| `residency` | two regions, three lease objects, three pages of which one is common, at most three leases | the coordinator's safety, and that it implements `PageResidency`: three owners are needed for a release in one region to meet leases in the same and in another, page sets overlap in every way |
| `residency_rollback` | two owners | finding 1 |
| `streaming` | two contexts, two calls each of no text or up to two sub-batches, two groups sharing pages with the token table and the common set | leases, output and poisoning under every interleaving and every exception; a second call is what observes poison, a second sub-batch what observes half-written output |
| `streaming_liveness` | two contexts, one call, one sub-batch | every call ends |
| `group_execution` | the two architectures with two layers, weights 1 and 2, batches padded or not in every pooling, with complete files, a pooler, a surplus tensor and each tensor missing; and every plan of three units over two slots; presets layer, unit, attn-ffn and budgets 1 to 6; two sub-batches | streaming against eager, weights, file lists, partition and slots. Three units are the fewest with a value that skips a group; two layers and two sub-batches the fewest with a stale value from each |
| `batch_embedding` | up to four texts of one to three tokens out of five, some sharing a beginning or holding the padding id, a null pointer among them; sub-batches of one to three; both families and layouts, every pooling; anything may throw | vectors are independent of their batch and a call is all or nothing. Four texts make two sub-batches with a short tail and padding in each |
| `merge_cache` | two threads of one process and one of another, one load each; the cache file is missing, damaged (anything but the index) or good to begin with; one crash or power failure, I/O errors anywhere; also without stops where the processes have separate pid namespaces | cache creation |
| `model_handle` | three threads with two contexts each, three file versions (two of equal metadata), two replacements | the handle; implements `ModeLock` |
| `eager_reopen` | two threads | finding 2 |
| `byte_ranges` | a file of seven bytes in pages of two, `size_t` up to 15; every three requests or tokens; and every header of up to two tensors with alignments 0 to 4 and offsets and sizes that fit, end past the file or wrap, with the file changing at any moment | range functions and the mapped weight store. Two tensors are the fewest that can overlap, and the second's offset is where the padding of the first ends |
| `tokenizers` | every list of three out of ten rules (repeated, unusable, ranked before those they need) in pages of two records behind one slot, so that pages are evicted; texts of up to five characters; limits below, at and above the wrapper; for texts of three, one edit of the file at any point. WordPiece: every text of up to four bytes of five, and of three with "#", words of up to three, limits 1, 2, 3 and 6, a vocabulary with a duplicate and the clash of "[", one with the clash of "_##b" and "b" besides, one without a continuation, one without the marked "[", and two that are refused | the tokenizer over its index implements `BpeMerging`; what create_cache writes passes the checks; an edited file gives an exception or vocabulary tokens; WordPiece against a declarative segmentation |
| `bench_harness` | ten command lines (warm, cold, strict, selftest, a synthetic worker without selftest, refused ones), three inputs in batches of two, pipes of two messages, two resident sizes, at most two periodic samples; the worker dies at any step or wedges, SIGPIPE at its default or ignored | measurement. Two sizes tell the phases apart, and with two messages a worker blocks while it reports |

Deadlock is not checked: calls, leases, loads and replacements are bounded, and
a program that has made its last call stops; a measurement ends.

Bounds by name: `MaxLeases`, `MaxCalls`, `MaxSubBatch`, `SubBatches`, `Layers`, `MaxLoads`,
`MaxStops`, `MaxReplaced`, `MaxRequests`, `MaxItems`, `MaxTexts`, `MaxBatch`,
`MaxEditedText`, `MaxPeriodic`; sizes of the instance: `MaxSize`, `MappingSize`,
`CpuAlignment`, `MaxWord`, `Items`, `PipeCapacity`, `Memory`; inputs tried:
`Headers`, `Models`, `Presets`, `Vocabularies`, `Texts`, `Limits`, `Families`,
`CommandLines`.

Symmetry is declared for lease objects, regions, contexts, threads and process
ids, which are only compared, and only in runs without liveness.

Fairness. `streaming_liveness` assumes weak fairness of each context's `Step`:
a thread inside embed_batch is runnable, waits for nothing but the
coordinator's mutex, and holds that mutex within single actions. Beginning a
call is not fair: callers may stop. `bench_harness` assumes it of the parent, whose
waits have a limit (`wait_readable`), of the sampler thread, and of the worker once
its window is closed (`ClosingStep`), where nothing but writing and freeing is
left and the parent waits without a limit. Before that the worker may wedge, which
is what the limits are for. Spurious wakeups are possible and not fair.

### Findings

1. `acquire` (`streaming_execution.cpp:402`) says a failed acquisition is
   rolled back. Ranges already advised under WILLNEED stay advised, in no
   region's pending list; nothing drops them until another lease of the same
   pages is released (`orphans` in the model).
2. The eager runner reads the path twice (`embedder.cpp:241` and `:248`) and
   only the metadata of the first read are compared with the handle's.

Remarks on behaviour the models show and no text of the repository rules out:

- Temporary files of the merge cache are named by process id and a counter that
  starts at 0 (`disk_merge_index.cpp:285`). After a crash while writing, a process
  with the same id meets the leftover: its first load fails and removes it, the
  next succeeds. Where processes of separate pid namespaces share a directory,
  names collide among the living too; the cache name may then lead to a file
  another loader still writes, but validation never hands it out
  (`LoadedIndexIsComplete`).
- The sampler of `nanoembed-bench` can miss both notifications, because the parent
  sets its flags without the mutex (`main.cpp:944` and `:960`), and `join` then waits
  for ever. It is the one way a measurement hangs: `OnlyMissedWakeupHangs`.
- The parent does not ignore SIGPIPE. A worker that dies between READY and GO, or
  before EXIT is written, ends the parent by a signal rather than by the message
  the code has for it (`main.cpp:955`, `:1028`).
- A file with the optional BERT pooler loads eagerly, where its tensors are read
  and not used, and is refused by streaming, which wants every tensor claimed
  (`ModelIsStreamable`).

## Proofs

Eight modules hold theorems; each `...Proofs` module extends the components it is
about. The theorems hold for every value of the constants that meets the named
assumptions, all of which TLC evaluates in the runs:

| assumption | says |
|---|---|
| `PageAssumption`, `PagesAssumption`, `LeasesAssumption` | pages are integers, common pages are pages, the bound on leases is a number |
| `ResidualAssumption`, `BoundAssumption`, `ModelAssumption`, `PresetAssumption` | layers are numbered from 1, a layer has units, each leaves something and weighs a number of bytes; a file of family bert or gemma3 has that family's units, in whatever weights, over the residual slot "x"; presets have one of the four names |
| `PlanAssumption` | a model has a group; groups and token rows have pages; the bounds are numbers |
| `SizeAssumption`, `TensorAssumption`, `HeadersAssumption` | the page size is a power of two that `size_t` holds, the mapping is not empty, and what requests and headers say are values of `size_t` |
| `AlignmentAssumption` | a page is a multiple of the alignment ggml wants |
| `VersionAssumption`, `ThreadAssumption`, `ProcessAssumption` | every version has metadata, no thread is `NoThread`, every loader has a process |
| `TextAssumption`, `BatchAssumption` | a text has tokens, sub-batches are not empty |
| `IndexAssumption`, `VocabAssumption`, `ByteAssumption`, `RuleAssumption`, `InputAssumption` | a page holds a record and a lookup has a slot; vocabulary, merge lists and texts are sequences; each byte token occurs once and each symbol of a text has a piece; limits are numbers |
| `WordAssumption`, `RawAssumption` | a blank is not punctuation, "[" and "#" are, and a letter is neither punctuation nor lowered to one of the two; vocabularies and texts of WordPiece are sequences; limits are numbers |
| `CapacityAssumption`, `LinesAssumption`, `MemoryAssumption` | a pipe holds a message, the inputs have a number of lines and what a command line sets has its type, a process has some resident size |

No safety property below is inductive as it stands. Each component has an
`IInv`, the conjunction of named parts that were first checked by TLC as
invariants; the lemmas `InitIInv` and `StepIInv` establish it and the theorems
follow. What each needs beside the property itself says why the code is right:

**Residency coordinator.** `TypeCorrect`, `LeasedPagesStayResident`,
`AccountingNeverUnderflows`, `NoAdviceIsForgotten`, `QuiescenceHoldsCommonOnly`,
`PoisonStays`, `ImplementsPageResidency`. That a release spares the leased pages
needs that leases have distinct ids below `nextId` and that each owned id is in
the table; that nothing is forgotten needs that `pending` of a region covers the
pages of its leases, which in turn needs that the count is the number of its
leases: the region is cleared exactly when the last one goes. The step lemmas
are one per operation that changes the table (`AcquireKeepsIInv`,
`UnleaseKeepsTable`, `DropSparesLeases`, `ClearingPending`, `ReleaseKeepsIInv`);
cardinalities of leases per region are handled by `CountOfGrant`,
`CountOfRelease` and `LeaseCounts`. The refinement goes through two facts: the
pages in use are those held by owners and those abandoned (`HeldOrAbandoned`),
and an owner holds one lease (`OwnsOne`); a grant then adds the pages of one
owner (`GrantGivesOne`), a release takes them away (`ReleaseLetsGo`), and
everything else disturbs nobody.

**Streaming execution.** `ImplementsCoordinator` proves that every step is a step
of the coordinator or leaves it alone, so that each theorem about the coordinator
holds of the whole: the inductive invariant of `ResidencyCoordinatorProofs` is
taken over by `INSTANCE` and not proved twice. `PhasesComputeOnLeasedPages`,
`NoLeaseOutlivesItsPhase`, `CallsAreAllOrNothing`, `PoisonedModelServesNobody`
need, per context, which lease its program counter allows (`LeaseOfPhase`), how
many rows a context has written (`RowsWritten`), what becomes of a call that began
after poisoning (`LateCallIsStuck`), and that every lease of the table belongs
to a context (`LeasesHaveOwners`). The proof is in two halves: what a step of a
context does to its own locals, and that it leaves the others' alone.

**Groups and slots.** `StreamingIsEager` compares two programs: the units of all
layers run group by group over the slot store, and `build_graph`. Between groups
(`GroupInvariant`) the slots that are still to be read hold what the units so far
leave when they run one after the other (`SlotsAreHeld`). A group keeps that:
its inputs are such slots (`InputsAreLive`), it is given the graph inputs its members
need as the eager embedder sets them (`InputsAlike`), so it builds the same terms
(`GroupBuilds`), and what a later group reads of them is drained (`GroupHolds`); the end
of a layer is the beginning of the next (`LayerHolds`). It remains that the units of a
layer are the encoder block of BERT (`BertLayerIsBlock`) and the transformer block of
Gemma 3 (`Gemma3LayerIsBlock`), so that those of all layers are the graph
(`UnitsAreGraph`), and that both poolings read the same layout (`PackedAlike`).
`SlotErrorsAreExact` needs the other direction: a slot that nothing wrote this sub-batch
holds nothing (`StoredIsWritten`), so the sub-batch never comes past the group that
reads it (`MissingIsAhead`). `PresetsArePartitions` is about partition_runs: runs are
intervals (`RunIsInterval`), cover the layer (`RunsCover`), and what the greedy loop
carries is the weight of the run so far (`WithinBudget`).

**Mapped weights and byte ranges.** `PlansAreExact`, `ReleasesAreExact` and
`RowsStayLeased` are about page_align_and_coalesce, subtract_ranges and
token_row_ranges for *every* list, page size, file and width of `size_t`.
`CoalesceKeeps` is the invariant of the merging loop (the list so far is in
order, with gaps, and covers exactly the ranges read); `PassKeeps` that of the
scan that cuts one protected range after another out of a region; `NoWrap`,
`CheckedAdd` and `AcceptedEnd` say that whatever the guards accept did not wrap.
`TensorsAreLeasable` rests on `PadCovers` and `SoundIsInMapping`: offsets sum to a
position behind every tensor accepted before. `ChangesAreSeenUntilBound` needs
only the order of the steps.

**Model handle.** `NoCreatorSeesHalfAHandle`, `RunnersMatchDescriptor`,
`ImplementsModeLock`, from `HolderIsCritical` (the mutex), `CandidateIsChecked` and
`RunnerOfMode` (what is published was compared before, and published last) and
`NoContextInside` (a creator has no context before its runner is there).

**Merge cache.** `LoadedIndexesAreComplete` for all deployments, also where process
ids are shared between namespaces; `TargetIsNeverTorn` and `LoadersFailOnlyOnFaults`
where ids are unique. There the argument is that
names of temporary files are unique (`NamesAreUnique`), so a creator alone
writes the file it opened (`CreatorsOwnFiles`), so what it renames is complete and
durable (`TargetsAreDurable`). `NoTemporaryIsLeftBehind` holds where ids are shared too:
a temporary is left only by a stop, or where its removal failed. `TargetNeverTorn` and
`LoadFailsOnlyOnFault` do not hold there, and `LoadedIndexIsComplete` is left to validation alone.

**Batch embedding.** `BatchesDoNotMix`, `ReturnsAreWhole`. The properties do not
say which rows a call has written so far, so `IInv` adds that the plan is a
sorted permutation of the texts and that after `done` sub-batches exactly its
first `done * max_batch` entries have their vector (`Computed`). That a row of a
sub-batch is the vector its text has alone (`RowIsSingle`) is proved from the flat
arrays: for the padded layout by the position of a cell and the line of its mask
(`PaddedCell`, `MaskLine`, `PaddedRowIs`), for the packed one by the offsets
(`OffsetsAdd`, `PackedCell`, `PackedRowIs`).

**Bench harness.** `MeasuresTheWindow`, `TimelineIsWhole`, while the parent has not
failed: the messages in the two pipes are fixed by where parent and worker are
(`Handshake`), so a reading of /proc happens in the phase it is for; `Memories`
relates the kernel's high-water mark to the true sizes; `Timeline` to where
the sampler is. `ReportsTheRequest` has two halves. A command line survives being
written by `worker_argv` and parsed by `parse_args` (`WorkerParses`): each option
written says what its setting is, options that write the same
setting agree, and one is left out only where the default is meant
(`OptionsAgree`); a `--max-seq-len` below 0 is not written and not applied, so
both sides compare the limit in force (`Effective`). And the worker's counters,
which are final once the report is in the pipe (`ReportIsFinal`), are those of the
batches timed so far (`Timed`, `TimedNext`): a short last batch ends each
iteration exactly at the end of the inputs (`BatchesCover`).

**BPE tokenizer and its index.** `TypesHold`, `TokensInVocabulary`,
`ResultsWrapped`, `CreatedIndexAccepted` and the refinement `MergesByRank`. The symbol
list is threaded through an array whose absorbed entries stay in place; `ListIsLinked`
says that the live ones are linked both ways in their order (`Path`), and
`QueueIsTyped` that a candidate, stale or not, names entries of the array and an id of
the vocabulary. A result keeps room for prefix and suffix because `RoomIsLeft`. That
what create_cache writes passes open_validated (`CreatedIndexAccepted`) follows the
rules through sorting by key, dropping the later of two records of a pair, and
cutting into pages whose first keys are the fences. `MergesByRank` is proved while the
file is intact, from three facts: the index answers for a pair what the first rule of
the merge list for it says; the queue holds a candidate for every adjacent pair that
has a rule; and a candidate that is not stale is about two adjacent symbols, so the
least of the queue is the leftmost pair of lowest rank. A stale one is dropped, which
is a stutter, and a merge replaces exactly one pair in the word spelled along the
path.

**WordPiece.** `PiecesSpelled`, in three parts, each relating a loop to a definition
that has none. `basic_tokenize` (`TokenizedWords`): after each byte the words put out are
those that end at or before some byte, in order, and the word being read begins
behind it (`Reading`, kept by `ByteReads`); there is one increasing order of the
spans, hence the same list (`IncreasingIsIdentity`, `AllCovered`). `wordpiece`
(`WordPieceIsPieces`): coming down from the end of the word, the first piece found is the
longest and, among equal ones, the first in the vocabulary (`PieceAtIsBest`); a
segmentation into such pieces is unique (`OnlySegmentation`), the turns make one
(`TurnsSegment`) and find it if there is one. There the notation matters: a raw piece
is found for a part of a word exactly where the definition says it spells it
(`NotationSpells`), as the beginning, as a continuation, or as a continuation because "##"
follows its mark. Nothing else collides, since "[" and "#" are words of their own
(`NotationAlone`). `encode`
(`EncodeIs`): ids are taken up to the limit less two (`RoomOf`), so the wrapper is never cut.

Method. The library's induction theorems take an operator as a parameter, which
the provers cannot instantiate. `CommonFacts` states induction over a *set*
(LEMMA `Induction`), and loops are recursive functions and folds, each with a
lemma that gives its step; that is how what a loop computes is proved here for
every input.

Only model-checked:

- liveness (`EveryCallEnds`, `OnlyMissedWakeupHangs`): fairness and ENABLED are out of
  the prover's reach;
- `WeightsAreLeased` and `ModelIsStreamable`: `GroupWeights` collects the leaves of a
  term with a RECURSIVE operator, which the prover does not accept.

`TypeCorrect`, `PoisonStays` and `ImplementsCoordinator` are proved and not repeated
by a run.

## Not modelled

- SHA-256: a fixed arithmetic function with published test vectors; digests are
  collision-free in the model of the cache.
- The scanner's shape checks and hyperparameters, and `gguf_util.cpp`: they read a
  field and throw; nothing outlives the call.
- The eager scratch (`reserve` grows only, embed grows it again): it decides where
  ggml computes, not what.
- The Windows branch of `atomic_replace`.
- What `nanoembed-bench` prints, its percentiles and hashes; the command-line,
  inspection and conversion tools, the Python benchmarks and the bindings: they
  call the library once, print and exit.
- Values of tensors: what ggml's operators compute.
- `std::bad_alloc` inside one critical section of the coordinator; and the
  growth of a region's pending list while contexts overlap for ever, which
  depends on the callers.

## Plan

Done: coordinator, its promise and proofs; streaming execution over it; groups and
slots with the graphs of both architectures; merge cache and index; model handle;
byte ranges and mapped weights; batch embedding; both tokenizers; the bench
harness. Left, in order of importance:

1. The eager scratch and its reserved length, with embed_batch growing it.
2. Allocation failures inside `acquire` and `release`.
