--------------------------- MODULE BatchEmbedding ---------------------------
(***************************************************************************)
(* nanoembed_embed_batch on an eager context: Embedder::embed_batch over   *)
(* the plan and the sub-batches of batch.cpp.  The streaming runner builds *)
(* its phases from the same plan with the same choice of layout.           *)
(*                                                                         *)
(* Numbers are abstracted to provenance.  A token leaves the layers as     *)
(* itself, its position and the keys its query scored; a vector is the set *)
(* of tokens pooled and the count their sum is divided by.                 *)
(***************************************************************************)
EXTENDS Integers, Sequences, SequencesExt

CONSTANTS
  Text,      \* texts, as the token ids the tokenizer makes of them
  Padding,   \* padding_id
  MaxTexts,  \* bound: texts of a call
  MaxBatch   \* bound: max_batch of the context

ASSUME TextAssumption == Text \subseteq Seq(Int) \ {<<>>}
ASSUME BatchAssumption == MaxTexts \in Nat /\ MaxBatch \in Nat \ {0}

Family  == {"bert", "gemma3"}
Layout  == {"Default", "Padded"}
Pooling == {"Mean", "Cls", "Last"}

Null      == <<>>                         \* a null pointer in texts[]
Untouched == [of |-> {}, over |-> 0]      \* what out held before the call
NaN       == [of |-> {}, over |-> -1]

(* Gemma 3 consumes sentence lengths and packed batches, BERT does neither. *)
Causal(family)   == family = "gemma3"
Packable(family) == family = "gemma3"

VARIABLES
  call,   \* the arguments: texts, max_batch, family, layout, pooling
  plan,   \* BatchPlan::items, as original indices
  done,   \* sub-batches done
  out,    \* the vectors of the caller
  status  \* "calling", "running", or what the call returned

vars == <<call, plan, done, out, status>>

Init ==
  /\ \E n \in 0 .. MaxTexts :
       call \in [texts : [1 .. n -> Text \cup {Null}], max_batch : 1 .. MaxBatch,
                 family : Family, layout : Layout, pooling : Pooling]
  /\ plan   = <<>>
  /\ done   = 0
  /\ out    = [i \in DOMAIN call.texts |-> Untouched]
  /\ status = "calling"

-----------------------------------------------------------------------------
(* One token after attention over the given keys. *)
State(tokens, positions, q, keys) ==
  [token |-> <<tokens[q], positions[q]>>,
   keys  |-> {<<tokens[k], positions[k]>> : k \in keys}]

Attended(first, length, q) ==
  {k \in first .. first + length - 1 : Causal(call.family) => k <= q}

(* Embedder::embed: the text alone, no padding, no mask. *)
Single(text) ==
  LET S     == Len(text)
      token == [s \in 0 .. S - 1 |-> text[s + 1]]
      ramp  == [s \in 0 .. S - 1 |-> s]
      x     == [s \in 0 .. S - 1 |-> State(token, ramp, s, Attended(0, S, s))]
  IN  CASE call.pooling = "Mean" -> [of |-> {x[s] : s \in 0 .. S - 1}, over |-> S]
        [] call.pooling = "Cls"  -> [of |-> {x[0]}, over |-> 1]
        [] call.pooling = "Last" -> [of |-> {x[S - 1]}, over |-> 1]

-----------------------------------------------------------------------------
Length(i) == Len(call.texts[i])

\* Slip: the items are left in the caller's order.
CallerOrder == [i \in DOMAIN call.texts |-> i]

Shorter(i, j) == Length(i) < Length(j) \/ (Length(i) = Length(j) /\ i < j)

(* make_batch_plan: stable_sort by token count. *)
Order ==
  CHOOSE p \in Bijection(DOMAIN call.texts, DOMAIN call.texts) :
    \A i, j \in DOMAIN p : i < j => Shorter(p[i], p[j])

\* Slip: a tail shorter than max_batch is not counted.
FullSubBatches == Len(plan) \div call.max_batch

SubBatchCount ==
  IF plan = <<>> THEN 0 ELSE 1 + ((Len(plan) - 1) \div call.max_batch)

(* The items of the next sub-batch, rows 0 .. B - 1. *)
Items ==
  LET begin == done * call.max_batch
      end   == IF begin + call.max_batch < Len(plan)
               THEN begin + call.max_batch ELSE Len(plan)
  IN  [b \in 0 .. end - begin - 1 |-> plan[begin + b + 1]]

(* Where the tokens of each row begin in the packed copy. *)
Offsets(lengths) ==
  LET cursor[b \in 0 .. Cardinality(DOMAIN lengths)] ==
        IF b = 0 THEN 0 ELSE cursor[b - 1] + lengths[b - 1]
  IN  cursor

(* MaterializedBatch, in the flat layouts the tensors are uploaded from:   *)
(* token s of row b is cell s + S * b, or packed cell offsets[b] + s.      *)
Materialized ==
  LET B       == Cardinality(DOMAIN Items)
      S       == Length(Items[B - 1])
      lengths == [b \in 0 .. B - 1 |-> Length(Items[b])]
      cells   == 0 .. (S * B) - 1
      ids     == FlattenSeq([b \in 1 .. B |-> call.texts[Items[b - 1]]])
      ramps   == FlattenSeq([b \in 1 .. B |-> [s \in 1 .. lengths[b - 1] |-> s - 1]])
      offsets == Offsets(lengths)
  IN  [seq_len   |-> S, batch_size |-> B, lengths |-> lengths,
       padded    |-> Length(Items[0]) # S,
       token_ids |-> [c \in cells |->
                        IF c % S < lengths[c \div S]
                        THEN call.texts[Items[c \div S]][(c % S) + 1] ELSE Padding],
       positions |-> [c \in cells |-> c % S],
       valid     |-> {c \in cells : c % S < lengths[c \div S]},
       attention_mask |-> {c \in 0 .. (S * S * B) - 1 : c % S < lengths[c \div (S * S)]},
       last      |-> [b \in 0 .. B - 1 |-> (b * S) + lengths[b] - 1],
       offsets   |-> offsets,
       packed_token_ids |-> [t \in 0 .. offsets[B] - 1 |-> ids[t + 1]],
       packed_positions |-> [t \in 0 .. offsets[B] - 1 |-> ramps[t + 1]]]

(* Row b of a padded, or of an equal-length, sub-batch: the mask hides the *)
(* padded keys, the pool the padded tokens.  Cell c is query c % S of its  *)
(* row, whose mask line begins at S * c.                                   *)
PaddedRow(m, b) ==
  LET S         == m.seq_len
      row       == S * b .. (S * b) + S - 1
      scored(c) == {k \in Attended(0, S, c % S) :
                      m.padded => k + (S * c) \in m.attention_mask}
      x(c)      == State(m.token_ids, m.positions, c,
                         {(c - (c % S)) + k : k \in scored(c)})
  IN  CASE call.pooling = "Mean" ->
             IF m.padded THEN [of |-> {x(c) : c \in row \cap m.valid}, over |-> m.lengths[b]]
                         ELSE [of |-> {x(c) : c \in row}, over |-> S]
        [] call.pooling = "Cls"  -> [of |-> {x(S * b)}, over |-> 1]
        [] call.pooling = "Last" ->
             [of |-> {x(IF m.padded THEN m.last[b] ELSE (S * b) + S - 1)}, over |-> 1]

(* Row b of a packed sub-batch: attention and pool slice by offset. *)
PackedRow(m, b) ==
  LET start == m.offsets[b]
      slice == start .. start + m.lengths[b] - 1
      x(t)  == State(m.packed_token_ids, m.packed_positions, t,
                     Attended(start, m.lengths[b], t))
  IN  CASE call.pooling = "Mean" -> [of |-> {x(t) : t \in slice}, over |-> m.lengths[b]]
        [] call.pooling = "Cls"  -> [of |-> {x(start)}, over |-> 1]
        [] call.pooling = "Last" -> [of |-> {x(start + m.lengths[b] - 1)}, over |-> 1]

Packed(m) == m.padded /\ call.layout # "Padded" /\ Packable(call.family)

Row(m, b) == IF Packed(m) THEN PackedRow(m, b) ELSE PaddedRow(m, b)

-----------------------------------------------------------------------------
(* Arguments the C interface refuses. *)
RejectArguments ==
  /\ status = "calling"
  /\ \E i \in DOMAIN call.texts : call.texts[i] = Null
  /\ status' = "invalid"
  /\ UNCHANGED <<call, plan, done, out>>

MakePlan ==
  /\ status = "calling"
  /\ \A i \in DOMAIN call.texts : call.texts[i] # Null
  /\ plan'   = Order
  /\ status' = "running"
  /\ UNCHANGED <<call, done, out>>

(* Compute a sub-batch and copy its rows to where the caller wants them. *)
RunSubBatch ==
  /\ status = "running" /\ done < SubBatchCount
  /\ LET m == Materialized
     IN  out' = [i \in DOMAIN out |->
                   IF \E b \in DOMAIN Items : Items[b] = i
                   THEN Row(m, CHOOSE b \in DOMAIN Items : Items[b] = i) ELSE out[i]]
  /\ done' = done + 1
  /\ UNCHANGED <<call, plan, status>>

(* Tokenizing, planning, allocating or computing throws. *)
Fail ==
  /\ \/ status = "calling" /\ \A i \in DOMAIN call.texts : call.texts[i] # Null
     \/ status = "running" /\ done < SubBatchCount
  /\ call.texts # <<>>
  /\ out'    = [i \in DOMAIN out |-> NaN]
  /\ status' = "error"
  /\ UNCHANGED <<call, plan, done>>

Return ==
  /\ status = "running" /\ done = SubBatchCount
  /\ status' = "ok"
  /\ UNCHANGED <<call, plan, done, out>>

Next == RejectArguments \/ MakePlan \/ RunSubBatch \/ Fail \/ Return

Spec == Init /\ [][Next]_vars

-----------------------------------------------------------------------------
(* Neither padding nor neighbours leak: a vector the call writes is the    *)
(* one nanoembed_embed computes for the same text alone, whatever the      *)
(* layout, the pooling and the other texts.                                *)
RowsAreThoseOfSingleCalls ==
  \A i \in DOMAIN out : out[i] \in {Untouched, NaN} \/ out[i] = Single(call.texts[i])

(* "Inputs are ... returned in caller order.  Invalid arguments leave out  *)
(* untouched; execution failures poison the entire output with NaN."       *)
ReturnIsWhole ==
  \A i \in DOMAIN out :
    /\ status = "ok"      => out[i] \notin {Untouched, NaN}
    /\ status = "invalid" => out[i] = Untouched
    /\ status = "error"   => out[i] = NaN
=============================================================================
