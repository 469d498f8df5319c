-------------------------------- MODULE SpmBpe --------------------------------
(***************************************************************************)
(* SpmBpeTokenizer::from_gguf, encode_impl and bpe of                      *)
(* tokenizer/spm_bpe.cpp, over the pages of the merge index.               *)
(*                                                                         *)
(* A symbol list is merged by candidates from a priority queue.  Nothing   *)
(* is removed from the queue when a merge takes a candidate's operands     *)
(* away: it is recognised as stale when it is popped.  Rules are looked up *)
(* in the cache file, which nobody locks: after it was validated it may be *)
(* edited, replaced or cut short, also in the middle of a call.            *)
(***************************************************************************)
EXTENDS MergeIndex

CONSTANTS
  Bytes,      \* the characters that are bytes and stand for their byte tokens
  Inputs,     \* pairs of a text and a configuration.  A text is a sequence
              \* of characters with a piece of their own, or of bytes where a
              \* character falls back to its byte tokens; a configuration has
              \* the effective limit and the metadata of the special tokens
  RuleLists,  \* merge lists
  MaxEditedText  \* bound: texts up to this length meet an edited file

ASSUME RuleAssumption ==
  \A list \in RuleLists : IsSequence(list) /\ \A k \in DOMAIN list : IsSequence(list[k])
ASSUME InputAssumption ==
  \A i \in Inputs : /\ IsSequence(i[1]) /\ \A k \in DOMAIN i[1] : Known(<<i[1][k]>>)
                    /\ i[2].limit \in Int

\* The vocabulary does not repeat its byte tokens.
ASSUME ByteAssumption ==
  \A c \in Bytes : \A i, j \in Token : Vocab[i] = <<c>> /\ Vocab[j] = <<c>> => i = j

Gone == 0      \* id < 0: absorbed by a merge
NoId == 0      \* a special token that is absent
None == 0      \* no neighbour

VARIABLES
  rules,   \* the merge list, by rank
  text,
  config,
  file,    \* the pages of the cache file, as they are on disk
  fences,  \* the first keys of the pages, in memory
  intact,  \* the file is as it was validated
  scratch, \* the page slots of the call
  syms,    \* the symbol list
  queue,   \* merge candidates
  ids,     \* the result
  pc

vars == <<rules, text, config, file, fences, intact, scratch, syms, queue, ids, pc>>
input == <<rules, text, config>>
index == <<file, fences, intact>>

Init ==
  /\ rules \in RuleLists
  /\ \E i \in Inputs : text = i[1] /\ config = i[2]
  /\ file = <<>> /\ fences = <<>> /\ intact = TRUE
  /\ scratch = EmptyScratch
  /\ syms = <<>> /\ queue = {} /\ ids = <<>>
  /\ pc = "load"

-----------------------------------------------------------------------------
Wrap(id) == IF id = NoId THEN <<>> ELSE <<id>>

Prefix == Wrap(IF config.add_bos THEN config.bos ELSE NoId)

(* "that key wins when present". *)
Suffix ==
  Wrap(IF config.suffix # NoId THEN config.suffix
       ELSE IF config.add_eos THEN config.eos
       ELSE NoId)

Reserved == Len(Prefix) + Len(Suffix)

\* Slip: the special tokens are not counted.
BudgetWithoutReserve == config.limit

Budget == config.limit - Reserved

(* byte_id_ keeps the last of equal byte tokens, char_ix_ the first of     *)
(* equal characters.                                                       *)
ByteId(c) ==
  CHOOSE i \in Token : Vocab[i] = <<c>> /\ \A j \in i + 1 .. Len(Vocab) : Vocab[j] # <<c>>

SymbolId(c) == IF c \in Bytes THEN ByteId(c) ELSE Id(<<c>>)

Symbols == [i \in DOMAIN text |->
  [id |-> SymbolId(text[i]), prev |-> i - 1, next |-> IF i = Len(text) THEN None ELSE i + 1]]

Candidate(s, l, r, rule) ==
  [rank |-> rule.rank, left |-> l, right |-> r, lid |-> s[l].id, rid |-> s[r].id,
   merged |-> rule.merged]

(* offer: a candidate is found, unless there is no such pair or the lookup  *)
(* throws.                                                                  *)
Offer(s, before, l, r) ==
  LET f == Find(file, fences, before.scratch, PairKey(s[l].id, s[r].id))
  IN  IF before.throws \/ l = None \/ r = None THEN before
      ELSE [scratch |-> f.scratch,
            found   |-> before.found \cup
                          IF f.outcome = "hit" THEN {Candidate(s, l, r, f.rule)} ELSE {},
            throws  |-> f.outcome = "error"]

(* A list of pairs is offered in turn. *)
Offers(s, pairs) ==
  LET upTo[n \in 0 .. Len(pairs)] ==
        IF n = 0 THEN [scratch |-> scratch, found |-> {}, throws |-> FALSE]
        ELSE Offer(s, upTo[n - 1], pairs[n][1], pairs[n][2])
  IN  upTo[Len(pairs)]

\* Slip: of equal ranks the rightmost is taken.
BetterRightmost(c, d) == c.rank < d.rank \/ (c.rank = d.rank /\ c.left > d.left)

Better(c, d) == c.rank < d.rank \/ (c.rank = d.rank /\ c.left < d.left)

Best(c) == c \in queue /\ \A d \in queue : ~Better(d, c)

Valid(c) ==
  /\ syms[c.left].id = c.lid /\ syms[c.left].next = c.right
  /\ syms[c.right].id = c.rid

\* Slip: the list is singly linked.
MergedWithoutPrev(c) ==
  [syms EXCEPT ![c.left].id = c.merged, ![c.left].next = syms[c.right].next, ![c.right].id = Gone]

(* The list after a merge: the right symbol is unlinked. *)
Merged(c) ==
  LET after == syms[c.right].next
  IN  [i \in DOMAIN syms |->
         IF i = c.left THEN [syms[i] EXCEPT !.id = c.merged, !.next = after]
         ELSE IF i = c.right THEN [syms[i] EXCEPT !.id = Gone]
         ELSE IF i = after THEN [syms[i] EXCEPT !.prev = c.left]
         ELSE syms[i]]

NewPairs(s, l) == << <<s[l].prev, l>>, <<l, s[l].next>> >>

(* The tokens from symbol i on, along the links. *)
Chain(s) ==
  LET from[i \in 0 .. Len(s)] == IF i = None THEN <<>> ELSE <<s[i].id>> \o from[s[i].next]
  IN  from[IF s = <<>> THEN None ELSE 1]

Least(a, b) == IF a < b THEN a ELSE b

-----------------------------------------------------------------------------
(* from_gguf: the index is created and validated, or the merge list has no *)
(* usable rule.                                                            *)
Load ==
  /\ pc = "load"
  /\ LET records == Records(rules)
         pages   == Pages(records)
     IN  IF Accepted(pages, Len(records))
         THEN /\ file' = pages /\ fences' = Fences(pages)
              /\ pc' = "start"
         ELSE /\ pc' = "unloadable"
              /\ UNCHANGED <<file, fences>>
  /\ UNCHANGED <<input, intact, scratch, syms, queue, ids>>

(* "BPE max sequence length is smaller than its special-token wrapper"     *)
Reject ==
  /\ pc = "start" /\ config.limit < Reserved
  /\ pc' = "rejected"
  /\ UNCHANGED <<input, index, scratch, syms, queue, ids>>

(* bpe returns at once: no room, or nothing to encode. *)
Skip ==
  /\ pc = "start" /\ config.limit >= Reserved
  /\ Budget <= 0 \/ text = <<>>
  /\ ids' = Prefix \o Suffix
  /\ pc' = "skipped"
  /\ UNCHANGED <<input, index, scratch, syms, queue>>

(* Candidates join the queue; an exception ends the call. *)
Enqueue(rest, offers) ==
  /\ queue'   = rest \cup offers.found
  /\ scratch' = offers.scratch
  /\ pc'      = IF offers.throws THEN "failed" ELSE "merge"
  /\ UNCHANGED <<input, index, ids>>

(* The symbols are linked and every adjacent pair is offered. *)
Scan ==
  /\ pc = "start" /\ config.limit >= Reserved
  /\ Budget > 0 /\ text # <<>>
  /\ syms' = Symbols
  /\ Enqueue({}, Offers(Symbols, [i \in 1 .. Len(text) - 1 |-> <<i, i + 1>>]))

DropStale ==
  /\ pc = "merge"
  /\ \E c \in queue : Best(c) /\ ~Valid(c) /\ queue' = queue \ {c}
  /\ UNCHANGED <<input, index, scratch, syms, ids, pc>>

Merge ==
  /\ pc = "merge"
  /\ \E c \in queue :
       /\ Best(c) /\ Valid(c)
       /\ syms' = Merged(c)
       /\ Enqueue(queue \ {c}, Offers(Merged(c), NewPairs(Merged(c), c.left)))

(* At most Budget tokens are emitted between prefix and suffix. *)
Emit ==
  /\ pc = "merge" /\ queue = {}
  /\ ids' = Prefix \o SubSeq(Chain(syms), 1, Least(Budget, Len(Chain(syms)))) \o Suffix
  /\ pc' = "done"
  /\ UNCHANGED <<input, index, scratch, syms, queue>>

(* A record other than the one that was written. *)
EditedRecords(r) ==
  {[r EXCEPT !.key = @ + 1], [r EXCEPT !.rank = 0]} \cup
  {[r EXCEPT !.merged = m] : m \in {1, Outside}}

(* The file is cut short, a page is overwritten by another, or a record is *)
(* edited in place.                                                        *)
EditedFiles ==
  {[p \in DOMAIN file |-> IF p < q THEN file[p] ELSE Unreadable] : q \in DOMAIN file} \cup
  {[file EXCEPT ![p] = file[q]] : p, q \in DOMAIN file} \cup
  UNION {UNION {{[file EXCEPT ![p].records[i] = r] : r \in EditedRecords(file[p].records[i])} :
                  i \in 1 .. file[p].count} : p \in DOMAIN file}

EditFile ==
  /\ pc \in {"start", "merge"} /\ intact /\ Len(text) <= MaxEditedText
  /\ file' \in EditedFiles \ {file}
  /\ intact' = FALSE
  /\ UNCHANGED <<input, fences, scratch, syms, queue, ids, pc>>

Next == Load \/ Reject \/ Skip \/ Scan \/ DropStale \/ Merge \/ Emit \/ EditFile

Spec == Init /\ [][Next]_vars

-----------------------------------------------------------------------------
Live == {i \in DOMAIN syms : syms[i].id # Gone}

(* Live symbols are doubly linked, and candidates name symbols that exist. *)
TypeOK ==
  /\ pc \in {"unused", "load", "unloadable", "start", "rejected", "skipped", "merge", "failed", "done"}
  /\ \A i \in Live :
       /\ syms[i].prev \in Live \cup {None} /\ syms[i].next \in Live \cup {None}
       /\ syms[i].next # None => syms[syms[i].next].prev = i
       /\ syms[i].prev # None => syms[syms[i].prev].next = i
  /\ \A c \in queue : c.left \in DOMAIN syms /\ c.right \in DOMAIN syms

(* "generated BPE merge cache failed validation" is never thrown: what     *)
(* create_cache writes passes every check of open_validated, unless        *)
(* "tokenizer.ggml.merges yielded no usable rules".                        *)
CreatedIndexIsAccepted ==
  pc = "unloadable" => \A k \in DOMAIN rules : ~Usable(rules[k])

(* Whatever happens to the file, no id outside the vocabulary is produced, *)
(* which "aborts the process inside ggml_get_rows": the call throws first. *)
TokensAreInVocabulary ==
  /\ \A i \in Live : syms[i].id \in Token
  /\ \A c \in queue : c.merged \in Token

(* "so encode() cannot fail partway": a result keeps its wrapper and never *)
(* exceeds the limit; LAST pooling reads the suffix.                       *)
ResultIsWrapped ==
  pc \in {"done", "skipped"} =>
    /\ Len(ids) <= config.limit
    /\ SubSeq(ids, 1, Len(Prefix)) = Prefix
    /\ SubSeq(ids, Len(ids) - Len(Suffix) + 1, Len(ids)) = Suffix

(* The queue, the list, the records, the pages and the slots implement     *)
(* byte-pair encoding by the merge list, as long as the file is intact.    *)
Spelled(chain) == [i \in DOMAIN chain |-> Vocab[chain[i]]]

\* A rule that is not usable merges nothing.
UsableRules == [k \in DOMAIN rules |-> IF Usable(rules[k]) THEN rules[k] ELSE <<>>]

Encoding == INSTANCE BpeMerging WITH
  rules <- UsableRules,
  word  <- Spelled(Chain(IF syms = <<>> THEN Symbols ELSE syms)),
  open  <- pc # "done"

MergesLowestRankFirst ==
  /\ Encoding!Init
  /\ [][intact' => [Encoding!Next]_(Encoding!vars)]_vars
===============================================================================
