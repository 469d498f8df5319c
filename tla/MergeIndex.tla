------------------------------ MODULE MergeIndex ------------------------------
(***************************************************************************)
(* The contents of the BPE merge cache and the lookup in it:               *)
(* create_cache, the checks of open_validated, and find with the page      *)
(* slots of its LookupScratch (tokenizer/disk_merge_index.cpp).            *)
(*                                                                         *)
(* The merge list becomes records in the order of their keys, cut into     *)
(* pages; the first key of every page stays in memory (a fence) and a      *)
(* lookup reads the one page its key can be on, unless a slot holds it.    *)
(*                                                                         *)
(* A piece of the vocabulary is a sequence of characters; ids are          *)
(* positions in it, counted from 1.                                        *)
(***************************************************************************)
EXTENDS Integers, Sequences, FiniteSets, SequencesExt

CONSTANTS
  Vocab,           \* the pieces; a piece may occur twice
  RecordsPerPage,  \* kRecordsPerPage
  Slots            \* slots of a LookupScratch

IsSequence(s) == s \in Seq({s[i] : i \in DOMAIN s})

ASSUME IndexAssumption == RecordsPerPage \in Nat \ {0} /\ Slots \in Nat \ {0}
ASSUME VocabAssumption == IsSequence(Vocab)

Token      == DOMAIN Vocab
Outside    == Len(Vocab) + 1   \* an id outside the vocabulary
NoPage     == 0                \* UINT64_MAX: the slot holds nothing
Unreadable == [count |-> 0, first |-> -1, records |-> <<>>]

Known(piece) == \E i \in Token : Vocab[i] = piece

(* The ids of a piece; emplace keeps the first. *)
Id(piece) == CHOOSE i \in Token : Vocab[i] = piece /\ \A j \in 1 .. i - 1 : Vocab[j] # piece

PairKey(l, r) == l * (Outside + 1) + r

-----------------------------------------------------------------------------
(* A rule without separator has one piece. *)
Usable(rule) ==
  Len(rule) = 2 /\ Known(rule[1]) /\ Known(rule[2]) /\ Known(rule[1] \o rule[2])

RawRecords(rules) ==
  {[key    |-> PairKey(Id(rules[k][1]), Id(rules[k][2])),
    rank   |-> k,
    merged |-> Id(rules[k][1] \o rules[k][2])] : k \in {j \in DOMAIN rules : Usable(rules[j])}}

Before(a, b) == a.key < b.key \/ (a.key = b.key /\ a.rank < b.rank)

(* std::sort of the records of a set. *)
InOrder(S) ==
  CHOOSE s \in [1 .. Cardinality(S) -> S] : \A i, j \in DOMAIN s : i < j => Before(s[i], s[j])

\* Slip: a pair that the list repeats keeps all its records.
RecordsWithRepeats(rules) == InOrder(RawRecords(rules))

(* Sorted, and of the records of a pair only the one of lowest rank. *)
Records(rules) ==
  InOrder({r \in RawRecords(rules) :
             \A q \in RawRecords(rules) : q.key = r.key => r.rank <= q.rank})

PageCount(n) == (n + RecordsPerPage - 1) \div RecordsPerPage

Pages(records) ==
  [p \in 1 .. PageCount(Len(records)) |->
     LET begin == (p - 1) * RecordsPerPage
         end   == IF begin + RecordsPerPage > Len(records) THEN Len(records)
                  ELSE begin + RecordsPerPage
     IN  [count   |-> end - begin,
          first   |-> records[begin + 1].key,
          records |-> SubSeq(records, begin + 1, end)]]

Fences(pages) == [p \in DOMAIN pages |-> pages[p].first]

(* What open_validated requires of the pages, besides their digests. *)
Accepted(pages, recordCount) ==
  LET all == FlattenSeq([p \in DOMAIN pages |-> pages[p].records])
  IN  /\ recordCount > 0
      /\ Len(pages) = PageCount(recordCount)
      /\ \A p \in DOMAIN pages : /\ pages[p].count \in 1 .. RecordsPerPage
                                 /\ pages[p].first = pages[p].records[1].key
      /\ \A i \in 1 .. Len(all) - 1 : all[i].key < all[i + 1].key
      /\ \A i \in DOMAIN all : all[i].merged \in Token
      /\ Len(all) = recordCount

-----------------------------------------------------------------------------
EmptyScratch ==
  [slots |-> [s \in 1 .. Slots |-> [page |-> NoPage, bytes |-> Unreadable]], next |-> 0]

(* The last page that does not begin after the key, NoPage if all do. *)
PageOf(fences, key) ==
  CHOOSE p \in 0 .. Len(fences) : /\ p # NoPage => fences[p] <= key
                                  /\ \A q \in p + 1 .. Len(fences) : key < fences[q]

Holding(scratch, p) == {s \in 1 .. Slots : scratch.slots[s].page = p}

(* "Structural checks only": a short read, or a page that is another one. *)
Sound(bytes, first) == bytes.count \in 1 .. RecordsPerPage /\ bytes.first = first

(* The slot whose turn it is gives up its page and is read into. *)
ReadInto(scratch, bytes) ==
  [slots |-> [scratch.slots EXCEPT ![scratch.next + 1] = [page |-> NoPage, bytes |-> bytes]],
   next  |-> (scratch.next + 1) % Slots]

(* "Claim the slot only once its bytes have been validated." *)
Claim(scratch, s, p) ==
  [slots |-> [scratch.slots EXCEPT ![s] = [page |-> p, bytes |-> @.bytes]],
   next  |-> scratch.next]

(* Binary search for the first of the records that is not below the key.   *)
LowerBound(records, key) ==
  LET search[w \in (0 .. Len(records)) \X (0 .. Len(records))] ==
        LET mid == w[1] + (w[2] - w[1]) \div 2
        IN  IF w[1] >= w[2] THEN w[1]
            ELSE IF records[mid + 1].key < key THEN search[<<mid + 1, w[2]>>]
            ELSE search[<<w[1], mid>>]
  IN  search[<<0, Len(records)>>] + 1

\* Slip: what the record names is trusted.
RefusesNothing(rule) == FALSE

(* "an out-of-range ID ... aborts the process inside ggml_get_rows".       *)
Refuses(rule) == rule.merged \notin Token

Miss(scratch)      == [scratch |-> scratch, outcome |-> "miss"]
Error(scratch)     == [scratch |-> scratch, outcome |-> "error"]
Hit(scratch, rule) == [scratch |-> scratch, outcome |-> "hit", rule |-> rule]

Search(scratch, records, key) ==
  LET i == LowerBound(records, key)
  IN  IF i > Len(records) THEN Miss(scratch)
      ELSE IF records[i].key # key THEN Miss(scratch)
      ELSE IF Refuses(records[i]) THEN Error(scratch)
      ELSE Hit(scratch, records[i])

(* DiskMergeIndex::find over the pages as they are in the file now. *)
Find(file, fences, scratch, key) ==
  LET p       == PageOf(fences, key)
      cached  == Holding(scratch, p)
      turn    == scratch.next + 1
      read    == ReadInto(scratch, file[p])
      claimed == Claim(read, turn, p)
  IN  IF p = NoPage THEN Miss(scratch)
      ELSE IF cached # {} THEN
        Search(scratch, scratch.slots[CHOOSE s \in cached : TRUE].bytes.records, key)
      ELSE IF ~Sound(read.slots[turn].bytes, fences[p]) THEN Error(read)
      ELSE Search(claimed, claimed.slots[turn].bytes.records, key)
===============================================================================
