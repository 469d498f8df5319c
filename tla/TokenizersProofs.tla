--------------------------- MODULE TokenizersProofs ---------------------------
(***************************************************************************)
(* Proofs about Tokenizers: about SpmBpe, the tokenizer of the family      *)
(* "llama", for any vocabulary, merge lists, texts, configurations, size   *)
(* of pages and number of slots; and, behind them, about WordPiece, for    *)
(* any vocabularies, texts, limits, classes of bytes and longest word.     *)
(***************************************************************************)
EXTENDS Tokenizers, CommonFacts, SequenceTheorems

Stages ==
  {"unused", "load", "unloadable", "start", "rejected", "skipped", "merge", "failed", "done"}

(* What a scratch holds was checked against the fences it belongs to. *)
Scratches(s, fs) ==
  /\ s.next \in 0 .. Slots - 1
  /\ DOMAIN s.slots = 1 .. Slots
  /\ \A k \in 1 .. Slots :
       LET slot == s.slots[k]
       IN  slot.page # NoPage => slot.page \in DOMAIN fs /\ Sound(slot.bytes, fs[slot.page])

(* Every symbol, absorbed or not, links forward to one behind it or to     *)
(* none.                                                                   *)
Symbol == [id : Token \cup {Gone}, prev : Nat, next : Nat]

SymbolLists ==
  {s \in Seq(Symbol) :
     \A i \in DOMAIN s : s[i].next = None \/ s[i].next \in i + 1 .. Len(s)}

(* The live symbols of a list are p, in this order. *)
Path(p, s) ==
  /\ p \in Seq(DOMAIN s)
  /\ \A j, k \in DOMAIN p : j < k => p[j] < p[k]
  /\ s # <<>> => p # <<>> /\ p[1] = 1
  /\ \A k \in DOMAIN p :
       /\ s[p[k]].id # Gone
       /\ s[p[k]].prev = IF k = 1 THEN None ELSE p[k - 1]
       /\ s[p[k]].next = IF k = Len(p) THEN None ELSE p[k + 1]
  /\ \A i \in DOMAIN s : s[i].id # Gone => \E k \in DOMAIN p : p[k] = i

(* Candidates name symbols of the list and tokens of the vocabulary. *)
Proposed(q, s) ==
  \A c \in q : /\ c.left \in DOMAIN s /\ c.right \in DOMAIN s
               /\ c.lid \in Token /\ c.rid \in Token /\ c.merged \in Token

(* A merge list as it comes from the file. *)
MergeList(list) == IsSequence(list) /\ \A k \in DOMAIN list : IsSequence(list[k])

Types ==
  /\ pc \in Stages
  /\ MergeList(rules)
  /\ IsSequence(text) /\ \A k \in DOMAIN text : Known(<<text[k]>>)
  /\ config.limit \in Int
  /\ fences \in Seq(Int) /\ DOMAIN file = DOMAIN fences

ScratchIsChecked ==
  /\ Scratches(scratch, fences)
  /\ pc = "load" => scratch = EmptyScratch

(* The list is linked in both directions along its live symbols. *)
ListIsLinked == syms \in SymbolLists /\ \E p : Path(p, syms)

QueueIsTyped == Proposed(queue, syms)

(* Merging begins only when there is room for a token. *)
RoomIsLeft == pc = "merge" => Budget > 0

IInv ==
  /\ Types /\ ScratchIsChecked /\ ListIsLinked /\ QueueIsTyped /\ RoomIsLeft
  /\ CreatedIndexIsAccepted /\ ResultIsWrapped

-----------------------------------------------------------------------------
(* The merge list and its records. *)

Entry == [key : Int, rank : Nat, merged : Token]

\* What the records of a list are made of.
Kept(list) ==
  {r \in RawRecords(list) : \A q \in RawRecords(list) : q.key = r.key => r.rank <= q.rank}

(* The vocabulary has the ids 1 to its length. *)
LEMMA Tokens ==
  /\ Len(Vocab) \in Nat /\ Token = 1 .. Len(Vocab)
  /\ Outside \in Nat \ {0} /\ \A i \in Token : i < Outside
<1>1. Vocab \in Seq({Vocab[i] : i \in DOMAIN Vocab})
  BY VocabAssumption DEF IsSequence
<1>2. Len(Vocab) \in Nat /\ DOMAIN Vocab = 1 .. Len(Vocab)
  BY <1>1
<1> QED
  BY <1>2 DEF Token, Outside

(* emplace keeps the first piece: an id names its piece. *)
LEMMA Naming ==
  ASSUME NEW piece, Known(piece)
  PROVE  Id(piece) \in Token /\ Vocab[Id(piece)] = piece
<1> DEFINE T == {i \in Token : Vocab[i] = piece}
<1>1. T \in SUBSET Nat /\ T # {}
  BY Tokens DEF Known
<1>2. PICK x \in T : \A y \in T : x <= y
  <2> HIDE DEF T
  <2> QED
    BY <1>1, LeastElement
<1>3. x \in Token /\ Vocab[x] = piece /\ \A j \in 1 .. x - 1 : Vocab[j] # piece
  <2>1. ASSUME NEW j \in 1 .. x - 1
        PROVE  Vocab[j] # piece
    <3>1. j \in Token /\ j < x /\ x \in Nat /\ j \in Nat
      BY Tokens, <1>2
    <3> QED
      BY <1>2, <3>1
  <2> QED
    BY <1>2, <2>1
<1> QED
  BY <1>3 DEF Id

(* The key of a pair tells its ids. *)
LEMMA KeyOfPair ==
  ASSUME NEW l \in Token, NEW r \in Token
  PROVE  /\ PairKey(l, r) \in Int
         /\ \A m, s \in Token : PairKey(m, s) = PairKey(l, r) => m = l /\ s = r
<1> DEFINE d == Outside + 1
<1>1. d \in Nat \ {0} /\ \A i \in Token : i \in Nat /\ i \in 0 .. d - 1
  BY Tokens
<1>2. \A i, j \in Token : PairKey(i, j) = j + d * i
  BY <1>1 DEF PairKey
<1> HIDE DEF d
<1>3. \A i, j \in Token : (j + d * i) \div d = i /\ (j + d * i) % d = j /\ d * i \in Nat
  BY <1>1, CellOf
<1>4. PairKey(l, r) \in Int
  BY <1>1, <1>2, <1>3
<1>5. ASSUME NEW m \in Token, NEW s \in Token, PairKey(m, s) = PairKey(l, r)
      PROVE  m = l /\ s = r
  <2>1. s + d * m = r + d * l
    BY <1>2, <1>5
  <2> QED
    BY <1>3, <2>1
<1> QED
  BY <1>4, <1>5

(* A usable rule has a record. *)
RecordOf(list, k) ==
  [key    |-> PairKey(Id(list[k][1]), Id(list[k][2])),
   rank   |-> k,
   merged |-> Id(list[k][1] \o list[k][2])]

(* It is the rule's. *)
LEMMA RecordOfRule ==
  ASSUME NEW list, MergeList(list), NEW k \in DOMAIN list, Usable(list[k])
  PROVE  /\ RecordOf(list, k) \in RawRecords(list) /\ RecordOf(list, k) \in Entry
         /\ Id(list[k][1]) \in Token /\ Id(list[k][2]) \in Token
<1>1. k \in Nat
  BY DEF MergeList, IsSequence
<1>2. /\ Id(list[k][1]) \in Token /\ Id(list[k][2]) \in Token
      /\ Id(list[k][1] \o list[k][2]) \in Token
  BY Naming DEF Usable
<1>3. PairKey(Id(list[k][1]), Id(list[k][2])) \in Int
  BY <1>2, KeyOfPair
<1> QED
  BY <1>1, <1>2, <1>3 DEF RecordOf, RawRecords, Entry

(* There are finitely many, of distinct ranks. *)
LEMMA RawRecordsTyped ==
  ASSUME NEW list, MergeList(list)
  PROVE  /\ RawRecords(list) \in SUBSET Entry /\ IsFiniteSet(RawRecords(list))
         /\ \A r \in RawRecords(list) :
              \E k \in DOMAIN list : Usable(list[k]) /\ r = RecordOf(list, k)
<1> DEFINE D == {k \in DOMAIN list : Usable(list[k])}
           Op(k) == RecordOf(list, k)
           R == {Op(k) : k \in D}
<1>1. RawRecords(list) = R
  BY DEF RawRecords, RecordOf
<1>2. IsFiniteSet(D)
  <2>1. Len(list) \in Nat /\ DOMAIN list = 1 .. Len(list)
    BY DEF MergeList, IsSequence
  <2>2. IsFiniteSet(1 .. Len(list))
    BY <2>1, FS_Interval
  <2>3. D \in SUBSET (1 .. Len(list))
    BY <2>1
  <2> HIDE DEF D
  <2> QED
    BY <2>2, <2>3, FS_Subset
<1>3. IsFiniteSet(R)
  <2> DEFINE f == [k \in D |-> Op(k)]
  <2>1. f \in Surjection(D, R)
    <3> HIDE DEF Op
    <3> QED
      BY DEF Surjection
  <2> HIDE DEF D, Op, R, f
  <2> QED
    BY <1>2, <2>1, FS_Surjection
<1>4. \A k \in D : Op(k) \in Entry
  BY RecordOfRule
<1> QED
  BY <1>1, <1>3, <1>4

(* Of the records of a pair one is kept, the one of lowest rank. *)
LEMMA KeptRecords ==
  ASSUME NEW list, MergeList(list)
  PROVE  /\ Kept(list) \in SUBSET Entry /\ IsFiniteSet(Kept(list))
         /\ \A q, r \in Kept(list) : q.key = r.key => q = r
         /\ \A q \in RawRecords(list) : \E r \in Kept(list) : r.key = q.key /\ r.rank <= q.rank
<1> DEFINE R == RawRecords(list)
           K == Kept(list)
<1>1. R \in SUBSET Entry /\ IsFiniteSet(R)
      /\ \A r \in R : \E k \in DOMAIN list : Usable(list[k]) /\ r = RecordOf(list, k)
  BY RawRecordsTyped
<1>2. K \in SUBSET R /\ \A r \in K : \A q \in R : q.key = r.key => r.rank <= q.rank
  BY DEF Kept
<1>3. \A r \in R : \A q \in R :
        q.key = r.key /\ (\A s \in R : s.key = q.key => q.rank <= s.rank) => q \in K
  BY DEF Kept
<1> HIDE DEF K, R
<1>4. IsFiniteSet(K)
  BY <1>1, <1>2, FS_Subset
<1>5. ASSUME NEW q \in K, NEW r \in K, q.key = r.key
      PROVE  q = r
  <2>1. q.rank <= r.rank /\ r.rank <= q.rank /\ q.rank \in Nat /\ r.rank \in Nat
    BY <1>1, <1>2, <1>5 DEF Entry
  <2>2. q.rank = r.rank
    BY <2>1
  <2>3. PICK j \in DOMAIN list : q = RecordOf(list, j)
    BY <1>1, <1>2
  <2>4. PICK k \in DOMAIN list : r = RecordOf(list, k)
    BY <1>1, <1>2
  <2>5. q.rank = j /\ r.rank = k
    BY <2>3, <2>4 DEF RecordOf
  <2> QED
    BY <2>2, <2>3, <2>4, <2>5
<1>6. ASSUME NEW q \in R
      PROVE  \E r \in K : r.key = q.key /\ r.rank <= q.rank
  <2> DEFINE T == {s.rank : s \in {s \in R : s.key = q.key}}
  <2>1. T \in SUBSET Nat /\ T # {}
    BY <1>1, <1>6 DEF Entry
  <2>2. PICK x \in T : \A y \in T : x <= y
    <3> HIDE DEF T
    <3> QED
      BY <2>1, LeastElement
  <2>3. PICK r \in R : r.key = q.key /\ r.rank = x
    BY <2>2
  <2>4. \A s \in R : s.key = q.key => r.rank <= s.rank
    BY <2>2, <2>3
  <2> HIDE DEF T
  <2>5. r \in K
    BY <1>3, <2>3, <2>4
  <2> QED
    BY <1>6, <2>3, <2>4, <2>5
<1> QED
  BY <1>1, <1>2, <1>4, <1>5, <1>6 DEF K, R

(* Records of distinct keys have one order. *)
LEMMA InOrderIs ==
  ASSUME NEW S \in SUBSET Entry, IsFiniteSet(S), \A q, r \in S : q.key = r.key => q = r
  PROVE  /\ Cardinality(S) \in Nat
         /\ InOrder(S) \in [1 .. Cardinality(S) -> S]
         /\ \A i, j \in 1 .. Cardinality(S) : i < j => InOrder(S)[i].key < InOrder(S)[j].key
         /\ \A r \in S : \E i \in 1 .. Cardinality(S) : InOrder(S)[i] = r
<1> DEFINE n == Cardinality(S)
           Orders(s) == \A i, j \in DOMAIN s : i < j => Before(s[i], s[j])
           R == {x \in S \X S : Before(x[1], x[2])}
<1>1. n \in Nat /\ ExistsBijection(1 .. n, S) /\ IsFiniteSet(1 .. n) /\ Cardinality(1 .. n) = n
  <2>1. n \in Nat /\ ExistsBijection(1 .. n, S)
    BY FS_CardinalityType
  <2>2. IsFiniteSet(1 .. n) /\ Cardinality(1 .. n) = IF 1 > n THEN 0 ELSE n - 1 + 1
    <3> HIDE DEF n
    <3> QED
      BY <2>1, FS_Interval
  <2> QED
    BY <2>1, <2>2
<1> HIDE DEF n
<1>2. \A a, b \in S : Before(a, b) => ~Before(b, a)
  BY DEF Before, Entry
<1>3. \A a, b, c \in S : ~Before(a, b) /\ ~Before(b, c) => ~Before(a, c)
  BY DEF Before, Entry
<1>4. \A a, b \in S : <<a, b>> \in R <=> Before(a, b)
  OBVIOUS
<1>5. \A a, b \in S : a # b /\ ~Before(b, a) => Before(a, b) /\ a.key < b.key
  <2>1. \A a, b \in S : a.key \in Int /\ b.key \in Int /\ (a.key = b.key => a = b)
    BY DEF Entry
  <2> QED
    BY <2>1 DEF Before
<1>6. \E s \in [1 .. n -> S] : Orders(s)
  <2>1. PICK b \in Bijection(1 .. n, S) : TRUE
    BY <1>1 DEF ExistsBijection
  <2>2. b \in [1 .. n -> S] /\ \A i, j \in 1 .. n : b[i] = b[j] => i = j
    BY <2>1 DEF Bijection, Injection, IsInjective
  <2>3. PICK p \in Bijection(1 .. n, 1 .. n) :
          \A i, j \in 1 .. n : i < j => <<b[p[j]], b[p[i]]>> \notin R
    <3>1. \A x, y \in S : <<x, y>> \in R => <<y, x>> \notin R
      BY <1>2, <1>4
    <3>2. \A x, y, z \in S : <<x, y>> \notin R /\ <<y, z>> \notin R => <<x, z>> \notin R
      BY <1>3, <1>4
    <3> HIDE DEF R
    <3> QED
      BY <1>1, <2>2, <3>1, <3>2, SortExists
  <2>4. p \in [1 .. n -> 1 .. n] /\ \A i, j \in 1 .. n : p[i] = p[j] => i = j
    BY DEF Bijection, Injection, IsInjective
  <2> DEFINE s == [i \in 1 .. n |-> b[p[i]]]
  <2>5. s \in [1 .. n -> S] /\ DOMAIN s = 1 .. n
    BY <2>2, <2>4
  <2>6. ASSUME NEW i \in 1 .. n, NEW j \in 1 .. n, i < j
        PROVE  Before(s[i], s[j])
    <3>1. s[i] \in S /\ s[j] \in S /\ s[i] # s[j]
      BY <1>1, <2>2, <2>4, <2>6
    <3>2. ~Before(s[j], s[i])
      BY <1>4, <2>3, <2>6, <3>1
    <3> QED
      BY <1>5, <3>1, <3>2
  <2> HIDE DEF s
  <2>7. Orders(s)
    BY <2>5, <2>6
  <2> QED
    BY <2>5, <2>7
<1> DEFINE t == InOrder(S)
<1>7. t \in [1 .. n -> S] /\ Orders(t)
  <2>1. t = CHOOSE s \in [1 .. n -> S] : Orders(s)
    BY DEF InOrder, n
  <2> HIDE DEF t, Orders
  <2> QED
    BY <1>6, <2>1
<1> HIDE DEF t
<1>8. \A i, j \in 1 .. n : i < j => Before(t[i], t[j]) /\ t[i] # t[j]
  <2>1. \A i \in 1 .. n : t[i] \in S
    BY <1>7
  <2>2. \A i, j \in 1 .. n : i < j => Before(t[i], t[j])
    BY <1>7
  <2> QED
    BY <1>2, <2>1, <2>2
<1>9. \A i, j \in 1 .. n : t[i] = t[j] => i = j
  BY <1>1, <1>8
<1>10. \A i, j \in 1 .. n : i < j => t[i].key < t[j].key
  BY <1>2, <1>5, <1>7, <1>8
<1>11. t \in Injection(1 .. n, S)
  BY <1>7, <1>9 DEF Injection, IsInjective
<1>12. t \in Surjection(1 .. n, S)
  <2>1. Cardinality(1 .. n) = Cardinality(S)
    BY <1>1 DEF n
  <2> QED
    BY <1>11, <2>1, FS_Injection
<1>13. \A r \in S : \E i \in 1 .. n : t[i] = r
  BY <1>12 DEF Surjection
<1> QED
  BY <1>1, <1>7, <1>10, <1>13 DEF n, t

(* A merge list's records: their keys increase, and a usable rule's key is *)
(* the key of one, of a rank no higher than the rule's.                    *)
LEMMA RecordsAre ==
  ASSUME NEW list, MergeList(list)
  PROVE  /\ Records(list) \in Seq(Kept(list)) /\ Records(list) \in Seq(Entry)
         /\ \A i, j \in DOMAIN Records(list) : i < j => Records(list)[i].key < Records(list)[j].key
         /\ \A r \in Kept(list) : \E i \in DOMAIN Records(list) : Records(list)[i] = r
<1> DEFINE K == Kept(list)
           n == Cardinality(K)
           t == InOrder(K)
<1>1. Records(list) = t
  BY DEF Records, Kept
<1>2. K \in SUBSET Entry /\ IsFiniteSet(K) /\ \A q, r \in K : q.key = r.key => q = r
  BY KeptRecords
<1> HIDE DEF K
<1>3. /\ n \in Nat /\ t \in [1 .. n -> K]
      /\ \A i, j \in 1 .. n : i < j => t[i].key < t[j].key
      /\ \A r \in K : \E i \in 1 .. n : t[i] = r
  BY <1>2, InOrderIs
<1> HIDE DEF n, t
<1>4. t \in Seq(K) /\ t \in Seq(Entry) /\ DOMAIN t = 1 .. n
  BY <1>2, <1>3
<1> QED
  BY <1>1, <1>3, <1>4 DEF K

-----------------------------------------------------------------------------
(* The pages. *)

\* Where page p begins and ends in a list of n records.
Begin(p)  == (p - 1) * RecordsPerPage
End(n, p) == IF Begin(p) + RecordsPerPage > n THEN n ELSE Begin(p) + RecordsPerPage

(* The last page is the only one that may not be full, and none is empty. *)
LEMMA PageBounds ==
  ASSUME NEW n \in Nat
  PROVE  /\ PageCount(n) \in Nat /\ (n > 0 => PageCount(n) > 0)
         /\ \A p \in 1 .. PageCount(n) :
              /\ Begin(p) \in Nat /\ End(n, p) \in Nat /\ Begin(p) < n
              /\ Begin(p) < End(n, p) /\ End(n, p) <= n /\ End(n, p) <= Begin(p) + RecordsPerPage
              /\ p < PageCount(n) => End(n, p) = Begin(p + 1)
              /\ p = PageCount(n) => End(n, p) = n
<1> DEFINE d == RecordsPerPage
           c == PageCount(n)
<1>1. d \in Nat \ {0}
  BY IndexAssumption
<1>2. c = (n + d - 1) \div d /\ n + d - 1 \in Nat
  BY <1>1 DEF PageCount
<1>3. c \in Nat
  BY <1>1, <1>2, Quotient
<1> HIDE DEF d
<1>4. d * c <= n + d - 1 /\ n + d - 1 < d * c + d /\ d * c \in Nat
  <2> HIDE DEF c
  <2> QED
    BY <1>1, <1>2, <1>3, QuotientIs
<1> HIDE DEF c
<1>5. n > 0 => c > 0
  <2>1. c = 0 => d * c = 0
    BY <1>1
  <2> QED
    BY <1>1, <1>3, <1>4, <2>1
<1>6. ASSUME NEW p \in 1 .. c
      PROVE  /\ Begin(p) \in Nat /\ End(n, p) \in Nat /\ Begin(p) < n
             /\ Begin(p) < End(n, p) /\ End(n, p) <= n /\ End(n, p) <= Begin(p) + d
             /\ p < c => End(n, p) = Begin(p + 1)
             /\ p = c => End(n, p) = n
  <2>1. p \in Nat /\ p - 1 \in Nat /\ p - 1 < c /\ c \in Int
    BY <1>3
  <2>2. d * (p - 1) + d <= d * c
    BY <1>1, <2>1, Monotone
  <2>3. Begin(p) = d * (p - 1) /\ Begin(p + 1) = d * p /\ d * p = d * (p - 1) + d
    <3>1. (p - 1) * d = d * (p - 1) /\ p + 1 - 1 = p /\ p * d = d * p
      BY <1>1, <2>1
    <3>2. d * p = d * (p - 1) + d
      BY <1>1, <2>1
    <3> QED
      BY <3>1, <3>2 DEF Begin, d
  <2>4. d * (p - 1) \in Nat
    BY <1>1, <2>1
  <2>5. p < c => d * p + d <= d * c
    BY <1>1, <2>1, Monotone
  <2>6. End(n, p) = IF Begin(p) + d > n THEN n ELSE Begin(p) + d
    BY DEF End, d
  <2>7. Begin(p) < n
    BY <1>1, <1>4, <2>2, <2>3, <2>4
  <2>8. p < c => Begin(p) + d <= n
    BY <1>1, <1>4, <2>3, <2>4, <2>5
  <2>9. p = c => Begin(p) + d >= n
    BY <1>1, <1>4, <2>3, <2>4
  <2> QED
    BY <1>1, <2>3, <2>4, <2>6, <2>7, <2>8, <2>9
<1> QED
  BY <1>3, <1>5, <1>6 DEF c, d

(* What create_cache writes: every page holds its part of the records. *)
LEMMA PagesAre ==
  ASSUME NEW records \in Seq(Entry)
  PROVE  LET n == Len(records)
         IN  /\ Len(Pages(records)) = PageCount(n) /\ DOMAIN Pages(records) = 1 .. PageCount(n)
             /\ \A p \in 1 .. PageCount(n) :
                  /\ Pages(records)[p].count = End(n, p) - Begin(p)
                  /\ Pages(records)[p].count \in 1 .. RecordsPerPage
                  /\ Pages(records)[p].first = records[Begin(p) + 1].key
                  /\ Pages(records)[p].first \in Int
                  /\ Pages(records)[p].records = SubSeq(records, Begin(p) + 1, End(n, p))
                  /\ Pages(records)[p].records \in Seq(Entry)
                  /\ Len(Pages(records)[p].records) = End(n, p) - Begin(p)
                  /\ \A i \in 1 .. End(n, p) - Begin(p) :
                       /\ Begin(p) + i \in 1 .. n
                       /\ Pages(records)[p].records[i] = records[Begin(p) + i]
<1> DEFINE n == Len(records)
           c == PageCount(n)
           pages == Pages(records)
<1>1. n \in Nat /\ c \in Nat
  BY PageBounds
<1>2. pages = [p \in 1 .. c |-> [count   |-> End(n, p) - Begin(p),
                                first   |-> records[Begin(p) + 1].key,
                                records |-> SubSeq(records, Begin(p) + 1, End(n, p))]]
  BY DEF Pages, Begin, End
<1> HIDE DEF pages
<1>3. Len(pages) = c /\ DOMAIN pages = 1 .. c
  <2> HIDE DEF c
  <2> QED
    BY <1>1, <1>2
<1>4. ASSUME NEW p \in 1 .. c
      PROVE  /\ pages[p].count = End(n, p) - Begin(p)
             /\ pages[p].count \in 1 .. RecordsPerPage
             /\ pages[p].first = records[Begin(p) + 1].key
             /\ pages[p].first \in Int
             /\ pages[p].records = SubSeq(records, Begin(p) + 1, End(n, p))
             /\ pages[p].records \in Seq(Entry)
             /\ Len(pages[p].records) = End(n, p) - Begin(p)
             /\ \A i \in 1 .. End(n, p) - Begin(p) :
                  /\ Begin(p) + i \in 1 .. n
                  /\ pages[p].records[i] = records[Begin(p) + i]
  <2>1. /\ Begin(p) \in Nat /\ End(n, p) \in Nat /\ Begin(p) < n
        /\ Begin(p) < End(n, p) /\ End(n, p) <= n /\ End(n, p) <= Begin(p) + RecordsPerPage
    BY <1>1, PageBounds
  <2>2. /\ pages[p].count = End(n, p) - Begin(p)
        /\ pages[p].first = records[Begin(p) + 1].key
        /\ pages[p].records = SubSeq(records, Begin(p) + 1, End(n, p))
    BY <1>2
  <2> DEFINE b == Begin(p)
             e == End(n, p)
             sub == SubSeq(records, b + 1, e)
  <2> HIDE DEF b, e
  <2>3. b \in Nat /\ e \in Nat /\ b < n /\ b < e /\ e <= n /\ e <= b + RecordsPerPage
    BY <2>1 DEF b, e
  <2>4. sub \in Seq(Entry) /\ Len(sub) = e - b /\ \A i \in 1 .. e - b : sub[i] = records[b + i]
    BY <2>3
  <2>5. e - b \in 1 .. RecordsPerPage /\ \A i \in 1 .. e - b : b + i \in 1 .. n
    BY <2>3, IndexAssumption
  <2>6. records[b + 1].key \in Int
    <3>1. records[b + 1] \in Entry
      BY <2>3
    <3> QED
      BY <3>1 DEF Entry
  <2>7. pages[p].count = e - b /\ pages[p].first = records[b + 1].key /\ pages[p].records = sub
    BY <2>2 DEF b, e
  <2> HIDE DEF sub, pages
  <2>8. /\ pages[p].count \in 1 .. RecordsPerPage /\ pages[p].first \in Int
        /\ pages[p].records \in Seq(Entry) /\ Len(pages[p].records) = e - b
        /\ \A i \in 1 .. e - b : b + i \in 1 .. n /\ pages[p].records[i] = records[b + i]
    BY <2>4, <2>5, <2>6, <2>7
  <2> QED
    BY <2>2, <2>8 DEF b, e
<1> QED
  BY <1>3, <1>4 DEF pages

(* The pages together are the records. *)
LEMMA PagesJoined ==
  ASSUME NEW records \in Seq(Entry), records # <<>>
  PROVE  FlattenSeq([p \in DOMAIN Pages(records) |-> Pages(records)[p].records]) = records
<1> DEFINE n == Len(records)
           c == PageCount(n)
           ss == [p \in 1 .. c |-> SubSeq(records, Begin(p) + 1, End(n, p))]
<1>1. n \in Nat /\ n > 0 /\ c \in Nat /\ c > 0 /\ c \in 1 .. c
  <2>1. n \in Nat /\ n > 0
    OBVIOUS
  <2> HIDE DEF n
  <2>2. c \in Nat /\ c > 0
    BY <2>1, PageBounds DEF c
  <2> QED
    BY <2>1, <2>2
<1>2. [p \in DOMAIN Pages(records) |-> Pages(records)[p].records] = ss
  BY PagesAre
<1>3. \A p \in 1 .. c :
        /\ Begin(p) \in Nat /\ End(n, p) \in Nat /\ Begin(p) < n
        /\ Begin(p) < End(n, p) /\ End(n, p) <= n
        /\ p < c => End(n, p) = Begin(p + 1)
        /\ p = c => End(n, p) = n
  BY <1>1, PageBounds
<1> HIDE DEF c
<1>4. /\ ss \in Seq(Seq(Entry)) /\ Len(ss) = c
      /\ \A p \in 1 .. c : ss[p] = SubSeq(records, Begin(p) + 1, End(n, p))
  <2>1. \A p \in 1 .. c : SubSeq(records, Begin(p) + 1, End(n, p)) \in Seq(Entry)
    BY <1>1, <1>3
  <2>2. ss \in [1 .. c -> Seq(Entry)]
    BY <2>1
  <2>3. \A p \in 1 .. c : ss[p] = SubSeq(records, Begin(p) + 1, End(n, p))
    OBVIOUS
  <2> HIDE DEF ss
  <2>4. ss \in Seq(Seq(Entry)) /\ Len(ss) = c
    BY <1>1, <2>2
  <2> QED
    BY <2>3, <2>4
<1> HIDE DEF ss
<1>5. PICK t \in [0 .. c -> Seq(Entry)] :
        /\ t[0] = <<>>
        /\ \A k \in 1 .. c : t[k] = t[k - 1] \o ss[k]
        /\ FlattenSeq(ss) = t[c]
  BY <1>4, Flattening
<1> DEFINE Joined(k) == k > 0 => t[k] = SubSeq(records, 1, End(n, k))
           A == {k \in 0 .. c : Joined(k)}
<1>6. 0 \in A
  BY <1>1
<1>7. ASSUME NEW k \in 0 .. c - 1, k \in A
      PROVE  k + 1 \in A
  <2>1. k \in Nat /\ k + 1 \in 1 .. c /\ k + 1 \in 0 .. c /\ k + 1 > 0 /\ k + 1 - 1 = k
    BY <1>1
  <2>2. t[k + 1] = t[k] \o SubSeq(records, Begin(k + 1) + 1, End(n, k + 1))
    <3> DEFINE m == k + 1
    <3>1. t[m] = t[m - 1] \o ss[m] /\ ss[m] = SubSeq(records, Begin(m) + 1, End(n, m))
      <4> HIDE DEF m
      <4>1. m \in 1 .. c
        BY <2>1 DEF m
      <4> QED
        BY <1>4, <1>5, <4>1
    <3>2. m - 1 = k
      BY <2>1
    <3> HIDE DEF m
    <3>3. t[m] = t[k] \o SubSeq(records, Begin(m) + 1, End(n, m))
      BY <3>1, <3>2
    <3> QED
      BY <3>3 DEF m
  <2>3. t[k] = SubSeq(records, 1, Begin(k + 1))
    <3>1. CASE k = 0
      <4>1. Begin(1) = 0
        BY IndexAssumption DEF Begin
      <4>2. SubSeq(records, 1, 0) = <<>>
        OBVIOUS
      <4>3. k + 1 = 1
        BY <3>1
      <4>4. t[k] = SubSeq(records, 1, Begin(1))
        BY <1>5, <3>1, <4>1, <4>2
      <4> QED
        BY <4>3, <4>4
    <3>2. CASE k > 0
      <4>1. k \in 1 .. c /\ k < c
        BY <2>1, <3>2, <1>1
      <4>2. End(n, k) = Begin(k + 1)
        BY <1>3, <4>1
      <4>3. t[k] = SubSeq(records, 1, End(n, k))
        BY <1>7, <3>2
      <4> QED
        BY <4>2, <4>3
    <3> QED
      BY <2>1, <3>1, <3>2
  <2>4. Begin(k + 1) \in 0 .. Len(records) /\ End(n, k + 1) \in Begin(k + 1) .. Len(records)
    BY <1>1, <1>3, <2>1
  <2>5. t[k + 1] = SubSeq(records, 1, End(n, k + 1))
    <3>1. 1 \in 1 .. Len(records) + 1 /\ Begin(k + 1) \in 1 - 1 .. Len(records)
      BY <1>1, <2>4
    <3> QED
      BY <2>2, <2>3, <2>4, <3>1, ConcatAdjacentSubSeq
  <2> QED
    BY <2>1, <2>5
<1>8. t[c] = SubSeq(records, 1, n)
  <2>1. \A k \in 0 .. c - 1 : k \in A => k + 1 \in A
    BY <1>7
  <2>2. 0 .. c \subseteq A
    <3> HIDE DEF A
    <3> QED
      BY <1>1, <1>6, <2>1, Induction
  <2>3. c \in A
    <3> HIDE DEF A
    <3> QED
      BY <1>1, <2>2
  <2>4. t[c] = SubSeq(records, 1, End(n, c)) /\ End(n, c) = n
    BY <1>1, <1>3, <2>3
  <2> QED
    BY <2>4
<1>9. SubSeq(records, 1, n) = records
  OBVIOUS
<1> QED
  BY <1>2, <1>5, <1>8, <1>9

(* "generated BPE merge cache failed validation" cannot be: what is        *)
(* written passes every check.                                             *)
LEMMA CreatedIsAccepted ==
  ASSUME NEW list, MergeList(list), NEW k \in DOMAIN list, Usable(list[k])
  PROVE  Accepted(Pages(Records(list)), Len(Records(list)))
<1> DEFINE records == Records(list)
           n == Len(records)
           pages == Pages(records)
           all == FlattenSeq([p \in DOMAIN pages |-> pages[p].records])
<1>1. /\ records \in Seq(Kept(list)) /\ records \in Seq(Entry)
      /\ \A i, j \in DOMAIN records : i < j => records[i].key < records[j].key
      /\ \A r \in Kept(list) : \E i \in DOMAIN records : records[i] = r
  BY RecordsAre
<1>2. records # <<>>
  <2>1. RecordOf(list, k) \in RawRecords(list)
    BY RecordOfRule
  <2>2. \E r \in Kept(list) : r.key = RecordOf(list, k).key
    BY <2>1, KeptRecords
  <2> HIDE DEF records
  <2> QED
    BY <1>1, <2>2
<1> HIDE DEF records
<1>3. n \in Nat /\ n > 0 /\ DOMAIN records = 1 .. n
  BY <1>1, <1>2
<1>4. /\ Len(pages) = PageCount(n)
      /\ \A p \in DOMAIN pages :
           /\ pages[p].count \in 1 .. RecordsPerPage
           /\ pages[p].first = pages[p].records[1].key
  <2>1. Len(pages) = PageCount(n) /\ DOMAIN pages = 1 .. PageCount(n)
    BY <1>1, PagesAre
  <2>2. ASSUME NEW p \in 1 .. PageCount(n)
        PROVE  /\ pages[p].count \in 1 .. RecordsPerPage
               /\ pages[p].first = pages[p].records[1].key
    <3>1. /\ pages[p].count = End(n, p) - Begin(p)
          /\ pages[p].count \in 1 .. RecordsPerPage
          /\ pages[p].first = records[Begin(p) + 1].key
          /\ \A i \in 1 .. End(n, p) - Begin(p) : pages[p].records[i] = records[Begin(p) + i]
      BY <1>1, PagesAre
    <3>2. 1 \in 1 .. End(n, p) - Begin(p)
      <4>1. End(n, p) - Begin(p) \in 1 .. RecordsPerPage
        BY <3>1
      <4> QED
        BY <4>1, IndexAssumption
    <3>3. pages[p].records[1] = records[Begin(p) + 1]
      BY <3>1, <3>2
    <3> QED
      BY <3>1, <3>3
  <2> QED
    BY <2>1, <2>2
<1>5. all = records
  BY <1>1, <1>2, PagesJoined
<1> HIDE DEF all
<1>6. \A i \in 1 .. Len(all) - 1 : all[i].key < all[i + 1].key
  <2>1. \A i \in 1 .. n - 1 : i \in DOMAIN records /\ i + 1 \in DOMAIN records /\ i < i + 1
    BY <1>3
  <2> QED
    BY <1>1, <1>5, <2>1
<1>7. \A i \in DOMAIN all : all[i].merged \in Token
  <2>1. \A i \in 1 .. n : records[i] \in Entry
    BY <1>1
  <2> QED
    BY <1>3, <1>5, <2>1 DEF Entry
<1>8. Len(all) = n
  BY <1>5
<1> HIDE DEF pages, n
<1>9. Accepted(pages, n)
  BY <1>3, <1>4, <1>6, <1>7, <1>8 DEF Accepted, all
<1> QED
  BY <1>9 DEF pages, n, records

(* The fences are the keys of the first records. *)
LEMMA FencesAre ==
  ASSUME NEW records \in Seq(Entry)
  PROVE  /\ Fences(Pages(records)) \in Seq(Int)
         /\ Len(Fences(Pages(records))) = PageCount(Len(records))
         /\ DOMAIN Fences(Pages(records)) = 1 .. PageCount(Len(records))
         /\ DOMAIN Pages(records) = 1 .. PageCount(Len(records))
         /\ \A p \in 1 .. PageCount(Len(records)) :
              Fences(Pages(records))[p] = records[Begin(p) + 1].key
<1> DEFINE c == PageCount(Len(records))
           f == Fences(Pages(records))
<1>1. Len(records) \in Nat /\ c \in Nat
  BY PageBounds
<1>2. DOMAIN Pages(records) = 1 .. c
  BY PagesAre
<1>3. \A p \in 1 .. c : /\ Pages(records)[p].first \in Int
                         /\ Pages(records)[p].first = records[Begin(p) + 1].key
  BY PagesAre
<1>4. f = [p \in 1 .. c |-> Pages(records)[p].first]
  BY <1>2 DEF Fences
<1> HIDE DEF f, c
<1>5. f \in [1 .. c -> Int]
  BY <1>3, <1>4
<1>6. f \in Seq(Int) /\ Len(f) = c /\ DOMAIN f = 1 .. c
  BY <1>1, <1>5
<1> QED
  BY <1>2, <1>3, <1>4, <1>6 DEF c, f

-----------------------------------------------------------------------------
(* Lookups. *)

(* upper_bound: the last page that can hold a key. *)
LEMMA PageOfIs ==
  ASSUME NEW fs \in Seq(Int), NEW key \in Int
  PROVE  /\ PageOf(fs, key) \in 0 .. Len(fs)
         /\ PageOf(fs, key) # NoPage => fs[PageOf(fs, key)] <= key
         /\ \A q \in PageOf(fs, key) + 1 .. Len(fs) : key < fs[q]
<1> DEFINE n == Len(fs)
           T == {p \in 1 .. n : fs[p] <= key}
           IsLast(p) == /\ p # NoPage => fs[p] <= key
                      /\ \A q \in p + 1 .. n : key < fs[q]
<1>1. n \in Nat /\ \A p \in 1 .. n : fs[p] \in Int
  OBVIOUS
<1>2. \E p \in 0 .. n : IsLast(p)
  <2>1. CASE T = {}
    <3>1. \A q \in 1 .. n : key < fs[q]
      BY <1>1, <2>1
    <3>2. IsLast(0) /\ 0 \in 0 .. n
      BY <1>1, <3>1 DEF NoPage
    <3> HIDE DEF IsLast
    <3> QED
      BY <3>2
  <2>2. CASE T # {}
    <3>1. Max(T) \in T /\ \A y \in T : Max(T) >= y
      <4>1. T \in SUBSET (1 .. n)
        OBVIOUS
      <4> HIDE DEF T, n
      <4> QED
        BY <1>1, <2>2, <4>1, MaxOfIndexes
    <3>2. PICK p \in 1 .. n : p = Max(T) /\ fs[p] <= key /\ \A y \in T : p >= y
      BY <3>1
    <3>3. ASSUME NEW q \in p + 1 .. n
          PROVE  key < fs[q]
      <4>1. q \in 1 .. n /\ ~(p >= q)
        BY <1>1, <3>2
      <4> QED
        BY <1>1, <3>2, <4>1
    <3>4. IsLast(p) /\ p \in 0 .. n
      BY <1>1, <3>2, <3>3
    <3> HIDE DEF IsLast
    <3> QED
      BY <3>4
  <2> QED
    BY <2>1, <2>2
<1> DEFINE x == PageOf(fs, key)
<1>3. x \in 0 .. n /\ IsLast(x)
  <2>1. x = CHOOSE p \in 0 .. n : IsLast(p)
    BY DEF PageOf
  <2> HIDE DEF x, IsLast
  <2> QED
    BY <1>2, <2>1
<1> QED
  BY <1>3

(* A lookup that read nothing, or failed, or read one page. *)
LEMMA SearchIs ==
  ASSUME NEW s, NEW records, NEW key
  PROVE  /\ Search(s, records, key).scratch = s
         /\ Search(s, records, key).outcome \in {"hit", "miss", "error"}
         /\ Search(s, records, key).outcome = "hit" =>
              /\ Search(s, records, key).rule = records[LowerBound(records, key)]
              /\ Search(s, records, key).rule.merged \in Token
<1> DEFINE i == LowerBound(records, key)
           t == Search(s, records, key)
<1> HIDE DEF i
<1>1. \/ t = Miss(s)
      \/ t = Error(s)
      \/ t = Hit(s, records[i]) /\ records[i].merged \in Token
  BY DEF Search, i, Refuses
<1>2. Miss(s).scratch = s /\ Miss(s).outcome = "miss"
  BY DEF Miss
<1>3. Error(s).scratch = s /\ Error(s).outcome = "error"
  BY DEF Error
<1>4. /\ Hit(s, records[i]).scratch = s /\ Hit(s, records[i]).outcome = "hit"
      /\ Hit(s, records[i]).rule = records[i]
  BY DEF Hit
<1> HIDE DEF t
<1>5. t.scratch = s /\ t.outcome \in {"hit", "miss", "error"}
  BY <1>1, <1>2, <1>3, <1>4
<1>6. t.outcome = "hit" => t.rule = records[i] /\ t.rule.merged \in Token
  BY <1>1, <1>2, <1>3, <1>4
<1> QED
  BY <1>5, <1>6 DEF t, i

(* A slot that is read into promises nothing; it is claimed for a page that *)
(* passed the checks.                                                       *)
LEMMA ReadPageChecked ==
  ASSUME NEW f, NEW fs, NEW s, Scratches(s, fs), NEW p \in DOMAIN fs
  PROVE  /\ Scratches(ReadInto(s, f[p]), fs)
         /\ ReadInto(s, f[p]).slots[s.next + 1].bytes = f[p]
         /\ Sound(f[p], fs[p]) => Scratches(Claim(ReadInto(s, f[p]), s.next + 1, p), fs)
<1> DEFINE turn    == s.next + 1
           read    == ReadInto(s, f[p])
           claimed == Claim(read, turn, p)
           new     == [page |-> NoPage, bytes |-> f[p]]
<1>1. s.next \in 0 .. Slots - 1 /\ Slots \in Nat \ {0} /\ DOMAIN s.slots = 1 .. Slots
  BY IndexAssumption DEF Scratches
<1>2. /\ read.slots = [s.slots EXCEPT ![turn] = new]
      /\ read.next = (s.next + 1) % Slots
  BY DEF ReadInto
<1>3. read.next \in 0 .. Slots - 1
  <2>1. PICK m \in Nat : m = s.next + 1
    BY <1>1
  <2>2. m % Slots \in 0 .. Slots - 1
    BY <1>1, Quotient
  <2> HIDE DEF read
  <2> QED
    BY <1>2, <2>1, <2>2
<1>4. /\ claimed.slots = [read.slots EXCEPT ![turn] = [page |-> p, bytes |-> read.slots[turn].bytes]]
      /\ claimed.next = read.next
  <2> HIDE DEF read
  <2> QED
    BY DEF Claim
<1>5. turn \in 1 .. Slots
  BY <1>1
<1> HIDE DEF read, claimed, turn
<1>6. /\ DOMAIN read.slots = 1 .. Slots
      /\ read.slots[turn] = new
      /\ \A k \in 1 .. Slots : k # turn => read.slots[k] = s.slots[k]
  BY <1>1, <1>2, <1>5
<1>7. read.slots[turn].page = NoPage /\ read.slots[turn].bytes = f[p]
  BY <1>6
<1>8. /\ DOMAIN claimed.slots = 1 .. Slots
      /\ claimed.slots[turn] = [page |-> p, bytes |-> read.slots[turn].bytes]
      /\ \A k \in 1 .. Slots : k # turn => claimed.slots[k] = s.slots[k]
  <2> HIDE DEF new
  <2> QED
    BY <1>4, <1>5, <1>6
<1>9. claimed.slots[turn].page = p /\ claimed.slots[turn].bytes = f[p]
  BY <1>7, <1>8
<1>10. \A k \in 1 .. Slots : s.slots[k].page # NoPage =>
         s.slots[k].page \in DOMAIN fs /\ Sound(s.slots[k].bytes, fs[s.slots[k].page])
  BY DEF Scratches
<1>11. Scratches(read, fs)
  BY <1>3, <1>6, <1>7, <1>10 DEF Scratches
<1>12. Sound(f[p], fs[p]) => Scratches(claimed, fs)
  BY <1>3, <1>4, <1>8, <1>9, <1>10 DEF Scratches
<1> QED
  BY <1>7, <1>11, <1>12 DEF read, claimed, turn

(* A lookup keeps what the slots promise, and no rule it answers with      *)
(* leaves the vocabulary, whatever the file holds.                         *)
LEMMA FindChecked ==
  ASSUME NEW f, NEW fs \in Seq(Int), NEW s, Scratches(s, fs), NEW key \in Int
  PROVE  /\ Scratches(Find(f, fs, s, key).scratch, fs)
         /\ Find(f, fs, s, key).outcome = "hit" => Find(f, fs, s, key).rule.merged \in Token
<1> DEFINE p == PageOf(fs, key)
           cached == Holding(s, p)
           read == ReadInto(s, f[p])
           claimed == Claim(read, s.next + 1, p)
           slot == s.slots[CHOOSE k \in cached : TRUE].bytes.records
           t == Find(f, fs, s, key)
<1>1. p \in 0 .. Len(fs)
  BY PageOfIs
<1>2. \/ t = Miss(s)
      \/ t = Search(s, slot, key)
      \/ p # 0 /\ t = Error(read)
      \/ /\ p # 0 /\ Sound(read.slots[s.next + 1].bytes, fs[p])
         /\ t = Search(claimed, claimed.slots[s.next + 1].bytes.records, key)
  BY DEF Find, NoPage
<1> HIDE DEF t, slot
<1>3. p # 0 => /\ Scratches(read, fs) /\ read.slots[s.next + 1].bytes = f[p]
               /\ Sound(f[p], fs[p]) => Scratches(claimed, fs)
  <2>1. ASSUME NEW q \in DOMAIN fs
        PROVE  /\ Scratches(ReadInto(s, f[q]), fs)
               /\ ReadInto(s, f[q]).slots[s.next + 1].bytes = f[q]
               /\ Sound(f[q], fs[q]) => Scratches(Claim(ReadInto(s, f[q]), s.next + 1, q), fs)
    BY ReadPageChecked
  <2>2. p # 0 => p \in DOMAIN fs
    BY <1>1
  <2> HIDE DEF p
  <2> QED
    BY <2>1, <2>2
<1> DEFINE found == claimed.slots[s.next + 1].bytes.records
<1> HIDE DEF p, read, claimed, found
<1>4. CASE t = Miss(s)
  <2>1. t.scratch = s /\ t.outcome = "miss"
    BY <1>4 DEF Miss
  <2> QED
    BY <2>1 DEF t
<1>5. CASE t = Search(s, slot, key)
  <2>1. t.scratch = s /\ (t.outcome = "hit" => t.rule.merged \in Token)
    BY <1>5, SearchIs
  <2> QED
    BY <2>1 DEF t
<1>6. CASE p # 0 /\ t = Error(read)
  <2>1. t.scratch = read /\ t.outcome = "error"
    BY <1>6 DEF Error
  <2> QED
    BY <1>3, <1>6, <2>1 DEF t
<1>7. CASE p # 0 /\ Sound(read.slots[s.next + 1].bytes, fs[p]) /\ t = Search(claimed, found, key)
  <2>1. t.scratch = claimed /\ (t.outcome = "hit" => t.rule.merged \in Token)
    BY <1>7, SearchIs
  <2>2. Scratches(claimed, fs)
    BY <1>3, <1>7
  <2> QED
    BY <2>1, <2>2 DEF t
<1> QED
  BY <1>2, <1>4, <1>5, <1>6, <1>7 DEF found

-----------------------------------------------------------------------------
(* Offers. *)

\* What may be offered of a list: no pair, or two symbols that have tokens.
Pairs(s, pairs) ==
  /\ pairs \in Seq(Nat \X Nat)
  /\ \A k \in DOMAIN pairs :
       LET l == pairs[k][1]
           r == pairs[k][2]
       IN  l # None /\ r # None => /\ l \in DOMAIN s /\ r \in DOMAIN s
                                   /\ s[l].id \in Token /\ s[r].id \in Token

NothingOffered == [scratch |-> scratch, found |-> {}, throws |-> FALSE]

\* The offers of the first pairs, one after the other.
InTurn(u, s, pairs, n) ==
  /\ u[0] = NothingOffered
  /\ \A k \in 1 .. n : u[k] = Offer(s, u[k - 1], pairs[k][1], pairs[k][2])

(* The recursion of Offers. *)
LEMMA OffersInTurn ==
  ASSUME NEW s, NEW pairs, Len(pairs) \in Nat
  PROVE  \E u : InTurn(u, s, pairs, Len(pairs)) /\ Offers(s, pairs) = u[Len(pairs)]
<1> DEFINE n == Len(pairs)
           Step(k, o) == Offer(s, o, pairs[k][1], pairs[k][2])
           A == {k \in 0 .. n : \E u : DOMAIN u = 0 .. k /\ InTurn(u, s, pairs, k)}
<1> HIDE DEF n
<1>0. n \in Nat
  BY DEF n
<1>1. 0 \in A
  <2> DEFINE u == [i \in 0 .. 0 |-> NothingOffered]
  <2>1. DOMAIN u = 0 .. 0 /\ InTurn(u, s, pairs, 0)
    BY DEF InTurn
  <2>2. 0 \in 0 .. n
    BY <1>0
  <2> HIDE DEF u
  <2> QED
    BY <2>1, <2>2
<1>2. ASSUME NEW k \in 0 .. n - 1, k \in A
      PROVE  k + 1 \in A
  <2>1. PICK u : DOMAIN u = 0 .. k /\ InTurn(u, s, pairs, k)
    BY <1>2
  <2> DEFINE v == [i \in 0 .. k + 1 |-> IF i = k + 1 THEN Step(i, u[i - 1]) ELSE u[i]]
  <2>2. k \in Nat /\ k + 1 \in 0 .. n /\ 0 \in 0 .. k + 1 /\ 0 # k + 1
    BY <1>0
  <2>3. v[0] = NothingOffered
    BY <2>1, <2>2 DEF InTurn
  <2>4. ASSUME NEW i \in 1 .. k + 1
        PROVE  v[i] = Step(i, v[i - 1])
    <3>1. i \in 0 .. k + 1 /\ i - 1 \in 0 .. k + 1 /\ i - 1 # k + 1
      BY <2>2
    <3>2. v[i - 1] = u[i - 1]
      BY <3>1
    <3>3. CASE i = k + 1
      BY <3>1, <3>2, <3>3
    <3>4. CASE i # k + 1
      <4>1. i \in 1 .. k
        BY <2>2, <3>4
      <4>2. u[i] = Step(i, u[i - 1])
        BY <2>1, <4>1 DEF InTurn
      <4>3. v[i] = u[i]
        BY <3>1, <3>4
      <4> QED
        BY <3>2, <4>2, <4>3
    <3> QED
      BY <3>3, <3>4
  <2>5. DOMAIN v = 0 .. k + 1
    OBVIOUS
  <2> HIDE DEF v
  <2>6. InTurn(v, s, pairs, k + 1)
    BY <2>3, <2>4 DEF InTurn
  <2> QED
    BY <2>2, <2>5, <2>6
<1>3. n \in A
  <2>1. \A k \in 0 .. n - 1 : k \in A => k + 1 \in A
    BY <1>2
  <2> HIDE DEF A
  <2>2. 0 .. n \subseteq A
    BY <1>0, <1>1, <2>1, Induction
  <2> QED
    BY <1>0, <2>2
<1>4. PICK u : DOMAIN u = 0 .. n /\ InTurn(u, s, pairs, n)
  BY <1>3
<1> DEFINE w == [i \in 0 .. n |-> u[i]]
           Equation(g) == g = [i \in 0 .. n |-> IF i = 0 THEN NothingOffered ELSE Step(i, g[i - 1])]
           h == CHOOSE g : Equation(g)
<1>5. Equation(w)
  <2>1. ASSUME NEW i \in 0 .. n
        PROVE  w[i] = IF i = 0 THEN NothingOffered ELSE Step(i, w[i - 1])
    <3>1. CASE i = 0
      BY <1>4, <3>1 DEF InTurn
    <3>2. CASE i # 0
      <4>1. i \in 1 .. n /\ i - 1 \in 0 .. n
        BY <1>0, <3>2
      <4>2. u[i] = Step(i, u[i - 1])
        BY <1>4, <4>1 DEF InTurn
      <4> QED
        BY <3>2, <4>1, <4>2
    <3> QED
      BY <3>1, <3>2
  <2> HIDE DEF Step
  <2> QED
    BY <2>1
<1>6. Equation(h)
  <2> HIDE DEF w, Equation
  <2> QED
    BY <1>5
<1>7. Offers(s, pairs) = h[n]
  BY DEF Offers, NothingOffered, n
<1> HIDE DEF h
<1>8. InTurn(h, s, pairs, n)
  <2>1. h[0] = NothingOffered
    <3>1. 0 \in 0 .. n
      BY <1>0
    <3> HIDE DEF Step
    <3> QED
      BY <1>6, <3>1
  <2>2. ASSUME NEW k \in 1 .. n
        PROVE  h[k] = Step(k, h[k - 1])
    <3>1. k \in 0 .. n /\ k # 0
      BY <1>0
    <3> HIDE DEF Step
    <3> QED
      BY <1>6, <3>1
  <2> QED
    BY <2>1, <2>2 DEF InTurn
<1> QED
  BY <1>7, <1>8 DEF n

(* Offers keep what the slots promise and propose tokens only. *)
LEMMA OffersChecked ==
  ASSUME fences \in Seq(Int), Scratches(scratch, fences), NEW s, NEW pairs, Pairs(s, pairs)
  PROVE  /\ Scratches(Offers(s, pairs).scratch, fences)
         /\ Proposed(Offers(s, pairs).found, s)
<1> DEFINE n == Len(pairs)
           Fine(o) == Scratches(o.scratch, fences) /\ Proposed(o.found, s)
<1>0. n \in Nat /\ \A k \in 1 .. n : k \in DOMAIN pairs /\ pairs[k] \in Nat \X Nat
  BY DEF Pairs
<1>1. PICK u : InTurn(u, s, pairs, n) /\ Offers(s, pairs) = u[n]
  BY <1>0, OffersInTurn
<1> HIDE DEF n
<1>2. Fine(u[0])
  <2>1. u[0] = NothingOffered
    BY <1>1 DEF InTurn
  <2>2. u[0].scratch = scratch /\ u[0].found = {}
    BY <2>1 DEF NothingOffered
  <2> QED
    BY <2>2 DEF Proposed
<1>3. ASSUME NEW k \in 1 .. n, Fine(u[k - 1])
      PROVE  Fine(u[k])
  <2> DEFINE o == u[k - 1]
             l == pairs[k][1]
             r == pairs[k][2]
             f == Find(file, fences, o.scratch, PairKey(s[l].id, s[r].id))
             rest == o.throws \/ l = None \/ r = None
             next == [scratch |-> f.scratch,
                      found   |-> o.found \cup
                                    IF f.outcome = "hit" THEN {Candidate(s, l, r, f.rule)} ELSE {},
                      throws  |-> f.outcome = "error"]
  <2>1. u[k] = IF rest THEN o ELSE next
    <3>1. u[k] = Offer(s, o, l, r)
      BY <1>1 DEF InTurn
    <3> HIDE DEF o, l, r
    <3> QED
      BY <3>1 DEF Offer
  <2>2. CASE rest
    BY <1>3, <2>1, <2>2
  <2>3. CASE ~rest
    <3>1. l \in DOMAIN s /\ r \in DOMAIN s /\ s[l].id \in Token /\ s[r].id \in Token
      BY <1>0, <2>3 DEF Pairs
    <3>2. PairKey(s[l].id, s[r].id) \in Int
      BY <3>1, KeyOfPair
    <3>3. Scratches(f.scratch, fences) /\ (f.outcome = "hit" => f.rule.merged \in Token)
      <4>1. Scratches(o.scratch, fences)
        BY <1>3
      <4> HIDE DEF o, l, r
      <4> QED
        BY <3>2, <4>1, FindChecked
    <3> HIDE DEF f, l, r, o
    <3>4. u[k] = next
      BY <2>1, <2>3
    <3>5. /\ u[k].scratch = f.scratch
          /\ u[k].found \subseteq
               o.found \cup {c \in {Candidate(s, l, r, f.rule)} : f.outcome = "hit"}
      BY <3>4
    <3>6. ASSUME f.outcome = "hit", NEW c, c = Candidate(s, l, r, f.rule)
          PROVE  /\ c.left \in DOMAIN s /\ c.right \in DOMAIN s
                 /\ c.lid \in Token /\ c.rid \in Token /\ c.merged \in Token
      BY <3>1, <3>3, <3>6 DEF Candidate
    <3>7. Proposed(o.found, s)
      BY <1>3 DEF o
    <3>8. Proposed(u[k].found, s)
      BY <3>5, <3>6, <3>7 DEF Proposed
    <3> QED
      BY <3>3, <3>5, <3>8
  <2> QED
    BY <2>2, <2>3
<1> DEFINE A == {k \in 0 .. n : Fine(u[k])}
<1>4. n \in A
  <2>1. 0 \in A
    BY <1>0, <1>2
  <2>2. ASSUME NEW k \in 0 .. n - 1, k \in A
        PROVE  k + 1 \in A
    <3>1. k + 1 \in 1 .. n /\ k + 1 - 1 = k /\ k + 1 \in 0 .. n
      BY <1>0
    <3>2. Fine(u[k + 1 - 1])
      BY <2>2, <3>1
    <3> HIDE DEF Fine
    <3>3. Fine(u[k + 1])
      BY <1>3, <3>1, <3>2
    <3> QED
      BY <3>1, <3>3
  <2> HIDE DEF A
  <2>3. 0 .. n \subseteq A
    BY <1>0, <2>1, <2>2, Induction
  <2> QED
    BY <1>0, <2>3
<1> QED
  BY <1>1, <1>4

-----------------------------------------------------------------------------
(* The list of symbols. *)

\* What is left of a path when its k-th symbol is absorbed.
Without(p, k) == [i \in 1 .. Len(p) - 1 |-> IF i < k THEN p[i] ELSE p[i + 1]]

(* A list and its path have lengths, and a path names symbols. *)
LEMMA PathTyped ==
  ASSUME NEW s \in SymbolLists, NEW p, Path(p, s)
  PROVE  /\ Len(s) \in Nat /\ DOMAIN s = 1 .. Len(s)
         /\ Len(p) \in Nat /\ DOMAIN p = 1 .. Len(p) /\ p \in [1 .. Len(p) -> 1 .. Len(s)]
         /\ \A k \in 1 .. Len(p) : p[k] \in 1 .. Len(s)
         /\ s \in [1 .. Len(s) -> Symbol]
         /\ \A i \in 1 .. Len(s) : /\ s[i] \in Symbol
                                   /\ s[i].id \in Token \cup {Gone}
                                   /\ s[i].prev \in Nat /\ s[i].next \in Nat
                                   /\ s[i].next = None \/ s[i].next \in i + 1 .. Len(s)
<1>1. s \in Seq(Symbol)
      /\ \A i \in DOMAIN s : s[i].next = None \/ s[i].next \in i + 1 .. Len(s)
  BY DEF SymbolLists
<1>2. Len(s) \in Nat /\ DOMAIN s = 1 .. Len(s)
      /\ s \in [1 .. Len(s) -> Symbol]
  BY <1>1
<1>3. p \in Seq(1 .. Len(s))
  BY <1>2 DEF Path
<1>4. Len(p) \in Nat /\ DOMAIN p = 1 .. Len(p) /\ p \in [1 .. Len(p) -> 1 .. Len(s)]
  BY <1>3
<1>5. \A i \in 1 .. Len(s) : s[i] \in Symbol
  BY <1>2
<1>6. \A i \in 1 .. Len(s) :
        s[i].id \in Token \cup {Gone} /\ s[i].prev \in Nat /\ s[i].next \in Nat
  BY <1>5 DEF Symbol
<1> QED
  BY <1>1, <1>2, <1>4, <1>5, <1>6

(* Live neighbours name each other. *)
LEMMA LinkedBothWays ==
  ASSUME NEW s \in SymbolLists, NEW p, Path(p, s), NEW i \in DOMAIN s, s[i].id # Gone
  PROVE  /\ s[i].next # None =>
              s[i].next \in DOMAIN s /\ s[s[i].next].id # Gone /\ s[s[i].next].prev = i
         /\ s[i].prev # None =>
              s[i].prev \in DOMAIN s /\ s[s[i].prev].id # Gone /\ s[s[i].prev].next = i
<1>1. /\ Len(p) \in Nat /\ DOMAIN p = 1 .. Len(p) /\ DOMAIN s = 1 .. Len(s)
      /\ \A k \in 1 .. Len(p) : p[k] \in 1 .. Len(s)
  BY PathTyped
<1>2. /\ \A k \in 1 .. Len(p) :
           /\ s[p[k]].id # Gone
           /\ s[p[k]].prev = IF k = 1 THEN None ELSE p[k - 1]
           /\ s[p[k]].next = IF k = Len(p) THEN None ELSE p[k + 1]
      /\ \A j \in DOMAIN s : s[j].id # Gone => \E k \in 1 .. Len(p) : p[k] = j
  BY <1>1 DEF Path
<1>3. PICK k \in 1 .. Len(p) : p[k] = i
  BY <1>2
<1>4. \A n \in Nat : \A j \in 1 .. n : /\ j # n => j + 1 \in 1 .. n /\ j + 1 # 1 /\ (j + 1) - 1 = j
                                       /\ j # 1 => j - 1 \in 1 .. n /\ j - 1 # n /\ (j - 1) + 1 = j
  OBVIOUS
<1>5. /\ k # Len(p) => k + 1 \in 1 .. Len(p) /\ k + 1 # 1 /\ (k + 1) - 1 = k
      /\ k # 1 => k - 1 \in 1 .. Len(p) /\ k - 1 # Len(p) /\ (k - 1) + 1 = k
  BY <1>1, <1>4
<1>6. s[i].prev # None =>
        s[i].prev \in DOMAIN s /\ s[s[i].prev].id # Gone /\ s[s[i].prev].next = i
  <2>1. ASSUME k # 1
        PROVE  s[p[k - 1]].next = p[k] /\ p[k - 1] \in DOMAIN s /\ s[p[k - 1]].id # Gone
    <3>1. k - 1 \in 1 .. Len(p) /\ k - 1 # Len(p) /\ (k - 1) + 1 = k
      BY <2>1, <1>5
    <3>2. p[k - 1] \in DOMAIN s /\ s[p[k - 1]].id # Gone
      BY <3>1, <1>1, <1>2
    <3>3. s[p[k - 1]].next = p[(k - 1) + 1]
      BY <3>1, <1>2
    <3> QED
      BY <3>1, <3>2, <3>3
  <2>2. s[i].prev = IF k = 1 THEN None ELSE p[k - 1]
    BY <1>2, <1>3
  <2> QED
    BY <1>3, <2>1, <2>2
<1>7. s[i].next # None =>
        s[i].next \in DOMAIN s /\ s[s[i].next].id # Gone /\ s[s[i].next].prev = i
  <2>1. k # Len(p) => s[p[k + 1]].prev = p[k] /\ p[k + 1] \in DOMAIN s /\ s[p[k + 1]].id # Gone
    BY <1>1, <1>2, <1>5
  <2>2. s[i].next = IF k = Len(p) THEN None ELSE p[k + 1]
    BY <1>2, <1>3
  <2> QED
    BY <1>3, <2>1, <2>2
<1> QED
  BY <1>6, <1>7

(* A character and a byte have the first id of their piece. *)
LEMMA SymbolIds ==
  ASSUME NEW c, Known(<<c>>)
  PROVE  SymbolId(c) = Id(<<c>>)
<1>1. Id(<<c>>) \in Token /\ Vocab[Id(<<c>>)] = <<c>>
  BY Naming
<1>2. CASE c \in Bytes
  <2>1. \A i \in Token : Vocab[i] = <<c>> => i = Id(<<c>>)
    BY <1>1, <1>2, ByteAssumption
  <2>2. DOMAIN Vocab = 1 .. Len(Vocab) /\ Len(Vocab) \in Nat
    BY VocabAssumption DEF IsSequence
  <2>3. \A j \in Id(<<c>>) + 1 .. Len(Vocab) : Vocab[j] # <<c>>
    BY <1>1, <2>1, <2>2 DEF Token
  <2>4. ByteId(c) = Id(<<c>>)
    BY <1>1, <2>1, <2>3 DEF ByteId
  <2> QED
    BY <1>2, <2>4 DEF SymbolId
<1> QED
  BY <1>2 DEF SymbolId

(* The characters of a text are linked in their order. *)
LEMMA ScannedList ==
  ASSUME IsSequence(text), \A k \in DOMAIN text : Known(<<text[k]>>), text # <<>>
  PROVE  /\ Symbols \in SymbolLists /\ DOMAIN Symbols = DOMAIN text /\ Symbols # <<>>
         /\ Path([i \in DOMAIN text |-> i], Symbols)
         /\ \A i \in DOMAIN text : Symbols[i].id = Id(<<text[i]>>) /\ Symbols[i].id \in Token
<1> DEFINE n == Len(text)
           p == [i \in 1 .. n |-> i]
<1>1. n \in Nat /\ n > 0 /\ DOMAIN text = 1 .. n
  BY DEF IsSequence
<1> HIDE DEF n
<1>2. \A i \in 1 .. n : Id(<<text[i]>>) \in Token
  BY <1>1, Naming
<1>3. Symbols = [i \in 1 .. n |->
        [id |-> Id(<<text[i]>>), prev |-> i - 1, next |-> IF i = n THEN None ELSE i + 1]]
  BY <1>1, SymbolIds DEF Symbols, n
<1>4. \A i \in 1 .. n : /\ Symbols[i].id = Id(<<text[i]>>) /\ Symbols[i].id \in Token
                        /\ Symbols[i].prev = i - 1
                        /\ Symbols[i].next = IF i = n THEN None ELSE i + 1
                        /\ Symbols[i] \in Symbol
  BY <1>1, <1>2, <1>3 DEF None, Symbol
<1>5. Symbols \in [1 .. n -> Symbol]
  BY <1>3, <1>4
<1>6. /\ Symbols \in Seq(Symbol)
      /\ Len(Symbols) = n /\ DOMAIN Symbols = 1 .. n
  BY <1>1, <1>5
<1>7. Symbols \in SymbolLists
  <2>1. ASSUME NEW i \in 1 .. n
        PROVE  Symbols[i].next = None \/ Symbols[i].next \in i + 1 .. n
    <3>1. Symbols[i].next = IF i = n THEN None ELSE i + 1
      BY <1>4
    <3> QED
      BY <1>1, <3>1
  <2> QED
    BY <1>6, <2>1 DEF SymbolLists
<1>8. p \in Seq(1 .. n) /\ Len(p) = n /\ DOMAIN p = 1 .. n /\ \A k \in 1 .. n : p[k] = k
  BY <1>1
<1> HIDE DEF p
<1>9. Path(p, Symbols)
  <2>1. p # <<>> /\ p[1] = 1
    BY <1>1, <1>8
  <2>2. \A j, k \in 1 .. n : j < k => p[j] < p[k]
    BY <1>8
  <2>3. ASSUME NEW k \in 1 .. n
        PROVE  /\ Symbols[p[k]].id # Gone
               /\ Symbols[p[k]].prev = IF k = 1 THEN None ELSE p[k - 1]
               /\ Symbols[p[k]].next = IF k = n THEN None ELSE p[k + 1]
    <3>1. p[k] = k
      BY <1>8
    <3>2. Symbols[k].id # Gone
      <4>1. Symbols[k].id \in Token
        BY <1>4
      <4> QED
        BY <4>1, Tokens DEF Gone
    <3>3. Symbols[k].prev = IF k = 1 THEN None ELSE p[k - 1]
      <4>1. k # 1 => p[k - 1] = k - 1
        BY <1>1, <1>8
      <4>2. Symbols[k].prev = k - 1
        BY <1>4
      <4> QED
        BY <4>1, <4>2 DEF None
    <3>4. Symbols[k].next = IF k = n THEN None ELSE p[k + 1]
      <4>1. k # n => p[k + 1] = k + 1
        BY <1>1, <1>8
      <4>2. Symbols[k].next = IF k = n THEN None ELSE k + 1
        BY <1>4
      <4> QED
        BY <4>1, <4>2
    <3> QED
      BY <3>1, <3>2, <3>3, <3>4
  <2> QED
    BY <1>6, <1>8, <2>1, <2>2, <2>3 DEF Path
<1>10. Symbols # <<>>
  BY <1>1, <1>6
<1> QED
  BY <1>1, <1>4, <1>6, <1>7, <1>9, <1>10 DEF p

(* A candidate that is still valid names neighbours. *)
LEMMA ValidIsAdjacent ==
  ASSUME syms \in SymbolLists, NEW p, Path(p, syms), NEW c, Valid(c),
         c.left \in DOMAIN syms, c.right \in DOMAIN syms, c.lid \in Token
  PROVE  \E k \in 1 .. Len(p) - 1 : c.left = p[k] /\ c.right = p[k + 1]
<1>1. syms[c.left].id # Gone /\ syms[c.left].next = c.right /\ c.right # None
  <2>1. c.lid # Gone
    BY Tokens DEF Gone
  <2>2. c.right # None
    BY PathTyped DEF None
  <2> QED
    BY <2>1, <2>2 DEF Valid
<1>2. PICK k \in 1 .. Len(p) : p[k] = c.left
  BY <1>1, PathTyped DEF Path
<1>3. syms[p[k]].next = IF k = Len(p) THEN None ELSE p[k + 1]
  BY PathTyped DEF Path
<1>4. k # Len(p) /\ Len(p) \in Nat
  BY <1>1, <1>2, <1>3, PathTyped
<1>5. k \in 1 .. Len(p) - 1
  BY <1>4
<1> QED
  BY <1>1, <1>2, <1>3, <1>4, <1>5

\* The links of a path's k-th symbol.
LinkedAt(s, p, k) ==
  /\ s[p[k]].prev = IF k = 1 THEN None ELSE p[k - 1]
  /\ s[p[k]].next = IF k = Len(p) THEN None ELSE p[k + 1]

(* A merge unlinks the right symbol: the path is the one without it, and   *)
(* doubly linked again.                                                    *)
LEMMA MergedList ==
  ASSUME syms \in SymbolLists, NEW p, Path(p, syms), NEW k \in 1 .. Len(p) - 1,
         NEW c, c.left = p[k], c.right = p[k + 1], c.merged \in Token
  PROVE  /\ Merged(c) \in SymbolLists /\ DOMAIN Merged(c) = DOMAIN syms
         /\ Path(Without(p, k + 1), Merged(c))
         /\ Merged(c)[c.left].id = c.merged
         /\ \A i \in 1 .. Len(p) : i # k /\ i # k + 1 => Merged(c)[p[i]].id = syms[p[i]].id
<1> DEFINE n == Len(syms)
           m == Len(p)
           t == Merged(c)
           q == Without(p, k + 1)
           after == syms[c.right].next
           Left  == [syms[c.left] EXCEPT !.id = c.merged, !.next = after]
           Right == [syms[c.right] EXCEPT !.id = Gone]
           Behind(i) == [syms[i] EXCEPT !.prev = c.left]
<1>1. /\ n \in Nat /\ DOMAIN syms = 1 .. n
      /\ m \in Nat /\ DOMAIN p = 1 .. m
      /\ \A i \in 1 .. m : p[i] \in 1 .. n
      /\ \A i \in 1 .. n : /\ syms[i] \in Symbol
                           /\ syms[i].prev \in Nat /\ syms[i].next \in Nat
                           /\ syms[i].next = None \/ syms[i].next \in i + 1 .. n
  BY PathTyped
<1>2. /\ \A i, j \in 1 .. m : i < j => p[i] < p[j]
      /\ p # <<>> => p[1] = 1
      /\ \A i \in 1 .. m : syms[p[i]].id # Gone /\ LinkedAt(syms, p, i)
      /\ \A i \in 1 .. n : syms[i].id # Gone => \E j \in 1 .. m : p[j] = i
  <2>1. syms # <<>>
    BY <1>1
  <2> QED
    BY <1>1, <2>1 DEF Path, LinkedAt
<1>3. \A i, j \in 1 .. m : p[i] = p[j] => i = j
  BY <1>1, <1>2
<1>4. /\ k \in 1 .. m /\ k + 1 \in 1 .. m
      /\ c.left \in 1 .. n /\ c.right \in 1 .. n /\ c.left < c.right
  BY <1>1, <1>2
<1>5. after = (IF k + 1 = m THEN None ELSE p[k + 2]) /\ (after = None \/ after \in c.right + 1 .. n)
  <2>1. LinkedAt(syms, p, k + 1)
    BY <1>2, <1>4
  <2>2. k + 1 + 1 = k + 2
    BY <1>1
  <2>3. after = IF k + 1 = m THEN None ELSE p[k + 2]
    BY <2>1, <2>2 DEF LinkedAt
  <2>4. after = None \/ after \in c.right + 1 .. n
    BY <1>1, <1>4
  <2> QED
    BY <2>3, <2>4
<1>6. t = [i \in 1 .. n |-> IF i = c.left THEN Left
                           ELSE IF i = c.right THEN Right
                           ELSE IF i = after THEN Behind(i)
                           ELSE syms[i]]
  BY <1>1 DEF Merged
<1>7. /\ Left \in Symbol /\ Left.id = c.merged /\ Left.prev = syms[c.left].prev /\ Left.next = after
      /\ Right \in Symbol /\ Right.id = Gone /\ Right.prev = syms[c.right].prev /\ Right.next = after
      /\ \A i \in 1 .. n : /\ Behind(i) \in Symbol /\ Behind(i).id = syms[i].id
                           /\ Behind(i).prev = c.left /\ Behind(i).next = syms[i].next
  <2>1. syms[c.left] \in Symbol /\ syms[c.right] \in Symbol /\ after \in Nat
    BY <1>1, <1>4
  <2>2. /\ Left \in Symbol /\ Left.id = c.merged /\ Left.prev = syms[c.left].prev /\ Left.next = after
    <3> HIDE DEF after
    <3> QED
      BY <2>1 DEF Symbol
  <2>3. /\ Right \in Symbol /\ Right.id = Gone /\ Right.prev = syms[c.right].prev /\ Right.next = after
    BY <2>1 DEF Symbol
  <2>4. ASSUME NEW i \in 1 .. n
        PROVE  /\ Behind(i) \in Symbol /\ Behind(i).id = syms[i].id
               /\ Behind(i).prev = c.left /\ Behind(i).next = syms[i].next
    <3>1. syms[i] \in Symbol /\ c.left \in Nat
      BY <1>1, <1>4
    <3> QED
      BY <3>1 DEF Symbol
  <2> QED
    BY <2>2, <2>3, <2>4
<1> HIDE DEF t, after, Left, Right, Behind
<1>8. t \in [1 .. n -> Symbol]
  <2>1. \A i \in 1 .. n : (IF i = c.left THEN Left
                          ELSE IF i = c.right THEN Right
                          ELSE IF i = after THEN Behind(i)
                          ELSE syms[i]) \in Symbol
    BY <1>1, <1>7
  <2> QED
    BY <1>6, <2>1
<1>9. t \in Seq(Symbol) /\ Len(t) = n /\ DOMAIN t = 1 .. n
  <2> HIDE DEF n
  <2> QED
    BY <1>1, <1>8
<1>10. /\ t[c.left] = Left /\ t[c.right] = Right
       /\ after # None => t[after] = Behind(after) /\ after \in 1 .. n
       /\ \A i \in 1 .. n : i # c.left /\ i # c.right /\ i # after => t[i] = syms[i]
       /\ \A i \in 1 .. n :
            i # c.left /\ i # c.right => t[i].id = syms[i].id /\ t[i].next = syms[i].next
  <2>1. after # None => after \in 1 .. n /\ after # c.left /\ after # c.right
    <3>1. PICK l \in 1 .. n : l = c.left
      BY <1>4
    <3>2. PICK r \in 1 .. n : r = c.right
      BY <1>4
    <3>3. n \in Nat /\ l < r /\ (after = None \/ after \in r + 1 .. n)
      BY <1>1, <1>4, <1>5, <3>1, <3>2
    <3>4. after # None => after \in 1 .. n /\ after # l /\ after # r
      BY <3>3
    <3> QED
      BY <3>1, <3>2, <3>4
  <2>2. c.left \in 1 .. n /\ c.right \in 1 .. n /\ c.left # c.right
    <3>1. PICK l \in 1 .. n, r \in 1 .. n : l = c.left /\ r = c.right /\ l < r
      BY <1>4
    <3> QED
      BY <1>1, <3>1
  <2>3. /\ t[c.left] = Left /\ t[c.right] = Right
        /\ after # None => t[after] = Behind(after) /\ after \in 1 .. n
        /\ \A i \in 1 .. n : i # c.left /\ i # c.right /\ i # after => t[i] = syms[i]
    BY <1>6, <2>1, <2>2
  <2>4. ASSUME NEW i \in 1 .. n, i # c.left, i # c.right
        PROVE  t[i].id = syms[i].id /\ t[i].next = syms[i].next
    <3>1. CASE i = after
      <4>1. t[i] = Behind(i)
        BY <1>6, <2>4, <3>1
      <4> QED
        BY <1>7, <4>1
    <3>2. CASE i # after
      BY <2>3, <2>4, <3>2
    <3> QED
      BY <3>1, <3>2
  <2> QED
    BY <2>3, <2>4
<1>11. t \in SymbolLists
  <2>1. ASSUME NEW i \in 1 .. n
        PROVE  t[i].next = None \/ t[i].next \in i + 1 .. n
    <3>1. CASE i = c.left
      <4>1. PICK r \in 1 .. n : r = c.right
        BY <1>4
      <4>2. n \in Nat /\ i < r /\ (after = None \/ after \in r + 1 .. n)
        BY <1>1, <1>4, <1>5, <3>1, <4>1
      <4>3. after = None \/ after \in i + 1 .. n
        BY <4>2
      <4> QED
        BY <1>7, <1>10, <3>1, <4>3
    <3>2. CASE i = c.right
      BY <1>5, <1>7, <1>10, <3>2
    <3>3. CASE i # c.left /\ i # c.right
      BY <1>1, <1>10, <3>3
    <3> QED
      BY <3>1, <3>2, <3>3
  <2> QED
    BY <1>9, <2>1 DEF SymbolLists
<1>12. /\ q \in Seq(1 .. n) /\ Len(q) = m - 1 /\ DOMAIN q = 1 .. m - 1
       /\ \A i \in 1 .. k : q[i] = p[i]
       /\ \A i \in k + 1 .. m - 1 : q[i] = p[i + 1]
  <2>1. q = [i \in 1 .. m - 1 |-> IF i < k + 1 THEN p[i] ELSE p[i + 1]]
    BY DEF Without
  <2>2. \A i \in 1 .. m - 1 : i \in 1 .. m /\ i + 1 \in 1 .. m
    BY <1>1
  <2>3. q \in [1 .. m - 1 -> 1 .. n] /\ m - 1 \in Nat
    <3>1. \A i \in 1 .. m - 1 : (IF i < k + 1 THEN p[i] ELSE p[i + 1]) \in 1 .. n
      BY <1>1, <2>2
    <3>2. m - 1 \in Nat
      BY <1>1, <1>4
    <3> QED
      BY <2>1, <3>1, <3>2
  <2>4. \A i \in 1 .. k : q[i] = p[i]
    BY <1>1, <1>4, <2>1
  <2>5. \A i \in k + 1 .. m - 1 : q[i] = p[i + 1]
    BY <1>1, <1>4, <2>1
  <2> HIDE DEF q, m, n
  <2>6. q \in Seq(1 .. n) /\ Len(q) = m - 1 /\ DOMAIN q = 1 .. m - 1
    <3>1. PICK d \in Nat : d = m - 1
      BY <2>3
    <3>2. q \in [1 .. d -> 1 .. n]
      BY <2>3, <3>1
    <3> DEFINE S == 1 .. n
    <3> HIDE DEF S
    <3>3. q \in [1 .. d -> S]
      BY <3>2 DEF S
    <3>4. q \in Seq(S) /\ Len(q) = d /\ DOMAIN q = 1 .. d
      BY <3>3
    <3>5. q \in Seq(1 .. n)
      BY <3>4 DEF S
    <3> QED
      BY <3>1, <3>4, <3>5
  <2> QED
    BY <2>4, <2>5, <2>6
<1> HIDE DEF q, m, n
<1>13. \A i, j \in 1 .. m - 1 : i < j => q[i] < q[j]
  <2>1. SUFFICES ASSUME NEW i \in 1 .. m - 1, NEW j \in 1 .. m - 1, i < j
                 PROVE  q[i] < q[j]
    OBVIOUS
  <2>2. i \in 1 .. m /\ i + 1 \in 1 .. m /\ j \in 1 .. m /\ j + 1 \in 1 .. m
    BY <1>1
  <2>3. CASE j <= k
    BY <1>2, <1>4, <1>12, <2>1, <2>2, <2>3
  <2>4. CASE i <= k /\ k < j
    BY <1>2, <1>4, <1>12, <2>1, <2>2, <2>4
  <2>5. CASE k < i
    BY <1>2, <1>4, <1>12, <2>1, <2>2, <2>5
  <2> QED
    BY <1>4, <2>1, <2>3, <2>4, <2>5
<1>14. \A i \in 1 .. n : t[i].id # Gone => \E j \in 1 .. m - 1 : q[j] = i
  <2>1. SUFFICES ASSUME NEW i \in 1 .. n, t[i].id # Gone
                 PROVE  \E j \in 1 .. m - 1 : q[j] = i
    OBVIOUS
  <2>2. i # c.right
    BY <1>7, <1>10, <2>1
  <2>3. syms[i].id # Gone
    <3>1. CASE i = c.left
      BY <1>2, <1>4, <3>1
    <3>2. CASE i # c.left
      BY <1>10, <2>1, <2>2, <3>2
    <3> QED
      BY <3>1, <3>2
  <2>4. PICK j \in 1 .. m : p[j] = i
    BY <1>2, <2>3
  <2>5. CASE j <= k
    <3>1. k \in 1 .. m - 1 /\ m \in Nat
      BY <1>1, <1>4
    <3>2. j \in 1 .. m - 1 /\ j \in 1 .. k
      BY <2>4, <2>5, <3>1
    <3>3. q[j] = p[j]
      BY <1>12, <3>2
    <3> QED
      BY <2>4, <3>2, <3>3
  <2>6. CASE j > k
    <3>1. j # k + 1
      BY <2>2, <2>4
    <3>2. j - 1 \in k + 1 .. m - 1 /\ j - 1 + 1 = j /\ j - 1 \in 1 .. m - 1
      BY <1>1, <1>4, <2>6, <3>1
    <3>3. q[j - 1] = p[j]
      BY <1>12, <3>2
    <3> QED
      BY <2>4, <3>2, <3>3
  <2> QED
    BY <1>4, <2>5, <2>6
<1>15. \A i \in 1 .. m : i # k /\ i # k + 1 => p[i] # c.left /\ p[i] # c.right
  BY <1>3, <1>4
<1>16. after # None => k + 2 \in 1 .. m /\ k + 1 \in 1 .. m - 1 /\ after = p[k + 2]
  BY <1>1, <1>4, <1>5
<1>17. ASSUME NEW i \in 1 .. m - 1
       PROVE  t[q[i]].id # Gone /\ LinkedAt(t, q, i)
  <2>1. i \in 1 .. m /\ i + 1 \in 1 .. m /\ i \in Nat
    BY <1>1
  <2>2. CASE i < k
    <3>1. /\ q[i] = p[i] /\ q[i + 1] = p[i + 1] /\ (i # 1 => q[i - 1] = p[i - 1])
      BY <1>4, <1>12, <2>1, <2>2
    <3>2. p[i] # c.left /\ p[i] # c.right /\ p[i] # after
      <4>1. p[i] # c.left /\ p[i] # c.right
        BY <1>4, <1>15, <2>1, <2>2
      <4>2. p[i] < c.right
        BY <1>2, <1>4, <2>1, <2>2
      <4> QED
        BY <1>1, <1>4, <1>5, <2>1, <4>1, <4>2 DEF None
    <3>3. t[p[i]] = syms[p[i]]
      BY <1>1, <1>10, <2>1, <3>2
    <3>4. syms[p[i]].id # Gone /\ LinkedAt(syms, p, i)
      BY <1>2, <2>1
    <3>5. i # m /\ i # m - 1
      BY <1>1, <1>4, <2>2
    <3> QED
      BY <1>12, <3>1, <3>3, <3>4, <3>5 DEF LinkedAt, m
  <2>3. CASE i = k
    <3>1. q[k] = p[k] /\ (k # 1 => q[k - 1] = p[k - 1])
      BY <1>4, <1>12
    <3>2. t[q[k]] = Left
      BY <1>10, <3>1
    <3>3. LinkedAt(syms, p, k)
      BY <1>2, <1>4
    <3>4. Left.prev = IF k = 1 THEN None ELSE q[k - 1]
      BY <1>7, <3>1, <3>3 DEF LinkedAt
    <3>5. Left.next = IF k = m - 1 THEN None ELSE q[k + 1]
      <4>1. k # m - 1 => k + 1 \in k + 1 .. m - 1 /\ k + 1 + 1 = k + 2
        BY <1>1, <1>4
      <4>2. k # m - 1 => q[k + 1] = p[k + 2]
        BY <1>12, <4>1
      <4>3. (k = m - 1) <=> (k + 1 = m)
        BY <1>1, <1>4
      <4> QED
        BY <1>5, <1>7, <4>2, <4>3
    <3>6. Left.id # Gone
      BY <1>7, Tokens DEF Gone
    <3> QED
      BY <1>12, <2>3, <3>2, <3>4, <3>5, <3>6 DEF LinkedAt
  <2>4. CASE i = k + 1
    <3>1. /\ q[i] = p[k + 2] /\ k + 2 \in 1 .. m
          /\ k + 1 + 1 = k + 2 /\ k + 2 - 1 = k + 1 /\ k + 1 - 1 = k
          /\ k + 2 # 1 /\ k + 1 # 1 /\ k + 2 + 1 = k + 3
      <4>1. k + 1 \in k + 1 .. m - 1
        BY <1>1, <1>4, <2>1, <2>4
      <4>2. q[k + 1] = p[k + 1 + 1]
        BY <1>12, <4>1
      <4>3. /\ k + 2 \in 1 .. m /\ k + 1 + 1 = k + 2 /\ k + 2 - 1 = k + 1 /\ k + 1 - 1 = k
            /\ k + 2 # 1 /\ k + 1 # 1 /\ k + 2 + 1 = k + 3
        BY <1>1, <1>4, <4>1
      <4> QED
        BY <2>4, <4>2, <4>3
    <3>2. after = q[i] /\ after # None
      <4>1. k + 1 # m
        BY <1>1, <1>4, <2>4
      <4>2. after = p[k + 2]
        BY <1>5, <4>1
      <4>3. p[k + 2] \in 1 .. n
        BY <1>1, <3>1
      <4> QED
        BY <3>1, <4>2, <4>3, <1>1 DEF None
    <3>3. t[q[i]] = Behind(after) /\ after \in 1 .. n
      BY <1>10, <3>2
    <3>4. LinkedAt(syms, p, k + 2) /\ syms[p[k + 2]].id # Gone
      BY <1>2, <3>1
    <3>5. t[q[i]].prev = IF i = 1 THEN None ELSE q[i - 1]
      <4>1. q[k] = p[k]
        BY <1>4, <1>12
      <4> QED
        BY <1>7, <2>4, <3>1, <3>3, <4>1
    <3>6. t[q[i]].next = IF i = m - 1 THEN None ELSE q[i + 1]
      <4>1. i # m - 1 => k + 2 \in k + 1 .. m - 1
        BY <1>1, <1>4, <2>4
      <4>2. i # m - 1 => q[i + 1] = p[k + 3]
        BY <1>12, <2>4, <3>1, <4>1
      <4>3. (i = m - 1) <=> (k + 2 = m)
        BY <1>1, <1>4, <2>4
      <4>4. t[q[i]].next = syms[p[k + 2]].next
        BY <1>7, <3>1, <3>2, <3>3
      <4>5. syms[p[k + 2]].next = IF k + 2 = m THEN None ELSE p[k + 3]
        BY <3>1, <3>4 DEF LinkedAt, m
      <4> QED
        BY <4>2, <4>3, <4>4, <4>5
    <3>7. t[q[i]].id # Gone
      BY <1>7, <3>1, <3>2, <3>3, <3>4
    <3> QED
      BY <1>12, <3>5, <3>6, <3>7 DEF LinkedAt
  <2>5. CASE i > k + 1
    <3>1. /\ i \in k + 1 .. m - 1 /\ i - 1 \in k + 1 .. m - 1 /\ i - 1 + 1 = i /\ i + 1 - 1 = i
          /\ i + 1 # 1 /\ i # 1
      BY <1>1, <1>4, <2>5
    <3>2. q[i] = p[i + 1] /\ q[i - 1] = p[i]
      BY <1>12, <3>1
    <3>3. i # m - 1 => q[i + 1] = p[i + 1 + 1]
      <4>1. i # m - 1 => i + 1 \in k + 1 .. m - 1
        BY <1>1, <3>1
      <4> QED
        BY <1>12, <4>1
    <3>4. p[i + 1] # c.left /\ p[i + 1] # c.right /\ p[i + 1] # after
      <4>1. i + 1 # k /\ i + 1 # k + 1 /\ i + 1 # k + 2
        BY <1>4, <2>1, <2>5
      <4>2. p[i + 1] # c.left /\ p[i + 1] # c.right
        BY <1>15, <2>1, <4>1
      <4>3. p[i + 1] # None
        <5>1. p[i + 1] \in 1 .. n
          BY <1>1, <2>1
        <5> QED
          BY <1>1, <5>1 DEF None
      <4>4. after # None => p[i + 1] # after
        BY <1>3, <1>16, <2>1, <4>1
      <4> QED
        BY <4>2, <4>3, <4>4
    <3>5. t[p[i + 1]] = syms[p[i + 1]]
      BY <1>1, <1>10, <2>1, <3>4
    <3>6. syms[p[i + 1]].id # Gone /\ LinkedAt(syms, p, i + 1)
      BY <1>2, <2>1
    <3>7. syms[p[i + 1]].prev = p[i]
      BY <3>1, <3>6 DEF LinkedAt
    <3>8. syms[p[i + 1]].next = IF i + 1 = m THEN None ELSE p[i + 1 + 1]
      BY <3>6 DEF LinkedAt, m
    <3>9. (i + 1 = m) <=> (i = m - 1)
      BY <1>1, <2>1
    <3> QED
      BY <1>12, <3>1, <3>2, <3>3, <3>5, <3>6, <3>7, <3>8, <3>9 DEF LinkedAt
  <2> QED
    BY <1>4, <2>1, <2>2, <2>3, <2>4, <2>5
<1>18. q # <<>> /\ q[1] = 1
  <2>1. 1 \in 1 .. k /\ 1 \in 1 .. m - 1 /\ p # <<>>
    BY <1>1, <1>4 DEF m
  <2> QED
    BY <1>2, <1>12, <2>1
<1>19. Path(q, t)
  <2>1. \A i \in 1 .. m - 1 :
          /\ t[q[i]].id # Gone
          /\ t[q[i]].prev = IF i = 1 THEN None ELSE q[i - 1]
          /\ t[q[i]].next = IF i = Len(q) THEN None ELSE q[i + 1]
    BY <1>17 DEF LinkedAt
  <2> QED
    BY <1>9, <1>12, <1>13, <1>14, <1>18, <2>1 DEF Path
<1>20. ASSUME NEW i \in 1 .. m, i # k, i # k + 1
       PROVE  t[p[i]].id = syms[p[i]].id
  BY <1>1, <1>10, <1>15, <1>20
<1> QED
  BY <1>1, <1>7, <1>9, <1>10, <1>11, <1>19, <1>20 DEF t, q, m, n

\* The tokens along a path.
Along(p, s) == [k \in 1 .. Len(p) |-> s[p[k]].id]

(* The recursion of Chain, at one symbol. *)
ChainStep(f, s, i) == IF i = None THEN <<>> ELSE <<s[i].id>> \o f[s[i].next]

(* What is emitted are the tokens along the path. *)
LEMMA ChainIs ==
  ASSUME NEW s \in SymbolLists, NEW p, Path(p, s)
  PROVE  Chain(s) = Along(p, s)
<1> DEFINE n == Len(s)
           m == Len(p)
           Equation(f) == f = [i \in 0 .. n |-> ChainStep(f, s, i)]
           Upward(f, k) == \A i \in 0 .. n : i = None \/ i > n - k => f[i] = ChainStep(f, s, i)
           A == {k \in 0 .. n : \E f : Upward(f, k)}
           from == CHOOSE f : Equation(f)
<1>1. /\ n \in Nat /\ m \in Nat /\ DOMAIN p = 1 .. m
      /\ \A k \in 1 .. m : p[k] \in 1 .. n
      /\ \A i \in 1 .. n : s[i].next \in Nat /\ (s[i].next = None \/ s[i].next \in i + 1 .. n)
  BY PathTyped
<1> HIDE DEF n, m
<1>2. 0 \in A
  <2> DEFINE f == [i \in {None} |-> <<>>]
  <2>1. Upward(f, 0)
    BY <1>1 DEF ChainStep, None
  <2>2. 0 \in 0 .. n
    BY <1>1
  <2> HIDE DEF Upward, f
  <2> QED
    BY <2>1, <2>2
<1>3. ASSUME NEW k \in 0 .. n - 1, k \in A
      PROVE  k + 1 \in A
  <2>1. PICK f : Upward(f, k)
    BY <1>3
  <2>2. PICK j \in 1 .. n : j = n - k
    BY <1>1
  <2> DEFINE g == [i \in 0 .. n |-> IF i = j THEN ChainStep(f, s, j) ELSE f[i]]
  <2>3. \A i \in 0 .. n : i # j => g[i] = f[i]
    OBVIOUS
  <2>4. g[j] = ChainStep(f, s, j)
    <3>1. j \in 0 .. n
      BY <2>2
    <3> QED
      BY <3>1
  <2> HIDE DEF g
  <2>5. ASSUME NEW i \in 0 .. n, i = None \/ i > n - (k + 1)
        PROVE  g[i] = ChainStep(g, s, i)
    <3>1. i = None \/ i = j \/ (i # j /\ i > n - k)
      BY <1>1, <2>2, <2>5
    <3>2. CASE i = None
      <4>1. i # j
        BY <2>2, <3>2 DEF None
      <4>2. f[i] = ChainStep(f, s, i)
        BY <2>1, <3>2
      <4> QED
        BY <2>3, <3>2, <4>1, <4>2 DEF ChainStep
    <3>3. CASE i # None /\ i >= j
      <4>1. i \in 1 .. n
        BY <3>3 DEF None
      <4>2. s[i].next \in 0 .. n /\ s[i].next # j
        <5>1. PICK x \in Nat : x = s[i].next /\ (x = None \/ x \in i + 1 .. n)
          BY <1>1, <4>1
        <5>2. x \in 0 .. n /\ x # j
          BY <1>1, <2>2, <3>3, <4>1, <5>1 DEF None
        <5> QED
          BY <5>1, <5>2
      <4>3. g[s[i].next] = f[s[i].next]
        BY <2>3, <4>2
      <4>4. ChainStep(g, s, i) = ChainStep(f, s, i)
        BY <4>3 DEF ChainStep
      <4>5. CASE i = j
        BY <2>4, <4>4, <4>5
      <4>6. CASE i # j
        <5>1. i > n - k
          BY <1>1, <2>2, <3>3, <4>1, <4>6
        <5> QED
          BY <2>1, <2>3, <4>4, <4>6, <5>1
      <4> QED
        BY <4>5, <4>6
    <3>4. i # None => i >= j
      BY <1>1, <2>2, <2>5
    <3> QED
      BY <3>2, <3>3, <3>4
  <2>6. Upward(g, k + 1) /\ k + 1 \in 0 .. n
    BY <1>1, <2>5
  <2> HIDE DEF Upward
  <2> QED
    BY <2>6
<1>4. \E f : Equation(f)
  <2>1. \A k \in 0 .. n - 1 : k \in A => k + 1 \in A
    BY <1>3
  <2>2. n \in A
    <3> HIDE DEF A
    <3>1. 0 .. n \subseteq A
      BY <1>1, <1>2, <2>1, Induction
    <3> QED
      BY <1>1, <3>1
  <2>3. PICK f : Upward(f, n)
    BY <2>2
  <2> DEFINE g == [i \in 0 .. n |-> f[i]]
  <2>4. ASSUME NEW i \in 0 .. n
        PROVE  f[i] = ChainStep(g, s, i)
    <3>1. f[i] = ChainStep(f, s, i)
      <4>1. i = None \/ i > n - n
        BY <1>1 DEF None
      <4> QED
        BY <2>3, <4>1
    <3>2. i # None => s[i].next \in 0 .. n
      <4>1. i # None => i \in 1 .. n
        BY <1>1 DEF None
      <4>2. \A x \in Nat : x = None \/ x \in i + 1 .. n => x \in 0 .. n
        BY <1>1 DEF None
      <4> QED
        BY <1>1, <4>1, <4>2
    <3>3. i # None => g[s[i].next] = f[s[i].next]
      BY <3>2
    <3> HIDE DEF g
    <3> QED
      BY <3>1, <3>3 DEF ChainStep
  <2>5. g = [i \in 0 .. n |-> ChainStep(g, s, i)]
    <3> DEFINE h == [i \in 0 .. n |-> ChainStep(g, s, i)]
    <3>1. \A i \in 0 .. n : f[i] = ChainStep(g, s, i)
      BY <2>4
    <3> HIDE DEF ChainStep
    <3> QED
      BY <3>1
  <2>6. Equation(g)
    BY <2>5
  <2> HIDE DEF g, Equation
  <2> QED
    BY <2>6
<1>5. Equation(from)
  <2> HIDE DEF Equation
  <2> QED
    BY <1>4
<1>6. Chain(s) = from[IF s = <<>> THEN None ELSE 1]
  BY DEF Chain, ChainStep, n
<1> HIDE DEF from
<1>7. from[None] = <<>> /\ \A i \in 1 .. n : from[i] = <<s[i].id>> \o from[s[i].next]
  <2>1. \A i \in 0 .. n : from[i] = ChainStep(from, s, i)
    BY <1>5
  <2>2. None \in 0 .. n /\ \A i \in 1 .. n : i \in 0 .. n /\ i # None
    BY <1>1 DEF None
  <2> QED
    BY <2>1, <2>2 DEF ChainStep
<1> HIDE DEF Equation
<1> DEFINE Rest(k) == [x \in 1 .. m - k + 1 |-> s[p[k + x - 1]].id]
           B == {d \in 0 .. m - 1 : from[p[m - d]] = Rest(m - d)}
<1>8. ASSUME NEW k \in 1 .. m
      PROVE  /\ s[p[k]].next = IF k = m THEN None ELSE p[k + 1]
             /\ from[p[k]] = <<s[p[k]].id>> \o from[s[p[k]].next]
  BY <1>1, <1>7 DEF Path, m
<1>9. ASSUME m > 0
      PROVE  0 \in B
  <2>1. m \in 1 .. m /\ m - 0 = m /\ 0 \in 0 .. m - 1
    BY <1>1, <1>9
  <2>2. from[p[m]] = <<s[p[m]].id>> \o <<>>
    BY <1>7, <1>8, <2>1
  <2>3. from[p[m]] = <<s[p[m]].id>>
    BY <2>2
  <2>4. Rest(m) = <<s[p[m]].id>>
    <3>1. m - m + 1 = 1 /\ m + 1 - 1 = m
      BY <1>1
    <3>2. Rest(m) = [x \in 1 .. 1 |-> s[p[m + x - 1]].id]
      BY <3>1
    <3>3. \A x \in 1 .. 1 : s[p[m + x - 1]].id = s[p[m]].id
      BY <3>1
    <3> QED
      BY <3>2, <3>3
  <2> QED
    BY <2>1, <2>3, <2>4
<1>10. ASSUME NEW d \in 0 .. m - 1 - 1, d \in B
       PROVE  d + 1 \in B
  <2>1. PICK k \in 1 .. m : k = m - (d + 1) /\ k + 1 = m - d /\ k # m /\ k + 1 \in 1 .. m
    BY <1>1
  <2>2. from[p[k + 1]] = Rest(k + 1)
    BY <1>10, <2>1
  <2>3. from[p[k]] = <<s[p[k]].id>> \o Rest(k + 1)
    <3>1. s[p[k]].next = p[k + 1]
      BY <1>8, <2>1
    <3>2. from[s[p[k]].next] = Rest(k + 1)
      BY <2>2, <3>1
    <3> HIDE DEF Rest
    <3> QED
      BY <1>8, <3>2
  <2>4. Rest(k) = <<s[p[k]].id>> \o Rest(k + 1)
    <3> DEFINE S == {s[p[j]].id : j \in 1 .. m}
               a == <<s[p[k]].id>>
               b == Rest(k + 1)
               c == Rest(k)
    <3>1. a \in Seq(S) /\ Len(a) = 1 /\ a[1] = s[p[k]].id
      OBVIOUS
    <3>2. m - (k + 1) + 1 = m - k /\ m - k \in Nat /\ m - k + 1 = 1 + (m - k)
      BY <1>1
    <3>3. PICK e \in Nat : e = m - k
      BY <3>2
    <3>4. b \in Seq(S) /\ Len(b) = e /\ \A x \in 1 .. e : b[x] = s[p[k + 1 + x - 1]].id
      <4>1. b = [x \in 1 .. e |-> s[p[k + 1 + x - 1]].id]
        BY <3>2, <3>3
      <4>2. \A x \in 1 .. e : k + 1 + x - 1 \in 1 .. m
        BY <1>1, <3>3
      <4>3. \A x \in 1 .. e : s[p[k + 1 + x - 1]].id \in S
        BY <4>2
      <4> HIDE DEF b, S
      <4>4. b \in [1 .. e -> S]
        BY <4>1, <4>3
      <4>5. \A x \in 1 .. e : b[x] = s[p[k + 1 + x - 1]].id
        BY <4>1
      <4> QED
        BY <4>4, <4>5
    <3>5. c = [x \in 1 .. e + 1 |-> s[p[k + x - 1]].id]
      BY <3>3
    <3>6. a \o b \in Seq(S) /\ Len(a \o b) = 1 + e
          /\ (a \o b)[1] = s[p[k]].id /\ \A x \in 1 .. e : (a \o b)[1 + x] = s[p[k + 1 + x - 1]].id
      <4> HIDE DEF a, b, S
      <4>a. a \in Seq(S) /\ b \in Seq(S)
        BY <3>1, <3>4
      <4>b. Len(a) = 1 /\ Len(b) = e
        BY <3>1, <3>4
      <4>c. a \o b \in Seq(S) /\ Len(a \o b) = Len(a) + Len(b)
        BY <4>a
      <4>1. a \o b \in Seq(S) /\ Len(a \o b) = 1 + e
        BY <4>b, <4>c
      <4>2. (a \o b)[1] = a[1]
        <5>1. 1 \in 1 .. Len(a)
          BY <4>b
        <5> QED
          BY <4>a, <5>1, JoinedBefore
      <4>3. \A x \in 1 .. e : (a \o b)[1 + x] = b[x]
        <5>1. \A x \in 1 .. Len(b) : (a \o b)[Len(a) + x] = b[x]
          BY <4>a, JoinedBehind
        <5> QED
          BY <4>b, <5>1
      <4> QED
        BY <3>1, <3>4, <4>1, <4>2, <4>3
    <3> DEFINE j == a \o b
    <3>7. /\ j \in Seq(S) /\ Len(j) = 1 + e /\ j[1] = s[p[k]].id
          /\ \A x \in 1 .. e : j[1 + x] = s[p[k + 1 + x - 1]].id
      BY <3>6
    <3> HIDE DEF a, b, c, j, S
    <3>8. ASSUME NEW x \in 1 .. e + 1
          PROVE  j[x] = s[p[k + x - 1]].id
      <4>1. CASE x = 1
        <5>1. k + 1 - 1 = k
          BY <1>1
        <5> QED
          BY <3>7, <4>1, <5>1
      <4>2. CASE x # 1
        <5>1. PICK y \in 1 .. e : x = 1 + y
          BY <4>2
        <5>2. k + 1 + y - 1 = k + x - 1
          BY <1>1, <5>1
        <5> QED
          BY <3>7, <5>1, <5>2
      <4> QED
        BY <4>1, <4>2
    <3>9. j = [x \in 1 .. e + 1 |-> s[p[k + x - 1]].id]
      <4>1. DOMAIN j = 1 .. e + 1 /\ j \in [1 .. e + 1 -> S]
        BY <3>7
      <4> QED
        BY <3>8, <4>1
    <3> QED
      BY <3>5, <3>9 DEF a, b, c, j
  <2>5. d + 1 \in 0 .. m - 1
    BY <1>1
  <2> QED
    BY <2>1, <2>3, <2>4, <2>5
<1>11. CASE s = <<>>
  <2>1. n = 0
    BY <1>11 DEF n
  <2>2. m = 0
    <3>1. m > 0 => 1 \in 1 .. m
      BY <1>1
    <3> QED
      BY <1>1, <2>1, <3>1
  <2>3. Along(p, s) = <<>>
    BY <2>2 DEF Along, m
  <2> QED
    BY <1>6, <1>7, <1>11, <2>3
<1>12. CASE s # <<>>
  <2>1. p # <<>> /\ p[1] = 1
    BY <1>12 DEF Path
  <2>2. m > 0
    <3>1. p \in Seq(DOMAIN s)
      BY DEF Path
    <3>2. Len(p) # 0
      BY <2>1, <3>1
    <3> QED
      BY <1>1, <3>2 DEF m
  <2>3. m - 1 \in B
    <3>1. \A d \in 0 .. m - 1 - 1 : d \in B => d + 1 \in B
      BY <1>10
    <3>2. 0 \in B
      BY <1>9, <2>2
    <3>3. PICK e \in Nat : e = m - 1
      BY <1>1, <2>2
    <3> HIDE DEF B
    <3>4. \A d \in 0 .. e - 1 : d \in B => d + 1 \in B
      BY <3>1, <3>3
    <3>5. 0 .. e \subseteq B
      BY <3>2, <3>4, Induction
    <3> QED
      BY <3>3, <3>5
  <2>4. m - (m - 1) = 1 /\ m - 1 + 1 = m /\ \A x \in 1 .. m : 1 + x - 1 = x
    BY <1>1
  <2>5. from[p[1]] = Rest(1)
    BY <2>3, <2>4
  <2>6. Rest(1) = [x \in 1 .. m |-> s[p[1 + x - 1]].id]
    BY <2>4
  <2>7. \A x \in 1 .. m : s[p[1 + x - 1]].id = s[p[x]].id
    BY <2>4
  <2>8. Rest(1) = Along(p, s)
    <3> HIDE DEF Rest
    <3> QED
      BY <2>6, <2>7 DEF Along, m
  <2> QED
    BY <1>6, <1>12, <2>1, <2>5, <2>8
<1> QED
  BY <1>11, <1>12

-----------------------------------------------------------------------------
(* The wrapper of a result. *)

(* What is put around a sequence is found again at its ends. *)
LEMMA Wrapping ==
  ASSUME NEW S, NEW a \in Seq(S), NEW b \in Seq(S), NEW c \in Seq(S)
  PROVE  /\ Len(a \o b \o c) = Len(a) + Len(b) + Len(c)
         /\ SubSeq(a \o b \o c, 1, Len(a)) = a
         /\ SubSeq(a \o b \o c, Len(a \o b \o c) - Len(c) + 1, Len(a \o b \o c)) = c
<1> DEFINE u == a \o b
           r == u \o c
<1>1. Len(a) \in Nat /\ Len(b) \in Nat /\ Len(c) \in Nat
  OBVIOUS
<1>2. u \in Seq(S) /\ Len(u) = Len(a) + Len(b)
  BY ConcatProperties
<1> HIDE DEF u
<1>3. r \in Seq(S) /\ Len(r) = Len(a) + Len(b) + Len(c)
  <2>1. r \in Seq(S) /\ Len(r) = Len(u) + Len(c)
    BY <1>2, ConcatProperties
  <2> QED
    BY <1>2, <2>1
<1>4. SubSeq(r, 1, Len(a)) = a
  <2>1. CASE a = <<>>
    <3>1. SubSeq(r, 1, 0) = <<>>
      BY SubSeqEmpty
    <3> HIDE DEF r
    <3> QED
      BY <2>1, <3>1
  <2>2. CASE a # <<>>
    <3>1. 1 \in 1 .. Len(a) /\ Len(a) \in 1 .. Len(a)
      BY <1>1, <2>2
    <3>2. 1 \in 1 .. Len(u) /\ Len(a) \in 1 .. Len(u)
      BY <1>1, <1>2, <3>1
    <3>3. SubSeq(r, 1, Len(a)) = SubSeq(u, 1, Len(a))
      BY <1>2, <3>2, SubSeqOfConcat1
    <3>4. SubSeq(u, 1, Len(a)) = SubSeq(a, 1, Len(a))
      BY <3>1, SubSeqOfConcat1 DEF u
    <3> QED
      BY <3>3, <3>4, SubSeqFull
  <2> QED
    BY <2>1, <2>2
<1>5. SubSeq(r, Len(u) + 1, Len(u) + Len(c)) = c
  <2>1. CASE c = <<>>
    <3>1. Len(u) \in Int /\ Len(u) + 1 \in Int /\ Len(c) = 0
      BY <1>1, <1>2, <2>1
    <3>2. Len(u) + 0 < Len(u) + 1 /\ Len(u) + 0 \in Int
      BY <3>1
    <3>3. SubSeq(r, Len(u) + 1, Len(u) + 0) = <<>>
      BY <3>1, <3>2, SubSeqEmpty
    <3> HIDE DEF r
    <3> QED
      BY <2>1, <3>1, <3>3
  <2>2. CASE c # <<>>
    <3>1. Len(c) > 0 /\ Len(u) \in Nat
      BY <1>1, <1>2, <2>2
    <3>2. /\ Len(u) + 1 \in Len(u) + 1 .. Len(u) + Len(c)
          /\ Len(u) + Len(c) \in Len(u) + 1 .. Len(u) + Len(c)
          /\ (Len(u) + 1) - Len(u) = 1 /\ (Len(u) + Len(c)) - Len(u) = Len(c)
      BY <1>1, <3>1
    <3>3. SubSeq(r, Len(u) + 1, Len(u) + Len(c)) =
            SubSeq(c, (Len(u) + 1) - Len(u), (Len(u) + Len(c)) - Len(u))
      <4> DEFINE lo == Len(u) + 1
                 hi == Len(u) + Len(c)
      <4>1. lo \in Len(u) + 1 .. Len(u) + Len(c) /\ hi \in Len(u) + 1 .. Len(u) + Len(c)
        BY <3>2
      <4> HIDE DEF lo, hi
      <4>2. SubSeq(r, lo, hi) = SubSeq(c, lo - Len(u), hi - Len(u))
        BY <1>2, <4>1, SubSeqOfConcat2
      <4> QED
        BY <4>2 DEF lo, hi
    <3> HIDE DEF r
    <3> QED
      BY <3>2, <3>3, SubSeqFull
  <2> QED
    BY <2>1, <2>2
<1> HIDE DEF r
<1>6. Len(r) = Len(u) + Len(c) /\ Len(r) - Len(c) + 1 = Len(u) + 1
  BY <1>1, <1>2, <1>3
<1>7. SubSeq(r, Len(r) - Len(c) + 1, Len(r)) = c
  BY <1>5, <1>6
<1> QED
  BY <1>3, <1>4, <1>7 DEF r, u

(* A result between prefix and suffix that has at most the room there is.  *)
LEMMA Wrapped ==
  ASSUME config.limit \in Int, NEW S, NEW b \in Seq(S), NEW r, r = Prefix \o b \o Suffix,
         Len(b) <= Budget
  PROVE  /\ Len(r) <= config.limit
         /\ SubSeq(r, 1, Len(Prefix)) = Prefix
         /\ SubSeq(r, Len(r) - Len(Suffix) + 1, Len(r)) = Suffix
<1> DEFINE x == IF config.add_bos THEN config.bos ELSE NoId
           y == IF config.suffix # NoId THEN config.suffix
                ELSE IF config.add_eos THEN config.eos
                ELSE NoId
           T == S \cup {x, y}
<1>1. Prefix = Wrap(x) /\ Suffix = Wrap(y)
  BY DEF Prefix, Suffix
<1> HIDE DEF x, y
<1>2. Prefix \in Seq(T) /\ Suffix \in Seq(T)
  <2>1. x \in T /\ y \in T
    OBVIOUS
  <2> HIDE DEF T
  <2>2. <<>> \in Seq(T) /\ <<x>> \in Seq(T) /\ <<y>> \in Seq(T)
    BY <2>1
  <2> QED
    BY <1>1, <2>2 DEF Wrap
<1>3. b \in Seq(T)
  OBVIOUS
<1> HIDE DEF T
<1>4. Len(r) = Len(Prefix) + Len(b) + Len(Suffix)
  BY <1>2, <1>3, Wrapping
<1>5. Len(Prefix) \in Nat /\ Len(b) \in Nat /\ Len(Suffix) \in Nat
  BY <1>2, <1>3
<1>6. Len(r) <= config.limit
  BY <1>4, <1>5 DEF Budget, Reserved
<1> QED
  BY <1>2, <1>3, <1>6, Wrapping

-----------------------------------------------------------------------------
(* The invariant is inductive.  Every conjunct of a step's proof is what   *)
(* the step can disturb; the rest has not changed.                         *)

(* A list without symbols. *)
LEMMA NoPath == <<>> \in SymbolLists /\ Path(<<>>, <<>>)
BY DEF SymbolLists, Path

(* No page, no promise. *)
LEMMA NothingRead ==
  ASSUME NEW fs
  PROVE  Scratches(EmptyScratch, fs)
BY IndexAssumption DEF Scratches, EmptyScratch

(* Nothing is linked, queued or cached at first. *)
LEMMA InitIInv ==
  ASSUME TokenizersInit
  PROVE  IInv
<1>1. syms = <<>> /\ queue = {} /\ scratch = EmptyScratch /\ file = <<>> /\ fences = <<>>
  BY DEF TokenizersInit, Init_SpmBpe, Init_WordPiece, Init
<1>2. pc \in {"unused", "load"}
  BY DEF TokenizersInit, Init_SpmBpe, Init_WordPiece, Init
<1>3. MergeList(rules)
  <2>1. CASE Init_SpmBpe
    BY <2>1, RuleAssumption DEF Init_SpmBpe, Init, MergeList
  <2>2. CASE Init_WordPiece
    <3>1. rules = <<>>
      BY <2>2 DEF Init_WordPiece
    <3> QED
      BY <3>1 DEF MergeList, IsSequence
  <2> QED
    BY <2>1, <2>2 DEF TokenizersInit
<1>4. IsSequence(text) /\ (\A k \in DOMAIN text : Known(<<text[k]>>)) /\ config.limit \in Int
  <2>1. CASE Init_SpmBpe
    <3>1. PICK i \in Inputs : text = i[1] /\ config = i[2]
      BY <2>1 DEF Init_SpmBpe, Init
    <3> QED
      BY <3>1, InputAssumption
  <2>2. CASE Init_WordPiece
    <3>1. text = <<>> /\ config.limit = 0
      BY <2>2 DEF Init_WordPiece
    <3> QED
      BY <3>1 DEF IsSequence
  <2> QED
    BY <2>1, <2>2 DEF TokenizersInit
<1>5. Types
  BY <1>1, <1>2, <1>3, <1>4 DEF Types, Stages
<1>6. ScratchIsChecked
  BY <1>1, NothingRead DEF ScratchIsChecked
<1>7. ListIsLinked
  BY <1>1, NoPath DEF ListIsLinked
<1>8. QueueIsTyped
  BY <1>1 DEF QueueIsTyped, Proposed
<1>9. CreatedIndexIsAccepted /\ ResultIsWrapped /\ RoomIsLeft
  BY <1>2 DEF CreatedIndexIsAccepted, ResultIsWrapped, RoomIsLeft
<1> QED
  BY <1>5, <1>6, <1>7, <1>8, <1>9 DEF IInv

(* What the steps after "load" leave as it is. *)
LEMMA SameIndex ==
  ASSUME IInv, UNCHANGED <<input, fences>>, DOMAIN file' = DOMAIN file, pc' \in Stages
  PROVE  Types'
BY DEF IInv, Types, input

(* The slots hold what they held, about the same fences. *)
LEMMA SameScratch ==
  ASSUME IInv, UNCHANGED <<fences, scratch>>, pc' # "load"
  PROVE  ScratchIsChecked'
BY DEF IInv, ScratchIsChecked

(* The list is what it was. *)
LEMMA SameList ==
  ASSUME IInv, UNCHANGED syms
  PROVE  ListIsLinked'
BY DEF IInv, ListIsLinked

(* Candidates were at most taken away. *)
LEMMA FewerCandidates ==
  ASSUME IInv, UNCHANGED syms, queue' \subseteq queue
  PROVE  QueueIsTyped'
BY DEF IInv, QueueIsTyped, Proposed

(* The wrapper and the room depend on the input only. *)
LEMMA SameBudget ==
  ASSUME UNCHANGED input
  PROVE  Prefix' = Prefix /\ Suffix' = Suffix /\ Budget' = Budget
BY DEF input, Prefix, Suffix, Wrap, Budget, Reserved

(* Load refuses only what has no usable rule. *)
LEMMA LoadStep ==
  ASSUME IInv, Load
  PROVE  IInv'
<1> DEFINE records == Records(rules)
           pages == Pages(records)
<1>1. UNCHANGED <<input, intact, scratch, syms, queue, ids>> /\ pc = "load"
  BY DEF Load
<1>2. MergeList(rules) /\ scratch = EmptyScratch
  BY <1>1 DEF IInv, Types, ScratchIsChecked
<1>3. records \in Seq(Entry)
  BY <1>2, RecordsAre
<1>4. /\ pc' \in {"start", "unloadable"}
      /\ pc' = "start" => file' = pages /\ fences' = Fences(pages)
      /\ pc' = "unloadable" => ~Accepted(pages, Len(records)) /\ UNCHANGED <<file, fences>>
  BY DEF Load
<1> HIDE DEF records
<1>5. fences' \in Seq(Int) /\ DOMAIN file' = DOMAIN fences'
  <2>1. CASE pc' = "start"
    BY <1>3, <1>4, <2>1, FencesAre
  <2>2. CASE pc' = "unloadable"
    BY <1>4, <2>2 DEF IInv, Types
  <2> QED
    BY <1>4, <2>1, <2>2
<1>6. Types'
  BY <1>1, <1>4, <1>5 DEF IInv, Types, input, Stages
<1>7. ScratchIsChecked'
  BY <1>1, <1>2, <1>4, NothingRead DEF ScratchIsChecked
<1>8. ListIsLinked' /\ QueueIsTyped'
  BY <1>1, SameList, FewerCandidates
<1>9. CreatedIndexIsAccepted'
  <2>1. rules' = rules
    BY <1>1 DEF input
  <2>2. ASSUME pc' = "unloadable", NEW k \in DOMAIN rules, Usable(rules[k])
        PROVE  FALSE
    BY <1>2, <1>4, <2>2, CreatedIsAccepted DEF records
  <2> QED
    BY <2>1, <2>2 DEF CreatedIndexIsAccepted
<1>10. ResultIsWrapped' /\ RoomIsLeft'
  BY <1>4 DEF ResultIsWrapped, RoomIsLeft
<1> QED
  BY <1>6, <1>7, <1>8, <1>9, <1>10 DEF IInv

(* Reject only ends the call. *)
LEMMA RejectStep ==
  ASSUME IInv, Reject
  PROVE  IInv'
<1>1. UNCHANGED <<input, index, scratch, syms, queue, ids>> /\ pc' = "rejected"
  BY DEF Reject
<1>2. Types' /\ ScratchIsChecked' /\ ListIsLinked' /\ QueueIsTyped'
  BY <1>1, SameIndex, SameScratch, SameList, FewerCandidates DEF index, Stages
<1>3. CreatedIndexIsAccepted' /\ ResultIsWrapped' /\ RoomIsLeft'
  BY <1>1 DEF CreatedIndexIsAccepted, ResultIsWrapped, RoomIsLeft
<1> QED
  BY <1>2, <1>3 DEF IInv

(* Skip wraps nothing. *)
LEMMA SkipStep ==
  ASSUME IInv, Skip
  PROVE  IInv'
<1>1. UNCHANGED <<input, index, scratch, syms, queue>> /\ pc' = "skipped"
      /\ ids' = Prefix \o Suffix /\ config.limit >= Reserved
  BY DEF Skip
<1>2. Types' /\ ScratchIsChecked' /\ ListIsLinked' /\ QueueIsTyped'
  BY <1>1, SameIndex, SameScratch, SameList, FewerCandidates DEF index, Stages
<1>3. CreatedIndexIsAccepted' /\ RoomIsLeft'
  BY <1>1 DEF CreatedIndexIsAccepted, RoomIsLeft
<1>4. config.limit \in Int
  BY DEF IInv, Types
<1>5. Len(Prefix) \in Nat /\ Len(Suffix) \in Nat
  BY DEF Prefix, Suffix, Wrap
<1>6. <<>> \in Seq(Int) /\ Len(<<>>) <= Budget
  BY <1>1, <1>4, <1>5 DEF Budget, Reserved
<1>7. ids' = Prefix \o <<>> \o Suffix
  <2>1. Prefix \o <<>> = Prefix
    BY DEF Prefix, Wrap
  <2> QED
    BY <1>1, <2>1
<1>8. ResultIsWrapped'
  <2>1. Prefix' = Prefix /\ Suffix' = Suffix /\ config' = config
    BY <1>1, SameBudget DEF input
  <2> QED
    BY <1>4, <1>6, <1>7, <2>1, Wrapped DEF ResultIsWrapped
<1> QED
  BY <1>2, <1>3, <1>8 DEF IInv

(* What is offered joins the queue of a list that proposes only what it is *)
(* about.                                                                  *)
LEMMA EnqueueStep ==
  ASSUME IInv, NEW s, NEW pairs, Pairs(s, pairs), NEW rest, Proposed(rest, s),
         syms' = s, Enqueue(rest, Offers(s, pairs)), Budget > 0
  PROVE  /\ Types' /\ ScratchIsChecked' /\ QueueIsTyped' /\ RoomIsLeft'
         /\ CreatedIndexIsAccepted' /\ ResultIsWrapped'
<1>1. /\ UNCHANGED <<input, index, ids>> /\ pc' \in {"failed", "merge"}
      /\ queue' = rest \cup Offers(s, pairs).found /\ scratch' = Offers(s, pairs).scratch
  BY DEF Enqueue
<1>2. fences \in Seq(Int) /\ Scratches(scratch, fences)
  BY DEF IInv, Types, ScratchIsChecked
<1>3. /\ Scratches(Offers(s, pairs).scratch, fences)
      /\ Proposed(Offers(s, pairs).found, s)
  BY <1>2, OffersChecked
<1>4. Types'
  BY <1>1, SameIndex DEF index, Stages
<1>5. ScratchIsChecked'
  BY <1>1, <1>3 DEF ScratchIsChecked, index
<1>6. QueueIsTyped'
  BY <1>1, <1>3 DEF QueueIsTyped, Proposed
<1>7. RoomIsLeft'
  BY <1>1, SameBudget DEF RoomIsLeft
<1> QED
  BY <1>1, <1>4, <1>5, <1>6, <1>7 DEF CreatedIndexIsAccepted, ResultIsWrapped

(* Of a scanned text, neighbours are offered. *)
LEMMA ScannedPairs ==
  ASSUME IsSequence(text), \A k \in DOMAIN text : Known(<<text[k]>>), text # <<>>
  PROVE  Pairs(Symbols, [i \in 1 .. Len(text) - 1 |-> <<i, i + 1>>])
<1> DEFINE pairs == [i \in 1 .. Len(text) - 1 |-> <<i, i + 1>>]
<1>1. text \in Seq({text[i] : i \in DOMAIN text})
  BY DEF IsSequence
<1>2. Len(text) \in Nat /\ DOMAIN text = 1 .. Len(text)
  BY <1>1
<1>3. PICK d \in Nat : d = Len(text) - 1
  <2>1. Len(text) # 0
    BY <1>1
  <2>2. \A n \in Nat : n # 0 => n - 1 \in Nat
    OBVIOUS
  <2> QED
    BY <1>2, <2>1, <2>2
<1>4. pairs = [i \in 1 .. d |-> <<i, i + 1>>]
  BY <1>3
<1>5. \A i \in 1 .. d : i \in DOMAIN text /\ i + 1 \in DOMAIN text /\ <<i, i + 1>> \in Nat \X Nat
  BY <1>2, <1>3
<1> HIDE DEF pairs
<1>6. pairs \in Seq(Nat \X Nat) /\ DOMAIN pairs = 1 .. d
  <2>1. pairs \in [1 .. d -> Nat \X Nat]
    BY <1>4, <1>5
  <2> QED
    BY <2>1
<1>7. \A i \in 1 .. d : pairs[i][1] = i /\ pairs[i][2] = i + 1
  BY <1>4
<1>8. DOMAIN Symbols = DOMAIN text /\ \A i \in DOMAIN text : Symbols[i].id \in Token
  BY ScannedList
<1>9. Pairs(Symbols, pairs)
  BY <1>5, <1>6, <1>7, <1>8 DEF Pairs
<1> QED
  BY <1>9 DEF pairs

(* Scan links the characters and offers what is on checked pages. *)
LEMMA ScanStep ==
  ASSUME IInv, Scan
  PROVE  IInv'
<1> DEFINE pairs == [i \in 1 .. Len(text) - 1 |-> <<i, i + 1>>]
<1>1. syms' = Symbols /\ text # <<>> /\ Budget > 0 /\ Enqueue({}, Offers(Symbols, pairs))
  BY DEF Scan
<1>2. IsSequence(text) /\ \A k \in DOMAIN text : Known(<<text[k]>>)
  BY DEF IInv, Types
<1>3. /\ Symbols \in SymbolLists /\ DOMAIN Symbols = DOMAIN text
      /\ Path([i \in DOMAIN text |-> i], Symbols)
      /\ \A i \in DOMAIN text : Symbols[i].id \in Token
  BY <1>1, <1>2, ScannedList
<1>4. ListIsLinked'
  BY <1>1, <1>3 DEF ListIsLinked
<1>5. Pairs(Symbols, pairs)
  BY <1>1, <1>2, ScannedPairs
<1>6. Proposed({}, Symbols)
  BY DEF Proposed
<1> HIDE DEF pairs
<1>7. /\ Types' /\ ScratchIsChecked' /\ QueueIsTyped' /\ RoomIsLeft'
      /\ CreatedIndexIsAccepted' /\ ResultIsWrapped'
  BY <1>1, <1>5, <1>6, EnqueueStep
<1> QED
  BY <1>4, <1>7 DEF IInv

(* DropStale takes a candidate away. *)
LEMMA DropStaleStep ==
  ASSUME IInv, DropStale
  PROVE  IInv'
<1>1. UNCHANGED <<input, index, scratch, syms, ids, pc>> /\ queue' \subseteq queue /\ pc = "merge"
  BY DEF DropStale
<1>2. Types' /\ ScratchIsChecked' /\ ListIsLinked' /\ QueueIsTyped'
  BY <1>1, SameIndex, SameScratch, SameList, FewerCandidates DEF index, Stages
<1>3. CreatedIndexIsAccepted' /\ ResultIsWrapped' /\ RoomIsLeft'
  BY <1>1, SameBudget DEF CreatedIndexIsAccepted, ResultIsWrapped, RoomIsLeft, IInv
<1> QED
  BY <1>2, <1>3 DEF IInv

(* The neighbours of the merged symbol exist and have tokens. *)
LEMMA NewPairsOf ==
  ASSUME NEW s \in SymbolLists, NEW p, Path(p, s), NEW l, l \in DOMAIN s, s[l].id # Gone
  PROVE  Pairs(s, NewPairs(s, l))
<1>1. /\ Len(p) \in Nat /\ DOMAIN p = 1 .. Len(p) /\ DOMAIN s = 1 .. Len(s) /\ Len(s) \in Nat
      /\ \A i \in 1 .. Len(s) : /\ s[i].id \in Token \cup {Gone}
                                /\ s[i].prev \in Nat /\ s[i].next \in Nat
      /\ \A k \in 1 .. Len(p) : p[k] \in 1 .. Len(s)
  BY PathTyped
<1>2. PICK k \in 1 .. Len(p) : p[k] = l
  BY <1>1 DEF Path
<1>3. \A i \in 1 .. Len(s) : s[i].id # Gone => s[i].id \in Token
  BY <1>1
<1>4. \A i \in 1 .. Len(p) : p[i] \in DOMAIN s /\ s[p[i]].id \in Token
  BY <1>1, <1>3 DEF Path
<1>5. s[l].prev # None => s[l].prev \in DOMAIN s /\ s[s[l].prev].id \in Token
  <2>1. s[l].prev = IF k = 1 THEN None ELSE p[k - 1]
    BY <1>1, <1>2 DEF Path
  <2>2. k # 1 => k - 1 \in 1 .. Len(p)
    BY <1>1
  <2> QED
    BY <1>4, <2>1, <2>2
<1>6. s[l].next # None => s[l].next \in DOMAIN s /\ s[s[l].next].id \in Token
  <2>1. s[l].next = IF k = Len(p) THEN None ELSE p[k + 1]
    BY <1>1, <1>2 DEF Path
  <2>2. k # Len(p) => k + 1 \in 1 .. Len(p)
    <3>1. \A n \in Nat : \A j \in 1 .. n : j # n => j + 1 \in 1 .. n
      OBVIOUS
    <3>2. Len(p) \in Nat /\ k \in 1 .. Len(p)
      BY <1>1
    <3> QED
      BY <3>1, <3>2
  <2> QED
    BY <1>4, <2>1, <2>2
<1>7. s[l].prev \in Nat /\ s[l].next \in Nat /\ l \in Nat
  BY <1>1
<1>8. s[l].id \in Token
  BY <1>1, <1>3
<1> DEFINE a == s[l].prev
           b == s[l].next
           pairs == << <<a, l>>, <<l, b>> >>
<1>9. a \in Nat /\ b \in Nat
  BY <1>7
<1>10. /\ a # None => a \in DOMAIN s /\ s[a].id \in Token
       /\ b # None => b \in DOMAIN s /\ s[b].id \in Token
  BY <1>5, <1>6
<1> HIDE DEF a, b
<1>11. pairs \in Seq(Nat \X Nat) /\ DOMAIN pairs = 1 .. 2
  BY <1>7, <1>9
<1>12. pairs[1][1] = a /\ pairs[1][2] = l /\ pairs[2][1] = l /\ pairs[2][2] = b
  OBVIOUS
<1>13. Pairs(s, pairs)
  <2> HIDE DEF pairs
  <2>1. \A i \in 1 .. 2 : i = 1 \/ i = 2
    OBVIOUS
  <2> QED
    BY <1>8, <1>10, <1>11, <1>12, <2>1 DEF Pairs
<1> QED
  BY <1>13 DEF NewPairs, a, b

(* Merge unlinks a symbol and offers its new neighbours. *)
LEMMA MergeStep ==
  ASSUME IInv, Merge
  PROVE  IInv'
<1>1. PICK c \in queue :
        /\ Best(c) /\ Valid(c) /\ syms' = Merged(c)
        /\ Enqueue(queue \ {c}, Offers(Merged(c), NewPairs(Merged(c), c.left)))
  BY DEF Merge
<1>2. PICK p : Path(p, syms)
  BY DEF IInv, ListIsLinked
<1>3. syms \in SymbolLists /\ Proposed(queue, syms)
  BY DEF IInv, ListIsLinked, QueueIsTyped
<1>4. c.left \in DOMAIN syms /\ c.right \in DOMAIN syms /\ c.lid \in Token /\ c.merged \in Token
  BY <1>3 DEF Proposed
<1>5. PICK k \in 1 .. Len(p) - 1 : c.left = p[k] /\ c.right = p[k + 1]
  BY <1>1, <1>2, <1>3, <1>4, ValidIsAdjacent
<1>6. /\ Merged(c) \in SymbolLists /\ DOMAIN Merged(c) = DOMAIN syms
      /\ Path(Without(p, k + 1), Merged(c)) /\ Merged(c)[c.left].id = c.merged
  BY <1>2, <1>3, <1>4, <1>5, MergedList
<1>7. ListIsLinked'
  BY <1>1, <1>6 DEF ListIsLinked
<1>8. c.merged # Gone
  BY <1>4, Tokens DEF Gone
<1>9. Pairs(Merged(c), NewPairs(Merged(c), c.left))
  BY <1>4, <1>6, <1>8, NewPairsOf
<1>10. Proposed(queue \ {c}, Merged(c))
  BY <1>3, <1>6 DEF Proposed
<1>11. Budget > 0
  BY DEF IInv, RoomIsLeft, Merge
<1>12. /\ Types' /\ ScratchIsChecked' /\ QueueIsTyped' /\ RoomIsLeft'
       /\ CreatedIndexIsAccepted' /\ ResultIsWrapped'
  BY <1>1, <1>9, <1>10, <1>11, EnqueueStep
<1> QED
  BY <1>7, <1>12 DEF IInv

(* Emit wraps at most as many tokens as there is room for. *)
LEMMA EmitStep ==
  ASSUME IInv, Emit
  PROVE  IInv'
<1> DEFINE chain == Chain(syms)
           b == SubSeq(chain, 1, Least(Budget, Len(chain)))
<1>1. UNCHANGED <<input, index, scratch, syms, queue>> /\ pc' = "done" /\ pc = "merge"
      /\ ids' = Prefix \o b \o Suffix
  BY DEF Emit
<1>2. Types' /\ ScratchIsChecked' /\ ListIsLinked' /\ QueueIsTyped'
  BY <1>1, SameIndex, SameScratch, SameList, FewerCandidates DEF index, Stages
<1>3. CreatedIndexIsAccepted' /\ RoomIsLeft'
  BY <1>1 DEF CreatedIndexIsAccepted, RoomIsLeft
<1>4. config.limit \in Int /\ Budget > 0
  BY <1>1 DEF IInv, Types, RoomIsLeft
<1>5. Budget \in Nat
  <2>1. Len(Prefix) \in Nat /\ Len(Suffix) \in Nat
    BY DEF Prefix, Suffix, Wrap
  <2>2. Budget \in Int
    BY <1>4, <2>1 DEF Budget, Reserved
  <2> QED
    BY <1>4, <2>2
<1>6. chain \in Seq(Token \cup {Gone})
  <2>1. syms \in SymbolLists
    BY DEF IInv, ListIsLinked
  <2>2. PICK p : Path(p, syms)
    BY DEF IInv, ListIsLinked
  <2>3. chain = [k \in 1 .. Len(p) |-> syms[p[k]].id]
    BY <2>1, <2>2, ChainIs DEF Along
  <2>4. Len(p) \in Nat /\ \A k \in 1 .. Len(p) : syms[p[k]].id \in Token \cup {Gone}
    BY <2>1, <2>2, PathTyped
  <2> HIDE DEF chain
  <2>5. chain \in [1 .. Len(p) -> Token \cup {Gone}]
    BY <2>3, <2>4
  <2> QED
    BY <2>4, <2>5
<1> HIDE DEF chain
<1>7. b \in Seq(Token \cup {Gone}) /\ Len(b) <= Budget
  <2>1. Len(chain) \in Nat
    BY <1>6
  <2>2. PICK n \in 0 .. Len(chain) : n = Least(Budget, Len(chain)) /\ n <= Budget
    BY <1>5, <2>1 DEF Least
  <2>3. SubSeq(chain, 1, n) \in Seq(Token \cup {Gone}) /\ Len(SubSeq(chain, 1, n)) = n
    BY <1>6, <2>1
  <2> QED
    BY <2>2, <2>3
<1> HIDE DEF b
<1>8. ResultIsWrapped'
  <2>1. Prefix' = Prefix /\ Suffix' = Suffix /\ config' = config
    BY <1>1, SameBudget DEF input
  <2> QED
    BY <1>1, <1>4, <1>7, <2>1, Wrapped DEF ResultIsWrapped
<1> QED
  BY <1>2, <1>3, <1>8 DEF IInv

(* An edit changes neither the fences nor the slots. *)
LEMMA EditFileStep ==
  ASSUME IInv, EditFile
  PROVE  IInv'
<1>1. UNCHANGED <<input, fences, scratch, syms, queue, ids, pc>> /\ pc \in {"start", "merge"}
      /\ file' \in EditedFiles
  BY DEF EditFile
<1>2. DOMAIN file' = DOMAIN file
  BY <1>1 DEF EditedFiles
<1>3. Types' /\ ScratchIsChecked' /\ ListIsLinked' /\ QueueIsTyped'
  BY <1>1, <1>2, SameIndex, SameScratch, SameList, FewerCandidates DEF Stages
<1>4. CreatedIndexIsAccepted' /\ ResultIsWrapped' /\ RoomIsLeft'
  BY <1>1, SameBudget DEF CreatedIndexIsAccepted, ResultIsWrapped, RoomIsLeft, IInv
<1> QED
  BY <1>3, <1>4 DEF IInv

(* The other tokenizer leaves this one alone. *)
LEMMA StepIInv ==
  ASSUME IInv, [create_tokenizer]_tokenizerVars
  PROVE  IInv'
<1>1. CASE UNCHANGED vars
  BY <1>1 DEF vars, IInv, Types, ScratchIsChecked, ListIsLinked, QueueIsTyped, RoomIsLeft,
       CreatedIndexIsAccepted, ResultIsWrapped, Budget, Reserved, Prefix, Suffix, Wrap
<1>2. CASE Next
  BY <1>2, LoadStep, RejectStep, SkipStep, ScanStep, DropStaleStep, MergeStep, EmitStep,
     EditFileStep DEF Next
<1> QED
  BY <1>1, <1>2 DEF create_tokenizer, UseSpmBpe, UseWordPiece, tokenizerVars

(* Every tokenizer create_tokenizer opens keeps its invariant: one built for *)
(* a WordPiece vocabulary never touches the SPM state, and one that opens a  *)
(* merge index keeps what encode relies on between steps, a linked list of   *)
(* symbols, a queue of pairs the index ranks, slots holding checked pages.   *)
THEOREM Inductive == TokenizersSpec => []IInv
<1>1. TokenizersInit => IInv
  BY InitIInv
<1>2. IInv /\ [create_tokenizer]_tokenizerVars => IInv'
  BY StepIInv
<1> QED
  BY <1>1, <1>2, PTL DEF TokenizersSpec

-----------------------------------------------------------------------------
(* What follows. *)

(* The symbol list stays doubly linked whatever is merged, and a candidate *)
(* left over from an earlier list still names symbols of this one.         *)
THEOREM TypesHold == TokenizersSpec => []TypeOK
<1>1. ASSUME IInv
      PROVE  TypeOK
  <2>1. pc \in Stages /\ syms \in SymbolLists /\ Proposed(queue, syms)
    BY <1>1 DEF IInv, Types, ListIsLinked, QueueIsTyped
  <2>2. PICK p : Path(p, syms)
    BY <1>1 DEF IInv, ListIsLinked
  <2>3. ASSUME NEW i \in Live
        PROVE  /\ syms[i].prev \in Live \cup {None} /\ syms[i].next \in Live \cup {None}
               /\ syms[i].next # None => syms[syms[i].next].prev = i
               /\ syms[i].prev # None => syms[syms[i].prev].next = i
    BY <2>1, <2>2, LinkedBothWays DEF Live
  <2> QED
    BY <2>1, <2>3 DEF TypeOK, Stages, Proposed
<1> QED
  BY <1>1, Inductive, PTL

(* A merge list with a usable rule is never refused after its index was    *)
(* written.                                                                *)
THEOREM CreatedIndexAccepted == TokenizersSpec => []CreatedIndexIsAccepted
<1>1. IInv => CreatedIndexIsAccepted
  BY DEF IInv
<1> QED
  BY <1>1, Inductive, PTL

(* No edit of the file makes an id outside the vocabulary. *)
THEOREM TokensInVocabulary == TokenizersSpec => []TokensAreInVocabulary
<1>1. ASSUME IInv
      PROVE  TokensAreInVocabulary
  <2>1. syms \in SymbolLists /\ Proposed(queue, syms)
    BY <1>1 DEF IInv, ListIsLinked, QueueIsTyped
  <2>2. \A i \in DOMAIN syms : syms[i] \in Symbol
    BY <2>1 DEF SymbolLists
  <2>3. \A i \in DOMAIN syms : syms[i].id \in Token \cup {Gone}
    BY <2>2 DEF Symbol
  <2> QED
    BY <2>1, <2>3 DEF TokensAreInVocabulary, Live, Proposed
<1> QED
  BY <1>1, Inductive, PTL

(* A result keeps its wrapper and is never longer than the limit, whatever *)
(* was merged and however long the text is.                                *)
THEOREM ResultsWrapped == TokenizersSpec => []ResultIsWrapped
<1>1. IInv => ResultIsWrapped
  BY DEF IInv
<1> QED
  BY <1>1, Inductive, PTL

-----------------------------------------------------------------------------
(* Binary search. *)

Middle(w) == w[1] + (w[2] - w[1]) \div 2

(* The recursion of LowerBound, at one window. *)
SearchStep(f, records, key, w) ==
  IF w[1] >= w[2] THEN w[1]
  ELSE IF records[Middle(w) + 1].key < key THEN f[<<Middle(w) + 1, w[2]>>]
  ELSE f[<<w[1], Middle(w)>>]

\* As the records of a page are.
Increasing(records) ==
  \A i, j \in DOMAIN records : i < j => records[i].key < records[j].key

\* Up to x the keys are below, behind x they are not.
Splits(x, records, key) ==
  /\ x \in 0 .. Len(records)
  /\ \A i \in 1 .. x : records[i].key < key
  /\ \A i \in x + 1 .. Len(records) : key <= records[i].key

(* The middle is inside. *)
LEMMA MiddleIs ==
  ASSUME NEW a \in Nat, NEW b \in Nat, a < b
  PROVE  Middle(<<a, b>>) \in Nat /\ a <= Middle(<<a, b>>) /\ Middle(<<a, b>>) < b
BY DEF Middle

(* The step at a window. *)
LEMMA SearchStepIs ==
  ASSUME NEW f, NEW records, NEW key, NEW a, NEW b
  PROVE  SearchStep(f, records, key, <<a, b>>) =
           IF a >= b THEN a
           ELSE IF records[Middle(<<a, b>>) + 1].key < key THEN f[<<Middle(<<a, b>>) + 1, b>>]
           ELSE f[<<a, Middle(<<a, b>>)>>]
BY DEF SearchStep

\* Alike at windows no wider than d.
Alike(f, g, n, d) == \A x, y \in 0 .. n : y - x <= d => g[<<x, y>>] = f[<<x, y>>]

(* Both halves are narrower. *)
LEMMA SearchNarrows ==
  ASSUME NEW n \in Nat, NEW a \in 0 .. n, NEW b \in 0 .. n, NEW d \in Nat, b - a <= d + 1,
         NEW f, NEW g, NEW records, NEW key, Alike(f, g, n, d)
  PROVE  SearchStep(g, records, key, <<a, b>>) = SearchStep(f, records, key, <<a, b>>)
<1>1. CASE a >= b
  BY <1>1 DEF SearchStep
<1>2. CASE a < b
  <2>1. PICK m \in Nat : m = Middle(<<a, b>>) /\ a <= m /\ m < b
    BY <1>2, MiddleIs
  <2>2. m + 1 \in 0 .. n /\ m \in 0 .. n /\ b - (m + 1) <= d /\ m - a <= d
    BY <2>1
  <2>3. g[<<m + 1, b>>] = f[<<m + 1, b>>] /\ g[<<a, m>>] = f[<<a, m>>]
    BY <2>2 DEF Alike
  <2> QED
    BY <2>1, <2>3 DEF SearchStep
<1> QED
  BY <1>1, <1>2

(* Binary search finds the first record that is not below the key. *)
LEMMA LowerBoundIs ==
  ASSUME NEW records \in Seq(Entry), Increasing(records), NEW key \in Int
  PROVE  \E x \in 0 .. Len(records) :
           LowerBound(records, key) = x + 1 /\ Splits(x, records, key)
<1> DEFINE n == Len(records)
           W == (0 .. n) \X (0 .. n)
           Step(f, w) == SearchStep(f, records, key, w)
           Equation(f) == f = [w \in W |-> Step(f, w)]
           Narrow(f, d) == \A a, b \in 0 .. n : b - a <= d => f[<<a, b>>] = Step(f, <<a, b>>)
           A == {d \in 0 .. n : \E f : Narrow(f, d)}
           search == CHOOSE f : Equation(f)
<1>1. n \in Nat /\ DOMAIN records = 1 .. n /\ \A i \in 1 .. n : records[i].key \in Int
  <2>1. n \in Nat /\ DOMAIN records = 1 .. n /\ \A i \in 1 .. n : records[i] \in Entry
    OBVIOUS
  <2> QED
    BY <2>1 DEF Entry
<1>2. LowerBound(records, key) = search[<<0, n>>] + 1
  BY DEF LowerBound, SearchStep, Middle
<1> HIDE DEF n, search
<1>3. 0 \in A
  <2> DEFINE f == [w \in W |-> w[1]]
  <2>1. \A a, b \in 0 .. n : b - a <= 0 => f[<<a, b>>] = Step(f, <<a, b>>)
    <3>1. \A a, b \in 0 .. n : b - a <= 0 => a >= b
      BY <1>1
    <3>2. \A a, b \in 0 .. n : f[<<a, b>>] = a
      OBVIOUS
    <3> QED
      BY <3>1, <3>2 DEF SearchStep
  <2>2. 0 \in 0 .. n
    BY <1>1
  <2> HIDE DEF f, Step
  <2> QED
    BY <2>1, <2>2
<1>4. ASSUME NEW d \in 0 .. n - 1, d \in A
      PROVE  d + 1 \in A
  <2>1. PICK f : Narrow(f, d)
    BY <1>4
  <2>2. d \in Nat /\ d + 1 \in 0 .. n
    BY <1>1
  <2> DEFINE g == [w \in W |-> Step(f, w)]
  <2> HIDE DEF Step
  <2>3. \A a, b \in 0 .. n : g[<<a, b>>] = Step(f, <<a, b>>)
    OBVIOUS
  <2> HIDE DEF g
  <2>4. \A a, b \in 0 .. n : b - a <= d => g[<<a, b>>] = f[<<a, b>>]
    BY <2>1, <2>3
  <2>5. ASSUME NEW a \in 0 .. n, NEW b \in 0 .. n, b - a <= d + 1
        PROVE  g[<<a, b>>] = Step(g, <<a, b>>)
    <3>1. Step(g, <<a, b>>) = Step(f, <<a, b>>)
      <4>1. n \in Nat /\ d \in Nat
        BY <1>1, <2>2
      <4>2. Alike(f, g, n, d)
        BY <2>4 DEF Alike
      <4>3. SearchStep(g, records, key, <<a, b>>) = SearchStep(f, records, key, <<a, b>>)
        BY <2>5, <4>1, <4>2, SearchNarrows
      <4> QED
        BY <4>3 DEF Step
    <3> QED
      BY <2>3, <3>1
  <2> QED
    BY <2>2, <2>5
<1>5. Equation(search)
  <2>1. \A d \in 0 .. n - 1 : d \in A => d + 1 \in A
    BY <1>4
  <2>2. n \in A
    <3> HIDE DEF A
    <3>1. 0 .. n \subseteq A
      BY <1>1, <1>3, <2>1, Induction
    <3> QED
      BY <1>1, <3>1
  <2>3. PICK f : Narrow(f, n)
    BY <2>2
  <2> DEFINE g == [w \in W |-> Step(f, w)]
  <2> HIDE DEF Step
  <2>4. \A a, b \in 0 .. n : b - a <= n
    BY <1>1
  <2>5. \A a, b \in 0 .. n : g[<<a, b>>] = Step(f, <<a, b>>) /\ f[<<a, b>>] = Step(f, <<a, b>>)
    BY <2>3, <2>4
  <2>6. \A w \in W : Step(g, w) = Step(f, w)
    <3>1. ASSUME NEW a \in 0 .. n, NEW b \in 0 .. n
          PROVE  Step(g, <<a, b>>) = Step(f, <<a, b>>)
      <4>1. Alike(f, g, n, n)
        BY <2>5 DEF Alike
      <4>2. b - a <= n + 1
        BY <1>1
      <4> HIDE DEF g
      <4> QED
        BY <1>1, <4>1, <4>2, SearchNarrows DEF Step
    <3> HIDE DEF g
    <3> QED
      BY <3>1
  <2>7. Equation(g)
    BY <2>6
  <2> HIDE DEF Equation, g
  <2> QED
    BY <2>7 DEF search
<1>6. \A a, b \in 0 .. n : search[<<a, b>>] = Step(search, <<a, b>>)
  <2> HIDE DEF Step
  <2> QED
    BY <1>5
<1> HIDE DEF Equation
<1> DEFINE Outer(a, b) == /\ \A i \in 1 .. a : records[i].key < key
                          /\ \A i \in b + 1 .. n : key <= records[i].key
           Split(x) == Splits(x, records, key)
           B == {d \in 0 .. n : \A a, b \in 0 .. n :
                   a <= b /\ b - a <= d /\ Outer(a, b) => Split(search[<<a, b>>])}
<1>7. 0 \in B
  <2>1. ASSUME NEW a \in 0 .. n, NEW b \in 0 .. n, a <= b, b - a <= 0, Outer(a, b)
        PROVE  Split(search[<<a, b>>])
    <3>1. a = b
      BY <1>1, <2>1
    <3>2. search[<<a, b>>] = a
      <4>1. search[<<a, b>>] = SearchStep(search, records, key, <<a, b>>) /\ a >= b
        BY <1>1, <1>6, <3>1
      <4>2. a >= b => SearchStep(search, records, key, <<a, b>>) = a
        BY SearchStepIs
      <4> QED
        BY <4>1, <4>2
    <3> QED
      BY <2>1, <3>1, <3>2 DEF Splits, n
  <2>2. 0 \in 0 .. n
    BY <1>1
  <2> HIDE DEF Outer, Split
  <2> QED
    BY <2>1, <2>2
<1>8. ASSUME NEW d \in 0 .. n - 1, d \in B
      PROVE  d + 1 \in B
  <2>1. ASSUME NEW a \in 0 .. n, NEW b \in 0 .. n, a <= b, b - a <= d + 1, Outer(a, b)
        PROVE  Split(search[<<a, b>>])
    <3>1. CASE a = b
      <4>1. b - a <= d
        BY <1>1, <3>1
      <4> HIDE DEF Outer, Split
      <4> QED
        BY <1>8, <2>1, <4>1
    <3>2. CASE a < b
      <4>1. PICK m \in Nat : m = Middle(<<a, b>>) /\ a <= m /\ m < b
        BY <3>2, MiddleIs
      <4>2. m \in 0 .. n /\ m + 1 \in 0 .. n /\ m + 1 \in 1 .. n /\ b - (m + 1) <= d /\ m - a <= d
            /\ m + 1 <= b
        BY <1>1, <2>1, <4>1
      <4>3. CASE records[m + 1].key < key
        <5>1. search[<<a, b>>] = search[<<m + 1, b>>]
          <6>1. search[<<a, b>>] = SearchStep(search, records, key, <<a, b>>) /\ ~(a >= b)
            BY <1>1, <1>6, <3>2
          <6>2. ~(a >= b) /\ (records[m + 1].key < key) =>
                  SearchStep(search, records, key, <<a, b>>) = search[<<m + 1, b>>]
            BY <4>1, SearchStepIs
          <6> QED
            BY <4>3, <6>1, <6>2
        <5>2. \A i \in 1 .. m + 1 : records[i].key < key
          <6>1. \A i \in 1 .. m + 1 : i \in 1 .. n /\ (i = m + 1 \/ i < m + 1)
            BY <1>1, <4>2
          <6>2. \A i \in 1 .. n : i < m + 1 => records[i].key < records[m + 1].key
            BY <1>1, <4>2 DEF Increasing
          <6>3. ASSUME NEW i \in 1 .. m + 1
                PROVE  records[i].key < key
            <7>1. PICK x \in Int, y \in Int : x = records[i].key /\ y = records[m + 1].key
              BY <1>1, <4>2, <6>1
            <7>2. y < key /\ (x = y \/ x < y)
              BY <4>3, <6>1, <6>2, <7>1
            <7>3. x < key
              BY <7>2
            <7> QED
              BY <7>1, <7>3
          <6> QED
            BY <6>3
        <5>3. Outer(m + 1, b)
          BY <2>1, <5>2
        <5> HIDE DEF Outer, Split
        <5> QED
          BY <1>8, <4>2, <5>1, <5>3
      <4>4. CASE ~(records[m + 1].key < key)
        <5>1. search[<<a, b>>] = search[<<a, m>>]
          <6>1. search[<<a, b>>] = SearchStep(search, records, key, <<a, b>>) /\ ~(a >= b)
            BY <1>1, <1>6, <3>2
          <6>2. ~(a >= b) /\ ~(records[m + 1].key < key) =>
                  SearchStep(search, records, key, <<a, b>>) = search[<<a, m>>]
            <7>1. /\ ~(a >= b)
                  /\ ~(records[Middle(<<a, b>>) + 1].key < key)
                  => SearchStep(search, records, key, <<a, b>>) = search[<<a, Middle(<<a, b>>)>>]
              BY DEF SearchStep
            <7> QED
              BY <4>1, <7>1
          <6> QED
            BY <4>4, <6>1, <6>2
        <5>2. \A i \in m + 1 .. n : key <= records[i].key
          <6>1. \A i \in m + 1 .. n : i \in 1 .. n /\ (i = m + 1 \/ m + 1 < i)
            BY <1>1, <4>2
          <6>2. \A i \in 1 .. n : m + 1 < i => records[m + 1].key < records[i].key
            BY <1>1, <4>2 DEF Increasing
          <6>3. ASSUME NEW i \in m + 1 .. n
                PROVE  key <= records[i].key
            <7>1. PICK x \in Int, y \in Int : x = records[i].key /\ y = records[m + 1].key
              BY <1>1, <4>2, <6>1
            <7>2. ~(y < key) /\ (x = y \/ y < x)
              BY <4>4, <6>1, <6>2, <7>1
            <7>3. key <= x
              BY <7>2
            <7> QED
              BY <7>1, <7>3
          <6> QED
            BY <6>3
        <5>3. Outer(a, m)
          BY <2>1, <5>2
        <5> HIDE DEF Outer, Split
        <5> QED
          BY <1>8, <4>1, <4>2, <5>1, <5>3
      <4> QED
        BY <4>3, <4>4
    <3> QED
      BY <2>1, <3>1, <3>2
  <2>2. d + 1 \in 0 .. n
    BY <1>1
  <2> HIDE DEF Outer, Split
  <2> QED
    BY <2>1, <2>2
<1>9. n \in B
  <2>1. \A d \in 0 .. n - 1 : d \in B => d + 1 \in B
    BY <1>8
  <2> HIDE DEF B
  <2>2. 0 .. n \subseteq B
    BY <1>1, <1>7, <2>1, Induction
  <2> QED
    BY <1>1, <2>2
<1>10. Split(search[<<0, n>>])
  <2>1. 0 \in 0 .. n /\ n \in 0 .. n /\ 0 <= n /\ n - 0 <= n
    BY <1>1
  <2>2. Outer(0, n)
    BY <1>1
  <2> HIDE DEF Outer, Split
  <2> QED
    BY <1>9, <2>1, <2>2
<1>11. search[<<0, n>>] \in 0 .. n
  BY <1>10 DEF Splits, n
<1> QED
  BY <1>2, <1>10, <1>11 DEF n

-----------------------------------------------------------------------------
(* Lookups in a file as it was written. *)

\* What a lookup answers about records.
Answers(t, records, key) ==
  \/ t.outcome = "hit" /\ \E i \in DOMAIN records : t.rule = records[i] /\ records[i].key = key
  \/ t.outcome = "miss" /\ \A i \in DOMAIN records : records[i].key # key

(* A page is searched without fail. *)
LEMMA SearchFinds ==
  ASSUME NEW s, NEW records \in Seq(Entry), Increasing(records), NEW key \in Int
  PROVE  Answers(Search(s, records, key), records, key)
<1> DEFINE n == Len(records)
           t == Search(s, records, key)
<1>1. PICK x \in 0 .. n : LowerBound(records, key) = x + 1 /\ Splits(x, records, key)
  BY LowerBoundIs
<1>2. n \in Nat /\ DOMAIN records = 1 .. n /\ \A i \in 1 .. n : records[i] \in Entry
  OBVIOUS
<1>3. \A i \in 1 .. n : records[i].key \in Int /\ records[i].merged \in Token
  BY <1>2 DEF Entry
<1>4. /\ \A i \in 1 .. x : records[i].key < key
      /\ \A i \in x + 1 .. n : key <= records[i].key
  BY <1>1 DEF Splits
<1>5. Miss(s).outcome = "miss"
  BY DEF Miss
<1> HIDE DEF n
<1>6. CASE x + 1 > n
  <2>1. t = Miss(s)
    BY <1>1, <1>6 DEF Search, n
  <2>2. ASSUME NEW i \in 1 .. n
        PROVE  records[i].key # key
    <3>1. PICK y \in Int : y = records[i].key /\ y < key
      BY <1>2, <1>3, <1>4, <1>6
    <3> QED
      BY <3>1
  <2> HIDE DEF t
  <2> QED
    BY <1>2, <1>5, <2>1, <2>2 DEF Answers, t
<1>7. CASE x + 1 <= n /\ records[x + 1].key # key
  <2>1. x + 1 \in 1 .. n /\ ~(x + 1 > n)
    BY <1>2, <1>7
  <2>2. t = Miss(s)
    BY <1>1, <1>7, <2>1 DEF Search, n
  <2>3. ASSUME NEW i \in 1 .. n
        PROVE  records[i].key # key
    <3>1. CASE i <= x
      <4>1. PICK y \in Int : y = records[i].key /\ y < key
        BY <1>2, <1>3, <1>4, <3>1
      <4> QED
        BY <4>1
    <3>2. CASE i = x + 1
      BY <1>7, <3>2
    <3>3. CASE i > x + 1
      <4>1. PICK y \in Int, z \in Int : y = records[x + 1].key /\ z = records[i].key
        BY <1>3, <2>1
      <4>2. records[x + 1].key < records[i].key
        BY <1>2, <2>1, <3>3 DEF Increasing
      <4>3. key <= records[x + 1].key
        BY <1>4, <2>1
      <4>4. z # key
        BY <4>1, <4>2, <4>3
      <4> QED
        BY <4>1, <4>4
    <3>4. i <= x \/ i = x + 1 \/ i > x + 1
      BY <1>2
    <3> QED
      BY <3>1, <3>2, <3>3, <3>4
  <2> HIDE DEF t
  <2> QED
    BY <1>2, <1>5, <2>2, <2>3 DEF Answers, t
<1>8. CASE x + 1 <= n /\ records[x + 1].key = key
  <2>1. x + 1 \in 1 .. n /\ ~(x + 1 > n)
    BY <1>2, <1>8
  <2>2. ~Refuses(records[x + 1])
    BY <1>3, <2>1 DEF Refuses
  <2>3. t = Hit(s, records[x + 1])
    BY <1>1, <1>8, <2>1, <2>2 DEF Search, n
  <2>4. t.outcome = "hit" /\ t.rule = records[x + 1]
    BY <2>3 DEF Hit
  <2> HIDE DEF t
  <2> QED
    BY <1>2, <1>8, <2>1, <2>4 DEF Answers, t
<1> QED
  BY <1>2, <1>6, <1>7, <1>8

\* Page p has the records of a key; if there is no such page, none have it.
OnPage(p, f, fs, records, key) ==
  /\ p = NoPage => \A i \in DOMAIN records : records[i].key # key
  /\ p # NoPage =>
       /\ p \in DOMAIN f /\ p \in DOMAIN fs /\ Sound(f[p], fs[p])
       /\ f[p].records \in Seq(Entry) /\ Increasing(f[p].records)
       /\ \A j \in DOMAIN f[p].records : \E i \in DOMAIN records : f[p].records[j] = records[i]
       /\ \A i \in DOMAIN records : records[i].key = key =>
            \E j \in DOMAIN f[p].records : f[p].records[j] = records[i]

(* The page that upper_bound chooses has all records of a key. *)
LEMMA PageHolds ==
  ASSUME NEW records \in Seq(Entry), Increasing(records), NEW key \in Int,
         NEW f, f = Pages(records), NEW fs, fs = Fences(f), NEW p, p = PageOf(fs, key)
  PROVE  OnPage(p, f, fs, records, key)
<1> DEFINE n == Len(records)
           c == PageCount(n)
<1>1. n \in Nat /\ DOMAIN records = 1 .. n /\ \A i \in 1 .. n : records[i] \in Entry
  OBVIOUS
<1>2. \A i \in 1 .. n : records[i].key \in Int
  BY <1>1 DEF Entry
<1>3. /\ fs \in Seq(Int) /\ Len(fs) = c /\ DOMAIN fs = 1 .. c /\ DOMAIN f = 1 .. c
      /\ \A q \in 1 .. c : fs[q] = records[Begin(q) + 1].key
  BY FencesAre
<1>4. /\ c \in Nat /\ (n > 0 => c > 0)
      /\ \A q \in 1 .. c :
           /\ Begin(q) \in Nat /\ End(n, q) \in Nat /\ Begin(q) < n
           /\ Begin(q) < End(n, q) /\ End(n, q) <= n
           /\ q < c => End(n, q) = Begin(q + 1)
           /\ q = c => End(n, q) = n
  BY <1>1, PageBounds
<1>5. /\ p \in 0 .. c
      /\ p # NoPage => fs[p] <= key
      /\ \A q \in p + 1 .. c : key < fs[q]
  BY <1>3, PageOfIs
<1> HIDE DEF n, c
<1>6. ASSUME p = NoPage, NEW i \in 1 .. n
      PROVE  records[i].key # key
  <2>1. 1 \in 1 .. c /\ 1 \in p + 1 .. c
    BY <1>1, <1>4, <1>6 DEF NoPage
  <2>2. Begin(1) = 0
    BY IndexAssumption DEF Begin
  <2>3. 1 \in 1 .. n /\ fs[1] = records[1].key
    BY <1>1, <1>3, <2>1, <2>2
  <2>4. PICK x \in Int, y \in Int : x = records[1].key /\ y = records[i].key
    BY <1>2, <2>3
  <2>5. key < x
    BY <1>5, <2>1, <2>3, <2>4
  <2>6. i = 1 \/ x < y
    BY <1>1, <2>3, <2>4 DEF Increasing
  <2> QED
    BY <2>4, <2>5, <2>6
<1>7. ASSUME p # NoPage
      PROVE  /\ p \in DOMAIN f /\ p \in DOMAIN fs /\ Sound(f[p], fs[p])
             /\ f[p].records \in Seq(Entry) /\ Increasing(f[p].records)
             /\ \A j \in DOMAIN f[p].records : \E i \in DOMAIN records : f[p].records[j] = records[i]
             /\ \A i \in DOMAIN records : records[i].key = key =>
                  \E j \in DOMAIN f[p].records : f[p].records[j] = records[i]
  <2>1. p \in 1 .. c /\ p \in Int
    BY <1>4, <1>5, <1>7 DEF NoPage
  <2>2. PICK b \in Nat, e \in Nat : b = Begin(p) /\ e = End(n, p) /\ b < n /\ b < e /\ e <= n
    BY <1>4, <2>1
  <2>3. /\ f[p].count \in 1 .. RecordsPerPage
        /\ f[p].first = records[b + 1].key
        /\ f[p].records \in Seq(Entry) /\ Len(f[p].records) = e - b
        /\ \A j \in 1 .. e - b : b + j \in 1 .. n /\ f[p].records[j] = records[b + j]
    BY <2>1, <2>2, PagesAre DEF n, c
  <2>4. Sound(f[p], fs[p])
    BY <1>3, <2>1, <2>2, <2>3 DEF Sound
  <2>5. DOMAIN f[p].records = 1 .. e - b
    BY <2>3
  <2>6. Increasing(f[p].records)
    <3>1. ASSUME NEW i \in 1 .. e - b, NEW j \in 1 .. e - b, i < j
          PROVE  f[p].records[i].key < f[p].records[j].key
      <4>1. b + i \in 1 .. n /\ b + j \in 1 .. n /\ b + i < b + j
        BY <2>2, <2>3, <3>1
      <4>2. records[b + i].key < records[b + j].key
        BY <1>1, <4>1 DEF Increasing
      <4> QED
        BY <2>3, <4>2
    <3> QED
      BY <2>5, <3>1 DEF Increasing
  <2>7. \A j \in DOMAIN f[p].records : \E i \in DOMAIN records : f[p].records[j] = records[i]
    BY <1>1, <2>3, <2>5
  <2>8. ASSUME NEW i \in 1 .. n, records[i].key = key
        PROVE  \E j \in DOMAIN f[p].records : f[p].records[j] = records[i]
    <3>1. b + 1 \in 1 .. n
      BY <1>1, <2>2
    <3>2. i > b
      <4>1. PICK x \in Int : x = records[b + 1].key /\ x <= key
        BY <1>2, <1>3, <1>5, <1>7, <2>1, <2>2, <3>1
      <4>2. i < b + 1 => records[i].key < records[b + 1].key
        BY <1>1, <3>1 DEF Increasing
      <4>3. ~(i < b + 1)
        BY <2>8, <4>1, <4>2
      <4> QED
        BY <2>2, <4>3
    <3>3. i <= e
      <4>1. CASE p = c
        BY <1>1, <1>4, <2>1, <2>2, <4>1
      <4>2. CASE p < c
        <5>1. p + 1 \in 1 .. c /\ p + 1 \in p + 1 .. c
          <6>1. \A x \in Nat : \A y \in 1 .. x : y < x => y + 1 \in 1 .. x /\ y + 1 \in y + 1 .. x
            OBVIOUS
          <6> QED
            BY <1>4, <2>1, <4>2, <6>1
        <5>2. e = Begin(p + 1) /\ Begin(p + 1) < n
          BY <1>4, <2>1, <2>2, <4>2, <5>1
        <5>3. e + 1 \in 1 .. n
          BY <1>1, <2>2, <5>2
        <5>4. PICK x \in Int : x = records[e + 1].key /\ key < x
          BY <1>2, <1>3, <1>5, <5>1, <5>2, <5>3
        <5>5. e + 1 < i => records[e + 1].key < records[i].key
          BY <1>1, <5>3 DEF Increasing
        <5>6. e + 1 # i /\ ~(e + 1 < i)
          BY <2>8, <5>4, <5>5
        <5> QED
          BY <2>2, <5>6
      <4>3. p = c \/ p < c
        BY <1>4, <2>1
      <4> QED
        BY <4>1, <4>2, <4>3
    <3>4. PICK j \in 1 .. e - b : b + j = i
      <4>1. i - b \in 1 .. e - b /\ b + (i - b) = i
        BY <2>2, <3>2, <3>3
      <4> QED
        BY <4>1
    <3> QED
      BY <2>3, <2>5, <3>4
  <2> QED
    BY <1>1, <1>3, <2>1, <2>3, <2>4, <2>6, <2>7, <2>8
<1> QED
  BY <1>1, <1>6, <1>7 DEF OnPage

\* What the slots hold is in the file.
Held(s, f) ==
  \A k \in 1 .. Slots : s.slots[k].page # NoPage => s.slots[k].bytes = f[s.slots[k].page]

\* What a lookup answers about the rules of a list.
Replies(t, list, key) ==
  \/ t.outcome = "hit" /\ t.rule \in Kept(list) /\ t.rule.key = key
  \/ t.outcome = "miss" /\ \A r \in Kept(list) : r.key # key

(* A slot that was claimed holds the page. *)
LEMMA HeldAfterRead ==
  ASSUME NEW f, NEW fs, NEW s, Scratches(s, fs), Held(s, f), NEW p
  PROVE  LET read    == ReadInto(s, f[p])
             claimed == Claim(read, s.next + 1, p)
         IN  /\ Held(claimed, f)
             /\ read.slots[s.next + 1].bytes = f[p]
             /\ claimed.slots[s.next + 1].bytes = f[p]
<1> DEFINE turn    == s.next + 1
           new     == [page |-> NoPage, bytes |-> f[p]]
           read    == ReadInto(s, f[p])
           claimed == Claim(read, turn, p)
<1>1. /\ DOMAIN s.slots = 1 .. Slots /\ turn \in 1 .. Slots
  BY IndexAssumption DEF Scratches
<1>2. read.slots = [s.slots EXCEPT ![turn] = new]
  BY DEF ReadInto
<1>3. turn \in DOMAIN read.slots /\ read.slots[turn] = new
  BY <1>1, <1>2
<1> HIDE DEF read
<1>4. claimed.slots = [read.slots EXCEPT ![turn] = [page |-> p, bytes |-> read.slots[turn].bytes]]
  BY DEF Claim
<1> HIDE DEF claimed, turn
<1>5. /\ claimed.slots[turn] = [page |-> p, bytes |-> read.slots[turn].bytes]
      /\ \A k \in 1 .. Slots : k # turn => claimed.slots[k] = s.slots[k]
  <2>1. \A k \in 1 .. Slots : k # turn => k \in DOMAIN read.slots /\ read.slots[k] = s.slots[k]
    BY <1>1, <1>2
  <2> HIDE DEF new
  <2> QED
    BY <1>1, <1>3, <1>4, <2>1
<1>6. claimed.slots[turn].page = p /\ claimed.slots[turn].bytes = f[p]
  BY <1>3, <1>5
<1>7. Held(claimed, f)
  BY <1>5, <1>6 DEF Held
<1>8. read.slots[turn].bytes = f[p]
  BY <1>3
<1> QED
  BY <1>6, <1>7, <1>8 DEF claimed, read, turn

(* A lookup finds the kept record of its key, if there is one, and never   *)
(* throws.                                                                 *)
LEMMA FindIs ==
  ASSUME NEW list, MergeList(list), NEW f, f = Pages(Records(list)), NEW fs, fs = Fences(f),
         NEW s, Scratches(s, fs), Held(s, f), NEW key \in Int
  PROVE  Held(Find(f, fs, s, key).scratch, f) /\ Replies(Find(f, fs, s, key), list, key)
<1> DEFINE records == Records(list)
           p == PageOf(fs, key)
           cached == Holding(s, p)
           k == CHOOSE j \in cached : TRUE
           read == ReadInto(s, f[p])
           claimed == Claim(read, s.next + 1, p)
           t == Find(f, fs, s, key)
<1>1. records \in Seq(Kept(list)) /\ records \in Seq(Entry) /\ Increasing(records)
      /\ \A r \in Kept(list) : \E i \in DOMAIN records : records[i] = r
  BY RecordsAre DEF Increasing
<1>2. \A i \in DOMAIN records : records[i] \in Kept(list)
  BY <1>1
<1> HIDE DEF records, p
<1>3. /\ p = NoPage => \A i \in DOMAIN records : records[i].key # key
      /\ p # NoPage =>
           /\ p \in DOMAIN f /\ p \in DOMAIN fs /\ Sound(f[p], fs[p])
           /\ f[p].records \in Seq(Entry) /\ Increasing(f[p].records)
           /\ \A j \in DOMAIN f[p].records : \E i \in DOMAIN records : f[p].records[j] = records[i]
           /\ \A i \in DOMAIN records : records[i].key = key =>
                \E j \in DOMAIN f[p].records : f[p].records[j] = records[i]
  <2>1. f = Pages(records) /\ p = PageOf(fs, key)
    BY DEF records, p
  <2>2. records \in Seq(Entry) /\ Increasing(records)
    BY <1>1
  <2>3. OnPage(p, f, fs, records, key)
    BY <2>1, <2>2, PageHolds
  <2> QED
    BY <2>3 DEF OnPage
<1>4. ASSUME NEW u, p # NoPage
      PROVE  /\ Search(u, f[p].records, key).scratch = u
             /\ Replies(Search(u, f[p].records, key), list, key)
  <2> DEFINE v == Search(u, f[p].records, key)
  <2>1. v.scratch = u
    BY SearchIs
  <2>2. Answers(v, f[p].records, key)
    BY <1>3, <1>4, SearchFinds
  <2> HIDE DEF v
  <2>3. CASE v.outcome = "hit"
    <3>1. PICK j \in DOMAIN f[p].records : v.rule = f[p].records[j] /\ f[p].records[j].key = key
      BY <2>2, <2>3 DEF Answers
    <3>2. PICK i \in DOMAIN records : f[p].records[j] = records[i]
      BY <1>3, <1>4, <3>1
    <3> QED
      BY <1>2, <2>1, <2>3, <3>1, <3>2 DEF Replies, v
  <2>4. CASE v.outcome # "hit"
    <3>1. v.outcome = "miss" /\ \A j \in DOMAIN f[p].records : f[p].records[j].key # key
      BY <2>2, <2>4 DEF Answers
    <3>2. ASSUME NEW r \in Kept(list), r.key = key
          PROVE  FALSE
      <4>1. PICK i \in DOMAIN records : records[i] = r
        BY <1>1
      <4>2. PICK j \in DOMAIN f[p].records : f[p].records[j] = records[i]
        BY <1>3, <1>4, <3>2, <4>1
      <4> QED
        BY <3>1, <3>2, <4>1, <4>2
    <3> QED
      BY <2>1, <3>1, <3>2 DEF Replies, v
  <2> QED
    BY <2>3, <2>4
<1>5. CASE p = NoPage
  <2>1. t = Miss(s)
    BY <1>5 DEF Find, p, NoPage
  <2>2. t.scratch = s /\ t.outcome = "miss"
    BY <2>1 DEF Miss
  <2>3. \A r \in Kept(list) : r.key # key
    BY <1>1, <1>3, <1>5
  <2> HIDE DEF t
  <2> QED
    BY <2>2, <2>3 DEF Replies, t
<1>6. CASE p # NoPage /\ cached # {}
  <2>1. k \in 1 .. Slots /\ s.slots[k].page = p
    BY <1>6 DEF Holding
  <2>2. s.slots[k].bytes = f[p]
    BY <1>6, <2>1 DEF Held
  <2>3. t = Search(s, s.slots[k].bytes.records, key)
    BY <1>6 DEF Find, p, NoPage
  <2>4. t = Search(s, f[p].records, key)
    BY <2>2, <2>3
  <2> HIDE DEF t
  <2> QED
    BY <1>4, <1>6, <2>4 DEF t
<1>7. CASE p # NoPage /\ cached = {}
  <2>1. Held(claimed, f) /\ claimed.slots[s.next + 1].bytes = f[p]
    BY HeldAfterRead
  <2>2. read.slots[s.next + 1].bytes = f[p]
    BY HeldAfterRead
  <2>3. t = IF ~Sound(read.slots[s.next + 1].bytes, fs[p]) THEN Error(read)
            ELSE Search(claimed, claimed.slots[s.next + 1].bytes.records, key)
    BY <1>7 DEF Find, p
  <2> HIDE DEF t, read, claimed
  <2>4. t = Search(claimed, f[p].records, key)
    BY <1>3, <1>7, <2>1, <2>2, <2>3
  <2> QED
    BY <1>4, <1>7, <2>1, <2>4 DEF t
<1> QED
  BY <1>5, <1>6, <1>7

\* The candidates of two symbols: one, if the list has a rule for them.
Proposals(list, s, l, r) ==
  {Candidate(s, l, r, q) : q \in {e \in Kept(list) : e.key = PairKey(s[l].id, s[r].id)}}

ProposalsOf(list, s, l, r) == IF l = None \/ r = None THEN {} ELSE Proposals(list, s, l, r)

(* One offer. *)
LEMMA OfferFinds ==
  ASSUME MergeList(rules), file = Pages(Records(rules)), fences = Fences(file),
         fences \in Seq(Int), NEW s,
         NEW o, Scratches(o.scratch, fences), Held(o.scratch, file), ~o.throws,
         NEW l, NEW r, l # None /\ r # None => s[l].id \in Token /\ s[r].id \in Token
  PROVE  LET t == Offer(s, o, l, r)
         IN  /\ Scratches(t.scratch, fences) /\ Held(t.scratch, file) /\ ~t.throws
             /\ t.found = o.found \cup ProposalsOf(rules, s, l, r)
<1> DEFINE t == Offer(s, o, l, r)
           key == PairKey(s[l].id, s[r].id)
           f == Find(file, fences, o.scratch, key)
<1>1. CASE l = None \/ r = None
  <2>1. t = o
    BY <1>1 DEF Offer
  <2> QED
    BY <1>1, <2>1 DEF ProposalsOf
<1>2. CASE l # None /\ r # None
  <2>1. t = [scratch |-> f.scratch,
             found   |-> o.found \cup
                           IF f.outcome = "hit" THEN {Candidate(s, l, r, f.rule)} ELSE {},
             throws  |-> f.outcome = "error"]
    BY <1>2 DEF Offer
  <2> HIDE DEF t, f
  <2>2. key \in Int
    BY <1>2, KeyOfPair
  <2>3. Held(f.scratch, file) /\ Replies(f, rules, key) /\ Scratches(f.scratch, fences)
    <3> HIDE DEF key
    <3>1. Held(f.scratch, file) /\ Replies(f, rules, key)
      BY <2>2, FindIs DEF f
    <3>2. Scratches(f.scratch, fences)
      BY <2>2, FindChecked DEF f
    <3> QED
      BY <3>1, <3>2
  <2>4. \A q, e \in Kept(rules) : q.key = e.key => q = e
    BY KeptRecords
  <2>5. CASE f.outcome = "hit"
    <3>1. f.rule \in Kept(rules) /\ f.rule.key = key
      BY <2>3, <2>5 DEF Replies
    <3>2. {e \in Kept(rules) : e.key = key} = {f.rule}
      BY <2>4, <3>1
    <3>3. Proposals(rules, s, l, r) = {Candidate(s, l, r, f.rule)}
      BY <3>2 DEF Proposals
    <3>4. t.found = o.found \cup {Candidate(s, l, r, f.rule)} /\ ~t.throws /\ t.scratch = f.scratch
      BY <2>1, <2>5
    <3> QED
      BY <1>2, <2>3, <3>3, <3>4 DEF t, ProposalsOf
  <2>6. CASE f.outcome # "hit"
    <3>1. f.outcome = "miss" /\ \A e \in Kept(rules) : e.key # key
      BY <2>3, <2>6 DEF Replies
    <3>2. Proposals(rules, s, l, r) = {}
      BY <3>1 DEF Proposals
    <3>3. t.found = o.found /\ ~t.throws /\ t.scratch = f.scratch
      BY <2>1, <3>1
    <3> QED
      BY <1>2, <2>3, <3>2, <3>3 DEF t, ProposalsOf
  <2> QED
    BY <2>5, <2>6
<1> QED
  BY <1>1, <1>2

(* Of a file as it was written, offers take every rule there is. *)
LEMMA OffersFind ==
  ASSUME MergeList(rules), file = Pages(Records(rules)), fences = Fences(file),
         fences \in Seq(Int), Scratches(scratch, fences), Held(scratch, file),
         NEW s, NEW pairs, Pairs(s, pairs)
  PROVE  LET o == Offers(s, pairs)
         IN  /\ Held(o.scratch, file) /\ ~o.throws
             /\ o.found = UNION {ProposalsOf(rules, s, pairs[k][1], pairs[k][2]) : k \in DOMAIN pairs}
<1> DEFINE n == Len(pairs)
           Of(k) == ProposalsOf(rules, s, pairs[k][1], pairs[k][2])
           Fine(o, k) == /\ Scratches(o.scratch, fences) /\ Held(o.scratch, file) /\ ~o.throws
                         /\ o.found = UNION {Of(j) : j \in 1 .. k}
<1>1. n \in Nat /\ DOMAIN pairs = 1 .. n
  BY DEF Pairs
<1> HIDE DEF n
<1>2. PICK u : InTurn(u, s, pairs, n) /\ Offers(s, pairs) = u[n]
  BY <1>1, OffersInTurn DEF n
<1> HIDE DEF Of
<1> DEFINE A == {k \in 0 .. n : Fine(u[k], k)}
<1>3. 0 \in A
  <2>1. u[0] = NothingOffered /\ 0 \in 0 .. n
    BY <1>1, <1>2 DEF InTurn
  <2>2. UNION {Of(j) : j \in 1 .. 0} = {}
    OBVIOUS
  <2> QED
    BY <2>1, <2>2 DEF NothingOffered
<1>4. ASSUME NEW k \in 0 .. n - 1, k \in A
      PROVE  k + 1 \in A
  <2>1. k + 1 \in 1 .. n /\ (k + 1) - 1 = k /\ k + 1 \in 0 .. n /\ k \in Nat
    BY <1>1
  <2> DEFINE l == pairs[k + 1][1]
             r == pairs[k + 1][2]
             o == u[k]
             t == Offer(s, o, l, r)
  <2>2. u[k + 1] = t
    BY <1>2, <2>1 DEF InTurn
  <2>3. l # None /\ r # None => s[l].id \in Token /\ s[r].id \in Token
    BY <1>1, <2>1 DEF Pairs
  <2>4. Fine(o, k)
    BY <1>4
  <2> HIDE DEF l, r, o, t
  <2>5. /\ Scratches(t.scratch, fences) /\ Held(t.scratch, file) /\ ~t.throws
        /\ t.found = o.found \cup ProposalsOf(rules, s, l, r)
    BY <2>3, <2>4, OfferFinds DEF t
  <2>6. ProposalsOf(rules, s, l, r) = Of(k + 1)
    BY DEF Of, l, r
  <2>7. UNION {Of(j) : j \in 1 .. k + 1} = (UNION {Of(j) : j \in 1 .. k}) \cup Of(k + 1)
    <3>1. 1 .. k + 1 = (1 .. k) \cup {k + 1}
      BY <2>1
    <3> HIDE DEF Of
    <3> QED
      BY <3>1
  <2>8. Fine(t, k + 1)
    BY <2>4, <2>5, <2>6, <2>7
  <2> QED
    BY <2>1, <2>2, <2>8
<1>5. n \in A
  <2>1. \A k \in 0 .. n - 1 : k \in A => k + 1 \in A
    BY <1>4
  <2> HIDE DEF A
  <2>2. 0 .. n \subseteq A
    BY <1>1, <1>3, <2>1, Induction
  <2> QED
    BY <1>1, <2>2
<1>6. Fine(Offers(s, pairs), n)
  BY <1>2, <1>5
<1>7. UNION {Of(j) : j \in 1 .. n} =
        UNION {ProposalsOf(rules, s, pairs[k][1], pairs[k][2]) : k \in DOMAIN pairs}
  BY <1>1 DEF Of
<1> QED
  BY <1>6, <1>7

-----------------------------------------------------------------------------
(* Records and rules. *)

(* A token that is the first of its piece. *)
Canonical(id) == id \in Token /\ id = Id(Vocab[id])

\* The rules of two pieces.
RulesOf(list, x, y) == {k \in DOMAIN list : Usable(list[k]) /\ list[k] = <<x, y>>}

(* Pieces have first ids. *)
LEMMA FirstIds ==
  ASSUME NEW piece, Known(piece)
  PROVE  Canonical(Id(piece)) /\ Vocab[Id(piece)] = piece
BY Naming DEF Canonical

(* The kept record of two tokens is the first rule of their pieces. *)
LEMMA KeptOfPair ==
  ASSUME NEW list, MergeList(list), NEW l, Canonical(l), NEW r, Canonical(r)
  PROVE  /\ \A q \in Kept(list) : q.key = PairKey(l, r) =>
              /\ q.rank \in RulesOf(list, Vocab[l], Vocab[r])
              /\ \A k \in RulesOf(list, Vocab[l], Vocab[r]) : q.rank <= k
              /\ Known(Vocab[l] \o Vocab[r]) /\ q.merged = Id(Vocab[l] \o Vocab[r])
         /\ RulesOf(list, Vocab[l], Vocab[r]) # {} =>
              \E q \in Kept(list) : q.key = PairKey(l, r)
<1>0. l \in Token /\ r \in Token /\ l = Id(Vocab[l]) /\ r = Id(Vocab[r])
  BY DEF Canonical
<1>1. ASSUME NEW k \in RulesOf(list, Vocab[l], Vocab[r])
      PROVE  /\ RecordOf(list, k) \in RawRecords(list)
             /\ RecordOf(list, k).key = PairKey(l, r) /\ RecordOf(list, k).rank = k
  <2>1. k \in DOMAIN list /\ Usable(list[k]) /\ list[k] = <<Vocab[l], Vocab[r]>>
    BY <1>1 DEF RulesOf
  <2>2. RecordOf(list, k) \in RawRecords(list)
    BY <2>1, RecordOfRule
  <2>3. list[k][1] = Vocab[l] /\ list[k][2] = Vocab[r]
    BY <2>1
  <2>4. /\ RecordOf(list, k).key = PairKey(Id(list[k][1]), Id(list[k][2]))
        /\ RecordOf(list, k).rank = k
    BY DEF RecordOf
  <2> QED
    BY <1>0, <2>2, <2>3, <2>4
<1>2. ASSUME NEW q \in Kept(list), q.key = PairKey(l, r)
      PROVE  /\ q.rank \in RulesOf(list, Vocab[l], Vocab[r])
             /\ \A k \in RulesOf(list, Vocab[l], Vocab[r]) : q.rank <= k
             /\ Known(Vocab[l] \o Vocab[r]) /\ q.merged = Id(Vocab[l] \o Vocab[r])
  <2>1. q \in RawRecords(list) /\ \A e \in RawRecords(list) : e.key = q.key => q.rank <= e.rank
    BY DEF Kept
  <2>2. PICK k \in DOMAIN list : Usable(list[k]) /\ q = RecordOf(list, k)
    BY <2>1, RawRecordsTyped
  <2> DEFINE a == list[k][1]
             b == list[k][2]
  <2>3. Known(a) /\ Known(b) /\ Known(a \o b) /\ Len(list[k]) = 2
    BY <2>2 DEF Usable
  <2>4. q.key = PairKey(Id(a), Id(b)) /\ q.rank = k /\ q.merged = Id(a \o b)
    BY <2>2 DEF RecordOf
  <2>5. list[k] = <<a, b>>
    <3>1. list[k] \in Seq({list[k][i] : i \in DOMAIN list[k]})
      BY DEF MergeList, IsSequence
    <3> QED
      BY <2>3, <3>1
  <2> HIDE DEF a, b
  <2>6. Id(a) = l /\ Id(b) = r
    <3>1. Id(a) \in Token /\ Id(b) \in Token
      BY <2>3, Naming
    <3>2. PairKey(Id(a), Id(b)) = PairKey(l, r)
      BY <1>2, <2>4
    <3>3. \A m, s \in Token : PairKey(m, s) = PairKey(l, r) => m = l /\ s = r
      BY <1>0, KeyOfPair
    <3> QED
      BY <3>1, <3>2, <3>3
  <2>7. a = Vocab[l] /\ b = Vocab[r]
    BY <2>3, <2>6, Naming
  <2>8. q.rank \in RulesOf(list, Vocab[l], Vocab[r])
    BY <2>2, <2>4, <2>5, <2>7 DEF RulesOf
  <2>9. \A j \in RulesOf(list, Vocab[l], Vocab[r]) : q.rank <= j
    BY <1>1, <1>2, <2>1
  <2> QED
    BY <2>3, <2>4, <2>7, <2>8, <2>9
<1>3. ASSUME RulesOf(list, Vocab[l], Vocab[r]) # {}
      PROVE  \E q \in Kept(list) : q.key = PairKey(l, r)
  <2>1. PICK k \in RulesOf(list, Vocab[l], Vocab[r]) : TRUE
    BY <1>3
  <2> QED
    BY <1>1, <2>1, KeptRecords
<1> QED
  BY <1>2, <1>3

\* The pieces along a path.
Word(p, s) == [k \in 1 .. Len(p) |-> Vocab[s[p[k]].id]]

(* What may be merged of a word, by which rank. *)
LEMMA MergeableIs ==
  ASSUME MergeList(rules), NEW w, Len(w) \in Nat
  PROVE  /\ Encoding!Mergeable(w) = {i \in 1 .. Len(w) - 1 : RulesOf(rules, w[i], w[i + 1]) # {}}
         /\ \A x, y : \A k \in RulesOf(rules, x, y) :
              (\A j \in RulesOf(rules, x, y) : k <= j) => Encoding!Rank(x, y) = k
<1>1. rules \in Seq({rules[k] : k \in DOMAIN rules})
  BY DEF MergeList, IsSequence
<1>2. Len(rules) \in Nat /\ DOMAIN rules = 1 .. Len(rules)
  BY <1>1
<1>3. DOMAIN UsableRules = DOMAIN rules
  BY DEF UsableRules
<1>4. \A x, y : \A k \in DOMAIN rules : UsableRules[k] = <<x, y>> <=> k \in RulesOf(rules, x, y)
  <2>1. ASSUME NEW x, NEW y, NEW k \in DOMAIN rules
        PROVE  UsableRules[k] = <<x, y>> <=> k \in RulesOf(rules, x, y)
    <3>1. UsableRules[k] = IF Usable(rules[k]) THEN rules[k] ELSE <<>>
      BY DEF UsableRules
    <3>2. <<>> # <<x, y>>
      OBVIOUS
    <3> QED
      BY <3>1, <3>2 DEF RulesOf
  <2> QED
    BY <2>1
<1>5. \A x, y : RulesOf(rules, x, y) \subseteq DOMAIN rules
  BY DEF RulesOf
<1>6. Encoding!Mergeable(w) = {i \in 1 .. Len(w) - 1 : RulesOf(rules, w[i], w[i + 1]) # {}}
  <2>1. ASSUME NEW i \in 1 .. Len(w) - 1
        PROVE  (\E k \in DOMAIN UsableRules : UsableRules[k] = <<w[i], w[i + 1]>>)
                 <=> RulesOf(rules, w[i], w[i + 1]) # {}
    <3> DEFINE x == w[i]
               y == w[i + 1]
    <3>1. \A k \in DOMAIN rules : UsableRules[k] = <<x, y>> <=> k \in RulesOf(rules, x, y)
      BY <1>4
    <3>2. RulesOf(rules, x, y) \subseteq DOMAIN rules
      BY <1>5
    <3> HIDE DEF x, y
    <3>3. (\E k \in DOMAIN UsableRules : UsableRules[k] = <<x, y>>) <=> RulesOf(rules, x, y) # {}
      BY <1>3, <3>1, <3>2
    <3> QED
      BY <3>3 DEF x, y
  <2> QED
    BY <2>1 DEF Encoding!Mergeable
<1>7. ASSUME NEW x, NEW y, NEW k \in RulesOf(rules, x, y), \A j \in RulesOf(rules, x, y) : k <= j
      PROVE  Encoding!Rank(x, y) = k
  <2> DEFINE IsRank(e) == /\ UsableRules[e] = <<x, y>>
                          /\ \A j \in 1 .. e - 1 : UsableRules[j] # <<x, y>>
  <2>1. k \in DOMAIN rules /\ k \in Int
    BY <1>2, <1>5
  <2>2. IsRank(k)
    <3>1. ASSUME NEW j \in 1 .. k - 1
          PROVE  UsableRules[j] # <<x, y>>
      <4>1. j \in DOMAIN rules /\ ~(k <= j)
        BY <1>2, <2>1
      <4> QED
        BY <1>4, <1>7, <4>1
    <3> QED
      BY <1>4, <2>1, <3>1
  <2>3. ASSUME NEW e \in DOMAIN rules, IsRank(e)
        PROVE  e = k
    <3>1. e \in RulesOf(rules, x, y) /\ e \in Int
      BY <1>2, <1>4, <2>3
    <3>2. k <= e /\ ~(k < e)
      <4>1. k < e => k \in 1 .. e - 1
        BY <1>2, <2>1, <3>1
      <4> QED
        BY <1>7, <2>2, <2>3, <3>1, <4>1
    <3> QED
      BY <2>1, <3>1, <3>2
  <2>4. Encoding!Rank(x, y) = CHOOSE e \in DOMAIN rules : IsRank(e)
    BY <1>3 DEF Encoding!Rank
  <2> HIDE DEF IsRank
  <2> QED
    BY <2>1, <2>2, <2>3, <2>4
<1> QED
  BY <1>6, <1>7

-----------------------------------------------------------------------------
(* As long as the file is intact, the queue has all there is to merge.     *)

\* The index is in memory.
Loaded == {"start", "rejected", "skipped", "merge", "failed", "done"}

\* The ids of a list are the first of their pieces.
Firsts(s) == \A i \in DOMAIN s : s[i].id # Gone => Canonical(s[i].id)

\* Candidates come from records of their pair.
Grounded(q) ==
  \A c \in q : \E e \in Kept(rules) :
    e.key = PairKey(c.lid, c.rid) /\ c.rank = e.rank /\ c.merged = e.merged

\* Neighbours with a rule have their candidate.
Complete(q, s) ==
  \A i \in DOMAIN s :
    s[i].id # Gone /\ s[i].next # None => Proposals(rules, s, i, s[i].next) \subseteq q

(* What holds until someone edits the file. *)
Faithful ==
  intact =>
    /\ pc \in Loaded => file = Pages(Records(rules)) /\ fences = Fences(file)
    /\ Held(scratch, file)
    /\ Firsts(syms)
    /\ Grounded(queue)
    /\ pc \in {"load", "start"} => syms = <<>>
    /\ pc = "merge" => syms # <<>> /\ Complete(queue, syms)

(* The rule of neighbours whose ids are the first of their pieces. *)
LEMMA RankOfPair ==
  ASSUME MergeList(rules), NEW l, Canonical(l), NEW r, Canonical(r),
         NEW e \in Kept(rules), e.key = PairKey(l, r)
  PROVE  /\ Encoding!Rank(Vocab[l], Vocab[r]) = e.rank /\ e.rank \in Nat
         /\ RulesOf(rules, Vocab[l], Vocab[r]) # {}
         /\ Canonical(e.merged) /\ Vocab[e.merged] = Vocab[l] \o Vocab[r]
<1> DEFINE x == Vocab[l]
           y == Vocab[r]
<1>1. /\ e.rank \in RulesOf(rules, x, y) /\ \A k \in RulesOf(rules, x, y) : e.rank <= k
      /\ Known(x \o y) /\ e.merged = Id(x \o y)
  BY KeptOfPair
<1>2. Canonical(e.merged) /\ Vocab[e.merged] = x \o y
  BY <1>1, FirstIds
<1>3. \A u, v : \A k \in RulesOf(rules, u, v) :
        (\A j \in RulesOf(rules, u, v) : k <= j) => Encoding!Rank(u, v) = k
  <2>1. Len(<<>>) \in Nat
    OBVIOUS
  <2> QED
    BY <2>1, MergeableIs
<1>4. Encoding!Rank(x, y) = e.rank
  BY <1>1, <1>3
<1>5. e.rank \in Nat
  <2>1. e.rank \in DOMAIN rules
    BY <1>1 DEF RulesOf
  <2>2. rules \in Seq({rules[k] : k \in DOMAIN rules})
    BY DEF MergeList, IsSequence
  <2> QED
    BY <2>1, <2>2
<1> QED
  BY <1>1, <1>2, <1>4, <1>5

(* A candidate knows its pair. *)
LEMMA ProposalsGrounded ==
  ASSUME NEW s, NEW l, NEW r
  PROVE  Grounded(ProposalsOf(rules, s, l, r))
<1>1. ASSUME NEW c \in Proposals(rules, s, l, r)
      PROVE  \E e \in Kept(rules) :
               e.key = PairKey(c.lid, c.rid) /\ c.rank = e.rank /\ c.merged = e.merged
  <2>1. PICK e \in Kept(rules) : e.key = PairKey(s[l].id, s[r].id) /\ c = Candidate(s, l, r, e)
    BY DEF Proposals
  <2>2. c.lid = s[l].id /\ c.rid = s[r].id /\ c.rank = e.rank /\ c.merged = e.merged
    BY <2>1 DEF Candidate
  <2> QED
    BY <2>1, <2>2
<1> QED
  BY <1>1 DEF ProposalsOf, Grounded

(* What is offered joins a queue that was lacking nothing else.            *)
LEMMA EnqueueFaithful ==
  ASSUME IInv, Faithful, intact, pc \in Loaded,
         NEW s, s # <<>>, Firsts(s), NEW pairs, Pairs(s, pairs), NEW rest, Grounded(rest),
         Complete(rest \cup UNION {ProposalsOf(rules, s, pairs[k][1], pairs[k][2]) :
                                     k \in DOMAIN pairs}, s),
         syms' = s, Enqueue(rest, Offers(s, pairs))
  PROVE  Faithful'
<1> DEFINE Of(k) == ProposalsOf(rules, s, pairs[k][1], pairs[k][2])
           o == Offers(s, pairs)
<1>1. /\ UNCHANGED <<rules, file, fences, intact>>
      /\ queue' = rest \cup o.found /\ scratch' = o.scratch
      /\ pc' = IF o.throws THEN "failed" ELSE "merge"
  BY DEF Enqueue, input, index
<1>2. /\ MergeList(rules) /\ file = Pages(Records(rules)) /\ fences = Fences(file)
      /\ fences \in Seq(Int) /\ Scratches(scratch, fences) /\ Held(scratch, file)
  BY DEF IInv, Types, ScratchIsChecked, Faithful
<1>3. Held(o.scratch, file) /\ ~o.throws /\ o.found = UNION {Of(k) : k \in DOMAIN pairs}
  BY <1>2, OffersFind
<1>4. \A k : Grounded(Of(k))
  BY ProposalsGrounded
<1> HIDE DEF Of, o
<1>5. Grounded(queue')
  <2>1. ASSUME NEW c \in queue'
        PROVE  \E e \in Kept(rules) :
                 e.key = PairKey(c.lid, c.rid) /\ c.rank = e.rank /\ c.merged = e.merged
    <3>1. CASE c \in rest
      BY <3>1 DEF Grounded
    <3>2. CASE c \notin rest
      <4>1. PICK k : c \in Of(k)
        BY <1>1, <1>3, <3>2
      <4> QED
        BY <1>4, <4>1 DEF Grounded
    <3> QED
      BY <3>1, <3>2
  <2> QED
    BY <2>1 DEF Grounded
<1>6. Complete(queue', s)
  BY <1>1, <1>3 DEF Of
<1>7. Grounded(queue)'
  BY <1>1, <1>5 DEF Grounded
<1>8. Complete(queue, syms)'
  <2>1. rules' = rules /\ syms' = s
    BY <1>1
  <2> QED
    BY <1>6, <2>1 DEF Complete, Proposals, Candidate
<1>9. Held(scratch, file)' /\ Firsts(syms)'
  BY <1>1, <1>3 DEF Held, Firsts
<1>10. file' = Pages(Records(rules))' /\ fences' = Fences(file)'
  BY <1>1, <1>2
<1>11. pc' \notin {"load", "start"}
  BY <1>1
<1> QED
  BY <1>7, <1>8, <1>9, <1>10, <1>11 DEF Faithful

(* Everything that Faithful is about but the file stays. *)
LEMMA SameFaithful ==
  ASSUME Faithful, UNCHANGED <<rules, file, fences, intact, scratch, syms, queue>>,
         pc' \in Loaded => pc \in Loaded, pc' = "merge" => pc = "merge",
         pc' \in {"load", "start"} => pc \in {"load", "start"}
  PROVE  Faithful'
<1>1. Firsts(syms)' = Firsts(syms) /\ Grounded(queue)' = Grounded(queue)
      /\ Complete(queue, syms)' = Complete(queue, syms)
  BY DEF Firsts, Canonical, Grounded, Complete, Proposals, Candidate
<1>2. Held(scratch, file)' = Held(scratch, file)
  BY DEF Held
<1>3. Pages(Records(rules))' = Pages(Records(rules)) /\ Fences(file)' = Fences(file)
  OBVIOUS
<1> QED
  BY <1>1, <1>2, <1>3 DEF Faithful

(* The file was just written. *)
LEMMA LoadFaithful ==
  ASSUME IInv, Faithful, Load
  PROVE  Faithful'
<1>1. UNCHANGED <<rules, intact, scratch, syms, queue>> /\ pc = "load"
  BY DEF Load, input
<1>2. scratch = EmptyScratch
  BY <1>1 DEF IInv, ScratchIsChecked
<1>3. pc' = "unloadable"
      \/ (pc' = "start" /\ file' = Pages(Records(rules)) /\ fences' = Fences(Pages(Records(rules))))
  BY DEF Load
<1>4. Held(scratch, file)'
  <2>1. \A k \in 1 .. Slots : scratch'.slots[k].page = NoPage
    BY <1>1, <1>2 DEF EmptyScratch
  <2> QED
    BY <2>1 DEF Held
<1>5. Firsts(syms)' = Firsts(syms) /\ Grounded(queue)' = Grounded(queue)
  BY <1>1 DEF Firsts, Canonical, Grounded
<1>6. pc' \in Loaded => file' = Pages(Records(rules))' /\ fences' = Fences(file)'
  BY <1>1, <1>3 DEF Loaded
<1>7. pc' # "merge"
  BY <1>3
<1> QED
  BY <1>1, <1>4, <1>5, <1>6, <1>7 DEF Faithful

(* Every pair of neighbours is offered. *)
LEMMA ScanFaithful ==
  ASSUME IInv, Faithful, Scan
  PROVE  Faithful'
<1> DEFINE pairs == [i \in 1 .. Len(text) - 1 |-> <<i, i + 1>>]
           Of(k) == ProposalsOf(rules, Symbols, pairs[k][1], pairs[k][2])
<1>1. /\ syms' = Symbols /\ text # <<>> /\ Enqueue({}, Offers(Symbols, pairs))
      /\ pc = "start"
  BY DEF Scan
<1>2. IsSequence(text) /\ \A k \in DOMAIN text : Known(<<text[k]>>)
  BY DEF IInv, Types
<1>3. /\ DOMAIN Symbols = DOMAIN text /\ Symbols # <<>> /\ Pairs(Symbols, pairs)
      /\ \A i \in DOMAIN text : Symbols[i].id = Id(<<text[i]>>)
  BY <1>1, <1>2, ScannedList, ScannedPairs
<1>4. Firsts(Symbols)
  <2>1. \A i \in DOMAIN text : Canonical(Id(<<text[i]>>))
    BY <1>2, FirstIds
  <2> QED
    BY <1>3, <2>1 DEF Firsts
<1>5. Complete({} \cup UNION {Of(k) : k \in DOMAIN pairs}, Symbols)
  <2>1. ASSUME NEW i \in DOMAIN text, Symbols[i].next # None
        PROVE  Proposals(rules, Symbols, i, Symbols[i].next)
                 \subseteq UNION {Of(k) : k \in DOMAIN pairs}
    <3>1. Symbols[i].next = IF i = Len(text) THEN None ELSE i + 1
      BY DEF Symbols
    <3>2. text \in Seq({text[j] : j \in DOMAIN text})
      BY <1>2 DEF IsSequence
    <3>3. i \in 1 .. Len(text) - 1 /\ Symbols[i].next = i + 1 /\ i # None /\ i + 1 # None
      BY <2>1, <3>1, <3>2 DEF None
    <3>4. DOMAIN pairs = 1 .. Len(text) - 1 /\ pairs[i][1] = i /\ pairs[i][2] = i + 1
      BY <3>3
    <3>5. Of(i) = Proposals(rules, Symbols, i, Symbols[i].next)
      BY <3>3, <3>4 DEF ProposalsOf
    <3> HIDE DEF Of, pairs
    <3> QED
      BY <3>3, <3>4, <3>5
  <2> QED
    BY <1>3, <2>1 DEF Complete
<1>6. Faithful'
  <2>1. intact' = intact
    BY <1>1 DEF Enqueue, index
  <2>2. CASE intact
    <3>1. Grounded({}) /\ pc \in Loaded
      BY <1>1 DEF Grounded, Loaded
    <3> HIDE DEF pairs
    <3> QED
      BY <1>1, <1>3, <1>4, <1>5, <2>2, <3>1, EnqueueFaithful
  <2>3. CASE ~intact
    BY <2>1, <2>3 DEF Faithful
  <2> QED
    BY <2>2, <2>3
<1> QED
  BY <1>6

(* A stale candidate is none of two neighbours. *)
LEMMA DropStaleFaithful ==
  ASSUME IInv, Faithful, DropStale
  PROVE  Faithful'
<1>1. /\ UNCHANGED <<rules, file, fences, intact, scratch, syms, pc>> /\ pc = "merge"
  BY DEF DropStale, input, index
<1>2. PICK c \in queue : ~Valid(c) /\ queue' = queue \ {c}
  BY DEF DropStale
<1>3. CASE intact
  <2>1. Grounded(queue) /\ Complete(queue, syms) /\ Firsts(syms) /\ Held(scratch, file)
        /\ syms # <<>> /\ file = Pages(Records(rules)) /\ fences = Fences(file)
    BY <1>1, <1>3 DEF Faithful, Loaded
  <2>2. Complete(queue', syms)
    <3>1. ASSUME NEW i \in DOMAIN syms, syms[i].id # Gone, syms[i].next # None,
                 NEW d \in Proposals(rules, syms, i, syms[i].next)
          PROVE  d \in queue'
      <4>1. d \in queue
        BY <2>1, <3>1 DEF Complete
      <4>2. PICK e : d = Candidate(syms, i, syms[i].next, e)
        BY DEF Proposals
      <4>3. /\ d.left = i /\ d.right = syms[i].next
            /\ d.lid = syms[i].id /\ d.rid = syms[syms[i].next].id
        BY <4>2 DEF Candidate
      <4>4. Valid(d)
        BY <4>3 DEF Valid
      <4> QED
        BY <1>2, <4>1, <4>4
    <3> QED
      BY <3>1 DEF Complete
  <2>3. Complete(queue, syms)'
    BY <1>1, <2>2 DEF Complete, Proposals, Candidate
  <2>4. Grounded(queue)'
    BY <1>1, <1>2, <2>1 DEF Grounded
  <2>5. Held(scratch, file)' /\ Firsts(syms)'
    BY <1>1, <2>1 DEF Held, Firsts, Canonical
  <2>6. file' = Pages(Records(rules))' /\ fences' = Fences(file)'
    BY <1>1, <2>1
  <2> QED
    BY <1>1, <2>1, <2>3, <2>4, <2>5, <2>6 DEF Faithful
<1>4. CASE ~intact
  BY <1>1, <1>4 DEF Faithful
<1> QED
  BY <1>3, <1>4

(* What a merge leaves of the other symbols. *)
LEMMA OthersOf ==
  ASSUME NEW c, NEW i \in DOMAIN syms, i # c.left, i # c.right
  PROVE  Merged(c)[i].id = syms[i].id /\ Merged(c)[i].next = syms[i].next
<1> DEFINE after == syms[c.right].next
           behind == [syms[i] EXCEPT !.prev = c.left]
<1>1. Merged(c)[i] = IF i = after THEN behind ELSE syms[i]
  BY DEF Merged
<1>2. ASSUME syms[i] \in Symbol
      PROVE  behind.id = syms[i].id /\ behind.next = syms[i].next
  BY <1>2 DEF Symbol
<1> QED
  BY <1>1, <1>2

(* Only the pairs of the merged symbol are new, and both are offered. *)
LEMMA MergeFaithful ==
  ASSUME IInv, Faithful, Merge
  PROVE  Faithful'
<1>1. PICK c \in queue :
        /\ Best(c) /\ Valid(c) /\ syms' = Merged(c)
        /\ Enqueue(queue \ {c}, Offers(Merged(c), NewPairs(Merged(c), c.left)))
  BY DEF Merge
<1> DEFINE l == c.left
           r == c.right
           t == Merged(c)
           pairs == NewPairs(t, l)
           Of(k) == ProposalsOf(rules, t, pairs[k][1], pairs[k][2])
           all == (queue \ {c}) \cup UNION {Of(k) : k \in DOMAIN pairs}
<1>2. PICK p : Path(p, syms)
  BY DEF IInv, ListIsLinked
<1>3. /\ syms \in SymbolLists /\ l \in DOMAIN syms /\ r \in DOMAIN syms
      /\ c.lid \in Token /\ c.rid \in Token /\ c.merged \in Token /\ MergeList(rules)
  BY DEF IInv, ListIsLinked, QueueIsTyped, Proposed, Types
<1>4. PICK k \in 1 .. Len(p) - 1 : l = p[k] /\ r = p[k + 1]
  BY <1>1, <1>2, <1>3, ValidIsAdjacent
<1>5. /\ t \in SymbolLists /\ DOMAIN t = DOMAIN syms
      /\ Path(Without(p, k + 1), t) /\ t[l].id = c.merged
  BY <1>2, <1>3, <1>4, MergedList
<1>6. c.merged # Gone /\ c.lid # Gone /\ c.rid # Gone
  BY <1>3, Tokens DEF Gone
<1>7. Pairs(t, pairs)
  BY <1>3, <1>5, <1>6, NewPairsOf
<1>8. pairs = << <<t[l].prev, l>>, <<l, t[l].next>> >> /\ l # None
  <2>1. l # None
    BY <1>3, PathTyped, <1>2 DEF None
  <2> QED
    BY <2>1 DEF NewPairs
<1>9. /\ syms[l].id = c.lid /\ syms[l].next = r /\ syms[r].id = c.rid
  BY <1>1 DEF Valid
<1>10. t[r].id = Gone /\ l # r
  <2>1. l # r
    <3>1. k \in 1 .. Len(p) /\ k + 1 \in 1 .. Len(p) /\ k < k + 1
      BY <1>2, <1>3, PathTyped
    <3>2. p[k] < p[k + 1] /\ p[k] \in 1 .. Len(syms) /\ p[k + 1] \in 1 .. Len(syms)
      BY <1>2, <1>3, <3>1, PathTyped DEF Path
    <3> QED
      BY <1>4, <3>2
  <2>2. t[r] = [syms[r] EXCEPT !.id = Gone]
    BY <1>3, <2>1 DEF Merged
  <2>3. syms[r] \in Symbol
    BY <1>2, <1>3, PathTyped
  <2> QED
    BY <2>1, <2>2, <2>3 DEF Symbol
<1>11. \A i \in DOMAIN syms : i # l /\ i # r => t[i].id = syms[i].id /\ t[i].next = syms[i].next
  BY OthersOf
<1> HIDE DEF t
<1>12. CASE intact
  <2>1. /\ Grounded(queue) /\ Complete(queue, syms) /\ Firsts(syms) /\ pc \in Loaded
    BY <1>12 DEF Faithful, Merge, Loaded
  <2>2. Canonical(c.merged)
    <3>1. PICK e \in Kept(rules) : e.key = PairKey(c.lid, c.rid) /\ c.merged = e.merged
      BY <1>1, <2>1 DEF Grounded
    <3>2. Canonical(c.lid) /\ Canonical(c.rid)
      BY <1>3, <1>6, <1>9, <2>1 DEF Firsts
    <3> QED
      BY <1>3, <3>1, <3>2, RankOfPair
  <2>3. Firsts(t)
    BY <1>5, <1>10, <1>11, <2>1, <2>2 DEF Firsts
  <2>4. Grounded(queue \ {c})
    BY <2>1 DEF Grounded
  <2>5. DOMAIN pairs = 1 .. 2 /\ pairs[1][1] = t[l].prev /\ pairs[1][2] = l
        /\ pairs[2][1] = l /\ pairs[2][2] = t[l].next
    BY <1>8
  <2> HIDE DEF pairs
  <2>6. ASSUME NEW i \in DOMAIN t, t[i].id # Gone, t[i].next # None
        PROVE  Proposals(rules, t, i, t[i].next) \subseteq all
    <3> DEFINE n == t[i].next
    <3>1. i # None /\ n \in DOMAIN t /\ t[n].id # Gone /\ t[n].prev = i
      <4>1. n \in DOMAIN t /\ t[n].id # Gone /\ t[n].prev = i
        BY <1>5, <2>6, LinkedBothWays
      <4>2. i # None
        BY <1>2, <1>3, <1>5, PathTyped DEF None
      <4> QED
        BY <4>1, <4>2
    <3>2. CASE i = l
      <4>1. Of(2) = Proposals(rules, t, i, n)
        BY <1>8, <2>5, <2>6, <3>2 DEF ProposalsOf
      <4>2. 2 \in DOMAIN pairs
        BY <2>5
      <4> HIDE DEF Of, n
      <4> QED
        BY <4>1, <4>2 DEF n
    <3>3. CASE n = l
      <4>1. Of(1) = Proposals(rules, t, i, n)
        BY <1>8, <2>5, <3>1, <3>3 DEF ProposalsOf
      <4>2. 1 \in DOMAIN pairs
        BY <2>5
      <4> HIDE DEF Of, n
      <4> QED
        BY <4>1, <4>2 DEF n
    <3>4. CASE i # l /\ n # l
      <4>1. i # r /\ n # r
        BY <1>10, <2>6, <3>1
      <4>2. t[i].id = syms[i].id /\ n = syms[i].next /\ t[n].id = syms[n].id
        BY <1>5, <1>11, <2>6, <3>1, <3>4, <4>1
      <4>3. ASSUME NEW d \in Proposals(rules, t, i, n)
            PROVE  d \in queue \ {c}
        <5>1. PICK e \in Kept(rules) :
                e.key = PairKey(t[i].id, t[n].id) /\ d = Candidate(t, i, n, e)
          BY <4>3 DEF Proposals
        <5>2. d = Candidate(syms, i, n, e) /\ e.key = PairKey(syms[i].id, syms[n].id) /\ d.left = i
          BY <4>2, <5>1 DEF Candidate
        <5>3. d \in Proposals(rules, syms, i, syms[i].next)
          BY <4>2, <5>2 DEF Proposals
        <5>4. d \in queue
          BY <1>5, <2>1, <2>6, <4>2, <5>3 DEF Complete
        <5> QED
          BY <3>4, <5>2, <5>4
      <4> HIDE DEF Of, n
      <4> QED
        BY <4>3 DEF n
    <3> QED
      BY <3>2, <3>3, <3>4
  <2>7. Complete(all, t)
    <3> HIDE DEF all
    <3> QED
      BY <2>6 DEF Complete
  <2>8. t # <<>>
    BY <1>3, <1>5
  <2>9. syms' = t /\ Enqueue(queue \ {c}, Offers(t, pairs))
    BY <1>1 DEF t, pairs
  <2> QED
    BY <1>7, <1>12, <2>1, <2>3, <2>4, <2>7, <2>8, <2>9, EnqueueFaithful
<1>13. CASE ~intact
  <2>1. intact' = intact
    BY <1>1 DEF Enqueue, index
  <2> QED
    BY <1>13, <2>1 DEF Faithful
<1> QED
  BY <1>12, <1>13

(* There are no neighbours at first. *)
LEMMA InitFaithful ==
  ASSUME TokenizersInit
  PROVE  Faithful
<1>1. /\ syms = <<>> /\ queue = {} /\ scratch = EmptyScratch /\ pc \in {"load", "unused"}
  BY DEF TokenizersInit, Init_SpmBpe, Init_WordPiece, Init
<1>2. Held(scratch, file)
  <2>1. \A k \in 1 .. Slots : scratch.slots[k].page = NoPage
    BY <1>1 DEF EmptyScratch
  <2> QED
    BY <2>1 DEF Held
<1>3. Firsts(syms) /\ Grounded(queue)
  BY <1>1 DEF Firsts, Grounded
<1> QED
  BY <1>1, <1>2, <1>3 DEF Faithful, Loaded

(* As long as the file is intact, its pages are those that were written,   *)
(* the slots hold its pages, and the queue has every pair with a rule.     *)
LEMMA StepFaithful ==
  ASSUME IInv, Faithful, [create_tokenizer]_tokenizerVars
  PROVE  Faithful'
<1>1. CASE UNCHANGED vars
  BY <1>1, SameFaithful DEF vars
<1>2. CASE Reject
  BY <1>2, SameFaithful DEF Reject, input, index, Loaded
<1>3. CASE Skip
  BY <1>3, SameFaithful DEF Skip, input, index, Loaded
<1>4. CASE Emit
  BY <1>4, SameFaithful DEF Emit, input, index, Loaded
<1>5. CASE EditFile
  BY <1>5 DEF EditFile, Faithful
<1>6. CASE Next
  BY <1>2, <1>3, <1>4, <1>5, <1>6, LoadFaithful, ScanFaithful, DropStaleFaithful, MergeFaithful
     DEF Next
<1> QED
  BY <1>1, <1>6 DEF create_tokenizer, UseSpmBpe, UseWordPiece, tokenizerVars

-----------------------------------------------------------------------------
(* The list and the queue implement byte-pair encoding. *)

(* A list spells the pieces along its path. *)
LEMMA SpelledAlong ==
  ASSUME NEW s \in SymbolLists, NEW p, Path(p, s)
  PROVE  Spelled(Chain(s)) = Word(p, s)
<1>1. Chain(s) = Along(p, s)
  BY ChainIs
<1>2. DOMAIN Along(p, s) = 1 .. Len(p) /\ \A k \in 1 .. Len(p) : Along(p, s)[k] = s[p[k]].id
  BY DEF Along
<1> QED
  BY <1>1, <1>2 DEF Spelled, Word

\* A sequence with x for its k-th element and the one behind it.
Contracted(w, k, x) ==
  [j \in 1 .. Len(w) - 1 |-> IF j < k THEN w[j] ELSE IF j = k THEN x ELSE w[j + 1]]

(* Two elements of a sequence are replaced by one. *)
LEMMA Replaced ==
  ASSUME NEW T, NEW w \in Seq(T), NEW k \in 1 .. Len(w) - 1, NEW x \in T
  PROVE  SubSeq(w, 1, k - 1) \o <<x>> \o SubSeq(w, k + 2, Len(w)) = Contracted(w, k, x)
<1> DEFINE a == SubSeq(w, 1, k - 1)
           b == SubSeq(w, k + 2, Len(w))
           y == <<x>>
           u == a \o y
           r == u \o b
<1>1. PICK m \in Nat : m = Len(w) /\ DOMAIN w = 1 .. m /\ w \in [1 .. m -> T]
  OBVIOUS
<1>2. m \in Nat /\ k \in Nat /\ k >= 1 /\ k + 1 <= m
  BY <1>1
<1>3. a \in Seq(T) /\ Len(a) = k - 1 /\ \A j \in 1 .. k - 1 : a[j] = w[j]
  BY <1>1, <1>2
<1>4. b \in Seq(T) /\ Len(b) = m - k - 1 /\ \A j \in 1 .. m - k - 1 : b[j] = w[j + k + 1]
  <2>1. CASE k + 1 = m
    <3>1. b = <<>>
      BY <1>1, <1>2, <2>1, SubSeqEmpty
    <3>2. \A j \in 1 .. m - k - 1 : FALSE
      BY <1>2, <2>1
    <3>3. m - k - 1 = 0
      BY <1>2, <2>1
    <3> HIDE DEF b
    <3> QED
      BY <3>1, <3>2, <3>3
  <2>2. CASE k + 1 # m
    <3>1. k + 2 \in 1 .. m /\ m - (k + 2) + 1 = m - k - 1
      BY <1>2, <2>2
    <3>2. b \in Seq(T) /\ Len(b) = m - (k + 2) + 1
      BY <1>1, <3>1
    <3>3. ASSUME NEW j \in 1 .. m - k - 1
          PROVE  b[j] = w[j + k + 1]
      <4>1. j \in 1 .. m - (k + 2) + 1 /\ (k + 2) + j - 1 = j + k + 1
        BY <1>2, <3>1
      <4>2. b[j] = w[(k + 2) + j - 1]
        BY <1>1, <3>1, <4>1
      <4> QED
        BY <4>1, <4>2
    <3> HIDE DEF b
    <3> QED
      BY <3>1, <3>2, <3>3
  <2> QED
    BY <2>1, <2>2
<1>5. y \in Seq(T) /\ Len(y) = 1 /\ y[1] = x
  OBVIOUS
<1> HIDE DEF a, b, y
<1>6. u \in Seq(T) /\ Len(u) = k /\ \A j \in 1 .. k : u[j] = IF j < k THEN w[j] ELSE x
  <2>1. /\ u \in Seq(T) /\ Len(u) = Len(a) + Len(y)
        /\ \A j \in 1 .. Len(a) + Len(y) : u[j] = IF j <= Len(a) THEN a[j] ELSE y[j - Len(a)]
    BY <1>3, <1>5, ConcatProperties
  <2> HIDE DEF u
  <2>2. Len(a) + Len(y) = k
    BY <1>2, <1>3, <1>5
  <2>3. ASSUME NEW j \in 1 .. k
        PROVE  u[j] = IF j < k THEN w[j] ELSE x
    <3>1. u[j] = IF j <= k - 1 THEN a[j] ELSE y[j - (k - 1)]
      BY <1>3, <2>1, <2>2
    <3>2. CASE j < k
      <4>1. j <= k - 1 /\ j \in 1 .. k - 1
        BY <1>2, <3>2
      <4> QED
        BY <1>3, <3>1, <3>2, <4>1
    <3>3. CASE ~(j < k)
      <4>1. ~(j <= k - 1) /\ j - (k - 1) = 1
        BY <1>2, <3>3
      <4> QED
        BY <1>5, <3>1, <3>3, <4>1
    <3> QED
      BY <3>2, <3>3
  <2> QED
    BY <2>1, <2>2, <2>3
<1> HIDE DEF u
<1>7. /\ r \in Seq(T) /\ Len(r) = m - 1
      /\ \A j \in 1 .. m - 1 : r[j] = IF j < k THEN w[j] ELSE IF j = k THEN x ELSE w[j + 1]
  <2>1. /\ r \in Seq(T) /\ Len(r) = Len(u) + Len(b)
        /\ \A j \in 1 .. Len(u) + Len(b) : r[j] = IF j <= Len(u) THEN u[j] ELSE b[j - Len(u)]
    <3>1. u \in Seq(T) /\ b \in Seq(T)
      BY <1>4, <1>6
    <3> QED
      BY <3>1, ConcatProperties
  <2> HIDE DEF r
  <2>2. Len(u) + Len(b) = m - 1
    <3>1. Len(u) = k /\ Len(b) = m - k - 1
      BY <1>4, <1>6
    <3>2. k + (m - k - 1) = m - 1
      BY <1>2
    <3> QED
      BY <3>1, <3>2
  <2>3. ASSUME NEW j \in 1 .. m - 1
        PROVE  r[j] = IF j < k THEN w[j] ELSE IF j = k THEN x ELSE w[j + 1]
    <3>1. r[j] = IF j <= k THEN u[j] ELSE b[j - k]
      BY <1>6, <2>1, <2>2
    <3>2. CASE j > k
      <4>1. j - k \in 1 .. m - k - 1 /\ (j - k) + k + 1 = j + 1 /\ ~(j <= k) /\ ~(j < k) /\ j # k
        BY <1>1, <1>2, <3>2
      <4> QED
        BY <1>4, <3>1, <4>1
    <3>3. CASE ~(j > k)
      <4>1. j \in 1 .. k /\ j <= k /\ (~(j < k) => j = k)
        BY <1>1, <1>2, <3>3
      <4> QED
        BY <1>6, <3>1, <4>1
    <3> QED
      BY <3>2, <3>3
  <2> QED
    BY <2>1, <2>2, <2>3
<1> DEFINE v == [j \in 1 .. m - 1 |-> IF j < k THEN w[j] ELSE IF j = k THEN x ELSE w[j + 1]]
<1>8. r = v
  <2>1. r = [j \in 1 .. m - 1 |-> r[j]]
    <3> HIDE DEF r
    <3> QED
      BY <1>1, <1>7
  <2> HIDE DEF r
  <2> QED
    BY <1>7, <2>1
<1> QED
  BY <1>1, <1>8 DEF r, u, y, a, b, Contracted

(* A merge at a position, one piece at a time. *)
LEMMA MergeAtIs ==
  ASSUME NEW T, NEW w \in Seq(T), NEW k \in 1 .. Len(w) - 1, NEW x \in T
  PROVE  x = w[k] \o w[k + 1] => Encoding!MergeAt(w, k) = Contracted(w, k, x)
<1>1. SubSeq(w, 1, k - 1) \o <<x>> \o SubSeq(w, k + 2, Len(w)) = Contracted(w, k, x)
  BY Replaced
<1>2. x = w[k] \o w[k + 1] =>
        Encoding!MergeAt(w, k) = SubSeq(w, 1, k - 1) \o <<x>> \o SubSeq(w, k + 2, Len(w))
  BY Zenon DEF Encoding!MergeAt
<1> QED
  BY <1>1, <1>2, Zenon

\* What the refinement says of a state: the word of the list.
TheWord == Spelled(Chain(IF syms = <<>> THEN Symbols ELSE syms))

(* The pieces of a path and the links between its neighbours. *)
LEMMA AlongPath ==
  ASSUME NEW s \in SymbolLists, Firsts(s), NEW p, Path(p, s)
  PROVE  /\ Len(p) \in Nat /\ Len(Word(p, s)) = Len(p)
         /\ Word(p, s) = [i \in 1 .. Len(p) |-> Vocab[s[p[i]].id]]
         /\ \A i \in 1 .. Len(p) : Word(p, s)[i] = Vocab[s[p[i]].id] /\ Canonical(s[p[i]].id)
         /\ \A i \in 1 .. Len(p) - 1 : /\ i \in 1 .. Len(p) /\ i + 1 \in 1 .. Len(p)
                                       /\ p[i] \in DOMAIN s /\ s[p[i]].id # Gone
                                       /\ s[p[i]].next = p[i + 1] /\ p[i + 1] # None
         /\ \A i, j \in 1 .. Len(p) : p[i] \in Nat /\ (i < j => p[i] < p[j])
<1> DEFINE m == Len(p)
<1>1. /\ m \in Nat /\ DOMAIN p = 1 .. m /\ Len(s) \in Nat /\ DOMAIN s = 1 .. Len(s)
      /\ \A i \in 1 .. m : p[i] \in 1 .. Len(s)
  BY PathTyped
<1> HIDE DEF m
<1>2. \A i \in 1 .. m : s[p[i]].id # Gone /\ Canonical(s[p[i]].id)
  BY <1>1 DEF Path, Firsts
<1>3. \A i \in 1 .. m : p[i] \in DOMAIN s /\ p[i] \in Nat /\ p[i] # None
  BY <1>1 DEF None
<1>4. \A i \in 1 .. m - 1 : i # m /\ i \in 1 .. m /\ i + 1 \in 1 .. m
  BY <1>1
<1>5. \A i \in 1 .. m - 1 : s[p[i]].next = p[i + 1]
  BY <1>1, <1>4 DEF Path, m
<1>6. \A i, j \in 1 .. m : i < j => p[i] < p[j]
  BY <1>1 DEF Path
<1>7. Word(p, s) = [i \in 1 .. m |-> Vocab[s[p[i]].id]]
  BY DEF Word, m
<1>8. Len(Word(p, s)) = m /\ \A i \in 1 .. m : Word(p, s)[i] = Vocab[s[p[i]].id]
  BY <1>1, <1>7
<1> QED
  BY <1>1, <1>2, <1>3, <1>4, <1>5, <1>6, <1>7, <1>8 DEF m

(* Where the word can be merged, its neighbours are proposed, by their rank. *)
LEMMA MergeablesProposed ==
  ASSUME MergeList(rules), NEW s \in SymbolLists, Firsts(s), NEW p, Path(p, s),
         NEW j \in Encoding!Mergeable(Word(p, s))
  PROVE  /\ j \in 1 .. Len(p) - 1
         /\ p[j] \in DOMAIN s /\ s[p[j]].id # Gone /\ s[p[j]].next = p[j + 1] /\ p[j + 1] # None
         /\ \E e \in Kept(rules) :
              /\ Candidate(s, p[j], p[j + 1], e) \in Proposals(rules, s, p[j], p[j + 1])
              /\ Encoding!Rank(Word(p, s)[j], Word(p, s)[j + 1]) = e.rank /\ e.rank \in Nat
<1> DEFINE l == s[p[j]].id
           r == s[p[j + 1]].id
           w == Word(p, s)
           m == Len(p)
<1>1. /\ m \in Nat /\ Len(w) = m
      /\ \A i \in 1 .. m : w[i] = Vocab[s[p[i]].id] /\ Canonical(s[p[i]].id)
      /\ \A i \in 1 .. m - 1 : /\ i \in 1 .. m /\ i + 1 \in 1 .. m
                               /\ p[i] \in DOMAIN s /\ s[p[i]].id # Gone
                               /\ s[p[i]].next = p[i + 1] /\ p[i + 1] # None
  BY AlongPath
<1> HIDE DEF w, m
<1>2. j \in 1 .. m - 1 /\ RulesOf(rules, w[j], w[j + 1]) # {}
  <2>1. Len(w) \in Nat
    BY <1>1
  <2>2. Encoding!Mergeable(w) = {i \in 1 .. Len(w) - 1 : RulesOf(rules, w[i], w[i + 1]) # {}}
    BY <2>1, MergeableIs
  <2> QED
    BY <1>1, <2>2 DEF w
<1>3. j \in 1 .. m /\ j + 1 \in 1 .. m
  BY <1>1, <1>2
<1>4. Canonical(l) /\ Canonical(r) /\ w[j] = Vocab[l] /\ w[j + 1] = Vocab[r]
  BY <1>1, <1>3
<1> HIDE DEF l, r
<1>5. PICK e \in Kept(rules) : e.key = PairKey(l, r)
  BY <1>2, <1>4, KeptOfPair
<1>6. Encoding!Rank(w[j], w[j + 1]) = e.rank /\ e.rank \in Nat
  <2>1. Encoding!Rank(Vocab[l], Vocab[r]) = e.rank /\ e.rank \in Nat
    BY <1>4, <1>5, RankOfPair
  <2> QED
    BY <1>4, <2>1
<1>7. Candidate(s, p[j], p[j + 1], e) \in Proposals(rules, s, p[j], p[j + 1])
  BY <1>5 DEF Proposals, l, r
<1>8. p[j] \in DOMAIN s /\ s[p[j]].id # Gone /\ s[p[j]].next = p[j + 1] /\ p[j + 1] # None
  BY <1>1, <1>2
<1> QED
  BY <1>2, <1>6, <1>7, <1>8 DEF w, m

(* The merge of a valid best candidate is the first merge of the word. *)
LEMMA MergeImplements ==
  ASSUME IInv, Faithful, intact, Merge
  PROVE  /\ \E i \in Encoding!Mergeable(TheWord) :
              Encoding!First(TheWord, i) /\ TheWord' = Encoding!MergeAt(TheWord, i)
         /\ UsableRules' = UsableRules
<1>1. PICK c \in queue :
        /\ Best(c) /\ Valid(c) /\ syms' = Merged(c)
        /\ Enqueue(queue \ {c}, Offers(Merged(c), NewPairs(Merged(c), c.left)))
  BY DEF Merge
<1>2. PICK p : Path(p, syms)
  BY DEF IInv, ListIsLinked
<1> DEFINE t == Merged(c)
           m == Len(p)
           w == Word(p, syms)
<1>3. /\ syms \in SymbolLists /\ c.left \in DOMAIN syms /\ c.right \in DOMAIN syms
      /\ c.lid \in Token /\ c.rid \in Token /\ c.merged \in Token /\ MergeList(rules)
  BY DEF IInv, ListIsLinked, QueueIsTyped, Proposed, Types
<1>4. PICK k \in 1 .. m - 1 : c.left = p[k] /\ c.right = p[k + 1]
  BY <1>1, <1>2, <1>3, ValidIsAdjacent
<1> DEFINE q == Without(p, k + 1)
<1>5. /\ t \in SymbolLists /\ DOMAIN t = DOMAIN syms
      /\ Path(q, t) /\ t[c.left].id = c.merged
      /\ \A i \in 1 .. m : i # k /\ i # k + 1 => t[p[i]].id = syms[p[i]].id
  BY <1>2, <1>3, <1>4, MergedList
<1>6. Grounded(queue) /\ Complete(queue, syms) /\ Firsts(syms) /\ syms # <<>>
  BY DEF Faithful, Merge
<1>7. /\ m \in Nat
      /\ \A i \in 1 .. m : p[i] \in Nat /\ Canonical(syms[p[i]].id)
      /\ \A i \in 1 .. m - 1 : i \in 1 .. m /\ i + 1 \in 1 .. m
      /\ \A i, j \in 1 .. m : i < j => p[i] < p[j]
  BY <1>2, <1>3, <1>6, AlongPath
<1> HIDE DEF m, t, q, w
<1>8. TheWord = w
  BY <1>2, <1>3, <1>6, SpelledAlong DEF TheWord, w
<1>9. TheWord' = Word(q, t)
  <2>1. syms' = t /\ t # <<>>
    BY <1>1, <1>3, <1>5 DEF t
  <2>2. TheWord' = Spelled(Chain(t))
    BY <2>1 DEF TheWord
  <2>3. Spelled(Chain(t)) = Word(q, t)
    BY <1>5, SpelledAlong
  <2> QED
    BY <2>2, <2>3
<1>10. w = [i \in 1 .. m |-> Vocab[syms[p[i]].id]] /\ Len(w) = m
       /\ \A i \in 1 .. m : w[i] = Vocab[syms[p[i]].id]
  BY <1>7 DEF w, Word, m
<1>11. rules' = rules /\ UsableRules' = UsableRules
  BY <1>1 DEF Enqueue, input, UsableRules
<1>12. ASSUME NEW j \in Encoding!Mergeable(w)
       PROVE  /\ j \in 1 .. m - 1
              /\ \E e \in Kept(rules) :
                   /\ Candidate(syms, p[j], p[j + 1], e) \in queue
                   /\ Encoding!Rank(w[j], w[j + 1]) = e.rank /\ e.rank \in Nat
  BY <1>2, <1>3, <1>6, <1>12, MergeablesProposed DEF Complete, w, m
<1>13. /\ k \in Encoding!Mergeable(w) /\ Encoding!Rank(w[k], w[k + 1]) = c.rank /\ c.rank \in Nat
       /\ Vocab[c.merged] = w[k] \o w[k + 1]
  <2> DEFINE l == c.lid
             r == c.rid
  <2>1. syms[p[k]].id = l /\ syms[p[k + 1]].id = r
    BY <1>1, <1>4 DEF Valid
  <2>2. k \in 1 .. m /\ k + 1 \in 1 .. m
    BY <1>7
  <2>3. Canonical(l) /\ Canonical(r) /\ w[k] = Vocab[l] /\ w[k + 1] = Vocab[r]
    BY <1>7, <1>10, <2>1, <2>2
  <2>4. PICK e \in Kept(rules) :
          e.key = PairKey(l, r) /\ c.rank = e.rank /\ c.merged = e.merged
    BY <1>6 DEF Grounded
  <2> HIDE DEF l, r
  <2>5. /\ Encoding!Rank(w[k], w[k + 1]) = e.rank /\ e.rank \in Nat
        /\ RulesOf(rules, w[k], w[k + 1]) # {}
        /\ Vocab[e.merged] = w[k] \o w[k + 1]
    <3>1. /\ Encoding!Rank(Vocab[l], Vocab[r]) = e.rank /\ e.rank \in Nat
          /\ RulesOf(rules, Vocab[l], Vocab[r]) # {}
          /\ Vocab[e.merged] = Vocab[l] \o Vocab[r]
      BY <1>3, <2>3, <2>4, RankOfPair
    <3> QED
      BY <2>3, <3>1
  <2>6. k \in Encoding!Mergeable(w)
    <3>1. Len(w) \in Nat
      BY <1>7, <1>10
    <3>2. Encoding!Mergeable(w) = {i \in 1 .. Len(w) - 1 : RulesOf(rules, w[i], w[i + 1]) # {}}
      BY <1>3, <3>1, MergeableIs
    <3> QED
      BY <1>10, <2>5, <3>2
  <2> QED
    BY <2>3, <2>4, <2>5, <2>6
<1>14. Encoding!First(w, k)
  <2>1. ASSUME NEW j \in Encoding!Mergeable(w)
        PROVE  \/ Encoding!Rank(w[k], w[k + 1]) < Encoding!Rank(w[j], w[j + 1])
               \/ Encoding!Rank(w[k], w[k + 1]) = Encoding!Rank(w[j], w[j + 1]) /\ k <= j
    <3>1. PICK e \in Kept(rules) :
            /\ Candidate(syms, p[j], p[j + 1], e) \in queue
            /\ Encoding!Rank(w[j], w[j + 1]) = e.rank /\ e.rank \in Nat
      BY <1>12
    <3> DEFINE d == Candidate(syms, p[j], p[j + 1], e)
    <3>2. d.rank = e.rank /\ d.left = p[j]
      BY DEF Candidate
    <3> HIDE DEF d
    <3>3. ~Better(d, c)
      BY <1>1, <3>1 DEF Best, d
    <3>4. c.rank <= e.rank /\ (c.rank = e.rank => ~(p[j] < p[k]))
      <4>1. PICK x \in Nat : x = c.rank
        BY <1>13
      <4>2. PICK y \in Nat : y = e.rank
        BY <3>1
      <4> QED
        BY <1>4, <3>2, <3>3, <4>1, <4>2 DEF Better
    <3>5. ~(p[j] < p[k]) => k <= j
      <4>1. j \in 1 .. m /\ k \in 1 .. m
        BY <1>7, <1>12
      <4>2. j < k => p[j] < p[k]
        BY <1>7, <4>1
      <4> QED
        BY <1>7, <4>1, <4>2
    <3> QED
      BY <1>13, <3>1, <3>4, <3>5
  <2> QED
    BY <2>1 DEF Encoding!First
<1>15. Word(q, t) = Encoding!MergeAt(w, k)
  <2> DEFINE x == Vocab[c.merged]
             T == {w[i] : i \in 1 .. m} \cup {x}
  <2>1. w \in Seq(T)
    <3>1. w \in [1 .. m -> T]
      BY <1>10
    <3> HIDE DEF T
    <3> QED
      BY <1>7, <3>1
  <2>2. x \in T /\ k \in 1 .. Len(w) - 1
    BY <1>10
  <2> HIDE DEF x, T
  <2>3. x = w[k] \o w[k + 1] => Encoding!MergeAt(w, k) = Contracted(w, k, x)
    BY <2>1, <2>2, MergeAtIs
  <2>4. Word(q, t) = Contracted(w, k, x)
    <3>1. q = [i \in 1 .. m - 1 |-> IF i < k + 1 THEN p[i] ELSE p[i + 1]]
      BY DEF q, Without, m
    <3>2. Len(q) = m - 1 /\ \A i \in 1 .. m - 1 : q[i] = IF i < k + 1 THEN p[i] ELSE p[i + 1]
      <4>1. m - 1 \in Nat
        BY <1>4, <1>7
      <4> HIDE DEF q
      <4> QED
        BY <3>1, <4>1
    <3>3. ASSUME NEW i \in 1 .. m - 1
          PROVE  Vocab[t[q[i]].id] = IF i < k THEN w[i] ELSE IF i = k THEN x ELSE w[i + 1]
      <4>1. i \in 1 .. m /\ i + 1 \in 1 .. m /\ k \in 1 .. m - 1 /\ m \in Nat
        BY <1>7
      <4>2. CASE i < k
        <5>1. q[i] = p[i] /\ i # k /\ i # k + 1
          BY <3>2, <4>1, <4>2
        <5>2. t[p[i]].id = syms[p[i]].id
          BY <1>5, <4>1, <5>1 DEF t, m
        <5> QED
          BY <1>10, <4>1, <4>2, <5>1, <5>2
      <4>3. CASE i = k
        <5>1. q[i] = c.left
          BY <1>4, <3>2, <4>1, <4>3
        <5> QED
          BY <1>5, <4>1, <4>3, <5>1 DEF t, x
      <4>4. CASE i > k
        <5>1. q[i] = p[i + 1] /\ i + 1 # k /\ i + 1 # k + 1 /\ ~(i < k) /\ i # k
          BY <3>2, <4>1, <4>4
        <5>2. t[p[i + 1]].id = syms[p[i + 1]].id
          BY <1>5, <4>1, <5>1 DEF t, m
        <5> QED
          BY <1>10, <4>1, <5>1, <5>2
      <4> QED
        BY <4>1, <4>2, <4>3, <4>4
    <3>4. Word(q, t) = [i \in 1 .. m - 1 |-> Vocab[t[q[i]].id]]
      BY <3>2 DEF Word
    <3> QED
      BY <1>10, <3>3, <3>4 DEF Contracted
  <2> QED
    BY <1>13, <2>3, <2>4 DEF x
<1> QED
  BY <1>8, <1>9, <1>11, <1>13, <1>14, <1>15

(* Nothing is left to merge when the queue is empty. *)
LEMMA EmitImplements ==
  ASSUME IInv, Faithful, intact, Emit
  PROVE  Encoding!Mergeable(TheWord) = {} /\ UNCHANGED <<UsableRules, TheWord>>
<1>1. queue = {} /\ UNCHANGED <<rules, text, syms>> /\ pc = "merge"
  BY DEF Emit, input
<1>2. /\ Complete(queue, syms) /\ Firsts(syms) /\ syms # <<>>
      /\ MergeList(rules) /\ syms \in SymbolLists
  BY <1>1 DEF Faithful, IInv, Types, ListIsLinked
<1>3. PICK p : Path(p, syms)
  BY DEF IInv, ListIsLinked
<1>4. TheWord = Word(p, syms)
  BY <1>2, <1>3, SpelledAlong DEF TheWord
<1>5. ASSUME NEW j \in Encoding!Mergeable(Word(p, syms))
      PROVE  Proposals(rules, syms, p[j], syms[p[j]].next) # {} /\ p[j] \in DOMAIN syms
             /\ syms[p[j]].id # Gone /\ syms[p[j]].next # None
  BY <1>2, <1>3, <1>5, MergeablesProposed
<1>6. Encoding!Mergeable(TheWord) = {}
  BY <1>1, <1>2, <1>4, <1>5 DEF Complete
<1>7. UNCHANGED <<UsableRules, TheWord>>
  BY <1>1 DEF UsableRules, TheWord, Spelled, Chain, Symbols
<1> QED
  BY <1>6, <1>7

(* Every step merges what byte-pair encoding merges, or nothing.           *)
LEMMA StepImplements ==
  ASSUME IInv, Faithful, [create_tokenizer]_tokenizerVars
  PROVE  [intact' => [Encoding!Next]_(Encoding!vars)]_vars
<1>1. ASSUME UNCHANGED <<rules, text, syms>>, pc # "done", pc' # "done"
      PROVE  UNCHANGED Encoding!vars
  BY <1>1 DEF Encoding!vars, UsableRules, Spelled, Chain, Symbols
<1>2. ASSUME Load \/ Reject \/ Skip \/ DropStale
      PROVE  UNCHANGED Encoding!vars
  BY <1>1, <1>2 DEF Load, Reject, Skip, DropStale, input
<1>3. ASSUME Scan, intact
      PROVE  UNCHANGED Encoding!vars
  <2>1. /\ UNCHANGED <<rules, text>> /\ syms' = Symbols /\ pc = "start" /\ pc' # "done"
    BY <1>3 DEF Scan, Enqueue, input
  <2>2. syms = <<>>
    BY <1>3, <2>1 DEF Faithful
  <2>3. UsableRules' = UsableRules /\ Symbols' = Symbols
    BY <2>1 DEF UsableRules, Symbols
  <2>4. Spelled(Chain(IF syms = <<>> THEN Symbols ELSE syms))' =
          Spelled(Chain(IF syms = <<>> THEN Symbols ELSE syms))
    BY <2>1, <2>2, <2>3 DEF Spelled, Chain
  <2> QED
    BY <2>1, <2>3, <2>4 DEF Encoding!vars
<1>4. ASSUME Merge, intact
      PROVE  Encoding!Next
  <2>1. pc = "merge" /\ pc' # "done"
    BY <1>4 DEF Merge, Enqueue
  <2>2. /\ \E i \in Encoding!Mergeable(TheWord) :
             Encoding!First(TheWord, i) /\ TheWord' = Encoding!MergeAt(TheWord, i)
        /\ UsableRules' = UsableRules
    BY <1>4, MergeImplements
  <2>3. Encoding!Merge
    BY <2>1, <2>2 DEF Encoding!Merge, TheWord
  <2> QED
    BY <2>3 DEF Encoding!Next
<1>5. ASSUME Emit, intact
      PROVE  Encoding!Next
  <2>1. pc = "merge" /\ pc' = "done"
    BY <1>5 DEF Emit
  <2>2. Encoding!Mergeable(TheWord) = {} /\ UNCHANGED <<UsableRules, TheWord>>
    BY <1>5, EmitImplements
  <2>3. Encoding!Finish
    BY <2>1, <2>2 DEF Encoding!Finish, TheWord
  <2> QED
    BY <2>3 DEF Encoding!Next
<1>6. ASSUME Next, intact'
      PROVE  [Encoding!Next]_(Encoding!vars)
  <2>1. intact /\ ~EditFile
    BY <1>6 DEF Next, Load, Reject, Skip, Scan, DropStale, Merge, Emit, EditFile, Enqueue, index
  <2> QED
    BY <1>2, <1>3, <1>4, <1>5, <1>6, <2>1 DEF Next
<1> QED
  BY <1>6 DEF create_tokenizer, UseSpmBpe, UseWordPiece, tokenizerVars

(* While the file is intact, the symbol list merges what byte-pair         *)
(* encoding by the merge list merges, in its order, and the call ends when *)
(* nothing is left: queue, records, pages, slots and stale candidates make *)
(* no difference.                                                          *)
THEOREM MergesByRank == TokenizersSpec => MergesLowestRankFirst
<1>1. TokenizersInit => IInv /\ Faithful /\ Encoding!Init
  <2>1. TokenizersInit => pc # "done"
    BY DEF TokenizersInit, Init_SpmBpe, Init_WordPiece, Init
  <2> QED
    BY <2>1, InitIInv, InitFaithful DEF Encoding!Init
<1>2. IInv /\ Faithful /\ [create_tokenizer]_tokenizerVars => IInv' /\ Faithful'
  BY StepIInv, StepFaithful
<1>3. IInv /\ Faithful /\ [create_tokenizer]_tokenizerVars =>
        [intact' => [Encoding!Next]_(Encoding!vars)]_vars
  BY StepImplements
<1> QED
  BY <1>1, <1>2, <1>3, PTL DEF TokenizersSpec, MergesLowestRankFirst

-----------------------------------------------------------------------------
(* WordPiece: a raw vocabulary, its pieces and the words they are matched  *)
(* with.                                                                   *)

RawPieces ==
  IsText(raw.pieces) /\ \A i \in DOMAIN raw.pieces : raw.pieces[i].bow \in BOOLEAN
                                                    /\ IsText(raw.pieces[i].text)

(* The bytes of the notation stand alone: they are punctuation. *)
NotationAlone(word) ==
  IsText(word) /\ \A k \in 1 .. Len(word) : word[k] \in {"[", "#"} => Len(word) = 1

(* Token ids count from 1. *)
LEMMA PieceIds ==
  ASSUME RawPieces
  PROVE  /\ Len(raw.pieces) \in Nat /\ DOMAIN raw.pieces = 1 .. Len(raw.pieces)
         /\ \A i \in DOMAIN raw.pieces : i \in Nat \ {0}
BY DEF RawPieces, IsText

(* The index gives the first of equal pieces. *)
LEMMA FirstOfEqual ==
  ASSUME RawPieces, NEW p
  PROVE  IF Normalized(p) = {} THEN IdOf(p) = -1
         ELSE /\ IdOf(p) \in Normalized(p) /\ IdOf(p) \in Nat \ {0}
              /\ \A j \in Normalized(p) : IdOf(p) <= j
<1>1. Normalized(p) \in SUBSET Nat /\ \A i \in Normalized(p) : i \in Nat \ {0}
  BY PieceIds DEF Normalized
<1>2. CASE Normalized(p) # {}
  <2>1. PICK i \in Normalized(p) : \A j \in Normalized(p) : i <= j
    BY <1>1, <1>2, LeastElement
  <2> QED
    BY <1>1, <1>2, <2>1 DEF IdOf
<1> QED
  BY <1>2 DEF IdOf

(* Bytes behind "##". *)
LEMMA InnerIs ==
  ASSUME NEW s, IsText(s)
  PROVE  /\ Len(Inner \o s) = Len(s) + 2 /\ (Inner \o s)[1] = "#" /\ Inner \o s # <<>>
         /\ \A u : IsText(u) /\ Inner \o u = Inner \o s => u = s
<1> DEFINE v(u) == Inner \o u
<1>1. ASSUME NEW u, IsText(u)
      PROVE  /\ Len(u) \in Nat /\ Len(v(u)) = Len(u) + 2 /\ v(u)[1] = "#"
             /\ \A k \in 1 .. Len(u) : v(u)[k + 2] = u[k]
             /\ u = [k \in 1 .. Len(u) |-> u[k]]
  <2> DEFINE T == {u[k] : k \in DOMAIN u}
             B == {"#"} \cup T
             n == Len(u)
  <2>1. u \in Seq(T)
    BY <1>1 DEF IsText
  <2> HIDE DEF T
  <2>2. u \in Seq(B) /\ Inner \in Seq(B) /\ Len(Inner) = 2 /\ Inner[1] = "#" /\ n \in Nat
    <3>1. u \in [1 .. n -> B] /\ n \in Nat
      BY <2>1
    <3>2. Inner \in Seq(B) /\ Len(Inner) = 2 /\ Inner[1] = "#"
      BY DEF Inner
    <3> HIDE DEF B, n
    <3>3. \A S, q : q \in [1 .. n -> S] => q \in Seq(S)
      BY <3>1
    <3> QED
      BY <3>1, <3>2, <3>3
  <2> HIDE DEF B
  <2>3. /\ v(u) \in Seq(B) /\ Len(v(u)) = 2 + n
        /\ \A k \in 1 .. 2 + n : v(u)[k] = IF k <= 2 THEN Inner[k] ELSE u[k - 2]
    <3>1. /\ Inner \o u \in Seq(B) /\ Len(Inner \o u) = Len(Inner) + Len(u)
          /\ \A k \in 1 .. Len(Inner) + Len(u) :
               (Inner \o u)[k] = IF k <= Len(Inner) THEN Inner[k] ELSE u[k - Len(Inner)]
      BY <2>2, ConcatProperties
    <3> QED
      BY <2>2, <3>1
  <2> HIDE DEF v, n
  <2>4. 1 \in 1 .. 2 + n /\ \A k \in 1 .. n : k + 2 \in 1 .. 2 + n /\ ~(k + 2 <= 2) /\ (k + 2) - 2 = k
    BY <2>2
  <2>5. v(u)[1] = "#" /\ \A k \in 1 .. n : v(u)[k + 2] = u[k]
    BY <2>2, <2>3, <2>4
  <2>6. Len(v(u)) = n + 2
    BY <2>2, <2>3
  <2>7. u = [k \in 1 .. n |-> u[k]]
    BY <2>1 DEF n
  <2> QED
    BY <2>2, <2>5, <2>6, <2>7 DEF n
<1> HIDE DEF v
<1>2. v(s) # <<>>
  <2>1. Len(<<>>) = 0
    OBVIOUS
  <2> QED
    BY <1>1, <2>1
<1>3. ASSUME NEW u, IsText(u), v(u) = v(s) PROVE u = s
  <2>1. Len(u) = Len(s)
    BY <1>1, <1>3
  <2>2. \A k \in 1 .. Len(s) : u[k] = s[k]
    BY <1>1, <1>3, <2>1
  <2>3. u = [k \in 1 .. Len(s) |-> u[k]] /\ s = [k \in 1 .. Len(s) |-> s[k]]
    BY <1>1, <1>3, <2>1
  <2> QED
    BY <2>2, <2>3
<1> QED
  BY <1>1, <1>2, <1>3 DEF v

(* In the notation of BERT a piece is found where the raw one spells the   *)
(* bytes: no other piece has the notation of those bytes.                  *)
LEMMA NotationSpells ==
  ASSUME RawPieces, NEW word, NotationAlone(word),
         NEW b \in Nat, NEW e \in Nat, b < e, e <= Len(word), NEW i \in DOMAIN raw.pieces
  PROVE  i \in Normalized(Key(word, b, e)) <=> Fits(word, i, b, e)
<1> DEFINE s == SubSeq(word, b + 1, e)
           p == raw.pieces[i]
<1>1. Len(word) \in Nat /\ b + 1 \in 1 .. Len(word)
  BY DEF NotationAlone, IsText
<1>2. Len(s) = e - b /\ s # <<>> /\ s[1] = word[b + 1] /\ IsText(s)
  <2>1. word \in Seq({word[k] : k \in DOMAIN word})
    BY DEF NotationAlone, IsText
  <2>2. s \in Seq({word[k] : k \in DOMAIN word}) /\ Len(s) = e - b
    BY <1>1, <2>1
  <2>3. s[1] = word[b + 1]
    BY <1>1, <2>1
  <2> HIDE DEF s
  <2>4. IsText(s)
    BY <2>2 DEF IsText
  <2> QED
    BY <2>2, <2>3, <2>4
<1>3. IsText(p.text) /\ p.bow \in BOOLEAN
  BY DEF RawPieces
<1>4. i \in Normalized(Key(word, b, e)) <=> normalize_piece(p) = IF b > 0 THEN Inner \o s ELSE s
  BY DEF Normalized, Key
<1>5. Fits(word, i, b, e) <=> \/ b = 0 /\ p.text = s /\ (p.bow \/ s = <<"[">>)
                              \/ b > 0 /\ ~p.bow /\ p.text = s
                              \/ b > 0 /\ p.bow /\ p.text = Inner \o s
  BY DEF Fits, Spells
<1> DEFINE kept == p.bow \/ (p.text # <<>> /\ p.text[1] = "[")
<1>6. normalize_piece(p) = IF kept THEN p.text ELSE Inner \o p.text
  BY DEF normalize_piece
<1>7. s[1] \in {"[", "#"} => b = 0 /\ Len(s) = 1
  <2> HIDE DEF s
  <2>1. ASSUME s[1] \in {"[", "#"}
        PROVE  b = 0 /\ Len(s) = 1
    <3>1. Len(word) = 1
      BY <1>1, <1>2, <2>1 DEF NotationAlone
    <3> QED
      BY <1>2, <3>1
  <2> QED
    BY <2>1
<1>8. (s[1] = "[" /\ Len(s) = 1 => s = <<"[">>) /\ (s = <<"[">> => s[1] = "[" /\ s # <<>>)
  <2>1. s \in Seq({s[k] : k \in DOMAIN s})
    BY <1>2 DEF IsText
  <2> HIDE DEF s
  <2> QED
    BY <2>1
<1> HIDE DEF s, p
<1>9. (Inner \o p.text)[1] = "#" /\ Len(Inner \o p.text) = Len(p.text) + 2 /\ Len(p.text) \in Nat
  <2>1. Len(p.text) \in Nat
    BY <1>3 DEF IsText
  <2> QED
    BY <1>3, <2>1, InnerIs
<1>10. (Inner \o s)[1] = "#" /\ Inner \o s # <<>>
  BY <1>2, InnerIs
<1>11. "#" # "["
  OBVIOUS
<1>12. CASE b = 0
  <2>1. Inner \o p.text # s
    BY <1>7, <1>9
  <2> QED
    BY <1>4, <1>5, <1>6, <1>7, <1>8, <1>12, <2>1
<1>13. CASE b > 0
  <2>1. Inner \o p.text = Inner \o s <=> p.text = s
    BY <1>2, <1>3, InnerIs
  <2>2. b # 0 /\ s[1] # "["
    BY <1>7, <1>13
  <2>3. CASE p.bow
    BY <1>4, <1>5, <1>6, <1>13, <2>2, <2>3
  <2>4. CASE ~p.bow /\ kept
    <3>1. p.text # Inner \o s /\ p.text # s
      BY <1>10, <1>11, <2>2, <2>4
    <3> QED
      BY <1>4, <1>5, <1>6, <1>13, <2>2, <2>4, <3>1
  <2>5. CASE ~kept
    BY <1>4, <1>5, <1>6, <1>13, <2>1, <2>2, <2>5
  <2> QED
    BY <2>3, <2>4, <2>5
<1> QED
  BY <1>12, <1>13

(* What the inner loop finds is the piece that fits best, or that none     *)
(* fits.                                                                   *)
LEMMA PieceAtIsBest ==
  ASSUME RawPieces, NEW word, NotationAlone(word), NEW b \in 0 .. Len(word) - 1
  PROVE  LET p == PieceAt(word, b)
         IN  /\ p.id = -1 => \A i \in DOMAIN raw.pieces, e \in b + 1 .. Len(word) : ~Fits(word, i, b, e)
             /\ p.id # -1 => /\ p.id \in DOMAIN raw.pieces /\ p.end \in b + 1 .. Len(word)
                             /\ BestFit(word, p.id, b, p.end)
             /\ \A i \in DOMAIN raw.pieces, e \in b + 1 .. Len(word) :
                  BestFit(word, i, b, e) => p.id = i /\ p.end = e
<1> DEFINE n == Len(word)
           S == DOMAIN raw.pieces
           key(e) == Key(word, b, e)
           found == {e \in b + 1 .. n : IdOf(key(e)) # -1}
           p == PieceAt(word, b)
<1>1. n \in Nat /\ b \in Nat
  BY DEF NotationAlone, IsText
<1>2. p = IF found = {} THEN [id |-> -1, end |-> b]
          ELSE [id |-> IdOf(key(Max(found))), end |-> Max(found)]
  BY DEF PieceAt
<1>3. ASSUME NEW e \in b + 1 .. n, NEW i \in S
      PROVE  i \in Normalized(key(e)) <=> Fits(word, i, b, e)
  <2>1. e \in Nat /\ b < e /\ e <= Len(word)
    BY <1>1
  <2> QED
    BY <1>1, <2>1, NotationSpells
<1>4. \A i \in S : i \in Nat \ {0}
  BY PieceIds
<1>5. ASSUME NEW e \in b + 1 .. n
      PROVE  IF Normalized(key(e)) = {} THEN IdOf(key(e)) = -1
             ELSE /\ IdOf(key(e)) \in Normalized(key(e)) /\ IdOf(key(e)) # -1
                  /\ \A j \in Normalized(key(e)) : IdOf(key(e)) <= j
  <2> HIDE DEF key
  <2>1. IdOf(key(e)) \in Nat => IdOf(key(e)) # -1
    OBVIOUS
  <2> QED
    BY <2>1, FirstOfEqual
<1>6. \A e : Normalized(key(e)) \subseteq S
  BY DEF Normalized
<1> HIDE DEF p, key, S, n
<1>7. ASSUME NEW i \in S, NEW e \in b + 1 .. n, Fits(word, i, b, e)
      PROVE  e \in found
  <2>1. i \in Normalized(key(e))
    BY <1>3, <1>7
  <2> QED
    BY <1>5, <2>1
<1>8. CASE found = {}
  <2>1. p.id = -1 /\ \A i \in S, e \in b + 1 .. n : ~Fits(word, i, b, e)
    BY <1>2, <1>7, <1>8
  <2> QED
    BY <2>1 DEF p, S, n, BestFit
<1>9. CASE found # {}
  <2> DEFINE m == Max(found)
             x == IdOf(key(m))
  <2>1. m \in found /\ \A e \in found : m >= e
    <3>1. found \in SUBSET (1 .. n)
      BY <1>1
    <3> HIDE DEF found
    <3> QED
      BY <1>1, <1>9, <3>1, MaxOfIndexes
  <2>2. p.id = x /\ p.end = m
    BY <1>2, <1>9
  <2>3. m \in b + 1 .. n /\ x # -1
    BY <2>1
  <2> HIDE DEF found, m, x
  <2>4. x \in Normalized(key(m)) /\ \A j \in Normalized(key(m)) : x <= j
    BY <1>5, <2>3 DEF x
  <2>5. x \in S /\ Fits(word, x, b, m)
    BY <1>3, <1>6, <2>3, <2>4
  <2>6. ASSUME NEW i \in S, NEW e \in b + 1 .. n, Fits(word, i, b, e)
        PROVE  e <= m /\ (e = m => x <= i)
    <3>1. m >= e
      BY <1>7, <2>1, <2>6
    <3>2. e = m => i \in Normalized(key(m))
      BY <1>3, <2>6
    <3> QED
      BY <1>1, <2>3, <2>4, <3>1, <3>2
  <2>7. BestFit(word, x, b, m)
    <3>1. \A f \in m + 1 .. n : f \in b + 1 .. n /\ ~(f <= m)
      BY <1>1, <2>3
    <3>2. \A j \in S : /\ Fits(word, j, b, m) => x <= j
                       /\ \A f \in m + 1 .. n : ~Fits(word, j, b, f)
      BY <2>3, <2>6, <3>1
    <3> QED
      BY <2>5, <3>2 DEF BestFit, S, n
  <2>8. ASSUME NEW i \in S, NEW e \in b + 1 .. n, BestFit(word, i, b, e)
        PROVE  x = i /\ m = e
    <3>1. /\ Fits(word, i, b, e)
          /\ \A j \in S : /\ Fits(word, j, b, e) => i <= j
                          /\ \A f \in e + 1 .. n : ~Fits(word, j, b, f)
      BY <2>8 DEF BestFit, S, n
    <3>2. e <= m /\ (e = m => x <= i)
      BY <2>6, <3>1
    <3>3. ~(m \in e + 1 .. n)
      BY <2>5, <3>1
    <3>4. m = e
      BY <1>1, <2>3, <3>2, <3>3
    <3> QED
      BY <1>4, <2>5, <3>1, <3>2, <3>4
  <2> QED
    BY <2>2, <2>3, <2>5, <2>7, <2>8 DEF p, n, S
<1> QED
  BY <1>8, <1>9

(* From the end of an interval down. *)
LEMMA Downwards ==
  ASSUME NEW n \in Nat, NEW A,
         \A b \in 0 .. n : (\A e \in b + 1 .. n : e \in A) => b \in A
  PROVE  0 .. n \subseteq A
<1> DEFINE B == {k \in 0 .. n : n - k .. n \subseteq A}
<1>1. 0 \in B
  <2>1. n + 1 .. n = {} /\ n \in 0 .. n /\ n - 0 .. n = {n} /\ 0 \in 0 .. n
    OBVIOUS
  <2> QED
    BY <2>1
<1>2. ASSUME NEW k \in 0 .. n - 1, k \in B
      PROVE  k + 1 \in B
  <2> DEFINE b == n - (k + 1)
  <2>1. b \in 0 .. n /\ b + 1 = n - k /\ k + 1 \in 0 .. n
    OBVIOUS
  <2>2. b \in A
    BY <1>2, <2>1
  <2>3. \A e \in b .. n : e = b \/ e \in n - k .. n
    OBVIOUS
  <2> QED
    BY <1>2, <2>1, <2>2, <2>3
<1>3. n \in B
  <2> HIDE DEF B
  <2>1. \A k \in 0 .. n - 1 : k \in B => k + 1 \in B
    BY <1>2
  <2> QED
    BY <1>1, <2>1, Induction
<1> QED
  BY <1>3

(* A turn of the outer loop of wordpiece at b, the results of the turns    *)
(* behind it being g.                                                      *)
Turn(word, b, g) ==
  IF b = Len(word) THEN [ok |-> TRUE, ids |-> <<>>]
  ELSE IF PieceAt(word, b).id = -1 THEN [ok |-> FALSE, ids |-> <<>>]
  ELSE [ok |-> g[PieceAt(word, b).end].ok,
        ids |-> <<PieceAt(word, b).id>> \o g[PieceAt(word, b).end].ids]

(* What a turn may give. *)
Results == [ok : BOOLEAN, ids : Seq(DOMAIN raw.pieces)]

(* One element before a sequence. *)
LEMMA Prepended ==
  ASSUME NEW S, NEW x \in S, NEW u \in Seq(S)
  PROVE  /\ <<x>> \o u \in Seq(S) /\ Len(<<x>> \o u) = Len(u) + 1
         /\ (<<x>> \o u)[1] = x
         /\ \A k \in 1 .. Len(u) : (<<x>> \o u)[k + 1] = u[k]
<1> DEFINE v == <<x>>
<1>1. v \in Seq(S) /\ Len(v) = 1 /\ v[1] = x
  OBVIOUS
<1> HIDE DEF v
<1>2. /\ v \o u \in Seq(S) /\ Len(v \o u) = Len(v) + Len(u)
      /\ \A i \in 1 .. Len(v) + Len(u) :
           (v \o u)[i] = IF i <= Len(v) THEN v[i] ELSE u[i - Len(v)]
  BY <1>1, ConcatProperties
<1> DEFINE w == v \o u
           n == Len(u)
<1> HIDE DEF w
<1>3. n \in Nat /\ \A k \in 1 .. n : k + 1 \in 1 .. 1 + n /\ ~(k + 1 <= 1) /\ (k + 1) - 1 = k
  OBVIOUS
<1>4. w \in Seq(S) /\ Len(w) = 1 + n /\ \A i \in 1 .. 1 + n : w[i] = IF i <= 1 THEN v[i] ELSE u[i - 1]
  BY <1>1, <1>2 DEF w
<1> HIDE DEF n
<1>5. w[1] = x
  BY <1>1, <1>3, <1>4
<1>6. \A k \in 1 .. n : w[k + 1] = u[k]
  BY <1>3, <1>4
<1>7. Len(w) = n + 1
  BY <1>3, <1>4
<1> QED
  BY <1>4, <1>5, <1>6, <1>7 DEF v, w, n

(* A turn depends on those behind it only. *)
LEMMA TurnTyped ==
  ASSUME RawPieces, NEW word, NotationAlone(word), NEW b \in 0 .. Len(word), NEW g,
         \A e \in b + 1 .. Len(word) : g[e] \in Results
  PROVE  /\ Turn(word, b, g) \in Results
         /\ \A h : (\A e \in b + 1 .. Len(word) : h[e] = g[e]) => Turn(word, b, h) = Turn(word, b, g)
<1> DEFINE p == PieceAt(word, b)
           S == DOMAIN raw.pieces
<1>1. Len(word) \in Nat
  BY DEF NotationAlone, IsText
<1>2. CASE b = Len(word)
  <2>1. [ok |-> TRUE, ids |-> <<>>] \in Results
    BY DEF Results
  <2> QED
    BY <1>2, <2>1 DEF Turn
<1>3. CASE b # Len(word) /\ p.id = -1
  <2>1. [ok |-> FALSE, ids |-> <<>>] \in Results
    BY DEF Results
  <2> QED
    BY <1>3, <2>1 DEF Turn
<1>4. CASE b # Len(word) /\ p.id # -1
  <2>1. p.id \in S /\ p.end \in b + 1 .. Len(word)
    <3>1. b \in 0 .. Len(word) - 1
      BY <1>1, <1>4
    <3> QED
      BY <1>4, <3>1, PieceAtIsBest
  <2>2. g[p.end].ok \in BOOLEAN /\ g[p.end].ids \in Seq(S)
    BY <2>1 DEF Results
  <2>3. <<p.id>> \o g[p.end].ids \in Seq(S)
    <3> DEFINE u == g[p.end].ids
    <3>1. u \in Seq(S)
      BY <2>2
    <3> HIDE DEF u, S, p
    <3> QED
      BY <2>1, <3>1, Prepended DEF u
  <2>4. \A h : Turn(word, b, h) = [ok |-> h[p.end].ok, ids |-> <<p.id>> \o h[p.end].ids]
    BY <1>4 DEF Turn
  <2> HIDE DEF p, S
  <2> DEFINE r == [ok |-> g[p.end].ok, ids |-> <<p.id>> \o g[p.end].ids]
  <2>6. r \in [ok : BOOLEAN, ids : Seq(S)]
    BY <2>2, <2>3
  <2>5. Turn(word, b, g) \in Results
    BY <2>4, <2>6 DEF Results, S
  <2> QED
    BY <2>1, <2>4, <2>5
<1> QED
  BY <1>2, <1>3, <1>4

(* The turns have results, and wordpiece takes that of the first. *)
LEMMA TurnsOf ==
  ASSUME RawPieces, NEW word, NotationAlone(word)
  PROVE  \E g : /\ \A b \in 0 .. Len(word) : g[b] = Turn(word, b, g) /\ g[b] \in Results
                /\ wordpiece(word) =
                     IF Len(word) > MaxWord \/ ~g[0].ok \/ g[0].ids = <<>> THEN <<raw.unk>>
                     ELSE g[0].ids
<1> DEFINE n == Len(word)
           Solves(k, g) == \A b \in n - k .. n : g[b] = Turn(word, b, g) /\ g[b] \in Results
           A == {k \in 0 .. n : \E g : Solves(k, g)}
<1>1. n \in Nat
  BY DEF NotationAlone, IsText
<1>2. ASSUME NEW k \in 0 .. n, NEW g,
             \A b \in n - k + 1 .. n : g[b] = Turn(word, b, g) /\ g[b] \in Results
      PROVE  \E h : Solves(k, h)
  <2> DEFINE a == n - k
             h == [b \in a .. n |-> IF b = a THEN Turn(word, a, g) ELSE g[b]]
  <2>1. a \in 0 .. n /\ \A b \in a .. n : b \in 0 .. n /\ (b # a => b \in a + 1 .. n)
    BY <1>1
  <2>2. \A b \in a + 1 .. n : h[b] = g[b] /\ b \in a .. n /\ b # a
    BY <1>1
  <2>3. h[a] = Turn(word, a, g)
    BY <1>1, <2>1
  <2> HIDE DEF h
  <2>4. ASSUME NEW b \in a .. n
        PROVE  Turn(word, b, h) = Turn(word, b, g) /\ Turn(word, b, g) \in Results
    <3>1. \A e \in b + 1 .. n : h[e] = g[e] /\ g[e] \in Results
      <4>1. \A e \in b + 1 .. n : e \in a + 1 .. n
        BY <1>1, <2>1
      <4> QED
        BY <1>2, <2>2, <4>1
    <3>2. b \in 0 .. Len(word)
      BY <2>1
    <3> QED
      BY <3>1, <3>2, TurnTyped
  <2>5. Solves(k, h)
    <3>1. ASSUME NEW b \in a .. n
          PROVE  h[b] = Turn(word, b, h) /\ h[b] \in Results
      <4>1. h[b] = Turn(word, b, g)
        BY <1>2, <2>1, <2>2, <2>3
      <4> QED
        BY <2>4, <4>1
    <3> QED
      BY <3>1
  <2> HIDE DEF Solves
  <2> QED
    BY <2>5
<1>3. 0 \in A
  <2>1. n - 0 + 1 .. n = {} /\ 0 \in 0 .. n
    BY <1>1
  <2>2. \E h : Solves(0, h)
    <3> HIDE DEF Solves, n
    <3> QED
      BY <1>2, <2>1
  <2> HIDE DEF Solves, n
  <2> QED
    BY <2>1, <2>2
<1>4. ASSUME NEW k \in 0 .. n - 1, k \in A
      PROVE  k + 1 \in A
  <2>1. PICK g : Solves(k, g)
    BY <1>4
  <2>2. k + 1 \in 0 .. n /\ n - (k + 1) + 1 = n - k
    BY <1>1
  <2>3. \E h : Solves(k + 1, h)
    BY <1>2, <2>1, <2>2
  <2> HIDE DEF Solves, n
  <2> QED
    BY <2>2, <2>3
<1>5. n \in A
  <2> HIDE DEF A, n
  <2>1. \A k \in 0 .. n - 1 : k \in A => k + 1 \in A
    BY <1>4
  <2>2. 0 .. n \subseteq A
    BY <1>1, <1>3, <2>1, Induction
  <2> QED
    BY <1>1, <2>2
<1>6. PICK g : Solves(n, g)
  BY <1>5
<1>7. \A b \in 0 .. n : g[b] = Turn(word, b, g) /\ g[b] \in Results
  BY <1>1, <1>6
<1> DEFINE Eq(f) == f = [b \in 0 .. n |-> Turn(word, b, f)]
           f0 == [b \in 0 .. n |-> g[b]]
           from == CHOOSE f : Eq(f)
<1>8. Eq(f0)
  <2>1. \A b \in 0 .. n : f0[b] = g[b]
    OBVIOUS
  <2> HIDE DEF f0
  <2>2. ASSUME NEW b \in 0 .. n
        PROVE  Turn(word, b, f0) = g[b]
    <3>1. \A e \in b + 1 .. n : e \in 0 .. n
      BY <1>1
    <3>2. \A e \in b + 1 .. n : f0[e] = g[e] /\ g[e] \in Results
      BY <1>7, <2>1, <3>1
    <3> QED
      BY <1>7, <3>2, TurnTyped
  <2> QED
    BY <2>2 DEF f0
<1>9. Eq(from)
  <2> HIDE DEF Eq, f0
  <2> QED
    BY <1>8
<1>10. wordpiece(word) = IF n > MaxWord \/ ~from[0].ok \/ from[0].ids = <<>> THEN <<raw.unk>>
                         ELSE from[0].ids
  BY DEF wordpiece, Turn
<1>11. \A b \in 0 .. n : from[b] = Turn(word, b, from)
  <2> HIDE DEF from
  <2> QED
    BY <1>9
<1> HIDE DEF from
<1>12. \A b \in 0 .. n : from[b] \in Results
  <2> DEFINE B == {b \in 0 .. n : from[b] \in Results}
  <2>1. ASSUME NEW b \in 0 .. n, \A e \in b + 1 .. n : e \in B
        PROVE  b \in B
    <3>1. Turn(word, b, from) \in Results
      BY <2>1, TurnTyped
    <3> QED
      BY <1>11, <3>1
  <2>2. 0 .. n \subseteq B
    <3> HIDE DEF B, n
    <3> QED
      BY <1>1, <2>1, Downwards
  <2> QED
    BY <2>2
<1> QED
  BY <1>10, <1>11, <1>12

(* The turns of a word find the segmentation it has. *)
LEMMA OnlySegmentation ==
  ASSUME RawPieces, NEW word, NotationAlone(word), NEW g,
         \A b \in 0 .. Len(word) : g[b] = Turn(word, b, g) /\ g[b] \in Results,
         NEW n \in Nat, NEW t \in Cuts(word, n), NEW p \in Segmentation(word, n, t)
  PROVE  g[0].ok /\ g[0].ids = p
<1> DEFINE begin(k) == t[k]
           Found(k) == LET r == g[begin(k + 1)]
                       IN  /\ r.ok /\ Len(r.ids) = n - k
                           /\ \A x \in 1 .. n - k : r.ids[x] = p[k + x]
           A == {k \in 0 .. n : Found(k)}
           S == DOMAIN raw.pieces
<1>1. Len(p) = n /\ DOMAIN p = 1 .. n /\ p \in Seq(S) /\ \A k \in 1 .. n : p[k] \in S
  BY DEF Segmentation
<1>2. Len(word) \in Nat
  BY DEF NotationAlone, IsText
<1>3. /\ begin(1) = 0 /\ begin(n + 1) = Len(word)
      /\ \A k \in 1 .. n : /\ begin(k) \in 0 .. Len(word) /\ begin(k + 1) \in 0 .. Len(word)
                           /\ begin(k) < begin(k + 1) /\ BestFit(word, p[k], begin(k), begin(k + 1))
  <2>1. \A k \in 1 .. n : k \in 1 .. n + 1 /\ k + 1 \in 1 .. n + 1
    OBVIOUS
  <2> QED
    BY <2>1 DEF Cuts, Segmentation
<1> HIDE DEF begin
<1>4. n \in A
  <2>1. g[Len(word)] = [ok |-> TRUE, ids |-> <<>>]
    <3>1. Len(word) \in 0 .. Len(word)
      BY <1>2
    <3>2. g[Len(word)] = Turn(word, Len(word), g)
      BY <3>1
    <3> QED
      BY <3>2 DEF Turn
  <2>2. n - n = 0 /\ 1 .. 0 = {} /\ Len(<<>>) = 0 /\ n \in 0 .. n
    OBVIOUS
  <2>3. Found(n)
    <3> DEFINE r == g[begin(n + 1)]
    <3>1. r.ok = TRUE /\ r.ids = <<>>
      BY <1>3, <2>1
    <3> HIDE DEF r
    <3>2. r.ok /\ Len(r.ids) = n - n /\ \A x \in 1 .. n - n : r.ids[x] = p[n + x]
      BY <2>2, <3>1
    <3> QED
      BY <3>2 DEF r
  <2> HIDE DEF Found
  <2> QED
    BY <2>2, <2>3
<1>5. ASSUME NEW k \in 1 .. n, k \in A
      PROVE  k - 1 \in A
  <2> DEFINE b == begin(k)
             e == begin(k + 1)
             u == g[e].ids
             x == p[k]
  <2>1. x \in S /\ BestFit(word, x, b, e) /\ b \in 0 .. Len(word) /\ e \in 0 .. Len(word) /\ b < e
    BY <1>1, <1>3
  <2>3. b \in 0 .. Len(word) - 1 /\ b # Len(word) /\ e \in b + 1 .. Len(word)
    <3> HIDE DEF b, e, x
    <3> QED
      BY <1>2, <2>1
  <2>4. PieceAt(word, b).id = x /\ PieceAt(word, b).end = e
    <3> HIDE DEF b, e, x
    <3> QED
      BY <2>1, <2>3, PieceAtIsBest
  <2>5. x # -1
    <3> HIDE DEF b, e, x
    <3> QED
      BY <2>1, PieceIds
  <2>6. g[b] = [ok |-> g[e].ok, ids |-> <<x>> \o u]
    <3> HIDE DEF b, e, x
    <3>1. g[b] = Turn(word, b, g)
      BY <2>1
    <3> QED
      BY <2>3, <2>4, <2>5, <3>1 DEF Turn
  <2>7. u \in Seq(S)
    <3> HIDE DEF b, e, x
    <3> QED
      BY <2>1 DEF Results
  <2>8. g[e].ok /\ Len(u) = n - k /\ \A y \in 1 .. n - k : u[y] = p[k + y]
    BY <1>5
  <2> HIDE DEF b, e, u, x, S
  <2>9. /\ Len(<<x>> \o u) = Len(u) + 1 /\ (<<x>> \o u)[1] = x
        /\ \A y \in 1 .. Len(u) : (<<x>> \o u)[y + 1] = u[y]
    BY <2>1, <2>7, Prepended
  <2>10. ASSUME NEW y \in 1 .. n - (k - 1)
         PROVE  (<<x>> \o u)[y] = p[(k - 1) + y]
    <3>1. CASE y = 1
      BY <2>9, <3>1 DEF x
    <3>2. CASE y # 1
      <4>1. y - 1 \in 1 .. n - k /\ (y - 1) + 1 = y /\ k + (y - 1) = (k - 1) + y
        BY <3>2
      <4>2. (<<x>> \o u)[(y - 1) + 1] = u[y - 1]
        BY <2>8, <2>9, <4>1
      <4>3. u[y - 1] = p[k + (y - 1)]
        BY <2>8, <4>1
      <4> QED
        BY <4>1, <4>2, <4>3
    <3> QED
      BY <3>1, <3>2
  <2>11. Len(<<x>> \o u) = n - (k - 1)
    BY <2>8, <2>9
  <2>12. k - 1 \in 0 .. n /\ (k - 1) + 1 = k
    OBVIOUS
  <2>13. g[b].ok /\ g[b].ids = <<x>> \o u
    BY <2>6, <2>8
  <2>14. Found(k - 1)
    BY <2>10, <2>11, <2>12, <2>13 DEF b
  <2> HIDE DEF Found
  <2> QED
    BY <2>12, <2>14
<1>6. 0 \in A
  <2> DEFINE B == {k \in 0 .. n : n - k \in A}
  <2>1. n - 0 \in A /\ 0 \in 0 .. n
    <3>1. n - 0 = n /\ 0 \in 0 .. n
      OBVIOUS
    <3> HIDE DEF A
    <3> QED
      BY <1>4, <3>1
  <2>2. ASSUME NEW k \in 0 .. n - 1, k \in B PROVE k + 1 \in B
    <3>1. n - k \in 1 .. n /\ (n - k) - 1 = n - (k + 1) /\ k + 1 \in 0 .. n
      OBVIOUS
    <3> HIDE DEF A
    <3> QED
      BY <1>5, <2>2, <3>1
  <2>3. n \in B
    <3> HIDE DEF B
    <3>1. 0 \in B
      BY <2>1 DEF B
    <3>2. \A k \in 0 .. n - 1 : k \in B => k + 1 \in B
      BY <2>2
    <3>3. 0 .. n \subseteq B
      BY <3>1, <3>2, Induction
    <3> QED
      BY <3>3
  <2>4. n - n = 0
    OBVIOUS
  <2> HIDE DEF A
  <2> QED
    BY <2>3, <2>4
<1>7. g[0].ok /\ Len(g[0].ids) = n /\ \A x \in 1 .. n : g[0].ids[x] = p[x]
  <2>1. Found(0)
    BY <1>6
  <2>2. n - 0 = n /\ 0 + 1 = 1 /\ \A x \in 1 .. n : 0 + x = x
    OBVIOUS
  <2> QED
    BY <1>3, <2>1, <2>2
<1>8. g[0].ids \in Seq(S)
  BY <1>2 DEF Results
<1> DEFINE u == g[0].ids
<1> HIDE DEF u, S
<1>9. u = p
  <2>1. u \in Seq(S) /\ Len(u) = n /\ \A x \in 1 .. n : u[x] = p[x]
    BY <1>7, <1>8 DEF u
  <2> QED
    BY <1>1, <2>1
<1> QED
  BY <1>7, <1>9 DEF u

(* Positions at which the pieces p lie behind the b-th byte of a word. *)
Cutting(word, b, p, t) ==
  /\ t \in [1 .. Len(p) + 1 -> 0 .. Len(word)]
  /\ t[1] = b /\ t[Len(p) + 1] = Len(word)
  /\ \A k \in 1 .. Len(p) : t[k] < t[k + 1] /\ BestFit(word, p[k], t[k], t[k + 1])

(* What the turns of a word find is a segmentation of it. *)
LEMMA TurnsSegment ==
  ASSUME RawPieces, NEW word, NotationAlone(word), NEW g,
         \A b \in 0 .. Len(word) : g[b] = Turn(word, b, g) /\ g[b] \in Results,
         g[0].ok
  PROVE  \E t \in Cuts(word, Len(g[0].ids)) : g[0].ids \in Segmentation(word, Len(g[0].ids), t)
<1> DEFINE n == Len(word)
           S == DOMAIN raw.pieces
           A == {b \in 0 .. n : g[b].ok => \E t : Cutting(word, b, g[b].ids, t)}
<1>1. n \in Nat
  BY DEF NotationAlone, IsText
<1>2. ASSUME NEW b \in 0 .. n, \A e \in b + 1 .. n : e \in A
      PROVE  b \in A
  <2>0. g[b] = Turn(word, b, g)
    OBVIOUS
  <2>1. CASE b = n
    <3>1. g[b].ids = <<>>
      BY <2>0, <2>1 DEF Turn
    <3> DEFINE t == [k \in 1 .. 1 |-> b]
    <3>2. Cutting(word, b, <<>>, t)
      <4>1. Len(<<>>) = 0 /\ 0 + 1 = 1 /\ 1 .. 0 = {} /\ b \in Nat
        BY <1>1
      <4>2. t \in [1 .. 1 -> 0 .. n] /\ t[1] = b
        BY <4>1
      <4> HIDE DEF t
      <4> QED
        BY <2>1, <4>1, <4>2 DEF Cutting, n
    <3>3. \E s : Cutting(word, b, g[b].ids, s)
      <4> HIDE DEF t
      <4> QED
        BY <3>1, <3>2
    <3> QED
      BY <3>3
  <2>2. CASE b # n /\ PieceAt(word, b).id = -1
    <3>1. ~g[b].ok
      BY <2>0, <2>2 DEF Turn
    <3> QED
      BY <3>1
  <2>3. CASE b # n /\ PieceAt(word, b).id # -1
    <3> DEFINE x == PieceAt(word, b).id
               e == PieceAt(word, b).end
               u == g[e].ids
    <3>1. x \in S /\ BestFit(word, x, b, e) /\ e \in b + 1 .. n /\ e \in 0 .. n /\ b < e
      <4>1. b \in 0 .. n - 1
        BY <1>1, <2>3
      <4>2. x \in S /\ BestFit(word, x, b, e) /\ e \in b + 1 .. n
        BY <2>3, <4>1, PieceAtIsBest
      <4> HIDE DEF x, e, n
      <4> QED
        BY <1>1, <4>2
    <3>2. g[b].ok = g[e].ok /\ g[b].ids = <<x>> \o u
      <4>1. Turn(word, b, g) = [ok |-> g[e].ok, ids |-> <<x>> \o u]
        BY <2>3 DEF Turn
      <4> HIDE DEF x, e, u
      <4> QED
        BY <2>0, <4>1
    <3> HIDE DEF x, e
    <3>3. u \in Seq(S)
      BY <3>1 DEF Results
    <3> HIDE DEF u, S
    <3>4. /\ Len(<<x>> \o u) = Len(u) + 1 /\ (<<x>> \o u)[1] = x /\ Len(u) \in Nat
          /\ \A y \in 1 .. Len(u) : (<<x>> \o u)[y + 1] = u[y]
      BY <3>1, <3>3, Prepended
    <3>5. ASSUME g[e].ok
          PROVE  \E t : Cutting(word, b, <<x>> \o u, t)
      <4>1. PICK t : Cutting(word, e, u, t)
        BY <1>2, <3>1, <3>5 DEF u
      <4> DEFINE m == Len(u)
                 v == <<x>> \o u
                 s == [k \in 1 .. m + 2 |-> IF k = 1 THEN b ELSE t[k - 1]]
      <4>2. /\ m \in Nat /\ t \in [1 .. m + 1 -> 0 .. n] /\ t[1] = e /\ t[m + 1] = n
            /\ \A k \in 1 .. m : t[k] < t[k + 1] /\ BestFit(word, u[k], t[k], t[k + 1])
        BY <3>4, <4>1 DEF Cutting
      <4>3. Len(v) = m + 1 /\ v[1] = x /\ \A y \in 1 .. m : v[y + 1] = u[y]
        BY <3>4
      <4> HIDE DEF m, v
      <4>4. s \in [1 .. m + 2 -> 0 .. n] /\ s[1] = b /\ \A k \in 1 .. m + 1 : s[k + 1] = t[k]
        <5>1. \A k \in 1 .. m + 2 : k # 1 => k - 1 \in 1 .. m + 1
          BY <4>2
        <5>2. \A k \in 1 .. m + 1 : k + 1 \in 1 .. m + 2 /\ k + 1 # 1 /\ (k + 1) - 1 = k
          BY <4>2
        <5>3. 1 \in 1 .. m + 2 /\ b \in 0 .. n
          BY <4>2
        <5>4. \A k \in 1 .. m + 2 : (IF k = 1 THEN b ELSE t[k - 1]) \in 0 .. n
          BY <4>2, <5>1, <5>3
        <5> QED
          BY <5>2, <5>3, <5>4
      <4> HIDE DEF s
      <4>5. ASSUME NEW k \in 1 .. m + 1
            PROVE  s[k] < s[k + 1] /\ BestFit(word, v[k], s[k], s[k + 1])
        <5>1. CASE k = 1
          BY <3>1, <4>2, <4>3, <4>4, <5>1
        <5>2. CASE k # 1
          <6> DEFINE l == k - 1
          <6>1. l \in 1 .. m /\ l + 1 = k /\ l \in 1 .. m + 1
            BY <4>2, <5>2
          <6> HIDE DEF l
          <6>2. v[k] = u[l] /\ s[k] = t[l] /\ s[k + 1] = t[l + 1]
            BY <4>3, <4>4, <6>1
          <6> QED
            BY <4>2, <6>1, <6>2
        <5> QED
          BY <5>1, <5>2
      <4>6. s[(m + 1) + 1] = n /\ (m + 1) + 1 = m + 2
        BY <4>2, <4>4
      <4>7. Cutting(word, b, v, s)
        BY <4>3, <4>4, <4>5, <4>6 DEF Cutting, n
      <4> QED
        BY <4>7 DEF v
    <3> QED
      BY <3>2, <3>5
  <2> QED
    BY <2>1, <2>2, <2>3
<1>3. 0 \in A
  <2> HIDE DEF A, n
  <2>1. 0 .. n \subseteq A
    BY <1>1, <1>2, Downwards
  <2> QED
    BY <1>1, <2>1
<1> DEFINE p == g[0].ids
           m == Len(p)
<1>4. PICK t : Cutting(word, 0, p, t)
  BY <1>3
<1>5. p \in Seq(S)
  BY <1>1 DEF Results
<1> HIDE DEF p
<1>6. m \in Nat /\ p \in [1 .. m -> S]
  BY <1>5
<1> HIDE DEF m
<1>7. t \in Cuts(word, m)
  BY <1>4 DEF Cutting, Cuts, m
<1>8. p \in Segmentation(word, m, t)
  BY <1>4, <1>6 DEF Cutting, Segmentation, m, S
<1> QED
  BY <1>7, <1>8 DEF p, m

(* A piece is not empty: a word has at most as many as bytes. *)
LEMMA SegmentationSize ==
  ASSUME NEW word, Len(word) \in Nat, NEW n \in Nat, NEW t \in Cuts(word, n)
  PROVE  n <= Len(word) /\ (n = 0 => Len(word) = 0)
<1> DEFINE A == {k \in 0 .. n : t[k + 1] >= k}
<1>1. /\ t[1] = 0 /\ t[n + 1] = Len(word)
      /\ \A k \in 1 .. n + 1 : t[k] \in Nat
      /\ \A k \in 1 .. n : t[k] < t[k + 1]
  BY DEF Cuts
<1>2. 0 \in A
  BY <1>1
<1>3. ASSUME NEW k \in 0 .. n - 1, k \in A PROVE k + 1 \in A
  <2>1. k + 1 \in 1 .. n /\ k + 1 \in 0 .. n /\ k + 1 \in 1 .. n + 1 /\ (k + 1) + 1 \in 1 .. n + 1
    OBVIOUS
  <2>2. t[k + 1] \in Nat /\ t[k + 1] >= k /\ t[(k + 1) + 1] \in Nat /\ t[k + 1] < t[(k + 1) + 1]
    BY <1>1, <1>3, <2>1
  <2>3. t[(k + 1) + 1] >= k + 1
    BY <2>2
  <2> QED
    BY <2>1, <2>3
<1>4. n \in A
  <2> HIDE DEF A
  <2>1. \A k \in 0 .. n - 1 : k \in A => k + 1 \in A
    BY <1>3
  <2>2. 0 .. n \subseteq A
    BY <1>2, <2>1, Induction
  <2> QED
    BY <2>2
<1>5. t[n + 1] >= n
  BY <1>4
<1>6. n = 0 => t[n + 1] = 0
  BY <1>1
<1> QED
  BY <1>1, <1>5, <1>6

(* wordpiece gives the best pieces of a word, or the unknown token. *)
LEMMA WordPieceIsPieces ==
  ASSUME RawPieces, NEW word, NotationAlone(word)
  PROVE  /\ wordpiece(word) = Pieces(word)
         /\ wordpiece(word) \in Seq(DOMAIN raw.pieces \cup {raw.unk})
<1> DEFINE S == DOMAIN raw.pieces
<1>1. PICK g : /\ \A b \in 0 .. Len(word) : g[b] = Turn(word, b, g) /\ g[b] \in Results
               /\ wordpiece(word) =
                    IF Len(word) > MaxWord \/ ~g[0].ok \/ g[0].ids = <<>> THEN <<raw.unk>>
                    ELSE g[0].ids
  BY TurnsOf
<1>2. Len(word) \in Nat /\ 0 \in 0 .. Len(word)
  BY DEF NotationAlone, IsText
<1>3. g[0].ids \in Seq(S)
  BY <1>1, <1>2 DEF Results
<1> DEFINE p == g[0].ids
           n == Len(p)
<1>4. n \in Nat /\ p \in [1 .. n -> S] /\ (p = <<>> <=> n = 0)
  <2> HIDE DEF p
  <2> QED
    BY <1>3 DEF p
<1>5. \A q \in Segmentations(word) : g[0].ok /\ p = q /\ p # <<>>
  <2>1. ASSUME NEW q \in Segmentations(word) PROVE g[0].ok /\ p = q /\ p # <<>>
    <3>1. PICK m \in 1 .. Len(word) : \E t \in Cuts(word, m) : q \in Segmentation(word, m, t)
      BY DEF Segmentations
    <3>2. m \in Nat /\ m # 0 /\ Len(q) = m
      BY <1>2, <3>1 DEF Segmentation
    <3>3. g[0].ok /\ p = q
      <4> HIDE DEF p
      <4> QED
        BY <1>1, <3>1, <3>2, OnlySegmentation DEF p
    <3> HIDE DEF p, n
    <3>4. n = m
      BY <3>2, <3>3 DEF n
    <3> QED
      BY <1>4, <3>2, <3>3, <3>4
  <2> HIDE DEF p
  <2> QED
    BY <2>1
<1>6. g[0].ok /\ p # <<>> => p \in Segmentations(word)
  <2>1. ASSUME g[0].ok, p # <<>> PROVE p \in Segmentations(word)
    <3>1. PICK t \in Cuts(word, n) : p \in Segmentation(word, n, t)
      BY <1>1, <2>1, TurnsSegment
    <3> HIDE DEF p, n
    <3>2. n \in 1 .. Len(word)
      <4>1. n <= Len(word) /\ n # 0
        BY <1>2, <1>4, <2>1, <3>1, SegmentationSize
      <4> QED
        BY <1>2, <1>4, <4>1
    <3> QED
      BY <3>1, <3>2 DEF Segmentations
  <2> HIDE DEF p
  <2> QED
    BY <2>1
<1> HIDE DEF p, n
<1>7. wordpiece(word) = IF Len(word) > MaxWord \/ ~g[0].ok \/ p = <<>> THEN <<raw.unk>> ELSE p
  BY <1>1 DEF p
<1>8. wordpiece(word) = Pieces(word)
  <2>1. CASE Segmentations(word) = {}
    BY <1>6, <1>7, <2>1 DEF Pieces
  <2>2. CASE Segmentations(word) # {}
    <3> DEFINE c == CHOOSE q \in Segmentations(word) : TRUE
    <3>1. c \in Segmentations(word)
      BY <2>2
    <3> HIDE DEF c
    <3>2. g[0].ok /\ p = c /\ p # <<>>
      BY <1>5, <3>1
    <3> QED
      BY <1>7, <2>2, <3>2 DEF Pieces, c
  <2> QED
    BY <2>1, <2>2
<1>9. <<raw.unk>> \in Seq(S \cup {raw.unk}) /\ p \in Seq(S \cup {raw.unk})
  <2>1. p \in [1 .. n -> S \cup {raw.unk}]
    BY <1>4
  <2> HIDE DEF S
  <2> QED
    BY <1>4, <2>1
<1> QED
  BY <1>7, <1>8, <1>9

-----------------------------------------------------------------------------
(* WordPiece: the words of a text.                                         *)

(* out are the words of a text that end at or before byte c, sp where they *)
(* are.                                                                    *)
Covered(t, c, out, sp) ==
  /\ sp \in Seq(Spans(t)) /\ Len(sp) = Len(out)
  /\ \A m \in 1 .. Len(sp) : sp[m][2] <= c /\ out[m] = Shown(t, sp[m][1], sp[m][2])
  /\ \A m, n \in 1 .. Len(sp) : m < n => sp[m][1] < sp[n][1]
  /\ \A s \in Spans(t) : s[2] <= c => \E m \in 1 .. Len(sp) : sp[m] = s

(* basic_tokenize after k bytes: the word it reads begins behind byte c. *)
Reading(t, k, s, c, sp) ==
  /\ c \in 0 .. k /\ Covered(t, c, s.out, sp)
  /\ s.cur = [x \in 1 .. k - c |-> Lower(t[c + x])]
  /\ \A x \in c + 1 .. k : OfWord(t[x])
  /\ c = 0 \/ ~OfWord(t[c])

(* A span is a pair of places in the text. *)
LEMMA SpansTyped ==
  ASSUME NEW t, IsText(t)
  PROVE  /\ Len(t) \in Nat /\ DOMAIN t = 1 .. Len(t)
         /\ \A s \in Spans(t) : /\ s[1] \in 1 .. Len(t) /\ s[2] \in 1 .. Len(t) /\ s[1] <= s[2]
                                /\ s = <<s[1], s[2]>> /\ IsWord(t, s[1], s[2])
         /\ \A i, j \in 1 .. Len(t) : i <= j /\ IsWord(t, i, j) => <<i, j>> \in Spans(t)
<1>1. Len(t) \in Nat /\ DOMAIN t = 1 .. Len(t)
  BY DEF IsText
<1> QED
  BY <1>1 DEF Spans

(* One more word. *)
LEMMA CoveredMore ==
  ASSUME NEW t, IsText(t), NEW B, NEW c \in Nat, NEW d \in Nat, NEW out \in Seq(B), NEW sp,
         Covered(t, c, out, sp), NEW a \in Spans(t), c < a[1], a[2] <= d,
         \A s \in Spans(t) : c < s[2] /\ s[2] <= d => s = a,
         Shown(t, a[1], a[2]) \in B
  PROVE  Covered(t, d, Append(out, Shown(t, a[1], a[2])), Append(sp, a))
<1> DEFINE w == Shown(t, a[1], a[2])
           o == Append(out, w)
           p == Append(sp, a)
           n == Len(sp)
<1>1. /\ sp \in Seq(Spans(t)) /\ n = Len(out) /\ n \in Nat
      /\ \A m \in 1 .. n : sp[m][2] <= c /\ out[m] = Shown(t, sp[m][1], sp[m][2])
      /\ \A l, m \in 1 .. n : l < m => sp[l][1] < sp[m][1]
      /\ \A s \in Spans(t) : s[2] <= c => \E m \in 1 .. n : sp[m] = s
  BY DEF Covered
<1>2. /\ Len(t) \in Nat
      /\ \A s \in Spans(t) : s[1] \in 1 .. Len(t) /\ s[2] \in 1 .. Len(t) /\ s[1] <= s[2]
  BY SpansTyped
<1> HIDE DEF w
<1>3. /\ p \in Seq(Spans(t)) /\ Len(p) = n + 1 /\ p[n + 1] = a
      /\ \A m \in 1 .. n : p[m] = sp[m] /\ sp[m] \in Spans(t)
  BY <1>1
<1>4. Len(o) = n + 1 /\ o[n + 1] = w /\ \A m \in 1 .. n : o[m] = out[m]
  BY <1>1 DEF w
<1>5. \A m \in 1 .. n + 1 : m = n + 1 \/ m \in 1 .. n
  BY <1>1
<1> HIDE DEF o, p, n
<1>6. ASSUME NEW m \in 1 .. n + 1
      PROVE  p[m][2] <= d /\ o[m] = Shown(t, p[m][1], p[m][2])
  <2>1. CASE m = n + 1
    BY <1>3, <1>4, <2>1 DEF w
  <2>2. CASE m \in 1 .. n
    <3>1. p[m] = sp[m] /\ o[m] = Shown(t, sp[m][1], sp[m][2]) /\ sp[m][2] <= c /\ sp[m][2] \in Nat
      BY <1>1, <1>2, <1>3, <1>4, <2>2
    <3>2. a[1] <= a[2] /\ a[1] \in Nat /\ a[2] \in Nat
      BY <1>2
    <3> QED
      BY <3>1, <3>2
  <2> QED
    BY <1>5, <2>1, <2>2
<1>7. ASSUME NEW l \in 1 .. n + 1, NEW m \in 1 .. n + 1, l < m
      PROVE  p[l][1] < p[m][1]
  <2>1. l \in 1 .. n
    BY <1>1, <1>7
  <2>2. CASE m = n + 1
    <3>0. sp[l] \in Spans(t) /\ sp[l][2] <= c
      BY <1>1, <1>3, <2>1
    <3>4. \A s \in Spans(t) : s[1] \in Nat /\ s[2] \in Nat /\ s[1] <= s[2]
      BY <1>2
    <3>1. sp[l][1] <= sp[l][2] /\ sp[l][2] <= c /\ sp[l][1] \in Nat /\ sp[l][2] \in Nat /\ a[1] \in Nat
      BY <3>0, <3>4
    <3>2. p[l] = sp[l] /\ p[m] = a
      BY <1>3, <2>1, <2>2
    <3>3. sp[l][1] < a[1]
      BY <3>1
    <3> QED
      BY <3>2, <3>3
  <2>3. CASE m \in 1 .. n
    BY <1>1, <1>3, <1>7, <2>1, <2>3
  <2> QED
    BY <1>5, <2>2, <2>3
<1>8. ASSUME NEW s \in Spans(t), s[2] <= d
      PROVE  \E m \in 1 .. n + 1 : p[m] = s
  <2>1. n + 1 \in 1 .. n + 1 /\ \A m \in 1 .. n : m \in 1 .. n + 1
    BY <1>1
  <2>2. CASE s[2] <= c
    BY <1>1, <1>3, <2>1, <2>2
  <2>3. CASE c < s[2]
    BY <1>3, <1>8, <2>1, <2>3
  <2>4. s[2] \in Nat
    BY <1>2
  <2> QED
    BY <2>2, <2>3, <2>4
<1>9. Covered(t, d, o, p)
  BY <1>3, <1>4, <1>6, <1>7, <1>8 DEF Covered
<1> QED
  BY <1>9 DEF o, p, w

(* A byte at which no word ends. *)
LEMMA CoveredSame ==
  ASSUME NEW t, IsText(t), NEW c \in Nat, NEW d \in Nat, c <= d, NEW out, NEW sp,
         Covered(t, c, out, sp), \A s \in Spans(t) : ~(c < s[2] /\ s[2] <= d)
  PROVE  Covered(t, d, out, sp)
<1>1. \A s \in Spans(t) : s[2] \in Nat
  BY SpansTyped
<1>2. \A s \in Spans(t) : s[2] <= d => s[2] <= c
  BY <1>1
<1>3. \A m \in 1 .. Len(sp) : sp[m] \in Spans(t) /\ sp[m][2] <= c
  BY DEF Covered
<1>4. \A m \in 1 .. Len(sp) : sp[m][2] <= d
  BY <1>1, <1>3
<1> QED
  BY <1>2, <1>4 DEF Covered

(* At a byte that is not of a word, and at the end, the word read is one   *)
(* of the text.                                                            *)
LEMMA FlushCovers ==
  ASSUME NEW t, IsText(t), NEW B, NEW k \in 0 .. Len(t), NEW s \in [out : Seq(Seq(B)), cur : Seq(B)],
         NEW c, NEW sp, Reading(t, k, s, c, sp), k = Len(t) \/ ~OfWord(t[k + 1])
  PROVE  Flush(s).cur = <<>> /\ \E sq : Covered(t, k, Flush(s).out, sq)
<1>1. Len(t) \in Nat /\ k \in Nat /\ c \in Nat /\ c <= k
  BY SpansTyped DEF Reading
<1>2. /\ \A x \in c + 1 .. k : OfWord(t[x])
      /\ c = 0 \/ ~OfWord(t[c])
      /\ s.cur = [x \in 1 .. k - c |-> Lower(t[c + x])]
      /\ Covered(t, c, s.out, sp)
  BY DEF Reading
<1>3. CASE c = k
  <2>1. s.cur = <<>>
    <3>1. k - c = 0 /\ 1 .. 0 = {}
      BY <1>1, <1>3
    <3>2. s.cur \in Seq(B) /\ DOMAIN s.cur = {}
      BY <1>2, <3>1
    <3> DEFINE u == s.cur
    <3> HIDE DEF u
    <3>3. u \in Seq(B) /\ DOMAIN u = {} => u = <<>>
      OBVIOUS
    <3> QED
      BY <3>2, <3>3 DEF u
  <2>2. Flush(s) = s
    BY <2>1 DEF Flush
  <2> QED
    BY <1>2, <1>3, <2>1, <2>2
<1>4. CASE c # k
  <2> DEFINE a == <<c + 1, k>>
  <2>1. c + 1 \in 1 .. Len(t) /\ k \in 1 .. Len(t) /\ c + 1 <= k /\ (c + 1) - 1 = c
    BY <1>1, <1>4
  <2>2. a \in Spans(t) /\ a[1] = c + 1 /\ a[2] = k
    <3>1. IsWord(t, c + 1, k)
      <4>1. c + 1 = 1 \/ ~OfWord(t[(c + 1) - 1])
        BY <1>1, <1>2, <2>1
      <4> QED
        BY <1>2, <4>1 DEF IsWord
    <3> QED
      BY <2>1, <3>1, SpansTyped
  <2>3. ASSUME NEW z \in Spans(t), c < z[2], z[2] <= k
        PROVE  z = a
    <3> DEFINE i == z[1]
               j == z[2]
    <3>1. i \in 1 .. Len(t) /\ j \in 1 .. Len(t) /\ i <= j /\ z = <<i, j>> /\ IsWord(t, i, j)
      BY SpansTyped
    <3> HIDE DEF i, j
    <3>2. j \in c + 1 .. k
      BY <1>1, <2>3, <3>1 DEF j
    <3>3. t[j] \notin Punctuation
      BY <1>2, <3>2 DEF OfWord
    <3>4. /\ \A x \in i .. j : OfWord(t[x])
          /\ i = 1 \/ ~OfWord(t[i - 1])
          /\ j = Len(t) \/ ~OfWord(t[j + 1])
      BY <3>1, <3>3 DEF IsWord
    <3>5. j = k
      <4>1. ASSUME j # k PROVE FALSE
        <5>1. j + 1 \in c + 1 .. k /\ j # Len(t)
          BY <1>1, <3>2, <4>1
        <5> QED
          BY <1>2, <3>4, <5>1
      <4> QED
        BY <4>1
    <3>6. i > c
      <4>1. ASSUME ~(i > c) PROVE FALSE
        <5>1. c \in i .. j /\ c # 0
          BY <1>1, <3>1, <3>2, <4>1
        <5> QED
          BY <1>2, <3>4, <5>1
      <4> QED
        BY <4>1
    <3>7. i = c + 1
      <4>1. ASSUME i # c + 1 PROVE FALSE
        <5>1. i - 1 \in c + 1 .. k /\ i # 1
          BY <1>1, <3>1, <3>2, <3>6, <4>1
        <5> QED
          BY <1>2, <3>4, <5>1
      <4> QED
        BY <4>1
    <3> QED
      BY <3>1, <3>5, <3>7
  <2>4. Shown(t, c + 1, k) = s.cur
    <3>1. k - (c + 1) + 1 = k - c /\ \A x \in 1 .. k - c : (c + 1) + x - 1 = c + x
      BY <1>1
    <3> QED
      BY <1>2, <3>1 DEF Shown
  <2>5. s.cur # <<>> /\ s.cur \in Seq(B) /\ s.out \in Seq(Seq(B))
    <3>1. 1 \in 1 .. k - c
      BY <1>1, <1>4
    <3>2. 1 \in DOMAIN s.cur
      BY <1>2, <3>1
    <3> QED
      BY <3>2
  <2>6. Flush(s).out = Append(s.out, s.cur) /\ Flush(s).cur = <<>>
    BY <2>5 DEF Flush
  <2>7. Covered(t, k, Append(s.out, Shown(t, a[1], a[2])), Append(sp, a))
    <3> HIDE DEF a
    <3>1. c < a[1] /\ a[2] <= k
      BY <1>1, <2>2
    <3>2. \A z \in Spans(t) : c < z[2] /\ z[2] <= k => z = a
      BY <2>3
    <3>3. Shown(t, a[1], a[2]) \in Seq(B)
      BY <2>2, <2>4, <2>5
    <3> QED
      BY <1>1, <1>2, <2>2, <2>5, <3>1, <3>2, <3>3, CoveredMore
  <2> QED
    BY <2>2, <2>4, <2>6, <2>7
<1> QED
  BY <1>3, <1>4

(* What basic_tokenize collects while it reads bytes of B. *)
Readers(B) == [out : Seq(Seq(B)), cur : Seq(B)]

(* A flush keeps the type of what is collected ... *)
LEMMA FlushTyped ==
  ASSUME NEW B, NEW s \in Readers(B)
  PROVE  Flush(s) \in Readers(B)
<1>1. Append(s.out, s.cur) \in Seq(Seq(B)) /\ <<>> \in Seq(B)
  BY DEF Readers
<1>2. [out |-> Append(s.out, s.cur), cur |-> <<>>] \in Readers(B)
  BY <1>1 DEF Readers
<1> QED
  BY <1>2 DEF Flush

(* ... and so does a byte; what it does, field by field. *)
LEMMA ByteTyped ==
  ASSUME NEW B, NEW s \in Readers(B), NEW c \in B, Lower(c) \in B
  PROVE  /\ Byte(s, c) \in Readers(B)
         /\ Byte(s, c) = IF c \in Blank THEN Flush(s)
                         ELSE IF c \in Punctuation
                              THEN [out |-> Append(Flush(s).out, <<c>>), cur |-> Flush(s).cur]
                         ELSE [out |-> s.out, cur |-> Append(s.cur, Lower(c))]
<1> DEFINE f == Flush(s)
<1>1. f \in Readers(B)
  BY FlushTyped
<1> HIDE DEF f
<1>2. [f EXCEPT !.out = Append(@, <<c>>)] = [out |-> Append(f.out, <<c>>), cur |-> f.cur]
  <2>1. \A g \in Readers(B) : \A o : [g EXCEPT !.out = o] = [out |-> o, cur |-> g.cur]
    BY DEF Readers
  <2> QED
    BY <1>1, <2>1
<1>3. [s EXCEPT !.cur = Append(@, Lower(c))] = [out |-> s.out, cur |-> Append(s.cur, Lower(c))]
  <2> DEFINE u == Append(s.cur, Lower(c))
  <2>1. s = [out |-> s.out, cur |-> s.cur]
    BY DEF Readers
  <2> HIDE DEF u
  <2>2. \A o, v : [[out |-> o, cur |-> v] EXCEPT !.cur = u] = [out |-> o, cur |-> u]
    OBVIOUS
  <2>3. [s EXCEPT !.cur = u] = [out |-> s.out, cur |-> u]
    BY <2>1, <2>2
  <2> QED
    BY <2>3 DEF u
<1>4. [out |-> Append(f.out, <<c>>), cur |-> f.cur] \in Readers(B)
  <2>1. <<c>> \in Seq(B)
    OBVIOUS
  <2>2. Append(f.out, <<c>>) \in Seq(Seq(B)) /\ f.cur \in Seq(B)
    BY <1>1, <2>1 DEF Readers
  <2> QED
    BY <2>2 DEF Readers
<1>5. [out |-> s.out, cur |-> Append(s.cur, Lower(c))] \in Readers(B)
  <2>1. Append(s.cur, Lower(c)) \in Seq(B) /\ s.out \in Seq(Seq(B))
    BY DEF Readers
  <2> QED
    BY <2>1 DEF Readers
<1>6. Byte(s, c) = IF c \in Blank THEN f
                   ELSE IF c \in Punctuation THEN [f EXCEPT !.out = Append(@, <<c>>)]
                   ELSE [s EXCEPT !.cur = Append(@, Lower(c))]
  BY DEF Byte, Lower, f
<1> QED
  BY <1>1, <1>2, <1>3, <1>4, <1>5, <1>6 DEF f

(* Every byte read keeps the words of the text before it. *)
LEMMA ByteReads ==
  ASSUME NEW t, IsText(t), NEW B, \A i \in 1 .. Len(t) : t[i] \in B /\ Lower(t[i]) \in B,
         NEW k \in 1 .. Len(t), NEW s \in Readers(B), NEW c, NEW sp, Reading(t, k - 1, s, c, sp)
  PROVE  \E d, sq : Reading(t, k, Byte(s, t[k]), d, sq)
<1> DEFINE x == t[k]
           r == Byte(s, x)
<1>0. x \in B /\ Lower(x) \in B
  OBVIOUS
<1>1. Len(t) \in Nat /\ k - 1 \in 0 .. Len(t) /\ c \in Nat /\ c <= k - 1 /\ (k - 1) + 1 = k /\ k \in Nat
  <2>1. Len(t) \in Nat
    BY SpansTyped
  <2>2. c \in 0 .. k - 1
    BY DEF Reading
  <2> QED
    BY <2>1, <2>2
<1>2. r = IF x \in Blank THEN Flush(s)
          ELSE IF x \in Punctuation THEN [out |-> Append(Flush(s).out, <<x>>), cur |-> Flush(s).cur]
          ELSE [out |-> s.out, cur |-> Append(s.cur, Lower(x))]
  BY <1>0, ByteTyped
<1>3. CASE OfWord(x)
  <2>1. r.out = s.out /\ r.cur = Append(s.cur, Lower(x))
    BY <1>2, <1>3 DEF OfWord
  <2>2. /\ s.cur = [y \in 1 .. (k - 1) - c |-> Lower(t[c + y])]
        /\ \A y \in c + 1 .. k - 1 : OfWord(t[y])
        /\ c = 0 \/ ~OfWord(t[c])
        /\ Covered(t, c, s.out, sp)
    BY DEF Reading
  <2>3. r.cur = [y \in 1 .. k - c |-> Lower(t[c + y])]
    <3> DEFINE n == (k - 1) - c
               u == s.cur
               v == Append(u, Lower(x))
    <3>1. n \in Nat /\ n + 1 = k - c /\ c + (n + 1) = k
      BY <1>1
    <3>2. u \in Seq(B) /\ Len(u) = n /\ \A y \in 1 .. n : u[y] = Lower(t[c + y])
      <4>1. u \in Seq(B)
        BY DEF Readers
      <4>2. u = [y \in 1 .. n |-> Lower(t[c + y])]
        BY <2>2
      <4> HIDE DEF u, n
      <4>3. DOMAIN u = 1 .. n /\ \A y \in 1 .. n : u[y] = Lower(t[c + y])
        BY <4>2
      <4> QED
        BY <3>1, <4>1, <4>3
    <3> HIDE DEF u, n
    <3>3. v \in Seq(B) /\ Len(v) = n + 1 /\ v[n + 1] = Lower(x) /\ \A y \in 1 .. n : v[y] = u[y]
      BY <1>0, <3>1, <3>2
    <3> HIDE DEF v
    <3>4. \A y \in 1 .. n + 1 : v[y] = Lower(t[c + y])
      <4>1. \A y \in 1 .. n + 1 : y = n + 1 \/ y \in 1 .. n
        BY <3>1
      <4> QED
        BY <3>1, <3>2, <3>3, <4>1
    <3>5. v = [y \in 1 .. n + 1 |-> v[y]]
      BY <3>1, <3>3
    <3>6. v = [y \in 1 .. k - c |-> Lower(t[c + y])]
      BY <3>1, <3>4, <3>5
    <3> QED
      BY <2>1, <3>6 DEF v, u
  <2>4. \A y \in c + 1 .. k : y = k \/ y \in c + 1 .. k - 1
    BY <1>1
  <2>5. c \in 0 .. k
    BY <1>1
  <2> HIDE DEF r
  <2>6. Reading(t, k, r, c, sp)
    BY <1>3, <2>1, <2>2, <2>3, <2>4, <2>5 DEF Reading
  <2> QED
    BY <2>6 DEF r
<1>4. CASE ~OfWord(x)
  <2>1. Flush(s).cur = <<>> /\ \E sq : Covered(t, k - 1, Flush(s).out, sq)
    <3>1. s \in [out : Seq(Seq(B)), cur : Seq(B)]
      BY DEF Readers
    <3>2. ~OfWord(t[(k - 1) + 1])
      BY <1>1, <1>4
    <3> QED
      BY <1>1, <3>1, <3>2, FlushCovers
  <2>2. PICK sq : Covered(t, k - 1, Flush(s).out, sq)
    BY <2>1
  <2>3. <<>> = [y \in 1 .. k - k |-> Lower(t[k + y])] /\ k \in 0 .. k
        /\ \A y \in k + 1 .. k : OfWord(t[y])
    <3>1. k - k = 0 /\ 1 .. 0 = {} /\ k + 1 .. k = {}
      BY <1>1
    <3> QED
      BY <1>1, <3>1
  <2>4. ASSUME NEW z \in Spans(t), k - 1 < z[2], z[2] <= k
        PROVE  x \in Punctuation /\ z = <<k, k>>
    <3>1. /\ z[1] \in 1 .. Len(t) /\ z[2] = k /\ z[1] <= k /\ z = <<z[1], z[2]>>
          /\ IsWord(t, z[1], z[2])
      BY <1>1, <2>4, SpansTyped
    <3>2. k \in z[1] .. k
      BY <1>1, <3>1
    <3> QED
      BY <1>4, <3>1, <3>2 DEF IsWord
  <2>5. CASE x \in Punctuation
    <3> DEFINE a == <<k, k>>
               f == Flush(s)
    <3>1. a \in Spans(t) /\ a[1] = k /\ a[2] = k
      <4>1. IsWord(t, k, k)
        BY <2>5 DEF IsWord
      <4> QED
        BY <1>1, <4>1, SpansTyped
    <3>2. Shown(t, k, k) = <<x>>
      <4>1. Lower(x) = x
        BY <2>5, WordAssumption DEF Lower
      <4>2. k - k + 1 = 1 /\ \A y \in 1 .. 1 : k + y - 1 = k
        BY <1>1
      <4>3. Shown(t, k, k) = [y \in 1 .. 1 |-> x]
        BY <4>1, <4>2 DEF Shown
      <4> HIDE DEF x
      <4> QED
        BY <4>3
    <3>3. x \notin Blank
      BY <2>5, WordAssumption
    <3>4. r.out = Append(f.out, <<x>>) /\ r.cur = <<>>
      BY <1>2, <2>1, <2>5, <3>3
    <3>5. f \in Readers(B)
      BY FlushTyped
    <3>6. f.out \in Seq(Seq(B)) /\ <<x>> \in Seq(B)
      BY <1>0, <3>5 DEF Readers
    <3>7. Covered(t, k, Append(f.out, Shown(t, a[1], a[2])), Append(sq, a))
      <4>1. \A z \in Spans(t) : k - 1 < z[2] /\ z[2] <= k => z = a
        BY <2>4
      <4>2. k - 1 \in Nat /\ k - 1 < a[1] /\ a[2] <= k
        BY <1>1, <3>1
      <4>3. Shown(t, a[1], a[2]) \in Seq(B)
        BY <3>1, <3>2, <3>6
      <4> HIDE DEF a, f
      <4> QED
        BY <1>1, <2>2, <3>1, <3>6, <4>1, <4>2, <4>3, CoveredMore DEF f
    <3>8. Covered(t, k, r.out, Append(sq, a))
      BY <3>1, <3>2, <3>4, <3>7
    <3> HIDE DEF r, a
    <3>9. Reading(t, k, r, k, Append(sq, a))
      BY <1>4, <2>3, <3>4, <3>8 DEF Reading
    <3> QED
      BY <3>9 DEF r
  <2>6. CASE x \notin Punctuation
    <3>1. r = Flush(s)
      BY <1>2, <1>4, <2>6 DEF OfWord
    <3>2. Covered(t, k, r.out, sq)
      <4>1. \A z \in Spans(t) : ~(k - 1 < z[2] /\ z[2] <= k)
        BY <2>4, <2>6
      <4>2. k - 1 \in Nat /\ k - 1 <= k
        BY <1>1
      <4>3. Covered(t, k - 1, r.out, sq)
        BY <2>2, <3>1
      <4> HIDE DEF r
      <4> QED
        BY <1>1, <4>1, <4>2, <4>3, CoveredSame
    <3>3. r.cur = <<>>
      BY <2>1, <3>1
    <3> HIDE DEF r
    <3>4. Reading(t, k, r, k, sq)
      BY <1>4, <2>3, <3>2, <3>3 DEF Reading
    <3> QED
      BY <3>4 DEF r
  <2> QED
    BY <2>5, <2>6
<1> QED
  BY <1>3, <1>4

(* The fold of basic_tokenize byte by byte. *)
LEMMA BytesOf ==
  ASSUME NEW t, IsText(t)
  PROVE  \E r, B :
           /\ \A i \in 1 .. Len(t) : t[i] \in B /\ Lower(t[i]) \in B
           /\ r[0] = [out |-> <<>>, cur |-> <<>>]
           /\ \A k \in 1 .. Len(t) : r[k] = Byte(r[k - 1], t[k])
           /\ \A k \in 0 .. Len(t) : r[k] \in Readers(B)
           /\ basic_tokenize(t) = Flush(r[Len(t)]).out
<1> DEFINE n == Len(t)
           E == {t[i] : i \in DOMAIN t}
           B == E \cup {Lower(e) : e \in E}
           S == Readers(B)
           base == [out |-> <<>>, cur |-> <<>>]
           h == [x \in S \X E |-> Byte(x[1], x[2])]
<1>0. n \in Nat /\ t \in [1 .. n -> E] /\ DOMAIN t = 1 .. n
  BY DEF IsText
<1>1. base \in S
  <2>1. <<>> \in Seq(Seq(B)) /\ <<>> \in Seq(B)
    OBVIOUS
  <2> QED
    BY <2>1 DEF Readers
<1>2. \A e \in E : e \in B /\ Lower(e) \in B
  OBVIOUS
<1> HIDE DEF E, B, base
<1>3. ASSUME NEW s \in S, NEW e \in E
      PROVE  Byte(s, e) \in S
  <2>1. e \in B /\ Lower(e) \in B
    BY <1>2
  <2> QED
    BY <2>1, ByteTyped
<1>4. h \in [S \X E -> S]
  <2> HIDE DEF S
  <2> QED
    BY <1>3
<1>5. \A s \in S, e \in E : h[<<s, e>>] = Byte(s, e)
  <2> HIDE DEF S
  <2> QED
    OBVIOUS
<1> HIDE DEF n, S, h
<1>6. PICK f \in [SUBSET (1 .. n) -> S] : Folding(n, f, base, h, t)
  BY <1>0, <1>1, <1>4, FoldExists
<1>7. f = [d \in SUBSET DOMAIN t |->
             IF d = {} THEN base ELSE Byte(f[d \ {Max(d)}], t[Max(d)])]
  <2>1. ASSUME NEW d \in SUBSET (1 .. n), d # {}
        PROVE  f[d] = Byte(f[d \ {Max(d)}], t[Max(d)])
    <3>1. Max(d) \in d
      BY <1>0, <2>1, MaxOfIndexes
    <3>2. t[Max(d)] \in E /\ f[d \ {Max(d)}] \in S
      BY <1>0, <3>1
    <3>3. h[<<f[d \ {Max(d)}], t[Max(d)]>>] = Byte(f[d \ {Max(d)}], t[Max(d)])
      BY <1>5, <3>2
    <3> QED
      BY <1>6, <2>1, <3>3 DEF Folding
  <2>2. f[{}] = base
    BY <1>6 DEF Folding
  <2> QED
    BY <1>0, <2>1, <2>2
<1> DEFINE g == CHOOSE g : g = [d \in SUBSET DOMAIN t |->
                  IF d = {} THEN base ELSE Byte(g[d \ {Max(d)}], t[Max(d)])]
           r == [k \in 0 .. n |-> g[1 .. k]]
<1>8. FoldLeft(Byte, base, t) = g[DOMAIN t]
  BY DEF FoldLeft, MapThenFoldSet
<1>9. g = [d \in SUBSET DOMAIN t |-> IF d = {} THEN base ELSE Byte(g[d \ {Max(d)}], t[Max(d)])]
  BY <1>7
<1> HIDE DEF g
<1>10. r[0] = base
  <2>1. 1 .. 0 = {} /\ {} \in SUBSET DOMAIN t
    OBVIOUS
  <2> QED
    BY <1>0, <1>9, <2>1
<1>11. ASSUME NEW k \in 1 .. n
       PROVE  r[k] = Byte(r[k - 1], t[k])
  <2>1. 1 .. k \in SUBSET (1 .. n) /\ 1 .. k # {} /\ k \in 1 .. k
    <3>1. k \in 1 .. k /\ \A i \in 1 .. k : i \in 1 .. n
      BY <1>0
    <3> QED
      BY <3>1
  <2>2. Max(1 .. k) = k
    <3>1. Max(1 .. k) \in 1 .. k /\ \A y \in 1 .. k : Max(1 .. k) >= y
      BY <1>0, <2>1, MaxOfIndexes
    <3> QED
      BY <1>0, <2>1, <3>1
  <2>3. (1 .. k) \ {k} = 1 .. k - 1 /\ k - 1 \in 0 .. n /\ k \in 0 .. n
    BY <1>0
  <2> QED
    BY <1>0, <1>9, <2>1, <2>2, <2>3
<1>12. basic_tokenize(t) = Flush(r[n]).out
  <2>1. n \in 0 .. n
    BY <1>0
  <2>2. FoldLeft(Byte, base, t) = r[n]
    BY <1>0, <1>8, <2>1
  <2> HIDE DEF r
  <2> QED
    BY <2>2 DEF basic_tokenize, base
<1> HIDE DEF r
<1>13. \A k \in 0 .. n : r[k] \in S
  <2> DEFINE A == {k \in 0 .. n : r[k] \in S}
  <2>1. 0 \in A
    BY <1>0, <1>1, <1>10
  <2>2. ASSUME NEW k \in 0 .. n - 1, k \in A PROVE k + 1 \in A
    <3>1. k + 1 \in 1 .. n /\ (k + 1) - 1 = k /\ k + 1 \in 0 .. n
      BY <1>0
    <3>2. r[k + 1] = Byte(r[k], t[k + 1]) /\ t[k + 1] \in E /\ r[k] \in S
      BY <1>0, <1>11, <2>2, <3>1
    <3> QED
      BY <1>3, <3>1, <3>2
  <2>3. 0 .. n \subseteq A
    <3> HIDE DEF A
    <3>1. \A k \in 0 .. n - 1 : k \in A => k + 1 \in A
      BY <2>2
    <3> QED
      BY <1>0, <2>1, <3>1, Induction
  <2> QED
    BY <2>3
<1>14. \A i \in 1 .. n : t[i] \in B /\ Lower(t[i]) \in B
  BY <1>0, <1>2
<1> QED
  BY <1>10, <1>11, <1>12, <1>13, <1>14 DEF n, S, base

(* An increasing map of an interval into itself moves nothing. *)
LEMMA IncreasingIsIdentity ==
  ASSUME NEW m \in Nat, NEW f \in [1 .. m -> 1 .. m],
         \A i, j \in 1 .. m : i < j => f[i] < f[j]
  PROVE  \A i \in 1 .. m : f[i] = i
<1> DEFINE A == {k \in 0 .. m : k # 0 => f[k] >= k}
           B == {k \in 0 .. m : k # m => f[m - k] <= m - k}
<1>1. 0 .. m \subseteq A
  <2>1. 0 \in A
    OBVIOUS
  <2>2. ASSUME NEW k \in 0 .. m - 1, k \in A PROVE k + 1 \in A
    <3>1. k + 1 \in 1 .. m /\ k + 1 \in 0 .. m /\ f[k + 1] \in 1 .. m
      OBVIOUS
    <3>2. CASE k = 0
      BY <3>1, <3>2
    <3>3. CASE k # 0
      <4>1. k \in 1 .. m /\ k < k + 1 /\ f[k] >= k /\ f[k] \in 1 .. m
        BY <2>2, <3>3
      <4>2. f[k] < f[k + 1]
        BY <3>1, <4>1
      <4> QED
        BY <3>1, <4>1, <4>2
    <3> QED
      BY <3>2, <3>3
  <2> HIDE DEF A
  <2>3. \A k \in 0 .. m - 1 : k \in A => k + 1 \in A
    BY <2>2
  <2> QED
    BY <2>1, <2>3, Induction
<1>2. 0 .. m \subseteq B
  <2>1. 0 \in B
    <3>1. 0 # m => m \in 1 .. m /\ m - 0 = m /\ f[m] \in 1 .. m
      OBVIOUS
    <3> QED
      BY <3>1
  <2>2. ASSUME NEW k \in 0 .. m - 1, k \in B PROVE k + 1 \in B
    <3>1. m - k \in 1 .. m /\ f[m - k] <= m - k /\ k + 1 \in 0 .. m /\ f[m - k] \in 1 .. m
      BY <2>2
    <3>2. ASSUME k + 1 # m PROVE f[m - (k + 1)] <= m - (k + 1)
      <4>1. m - (k + 1) \in 1 .. m /\ m - (k + 1) < m - k /\ f[m - (k + 1)] \in 1 .. m
        BY <3>2
      <4>2. f[m - (k + 1)] < f[m - k]
        BY <3>1, <4>1
      <4> QED
        BY <3>1, <4>1, <4>2
    <3> QED
      BY <3>1, <3>2
  <2> HIDE DEF B
  <2>3. \A k \in 0 .. m - 1 : k \in B => k + 1 \in B
    BY <2>2
  <2> QED
    BY <2>1, <2>3, Induction
<1>3. ASSUME NEW i \in 1 .. m PROVE f[i] = i
  <2>1. i \in 0 .. m /\ i # 0 /\ m - i \in 0 .. m /\ m - i # m /\ m - (m - i) = i /\ f[i] \in 1 .. m
    OBVIOUS
  <2>2. f[i] >= i
    BY <1>1, <2>1
  <2>3. m - i \in B
    <3> HIDE DEF B
    <3> QED
      BY <1>2, <2>1
  <2>4. f[m - (m - i)] <= m - (m - i)
    BY <2>1, <2>3
  <2>5. f[i] <= i
    BY <2>1, <2>4
  <2> QED
    BY <2>1, <2>2, <2>5
<1> QED
  BY <1>3

(* All the words of a text, in the order in which they end, are Words. *)
LEMMA AllCovered ==
  ASSUME NEW t, IsText(t), NEW B, NEW out \in Seq(B), NEW sp, Covered(t, Len(t), out, sp)
  PROVE  out = Words(t)
<1> DEFINE m == Len(sp)
           U == Spans(t)
           Sorts(s) == \A i, j \in DOMAIN s : i < j => s[i][1] < s[j][1]
<1>1. /\ sp \in Seq(U) /\ m = Len(out) /\ m \in Nat
      /\ \A i \in 1 .. m : out[i] = Shown(t, sp[i][1], sp[i][2])
      /\ \A i, j \in 1 .. m : i < j => sp[i][1] < sp[j][1]
  BY DEF Covered
<1>2. \A s \in U : s[1] \in Nat /\ s[2] <= Len(t)
  BY SpansTyped
<1>3. \A s \in U : \E i \in 1 .. m : sp[i] = s
  BY <1>2 DEF Covered
<1> HIDE DEF m, U
<1>4. sp \in [1 .. m -> U] /\ DOMAIN sp = 1 .. m
  BY <1>1 DEF m
<1>5. \A i, j \in 1 .. m : sp[i] = sp[j] => i = j
  <2>1. \A i \in 1 .. m : sp[i][1] \in Nat
    BY <1>2, <1>4
  <2>2. \A i, j \in 1 .. m : sp[i] = sp[j] => ~(i < j) /\ ~(j < i)
    BY <1>1, <2>1
  <2>3. \A i, j \in 1 .. m : ~(i < j) /\ ~(j < i) => i = j
    BY <1>1
  <2> QED
    BY <2>2, <2>3
<1>6. Cardinality(U) = m
  <2>1. sp \in Bijection(1 .. m, U)
    BY <1>3, <1>4, <1>5 DEF Bijection, Injection, Surjection, IsInjective
  <2>2. ExistsBijection(1 .. m, U)
    BY <2>1 DEF ExistsBijection
  <2>3. IsFiniteSet(1 .. m) /\ Cardinality(1 .. m) = IF 1 > m THEN 0 ELSE m - 1 + 1
    <3>1. m \in Int /\ 1 \in Int
      BY <1>1
    <3> QED
      BY <3>1, FS_Interval
  <2>4. Cardinality(1 .. m) = m
    <3>1. m \in Nat => m = IF 1 > m THEN 0 ELSE m - 1 + 1
      OBVIOUS
    <3> QED
      BY <1>1, <2>3, <3>1
  <2> QED
    BY <2>2, <2>3, <2>4, FS_Bijection
<1>7. Sorts(sp)
  BY <1>1, <1>4
<1> DEFINE s == SpansInOrder(t)
<1>8. s \in [1 .. m -> U] /\ Sorts(s)
  <2>1. s = CHOOSE z \in [1 .. m -> U] : Sorts(z)
    BY <1>6 DEF SpansInOrder, U
  <2> HIDE DEF s, Sorts
  <2> QED
    BY <1>4, <1>7, <2>1
<1> HIDE DEF s
<1> DEFINE at(i) == CHOOSE j \in 1 .. m : sp[j] = s[i]
           f == [i \in 1 .. m |-> at(i)]
<1>9. \A i \in 1 .. m : f[i] \in 1 .. m /\ sp[f[i]] = s[i]
  BY <1>3, <1>8
<1> HIDE DEF f
<1>10. f \in [1 .. m -> 1 .. m]
  BY <1>9 DEF f
<1>11. ASSUME NEW i \in 1 .. m, NEW j \in 1 .. m, i < j
       PROVE  f[i] < f[j]
  <2>1. s[i][1] < s[j][1] /\ sp[f[i]] = s[i] /\ sp[f[j]] = s[j] /\ f[i] \in 1 .. m /\ f[j] \in 1 .. m
    BY <1>8, <1>9, <1>11
  <2>2. sp[f[i]][1] \in Nat /\ sp[f[j]][1] \in Nat
    BY <1>2, <1>4, <2>1
  <2>3. ~(f[j] < f[i])
    <3>1. ASSUME f[j] < f[i] PROVE FALSE
      <4>1. sp[f[j]][1] < sp[f[i]][1]
        BY <1>1, <2>1, <3>1
      <4> QED
        BY <2>1, <2>2, <4>1
    <3> QED
      BY <3>1
  <2>4. f[i] # f[j]
    <3>1. ASSUME f[i] = f[j] PROVE FALSE
      <4>1. s[i] = s[j] /\ s[i][1] \in Nat
        BY <2>1, <2>2, <3>1
      <4> QED
        BY <2>1, <4>1
    <3> QED
      BY <3>1
  <2> QED
    BY <1>1, <2>1, <2>3, <2>4
<1>12. \A i \in 1 .. m : f[i] = i
  BY <1>1, <1>10, <1>11, IncreasingIsIdentity
<1>13. \A i \in 1 .. m : s[i] = sp[i]
  BY <1>9, <1>12
<1>14. Words(t) = [i \in 1 .. m |-> Shown(t, s[i][1], s[i][2])]
  BY <1>6 DEF Words, s, U
<1>15. out = [i \in 1 .. m |-> out[i]]
  BY <1>1
<1>16. \A i \in 1 .. m : out[i] = Shown(t, s[i][1], s[i][2])
  BY <1>1, <1>13
<1> QED
  BY <1>14, <1>15, <1>16

(* basic_tokenize gives the words of a text; "[" is one of its own. *)
LEMMA TokenizedWords ==
  ASSUME NEW t, IsText(t)
  PROVE  /\ basic_tokenize(t) = Words(t) /\ IsText(Words(t))
         /\ \A n \in 1 .. Len(Words(t)) : NotationAlone(Words(t)[n])
<1> DEFINE n == Len(t)
<1>1. n \in Nat
  BY SpansTyped
<1>2. PICK r, B :
        /\ \A i \in 1 .. n : t[i] \in B /\ Lower(t[i]) \in B
        /\ r[0] = [out |-> <<>>, cur |-> <<>>]
        /\ \A k \in 1 .. n : r[k] = Byte(r[k - 1], t[k])
        /\ \A k \in 0 .. n : r[k] \in Readers(B)
        /\ basic_tokenize(t) = Flush(r[n]).out
  BY BytesOf
<1> DEFINE Read(k) == \E c, sp : Reading(t, k, r[k], c, sp)
           A == {k \in 0 .. n : Read(k)}
<1>3. 0 \in A
  <2>1. \A s \in Spans(t) : ~(s[2] <= 0)
    BY <1>1, SpansTyped
  <2>2. <<>> \in Seq(Spans(t)) /\ Len(<<>>) = 0 /\ 1 .. 0 = {} /\ 0 + 1 .. 0 = {} /\ 0 - 0 = 0
        /\ 0 \in 0 .. 0
    OBVIOUS
  <2>3. Covered(t, 0, <<>>, <<>>)
    BY <2>1, <2>2 DEF Covered
  <2>4. r[0].out = <<>> /\ r[0].cur = <<>>
    BY <1>2
  <2>5. <<>> = [x \in 1 .. 0 - 0 |-> Lower(t[0 + x])]
    BY <2>2
  <2>6. Reading(t, 0, r[0], 0, <<>>)
    BY <2>2, <2>3, <2>4, <2>5 DEF Reading
  <2>7. 0 \in 0 .. n
    BY <1>1
  <2> QED
    BY <2>6, <2>7
<1>4. ASSUME NEW k \in 0 .. n - 1, k \in A PROVE k + 1 \in A
  <2> DEFINE l == k + 1
  <2>1. l \in 1 .. n /\ l - 1 = k /\ l \in 0 .. n /\ k \in 0 .. n
    BY <1>1
  <2>2. PICK c, sp : Reading(t, k, r[k], c, sp)
    BY <1>4
  <2> HIDE DEF l
  <2>3. r[l] = Byte(r[k], t[l]) /\ r[k] \in Readers(B)
    BY <1>2, <2>1
  <2>4. \E d, sq : Reading(t, l, Byte(r[k], t[l]), d, sq)
    <3>1. Reading(t, l - 1, r[k], c, sp)
      BY <2>1, <2>2
    <3> HIDE DEF n
    <3> QED
      BY <1>2, <2>1, <2>3, <3>1, ByteReads DEF n
  <2>5. Read(l)
    BY <2>3, <2>4
  <2> QED
    BY <2>1, <2>5 DEF l
<1>5. PICK c, sp : Reading(t, n, r[n], c, sp)
  <2> HIDE DEF A
  <2>1. \A k \in 0 .. n - 1 : k \in A => k + 1 \in A
    BY <1>4
  <2>2. 0 .. n \subseteq A
    <3> HIDE DEF n
    <3> QED
      BY <1>1, <1>3, <2>1, Induction
  <2>3. n \in A
    BY <1>1, <2>2
  <2> QED
    BY <2>3 DEF A
<1> DEFINE out == Flush(r[n]).out
<1>6. n \in 0 .. n /\ r[n] \in Readers(B)
  BY <1>1, <1>2
<1>7. PICK sq : Covered(t, n, out, sq)
  <2>1. r[n] \in [out : Seq(Seq(B)), cur : Seq(B)]
    BY <1>6 DEF Readers
  <2> QED
    BY <1>5, <1>6, <2>1, FlushCovers
<1>8. out \in Seq(Seq(B))
  <2>1. Flush(r[n]) \in Readers(B)
    BY <1>6, FlushTyped
  <2> QED
    BY <2>1 DEF Readers
<1> HIDE DEF out
<1>9. out = Words(t)
  BY <1>7, <1>8, AllCovered
<1>10. ASSUME NEW m \in 1 .. Len(out)
       PROVE  NotationAlone(out[m])
  <2> DEFINE i == sq[m][1]
             j == sq[m][2]
  <2>1. sq[m] \in Spans(t) /\ out[m] = Shown(t, i, j)
    BY <1>7 DEF Covered
  <2>2. i \in 1 .. n /\ j \in 1 .. n /\ i <= j /\ IsWord(t, i, j)
    BY <2>1, SpansTyped
  <2> HIDE DEF i, j
  <2> DEFINE w == Shown(t, i, j)
             d == j - i + 1
  <2>3. d \in Nat /\ (i = j => d = 1) /\ \A k \in 1 .. d : i + k - 1 \in i .. j
    BY <1>1, <2>2
  <2>4. w = [k \in 1 .. d |-> Lower(t[i + k - 1])]
    BY DEF Shown
  <2> HIDE DEF w, d
  <2>5. DOMAIN w = 1 .. d /\ Len(w) = d /\ w \in Seq({w[k] : k \in DOMAIN w})
    <3>1. DOMAIN w = 1 .. d
      BY <2>4
    <3>2. w \in [1 .. d -> {w[k] : k \in DOMAIN w}]
      BY <2>4
    <3>3. \A T, u : u \in [1 .. d -> T] => u \in Seq(T) /\ Len(u) = d
      BY <2>3
    <3> QED
      BY <3>1, <3>2, <3>3
  <2>6. ASSUME NEW k \in 1 .. d, w[k] \in {"[", "#"}
        PROVE  d = 1
    <3>1. Lower(t[i + k - 1]) \in {"[", "#"}
      BY <2>4, <2>6
    <3>2. ~OfWord(t[i + k - 1])
      BY <3>1, WordAssumption DEF Lower, OfWord
    <3> QED
      BY <2>2, <2>3, <3>2 DEF IsWord
  <2>7. NotationAlone(w)
    BY <2>5, <2>6 DEF NotationAlone, IsText
  <2> QED
    BY <2>1, <2>7 DEF w
<1>11. IsText(out)
  <2>1. Len(out) \in Nat /\ DOMAIN out = 1 .. Len(out) /\ out \in [1 .. Len(out) -> {out[i] : i \in DOMAIN out}]
    BY <1>8
  <2> QED
    BY <2>1 DEF IsText
<1> QED
  BY <1>2, <1>9, <1>10, <1>11 DEF out

-----------------------------------------------------------------------------
(* What is encoded: the separator and, before it, as many ids as there is  *)
(* room for.                                                               *)

(* Of k ids, so many have room ... *)
Upto(k) == IF k < limit - 2 THEN k ELSE limit - 2

(* ... and follow the first token. *)
Taken(u, k) == [x \in 1 .. (1 + Upto(k)) |-> IF x = 1 THEN raw.cls ELSE u[x - 1]]

(* A token id is taken while the list is shorter than the limit less one.  *)
LEMMA RoomTaken ==
  ASSUME NEW X, NEW T \in SUBSET X, NEW u \in Seq(T), limit \in Int, limit >= 2, raw.cls \in X,
         NEW k \in 0 .. Len(u) - 1
  PROVE  Room(Taken(u, k), u[k + 1]) = Taken(u, k + 1)
<1> DEFINE m == Upto(k)
           l == Upto(k + 1)
           v == Taken(u, k)
<1>1. Len(u) \in Nat /\ k \in Nat /\ k <= Len(u) - 1 /\ k + 1 \in 1 .. Len(u)
      /\ \A x \in 1 .. Len(u) : u[x] \in X
  OBVIOUS
<1>2. m \in Nat /\ l \in Nat /\ m <= k
  BY <1>1 DEF Upto
<1>3. v \in Seq(X) /\ Len(v) = 1 + m /\ \A x \in 1 .. (1 + m) : v[x] = IF x = 1 THEN raw.cls ELSE u[x - 1]
  <2> HIDE DEF m, v
  <2>1. \A x \in 1 .. (1 + m) : x # 1 => x - 1 \in 1 .. Len(u)
    BY <1>1, <1>2
  <2>2. v = [x \in 1 .. (1 + m) |-> IF x = 1 THEN raw.cls ELSE u[x - 1]]
    BY DEF m, v, Taken
  <2>3. v \in [1 .. (1 + m) -> X]
    BY <1>1, <2>1, <2>2
  <2>4. 1 + m \in Nat
    BY <1>2
  <2>5. \A d \in Nat : \A z : z \in [1 .. d -> X] => z \in Seq(X) /\ Len(z) = d
    OBVIOUS
  <2> QED
    BY <2>2, <2>3, <2>4, <2>5
<1> HIDE DEF v
<1>4. CASE k >= limit - 2
  <2>1. m = limit - 2 /\ l = limit - 2
    BY <1>1, <1>4 DEF Upto
  <2>2. Room(v, u[k + 1]) = v
    BY <1>3, <2>1 DEF Room
  <2> QED
    BY <2>1, <2>2 DEF v, Taken
<1>5. CASE k < limit - 2
  <2>1. m = k /\ l = k + 1 /\ ~(1 + m >= limit - 1)
    BY <1>1, <1>5 DEF Upto
  <2> DEFINE w == Append(v, u[k + 1])
  <2>2. Room(v, u[k + 1]) = w
    BY <1>3, <2>1 DEF Room
  <2> HIDE DEF m, l
  <2>3. w \in Seq(X) /\ Len(w) = 1 + l /\ w[2 + m] = u[k + 1]
        /\ \A x \in 1 .. (1 + m) : w[x] = v[x]
    BY <1>1, <1>2, <1>3, <2>1
  <2> HIDE DEF w
  <2>4. ASSUME NEW x \in 1 .. (1 + l)
        PROVE  w[x] = IF x = 1 THEN raw.cls ELSE u[x - 1]
    <3>1. x \in 1 .. (1 + m) \/ (x = 2 + m /\ x # 1 /\ x - 1 = k + 1)
      BY <1>2, <2>1
    <3> QED
      BY <1>3, <2>3, <3>1
  <2>5. w = [x \in 1 .. (1 + l) |-> IF x = 1 THEN raw.cls ELSE u[x - 1]]
    <3>1. w = [x \in 1 .. (1 + l) |-> w[x]]
      BY <2>3
    <3> QED
      BY <2>4, <3>1
  <2> QED
    BY <2>2, <2>5 DEF l, v, Taken
<1> QED
  BY <1>1, <1>4, <1>5 DEF v

(* Ids are taken up to the limit less the two tokens of the wrapper.       *)
LEMMA RoomOf ==
  ASSUME NEW T, NEW u \in Seq(T), limit \in Int, limit >= 2
  PROVE  FoldLeft(Room, <<raw.cls>>, u) = Taken(u, Len(u))
<1> DEFINE n == Len(u)
           X == T \cup {raw.cls}
           S == Seq(X)
           base == <<raw.cls>>
           h == [x \in S \X T |-> Room(x[1], x[2])]
<1>0. n \in Nat /\ u \in [1 .. n -> T] /\ DOMAIN u = 1 .. n
  OBVIOUS
<1>1. base \in S /\ raw.cls \in X /\ T \in SUBSET X
  OBVIOUS
<1> HIDE DEF X
<1>3. ASSUME NEW s \in S, NEW e \in T
      PROVE  Room(s, e) \in S
  <2>1. e \in X
    BY <1>1
  <2>2. Append(s, e) \in S
    BY <2>1
  <2> QED
    BY <2>2 DEF Room
<1> HIDE DEF S, base
<1>4. h \in [S \X T -> S]
  BY <1>3
<1>5. \A s \in S, e \in T : h[<<s, e>>] = Room(s, e)
  OBVIOUS
<1> HIDE DEF n, h
<1>6. PICK f \in [SUBSET (1 .. n) -> S] : Folding(n, f, base, h, u)
  BY <1>0, <1>1, <1>4, FoldExists
<1>7. f = [d \in SUBSET DOMAIN u |->
             IF d = {} THEN base ELSE Room(f[d \ {Max(d)}], u[Max(d)])]
  <2>1. ASSUME NEW d \in SUBSET (1 .. n), d # {}
        PROVE  f[d] = Room(f[d \ {Max(d)}], u[Max(d)])
    <3>1. Max(d) \in d
      BY <1>0, <2>1, MaxOfIndexes
    <3>2. u[Max(d)] \in T /\ f[d \ {Max(d)}] \in S
      BY <1>0, <3>1
    <3>3. h[<<f[d \ {Max(d)}], u[Max(d)]>>] = Room(f[d \ {Max(d)}], u[Max(d)])
      BY <1>5, <3>2
    <3> QED
      BY <1>6, <2>1, <3>3 DEF Folding
  <2>2. f[{}] = base
    BY <1>6 DEF Folding
  <2> QED
    BY <1>0, <2>1, <2>2
<1> DEFINE g == CHOOSE g : g = [d \in SUBSET DOMAIN u |->
                  IF d = {} THEN base ELSE Room(g[d \ {Max(d)}], u[Max(d)])]
           r == [k \in 0 .. n |-> g[1 .. k]]
<1>8. FoldLeft(Room, base, u) = g[DOMAIN u]
  BY DEF FoldLeft, MapThenFoldSet
<1>9. g = [d \in SUBSET DOMAIN u |-> IF d = {} THEN base ELSE Room(g[d \ {Max(d)}], u[Max(d)])]
  BY <1>7
<1> HIDE DEF g
<1>10. r[0] = base
  <2>1. 1 .. 0 = {} /\ {} \in SUBSET DOMAIN u
    OBVIOUS
  <2> QED
    BY <1>0, <1>9, <2>1
<1>11. ASSUME NEW k \in 1 .. n
       PROVE  r[k] = Room(r[k - 1], u[k])
  <2>1. 1 .. k \in SUBSET (1 .. n) /\ 1 .. k # {} /\ k \in 1 .. k
    <3>1. k \in 1 .. k /\ \A i \in 1 .. k : i \in 1 .. n
      BY <1>0
    <3> QED
      BY <3>1
  <2>2. Max(1 .. k) = k
    <3>1. Max(1 .. k) \in 1 .. k /\ \A y \in 1 .. k : Max(1 .. k) >= y
      BY <1>0, <2>1, MaxOfIndexes
    <3> QED
      BY <1>0, <2>1, <3>1
  <2>3. (1 .. k) \ {k} = 1 .. k - 1 /\ k - 1 \in 0 .. n /\ k \in 0 .. n
    BY <1>0
  <2> QED
    BY <1>0, <1>9, <2>1, <2>2, <2>3
<1>12. FoldLeft(Room, base, u) = r[n]
  <2>1. n \in 0 .. n
    BY <1>0
  <2> QED
    BY <1>0, <1>8, <2>1
<1> HIDE DEF r
<1> DEFINE A == {k \in 0 .. n : r[k] = Taken(u, k)}
<1>13. 0 \in A
  <2>1. Upto(0) = 0 /\ 0 \in 0 .. n
    BY <1>0 DEF Upto
  <2>2. base = [x \in 1 .. 1 |-> IF x = 1 THEN raw.cls ELSE u[x - 1]]
    <3>1. base = [x \in 1 .. 1 |-> raw.cls]
      BY DEF base
    <3> QED
      BY <3>1
  <2>3. 1 + Upto(0) = 1
    BY <2>1
  <2>4. Taken(u, 0) = base
    BY <2>2, <2>3 DEF Taken
  <2> QED
    BY <1>10, <2>1, <2>4
<1>14. ASSUME NEW k \in 0 .. n - 1, k \in A PROVE k + 1 \in A
  <2>1. k + 1 \in 1 .. n /\ (k + 1) - 1 = k /\ k + 1 \in 0 .. n
    BY <1>0
  <2> DEFINE v == r[k]
  <2>2. r[k + 1] = Room(v, u[k + 1]) /\ v = Taken(u, k)
    BY <1>11, <1>14, <2>1
  <2>3. k \in 0 .. Len(u) - 1
    BY DEF n
  <2> HIDE DEF v
  <2>4. Room(v, u[k + 1]) = Taken(u, k + 1)
    BY <1>1, <2>2, <2>3, RoomTaken
  <2> QED
    BY <2>1, <2>2, <2>4
<1>15. r[n] = Taken(u, n)
  <2> HIDE DEF A
  <2>1. \A k \in 0 .. n - 1 : k \in A => k + 1 \in A
    BY <1>14
  <2>2. 0 .. n \subseteq A
    BY <1>0, <1>13, <2>1, Induction
  <2>3. n \in A
    BY <1>0, <2>2
  <2> QED
    BY <2>3 DEF A
<1> QED
  BY <1>12, <1>15 DEF base, n

(* CLS, the ids there is room for, SEP.                                    *)
LEMMA TakenAndWrapped ==
  ASSUME NEW T, NEW u \in Seq(T), limit \in Int, limit >= 2
  PROVE  Append(FoldLeft(Room, <<raw.cls>>, u), raw.sep) =
           <<raw.cls>> \o SubSeq(u, 1, Upto(Len(u))) \o <<raw.sep>>
<1> DEFINE m == Upto(Len(u))
           X == T \cup {raw.cls, raw.sep}
           v == FoldLeft(Room, <<raw.cls>>, u)
           s == SubSeq(u, 1, m)
           b == <<raw.cls>> \o s
           left == Append(v, raw.sep)
           right == b \o <<raw.sep>>
<1>1. Len(u) \in Nat /\ m \in Nat /\ m <= Len(u)
  BY DEF Upto
<1>2. \A x \in 1 .. Len(u) : u[x] \in X
  OBVIOUS
<1>3. raw.cls \in X /\ raw.sep \in X /\ u \in Seq(X)
  OBVIOUS
<1>4. v = [x \in 1 .. (1 + m) |-> IF x = 1 THEN raw.cls ELSE u[x - 1]]
  BY RoomOf DEF Taken
<1> HIDE DEF m, X, v
<1>5. v \in Seq(X) /\ Len(v) = 1 + m /\ \A x \in 1 .. (1 + m) : v[x] = IF x = 1 THEN raw.cls ELSE u[x - 1]
  <2>1. \A x \in 1 .. (1 + m) : x # 1 => x - 1 \in 1 .. Len(u)
    BY <1>1
  <2>2. v \in [1 .. (1 + m) -> X]
    BY <1>2, <1>3, <1>4, <2>1
  <2>3. 1 + m \in Nat
    BY <1>1
  <2>4. \A d \in Nat : \A z : z \in [1 .. d -> X] => z \in Seq(X) /\ Len(z) = d
    OBVIOUS
  <2> QED
    BY <1>4, <2>2, <2>3, <2>4
<1>6. left \in Seq(X) /\ Len(left) = 2 + m /\ left[2 + m] = raw.sep
      /\ \A x \in 1 .. (1 + m) : left[x] = v[x]
  BY <1>1, <1>3, <1>5
<1>7. s \in Seq(X) /\ Len(s) = m /\ \A x \in 1 .. m : s[x] = u[x]
  BY <1>1, <1>3
<1> HIDE DEF left, s
<1>8. b \in Seq(X) /\ Len(b) = 1 + m /\ b[1] = raw.cls
      /\ \A x \in 2 .. (1 + m) : b[x] = s[x - 1]
  BY <1>1, <1>3, <1>7
<1> HIDE DEF b
<1>9. right \in Seq(X) /\ Len(right) = 2 + m /\ right[2 + m] = raw.sep
      /\ \A x \in 1 .. (1 + m) : right[x] = b[x]
  BY <1>1, <1>3, <1>8
<1> HIDE DEF right
<1>10. ASSUME NEW x \in 1 .. (2 + m)
       PROVE  left[x] = right[x]
  <2>1. x = 2 + m \/ x = 1 \/ (x \in 2 .. (1 + m) /\ x - 1 \in 1 .. m /\ x # 1)
    BY <1>1
  <2>2. 1 \in 1 .. (1 + m) /\ (x \in 2 .. (1 + m) => x \in 1 .. (1 + m))
    BY <1>1
  <2>3. CASE x = 2 + m
    BY <1>6, <1>9, <2>3
  <2>4. CASE x = 1
    <3>1. left[1] = raw.cls /\ right[1] = raw.cls
      BY <1>5, <1>6, <1>8, <1>9, <2>2
    <3> QED
      BY <2>4, <3>1
  <2>5. CASE x \in 2 .. (1 + m) /\ x - 1 \in 1 .. m /\ x # 1
    <3>1. left[x] = u[x - 1]
      BY <1>5, <1>6, <2>2, <2>5
    <3>2. right[x] = u[x - 1]
      BY <1>7, <1>8, <1>9, <2>2, <2>5
    <3> QED
      BY <3>1, <3>2
  <2> QED
    BY <2>1, <2>3, <2>4, <2>5
<1>11. left = [x \in 1 .. (2 + m) |-> left[x]] /\ right = [x \in 1 .. (2 + m) |-> right[x]]
  BY <1>6, <1>9
<1>12. left = right
  BY <1>10, <1>11
<1> QED
  BY <1>12 DEF left, right, b, s, v, m

(* A text is encoded as the pieces of its words. *)
LEMMA EncodeIs ==
  ASSUME RawPieces, IsText(sentence), limit \in Int, limit >= 2
  PROVE  LET tokens == FlattenSeq([n \in DOMAIN Words(sentence) |-> Pieces(Words(sentence)[n])])
         IN  encode = <<raw.cls>> \o SubSeq(tokens, 1, Upto(Len(tokens))) \o <<raw.sep>>
<1> DEFINE w == Words(sentence)
           T == DOMAIN raw.pieces \cup {raw.unk}
           found == [n \in DOMAIN basic_tokenize(sentence) |-> wordpiece(basic_tokenize(sentence)[n])]
           best == [n \in DOMAIN w |-> Pieces(w[n])]
<1>1. basic_tokenize(sentence) = w /\ Len(w) \in Nat /\ DOMAIN w = 1 .. Len(w)
  <2>1. basic_tokenize(sentence) = w /\ IsText(w)
    BY TokenizedWords
  <2> HIDE DEF w
  <2> QED
    BY <2>1 DEF IsText
<1>2. ASSUME NEW n \in DOMAIN w
      PROVE  wordpiece(w[n]) = Pieces(w[n]) /\ wordpiece(w[n]) \in Seq(T)
  <2>1. NotationAlone(w[n])
    BY <1>1, <1>2, TokenizedWords
  <2> QED
    BY <2>1, WordPieceIsPieces
<1> HIDE DEF w, T
<1>3. found = best
  BY <1>1, <1>2
<1>4. best \in Seq(Seq(T))
  <2>1. best \in [1 .. Len(w) -> Seq(T)]
    BY <1>1, <1>2
  <2> HIDE DEF best
  <2> QED
    BY <1>1, <2>1
<1>5. FlattenSeq(best) \in Seq(T)
  <2> HIDE DEF best
  <2>1. Len(best) \in 0 .. Len(best)
    BY <1>4
  <2>2. PICK t \in [0 .. Len(best) -> Seq(T)] : FlattenSeq(best) = t[Len(best)]
    BY <1>4, Flattening
  <2> QED
    BY <2>1, <2>2
<1> DEFINE tokens == FlattenSeq(best)
<1>6. encode = Append(FoldLeft(Room, <<raw.cls>>, tokens), raw.sep)
  <2> HIDE DEF best
  <2> QED
    BY <1>3 DEF encode
<1>7. encode = <<raw.cls>> \o SubSeq(tokens, 1, Upto(Len(tokens))) \o <<raw.sep>>
  <2> HIDE DEF tokens
  <2> QED
    BY <1>5, <1>6, TakenAndWrapped DEF tokens
<1> QED
  BY <1>7 DEF w

(* The pieces of a word are those of the vocabulary.                       *)
LEMMA PiecesStay ==
  ASSUME raw' = raw, NEW word
  PROVE  Pieces(word)' = Pieces(word)
<1>1. \A i, b, e : Fits(word, i, b, e)' <=> Fits(word, i, b, e)
  BY DEF Fits, Spells
<1>2. \A i, b, e : BestFit(word, i, b, e)' <=> BestFit(word, i, b, e)
  BY <1>1 DEF BestFit
<1>3. \A n, t : Segmentation(word, n, t)' = Segmentation(word, n, t)
  BY <1>2 DEF Segmentation
<1>4. \A n : Cuts(word, n)' = Cuts(word, n)
  BY DEF Cuts
<1>5. Segmentations(word)' = Segmentations(word)
  BY <1>3, <1>4 DEF Segmentations
<1> QED
  BY <1>5 DEF Pieces

(* Vocabulary, text and limit stay those of the assumptions from the load  *)
(* on, and what is encoded stays what it was encoded from.                 *)
EncodedOnce ==
  /\ stage \in {"load", "ready", "encoded"} =>
       RawPieces /\ IsText(sentence) /\ limit \in Int
  /\ PiecesSpellTheWords

(* Whatever the vocabulary and the text, the pieces of a text spell its    *)
(* words, each with the longest piece that fits and then the next, between *)
(* the two tokens of the wrapper and cut off at the limit.                 *)
THEOREM PiecesSpelled == TokenizersSpec => []PiecesSpellTheWords
<1>1. TokenizersInit => EncodedOnce
  <2>1. ASSUME WordPieceInit PROVE EncodedOnce
    <3>1. raw \in Vocabularies /\ sentence \in Texts /\ limit \in Limits /\ stage = "load"
      BY <2>1 DEF WordPieceInit
    <3>2. RawPieces /\ IsText(sentence) /\ limit \in Int
      BY <3>1, RawAssumption DEF RawPieces
    <3> QED
      BY <3>1, <3>2 DEF EncodedOnce, PiecesSpellTheWords
  <2>2. TokenizersInit => WordPieceInit \/ stage \in {"unused", "refused"}
    BY DEF TokenizersInit, Init_SpmBpe, Init_WordPiece
  <2> QED
    BY <2>1, <2>2 DEF EncodedOnce, PiecesSpellTheWords
<1>2. ASSUME EncodedOnce, [create_tokenizer]_tokenizerVars
      PROVE  EncodedOnce'
  <2>1. UNCHANGED wordpieceVars \/ WordPieceNext
    BY <1>2 DEF tokenizerVars, create_tokenizer, UseSpmBpe, UseWordPiece
  <2>2. UNCHANGED <<raw, sentence, limit>>
    BY <2>1 DEF wordpieceVars, WordPieceNext, from_gguf, EncodeThrows, Encode
  <2>3. RawPieces' <=> RawPieces
    BY <2>2 DEF RawPieces
  <2> DEFINE tokens == FlattenSeq([n \in DOMAIN Words(sentence) |-> Pieces(Words(sentence)[n])])
             shown == <<raw.cls>> \o SubSeq(tokens, 1, IF Len(tokens) < limit - 2 THEN Len(tokens)
                                                    ELSE limit - 2) \o <<raw.sep>>
  <2>4. shown' = shown
    <3>1. \A word : Pieces(word)' = Pieces(word)
      BY <2>2, PiecesStay
    <3> QED
      BY <2>2, <3>1
  <2>5. PiecesSpellTheWords <=> (stage = "encoded" => encoded = shown)
    BY DEF PiecesSpellTheWords
  <2>6. PiecesSpellTheWords' <=> (stage' = "encoded" => encoded' = shown')
    BY DEF PiecesSpellTheWords
  <2>7. ASSUME Encode PROVE encoded' = shown
    <3>1. stage = "ready" /\ limit >= 2 /\ encoded' = encode
      BY <2>7 DEF Encode
    <3>2. RawPieces /\ IsText(sentence) /\ limit \in Int
      BY <1>2, <3>1 DEF EncodedOnce
    <3> QED
      BY <3>1, <3>2, EncodeIs DEF Upto
  <2> HIDE DEF shown
  <2>8. PiecesSpellTheWords'
    <3>1. CASE Encode
      BY <2>4, <2>6, <2>7, <3>1
    <3>2. CASE UNCHANGED wordpieceVars
      BY <1>2, <2>4, <2>5, <2>6, <3>2 DEF wordpieceVars, EncodedOnce
    <3>3. CASE from_gguf \/ EncodeThrows
      BY <2>6, <3>3 DEF from_gguf, EncodeThrows
    <3> QED
      BY <2>1, <3>1, <3>2, <3>3 DEF WordPieceNext
  <2>9. stage' \in {"load", "ready", "encoded"} => stage \in {"load", "ready", "encoded"}
    BY <2>1 DEF wordpieceVars, WordPieceNext, from_gguf, EncodeThrows, Encode
  <2> QED
    BY <1>2, <2>2, <2>3, <2>8, <2>9 DEF EncodedOnce
<1>3. EncodedOnce => PiecesSpellTheWords
  BY DEF EncodedOnce
<1> QED
  BY <1>1, <1>2, <1>3, PTL DEF TokenizersSpec
=============================================================================
