------------------------ MODULE MappedWeightsProofs ------------------------
(***************************************************************************)
(* Proofs about MappedWeights, and about the plans that ByteRanges makes   *)
(* of what it validated, for any width of size_t, any file and page size,  *)
(* any alignment of the CPU's buffers, any metadata and any token table.   *)
(***************************************************************************)
EXTENDS MappedWeights, CommonFacts

ByteRange  == [offset : Nat, length : Nat]

End(r) == r.offset + r.length

(* The pages a range touches. *)
Touched(r) == {b \div PageSize : b \in Bytes(r)}

(* A range of whole pages inside the file. *)
Planned == {r \in ByteRange : WholePages(r) /\ End(r) <= MappingSize}

-----------------------------------------------------------------------------
(* A range touches the pages that begin before its end and end after its   *)
(* begin; a range of whole pages, those that begin inside it.              *)
LEMMA TouchedPages ==
  ASSUME NEW r \in ByteRange, NEW p
  PROVE  p \in Touched(r) <=>
           /\ p \in Nat /\ r.length # 0
           /\ PageSize * p < End(r) /\ r.offset < PageSize * p + PageSize
<1> DEFINE d == PageSize
<1>0. d \in Nat \ {0} /\ r.offset \in Nat /\ r.length \in Nat
  BY SizeAssumption DEF ByteRange
<1> HIDE DEF d
<1>1. Touched(r) = {b \div d : b \in r.offset .. (r.offset + r.length - 1)}
  BY DEF Touched, Bytes, d
<1>2. ASSUME p \in Touched(r)
      PROVE  /\ p \in Nat /\ r.length # 0
             /\ d * p < End(r) /\ r.offset < d * p + d
  <2>1. PICK b \in r.offset .. (r.offset + r.length - 1) : p = b \div d
    BY <1>1, <1>2
  <2>2. b \in Nat /\ r.offset <= b /\ b < r.offset + r.length
    BY <1>0, <2>1
  <2>3. p \in Nat
    BY <1>0, <2>1, <2>2, Quotient
  <2>4. d * p <= b /\ b < d * p + d
    BY <1>0, <2>1, <2>2, <2>3, QuotientIs
  <2>5. d * p \in Nat
    BY <1>0, <2>3
  <2> QED
    BY <1>0, <2>2, <2>3, <2>4, <2>5 DEF End
<1>3. ASSUME p \in Nat, r.length # 0, d * p < End(r), r.offset < d * p + d
      PROVE  p \in Touched(r)
  <2> DEFINE b == Larger(r.offset, d * p)
  <2>0. d * p \in Nat
    BY <1>0, <1>3
  <2>1. b \in Nat /\ b \in r.offset .. (r.offset + r.length - 1)
    BY <1>0, <1>3, <2>0 DEF Larger, End
  <2>2. d * p <= b /\ b < d * p + d
    BY <1>0, <1>3, <2>0 DEF Larger
  <2> HIDE DEF b
  <2>3. b \div d = p
    <3>1. p \in Int /\ b \in Nat /\ d \in Nat \ {0}
      BY <1>0, <1>3, <2>1
    <3> QED
      BY <2>2, <3>1, QuotientIs
  <2> QED
    BY <1>1, <2>1, <2>3
<1> QED
  BY <1>2, <1>3 DEF d

(* Of whole pages, those that start inside. *)
LEMMA PlannedPages ==
  ASSUME NEW r \in Planned, NEW p
  PROVE  p \in Touched(r) <=>
           p \in Nat /\ r.offset <= PageSize * p /\ PageSize * p < End(r)
<1>0. /\ PageSize \in Nat \ {0} /\ r \in ByteRange
      /\ r.offset \in Nat /\ r.length \in Nat \ {0}
  BY SizeAssumption DEF Planned, ByteRange, WholePages
<1>1. PICK q \in Nat : r.offset = PageSize * q
  BY <1>0, MultipleOf DEF Planned, WholePages
<1>2. ASSUME p \in Nat
      PROVE  (r.offset < PageSize * p + PageSize) <=> (r.offset <= PageSize * p)
  <2>0. PageSize * p \in Nat /\ PageSize * q \in Nat
    BY <1>0, <1>2
  <2>1. p < q => PageSize * p + PageSize <= PageSize * q
    BY <1>0, <1>2, Monotone
  <2>2. q < p => PageSize * q + PageSize <= PageSize * p
    BY <1>0, <1>2, Monotone
  <2> QED
    BY <1>0, <1>1, <1>2, <2>0, <2>1, <2>2
<1> QED
  BY <1>0, <1>2, TouchedPages

(* What does not exceed the largest size_t is not wrapped. *)
LEMMA NoWrap ==
  ASSUME NEW a \in Nat, NEW b \in Nat, a + b <= MaxSize
  PROVE  Plus(a, b) = a + b
BY SizeAssumption DEF Plus

(* Sums that stay inside the file do not wrap. *)
LEMMA EndIsSum ==
  ASSUME NEW r \in ByteRange, End(r) <= MappingSize
  PROVE  EndOf(r) = End(r)
BY SizeAssumption DEF ByteRange, End, EndOf, Plus

(* What passed the checks ends inside the file. *)
LEMMA AcceptedEnd ==
  ASSUME NEW r \in ByteRange, InMapping(r)
  PROVE  r.length # 0 /\ End(r) <= MappingSize /\ EndOf(r) = End(r)
BY SizeAssumption DEF ByteRange, InMapping, Overflows, EndOf, End, Plus

(* An aligned range covers exactly the pages of the range it was. *)
LEMMA Aligned ==
  ASSUME NEW r \in ByteRange, InMapping(r)
  PROVE  Align(r) \in Planned /\ Touched(Align(r)) = Touched(r)
<1> DEFINE d == PageSize
           e == End(r)
           q == r.offset \div d
           k == e \div d
           a == Align(r)
<1>0. /\ d \in Nat \ {0} /\ MappingSize \in Nat /\ MappingSize <= MaxSize /\ MaxSize \in Nat
      /\ r.offset \in Nat /\ r.length \in Nat \ {0} /\ e \in Nat \ {0} /\ e <= MappingSize
      /\ EndOf(r) = e /\ r.offset < e
  BY SizeAssumption, AcceptedEnd DEF ByteRange, End
<1> HIDE DEF d, e
<1>1. /\ q \in Nat /\ r.offset % d \in 0 .. d - 1
      /\ r.offset = d * q + (r.offset % d)
  BY <1>0, Quotient
<1>2. /\ k \in Nat /\ e % d \in 0 .. d - 1
      /\ e = d * k + (e % d)
  BY <1>0, Quotient
<1> HIDE DEF q, k
<1>3. d * q \in Nat /\ d * k \in Nat
  BY <1>0, <1>1, <1>2
<1>4. /\ e % d = 0 => PageEnd(e) = e
      /\ e % d # 0 => PageEnd(e) = IF d * k + d > MappingSize THEN MappingSize ELSE d * k + d
  <2> DEFINE m == e % d
  <2>1. PageEnd(e) = IF m = 0 THEN e
                     ELSE IF d - m > MappingSize - e THEN MappingSize ELSE Plus(e, d - m)
    BY DEF PageEnd, d
  <2>2. m \in 0 .. d - 1 /\ e = d * k + m
    BY <1>2
  <2> HIDE DEF m
  <2>3. e + (d - m) = d * k + d
    BY <1>0, <1>3, <2>2
  <2>4. d - m <= MappingSize - e => Plus(e, d - m) = d * k + d
    BY <1>0, <1>3, <2>2, <2>3, NoWrap
  <2> QED
    BY <1>0, <1>3, <2>1, <2>2, <2>3, <2>4 DEF m
<1>5. a.offset = d * q /\ a.length = PageEnd(e) - d * q /\ a = [offset |-> a.offset, length |-> a.length]
  <2>1. r.offset - (r.offset % d) = d * q
    BY <1>0, <1>1, <1>3
  <2>2. a = [offset |-> d * q, length |-> PageEnd(e) - d * q]
    BY <1>0, <2>1 DEF Align, d
  <2> QED
    BY <2>2
<1> HIDE DEF a
<1>6. PageEnd(e) \in Nat /\ e <= PageEnd(e) /\ PageEnd(e) <= MappingSize
  BY <1>0, <1>2, <1>3, <1>4
<1>7. PageEnd(e) = MappingSize \/ PageEnd(e) % d = 0
  <2>1. (d * k + d) % d = 0
    <3>1. k + 1 \in Nat /\ d * k + d = d * (k + 1) /\ d * k + d \in Nat
      BY <1>0, <1>2, <1>3
    <3> QED
      BY <1>0, <3>1, MultipleOf
  <2> QED
    BY <1>4, <2>1
<1>8. a \in ByteRange /\ a.length # 0 /\ End(a) = PageEnd(e)
  <2>1. d * q < e
    BY <1>0, <1>1, <1>3
  <2> QED
    BY <1>0, <1>3, <1>5, <1>6, <2>1 DEF ByteRange, End
<1>9. a \in Planned
  <2>1. a.offset % d = 0
    BY <1>0, <1>1, <1>3, <1>5, MultipleOf
  <2> QED
    BY <1>6, <1>7, <1>8, <2>1 DEF Planned, WholePages, ByteRange, End, d
<1>10. ASSUME NEW p \in Nat
       PROVE  /\ (r.offset < d * p + d) <=> (d * q <= d * p)
              /\ (d * p < e) <=> (d * p < PageEnd(e))
  <2>0. d * p \in Nat
    BY <1>0
  <2>1. (p < q => d * p + d <= d * q) /\ (q < p => d * q + d <= d * p)
    BY <1>0, <1>1, Monotone
  <2>2. (p < k => d * p + d <= d * k) /\ (k < p => d * k + d <= d * p)
    BY <1>0, <1>2, Monotone
  <2>3. (r.offset < d * p + d) <=> (d * q <= d * p)
    BY <1>0, <1>1, <1>3, <2>0, <2>1
  <2>4. (d * p < e) <=> (d * p < PageEnd(e))
    <3>1. d * p < e => d * p < PageEnd(e)
      BY <1>0, <1>6, <2>0
    <3>2. ASSUME e <= d * p
          PROVE  PageEnd(e) <= d * p
      <4>1. CASE e % d = 0
        BY <1>4, <3>2, <4>1
      <4>2. CASE e % d # 0
        <5>1. d * k < d * p
          BY <1>0, <1>2, <1>3, <2>0, <3>2, <4>2
        <5>2. k < p
          BY <1>2, <1>0, <2>0, <2>2, <5>1, <1>3
        <5> QED
          BY <1>0, <1>3, <1>4, <1>6, <2>0, <2>2, <4>2, <5>2
      <4> QED
        BY <4>1, <4>2
    <3> QED
      BY <1>0, <1>6, <2>0, <3>1, <3>2
  <2> QED
    BY <2>3, <2>4
<1>11. ASSUME NEW p
       PROVE  p \in Touched(a) <=> p \in Touched(r)
  <2>1. p \in Touched(a) <=> p \in Nat /\ d * q <= d * p /\ d * p < PageEnd(e)
    BY <1>5, <1>8, <1>9, PlannedPages DEF d
  <2>2. p \in Touched(r) <=> p \in Nat /\ d * p < e /\ r.offset < d * p + d
    BY <1>0, TouchedPages DEF d, e
  <2> QED
    BY <1>10, <2>1, <2>2
<1>12. Touched(a) = Touched(r)
  BY <1>11
<1> QED
  BY <1>9, <1>12 DEF a

(* Ranges of whole pages that meet make one. *)
LEMMA Extended ==
  ASSUME NEW r \in Planned, NEW s \in Planned,
         r.offset <= s.offset, s.offset <= End(r)
  PROVE  /\ Extend(r, s) \in Planned
         /\ Extend(r, s).offset = r.offset
         /\ Touched(Extend(r, s)) = Touched(r) \cup Touched(s)
<1> DEFINE x == Extend(r, s)
<1>0. /\ r.offset \in Nat /\ r.length \in Nat \ {0} /\ End(r) \in Nat /\ End(r) <= MappingSize
      /\ s.offset \in Nat /\ s.length \in Nat \ {0} /\ End(s) \in Nat /\ End(s) <= MappingSize
      /\ EndOf(r) = End(r) /\ EndOf(s) = End(s) /\ PageSize \in Nat \ {0}
      /\ r = [offset |-> r.offset, length |-> r.length]
  BY SizeAssumption, EndIsSum DEF Planned, ByteRange, WholePages, End
<1>1. x = [offset |-> r.offset, length |-> Larger(End(r), End(s)) - r.offset]
  BY <1>0 DEF Extend
<1>2. x \in ByteRange /\ x.offset = r.offset /\ x.length # 0 /\ End(x) = Larger(End(r), End(s))
  BY <1>0, <1>1 DEF ByteRange, End, Larger
<1> HIDE DEF x
<1>3. x \in Planned
  <2>1. End(x) = End(r) \/ End(x) = End(s)
    BY <1>2 DEF Larger
  <2>2. /\ End(r) = MappingSize \/ End(r) % PageSize = 0
        /\ End(s) = MappingSize \/ End(s) % PageSize = 0
        /\ r.offset % PageSize = 0
    BY DEF Planned, WholePages, End
  <2>3. WholePages(x)
    BY <1>0, <1>2, <2>1, <2>2 DEF WholePages, End, ByteRange
  <2> QED
    BY <1>0, <1>2, <2>1, <2>3 DEF Planned
<1>4. ASSUME NEW p
      PROVE  p \in Touched(x) <=> p \in Touched(r) \cup Touched(s)
  <2>1. p \in Nat => PageSize * p \in Nat
    BY <1>0
  <2>2. /\ p \in Touched(x) <=> p \in Nat /\ x.offset <= PageSize * p /\ PageSize * p < End(x)
        /\ p \in Touched(r) <=> p \in Nat /\ r.offset <= PageSize * p /\ PageSize * p < End(r)
        /\ p \in Touched(s) <=> p \in Nat /\ s.offset <= PageSize * p /\ PageSize * p < End(s)
    BY <1>3, PlannedPages
  <2> QED
    BY <1>0, <1>2, <2>1, <2>2 DEF Larger
<1> QED
  BY <1>2, <1>3, <1>4 DEF x

-----------------------------------------------------------------------------
(* std::sort keeps every range and orders them by offset. *)
LEMMA SortedRanges ==
  ASSUME NEW s \in Seq(ByteRange)
  PROVE  /\ Sorted(s) \in [1 .. Len(s) -> ByteRange]
         /\ \A i, j \in 1 .. Len(s) : i < j => Sorted(s)[i].offset <= Sorted(s)[j].offset
         /\ \A i \in 1 .. Len(s) : \E j \in 1 .. Len(s) : Sorted(s)[i] = s[j]
         /\ \A j \in 1 .. Len(s) : \E i \in 1 .. Len(s) : Sorted(s)[i] = s[j]
<1> DEFINE n == Len(s)
           R == {x \in ByteRange \X ByteRange : Before(x[1], x[2])}
           IsOrder(p) == \A i, j \in 1 .. n : i < j => ~Before(s[p[j]], s[p[i]])
           order == CHOOSE p \in Bijection(1 .. n, 1 .. n) : IsOrder(p)
<1>0. n \in Nat /\ s \in [1 .. n -> ByteRange]
  OBVIOUS
<1> HIDE DEF n
<1>1. \A a, b \in ByteRange : <<a, b>> \in R <=> Before(a, b)
  OBVIOUS
<1>2. \A a, b \in ByteRange : Before(a, b) => ~Before(b, a)
  BY DEF ByteRange, Before
<1>3. \A a, b, c \in ByteRange : ~Before(a, b) /\ ~Before(b, c) => ~Before(a, c)
  BY DEF ByteRange, Before
<1>4. \E p \in Bijection(1 .. n, 1 .. n) :
        \A i, j \in 1 .. n : i < j => <<s[p[j]], s[p[i]]>> \notin R
  <2>1. \A a, b \in ByteRange : <<a, b>> \in R => <<b, a>> \notin R
    BY <1>1, <1>2
  <2>2. \A a, b, c \in ByteRange :
          <<a, b>> \notin R /\ <<b, c>> \notin R => <<a, c>> \notin R
    BY <1>1, <1>3
  <2> HIDE DEF R
  <2> QED
    BY <1>0, <2>1, <2>2, SortExists
<1>5. ASSUME NEW p \in Bijection(1 .. n, 1 .. n)
      PROVE  /\ p \in [1 .. n -> 1 .. n]
             /\ \A v \in 1 .. n : \E i \in 1 .. n : p[i] = v
  BY DEF Bijection, Injection, Surjection
<1>6. \E p \in Bijection(1 .. n, 1 .. n) : IsOrder(p)
  <2>1. PICK p \in Bijection(1 .. n, 1 .. n) :
          \A i, j \in 1 .. n : i < j => <<s[p[j]], s[p[i]]>> \notin R
    BY <1>4
  <2>2. \A i \in 1 .. n : s[p[i]] \in ByteRange
    BY <1>0, <1>5
  <2>3. IsOrder(p)
    <3> HIDE DEF R
    <3> QED
      BY <1>1, <2>1, <2>2
  <2> QED
    BY <2>3
<1>7. order \in Bijection(1 .. n, 1 .. n) /\ IsOrder(order)
  <2> HIDE DEF IsOrder
  <2> QED
    BY <1>6
<1>8. Sorted(s) = [i \in 1 .. n |-> s[order[i]]]
  BY DEF Sorted, n
<1> HIDE DEF order
<1>9. order \in [1 .. n -> 1 .. n] /\ \A v \in 1 .. n : \E i \in 1 .. n : order[i] = v
  BY <1>5, <1>7
<1>10. \A i \in 1 .. n : Sorted(s)[i] = s[order[i]] /\ s[order[i]] \in ByteRange
  BY <1>0, <1>8, <1>9
<1>11. Sorted(s) \in [1 .. n -> ByteRange]
  BY <1>8, <1>10
<1>12. ASSUME NEW i \in 1 .. n, NEW j \in 1 .. n, i < j
       PROVE  Sorted(s)[i].offset <= Sorted(s)[j].offset
  <2>1. ~Before(s[order[j]], s[order[i]])
    BY <1>7, <1>12
  <2> QED
    BY <1>10, <2>1 DEF Before, ByteRange
<1>13. /\ \A i \in 1 .. n : \E j \in 1 .. n : Sorted(s)[i] = s[j]
       /\ \A j \in 1 .. n : \E i \in 1 .. n : Sorted(s)[i] = s[j]
  <2>1. ASSUME NEW i \in 1 .. n
        PROVE  \E j \in 1 .. n : Sorted(s)[i] = s[j]
    BY <1>9, <1>10
  <2>2. ASSUME NEW j \in 1 .. n
        PROVE  \E i \in 1 .. n : Sorted(s)[i] = s[j]
    <3>1. PICK i \in 1 .. n : order[i] = j
      BY <1>9
    <3> QED
      BY <1>10, <3>1
  <2> QED
    BY <2>1, <2>2
<1> QED
  BY <1>11, <1>12, <1>13 DEF n

(* The loop of page_align_and_coalesce, step by step. *)
LEMMA CoalescingSteps ==
  ASSUME NEW s \in Seq(Planned)
  PROVE  \E t : /\ t[0] = <<>>
                /\ \A k \in 1 .. Len(s) : t[k] = Coalesce(t[k - 1], s[k])
                /\ FoldLeft(Coalesce, <<>>, s) = t[Len(s)]
<1> DEFINE n == Len(s)
           IntRange == [offset : Int, length : Int]
           S == Seq(IntRange)
           h == [x \in S \X Planned |-> Coalesce(x[1], x[2])]
<1>0. n \in Nat /\ s \in [1 .. n -> Planned] /\ DOMAIN s = 1 .. n
  OBVIOUS
<1> HIDE DEF n
<1>1. ASSUME NEW u \in S, NEW r \in Planned
      PROVE  Coalesce(u, r) \in S
  <2>1. r \in IntRange /\ r.offset \in Int /\ r.length \in Int
    BY DEF Planned, ByteRange
  <2>2. ASSUME u # <<>>
        PROVE  Front(u) \in S /\ Extend(Last(u), r) \in IntRange
    <3>2. Last(u) \in IntRange /\ Front(u) \in S
      <4> HIDE DEF IntRange
      <4> QED
        BY <2>2, FrontAndLast
    <3>4. EndOf(Last(u)) \in Int /\ EndOf(r) \in Int
      <4>1. MaxSize + 1 \in Nat \ {0}
        BY SizeAssumption
      <4>2. \A a, b \in Int : Plus(a, b) \in Int
        BY <4>1 DEF Plus
      <4>3. Last(u).offset \in Int /\ Last(u).length \in Int
        BY <3>2
      <4> QED
        BY <2>1, <4>2, <4>3 DEF EndOf
    <3>5. Last(u).offset \in Int
      BY <3>2
    <3>6. Larger(EndOf(Last(u)), EndOf(r)) - Last(u).offset \in Int
      BY <3>4, <3>5 DEF Larger
    <3> QED
      BY <3>2, <3>6 DEF Extend
  <2>3. \A v \in S, x \in IntRange : Append(v, x) \in S
    OBVIOUS
  <2> QED
    BY <2>1, <2>2, <2>3 DEF Coalesce
<1>2. h \in [S \X Planned -> S]
  BY <1>1
<1>3. <<>> \in S
  OBVIOUS
<1> HIDE DEF S
<1>4. PICK f \in [SUBSET (1 .. n) -> S] : Folding(n, f, <<>>, h, s)
  <2>1. s \in [1 .. n -> Planned]
    BY <1>0
  <2> HIDE DEF h
  <2> QED
    BY <1>0, <2>1, <1>2, <1>3, FoldExists
<1>5. f = [d \in SUBSET DOMAIN s |->
             IF d = {} THEN <<>> ELSE Coalesce(f[d \ {Max(d)}], s[Max(d)])]
  <2>1. ASSUME NEW d \in SUBSET (1 .. n), d # {}
        PROVE  f[d] = Coalesce(f[d \ {Max(d)}], s[Max(d)])
    <3>1. Max(d) \in d
      BY <1>0, <2>1, MaxOfIndexes
    <3>2. s[Max(d)] \in Planned /\ f[d \ {Max(d)}] \in S
      BY <1>0, <3>1
    <3>3. h[<<f[d \ {Max(d)}], s[Max(d)]>>] = Coalesce(f[d \ {Max(d)}], s[Max(d)])
      BY <3>2
    <3> QED
      BY <1>4, <2>1, <3>3 DEF Folding
  <2>2. f[{}] = <<>>
    BY <1>4 DEF Folding
  <2> QED
    BY <1>0, <2>1, <2>2
<1> DEFINE g == CHOOSE g : g = [d \in SUBSET DOMAIN s |->
                  IF d = {} THEN <<>> ELSE Coalesce(g[d \ {Max(d)}], s[Max(d)])]
           t == [k \in 0 .. n |-> g[1 .. k]]
<1>6. FoldLeft(Coalesce, <<>>, s) = g[DOMAIN s]
  BY DEF FoldLeft, MapThenFoldSet
<1>7. g = [d \in SUBSET DOMAIN s |->
             IF d = {} THEN <<>> ELSE Coalesce(g[d \ {Max(d)}], s[Max(d)])]
  BY <1>5
<1> HIDE DEF g
<1>8. t[0] = <<>>
  <2>1. 1 .. 0 = {} /\ {} \in SUBSET DOMAIN s
    OBVIOUS
  <2> QED
    BY <1>0, <1>7, <2>1
<1>9. ASSUME NEW k \in 1 .. n
      PROVE  t[k] = Coalesce(t[k - 1], s[k])
  <2>1. 1 .. k \in SUBSET (1 .. n) /\ 1 .. k # {} /\ k \in 1 .. k
    <3>1. k \in 1 .. k /\ \A i \in 1 .. k : i \in 1 .. n
      BY <1>0
    <3> QED
      BY <3>1
  <2>2. Max(1 .. k) = k
    <3>1. Max(1 .. k) \in 1 .. k /\ \A y \in 1 .. k : Max(1 .. k) >= y
      BY <1>0, <2>1, MaxOfIndexes
    <3> QED
      BY <1>0, <2>1, <3>1
  <2>3. (1 .. k) \ {k} = 1 .. k - 1 /\ k - 1 \in 0 .. n /\ k \in 0 .. n
    BY <1>0
  <2> QED
    BY <1>0, <1>7, <2>1, <2>2, <2>3
<1>10. FoldLeft(Coalesce, <<>>, s) = t[n]
  BY <1>0, <1>6
<1> HIDE DEF t
<1> QED
  BY <1>8, <1>9, <1>10 DEF n

(* A page is in a list if one of its ranges touches it. *)
LEMMA PageOf ==
  ASSUME NEW u, NEW p
  PROVE  p \in Pages(u) <=> \E i \in DOMAIN u : p \in Touched(u[i])
BY DEF Pages, Touched

(* In order, with a gap between ranges. *)
Spread(u) == \A i, j \in DOMAIN u : i < j => End(u[i]) < u[j].offset

(* A planned range as arithmetic sees it. *)
PlannedRange(r) ==
  /\ r.offset \in Nat /\ r.length \in Nat \ {0} /\ End(r) \in Nat
  /\ r.offset < End(r) /\ End(r) <= MappingSize /\ EndOf(r) = End(r)

(* The numbers of a planned range. *)
LEMMA PlannedTypes ==
  ASSUME NEW r \in Planned
  PROVE  PlannedRange(r) /\ r \in ByteRange
BY EndIsSum DEF Planned, ByteRange, WholePages, End, PlannedRange

(* A sequence and one element more. *)
LEMMA Appended ==
  ASSUME NEW S, NEW u \in Seq(S), NEW x \in S
  PROVE  /\ Append(u, x) \in Seq(S) /\ Append(u, x) # <<>>
         /\ DOMAIN u = 1 .. Len(u) /\ Len(u) \in Nat
         /\ DOMAIN Append(u, x) = 1 .. Len(u) + 1 /\ Len(Append(u, x)) = Len(u) + 1
         /\ \A i \in 1 .. Len(u) : Append(u, x)[i] = u[i] /\ u[i] \in S
         /\ Append(u, x)[Len(u) + 1] = x
         /\ Last(Append(u, x)) = x
BY DEF Last

(* One step of the loop keeps the ranges apart and adds the pages of the   *)
(* next range.                                                             *)
LEMMA CoalesceKeeps ==
  ASSUME NEW u \in Seq(Planned), Spread(u), NEW r \in Planned,
         u # <<>> => Last(u).offset <= r.offset
  PROVE  /\ Coalesce(u, r) \in Seq(Planned) /\ Spread(Coalesce(u, r))
         /\ Coalesce(u, r) # <<>> /\ Last(Coalesce(u, r)).offset <= r.offset
         /\ \A p : p \in Pages(Coalesce(u, r)) <=> p \in Pages(u) \/ p \in Touched(r)
<1>0. PlannedRange(r)
  BY PlannedTypes
<1>1. CASE u # <<>> /\ r.offset <= EndOf(Last(u))
  <2> DEFINE l == Last(u)
             f == Front(u)
             x == Extend(l, r)
             v == Append(f, x)
  <2>1. /\ Len(u) \in Nat \ {0} /\ l \in Planned /\ l = u[Len(u)] /\ DOMAIN u = 1 .. Len(u)
        /\ f \in Seq(Planned) /\ Len(f) = Len(u) - 1
        /\ \A i \in 1 .. Len(u) - 1 : f[i] = u[i]
    BY <1>1, FrontAndLast
  <2>2. PlannedRange(l)
    BY <2>1, PlannedTypes
  <2>3. x \in Planned /\ x.offset = l.offset /\ Touched(x) = Touched(l) \cup Touched(r)
    BY <1>1, <2>1, <2>2, Extended DEF PlannedRange
  <2>4. Coalesce(u, r) = v
    BY <1>1 DEF Coalesce
  <2> HIDE DEF l, f, x
  <2>5. /\ v \in Seq(Planned) /\ v # <<>> /\ DOMAIN v = 1 .. Len(u)
        /\ \A i \in 1 .. Len(u) - 1 : v[i] = u[i]
        /\ v[Len(u)] = x /\ Last(v) = x
    <3>1. Len(f) + 1 = Len(u)
      BY <2>1
    <3>2. /\ v \in Seq(Planned) /\ v # <<>> /\ DOMAIN v = 1 .. Len(f) + 1
          /\ \A i \in 1 .. Len(f) : v[i] = f[i]
          /\ v[Len(f) + 1] = x /\ Last(v) = x
      <4>1. f \in Seq(Planned) /\ x \in Planned
        BY <2>1, <2>3
      <4> QED
        BY <4>1, Appended
    <3> HIDE DEF v
    <3> QED
      BY <2>1, <3>1, <3>2
  <2> HIDE DEF v
  <2>6. Spread(v)
    <3>1. SUFFICES ASSUME NEW i \in DOMAIN v, NEW j \in DOMAIN v, i < j
                   PROVE  End(v[i]) < v[j].offset
      BY DEF Spread
    <3>2. i \in 1 .. Len(u) - 1 /\ v[i] = u[i] /\ i \in DOMAIN u /\ j \in DOMAIN u
      BY <2>1, <2>5, <3>1
    <3>3. End(u[i]) < u[j].offset
      BY <3>1, <3>2 DEF Spread
    <3>4. v[j].offset = u[j].offset
      <4>1. CASE j = Len(u)
        BY <2>1, <2>3, <2>5, <4>1
      <4>2. CASE j # Len(u)
        <5>1. j \in 1 .. Len(u) - 1
          BY <2>1, <2>5, <4>2
        <5> QED
          BY <2>5, <5>1
      <4> QED
        BY <4>1, <4>2
    <3> QED
      BY <3>2, <3>3, <3>4
  <2>7. ASSUME NEW p
        PROVE  p \in Pages(v) <=> p \in Pages(u) \/ p \in Touched(r)
    <3>1. p \in Pages(v) <=> \E i \in 1 .. Len(u) : p \in Touched(v[i])
      BY <2>5, PageOf
    <3>2. p \in Pages(u) <=> \E i \in 1 .. Len(u) : p \in Touched(u[i])
      BY <2>1, PageOf
    <3>3. \A i \in 1 .. Len(u) : i # Len(u) => v[i] = u[i]
      <4>0. Len(u) \in Nat
        OBVIOUS
      <4>1. \A i \in 1 .. Len(u) : i # Len(u) => i \in 1 .. Len(u) - 1
        BY <4>0
      <4> QED
        BY <2>5, <4>1
    <3>4. Len(u) \in 1 .. Len(u)
      BY <2>1
    <3>5. p \in Touched(v[Len(u)]) <=> p \in Touched(u[Len(u)]) \/ p \in Touched(r)
      BY <2>1, <2>3, <2>5
    <3> QED
      BY <3>1, <3>2, <3>3, <3>4, <3>5, Zenon
  <2> QED
    BY <1>1, <2>1, <2>3, <2>4, <2>5, <2>6, <2>7 DEF l
<1>2. CASE ~(u # <<>> /\ r.offset <= EndOf(Last(u)))
  <2> DEFINE v == Append(u, r)
  <2>1. Coalesce(u, r) = v
    BY <1>2 DEF Coalesce
  <2>2. /\ v \in Seq(Planned) /\ v # <<>> /\ Last(v) = r
        /\ DOMAIN u = 1 .. Len(u) /\ Len(u) \in Nat /\ DOMAIN v = 1 .. Len(u) + 1
        /\ \A i \in 1 .. Len(u) : v[i] = u[i] /\ u[i] \in Planned
        /\ v[Len(u) + 1] = r
    BY Appended
  <2> HIDE DEF v
  <2>3. ASSUME NEW i \in 1 .. Len(u)
        PROVE  End(u[i]) < r.offset
    <3>1. u # <<>>
      BY <2>2
    <3>2. Last(u) = u[Len(u)] /\ Last(u) \in Planned /\ Len(u) \in 1 .. Len(u)
      BY <2>2, <3>1, FrontAndLast
    <3>3. PlannedRange(Last(u)) /\ PlannedRange(u[i])
      BY <2>2, <3>2, PlannedTypes
    <3>4. End(Last(u)) < r.offset
      BY <1>0, <1>2, <3>1, <3>3 DEF PlannedRange
    <3>5. CASE i = Len(u)
      BY <3>2, <3>4, <3>5
    <3>6. CASE i # Len(u)
      <4>1. End(u[i]) < Last(u).offset
        BY <2>2, <3>2, <3>6 DEF Spread
      <4> QED
        BY <1>0, <3>3, <3>4, <4>1 DEF PlannedRange
    <3> QED
      BY <3>5, <3>6
  <2>4. Spread(v)
    <3>1. SUFFICES ASSUME NEW i \in DOMAIN v, NEW j \in DOMAIN v, i < j
                   PROVE  End(v[i]) < v[j].offset
      BY DEF Spread
    <3>2. i \in 1 .. Len(u) /\ v[i] = u[i]
      BY <2>2, <3>1
    <3>3. CASE j = Len(u) + 1
      BY <2>2, <2>3, <3>2, <3>3
    <3>4. CASE j # Len(u) + 1
      <4>1. j \in 1 .. Len(u) /\ v[j] = u[j]
        BY <2>2, <3>4
      <4> QED
        BY <2>2, <3>1, <3>2, <4>1 DEF Spread
    <3> QED
      BY <3>3, <3>4
  <2>5. ASSUME NEW p
        PROVE  p \in Pages(v) <=> p \in Pages(u) \/ p \in Touched(r)
    <3>1. p \in Pages(v) <=> \E i \in 1 .. Len(u) + 1 : p \in Touched(v[i])
      BY <2>2, PageOf
    <3>2. p \in Pages(u) <=> \E i \in 1 .. Len(u) : p \in Touched(u[i])
      BY <2>2, PageOf
    <3>3. \A i : i \in 1 .. Len(u) + 1 <=> i \in 1 .. Len(u) \/ i = Len(u) + 1
      BY <2>2
    <3> QED
      BY <2>2, <3>1, <3>2, <3>3, Zenon
  <2>6. r.offset <= r.offset
    BY <1>0 DEF PlannedRange
  <2> QED
    BY <2>1, <2>2, <2>4, <2>5, <2>6
<1> QED
  BY <1>1, <1>2

(* The loop over ranges in order of offset. *)
LEMMA Coalesced ==
  ASSUME NEW s \in Seq(Planned),
         \A i, j \in 1 .. Len(s) : i < j => s[i].offset <= s[j].offset
  PROVE  LET plan == FoldLeft(Coalesce, <<>>, s)
         IN  /\ plan \in Seq(Planned) /\ Spread(plan)
             /\ \A p : p \in Pages(plan) <=> p \in Pages(s)
<1> DEFINE n == Len(s)
<1>0. n \in Nat /\ DOMAIN s = 1 .. n /\ \A i \in 1 .. n : s[i] \in Planned
  OBVIOUS
<1> HIDE DEF n
<1>1. PICK t : /\ t[0] = <<>>
               /\ \A k \in 1 .. n : t[k] = Coalesce(t[k - 1], s[k])
               /\ FoldLeft(Coalesce, <<>>, s) = t[n]
  BY CoalescingSteps DEF n
<1> DEFINE Good(k) ==
             /\ t[k] \in Seq(Planned) /\ Spread(t[k])
             /\ t[k] # <<>> => k # 0 /\ Last(t[k]).offset <= s[k].offset
             /\ \A p : p \in Pages(t[k]) <=> \E i \in 1 .. k : p \in Touched(s[i])
           A == {k \in 0 .. n : Good(k)}
<1>2. 0 \in A
  <2>1. <<>> \in Seq(Planned) /\ Spread(<<>>) /\ 1 .. 0 = {} /\ DOMAIN <<>> = {}
    BY DEF Spread
  <2>2. \A p : p \notin Pages(<<>>)
    BY <2>1, PageOf
  <2>3. 0 \in 0 .. n
    BY <1>0
  <2> QED
    BY <1>1, <2>1, <2>2, <2>3
<1>3. ASSUME NEW k \in 0 .. n - 1, k \in A
      PROVE  k + 1 \in A
  <2>1. PICK j \in 1 .. n : j = k + 1 /\ j - 1 = k
    BY <1>0
  <2>2. t[j] = Coalesce(t[k], s[j]) /\ s[j] \in Planned
    BY <1>0, <1>1, <2>1
  <2>3. Good(k)
    BY <1>3
  <2>4. t[k] # <<>> => Last(t[k]).offset <= s[j].offset
    <3>1. ASSUME t[k] # <<>>
          PROVE  Last(t[k]).offset <= s[j].offset
      <4>1. k \in 1 .. n /\ k < j
        BY <1>0, <2>1, <2>3, <3>1
      <4>2. s[k].offset <= s[j].offset /\ Last(t[k]).offset <= s[k].offset
        BY <2>3, <3>1, <4>1 DEF n
      <4>3. Last(t[k]) \in Planned
        BY <2>3, <3>1, FrontAndLast
      <4>4. PlannedRange(Last(t[k])) /\ PlannedRange(s[k]) /\ PlannedRange(s[j])
        BY <1>0, <2>2, <4>1, <4>3, PlannedTypes
      <4> QED
        BY <4>2, <4>4 DEF PlannedRange
    <3> QED
      BY <3>1
  <2>5. /\ t[j] \in Seq(Planned) /\ Spread(t[j])
        /\ t[j] # <<>> /\ Last(t[j]).offset <= s[j].offset
        /\ \A p : p \in Pages(t[j]) <=> p \in Pages(t[k]) \/ p \in Touched(s[j])
    BY <2>2, <2>3, <2>4, CoalesceKeeps
  <2>6. \A i : i \in 1 .. j <=> i \in 1 .. k \/ i = j
    BY <1>0, <2>1
  <2>7. \A p : p \in Pages(t[j]) <=> \E i \in 1 .. j : p \in Touched(s[i])
    BY <2>3, <2>5, <2>6, Zenon
  <2>8. j \in 0 .. n /\ j # 0
    BY <1>0, <2>1
  <2>9. j \in A
    BY <2>5, <2>7, <2>8
  <2> HIDE DEF A
  <2> QED
    BY <2>1, <2>9
<1>4. n \in A
  <2>1. \A k \in 0 .. n - 1 : k \in A => k + 1 \in A
    BY <1>3
  <2> HIDE DEF A
  <2>2. 0 .. n \subseteq A
    BY <1>0, <1>2, <2>1, Induction
  <2> QED
    BY <1>0, <2>2
<1>5. \A p : p \in Pages(s) <=> \E i \in 1 .. n : p \in Touched(s[i])
  BY <1>0, PageOf
<1> QED
  BY <1>1, <1>4, <1>5

(* What page_align_and_coalesce returns for ranges inside the file: whole  *)
(* pages in order with gaps between, and exactly the pages touched.        *)
LEMMA PlanOf ==
  ASSUME NEW s \in Seq(ByteRange), Accepted(s)
  PROVE  LET plan == page_align_and_coalesce(s)
         IN  /\ plan \in Seq(Planned) /\ Spread(plan)
             /\ \A p : p \in Pages(plan) <=> p \in Pages(s)
<1> DEFINE n == Len(s)
           a == [i \in DOMAIN s |-> Align(s[i])]
           t == Sorted(a)
<1>1. DOMAIN s = 1 .. n /\ n \in Nat /\ \A i \in 1 .. n : s[i] \in ByteRange /\ InMapping(s[i])
  BY DEF Accepted
<1>2. \A i \in 1 .. n : a[i] \in Planned /\ Touched(a[i]) = Touched(s[i])
  BY <1>1, Aligned
<1>3. a \in [1 .. n -> ByteRange] /\ Planned \subseteq ByteRange
  <2>1. Planned \subseteq ByteRange
    BY DEF Planned
  <2>2. a = [i \in 1 .. n |-> Align(s[i])]
    BY <1>1
  <2> QED
    BY <1>2, <2>1, <2>2
<1> HIDE DEF n, a
<1>4. a \in Seq(ByteRange) /\ Len(a) = n
  BY <1>1, <1>3
<1>5. /\ t \in [1 .. n -> ByteRange]
      /\ \A i, j \in 1 .. n : i < j => t[i].offset <= t[j].offset
      /\ \A i \in 1 .. n : \E j \in 1 .. n : t[i] = a[j]
      /\ \A j \in 1 .. n : \E i \in 1 .. n : t[i] = a[j]
  BY <1>4, SortedRanges
<1>6. page_align_and_coalesce(s) = FoldLeft(Coalesce, <<>>, t)
  BY DEF page_align_and_coalesce, a
<1> HIDE DEF t
<1>7. \A i \in 1 .. n : t[i] \in Planned
  BY <1>2, <1>5
<1>8. t \in Seq(Planned) /\ Len(t) = n /\ DOMAIN t = 1 .. n
  BY <1>1, <1>5, <1>7
<1>9. /\ FoldLeft(Coalesce, <<>>, t) \in Seq(Planned)
      /\ Spread(FoldLeft(Coalesce, <<>>, t))
      /\ \A p : p \in Pages(FoldLeft(Coalesce, <<>>, t)) <=> p \in Pages(t)
  BY <1>5, <1>8, Coalesced
<1>10. ASSUME NEW p
       PROVE  p \in Pages(t) <=> p \in Pages(s)
  <2>1. p \in Pages(t) <=> \E i \in 1 .. n : p \in Touched(t[i])
    BY <1>8, PageOf
  <2>2. p \in Pages(s) <=> \E i \in 1 .. n : p \in Touched(s[i])
    BY <1>1, PageOf
  <2>3. \A i \in 1 .. n : p \in Touched(t[i]) => \E j \in 1 .. n : p \in Touched(s[j])
    BY <1>2, <1>5
  <2>4. \A j \in 1 .. n : p \in Touched(s[j]) => \E i \in 1 .. n : p \in Touched(t[i])
    BY <1>2, <1>5
  <2> QED
    BY <2>1, <2>2, <2>3, <2>4
<1> QED
  BY <1>6, <1>9, <1>10

(* The plan of what a region has accumulated. *)
LEMMA PlanExact ==
  ASSUME pending \in Seq(ByteRange)
  PROVE  PlanIsExact
<1> DEFINE plan == page_align_and_coalesce(pending)
<1>1. SUFFICES ASSUME Accepted(pending)
               PROVE  /\ Pages(plan) = Pages(pending)
                      /\ \A i \in DOMAIN plan : WholePages(plan[i]) /\ EndOf(plan[i]) <= MappingSize
                      /\ \A i \in 1 .. Len(plan) - 1 : EndOf(plan[i]) < plan[i + 1].offset
  BY DEF PlanIsExact
<1>2. plan \in Seq(Planned) /\ Spread(plan) /\ \A p : p \in Pages(plan) <=> p \in Pages(pending)
  BY <1>1, PlanOf
<1> HIDE DEF plan
<1>3. Pages(plan) = Pages(pending)
  BY <1>2
<1>4. \A i \in DOMAIN plan : plan[i] \in Planned /\ PlannedRange(plan[i])
  BY <1>2, PlannedTypes
<1>5. \A i \in DOMAIN plan : WholePages(plan[i]) /\ EndOf(plan[i]) <= MappingSize
  BY <1>4 DEF PlannedRange, Planned
<1>6. ASSUME NEW i \in 1 .. Len(plan) - 1
      PROVE  EndOf(plan[i]) < plan[i + 1].offset
  <2>1. i \in DOMAIN plan /\ i + 1 \in DOMAIN plan /\ i < i + 1
    BY <1>2
  <2> QED
    BY <1>2, <1>4, <2>1 DEF Spread, PlannedRange
<1> QED
  BY <1>3, <1>5, <1>6

(* Every byte a row holds is in a page that is leased. *)
LEMMA RowsExact ==
  ASSUME tokens \in Seq(Int)
  PROVE  RowsAreLeased
<1> DEFINE rows == {Row(tokens[i]) : i \in DOMAIN tokens}
           s == SetToSeq(rows)
           row(id) == [offset |-> Tensor.offset + id * Tensor.stride, length |-> Tensor.stride]
<1>1. SUFFICES ASSUME TokensAccepted
               PROVE  Pages(token_row_ranges) =
                        {(Tensor.offset + id * Tensor.stride + b) \div PageSize :
                           id \in ToSet(tokens), b \in 0 .. Tensor.stride - 1}
  BY DEF RowsAreLeased
<1>2. /\ Tensor.offset \in 0 .. MaxSize /\ Tensor.stride \in 1 .. MaxSize
      /\ Tensor.nbytes \in 0 .. MaxSize /\ Tensor.rows \in Int /\ MaxSize \in Nat
  BY <1>1, SizeAssumption, TensorAssumption DEF TokensAccepted, RowsFit
<1>3. ASSUME NEW i \in DOMAIN tokens
      PROVE  /\ Row(tokens[i]) \in ByteRange /\ InMapping(Row(tokens[i]))
             /\ Row(tokens[i]) = row(tokens[i])
             /\ tokens[i] \in Nat /\ tokens[i] * Tensor.stride \in Nat
  <2> DEFINE id == tokens[i]
             o == id * Tensor.stride
  <2>1. id \in Nat
    BY <1>1 DEF TokensAccepted, KnownToken
  <2>2. o \in Nat
    BY <1>2, <2>1
  <2>3. ~Overflows(Tensor.offset, o) /\ InMapping(Row(id))
    BY <1>1 DEF TokensAccepted
  <2>4. Row(id) = [offset |-> Plus(Tensor.offset, o), length |-> Tensor.stride]
    BY DEF Row
  <2> HIDE DEF o
  <2>5. Plus(Tensor.offset, o) = Tensor.offset + o /\ Tensor.offset + o \in Nat
    BY <1>2, <2>2, <2>3, NoWrap DEF Overflows
  <2>6. Row(id) = [offset |-> Tensor.offset + o, length |-> Tensor.stride]
    BY <2>4, <2>5
  <2>7. Row(id) \in ByteRange
    BY <1>2, <2>5, <2>6 DEF ByteRange
  <2> QED
    BY <2>1, <2>2, <2>3, <2>6, <2>7 DEF o
<1>4. IsFiniteSet(rows)
  <2>1. DOMAIN tokens = 1 .. Len(tokens) /\ Len(tokens) \in Nat
    OBVIOUS
  <2>2. IsFiniteSet(DOMAIN tokens)
    BY <2>1, FS_Interval
  <2> DEFINE f == [i \in DOMAIN tokens |-> Row(tokens[i])]
  <2>3. f \in Surjection(DOMAIN tokens, rows)
    BY DEF Surjection
  <2> HIDE DEF f, rows
  <2> QED
    BY <2>2, <2>3, FS_Surjection
<1>5. s \in Seq(rows) /\ \A x \in rows : \E i \in DOMAIN s : s[i] = x
  BY <1>4, Listing
<1>6. rows \subseteq ByteRange /\ \A x \in rows : InMapping(x)
  BY <1>3
<1>7. s \in Seq(ByteRange) /\ \A i \in DOMAIN s : s[i] \in rows
  <2> HIDE DEF rows, s
  <2> QED
    BY <1>5, <1>6
<1>8. token_row_ranges = page_align_and_coalesce(s)
  BY DEF token_row_ranges
<1>9. Accepted(s)
  BY <1>6, <1>7 DEF Accepted
<1>10. \A p : p \in Pages(token_row_ranges) <=> p \in Pages(s)
  <2> HIDE DEF s
  <2> QED
    BY <1>7, <1>8, <1>9, PlanOf
<1>11. ASSUME NEW p
       PROVE  p \in Pages(s) <=> \E i \in DOMAIN tokens : p \in Touched(Row(tokens[i]))
  <2>1. p \in Pages(s) <=> \E i \in DOMAIN s : p \in Touched(s[i])
    BY PageOf
  <2>2. \A i \in DOMAIN s : \E k \in DOMAIN tokens : s[i] = Row(tokens[k])
    <3> HIDE DEF s
    <3> QED
      BY <1>7
  <2>3. \A k \in DOMAIN tokens : \E i \in DOMAIN s : s[i] = Row(tokens[k])
    <3> HIDE DEF s
    <3> QED
      BY <1>5
  <2> HIDE DEF s
  <2> QED
    BY <2>1, <2>2, <2>3
<1>12. ASSUME NEW i \in DOMAIN tokens, NEW p
       PROVE  p \in Touched(Row(tokens[i])) <=>
                \E b \in 0 .. Tensor.stride - 1 :
                  p = (Tensor.offset + tokens[i] * Tensor.stride + b) \div PageSize
  <2> DEFINE o == Tensor.offset + tokens[i] * Tensor.stride
  <2>1. o \in Nat
    BY <1>2, <1>3
  <2>2. Touched(Row(tokens[i])) = {b \div PageSize : b \in o .. (o + Tensor.stride - 1)}
    BY <1>3 DEF Touched, Bytes
  <2> HIDE DEF o
  <2>3. \A b : b \in o .. (o + Tensor.stride - 1) => b - o \in 0 .. Tensor.stride - 1 /\ b = o + (b - o)
    BY <1>2, <2>1
  <2>4. \A b \in 0 .. Tensor.stride - 1 : o + b \in o .. (o + Tensor.stride - 1)
    BY <1>2, <2>1
  <2>5. p \in Touched(Row(tokens[i])) <=> \E b \in 0 .. Tensor.stride - 1 : p = (o + b) \div PageSize
    BY <2>2, <2>3, <2>4
  <2> QED
    BY <2>5 DEF o
<1>13. ASSUME NEW p
       PROVE  p \in Pages(token_row_ranges) <=>
                p \in {(Tensor.offset + id * Tensor.stride + b) \div PageSize :
                         id \in ToSet(tokens), b \in 0 .. Tensor.stride - 1}
  <2>1. p \in {(Tensor.offset + id * Tensor.stride + b) \div PageSize :
                 id \in ToSet(tokens), b \in 0 .. Tensor.stride - 1}
          <=> \E i \in DOMAIN tokens : \E b \in 0 .. Tensor.stride - 1 :
                p = (Tensor.offset + tokens[i] * Tensor.stride + b) \div PageSize
    BY DEF ToSet
  <2> HIDE DEF s
  <2> QED
    BY <1>10, <1>11, <1>12, <2>1
<1> QED
  BY <1>13

-----------------------------------------------------------------------------
(* The scan of subtract_ranges, guard by guard. *)
LEMMA PassingSteps ==
  ASSUME NEW g \in Seq(Planned), NEW item \in Planned
  PROVE  \E t : /\ t[0] = [cursor |-> item.offset, done |-> FALSE, result |-> <<>>]
                /\ \A k \in 1 .. Len(g) : t[k] = Pass(t[k - 1], EndOf(item), g[k])
                /\ SubtractFrom(item, g) =
                     IF t[Len(g)].cursor < EndOf(item)
                     THEN Append(t[Len(g)].result, [offset |-> t[Len(g)].cursor,
                                                    length |-> EndOf(item) - t[Len(g)].cursor])
                     ELSE t[Len(g)].result
<1> DEFINE n == Len(g)
           end == EndOf(item)
           base == [cursor |-> item.offset, done |-> FALSE, result |-> <<>>]
           IntRange == [offset : Int, length : Int]
           S == [cursor : Int, done : BOOLEAN, result : Seq(IntRange)]
           h == [x \in S \X Planned |-> Pass(x[1], end, x[2])]
<1>0. n \in Nat /\ g \in [1 .. n -> Planned] /\ DOMAIN g = 1 .. n
  OBVIOUS
<1>11. end \in Int /\ base \in S
  <2>1. PlannedRange(item)
    BY PlannedTypes
  <2> QED
    BY <2>1 DEF PlannedRange
<1> HIDE DEF n, base, end
<1>1. ASSUME NEW u \in S, NEW r \in Planned
      PROVE  Pass(u, end, r) \in S
  <2>1. PlannedRange(r)
    BY PlannedTypes
  <2>2. /\ u.cursor \in Int /\ u.done \in BOOLEAN /\ u.result \in Seq(IntRange)
        /\ r.offset \in Int /\ EndOf(r) \in Int
    BY <2>1 DEF PlannedRange
  <2>3. [u EXCEPT !.done = TRUE] \in S
    OBVIOUS
  <2> DEFINE piece == [offset |-> u.cursor, length |-> r.offset - u.cursor]
             next == Larger(u.cursor, EndOf(r))
             kept == IF r.offset > u.cursor THEN Append(u.result, piece) ELSE u.result
  <2>4. piece \in IntRange /\ next \in Int
    BY <2>2 DEF Larger
  <2>5. kept \in Seq(IntRange)
    <3>1. \A v \in Seq(IntRange), x \in IntRange : Append(v, x) \in Seq(IntRange)
      OBVIOUS
    <3> HIDE DEF piece, IntRange
    <3> QED
      BY <2>2, <2>4, <3>1
  <2>6. (next >= end) \in BOOLEAN
    OBVIOUS
  <2>7. \/ Pass(u, end, r) = u
        \/ Pass(u, end, r) = [u EXCEPT !.done = TRUE]
        \/ Pass(u, end, r) = [cursor |-> next, done |-> next >= end, result |-> kept]
    BY DEF Pass
  <2> HIDE DEF next, kept
  <2>8. [cursor |-> next, done |-> next >= end, result |-> kept] \in S
    BY <2>4, <2>5, <2>6
  <2> QED
    BY <2>3, <2>7, <2>8
<1>2. h \in [S \X Planned -> S]
  BY <1>1
<1> HIDE DEF S
<1>4. PICK f \in [SUBSET (1 .. n) -> S] : Folding(n, f, base, h, g)
  <2>1. g \in [1 .. n -> Planned]
    BY <1>0
  <2> HIDE DEF h
  <2> QED
    BY <1>0, <2>1, <1>2, <1>11, FoldExists
<1>5. f = [d \in SUBSET DOMAIN g |->
             IF d = {} THEN base ELSE Pass(f[d \ {Max(d)}], end, g[Max(d)])]
  <2>1. ASSUME NEW d \in SUBSET (1 .. n), d # {}
        PROVE  f[d] = Pass(f[d \ {Max(d)}], end, g[Max(d)])
    <3>1. Max(d) \in d
      BY <1>0, <2>1, MaxOfIndexes
    <3>2. g[Max(d)] \in Planned /\ f[d \ {Max(d)}] \in S
      BY <1>0, <3>1
    <3>3. h[<<f[d \ {Max(d)}], g[Max(d)]>>] = Pass(f[d \ {Max(d)}], end, g[Max(d)])
      BY <3>2
    <3> QED
      BY <1>4, <2>1, <3>3 DEF Folding
  <2>2. f[{}] = base
    BY <1>4 DEF Folding
  <2> QED
    BY <1>0, <2>1, <2>2
<1> DEFINE G == CHOOSE G : G = [d \in SUBSET DOMAIN g |->
                  IF d = {} THEN base ELSE Pass(G[d \ {Max(d)}], end, g[Max(d)])]
           t == [k \in 0 .. n |-> G[1 .. k]]
<1>6. SubtractFrom(item, g) =
        IF G[DOMAIN g].cursor < end
        THEN Append(G[DOMAIN g].result, [offset |-> G[DOMAIN g].cursor,
                                         length |-> end - G[DOMAIN g].cursor])
        ELSE G[DOMAIN g].result
  BY DEF SubtractFrom, FoldLeft, MapThenFoldSet, end, base
<1>7. G = [d \in SUBSET DOMAIN g |->
             IF d = {} THEN base ELSE Pass(G[d \ {Max(d)}], end, g[Max(d)])]
  BY <1>5
<1> HIDE DEF G
<1>8. t[0] = base
  <2>1. 1 .. 0 = {} /\ {} \in SUBSET DOMAIN g
    OBVIOUS
  <2> QED
    BY <1>0, <1>7, <2>1
<1>9. ASSUME NEW k \in 1 .. n
      PROVE  t[k] = Pass(t[k - 1], end, g[k])
  <2>1. 1 .. k \in SUBSET (1 .. n) /\ 1 .. k # {} /\ k \in 1 .. k
    <3>1. k \in 1 .. k /\ \A i \in 1 .. k : i \in 1 .. n
      BY <1>0
    <3> QED
      BY <3>1
  <2>2. Max(1 .. k) = k
    <3>1. Max(1 .. k) \in 1 .. k /\ \A y \in 1 .. k : Max(1 .. k) >= y
      BY <1>0, <2>1, MaxOfIndexes
    <3> QED
      BY <1>0, <2>1, <3>1
  <2>3. (1 .. k) \ {k} = 1 .. k - 1 /\ k - 1 \in 0 .. n /\ k \in 0 .. n
    BY <1>0
  <2> QED
    BY <1>0, <1>7, <2>1, <2>2, <2>3
<1>10. G[DOMAIN g] = t[n]
  BY <1>0
<1> HIDE DEF t
<1> QED
  BY <1>6, <1>8, <1>9, <1>10 DEF n, base, end
(* In order, without overlap, and inside the bytes from lo to hi. *)
Ordered(u) == \A i, j \in DOMAIN u : i < j => End(u[i]) <= u[j].offset

Within(u, lo, hi) == \A i \in DOMAIN u : lo <= u[i].offset /\ End(u[i]) <= hi

(* A range appended behind the others. *)
LEMMA AppendedPiece ==
  ASSUME NEW u \in Seq(Planned), NEW x \in Planned, NEW lo \in Nat,
         Ordered(u), Within(u, lo, x.offset), lo <= x.offset
  PROVE  /\ Append(u, x) \in Seq(Planned)
         /\ Ordered(Append(u, x)) /\ Within(Append(u, x), lo, End(x))
         /\ \A p : p \in Pages(Append(u, x)) <=> p \in Pages(u) \/ p \in Touched(x)
<1> DEFINE v == Append(u, x)
           n == Len(u)
<1>1. /\ v \in Seq(Planned) /\ n \in Nat /\ DOMAIN u = 1 .. n /\ DOMAIN v = 1 .. n + 1
      /\ \A i \in 1 .. n : v[i] = u[i] /\ u[i] \in Planned
      /\ v[n + 1] = x
  BY Appended
<1> HIDE DEF v, n
<1>2. PlannedRange(x) /\ \A i \in 1 .. n : PlannedRange(u[i])
  BY <1>1, PlannedTypes
<1>3. ASSUME NEW i \in 1 .. n + 1
      PROVE  \/ i \in 1 .. n /\ v[i] = u[i]
             \/ i = n + 1 /\ v[i] = x
  BY <1>1
<1>4. Ordered(v)
  <2>1. SUFFICES ASSUME NEW i \in 1 .. n + 1, NEW j \in 1 .. n + 1, i < j
                 PROVE  End(v[i]) <= v[j].offset
    BY <1>1 DEF Ordered
  <2>2. i \in 1 .. n /\ v[i] = u[i]
    BY <1>1, <1>3, <2>1
  <2>3. CASE j \in 1 .. n /\ v[j] = u[j]
    BY <1>1, <2>1, <2>2, <2>3 DEF Ordered
  <2>4. CASE v[j] = x
    BY <1>1, <2>2, <2>4 DEF Within
  <2> QED
    BY <1>3, <2>3, <2>4
<1>5. Within(v, lo, End(x))
  <2>1. SUFFICES ASSUME NEW i \in 1 .. n + 1
                 PROVE  lo <= v[i].offset /\ End(v[i]) <= End(x)
    BY <1>1 DEF Within
  <2>2. CASE i \in 1 .. n /\ v[i] = u[i]
    <3>1. lo <= u[i].offset /\ End(u[i]) <= x.offset
      BY <1>1, <2>2 DEF Within
    <3>2. PlannedRange(u[i])
      BY <1>2, <2>2
    <3> QED
      BY <1>2, <2>2, <3>1, <3>2 DEF PlannedRange
  <2>3. CASE v[i] = x
    BY <1>2, <2>3 DEF PlannedRange
  <2> QED
    BY <1>3, <2>2, <2>3
<1>6. ASSUME NEW p
      PROVE  p \in Pages(v) <=> p \in Pages(u) \/ p \in Touched(x)
  <2>1. p \in Pages(v) <=> \E i \in 1 .. n + 1 : p \in Touched(v[i])
    BY <1>1, PageOf
  <2>2. p \in Pages(u) <=> \E i \in 1 .. n : p \in Touched(u[i])
    BY <1>1, PageOf
  <2>3. (\E i \in 1 .. n : p \in Touched(u[i])) => \E i \in 1 .. n + 1 : p \in Touched(v[i])
    BY <1>1
  <2>4. n + 1 \in 1 .. n + 1
    BY <1>1
  <2> QED
    BY <1>1, <1>3, <2>1, <2>2, <2>3, <2>4
<1> QED
  BY <1>1, <1>4, <1>5, <1>6 DEF v

(* Where the scan of item is after k guards: what it kept is whole pages   *)
(* in order, behind the cursor and before the guards to come; a page       *)
(* behind the cursor was kept unless one of the guards has it, and those   *)
(* ahead are in none of them; it ends early when nothing is left to guard. *)
ScanIsPlaced(item, c) ==
  /\ c.cursor \in Nat /\ c.done \in BOOLEAN
  /\ item.offset <= c.cursor /\ c.cursor <= MappingSize
  /\ c.cursor % PageSize = 0 \/ c.cursor = MappingSize

ScanKept(item, g, k, c) ==
  /\ c.result \in Seq(Planned) /\ Ordered(c.result)
  /\ Within(c.result, item.offset, c.cursor) /\ Within(c.result, item.offset, End(item))
  /\ \A j \in k + 1 .. Len(g) : Within(c.result, item.offset, g[j].offset)

ScanPages(item, g, k, c) ==
  /\ \A p : p \in Pages(c.result) <=>
              /\ p \in Touched(item) /\ PageSize * p < c.cursor
              /\ \A j \in 1 .. k : p \notin Touched(g[j])
  /\ \A p \in Touched(item) :
       c.cursor <= PageSize * p => \A j \in 1 .. k : p \notin Touched(g[j])

ScanStops(item, g, k, c) ==
  c.done => \/ End(item) <= c.cursor
            \/ \A j \in k + 1 .. Len(g) : End(item) <= g[j].offset

Scanned(item, g, k, c) ==
  /\ ScanIsPlaced(item, c) /\ ScanKept(item, g, k, c)
  /\ ScanPages(item, g, k, c) /\ ScanStops(item, g, k, c)

(* A page is ahead of the cursor or wholly behind it. *)
LEMMA PageIsPlaced ==
  ASSUME NEW r \in Planned, NEW p \in Touched(r)
  PROVE  p \in Nat /\ PageSize * p \in Nat /\ r.offset <= PageSize * p /\ PageSize * p < End(r)
<1>1. p \in Nat /\ r.offset <= PageSize * p /\ PageSize * p < End(r)
  BY PlannedPages
<1> QED
  BY <1>1, SizeAssumption

(* What is kept lies before the guards to come, so it shares no page. *)
LEMMA KeptIsUnguarded ==
  ASSUME NEW u \in Seq(Planned), NEW r \in Planned, NEW lo, Within(u, lo, r.offset),
         NEW p \in Pages(u)
  PROVE  p \notin Touched(r)
<1>1. PICK i \in DOMAIN u : p \in Touched(u[i])
  BY PageOf
<1>2. u[i] \in Planned /\ End(u[i]) <= r.offset
  BY DEF Within
<1>3. PageSize * p \in Nat /\ PageSize * p < End(u[i])
  BY <1>1, <1>2, PageIsPlaced
<1>4. PlannedRange(r) /\ PlannedRange(u[i])
  BY <1>2, PlannedTypes
<1>5. p \in Touched(r) => r.offset <= PageSize * p
  BY PageIsPlaced
<1> QED
  BY <1>2, <1>3, <1>4, <1>5 DEF PlannedRange

(* The range between the cursor and what follows it, cut at whole pages. *)
LEMMA CutAtPages ==
  ASSUME NEW from \in Nat, NEW to \in Nat, from < to, to <= MappingSize,
         from % PageSize = 0, to % PageSize = 0 \/ to = MappingSize
  PROVE  LET x == [offset |-> from, length |-> to - from]
         IN  /\ x \in Planned /\ End(x) = to
             /\ \A p : p \in Touched(x) <=> p \in Nat /\ from <= PageSize * p /\ PageSize * p < to
<1> DEFINE x == [offset |-> from, length |-> to - from]
<1>1. x \in ByteRange /\ from + (to - from) = to
  BY DEF ByteRange
<1>2. x \in Planned /\ End(x) = to
  BY <1>1 DEF Planned, WholePages, End
<1>3. \A p : p \in Touched(x) <=> p \in Nat /\ x.offset <= PageSize * p /\ PageSize * p < End(x)
  BY <1>2, PlannedPages
<1> QED
  BY <1>2, <1>3
(* A guard that the scan leaves behind, or stops at, takes no page of what *)
(* was kept and none ahead.                                                *)
LEMMA PassIdle ==
  ASSUME NEW item \in Planned, NEW g \in Seq(Planned), NEW k \in 0 .. Len(g) - 1, NEW c,
         Scanned(item, g, k, c),
         \/ End(item) <= c.cursor
         \/ End(g[k + 1]) <= c.cursor
         \/ End(item) <= g[k + 1].offset
  PROVE  /\ ScanKept(item, g, k + 1, c)
         /\ ScanPages(item, g, k + 1, c)
         /\ ScanStops(item, g, k + 1, c)
<1> DEFINE n == Len(g)
<1>0. n \in Nat /\ k \in Nat /\ \A i \in 1 .. n : g[i] \in Planned
  OBVIOUS
<1> HIDE DEF n
<1>1. PICK j \in 1 .. n : j = k + 1
  BY DEF n
<1>2. /\ \A i : i \in 1 .. j <=> i \in 1 .. k \/ i = j
      /\ \A i \in j + 1 .. n : i \in k + 1 .. n
      /\ j \in k + 1 .. n
  BY <1>0, <1>1
<1>3. ScanIsPlaced(item, c) /\ ScanKept(item, g, k, c) /\ ScanPages(item, g, k, c) /\ ScanStops(item, g, k, c)
  BY DEF Scanned
<1>4. /\ g[j] \in Planned /\ PlannedRange(g[j]) /\ PlannedRange(item)
      /\ c.cursor \in Nat
  BY <1>0, <1>3, PlannedTypes DEF ScanIsPlaced
<1>5. ScanKept(item, g, j, c)
  BY <1>2, <1>3 DEF ScanKept, n
<1>6. ScanStops(item, g, j, c)
  BY <1>2, <1>3 DEF ScanStops, n
<1>7. ASSUME NEW p \in Pages(c.result)
      PROVE  p \notin Touched(g[j])
  <2>1. c.result \in Seq(Planned) /\ Within(c.result, item.offset, g[j].offset)
    BY <1>2, <1>3 DEF ScanKept, n
  <2> QED
    BY <1>4, <2>1, KeptIsUnguarded
<1>8. ASSUME NEW p \in Touched(item), c.cursor <= PageSize * p
      PROVE  p \notin Touched(g[j])
  <2>1. PageSize * p \in Nat /\ PageSize * p < End(item)
    BY PageIsPlaced
  <2>2. p \in Touched(g[j]) => g[j].offset <= PageSize * p /\ PageSize * p < End(g[j])
    BY <1>4, PageIsPlaced
  <2>3. \/ End(item) <= c.cursor
        \/ End(g[j]) <= c.cursor
        \/ End(item) <= g[j].offset
    BY <1>1
  <2> QED
    BY <1>4, <1>8, <2>1, <2>2, <2>3 DEF PlannedRange
<1>9. ScanPages(item, g, j, c)
  <2>1. ASSUME NEW p
        PROVE  p \in Pages(c.result) <=>
                 /\ p \in Touched(item) /\ PageSize * p < c.cursor
                 /\ \A i \in 1 .. j : p \notin Touched(g[i])
    <3>1. p \in Pages(c.result) <=>
            /\ p \in Touched(item) /\ PageSize * p < c.cursor
            /\ \A i \in 1 .. k : p \notin Touched(g[i])
      BY <1>3 DEF ScanPages
    <3> QED
      BY <1>2, <1>7, <3>1, Zenon
  <2>2. ASSUME NEW p \in Touched(item), c.cursor <= PageSize * p
        PROVE  \A i \in 1 .. j : p \notin Touched(g[i])
    <3>1. \A i \in 1 .. k : p \notin Touched(g[i])
      BY <1>3, <2>2 DEF ScanPages
    <3>2. p \notin Touched(g[j])
      BY <1>8, <2>2
    <3> QED
      BY <1>2, <3>1, <3>2, Zenon
  <2> QED
    BY <2>1, <2>2 DEF ScanPages
<1> QED
  BY <1>1, <1>5, <1>6, <1>9

(* One guard. *)
LEMMA PassKeeps ==
  ASSUME NEW item \in Planned, NEW g \in Seq(Planned), Spread(g),
         NEW k \in 0 .. Len(g) - 1, NEW c, Scanned(item, g, k, c)
  PROVE  Scanned(item, g, k + 1, Pass(c, EndOf(item), g[k + 1]))
<1> DEFINE n == Len(g)
<1>0. n \in Nat /\ k \in Nat /\ DOMAIN g = 1 .. n /\ \A i \in 1 .. n : g[i] \in Planned
  OBVIOUS
<1> HIDE DEF n
<1>1. PICK j \in 1 .. n : j = k + 1
  BY DEF n
<1> DEFINE end == End(item)
           r == g[j]
<1>2. /\ r \in Planned /\ PlannedRange(r) /\ PlannedRange(item)
      /\ EndOf(r) = End(r) /\ EndOf(item) = end
      /\ end \in Nat /\ End(r) \in Nat /\ r.offset \in Nat
  BY <1>0, PlannedTypes DEF PlannedRange
<1>3. ScanIsPlaced(item, c) /\ ScanKept(item, g, k, c) /\ ScanPages(item, g, k, c) /\ ScanStops(item, g, k, c)
  BY DEF Scanned
<1>4. c.cursor \in Nat /\ c.done \in BOOLEAN
  BY <1>3 DEF ScanIsPlaced
<1>5. /\ \A i : i \in 1 .. j <=> i \in 1 .. k \/ i = j
      /\ \A i \in j + 1 .. n : i \in k + 1 .. n /\ i \in 1 .. n /\ j < i
      /\ j \in k + 1 .. n
  BY <1>0, <1>1
<1>6. \A i \in j + 1 .. n : End(r) < g[i].offset /\ PlannedRange(g[i])
  BY <1>0, <1>5, PlannedTypes DEF Spread
<1>7. CASE c.done \/ End(r) <= c.cursor
  <2>1. Pass(c, EndOf(item), r) = c
    BY <1>2, <1>7 DEF Pass
  <2>2. \/ end <= c.cursor
        \/ End(g[k + 1]) <= c.cursor
        \/ end <= g[k + 1].offset
    <3>1. c.done => end <= c.cursor \/ end <= r.offset
      BY <1>3, <1>5 DEF ScanStops, n
    <3> QED
      BY <1>1, <1>7, <3>1
  <2>3. ScanKept(item, g, k + 1, c) /\ ScanPages(item, g, k + 1, c) /\ ScanStops(item, g, k + 1, c)
    BY <2>2, PassIdle
  <2> QED
    BY <1>1, <1>3, <2>1, <2>3 DEF Scanned
<1>8. CASE ~(c.done \/ End(r) <= c.cursor) /\ r.offset >= end
  <2> DEFINE d == [c EXCEPT !.done = TRUE]
  <2>1. Pass(c, EndOf(item), r) = d
    BY <1>2, <1>8 DEF Pass
  <2>2. d.cursor = c.cursor /\ d.result = c.result /\ d.done \in BOOLEAN
    OBVIOUS
  <2>3. end <= g[k + 1].offset
    BY <1>1, <1>2, <1>8
  <2>4. ScanKept(item, g, k + 1, c) /\ ScanPages(item, g, k + 1, c)
    BY <2>3, PassIdle
  <2>5. \A i \in j + 1 .. n : end <= g[i].offset
    BY <1>2, <1>6, <1>8 DEF PlannedRange
  <2> HIDE DEF d
  <2>6. ScanIsPlaced(item, d)
    BY <1>3, <2>2 DEF ScanIsPlaced
  <2>7. ScanKept(item, g, k + 1, d)
    BY <2>2, <2>4 DEF ScanKept
  <2>8. ScanPages(item, g, k + 1, d)
    BY <2>2, <2>4 DEF ScanPages
  <2>9. ScanStops(item, g, k + 1, d)
    BY <1>1, <2>5 DEF ScanStops, n
  <2> QED
    BY <1>1, <2>1, <2>6, <2>7, <2>8, <2>9 DEF Scanned
<1>9. CASE ~(c.done \/ End(r) <= c.cursor) /\ ~(r.offset >= end)
  <2> DEFINE x == [offset |-> c.cursor, length |-> r.offset - c.cursor]
             kept == IF r.offset > c.cursor THEN Append(c.result, x) ELSE c.result
             d == Pass(c, EndOf(item), r)
  <2>1. Larger(c.cursor, End(r)) = End(r) /\ c.cursor < End(r) /\ r.offset < end
    BY <1>2, <1>4, <1>9 DEF Larger
  <2>2. d = [cursor |-> End(r), done |-> End(r) >= end, result |-> kept]
    BY <1>2, <1>9, <2>1 DEF Pass
  <2>3. /\ item.offset \in Nat /\ item.offset <= c.cursor /\ c.cursor <= MappingSize /\ MappingSize \in Nat
        /\ c.result \in Seq(Planned) /\ Ordered(c.result)
        /\ Within(c.result, item.offset, c.cursor) /\ Within(c.result, item.offset, end)
        /\ Within(c.result, item.offset, r.offset)
        /\ \A i \in j + 1 .. n : Within(c.result, item.offset, g[i].offset)
    BY <1>2, <1>3, <1>5, SizeAssumption DEF ScanIsPlaced, ScanKept, PlannedRange, n
  <2>4. /\ kept \in Seq(Planned) /\ Ordered(kept) /\ Within(kept, item.offset, r.offset)
        /\ \A p : p \in Pages(kept) <=>
             \/ p \in Pages(c.result)
             \/ p \in Nat /\ c.cursor <= PageSize * p /\ PageSize * p < r.offset
    <3>1. CASE r.offset > c.cursor
      <4>1. c.cursor % PageSize = 0 /\ r.offset % PageSize = 0 /\ r.offset <= MappingSize
        <5>1. r.offset < MappingSize
          BY <1>2, <2>3 DEF PlannedRange
        <5>2. r.offset % PageSize = 0
          BY <1>2 DEF Planned, WholePages
        <5>3. c.cursor # MappingSize
          BY <1>2, <1>4, <2>3, <3>1, <5>1
        <5> QED
          BY <1>2, <1>3, <2>3, <5>1, <5>2, <5>3 DEF ScanIsPlaced
      <4>2. /\ x \in Planned /\ End(x) = r.offset /\ x.offset = c.cursor
            /\ \A p : p \in Touched(x) <=> p \in Nat /\ c.cursor <= PageSize * p /\ PageSize * p < r.offset
        BY <1>2, <1>4, <3>1, <4>1, CutAtPages
      <4>3. kept = Append(c.result, x)
        BY <3>1
      <4> HIDE DEF x, kept
      <4>4. Within(c.result, item.offset, x.offset) /\ item.offset <= x.offset
        BY <2>3, <4>2
      <4>5. /\ kept \in Seq(Planned) /\ Ordered(kept) /\ Within(kept, item.offset, End(x))
            /\ \A p : p \in Pages(kept) <=> p \in Pages(c.result) \/ p \in Touched(x)
        BY <2>3, <4>2, <4>3, <4>4, AppendedPiece
      <4> QED
        BY <4>2, <4>5
    <3>2. CASE ~(r.offset > c.cursor)
      <4>1. kept = c.result
        BY <3>2
      <4>2. ASSUME NEW p
            PROVE  ~(p \in Nat /\ c.cursor <= PageSize * p /\ PageSize * p < r.offset)
        <5>1. p \in Nat => PageSize * p \in Nat
          BY SizeAssumption
        <5> QED
          BY <1>2, <1>4, <3>2, <5>1
      <4> HIDE DEF kept
      <4> QED
        BY <2>3, <4>1, <4>2
    <3> QED
      BY <3>1, <3>2
  <2> HIDE DEF x, kept, end
  <2>5. d.cursor = End(r) /\ d.result = kept /\ d.done = (End(r) >= end)
    BY <2>2
  <2> HIDE DEF d
  <2>6. ScanIsPlaced(item, d)
    <3>1. (End(r) >= end) \in BOOLEAN
      OBVIOUS
    <3>2. item.offset <= End(r) /\ End(r) <= MappingSize
      BY <1>2, <1>4, <2>1, <2>3 DEF PlannedRange
    <3>3. End(r) % PageSize = 0 \/ End(r) = MappingSize
      BY <1>2 DEF Planned, WholePages, End
    <3> QED
      BY <1>2, <2>5, <3>1, <3>2, <3>3 DEF ScanIsPlaced
  <2>7. ScanKept(item, g, j, d)
    <3>1. ASSUME NEW m \in Nat, r.offset <= m
          PROVE  Within(kept, item.offset, m)
      <4>1. \A i \in DOMAIN kept : kept[i] \in Planned
        BY <2>4
      <4>2. \A i \in DOMAIN kept : PlannedRange(kept[i])
        BY <4>1, PlannedTypes
      <4> QED
        BY <1>2, <2>4, <3>1, <4>2 DEF Within, PlannedRange
    <3>2. Within(kept, item.offset, End(r)) /\ Within(kept, item.offset, end)
      BY <1>2, <2>1, <3>1 DEF PlannedRange, end
    <3>3. \A i \in j + 1 .. n : Within(kept, item.offset, g[i].offset)
      BY <1>2, <1>6, <3>1 DEF PlannedRange
    <3> QED
      BY <2>4, <2>5, <3>2, <3>3 DEF ScanKept, n, end
  <2>8. ScanStops(item, g, j, d)
    BY <1>2, <2>5 DEF ScanStops, end
  <2>9. ScanPages(item, g, j, d)
    <3>0. ASSUME NEW p \in Touched(item)
          PROVE  /\ p \in Nat /\ PageSize * p \in Nat
                 /\ item.offset <= PageSize * p /\ PageSize * p < end
                 /\ p \in Touched(r) <=> r.offset <= PageSize * p /\ PageSize * p < End(r)
      <4>1. p \in Nat /\ PageSize * p \in Nat /\ item.offset <= PageSize * p /\ PageSize * p < End(item)
        BY PageIsPlaced
      <4> QED
        BY <1>2, <4>1, PlannedPages DEF end
    <3>1. ASSUME NEW p
          PROVE  p \in Pages(d.result) <=>
                   /\ p \in Touched(item) /\ PageSize * p < d.cursor
                   /\ \A i \in 1 .. j : p \notin Touched(g[i])
      <4>1. p \in Pages(c.result) <=>
              /\ p \in Touched(item) /\ PageSize * p < c.cursor
              /\ \A i \in 1 .. k : p \notin Touched(g[i])
        BY <1>3 DEF ScanPages
      <4>2. p \in Pages(c.result) => p \notin Touched(r)
        BY <1>2, <2>3, KeptIsUnguarded
      <4>3. p \in Nat /\ c.cursor <= PageSize * p /\ PageSize * p < r.offset => p \in Touched(item)
        <5>1. SUFFICES ASSUME p \in Nat, c.cursor <= PageSize * p, PageSize * p < r.offset
                       PROVE  item.offset <= PageSize * p /\ PageSize * p < End(item)
          BY PlannedPages
        <5>2. PageSize * p \in Nat
          BY <5>1, SizeAssumption
        <5> QED
          BY <1>2, <1>4, <2>1, <2>3, <5>1, <5>2 DEF end
      <4>4. p \in Touched(item) /\ c.cursor <= PageSize * p => \A i \in 1 .. k : p \notin Touched(g[i])
        BY <1>3 DEF ScanPages
      <4>5. SUFFICES ASSUME p \in Touched(item)
                     PROVE  p \in Pages(d.result) <=>
                              /\ PageSize * p < d.cursor
                              /\ \A i \in 1 .. j : p \notin Touched(g[i])
        BY <2>4, <2>5, <4>1, <4>3
      <4>6. (\A i \in 1 .. j : p \notin Touched(g[i])) <=>
              (\A i \in 1 .. k : p \notin Touched(g[i])) /\ p \notin Touched(r)
        BY <1>5, Zenon
      <4>7. p \in Pages(d.result) <=>
              \/ p \in Pages(c.result)
              \/ c.cursor <= PageSize * p /\ PageSize * p < r.offset
        BY <2>4, <2>5, <3>0, <4>5
      <4>8. CASE PageSize * p < c.cursor
        <5>1. ~(c.cursor <= PageSize * p) /\ PageSize * p < d.cursor
          BY <1>2, <1>4, <2>1, <2>5, <3>0, <4>5, <4>8
        <5> QED
          BY <4>1, <4>2, <4>5, <4>6, <4>7, <4>8, <5>1, Zenon
      <4>9. CASE ~(PageSize * p < c.cursor)
        <5>1. c.cursor <= PageSize * p
          BY <1>4, <3>0, <4>5, <4>9
        <5>2. p \notin Touched(r) /\ PageSize * p < d.cursor <=> PageSize * p < r.offset
          BY <1>2, <2>5, <3>0, <4>5 DEF PlannedRange
        <5> QED
          BY <4>1, <4>4, <4>5, <4>6, <4>7, <4>9, <5>1, <5>2, Zenon
      <4> QED
        BY <4>8, <4>9
    <3>2. ASSUME NEW p \in Touched(item), d.cursor <= PageSize * p
          PROVE  \A i \in 1 .. j : p \notin Touched(g[i])
      <4>1. c.cursor <= PageSize * p /\ ~(PageSize * p < End(r))
        BY <1>2, <1>4, <2>1, <2>5, <3>0, <3>2
      <4>2. \A i \in 1 .. k : p \notin Touched(g[i])
        BY <1>3, <4>1 DEF ScanPages
      <4>3. p \notin Touched(r)
        BY <3>0, <4>1
      <4> QED
        BY <1>5, <4>2, <4>3, Zenon
    <3> QED
      BY <3>1, <3>2 DEF ScanPages
  <2>10. Scanned(item, g, j, d)
    BY <2>6, <2>7, <2>8, <2>9 DEF Scanned
  <2> QED
    BY <1>1, <2>10 DEF d
<1> QED
  BY <1>7, <1>8, <1>9
(* What the scan of one range returns: the pages that no guard has, whole  *)
(* and in order, inside the range.                                         *)
LEMMA SubtractedFrom ==
  ASSUME NEW item \in Planned, NEW g \in Seq(Planned), Spread(g)
  PROVE  LET v == SubtractFrom(item, g)
         IN  /\ v \in Seq(Planned) /\ Ordered(v) /\ Within(v, item.offset, End(item))
             /\ \A p : p \in Pages(v) <=> p \in Touched(item) /\ p \notin Pages(g)
<1> DEFINE n == Len(g)
           base == [cursor |-> item.offset, done |-> FALSE, result |-> <<>>]
           end == End(item)
<1>0. n \in Nat /\ DOMAIN g = 1 .. n /\ 0 \in 0 .. n
  OBVIOUS
<1>1. PICK t : /\ t[0] = base
               /\ \A k \in 1 .. n : t[k] = Pass(t[k - 1], EndOf(item), g[k])
               /\ SubtractFrom(item, g) =
                    IF t[n].cursor < EndOf(item)
                    THEN Append(t[n].result, [offset |-> t[n].cursor,
                                              length |-> EndOf(item) - t[n].cursor])
                    ELSE t[n].result
  BY PassingSteps
<1>2. PlannedRange(item) /\ EndOf(item) = end /\ end \in Nat /\ end <= MappingSize
  BY PlannedTypes DEF PlannedRange
<1> DEFINE A == {k \in 0 .. n : Scanned(item, g, k, t[k])}
<1>3. Scanned(item, g, 0, base)
  <2>1. Pages(<<>>) = {}
    BY DEF Pages
  <2>2. \A p \in Touched(item) : p \in Nat /\ PageSize * p \in Nat /\ item.offset <= PageSize * p
    BY PageIsPlaced
  <2>3. <<>> \in Seq(Planned) /\ DOMAIN (<<>>) = {}
    OBVIOUS
  <2>4. item.offset % PageSize = 0
    BY DEF Planned, WholePages
  <2>5. ScanIsPlaced(item, base)
    BY <1>2, <2>4, SizeAssumption DEF ScanIsPlaced, PlannedRange
  <2>6. ScanKept(item, g, 0, base)
    <3>1. base.result = <<>>
      OBVIOUS
    <3> HIDE DEF base
    <3> QED
      BY <2>3, <3>1 DEF ScanKept, Ordered, Within
  <2>7. ScanPages(item, g, 0, base)
    <3>1. base.result = <<>> /\ base.cursor = item.offset /\ 1 .. 0 = {}
      OBVIOUS
    <3>2. \A p \in Touched(item) : ~(PageSize * p < item.offset)
      BY <1>2, <2>2 DEF PlannedRange
    <3> HIDE DEF base
    <3> QED
      BY <2>1, <3>1, <3>2 DEF ScanPages
  <2>8. ScanStops(item, g, 0, base)
    BY DEF ScanStops
  <2> QED
    BY <2>5, <2>6, <2>7, <2>8 DEF Scanned
<1>4. 0 \in A
  BY <1>0, <1>1, <1>3
<1>5. ASSUME NEW k \in 0 .. n - 1, k \in A
      PROVE  k + 1 \in A
  <2>1. k + 1 \in 1 .. n /\ k + 1 \in 0 .. n /\ (k + 1) - 1 = k
    BY <1>0
  <2>2. t[k + 1] = Pass(t[k], EndOf(item), g[k + 1])
    BY <1>1, <2>1
  <2>3. Scanned(item, g, k, t[k])
    BY <1>5
  <2>4. Scanned(item, g, k + 1, t[k + 1])
    BY <2>2, <2>3, PassKeeps
  <2> QED
    BY <2>1, <2>4
<1>6. n \in A
  <2>1. \A k \in 0 .. n - 1 : k \in A => k + 1 \in A
    BY <1>5
  <2> HIDE DEF A
  <2>2. 0 .. n \subseteq A
    BY <1>0, <1>4, <2>1, Induction
  <2> QED
    BY <1>0, <2>2
<1> DEFINE c == t[n]
           v == SubtractFrom(item, g)
           x == [offset |-> c.cursor, length |-> end - c.cursor]
<1>7. v = IF c.cursor < end THEN Append(c.result, x) ELSE c.result
  BY <1>1, <1>2
<1>8. ScanIsPlaced(item, c) /\ ScanKept(item, g, n, c) /\ ScanPages(item, g, n, c)
  BY <1>6 DEF Scanned
<1> HIDE DEF c, v, base, A
<1>9. /\ c.cursor \in Nat /\ item.offset \in Nat /\ item.offset <= c.cursor
      /\ c.cursor % PageSize = 0 \/ c.cursor = MappingSize
      /\ c.result \in Seq(Planned) /\ Ordered(c.result)
      /\ Within(c.result, item.offset, c.cursor) /\ Within(c.result, item.offset, end)
  BY <1>2, <1>8 DEF ScanIsPlaced, ScanKept, PlannedRange
<1>10. ASSUME NEW p
       PROVE  p \in Pages(g) <=> \E j \in 1 .. n : p \in Touched(g[j])
  BY <1>0, PageOf
<1>11. ASSUME NEW p \in Touched(item)
       PROVE  p \in Nat /\ PageSize * p \in Nat /\ item.offset <= PageSize * p /\ PageSize * p < end
  BY PageIsPlaced
<1>12. ASSUME NEW p
       PROVE  p \in Pages(c.result) <=>
                p \in Touched(item) /\ PageSize * p < c.cursor /\ p \notin Pages(g)
  <2>1. p \in Pages(c.result) <=>
          /\ p \in Touched(item) /\ PageSize * p < c.cursor
          /\ \A j \in 1 .. n : p \notin Touched(g[j])
    BY <1>8 DEF ScanPages
  <2> QED
    BY <1>10, <2>1, Zenon
<1>13. ASSUME NEW p \in Touched(item), c.cursor <= PageSize * p
       PROVE  p \notin Pages(g)
  <2>1. \A j \in 1 .. n : p \notin Touched(g[j])
    BY <1>8, <1>13 DEF ScanPages
  <2> QED
    BY <1>10, <2>1, Zenon
<1>14. CASE c.cursor < end
  <2>1. c.cursor % PageSize = 0 /\ (end % PageSize = 0 \/ end = MappingSize)
    <3>1. c.cursor # MappingSize
      BY <1>2, <1>9, <1>14, SizeAssumption
    <3>2. end % PageSize = 0 \/ end = MappingSize
      BY DEF Planned, WholePages, End
    <3> QED
      BY <1>9, <3>1, <3>2
  <2> HIDE DEF end
  <2>2. /\ x \in Planned /\ End(x) = end /\ x.offset = c.cursor
        /\ \A p : p \in Touched(x) <=> p \in Nat /\ c.cursor <= PageSize * p /\ PageSize * p < end
    BY <1>2, <1>9, <1>14, <2>1, CutAtPages
  <2>3. v = Append(c.result, x)
    BY <1>7, <1>14
  <2> HIDE DEF x
  <2>4. Within(c.result, item.offset, x.offset) /\ item.offset <= x.offset
    BY <1>9, <2>2
  <2>5. /\ v \in Seq(Planned) /\ Ordered(v) /\ Within(v, item.offset, end)
        /\ \A p : p \in Pages(v) <=> p \in Pages(c.result) \/ p \in Touched(x)
    BY <1>9, <2>2, <2>3, <2>4, AppendedPiece
  <2>6. ASSUME NEW p
        PROVE  p \in Pages(v) <=> p \in Touched(item) /\ p \notin Pages(g)
    <3>1. p \in Touched(x) <=> p \in Touched(item) /\ c.cursor <= PageSize * p
      <4>1. p \in Touched(x) => p \in Nat /\ PageSize * p \in Nat
        BY <2>2, PageIsPlaced
      <4>2. p \in Touched(item) <=> p \in Nat /\ item.offset <= PageSize * p /\ PageSize * p < End(item)
        BY PlannedPages
      <4>3. p \in Touched(x) => item.offset <= PageSize * p
        BY <1>9, <2>2, <4>1
      <4> QED
        BY <1>11, <2>2, <4>2, <4>3 DEF end
    <3>2. p \in Touched(item) => (PageSize * p < c.cursor <=> ~(c.cursor <= PageSize * p))
      BY <1>9, <1>11
    <3> QED
      BY <1>12, <1>13, <2>5, <3>1, <3>2, Zenon
  <2> QED
    BY <2>5, <2>6 DEF v, end
<1>15. CASE ~(c.cursor < end)
  <2>1. v = c.result
    BY <1>7, <1>15
  <2>2. \A p \in Touched(item) : PageSize * p < c.cursor
    BY <1>2, <1>9, <1>11, <1>15
  <2>3. \A p : p \in Pages(v) <=> p \in Touched(item) /\ p \notin Pages(g)
    BY <1>12, <2>1, <2>2, Zenon
  <2> QED
    BY <1>9, <2>1, <2>3 DEF v, end
<1> QED
  BY <1>14, <1>15

(* One sequence of ranges behind another.                                  *)
LEMMA Concatenated ==
  ASSUME NEW u \in Seq(Planned), NEW v \in Seq(Planned), NEW m \in Nat, NEW lo \in Nat, NEW hi \in Nat,
         Ordered(u), Ordered(v), Within(u, 0, m), Within(v, lo, hi), m <= lo, lo <= hi
  PROVE  /\ u \o v \in Seq(Planned) /\ Ordered(u \o v) /\ Within(u \o v, 0, hi)
         /\ \A p : p \in Pages(u \o v) <=> p \in Pages(u) \/ p \in Pages(v)
<1> DEFINE w == u \o v
           a == Len(u)
           b == Len(v)
<1>1. /\ w \in Seq(Planned) /\ a \in Nat /\ b \in Nat
      /\ DOMAIN u = 1 .. a /\ DOMAIN v = 1 .. b /\ DOMAIN w = 1 .. a + b
      /\ \A i \in 1 .. a : w[i] = u[i] /\ u[i] \in Planned
      /\ \A i \in 1 .. b : w[i + a] = v[i] /\ v[i] \in Planned
  OBVIOUS
<1> HIDE DEF w, a, b
<1>2. /\ \A i \in 1 .. a : PlannedRange(u[i])
      /\ \A i \in 1 .. b : PlannedRange(v[i])
  BY <1>1, PlannedTypes
<1>3. ASSUME NEW i \in 1 .. a + b
      PROVE  \/ i \in 1 .. a /\ w[i] = u[i]
             \/ \E k \in 1 .. b : i = k + a /\ w[i] = v[k]
  <2>1. CASE i <= a
    BY <1>1, <2>1
  <2>2. CASE ~(i <= a)
    <3>1. i - a \in 1 .. b /\ i = (i - a) + a
      BY <1>1, <2>2
    <3> QED
      BY <1>1, <3>1
  <2> QED
    BY <2>1, <2>2
<1>4. Ordered(w)
  <2>1. SUFFICES ASSUME NEW i \in 1 .. a + b, NEW j \in 1 .. a + b, i < j
                 PROVE  End(w[i]) <= w[j].offset
    BY <1>1 DEF Ordered
  <2>2. CASE i \in 1 .. a /\ j \in 1 .. a
    BY <1>1, <2>1, <2>2 DEF Ordered
  <2>3. CASE i \in 1 .. a /\ j \notin 1 .. a
    <3>1. PICK k \in 1 .. b : j = k + a /\ w[j] = v[k]
      BY <1>3, <2>3
    <3>2. End(u[i]) <= m /\ lo <= v[k].offset /\ w[i] = u[i]
      BY <1>1, <2>3 DEF Within
    <3> QED
      BY <1>2, <2>3, <3>1, <3>2 DEF PlannedRange
  <2>4. CASE i \notin 1 .. a
    <3>1. j \notin 1 .. a
      BY <1>1, <2>1, <2>4
    <3>2. PICK k \in 1 .. b : i = k + a /\ w[i] = v[k]
      BY <1>3, <2>4
    <3>3. PICK l \in 1 .. b : j = l + a /\ w[j] = v[l]
      BY <1>3, <3>1
    <3>4. k < l
      BY <1>1, <2>1, <3>2, <3>3
    <3> QED
      BY <1>1, <3>2, <3>3, <3>4 DEF Ordered
  <2> QED
    BY <2>2, <2>3, <2>4
<1>5. Within(w, 0, hi)
  <2>1. SUFFICES ASSUME NEW i \in 1 .. a + b
                 PROVE  0 <= w[i].offset /\ End(w[i]) <= hi
    BY <1>1 DEF Within
  <2>2. CASE i \in 1 .. a /\ w[i] = u[i]
    <3>1. End(u[i]) <= m
      BY <1>1, <2>2 DEF Within
    <3> QED
      BY <1>2, <2>2, <3>1 DEF PlannedRange
  <2>3. CASE \E k \in 1 .. b : i = k + a /\ w[i] = v[k]
    <3>1. PICK k \in 1 .. b : w[i] = v[k]
      BY <2>3
    <3>2. End(v[k]) <= hi /\ PlannedRange(v[k])
      BY <1>1, <1>2 DEF Within
    <3> QED
      BY <3>1, <3>2 DEF PlannedRange
  <2> QED
    BY <1>3, <2>2, <2>3
<1>6. ASSUME NEW p
      PROVE  p \in Pages(w) <=> p \in Pages(u) \/ p \in Pages(v)
  <2>1. p \in Pages(w) <=> \E i \in 1 .. a + b : p \in Touched(w[i])
    BY <1>1, PageOf
  <2>2. p \in Pages(u) <=> \E i \in 1 .. a : p \in Touched(u[i])
    BY <1>1, PageOf
  <2>3. p \in Pages(v) <=> \E i \in 1 .. b : p \in Touched(v[i])
    BY <1>1, PageOf
  <2>4. \A i \in 1 .. a : i \in 1 .. a + b /\ w[i] = u[i]
    BY <1>1
  <2>5. \A k \in 1 .. b : k + a \in 1 .. a + b /\ w[k + a] = v[k]
    BY <1>1
  <2> QED
    BY <1>3, <2>1, <2>2, <2>3, <2>4, <2>5, Zenon
<1> QED
  BY <1>1, <1>4, <1>5, <1>6 DEF w

(* What subtract_ranges returns for two plans: the pages of the first that *)
(* the second has not, whole and in order.                                 *)
LEMMA Subtracted ==
  ASSUME NEW s \in Seq(Planned), Spread(s), NEW g \in Seq(Planned), Spread(g)
  PROVE  LET v == subtract_ranges(s, g)
         IN  /\ v \in Seq(Planned) /\ Ordered(v)
             /\ \A p : p \in Pages(v) <=> p \in Pages(s) /\ p \notin Pages(g)
<1> DEFINE n == Len(s)
           ss == [i \in DOMAIN s |-> SubtractFrom(s[i], g)]
<1>0. n \in Nat /\ DOMAIN s = 1 .. n /\ 0 \in 0 .. n /\ \A i \in 1 .. n : s[i] \in Planned
  OBVIOUS
<1>1. \A i \in 1 .. n :
        /\ ss[i] \in Seq(Planned) /\ Ordered(ss[i]) /\ Within(ss[i], s[i].offset, End(s[i]))
        /\ \A p : p \in Pages(ss[i]) <=> p \in Touched(s[i]) /\ p \notin Pages(g)
  <2>1. ASSUME NEW i \in 1 .. n
        PROVE  LET v == SubtractFrom(s[i], g)
               IN  /\ v \in Seq(Planned) /\ Ordered(v) /\ Within(v, s[i].offset, End(s[i]))
                   /\ \A p : p \in Pages(v) <=> p \in Touched(s[i]) /\ p \notin Pages(g)
    BY <1>0, SubtractedFrom
  <2> QED
    BY <1>0, <2>1
<1>2. ss \in Seq(Seq(Planned)) /\ Len(ss) = n
  <2>1. ss = [i \in 1 .. n |-> SubtractFrom(s[i], g)]
    BY <1>0
  <2>2. \A i \in 1 .. n : SubtractFrom(s[i], g) \in Seq(Planned)
    BY <1>0, <1>1
  <2>3. ss \in [1 .. n -> Seq(Planned)]
    BY <2>1, <2>2
  <2> HIDE DEF ss
  <2> QED
    BY <1>0, <2>3
<1>3. subtract_ranges(s, g) = FlattenSeq(ss)
  BY DEF subtract_ranges
<1> HIDE DEF ss, n
<1>4. PICK t \in [0 .. n -> Seq(Planned)] :
        /\ t[0] = <<>>
        /\ \A k \in 1 .. n : t[k] = t[k - 1] \o ss[k]
        /\ FlattenSeq(ss) = t[n]
  BY <1>2, Flattening
<1> DEFINE Good(k) ==
             /\ t[k] \in Seq(Planned) /\ Ordered(t[k])
             /\ Within(t[k], 0, IF k = 0 THEN 0 ELSE End(s[k]))
             /\ \A p : p \in Pages(t[k]) <=>
                         (\E i \in 1 .. k : p \in Touched(s[i])) /\ p \notin Pages(g)
           A == {k \in 0 .. n : Good(k)}
<1>5. 0 \in A
  <2>1. Pages(<<>>) = {} /\ DOMAIN (<<>>) = {} /\ <<>> \in Seq(Planned) /\ 1 .. 0 = {}
    BY DEF Pages
  <2>2. Good(0)
    BY <1>4, <2>1 DEF Ordered, Within
  <2> HIDE DEF Good
  <2> QED
    BY <1>0, <2>2
<1>6. ASSUME NEW k \in 0 .. n - 1, k \in A
      PROVE  k + 1 \in A
  <2>1. PICK j \in 1 .. n : j = k + 1 /\ j - 1 = k
    BY <1>0
  <2>2. Good(k)
    BY <1>6
  <2>3. t[j] = t[k] \o ss[j] /\ s[j] \in Planned /\ PlannedRange(s[j])
    BY <1>0, <1>4, <2>1, PlannedTypes
  <2> DEFINE m == IF k = 0 THEN 0 ELSE End(s[k])
  <2>4. m \in Nat /\ m <= s[j].offset
    <3>1. CASE k = 0
      BY <2>3, <3>1 DEF PlannedRange
    <3>2. CASE k # 0
      <4>1. k \in 1 .. n /\ k < j
        BY <1>0, <2>1, <3>2
      <4>2. PlannedRange(s[k]) /\ End(s[k]) < s[j].offset
        BY <1>0, <4>1, PlannedTypes DEF Spread
      <4> QED
        BY <2>3, <3>2, <4>2 DEF PlannedRange
    <3> QED
      BY <3>1, <3>2
  <2>5. Within(t[k], 0, m) /\ t[k] \in Seq(Planned) /\ Ordered(t[k])
    BY <2>2
  <2> HIDE DEF m
  <2>6. /\ s[j].offset \in Nat /\ End(s[j]) \in Nat /\ s[j].offset <= End(s[j])
        /\ ss[j] \in Seq(Planned) /\ Ordered(ss[j]) /\ Within(ss[j], s[j].offset, End(s[j]))
    BY <1>1, <2>3 DEF PlannedRange
  <2>7. /\ t[j] \in Seq(Planned) /\ Ordered(t[j]) /\ Within(t[j], 0, End(s[j]))
        /\ \A p : p \in Pages(t[j]) <=> p \in Pages(t[k]) \/ p \in Pages(ss[j])
    BY <2>3, <2>4, <2>5, <2>6, Concatenated
  <2>8. \A i : i \in 1 .. j <=> i \in 1 .. k \/ i = j
    BY <1>0, <2>1
  <2>9. \A p : p \in Pages(t[j]) <=>
                 (\E i \in 1 .. j : p \in Touched(s[i])) /\ p \notin Pages(g)
    BY <1>1, <2>2, <2>7, <2>8, Zenon
  <2>10. j \in 0 .. n /\ j # 0
    BY <1>0, <2>1
  <2>11. j \in A
    BY <2>7, <2>9, <2>10
  <2> HIDE DEF A
  <2> QED
    BY <2>1, <2>11
<1>7. n \in A
  <2>1. \A k \in 0 .. n - 1 : k \in A => k + 1 \in A
    BY <1>6
  <2> HIDE DEF A
  <2>2. 0 .. n \subseteq A
    BY <1>0, <1>5, <2>1, Induction
  <2> QED
    BY <1>0, <2>2
<1>8. \A p : p \in Pages(s) <=> \E i \in 1 .. n : p \in Touched(s[i])
  BY <1>0, PageOf
<1> QED
  BY <1>3, <1>4, <1>7, <1>8

(* What is released: the pages of the region that nobody protects.         *)
LEMMA ReleaseExact ==
  ASSUME pending \in Seq(ByteRange), protected \in Seq(ByteRange)
  PROVE  ReleaseIsExact
<1> DEFINE s == page_align_and_coalesce(pending)
           g == page_align_and_coalesce(protected)
           v == subtract_ranges(s, g)
<1>1. SUFFICES ASSUME Accepted(pending), Accepted(protected)
               PROVE  /\ Pages(v) = Pages(pending) \ Pages(protected)
                      /\ \A i \in DOMAIN v : WholePages(v[i])
                      /\ \A i, j \in DOMAIN v : i # j => Bytes(v[i]) \cap Bytes(v[j]) = {}
  BY DEF ReleaseIsExact, Releasable
<1>2. s \in Seq(Planned) /\ Spread(s) /\ \A p : p \in Pages(s) <=> p \in Pages(pending)
  BY <1>1, PlanOf
<1>3. g \in Seq(Planned) /\ Spread(g) /\ \A p : p \in Pages(g) <=> p \in Pages(protected)
  BY <1>1, PlanOf
<1> HIDE DEF s, g
<1>4. v \in Seq(Planned) /\ Ordered(v) /\ \A p : p \in Pages(v) <=> p \in Pages(s) /\ p \notin Pages(g)
  BY <1>2, <1>3, Subtracted
<1> HIDE DEF v
<1>5. Pages(v) = Pages(pending) \ Pages(protected)
  BY <1>2, <1>3, <1>4
<1>6. \A i \in DOMAIN v : v[i] \in Planned /\ PlannedRange(v[i]) /\ i \in Nat
  BY <1>4, PlannedTypes
<1>7. \A i \in DOMAIN v : WholePages(v[i])
  BY <1>6 DEF Planned
<1>8. ASSUME NEW i \in DOMAIN v, NEW j \in DOMAIN v, i < j
      PROVE  Bytes(v[i]) \cap Bytes(v[j]) = {}
  <2>1. End(v[i]) <= v[j].offset
    BY <1>4, <1>8 DEF Ordered
  <2>2. PlannedRange(v[i]) /\ PlannedRange(v[j])
    BY <1>6
  <2>3. \A b \in Bytes(v[i]) : b \in Int /\ b < End(v[i])
    BY <2>2 DEF Bytes, End, PlannedRange
  <2>4. \A b \in Bytes(v[j]) : b \in Int /\ v[j].offset <= b
    BY <2>2 DEF Bytes, PlannedRange
  <2> QED
    BY <2>1, <2>2, <2>3, <2>4 DEF PlannedRange
<1>9. \A i, j \in DOMAIN v : i # j => Bytes(v[i]) \cap Bytes(v[j]) = {}
  BY <1>6, <1>8
<1> QED
  BY <1>5, <1>7, <1>9

-----------------------------------------------------------------------------
TensorInfo == [offset : 0 .. MaxSize, nbytes : 0 .. MaxSize, sound : BOOLEAN]
Header     == [alignment : Nat, data_offset : 0 .. MaxSize, tensors : Seq(TensorInfo)]

Unvalidated == {"closed", "opened", "mapped", "parsed", "parsed_path", "checking", "failed"}
Validated   == {"validated", "validated_path", "consuming", "consumed", "consumed_path"}
Published   == {"published", "published_path", "bound", "ready"}

MappedTypes ==
  /\ pc \in Unvalidated \cup {"validating"} \cup Validated \cup {"binding"} \cup Published
  /\ header   \in Header
  /\ expected \in Nat
  /\ borrows  \in Seq(ByteRange)
  /\ pending  \in Seq(ByteRange) /\ protected \in Seq(ByteRange)
  /\ tokens   \in Seq(Int)

(* What was validated lies in the file, in order, before expected.         *)
Sound(r) ==
  /\ r.length # 0 /\ r.offset + r.length <= MappingSize
  /\ r.offset % CpuAlignment = 0

BorrowsAreSound ==
  /\ pc \in Unvalidated => borrows = <<>>
  /\ pc \notin Unvalidated => header.alignment # 0 /\ header.tensors # <<>>
  /\ \A i \in DOMAIN borrows :
       /\ Sound(borrows[i])
       /\ borrows[i].offset + borrows[i].length <= header.data_offset + expected
       /\ \A j \in DOMAIN borrows :
            i < j => borrows[i].offset + borrows[i].length <= borrows[j].offset

(* How far validating, binding and publishing are. *)
Progress ==
  /\ pc \in {"closed", "opened", "mapped", "parsed", "parsed_path", "checking"} => expected = 0
  /\ pc \in Validated \cup {"binding"} \cup Published => Len(borrows) = Len(header.tensors)
  /\ pc \in Unvalidated \cup {"validating"} \cup Validated => data = {}
  /\ pc = "binding" => \E n \in 0 .. Len(borrows) : data = 1 .. n
  /\ pc \in Published => data = 1 .. Len(borrows)

(* Ranges are leased only when the model is ready, and of its tensors.     *)
LeasesAreOfBorrows ==
  /\ pc \notin {"closed", "ready"} => pending = <<>> /\ protected = <<>>
  /\ pc = "ready" =>
       /\ \A k \in DOMAIN pending   : \E i \in DOMAIN borrows : pending[k] = borrows[i]
       /\ \A k \in DOMAIN protected : \E i \in DOMAIN borrows : protected[k] = borrows[i]

(* The inductive invariant. *)
IInv == MappedTypes /\ BorrowsAreSound /\ Progress /\ LeasesAreOfBorrows /\ OnlyLateChangesGoUnseen

-----------------------------------------------------------------------------
(* checked_add throws exactly where the sum would wrap. *)
LEMMA CheckedAdd ==
  ASSUME NEW a \in 0 .. MaxSize, NEW b \in 0 .. MaxSize, ~Overflows(a, b)
  PROVE  /\ a + b \in 0 .. MaxSize
         /\ Plus(a, b) = a + b
BY SizeAssumption, NoWrap DEF Overflows

(* checked_pad never pads a size to less than it is. *)
LEMMA PadCovers ==
  ASSUME NEW t \in TensorInfo, header \in Header, header.alignment # 0,
         expected \in Nat, ~ExtentOverflows(t)
  PROVE  Extent(t) \in Nat /\ t.nbytes <= Extent(t)
<1> DEFINE a == header.alignment
           s == t.nbytes + (a - 1)
<1>1. a \in Nat \ {0} /\ t.nbytes \in 0 .. MaxSize
  BY DEF Header, TensorInfo
<1>2. Plus(t.nbytes, a - 1) = s /\ s \in Nat
  <2>1. a - 1 \in Nat /\ t.nbytes + (a - 1) <= MaxSize
    BY <1>1, SizeAssumption DEF ExtentOverflows, Overflows
  <2> QED
    BY <1>1, <2>1, NoWrap
<1>3. s % a \in 0 .. a - 1
  BY <1>1, <1>2
<1>4. Extent(t) = s - (s % a)
  BY <1>2 DEF Extent
<1> QED
  BY <1>1, <1>3, <1>4

(* A tensor that passes the checks lies in the file, behind the others.    *)
LEMMA ValidTensorIsSound ==
  ASSUME NEW t \in TensorInfo, header \in Header, header.alignment # 0,
         expected \in Nat, TensorIsValid(t), ~ExtentOverflows(t)
  PROVE  LET r == [offset |-> Absolute(t), length |-> t.nbytes]
         IN  /\ r \in ByteRange /\ Sound(r)
             /\ r.offset = header.data_offset + expected
             /\ r.offset + r.length <= header.data_offset + (expected + Extent(t))
             /\ Extent(t) \in Nat
<1> DEFINE d == header.data_offset
<1>1. d \in 0 .. MaxSize /\ t.offset \in 0 .. MaxSize /\ t.nbytes \in 0 .. MaxSize
  BY DEF Header, TensorInfo
<1>2. Absolute(t) = d + t.offset /\ d + t.offset \in 0 .. MaxSize
  BY <1>1, CheckedAdd DEF TensorIsValid, RangeIsValid, Absolute
<1>3. d + t.offset + t.nbytes <= MappingSize
  BY <1>1, <1>2, CheckedAdd DEF TensorIsValid, RangeIsValid, Absolute
<1>4. t.nbytes # 0 /\ t.offset = expected /\ Absolute(t) % CpuAlignment = 0
  BY DEF TensorIsValid
<1>5. Extent(t) \in Nat /\ t.nbytes <= Extent(t)
  BY PadCovers
<1> QED
  BY <1>1, <1>2, <1>3, <1>4, <1>5 DEF ByteRange, Sound

(* The planner of leases accepts what was validated. *)
LEMMA SoundIsInMapping ==
  ASSUME NEW r \in ByteRange, Sound(r)
  PROVE  InMapping(r)
<1>1. /\ r.offset \in Nat /\ r.length \in Nat \ {0}
      /\ r.offset + r.length <= MappingSize /\ MappingSize \in Nat /\ MappingSize <= MaxSize
  BY SizeAssumption DEF ByteRange, Sound
<1>2. EndOf(r) = r.offset + r.length
  BY <1>1, SizeAssumption, NoWrap DEF EndOf
<1> QED
  BY <1>1, <1>2, SizeAssumption DEF InMapping, Overflows

(* A borrow more: the ones before it keep their places. *)
LEMMA OneMore ==
  ASSUME NEW S, NEW b \in Seq(S), NEW r \in S
  PROVE  /\ Append(b, r) \in Seq(S)
         /\ DOMAIN Append(b, r) = DOMAIN b \cup {Len(b) + 1}
         /\ Len(Append(b, r)) = Len(b) + 1
         /\ Append(b, r)[Len(b) + 1] = r
         /\ \A i \in DOMAIN b : Append(b, r)[i] = b[i]
         /\ \A i \in DOMAIN b : i \in Nat /\ i < Len(b) + 1
OBVIOUS

(* Sequences have elements, and all but the empty one have some. *)
LEMMA ElementsOf ==
  ASSUME NEW S, NEW b \in Seq(S)
  PROVE  /\ \A i \in DOMAIN b : b[i] \in S /\ i \in Nat
         /\ DOMAIN b = 1 .. Len(b) /\ Len(b) \in Nat
         /\ b # <<>> => Len(b) # 0
OBVIOUS

(* The ranges of a list. *)
LEMMA RangesOf ==
  ASSUME NEW b \in Seq(ByteRange), NEW i \in DOMAIN b
  PROVE  /\ b[i] \in ByteRange /\ i \in Nat
         /\ b[i].offset \in Nat /\ b[i].length \in Nat
<1>1. b[i] \in ByteRange /\ i \in Nat
  BY ElementsOf
<1>2. \A r \in ByteRange : r.offset \in Nat /\ r.length \in Nat
  BY DEF ByteRange
<1> QED
  BY <1>1, <1>2

(* The numbers up to n are n. *)
LEMMA CountBound ==
  ASSUME NEW m \in Nat, NEW n \in 0 .. m
  PROVE  Cardinality(1 .. n) = n
BY FS_Interval

-----------------------------------------------------------------------------
(* The first state. *)
LEMMA InitIInv == MappedInit => IInv
<1> SUFFICES ASSUME MappedInit PROVE IInv
  OBVIOUS
<1> USE DEF MappedInit
<1>1. header \in Header
  BY SizeAssumption DEF NoHeader, Header
<1>2. /\ borrows \in Seq(ByteRange) /\ DOMAIN borrows = {}
      /\ pending \in Seq(ByteRange) /\ protected \in Seq(ByteRange) /\ tokens \in Seq(Int)
  BY DEF Init
<1> QED
  BY <1>1, <1>2 DEF IInv, MappedTypes, BorrowsAreSound, Progress, LeasesAreOfBorrows,
     OnlyLateChangesGoUnseen, Unvalidated, Validated, Published

(* A step that moves on without a change to what was parsed and validated. *)
LEMMA MovingKeepsIInv ==
  ASSUME IInv, NEW from, NEW to, At(from), Reaches(to),
         \/ from \in Unvalidated \ {"closed", "failed"} /\ to \in Unvalidated \ {"closed", "failed"}
         \/ from = "closed" /\ ranges = <<<<>>, <<>>, <<>>>> /\ to = "opened"
         \/ from \in Validated /\ to \in Validated \cup {"binding"}
         \/ from \in {"published", "published_path"} /\ to \in {"published_path", "bound"}
         \/ from = "checking" /\ HeaderIsSound /\ to = "validating"
         \/ from = "validating" /\ Len(borrows) = Len(header.tensors) /\ to = "validated"
         \/ from = "binding" /\ Cardinality(data) = Len(borrows) /\ to = "published"
         \/ from = "bound" /\ to = "ready",
         to = "bound" => file = "same"
  PROVE  IInv'
<1> USE DEF At, Reaches, IInv, MappedTypes, ranges
<1>1. MappedTypes'
  BY DEF Unvalidated, Validated, Published
<1>2. BorrowsAreSound'
  BY DEF BorrowsAreSound, Unvalidated, Validated, Published, HeaderIsSound, PowerOfTwo
<1>3. Progress'
  <2>1. from = "binding" /\ Cardinality(data) = Len(borrows) => data = 1 .. Len(borrows)
    <3> SUFFICES ASSUME from = "binding", Cardinality(data) = Len(borrows)
                 PROVE  data = 1 .. Len(borrows)
      OBVIOUS
    <3>1. PICK n \in 0 .. Len(borrows) : data = 1 .. n
      BY DEF Progress
    <3>2. Cardinality(data) = n
      BY <3>1, CountBound, ElementsOf
    <3> QED
      BY <3>1, <3>2
  <2>2. data = {} => data = 1 .. 0 /\ 0 \in 0 .. Len(borrows)
    OBVIOUS
  <2> QED
    BY <2>1, <2>2 DEF Progress, Unvalidated, Validated, Published
<1>4. LeasesAreOfBorrows'
  <2>1. pending' = <<>> /\ protected' = <<>>
    BY DEF LeasesAreOfBorrows, Unvalidated, Validated
  <2>2. <<>> \in Seq(ByteRange) /\ DOMAIN <<>> = {}
    OBVIOUS
  <2> QED
    BY <2>1, <2>2 DEF LeasesAreOfBorrows
<1>5. OnlyLateChangesGoUnseen'
  BY DEF OnlyLateChangesGoUnseen, Unvalidated, Validated, Published
<1> QED
  BY <1>1, <1>2, <1>3, <1>4, <1>5

(* A preparation that fails leaves nothing behind. *)
LEMMA FailingKeepsIInv ==
  ASSUME IInv, Fails, pc \notin {"closed", "ready"}
  PROVE  IInv'
<1> USE DEF Fails, IInv
<1>1. MappedTypes' /\ DOMAIN borrows' = {}
  BY DEF MappedTypes, Unvalidated, ranges
<1> QED
  BY <1>1 DEF BorrowsAreSound, Progress, LeasesAreOfBorrows, OnlyLateChangesGoUnseen, ranges,
     Unvalidated, Validated, Published

(* A tensor that is accepted lies behind the ones accepted before it. *)
LEMMA ValidatingKeepsIInv ==
  ASSUME IInv, ValidateTensor
  PROVE  IInv'
<1> USE DEF IInv, At
<1> DEFINE n == Len(borrows)
           t == header.tensors[n + 1]
           r == [offset |-> Absolute(t), length |-> t.nbytes]
<1>1. /\ pc = "validating" /\ header \in Header /\ header.alignment # 0 /\ expected \in Nat
      /\ borrows \in Seq(ByteRange) /\ n < Len(header.tensors)
  BY DEF ValidateTensor, MappedTypes, BorrowsAreSound, Unvalidated
<1>2. t \in TensorInfo
  BY <1>1 DEF Header
<1>3. CASE Fails
  BY <1>1, <1>3, FailingKeepsIInv
<1>4. ASSUME TensorIsValid(t), ~ExtentOverflows(t), borrows' = Append(borrows, r),
             expected' = expected + Extent(t),
             UNCHANGED <<ranges, pc, file, late, header, data>>
      PROVE  IInv'
  <2> DEFINE d == header.data_offset
             x == Extent(t)
  <2> HIDE DEF t, d, x
  <2>1. /\ r \in ByteRange /\ Sound(r)
        /\ r.offset = d + expected
        /\ r.offset + r.length <= d + (expected + x)
        /\ x \in Nat /\ d \in Nat
    <3>1. d \in Nat
      BY <1>1 DEF Header, d
    <3> QED
      BY <1>1, <1>2, <1>4, <3>1, ValidTensorIsSound DEF d, x
  <2> HIDE DEF r
  <2>2. /\ borrows' \in Seq(ByteRange) /\ DOMAIN borrows' = DOMAIN borrows \cup {n + 1}
        /\ borrows'[n + 1] = r
        /\ \A i \in DOMAIN borrows : borrows'[i] = borrows[i] /\ i \in Nat /\ i < n + 1
    BY <1>1, <1>4, <2>1, OneMore
  <2>3. expected' = expected + x /\ expected' \in Nat /\ header'.data_offset = d
    BY <1>1, <1>4, <2>1 DEF x, d
  <2>4. \A i \in DOMAIN borrows :
          /\ borrows[i].offset \in Nat /\ borrows[i].length \in Nat
          /\ Sound(borrows[i])
          /\ borrows[i].offset + borrows[i].length <= d + expected
          /\ \A j \in DOMAIN borrows :
               i < j => borrows[i].offset + borrows[i].length <= borrows[j].offset
    <3>1. ASSUME NEW i \in DOMAIN borrows
          PROVE  borrows[i].offset \in Nat /\ borrows[i].length \in Nat
      BY <1>1, RangesOf
    <3> QED
      BY <3>1 DEF BorrowsAreSound, d
  <2>5. MappedTypes'
    BY <1>4, <2>2, <2>3 DEF MappedTypes, ranges
  <2>6. BorrowsAreSound'
    <3>1. pc' = "validating" /\ header'.alignment # 0 /\ header'.tensors # <<>>
      BY <1>1, <1>4 DEF BorrowsAreSound, Unvalidated
    <3>2. ASSUME NEW i \in DOMAIN borrows'
          PROVE  /\ Sound(borrows'[i])
                 /\ borrows'[i].offset + borrows'[i].length <= d + expected'
      <4>1. CASE i = n + 1
        BY <4>1, <2>1, <2>2, <2>3
      <4>2. CASE i \in DOMAIN borrows
        <5>1. /\ Sound(borrows[i]) /\ borrows'[i] = borrows[i]
              /\ borrows[i].offset + borrows[i].length <= d + expected
              /\ borrows[i].offset + borrows[i].length \in Nat
          BY <4>2, <2>2, <2>4
        <5> QED
          BY <5>1, <2>1, <2>3, <1>1
      <4> QED
        BY <2>2, <4>1, <4>2
    <3>3. ASSUME NEW i \in DOMAIN borrows', NEW j \in DOMAIN borrows', i < j
          PROVE  borrows'[i].offset + borrows'[i].length <= borrows'[j].offset
      <4>1. i \in DOMAIN borrows
        BY <2>2, <3>3, <1>1
      <4> QED
        BY <4>1, <2>1, <2>2, <2>4, <3>3
    <3> QED
      BY <2>3, <3>1, <3>2, <3>3 DEF BorrowsAreSound, Unvalidated
  <2>7. Progress' /\ LeasesAreOfBorrows' /\ OnlyLateChangesGoUnseen'
    BY <1>1, <1>4 DEF Progress, LeasesAreOfBorrows, OnlyLateChangesGoUnseen, ranges, Unvalidated,
       Validated, Published
  <2> QED
    BY <2>5, <2>6, <2>7
<1> QED
  BY <1>3, <1>4 DEF ValidateTensor

(* A tensor bound is the next one. *)
LEMMA BindingKeepsIInv ==
  ASSUME IInv, BindTensor
  PROVE  IInv'
<1> USE DEF IInv, BindTensor, At
<1>1. MappedTypes' /\ BorrowsAreSound'
  BY DEF MappedTypes, BorrowsAreSound, ranges
<1>2. \E n \in 0 .. Len(borrows) : data' = 1 .. n
  <2>1. PICK n \in 0 .. Len(borrows) : data = 1 .. n
    BY DEF Progress
  <2>2. Cardinality(data) = n /\ Len(borrows) \in Nat
    BY <2>1, FS_Interval DEF MappedTypes
  <2>3. data' = 1 .. (n + 1) /\ n + 1 \in 0 .. Len(borrows)
    BY <2>1, <2>2
  <2> QED
    BY <2>3
<1>3. Progress'
  BY <1>2 DEF Progress, Unvalidated, Validated, Published
<1>4. LeasesAreOfBorrows' /\ OnlyLateChangesGoUnseen'
  BY DEF LeasesAreOfBorrows, OnlyLateChangesGoUnseen, ranges
<1> QED
  BY <1>1, <1>3, <1>4

(* Every step. *)
LEMMA StepIInv == IInv /\ [MappedNext]_allVars => IInv'
<1> SUFFICES ASSUME IInv, [MappedNext]_allVars PROVE IInv'
  OBVIOUS
<1>1. CASE At("closed") /\ Next /\ UNCHANGED mapped
  <2>1. /\ pending \in Seq(ByteRange) /\ protected \in Seq(ByteRange) /\ tokens \in Seq(Int)
        /\ pc = "closed" /\ UNCHANGED mapped
    BY <1>1 DEF IInv, MappedTypes, At
  <2>2. pending' \in Seq(ByteRange) /\ protected' \in Seq(ByteRange) /\ tokens' \in Seq(Int)
    <3>1. ASSUME NEW b \in Seq(ByteRange), NEW r \in Raw
          PROVE  Append(b, r) \in Seq(ByteRange)
      <4>1. r \in ByteRange
        BY SizeAssumption DEF ByteRange
      <4> QED
        BY <4>1, OneMore
    <3>2. \A id \in TokenId : Append(tokens, id) \in Seq(Int)
      BY <2>1, TensorAssumption
    <3>3. CASE AddPending
      BY <2>1, <3>1, <3>3 DEF AddPending
    <3>4. CASE AddProtected
      BY <2>1, <3>1, <3>4 DEF AddProtected
    <3>5. CASE AddToken
      BY <2>1, <3>2, <3>5 DEF AddToken
    <3> QED
      BY <1>1, <3>3, <3>4, <3>5 DEF Next
  <2>3. MappedTypes'
    BY <2>1, <2>2 DEF IInv, mapped, MappedTypes
  <2> QED
    BY <2>1, <2>3 DEF IInv, mapped, BorrowsAreSound, Progress, LeasesAreOfBorrows,
       OnlyLateChangesGoUnseen, Unvalidated, Validated, Published
<1>2. CASE Open
  BY <1>2, MovingKeepsIInv DEF Open
<1>3. CASE MapFile
  <2>1. CASE Fails
    BY <1>3, <2>1, FailingKeepsIInv DEF MapFile, At
  <2>2. CASE Reaches("mapped")
    BY <1>3, <2>2, MovingKeepsIInv DEF MapFile, Unvalidated
  <2> QED
    BY <1>3, <2>1, <2>2 DEF MapFile
<1>4. CASE ParseMetadata
  <2>1. CASE Fails
    BY <1>4, <2>1, FailingKeepsIInv DEF ParseMetadata, At
  <2>2. ASSUME NEW h \in Headers, header' = h, pc' = "parsed",
               UNCHANGED <<ranges, file, late, expected, borrows, data>>
        PROVE  IInv'
    <3>1. header' \in Header /\ pc = "mapped"
      BY <1>4, <2>2, HeadersAssumption DEF Header, TensorInfo, ParseMetadata, At
    <3>2. MappedTypes'
      BY <2>2, <3>1 DEF IInv, MappedTypes, Unvalidated, ranges
    <3>3. BorrowsAreSound'
      BY <2>2, <3>1 DEF IInv, BorrowsAreSound, Unvalidated
    <3>4. Progress' /\ LeasesAreOfBorrows' /\ OnlyLateChangesGoUnseen'
      BY <2>2, <3>1 DEF IInv, Progress, LeasesAreOfBorrows, OnlyLateChangesGoUnseen, ranges,
         Unvalidated, Validated, Published
    <3> QED
      BY <3>2, <3>3, <3>4 DEF IInv
  <2> QED
    BY <1>4, <2>1, <2>2 DEF ParseMetadata
<1>5. CASE VerifyFd
  <2>1. pc \in {"parsed", "validated", "consumed", "published"}
    BY <1>5 DEF VerifyFd, AfterFd
  <2>2. CASE Fails
    BY <2>1, <2>2, FailingKeepsIInv
  <2>3. CASE Reaches(AfterFd[pc])
    <3>1. \/ pc = "parsed"    /\ AfterFd[pc] = "parsed_path"
          \/ pc = "validated" /\ AfterFd[pc] = "validated_path"
          \/ pc = "consumed"  /\ AfterFd[pc] = "consumed_path"
          \/ pc = "published" /\ AfterFd[pc] = "published_path"
      BY <2>1 DEF AfterFd
    <3> QED
      BY <2>3, <3>1, MovingKeepsIInv DEF At, Unvalidated, Validated
  <2> QED
    BY <1>5, <2>2, <2>3 DEF VerifyFd
<1>6. CASE VerifyPath
  <2>1. pc \in {"parsed_path", "validated_path", "consumed_path", "published_path"}
    BY <1>6 DEF VerifyPath, AfterPath
  <2>2. CASE Fails
    BY <2>1, <2>2, FailingKeepsIInv
  <2>3. CASE file = "same" /\ Reaches(AfterPath[pc])
    <3>1. \/ pc = "parsed_path"    /\ AfterPath[pc] = "checking"
          \/ pc = "validated_path" /\ AfterPath[pc] = "consuming"
          \/ pc = "consumed_path"  /\ AfterPath[pc] = "binding"
          \/ pc = "published_path" /\ AfterPath[pc] = "bound"
      BY <2>1 DEF AfterPath
    <3> QED
      BY <2>3, <3>1, MovingKeepsIInv DEF At, Unvalidated, Validated
  <2> QED
    BY <1>6, <2>2, <2>3 DEF VerifyPath
<1>7. CASE CheckHeader
  <2>1. CASE Fails
    BY <1>7, <2>1, FailingKeepsIInv DEF CheckHeader, At
  <2>2. CASE HeaderIsSound /\ Reaches("validating")
    BY <1>7, <2>2, MovingKeepsIInv DEF CheckHeader
  <2> QED
    BY <1>7, <2>1, <2>2 DEF CheckHeader
<1>8. CASE ValidateTensor
  BY <1>8, ValidatingKeepsIInv
<1>9. CASE FinishValidation
  BY <1>9, MovingKeepsIInv DEF FinishValidation
<1>10. CASE ConsumeMetadata
  <2>1. CASE Fails
    BY <1>10, <2>1, FailingKeepsIInv DEF ConsumeMetadata, At
  <2>2. CASE Reaches("consumed")
    BY <1>10, <2>2, MovingKeepsIInv DEF ConsumeMetadata, Validated
  <2> QED
    BY <1>10, <2>1, <2>2 DEF ConsumeMetadata
<1>11. CASE BindTensor
  BY <1>11, BindingKeepsIInv
<1>12. CASE FinishBinding
  BY <1>12, MovingKeepsIInv DEF FinishBinding
<1>13. CASE BindWeights
  <2>1. CASE Fails
    BY <1>13, <2>1, FailingKeepsIInv DEF BindWeights, At
  <2>2. CASE Reaches("ready")
    BY <1>13, <2>2, MovingKeepsIInv DEF BindWeights
  <2> QED
    BY <1>13, <2>1, <2>2 DEF BindWeights
<1>14. CASE LeaseTensor
  <2>1. PICK i \in DOMAIN borrows :
          \/ pending' = Append(pending, borrows[i]) /\ UNCHANGED protected
          \/ protected' = Append(protected, borrows[i]) /\ UNCHANGED pending
    BY <1>14 DEF LeaseTensor
  <2>2. pc = "ready" /\ borrows \in Seq(ByteRange) /\ borrows[i] \in ByteRange /\ UNCHANGED mapped
    BY <1>14 DEF LeaseTensor, At, IInv, MappedTypes
  <2>3. LeasesAreOfBorrows'
    <3>1. pending \in Seq(ByteRange) /\ protected \in Seq(ByteRange)
      BY DEF IInv, MappedTypes
    <3>2. pending' \in Seq(ByteRange) /\ \A k \in DOMAIN pending' : \E j \in DOMAIN borrows : pending'[k] = borrows[j]
      <4>1. \A k \in DOMAIN pending : \E j \in DOMAIN borrows : pending[k] = borrows[j]
        BY <2>2 DEF IInv, LeasesAreOfBorrows
      <4>2. CASE pending' = pending
        BY <3>1, <4>1, <4>2
      <4>3. CASE pending' = Append(pending, borrows[i])
        BY <2>2, <3>1, <4>1, <4>3, OneMore
      <4> QED
        BY <2>1, <4>2, <4>3
    <3>3. protected' \in Seq(ByteRange) /\ \A k \in DOMAIN protected' : \E j \in DOMAIN borrows : protected'[k] = borrows[j]
      <4>1. \A k \in DOMAIN protected : \E j \in DOMAIN borrows : protected[k] = borrows[j]
        BY <2>2 DEF IInv, LeasesAreOfBorrows
      <4>2. CASE protected' = protected
        BY <3>1, <4>1, <4>2
      <4>3. CASE protected' = Append(protected, borrows[i])
        BY <2>2, <3>1, <4>1, <4>3, OneMore
      <4> QED
        BY <2>1, <4>2, <4>3
    <3> QED
      BY <2>2, <3>2, <3>3 DEF LeasesAreOfBorrows, mapped
  <2>4. pending' \in Seq(ByteRange) /\ protected' \in Seq(ByteRange) /\ UNCHANGED tokens
    <3>1. pending \in Seq(ByteRange) /\ protected \in Seq(ByteRange)
      BY DEF IInv, MappedTypes
    <3>2. UNCHANGED tokens
      BY <1>14 DEF LeaseTensor
    <3>3. \A b \in Seq(ByteRange) : Append(b, borrows[i]) \in Seq(ByteRange)
      BY <2>2, OneMore
    <3> QED
      BY <2>1, <2>2, <3>1, <3>2, <3>3
  <2> QED
    BY <2>2, <2>3, <2>4 DEF IInv, mapped, MappedTypes, BorrowsAreSound, Progress, OnlyLateChangesGoUnseen
<1>15. CASE FileChanges
  BY <1>15 DEF FileChanges, IInv, MappedTypes, BorrowsAreSound, Progress, LeasesAreOfBorrows,
     OnlyLateChangesGoUnseen, ranges
<1>16. CASE UNCHANGED allVars
  BY <1>16 DEF allVars, ranges, mapped, IInv, MappedTypes, BorrowsAreSound, Progress,
     LeasesAreOfBorrows, OnlyLateChangesGoUnseen
<1> QED
  BY <1>1, <1>2, <1>3, <1>4, <1>5, <1>6, <1>7, <1>8, <1>9, <1>10, <1>11, <1>12, <1>13, <1>14,
     <1>15, <1>16 DEF MappedNext

(* IInv holds throughout. *)
LEMMA Inductive == MappedSpec => []IInv
BY InitIInv, StepIInv, PTL DEF MappedSpec

-----------------------------------------------------------------------------
(* When the model is ready, what its tensors point to lies in the file and *)
(* nowhere twice, aligned, and leases of it are planned without an error.  *)
THEOREM TensorsAreLeasable == MappedSpec => []ValidatedTensorsAreLeasable
<1>1. IInv => ValidatedTensorsAreLeasable
  <2> SUFFICES ASSUME IInv, pc = "ready" PROVE ValidatedTensorsAreLeasable
    BY DEF ValidatedTensorsAreLeasable
  <2>1. /\ borrows \in Seq(ByteRange) /\ Len(borrows) = Len(header.tensors)
        /\ header.tensors # <<>> /\ header.tensors \in Seq(TensorInfo)
        /\ data = 1 .. Len(borrows)
    BY DEF IInv, MappedTypes, BorrowsAreSound, Progress, Header, Unvalidated, Published
  <2>2. data = DOMAIN borrows /\ data # {}
    <3>1. DOMAIN borrows = 1 .. Len(borrows) /\ Len(borrows) \in Nat \ {0}
      BY <2>1, ElementsOf
    <3> QED
      BY <2>1, <3>1
  <2>3. \A i \in DOMAIN borrows :
          /\ borrows[i] \in ByteRange /\ Sound(borrows[i]) /\ i \in Nat
          /\ borrows[i].offset \in Nat /\ borrows[i].length \in Nat
          /\ \A j \in DOMAIN borrows :
               i < j => borrows[i].offset + borrows[i].length <= borrows[j].offset
    BY <2>1, RangesOf DEF IInv, BorrowsAreSound
  <2>4. ASSUME NEW i \in data
        PROVE  /\ Bytes(borrows[i]) # {} /\ Bytes(borrows[i]) \subseteq 0 .. MappingSize - 1
               /\ borrows[i].offset % CpuAlignment = 0
    <3>1. /\ borrows[i].offset \in Nat /\ borrows[i].length \in Nat \ {0}
          /\ borrows[i].offset + borrows[i].length <= MappingSize
          /\ borrows[i].offset % CpuAlignment = 0
      BY <2>2, <2>3 DEF Sound
    <3>2. borrows[i].offset \in Bytes(borrows[i])
      BY <3>1 DEF Bytes
    <3> QED
      BY <3>1, <3>2, SizeAssumption DEF Bytes
  <2>5. ASSUME NEW i \in data, NEW j \in data, i # j
        PROVE  Bytes(borrows[i]) \cap Bytes(borrows[j]) = {}
    <3>1. i < j \/ j < i
      BY <2>2, <2>3, <2>5
    <3> QED
      BY <2>2, <2>3, <3>1 DEF Bytes
  <2>6. Accepted(pending) /\ Accepted(protected)
    BY <2>3, SoundIsInMapping DEF Accepted, IInv, LeasesAreOfBorrows
  <2> QED
    BY <2>2, <2>4, <2>5, <2>6 DEF ValidatedTensorsAreLeasable
<1> QED
  BY <1>1, Inductive, PTL

(* A model is bound only to a file that no one had changed by then.        *)
THEOREM ChangesAreSeenUntilBound == MappedSpec => []OnlyLateChangesGoUnseen
<1>1. IInv => OnlyLateChangesGoUnseen
  BY DEF IInv
<1> QED
  BY <1>1, Inductive, PTL

(* The pages a plan names are exactly those the ranges of the leases       *)
(* touch, whole, in order and inside the file.                             *)
THEOREM PlansAreExact == MappedSpec => []PlanIsExact
<1>1. IInv => PlanIsExact
  BY PlanExact DEF IInv, MappedTypes
<1> QED
  BY <1>1, Inductive, PTL

(* A release drops every page of its region that nobody protects, and no   *)
(* byte of another.                                                        *)
THEOREM ReleasesAreExact == MappedSpec => []ReleaseIsExact
<1>1. IInv => ReleaseIsExact
  BY ReleaseExact DEF IInv, MappedTypes
<1> QED
  BY <1>1, Inductive, PTL

(* The rows of the tokens are leased to the last byte, and no page without *)
(* a row.                                                                  *)
THEOREM RowsStayLeased == MappedSpec => []RowsAreLeased
<1>1. IInv => RowsAreLeased
  BY RowsExact DEF IInv, MappedTypes
<1> QED
  BY <1>1, Inductive, PTL
=============================================================================
