---------------------------- MODULE CommonFacts ----------------------------
(***************************************************************************)
(* What the proofs need to know of the operators the models use: division, *)
(* folds, sorting, concatenation and the enumeration of a set.             *)
(*                                                                         *)
(* The provers do not instantiate an induction theorem whose parameter is  *)
(* an operator.  Induction is therefore stated with a set, the numbers     *)
(* for which a formula holds.                                              *)
(***************************************************************************)
EXTENDS Integers, SequencesExt, FiniteSetTheorems, TLAPS

-----------------------------------------------------------------------------
(* Division by a size. *)
LEMMA Quotient ==
  ASSUME NEW d \in Nat \ {0}, NEW b \in Nat
  PROVE  /\ b \div d \in Nat
         /\ b % d \in 0 .. d - 1
         /\ b = d * (b \div d) + (b % d)
OBVIOUS

(* The multiples of a size are that far apart. *)
LEMMA Monotone ==
  ASSUME NEW d \in Nat \ {0}, NEW p \in Int, NEW q \in Int, p < q
  PROVE  d * p + d <= d * q
<1> DEFINE k == q - p - 1
<1>1. k \in Nat /\ q = p + k + 1
  OBVIOUS
<1>2. d * k \in Nat
  BY <1>1
<1>3. d * q = d * p + d * k + d
  BY <1>1
<1> QED
  BY <1>2, <1>3

(* A quotient is known by the multiples around the number. *)
LEMMA QuotientIs ==
  ASSUME NEW d \in Nat \ {0}, NEW b \in Nat, NEW p \in Int
  PROVE  (b \div d = p) <=> (d * p <= b /\ b < d * p + d)
<1> DEFINE q == b \div d
<1>1. q \in Nat /\ d * q <= b /\ b < d * q + d
  BY Quotient
<1> HIDE DEF q
<1>2. p < q => d * p + d <= d * q
  BY <1>1, Monotone
<1>3. q < p => d * q + d <= d * p
  BY <1>1, Monotone
<1>4. d * p \in Int /\ d * q \in Int
  BY <1>1
<1>5. ASSUME d * p <= b, b < d * p + d
      PROVE  q = p
  BY <1>1, <1>2, <1>3, <1>4, <1>5
<1> QED
  BY <1>1, <1>5 DEF q

(* No remainder: a multiple. *)
LEMMA MultipleOf ==
  ASSUME NEW d \in Nat \ {0}, NEW b \in Nat
  PROVE  (b % d = 0) <=> (\E p \in Nat : b = d * p)
<1>1. ASSUME NEW p \in Nat, b = d * p
      PROVE  b % d = 0
  <2>1. b \div d = p
    BY <1>1, QuotientIs
  <2> QED
    BY <1>1, <2>1, Quotient
<1>2. b % d = 0 => b = d * (b \div d) /\ b \div d \in Nat
  BY Quotient
<1> QED
  BY <1>1, <1>2

(* A cell of a table of rows of d cells knows its row and its place. *)
LEMMA CellOf ==
  ASSUME NEW d \in Nat \ {0}, NEW row \in Nat, NEW place \in 0 .. d - 1
  PROVE  /\ d * row \in Nat
         /\ (place + d * row) \div d = row
         /\ (place + d * row) % d = place
<1> DEFINE c == place + d * row
<1>1. d * row \in Nat
  OBVIOUS
<1>2. c \in Nat /\ d * row <= c /\ c < d * row + d
  BY <1>1
<1> HIDE DEF c
<1>3. c \div d = row
  BY <1>2, QuotientIs
<1>4. c = d * row + (c % d) /\ c % d \in 0 .. d - 1
  BY <1>2, <1>3, Quotient
<1>5. c = place + d * row
  BY DEF c
<1>6. c % d = place
  BY <1>1, <1>4, <1>5
<1> QED
  BY <1>1, <1>3, <1>6 DEF c

(* ... and lies in the table. *)
LEMMA CellInTable ==
  ASSUME NEW d \in Nat \ {0}, NEW rows \in Nat, NEW row \in 0 .. rows - 1, NEW place \in 0 .. d - 1
  PROVE  place + d * row \in 0 .. (d * rows) - 1
<1>1. d * row + d <= d * rows
  BY Monotone
<1>2. d * row \in Nat /\ d * rows \in Nat
  OBVIOUS
<1> QED
  BY <1>1, <1>2

-----------------------------------------------------------------------------
(* A set of numbers that is not empty has a least one: the intervals that  *)
(* end at its members are finite and ordered by inclusion.                 *)
LEMMA LeastElement ==
  ASSUME NEW T \in SUBSET Nat, T # {}
  PROVE  \E x \in T : \A y \in T : x <= y
<1> DEFINE R == StrictSubsetOrdering(Nat)
           D == {0 .. n : n \in T}
<1>1. IsWellFoundedOn(R, FiniteSubsetsOf(Nat))
  BY FS_StrictSubsetOrderingWellFounded
<1>2. D \subseteq FiniteSubsetsOf(Nat) /\ D # {}
  <2>1. \A n \in Nat : 0 .. n \in SUBSET Nat /\ IsFiniteSet(0 .. n)
    BY FS_Interval
  <2> QED
    BY <2>1 DEF FiniteSubsetsOf
<1>3. PICK X \in D : \A Y \in D : <<Y, X>> \notin R
  <2> HIDE DEF D, R
  <2> QED
    BY <1>1, <1>2, WFMin, Zenon
<1>4. PICK x \in T : X = 0 .. x
  OBVIOUS
<1>5. ASSUME NEW y \in T, ~(x <= y)
      PROVE  FALSE
  <2>1. x \in 0 .. x /\ x \notin 0 .. y
    BY <1>5
  <2>2. 0 .. y \subseteq 0 .. x
    BY <1>5
  <2>3. 0 .. y \in SUBSET Nat /\ 0 .. x \in SUBSET Nat
    OBVIOUS
  <2>4. <<0 .. y, 0 .. x>> \in R
    BY <2>1, <2>2, <2>3 DEF StrictSubsetOrdering
  <2> QED
    BY <1>3, <1>4, <2>4
<1> QED
  BY <1>5

(* Induction up to a number, over a set. *)
LEMMA Induction ==
  ASSUME NEW n \in Nat, NEW A, 0 \in A,
         \A k \in 0 .. n - 1 : k \in A => k + 1 \in A
  PROVE  0 .. n \subseteq A
<1> DEFINE T == {k \in 0 .. n : k \notin A}
<1>1. SUFFICES ASSUME T # {}
               PROVE  FALSE
  OBVIOUS
<1>2. PICK x \in T : \A y \in T : x <= y
  <2>1. T \in SUBSET Nat
    OBVIOUS
  <2> HIDE DEF T
  <2> QED
    BY <1>1, <2>1, LeastElement
<1>3. x # 0
  OBVIOUS
<1>4. x - 1 \in 0 .. n - 1 /\ x - 1 \notin T
  BY <1>2, <1>3
<1> QED
  BY <1>4

(* The largest of a set of indexes. *)
LEMMA MaxOfIndexes ==
  ASSUME NEW n \in Nat, NEW s \in SUBSET (1 .. n), s # {}
  PROVE  Max(s) \in s /\ \A y \in s : Max(s) >= y
<1> DEFINE T == {k \in 0 .. n : \A y \in s : k >= y}
<1>1. n \in T
  OBVIOUS
<1>2. PICK x \in T : \A y \in T : x <= y
  <2>1. T \in SUBSET Nat /\ T # {}
    BY <1>1
  <2> HIDE DEF T
  <2> QED
    BY <2>1, LeastElement
<1>3. x \in s
  <2>1. SUFFICES ASSUME x \notin s
                 PROVE  FALSE
    OBVIOUS
  <2>2. x # 0
    <3>1. PICK y \in s : TRUE
      OBVIOUS
    <3>2. x >= y /\ y >= 1
      BY <1>2, <3>1
    <3> QED
      BY <3>2
  <2>3. x - 1 \in T
    BY <2>1, <2>2
  <2> QED
    BY <1>2, <2>3
<1> QED
  BY <1>3 DEF Max

(* A sequence without its last element, and that element. *)
LEMMA FrontAndLast ==
  ASSUME NEW S, NEW u \in Seq(S), u # <<>>
  PROVE  /\ Len(u) \in Nat \ {0}
         /\ Last(u) \in S /\ Last(u) = u[Len(u)]
         /\ Front(u) \in Seq(S) /\ Len(Front(u)) = Len(u) - 1
         /\ \A i \in 1 .. Len(u) - 1 : Front(u)[i] = u[i]
<1>1. Len(u) \in Nat \ {0} /\ Len(u) \in 1 .. Len(u) /\ u \in [1 .. Len(u) -> S]
  OBVIOUS
<1>2. \A i \in 1 .. Len(u) : u[i] \in S
  BY <1>1
<1> QED
  BY <1>1, <1>2 DEF Front, Last

(* The recursion of FoldLeft over the first n elements, its operator being *)
(* the function h.                                                         *)
Folding(n, f, base, h, seq) ==
  \A s \in SUBSET (1 .. n) :
    f[s] = IF s = {} THEN base ELSE h[<<f[s \ {Max(s)}], seq[Max(s)]>>]

(* What FoldLeft chooses exists, where its operator is a function on its   *)
(* results and the elements.                                               *)
LEMMA FoldExists ==
  ASSUME NEW n \in Nat, NEW S, NEW E, NEW base \in S,
         NEW seq \in [1 .. n -> E], NEW h \in [S \X E -> S]
  PROVE  \E f \in [SUBSET (1 .. n) -> S] : Folding(n, f, base, h, seq)
<1> DEFINE Fold(k, f) == Folding(k, f, base, h, seq)
           A == {k \in 0 .. n : \E f \in [SUBSET (1 .. k) -> S] : Fold(k, f)}
<1>1. 0 \in A
  <2> DEFINE f == [s \in SUBSET (1 .. 0) |-> base]
  <2>1. SUBSET (1 .. 0) = {{}}
    <3>1. 1 .. 0 = {}
      OBVIOUS
    <3> QED
      BY <3>1
  <2>2. f \in [SUBSET (1 .. 0) -> S] /\ Fold(0, f)
    BY <2>1 DEF Folding
  <2>3. \E g \in [SUBSET (1 .. 0) -> S] : Fold(0, g)
    <3> HIDE DEF f, Fold
    <3> QED
      BY <2>2
  <2>4. 0 \in 0 .. n
    OBVIOUS
  <2> HIDE DEF f, Fold
  <2> QED
    BY <2>3, <2>4, Zenon
<1>2. ASSUME NEW k \in 0 .. n - 1, k \in A
      PROVE  k + 1 \in A
  <2>1. PICK f \in [SUBSET (1 .. k) -> S] : Fold(k, f)
    BY <1>2
  <2> DEFINE g == [s \in SUBSET (1 .. k + 1) |->
                     IF k + 1 \in s THEN h[<<f[s \ {k + 1}], seq[k + 1]>>] ELSE f[s]]
  <2>2. \A s \in SUBSET (1 .. k + 1) :
          /\ k + 1 \notin s => s \in SUBSET (1 .. k)
          /\ s \ {k + 1} \in SUBSET (1 .. k)
    OBVIOUS
  <2>3. g \in [SUBSET (1 .. k + 1) -> S]
    <3>1. k + 1 \in 1 .. n /\ seq[k + 1] \in E
      OBVIOUS
    <3>2. ASSUME NEW s \in SUBSET (1 .. k + 1)
          PROVE  (IF k + 1 \in s THEN h[<<f[s \ {k + 1}], seq[k + 1]>>] ELSE f[s]) \in S
      BY <2>2, <3>1
    <3> QED
      BY <3>2
  <2>4. ASSUME NEW s \in SUBSET (1 .. k + 1), s # {}
        PROVE  g[s] = h[<<g[s \ {Max(s)}], seq[Max(s)]>>]
    <3>1. Max(s) \in s /\ \A y \in s : Max(s) >= y
      <4>1. k + 1 \in Nat
        OBVIOUS
      <4> HIDE DEF g, Fold
      <4> QED
        BY <2>4, <4>1, MaxOfIndexes
    <3>2. CASE k + 1 \in s
      <4>1. Max(s) = k + 1
        <5>1. Max(s) \in 1 .. k + 1 /\ Max(s) >= k + 1
          BY <3>1, <3>2
        <5> QED
          BY <5>1
      <4>2. g[s \ {k + 1}] = f[s \ {k + 1}]
        BY <2>2
      <4> QED
        BY <3>2, <4>1, <4>2
    <3>3. CASE k + 1 \notin s
      <4>1. s \in SUBSET (1 .. k) /\ s \ {Max(s)} \in SUBSET (1 .. k)
        BY <2>2, <3>3
      <4>2. g[s] = f[s] /\ g[s \ {Max(s)}] = f[s \ {Max(s)}]
        BY <3>3, <4>1
      <4> QED
        BY <2>1, <2>4, <4>1, <4>2 DEF Folding
    <3> QED
      BY <3>2, <3>3
  <2>5. g[{}] = base
    <3>1. {} \in SUBSET (1 .. k) /\ {} \in SUBSET (1 .. k + 1)
      OBVIOUS
    <3>2. g[{}] = f[{}]
      BY <3>1
    <3> QED
      BY <2>1, <3>1, <3>2 DEF Folding
  <2>6. Fold(k + 1, g)
    <3> HIDE DEF g
    <3> QED
      BY <2>4, <2>5 DEF Folding
  <2> HIDE DEF g, Fold
  <2> QED
    BY <2>3, <2>6
<1>3. n \in A
  <2>1. \A k \in 0 .. n - 1 : k \in A => k + 1 \in A
    BY <1>2
  <2> HIDE DEF A
  <2>2. 0 .. n \subseteq A
    BY <1>1, <2>1, Induction
  <2> QED
    BY <2>2
<1> QED
  BY <1>3

(* A finite order of a sequence's elements has a permutation that sorts    *)
(* it: each element is inserted before the first that it precedes.         *)
LEMMA SortExists ==
  ASSUME NEW n \in Nat, NEW E, NEW s \in [1 .. n -> E], NEW R,
         \A a, b \in E : <<a, b>> \in R => <<b, a>> \notin R,
         \A a, b, c \in E : <<a, b>> \notin R /\ <<b, c>> \notin R => <<a, c>> \notin R
  PROVE  \E p \in Bijection(1 .. n, 1 .. n) :
           \A i, j \in 1 .. n : i < j => <<s[p[j]], s[p[i]]>> \notin R
<1> DEFINE Sorts(k, p) == \A i, j \in 1 .. k : i < j => <<s[p[j]], s[p[i]]>> \notin R
           Permutes(k, p) ==
             /\ p \in [1 .. k -> 1 .. k]
             /\ \A i, j \in 1 .. k : p[i] = p[j] => i = j
             /\ \A v \in 1 .. k : \E i \in 1 .. k : p[i] = v
           A == {k \in 0 .. n : \E p : Permutes(k, p) /\ Sorts(k, p)}
<1>1. 0 \in A
  <2> DEFINE p == [i \in 1 .. 0 |-> i]
  <2>1. 1 .. 0 = {}
    OBVIOUS
  <2>2. Permutes(0, p) /\ Sorts(0, p)
    BY <2>1
  <2>3. 0 \in 0 .. n
    OBVIOUS
  <2> HIDE DEF p, Permutes, Sorts
  <2> QED
    BY <2>2, <2>3
<1>2. ASSUME NEW k \in 0 .. n - 1, k \in A
      PROVE  k + 1 \in A
  <2>1. PICK p : Permutes(k, p) /\ Sorts(k, p)
    BY <1>2
  <2> DEFINE x == s[k + 1]
             T == {i \in 1 .. k : <<x, s[p[i]]>> \in R}
  <2>0. \A v \in 1 .. k : p[v] \in 1 .. k /\ p[v] \in 1 .. n /\ p[v] # k + 1
    BY <2>1
  <2>2. x \in E /\ \A i \in 1 .. k : s[p[i]] \in E
    <3>1. k + 1 \in 1 .. n
      OBVIOUS
    <3> QED
      BY <2>0, <3>1
  <2>3. PICK at \in 1 .. k + 1 :
          /\ \A i \in 1 .. k : i < at => <<x, s[p[i]]>> \notin R
          /\ at # k + 1 => <<x, s[p[at]]>> \in R
    <3>1. CASE T = {}
      <4>1. \A i \in 1 .. k : <<x, s[p[i]]>> \notin R
        BY <3>1
      <4>2. k + 1 \in 1 .. k + 1
        OBVIOUS
      <4> HIDE DEF T, x
      <4> QED
        BY <4>1, <4>2
    <3>2. CASE T # {}
      <4>1. T \in SUBSET Nat
        OBVIOUS
      <4>2. PICK l \in T : \A y \in T : l <= y
        <5> HIDE DEF T
        <5> QED
          BY <3>2, <4>1, LeastElement
      <4>3. l \in 1 .. k + 1 /\ <<x, s[p[l]]>> \in R
        OBVIOUS
      <4>4. \A i \in 1 .. k : i < l => <<x, s[p[i]]>> \notin R
        BY <4>2
      <4> HIDE DEF T, x
      <4> QED
        BY <4>3, <4>4
    <3> QED
      BY <3>1, <3>2
  <2> DEFINE q == [i \in 1 .. k + 1 |->
                     IF i < at THEN p[i] ELSE IF i = at THEN k + 1 ELSE p[i - 1]]
  <2>4. \A i \in 1 .. k + 1 :
          /\ i < at => i \in 1 .. k /\ q[i] = p[i]
          /\ i = at => q[i] = k + 1
          /\ i > at => i - 1 \in 1 .. k /\ q[i] = p[i - 1]
    OBVIOUS
  <2> HIDE DEF q
  <2>5. Permutes(k + 1, q)
    <3>0. k \in Nat /\ at \in 1 .. k + 1
      OBVIOUS
    <3>1. q \in [1 .. k + 1 -> 1 .. k + 1]
      <4>1. ASSUME NEW i \in 1 .. k + 1
            PROVE  q[i] \in 1 .. k + 1
        <5>1. CASE i < at
          BY <2>0, <2>4, <5>1
        <5>2. CASE i = at
          BY <2>4, <5>2
        <5>3. CASE i > at
          BY <2>0, <2>4, <5>3
        <5> QED
          BY <3>0, <5>1, <5>2, <5>3
      <4> QED
        BY <4>1 DEF q
    <3>2. ASSUME NEW i \in 1 .. k + 1, NEW j \in 1 .. k + 1, q[i] = q[j]
          PROVE  i = j
      <4>1. CASE i = at \/ j = at
        BY <2>0, <2>4, <3>0, <3>2, <4>1
      <4>2. CASE i < at /\ j < at
        BY <2>1, <2>4, <3>2, <4>2
      <4>3. CASE i > at /\ j > at
        <5>1. i - 1 = j - 1
          BY <2>1, <2>4, <3>2, <4>3
        <5> QED
          BY <5>1
      <4>4. ASSUME NEW a \in 1 .. k + 1, NEW b \in 1 .. k + 1, q[a] = q[b]
            PROVE  ~(a < at /\ b > at)
        <5>1. SUFFICES ASSUME a < at, b > at
                       PROVE  FALSE
          OBVIOUS
        <5>2. a \in 1 .. k /\ b - 1 \in 1 .. k /\ p[a] = p[b - 1]
          BY <2>4, <4>4, <5>1
        <5>3. a = b - 1
          BY <2>1, <5>2
        <5> QED
          BY <5>1, <5>3, <3>0
      <4>5. ~(i < at /\ j > at) /\ ~(j < at /\ i > at)
        BY <3>2, <4>4
      <4> QED
        BY <3>0, <4>1, <4>2, <4>3, <4>5
    <3>3. ASSUME NEW v \in 1 .. k + 1
          PROVE  \E i \in 1 .. k + 1 : q[i] = v
      <4>1. CASE v = k + 1
        BY <2>4, <4>1
      <4>2. CASE v # k + 1
        <5>1. PICK i \in 1 .. k : p[i] = v
          BY <2>1, <4>2
        <5>2. i < at => i \in 1 .. k + 1 /\ q[i] = v
          BY <2>4, <5>1
        <5>3. i >= at => i + 1 \in 1 .. k + 1 /\ q[i + 1] = v
          BY <2>4, <5>1
        <5> QED
          BY <3>0, <5>2, <5>3
      <4> QED
        BY <4>1, <4>2
    <3> QED
      BY <3>1, <3>2, <3>3
  <2>6. Sorts(k + 1, q)
    <3>1. SUFFICES ASSUME NEW i \in 1 .. k + 1, NEW j \in 1 .. k + 1, i < j
                   PROVE  <<s[q[j]], s[q[i]]>> \notin R
      OBVIOUS
    <3>0. at \in 1 .. k + 1 /\ k \in Nat
      OBVIOUS
    <3>2. CASE j < at
      <4>1. i < at /\ i \in 1 .. k /\ j \in 1 .. k
        BY <3>0, <3>1, <3>2
      <4> QED
        BY <2>1, <2>4, <3>1, <3>2, <4>1
    <3>3. CASE j = at
      BY <2>3, <2>4, <3>1, <3>3
    <3>4. CASE i < at /\ j > at
      <4>1. i \in 1 .. k /\ j - 1 \in 1 .. k /\ i < j - 1
        BY <3>1, <3>4
      <4> QED
        BY <2>1, <2>4, <3>4, <4>1
    <3>5. CASE i = at
      <4>1. at \in 1 .. k /\ j - 1 \in 1 .. k /\ at <= j - 1
        BY <3>1, <3>5
      <4>2. <<s[p[at]], x>> \notin R
        BY <2>2, <2>3, <4>1
      <4>3. <<s[p[j - 1]], s[p[at]]>> \notin R
        <5>1. CASE at = j - 1
          BY <2>2, <4>1, <5>1
        <5>2. CASE at < j - 1
          BY <2>1, <4>1, <5>2
        <5> QED
          BY <4>1, <5>1, <5>2
      <4>4. <<s[p[j - 1]], x>> \notin R
        BY <2>2, <4>1, <4>2, <4>3
      <4> QED
        BY <2>4, <3>1, <3>5, <4>4
    <3>6. CASE i > at
      <4>1. i - 1 \in 1 .. k /\ j - 1 \in 1 .. k /\ i - 1 < j - 1 /\ j > at
        BY <3>1, <3>6
      <4>2. q[i] = p[i - 1] /\ q[j] = p[j - 1]
        BY <2>4, <3>1, <3>6, <4>1
      <4> QED
        BY <2>1, <4>1, <4>2
    <3> QED
      BY <3>1, <3>2, <3>3, <3>4, <3>5, <3>6
  <2> HIDE DEF Permutes, Sorts
  <2> QED
    BY <2>5, <2>6
<1>3. \E p : Permutes(n, p) /\ Sorts(n, p)
  <2>1. \A k \in 0 .. n - 1 : k \in A => k + 1 \in A
    BY <1>2
  <2>2. 0 .. n \subseteq A
    <3> HIDE DEF A
    <3> QED
      BY <1>1, <2>1, Induction
  <2>3. n \in A
    <3> HIDE DEF A
    <3> QED
      BY <2>2
  <2> HIDE DEF Permutes, Sorts
  <2> QED
    BY <2>3
<1>4. ASSUME NEW p, Permutes(n, p)
      PROVE  p \in Bijection(1 .. n, 1 .. n)
  BY <1>4 DEF Bijection, Injection, Surjection, IsInjective
<1> QED
  BY <1>3, <1>4

(* FlattenSeq concatenates one sequence after the other. *)
LEMMA Flattening ==
  ASSUME NEW S, NEW ss \in Seq(Seq(S))
  PROVE  \E t \in [0 .. Len(ss) -> Seq(S)] :
           /\ t[0] = <<>>
           /\ \A k \in 1 .. Len(ss) : t[k] = t[k - 1] \o ss[k]
           /\ FlattenSeq(ss) = t[Len(ss)]
<1> DEFINE n == Len(ss)
           Flat(k, f) == \A i \in 1 .. k : f[i] = IF i = 1 THEN ss[i] ELSE f[i - 1] \o ss[i]
           A == {k \in 0 .. n : \E f \in [1 .. k -> Seq(S)] : Flat(k, f)}
<1>0. n \in Nat /\ ss \in [1 .. n -> Seq(S)]
  OBVIOUS
<1>1. \A k \in 1 .. n : ss[k] \in Seq(S)
  BY <1>0
<1> HIDE DEF n
<1>2. 0 \in A
  <2> DEFINE f == [i \in 1 .. 0 |-> ss[i]]
  <2>1. f \in [1 .. 0 -> Seq(S)] /\ Flat(0, f)
    OBVIOUS
  <2>2. 0 \in 0 .. n
    BY <1>0
  <2> HIDE DEF f, Flat
  <2> QED
    BY <2>1, <2>2
<1>3. ASSUME NEW k \in 0 .. n - 1, k \in A
      PROVE  k + 1 \in A
  <2>1. PICK f \in [1 .. k -> Seq(S)] : Flat(k, f)
    BY <1>3
  <2> DEFINE g == [i \in 1 .. k + 1 |->
                     IF i <= k THEN f[i] ELSE IF i = 1 THEN ss[i] ELSE f[i - 1] \o ss[i]]
  <2>2. g \in [1 .. k + 1 -> Seq(S)]
    <3>1. ASSUME NEW i \in 1 .. k + 1
          PROVE  g[i] \in Seq(S)
      <4>1. ss[i] \in Seq(S)
        BY <1>0, <1>1
      <4>2. i > k /\ i # 1 => f[i - 1] \in Seq(S)
        BY <1>0
      <4>3. \A u, v \in Seq(S) : u \o v \in Seq(S)
        OBVIOUS
      <4> QED
        BY <4>1, <4>2, <4>3
    <3> QED
      BY <3>1
  <2>3. Flat(k + 1, g)
    <3>1. ASSUME NEW i \in 1 .. k + 1
          PROVE  g[i] = IF i = 1 THEN ss[i] ELSE g[i - 1] \o ss[i]
      <4>1. i # 1 => i - 1 \in 1 .. k /\ g[i - 1] = f[i - 1]
        BY <1>0
      <4>2. CASE i <= k
        <5>1. i \in 1 .. k /\ g[i] = f[i]
          BY <1>0, <4>2
        <5> QED
          BY <2>1, <4>1, <5>1
      <4>3. CASE ~(i <= k)
        BY <4>1, <4>3
      <4> QED
        BY <4>2, <4>3
    <3> HIDE DEF g
    <3> QED
      BY <3>1
  <2>4. k + 1 \in 0 .. n
    BY <1>0
  <2> HIDE DEF g, Flat
  <2> QED
    BY <2>2, <2>3, <2>4
<1>4. PICK f \in [1 .. n -> Seq(S)] : Flat(n, f)
  <2>1. \A k \in 0 .. n - 1 : k \in A => k + 1 \in A
    BY <1>3
  <2>2. 0 .. n \subseteq A
    <3> HIDE DEF A
    <3> QED
      BY <1>0, <1>2, <2>1, Induction
  <2>3. n \in A
    <3> HIDE DEF A
    <3> QED
      BY <1>0, <2>2
  <2> HIDE DEF Flat
  <2> QED
    BY <2>3
<1> DEFINE g == CHOOSE g : g = [i \in 1 .. n |-> IF i = 1 THEN ss[i] ELSE g[i - 1] \o ss[i]]
           t == [k \in 0 .. n |-> IF k = 0 THEN <<>> ELSE g[k]]
<1>5. FlattenSeq(ss) = IF n = 0 THEN ss ELSE g[n]
  BY DEF FlattenSeq, n
<1>6. g = [i \in 1 .. n |-> IF i = 1 THEN ss[i] ELSE g[i - 1] \o ss[i]]
  <2>1. f = [i \in 1 .. n |-> IF i = 1 THEN ss[i] ELSE f[i - 1] \o ss[i]]
    BY <1>4
  <2> QED
    BY <2>1
<1> HIDE DEF g
<1>7. ASSUME NEW k \in 1 .. n
      PROVE  t[k] = t[k - 1] \o ss[k]
  <2>1. CASE k = 1
    <3>1. t[k] = ss[k] /\ t[k - 1] = <<>>
      BY <1>0, <1>6, <2>1
    <3>2. \A u \in Seq(S) : <<>> \o u = u
      OBVIOUS
    <3> QED
      BY <1>1, <3>1, <3>2
  <2>2. CASE k # 1
    <3>1. k - 1 \in 1 .. n /\ t[k] = g[k] /\ t[k - 1] = g[k - 1]
      BY <1>0, <2>2
    <3> QED
      BY <1>6, <2>2, <3>1
  <2> QED
    BY <2>1, <2>2
<1>8. t \in [0 .. n -> Seq(S)]
  <2> DEFINE B == {k \in 0 .. n : t[k] \in Seq(S)}
  <2>1. 0 \in B
    BY <1>0
  <2>2. ASSUME NEW k \in 0 .. n - 1, k \in B
        PROVE  k + 1 \in B
    <3>1. PICK j \in 1 .. n : j = k + 1 /\ j - 1 = k
      BY <1>0
    <3>2. t[j] = t[k] \o ss[j] /\ ss[j] \in Seq(S) /\ t[k] \in Seq(S)
      BY <1>1, <1>7, <2>2, <3>1
    <3>3. \A u, v \in Seq(S) : u \o v \in Seq(S)
      OBVIOUS
    <3>4. k + 1 \in 0 .. n
      BY <1>0
    <3> HIDE DEF t
    <3> QED
      BY <3>1, <3>2, <3>3, <3>4
  <2>3. 0 .. n \subseteq B
    <3>1. \A k \in 0 .. n - 1 : k \in B => k + 1 \in B
      BY <2>2
    <3> HIDE DEF B
    <3> QED
      BY <1>0, <2>1, <3>1, Induction
  <2> QED
    BY <2>3
<1>9. FlattenSeq(ss) = t[n] /\ t[0] = <<>>
  <2>1. n = 0 => ss = <<>>
    BY DEF n
  <2> QED
    BY <1>0, <1>5, <2>1
<1> HIDE DEF t
<1> QED
  BY <1>7, <1>8, <1>9 DEF n

(* The first of two joined sequences keeps its indexes. *)
LEMMA JoinedBefore ==
  ASSUME NEW S, NEW u \in Seq(S), NEW v \in Seq(S), NEW i \in 1 .. Len(u)
  PROVE  (u \o v)[i] = u[i]
OBVIOUS

(* The second one's are behind those of the first. *)
LEMMA JoinedBehind ==
  ASSUME NEW S, NEW u \in Seq(S), NEW v \in Seq(S), NEW i \in 1 .. Len(v)
  PROVE  (u \o v)[Len(u) + i] = v[i]
<1>1. Len(u) \in Nat /\ Len(v) \in Nat
  OBVIOUS
<1>2. \A j \in 1 .. Len(u) + Len(v) : j > Len(u) => (u \o v)[j] = v[j - Len(u)]
  OBVIOUS
<1>3. Len(u) + i \in 1 .. Len(u) + Len(v) /\ Len(u) + i > Len(u) /\ (Len(u) + i) - Len(u) = i
  BY <1>1
<1> QED
  BY <1>2, <1>3

(* Where the parts of a concatenation are. *)
PartsAt(at, n, ss) ==
  /\ at \in [0 .. n -> Nat] /\ at[0] = 0
  /\ \A k \in 1 .. n : at[k] = at[k - 1] + Len(ss[k])
  /\ \A k \in 1 .. n : \A i \in 1 .. Len(ss[k]) :
       /\ at[k - 1] + i \in 1 .. at[n]
       /\ FlattenSeq(ss)[at[k - 1] + i] = ss[k][i]

(* Each part begins where those before it end. *)
LEMMA FlattenedParts ==
  ASSUME NEW S, NEW ss \in Seq(Seq(S))
  PROVE  \E at : PartsAt(at, Len(ss), ss)
<1> DEFINE n == Len(ss)
           flat == FlattenSeq(ss)
<1>0. n \in Nat /\ \A k \in 1 .. n : ss[k] \in Seq(S) /\ Len(ss[k]) \in Nat
  OBVIOUS
<1>1. PICK t \in [0 .. n -> Seq(S)] :
        /\ t[0] = <<>>
        /\ \A k \in 1 .. n : t[k] = t[k - 1] \o ss[k]
        /\ flat = t[n]
  BY Flattening
<1> DEFINE at == [k \in 0 .. n |-> Len(t[k])]
           Placed(k) == \A j \in 1 .. k : \A i \in 1 .. Len(ss[j]) :
                          /\ at[j - 1] + i \in 1 .. at[k]
                          /\ t[k][at[j - 1] + i] = ss[j][i]
           A == {k \in 0 .. n : Placed(k)}
<1> HIDE DEF n, flat
<1>2. at \in [0 .. n -> Nat] /\ at[0] = 0
  <2>1. \A k \in 0 .. n : Len(t[k]) \in Nat
    BY <1>0, <1>1
  <2>2. 0 \in 0 .. n
    BY <1>0
  <2> QED
    BY <1>1, <2>1, <2>2
<1>3. ASSUME NEW k \in 1 .. n
      PROVE  /\ k - 1 \in 0 .. n /\ at[k] = at[k - 1] + Len(ss[k])
             /\ t[k - 1] \in Seq(S) /\ t[k] = t[k - 1] \o ss[k]
             /\ Len(t[k - 1]) = at[k - 1] /\ at[k - 1] \in Nat
  <2>1. k - 1 \in 0 .. n /\ k \in 0 .. n
    BY <1>0
  <2>2. t[k] = t[k - 1] \o ss[k] /\ t[k - 1] \in Seq(S) /\ ss[k] \in Seq(S)
    BY <1>0, <1>1, <2>1
  <2>3. Len(t[k]) = Len(t[k - 1]) + Len(ss[k])
    BY <2>2
  <2> QED
    BY <1>2, <2>1, <2>2, <2>3
<1>4. 0 \in A
  BY <1>0
<1>5. ASSUME NEW k \in 0 .. n - 1, k \in A
      PROVE  k + 1 \in A
  <2>1. PICK l \in 1 .. n : l = k + 1 /\ l - 1 = k
    BY <1>0
  <2>2. /\ t[l] = t[k] \o ss[l] /\ t[k] \in Seq(S) /\ ss[l] \in Seq(S)
        /\ at[l] = at[k] + Len(ss[l]) /\ Len(t[k]) = at[k] /\ at[k] \in Nat /\ Len(ss[l]) \in Nat
    BY <1>0, <1>3, <2>1
  <2>3. Placed(k)
    BY <1>5
  <2>4. /\ \A i \in 1 .. at[k] : t[l][i] = t[k][i] /\ i \in 1 .. at[l]
        /\ \A i \in 1 .. Len(ss[l]) : t[l][at[k] + i] = ss[l][i] /\ at[k] + i \in 1 .. at[l]
    <3> DEFINE u == t[k]
               v == ss[l]
    <3>1. u \in Seq(S) /\ v \in Seq(S) /\ t[l] = u \o v /\ Len(u) = at[k]
      BY <2>2
    <3> HIDE DEF at, u, v
    <3>0. u \in Seq(S) /\ v \in Seq(S)
      BY <3>1
    <3>2. \A i \in 1 .. Len(u) : (u \o v)[i] = u[i]
      BY <3>0, JoinedBefore
    <3>3. \A i \in 1 .. Len(v) : (u \o v)[Len(u) + i] = v[i]
      BY <3>0, JoinedBehind
    <3>4. \A i \in 1 .. at[k] : i \in 1 .. at[l]
      BY <2>2
    <3>5. \A i \in 1 .. Len(ss[l]) : at[k] + i \in 1 .. at[l]
      BY <2>2
    <3> QED
      BY <3>1, <3>2, <3>3, <3>4, <3>5 DEF u, v
  <2>5. ASSUME NEW j \in 1 .. l, NEW i \in 1 .. Len(ss[j])
        PROVE  at[j - 1] + i \in 1 .. at[l] /\ t[l][at[j - 1] + i] = ss[j][i]
    <3>1. CASE j = l
      BY <2>1, <2>4, <3>1
    <3>2. CASE j # l
      <4>1. j \in 1 .. k
        BY <1>0, <2>1, <3>2
      <4>2. at[j - 1] + i \in 1 .. at[k] /\ t[k][at[j - 1] + i] = ss[j][i]
        BY <2>3, <4>1
      <4> HIDE DEF at
      <4> QED
        BY <2>4, <4>2
    <3> QED
      BY <3>1, <3>2
  <2>6. l \in 0 .. n
    BY <1>0
  <2>7. l \in A
    BY <2>5, <2>6
  <2> HIDE DEF A
  <2> QED
    BY <2>1, <2>7
<1>6. Placed(n)
  <2>1. \A k \in 0 .. n - 1 : k \in A => k + 1 \in A
    BY <1>5
  <2>2. 0 .. n \subseteq A
    <3> HIDE DEF A
    <3> QED
      BY <1>0, <1>4, <2>1, Induction
  <2>3. n \in A
    <3> HIDE DEF A
    <3> QED
      BY <1>0, <2>2
  <2> QED
    BY <2>3
<1>7. \A k \in 1 .. n : \A i \in 1 .. Len(ss[k]) :
        at[k - 1] + i \in 1 .. at[n] /\ flat[at[k - 1] + i] = ss[k][i]
  BY <1>1, <1>6
<1>8. \A k \in 1 .. n : at[k] = at[k - 1] + Len(ss[k])
  BY <1>3
<1> HIDE DEF at
<1>9. PartsAt(at, n, ss)
  BY <1>2, <1>7, <1>8 DEF PartsAt, flat
<1> QED
  BY <1>9 DEF n

(* SetToSeq lists every element of a finite set. *)
LEMMA Listing ==
  ASSUME NEW S, IsFiniteSet(S)
  PROVE  /\ SetToSeq(S) \in Seq(S)
         /\ \A x \in S : \E i \in DOMAIN SetToSeq(S) : SetToSeq(S)[i] = x
<1> DEFINE n == Cardinality(S)
           f == SetToSeq(S)
<1>1. n \in Nat /\ ExistsBijection(1 .. n, S)
  BY FS_CardinalityType
<1>2. PICK b \in Bijection(1 .. n, S) : TRUE
  BY <1>1 DEF ExistsBijection
<1>3. b \in [1 .. n -> S] /\ IsInjective(b)
  BY <1>2 DEF Bijection, Injection
<1>4. f \in [1 .. n -> S] /\ IsInjective(f)
  BY <1>3 DEF SetToSeq
<1>5. f \in Surjection(1 .. n, S)
  <2>1. f \in Injection(1 .. n, S)
    BY <1>4 DEF Injection
  <2>2. IsFiniteSet(1 .. n) /\ Cardinality(1 .. n) = n
    BY <1>1, FS_Interval
  <2> HIDE DEF f
  <2> QED
    BY <2>1, <2>2, FS_Injection
<1> QED
  BY <1>1, <1>4, <1>5 DEF Surjection

(* The sums of the beginnings of a sequence. *)
LEMMA PartialSums ==
  ASSUME NEW s \in Seq(Int)
  PROVE  \E t : /\ t[0] = 0
                /\ \A k \in 1 .. Len(s) : t[k] = t[k - 1] + s[k]
                /\ FoldLeft(+, 0, s) = t[Len(s)]
<1> DEFINE n == Len(s)
           h == [x \in Int \X Int |-> x[2] + x[1]]
<1>0. n \in Nat /\ s \in [1 .. n -> Int] /\ DOMAIN s = 1 .. n
  OBVIOUS
<1> HIDE DEF n
<1>1. h \in [Int \X Int -> Int]
  OBVIOUS
<1>2. PICK f \in [SUBSET (1 .. n) -> Int] : Folding(n, f, 0, h, s)
  <2>1. s \in [1 .. n -> Int] /\ 0 \in Int
    BY <1>0
  <2> HIDE DEF h
  <2> QED
    BY <1>0, <1>1, <2>1, FoldExists
<1>3. f = [d \in SUBSET DOMAIN s |->
             IF d = {} THEN 0 ELSE f[d \ {Max(d)}] + s[Max(d)]]
  <2>1. ASSUME NEW d \in SUBSET (1 .. n), d # {}
        PROVE  f[d] = f[d \ {Max(d)}] + s[Max(d)]
    <3>1. Max(d) \in d
      BY <1>0, <2>1, MaxOfIndexes
    <3>2. s[Max(d)] \in Int /\ f[d \ {Max(d)}] \in Int
      BY <1>0, <3>1
    <3>3. h[<<f[d \ {Max(d)}], s[Max(d)]>>] = f[d \ {Max(d)}] + s[Max(d)]
      BY <3>2
    <3> QED
      BY <1>2, <2>1, <3>3 DEF Folding
  <2>2. f[{}] = 0
    BY <1>2 DEF Folding
  <2> QED
    BY <1>0, <2>1, <2>2
<1> DEFINE g == CHOOSE g : g = [d \in SUBSET DOMAIN s |->
                  IF d = {} THEN 0 ELSE g[d \ {Max(d)}] + s[Max(d)]]
           t == [k \in 0 .. n |-> g[1 .. k]]
<1>4. FoldLeft(+, 0, s) = g[DOMAIN s]
  BY DEF FoldLeft, MapThenFoldSet
<1>5. g = [d \in SUBSET DOMAIN s |-> IF d = {} THEN 0 ELSE g[d \ {Max(d)}] + s[Max(d)]]
  BY <1>3
<1> HIDE DEF g
<1>6. t[0] = 0
  <2>1. 1 .. 0 = {} /\ {} \in SUBSET DOMAIN s
    OBVIOUS
  <2> QED
    BY <1>0, <1>5, <2>1
<1>7. ASSUME NEW k \in 1 .. n
      PROVE  t[k] = t[k - 1] + s[k]
  <2>1. 1 .. k \in SUBSET (1 .. n) /\ 1 .. k # {} /\ k \in 1 .. k
    <3>1. k \in 1 .. k /\ \A i \in 1 .. k : i \in 1 .. n
      BY <1>0
    <3> QED
      BY <3>1
  <2>2. Max(1 .. k) = k
    <3>1. Max(1 .. k) \in 1 .. k /\ \A y \in 1 .. k : Max(1 .. k) >= y
      BY <1>0, <2>1, MaxOfIndexes
    <3> QED
      BY <1>0, <2>1, <3>1
  <2>3. (1 .. k) \ {k} = 1 .. k - 1 /\ k - 1 \in 0 .. n /\ k \in 0 .. n
    BY <1>0
  <2> QED
    BY <1>0, <1>5, <2>1, <2>2, <2>3
<1>8. FoldLeft(+, 0, s) = t[n]
  <2>1. n \in 0 .. n
    BY <1>0
  <2> QED
    BY <1>0, <1>4, <2>1
<1> HIDE DEF t
<1> QED
  BY <1>6, <1>7, <1>8 DEF n

Total(s) == FoldLeft(+, 0, s)

(* A sequence with one more element has a sum that is larger by it. *)
LEMMA SumOfAppend ==
  ASSUME NEW s \in Seq(Int), NEW x \in Int
  PROVE  Total(Append(s, x)) = Total(s) + x
<1> DEFINE n == Len(s)
           u == Append(s, x)
<1>1. /\ n \in Nat /\ u \in Seq(Int) /\ Len(u) = n + 1 /\ u[n + 1] = x
      /\ \A k \in 1 .. n : u[k] = s[k] /\ s[k] \in Int
  OBVIOUS
<1>2. PICK t : /\ t[0] = 0
               /\ \A k \in 1 .. n : t[k] = t[k - 1] + s[k]
               /\ FoldLeft(+, 0, s) = t[n]
  BY PartialSums
<1> HIDE DEF n, u
<1>3. PICK v : /\ v[0] = 0
               /\ \A k \in 1 .. n + 1 : v[k] = v[k - 1] + u[k]
               /\ FoldLeft(+, 0, u) = v[n + 1]
  <2>1. PICK v : /\ v[0] = 0
                 /\ \A k \in 1 .. Len(u) : v[k] = v[k - 1] + u[k]
                 /\ FoldLeft(+, 0, u) = v[Len(u)]
    BY <1>1, PartialSums
  <2> QED
    BY <1>1, <2>1
<1> DEFINE A == {k \in 0 .. n : t[k] = v[k]}
<1>4. 0 \in A
  <2>1. 0 \in 0 .. n
    BY <1>1
  <2>2. t[0] = v[0]
    BY <1>2, <1>3
  <2> QED
    BY <2>1, <2>2
<1>5. ASSUME NEW k \in 0 .. n - 1, k \in A
      PROVE  k + 1 \in A
  <2>1. k + 1 \in 1 .. n /\ k + 1 \in 1 .. n + 1 /\ (k + 1) - 1 = k /\ k + 1 \in 0 .. n
    BY <1>1
  <2>2. t[k + 1] = t[k] + s[k + 1] /\ v[k + 1] = v[k] + u[k + 1] /\ u[k + 1] = s[k + 1]
    BY <1>1, <1>2, <1>3, <2>1
  <2> QED
    BY <1>5, <2>1, <2>2
<1>6. t[n] = v[n]
  <2>1. \A k \in 0 .. n - 1 : k \in A => k + 1 \in A
    BY <1>5
  <2> HIDE DEF A
  <2>2. 0 .. n \subseteq A
    BY <1>1, <1>4, <2>1, Induction
  <2>3. n \in 0 .. n
    BY <1>1
  <2> QED
    BY <2>2, <2>3 DEF A
<1>7. v[n + 1] = v[n] + x
  <2>1. n + 1 \in 1 .. n + 1 /\ (n + 1) - 1 = n
    BY <1>1
  <2> QED
    BY <1>1, <1>3, <2>1
<1> QED
  BY <1>2, <1>3, <1>6, <1>7 DEF u, Total

(* An empty sequence has none. *)
LEMMA SumOfNone == Total(<<>>) = 0
<1>1. <<>> \in Seq(Int) /\ Len(<<>>) = 0
  OBVIOUS
<1> QED
  BY <1>1, PartialSums DEF Total
=============================================================================
