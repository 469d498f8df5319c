----------------------------- MODULE BpeMerging -----------------------------
(***************************************************************************)
(* What byte-pair encoding promises, apart from linked lists and queues:   *)
(* while some adjacent pair of the word has a merge rule, a pair of lowest *)
(* rank is merged, the leftmost of them.                                   *)
(***************************************************************************)
EXTENDS Integers, Sequences

VARIABLES
  rules,  \* the pairs that may be merged, in order of their rank
  word,   \* the tokens
  open    \* the word may still change

vars == <<rules, word, open>>

Rank(p, q) ==
  CHOOSE k \in DOMAIN rules : rules[k] = <<p, q>> /\ \A j \in 1 .. k - 1 : rules[j] # <<p, q>>

Mergeable(w) == {i \in 1 .. Len(w) - 1 : \E k \in DOMAIN rules : rules[k] = <<w[i], w[i + 1]>>}

First(w, i) ==
  \A j \in Mergeable(w) :
    LET r == Rank(w[i], w[i + 1])
        s == Rank(w[j], w[j + 1])
    IN  r < s \/ (r = s /\ i <= j)

(* A token is the text it stands for. *)
MergeAt(w, i) == SubSeq(w, 1, i - 1) \o <<w[i] \o w[i + 1]>> \o SubSeq(w, i + 2, Len(w))

Init == open = TRUE

Merge ==
  /\ open
  /\ \E i \in Mergeable(word) : First(word, i) /\ word' = MergeAt(word, i)
  /\ UNCHANGED <<rules, open>>

(* Nothing is left to merge. *)
Finish ==
  /\ open /\ Mergeable(word) = {}
  /\ open' = FALSE
  /\ UNCHANGED <<rules, word>>

Next == Merge \/ Finish

Spec == Init /\ [][Next]_vars
=============================================================================
