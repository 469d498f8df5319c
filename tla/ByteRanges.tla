----------------------------- MODULE ByteRanges -----------------------------
(***************************************************************************)
(* The byte ranges of streaming_execution.cpp: page_align_and_coalesce,    *)
(* subtract_ranges and token_row_ranges, over size_t arithmetic of a small *)
(* width.                                                                  *)
(*                                                                         *)
(* ResidencyCoordinator speaks of sets of pages where the code keeps lists *)
(* of ranges; the properties here say that the lists compute those sets.   *)
(* The state is what a region accumulates: the pending ranges of its       *)
(* leases, the ranges the others protect, the tokens of a sub-batch.       *)
(***************************************************************************)
EXTENDS Integers, Sequences, SequencesExt

CONSTANTS
  MaxSize,       \* the largest size_t
  MappingSize,   \* bytes of the mapped file
  PageSize,
  Raw,           \* byte ranges a request may consist of
  Tensor,        \* the token table: offset, nbytes, stride, rows
  TokenId,       \* token ids a sub-batch may contain
  MaxItems       \* bound: ranges and tokens together

ASSUME SizeAssumption ==
  /\ MaxSize \in Nat /\ MappingSize \in 1 .. MaxSize /\ PageSize \in 1 .. MaxSize
  /\ \E k \in 0 .. PageSize : 2 ^ k = PageSize
  /\ Raw \subseteq [offset : 0 .. MaxSize, length : 0 .. MaxSize]

ASSUME TensorAssumption ==
  /\ Tensor \in [offset : 0 .. MaxSize, nbytes : 0 .. MaxSize, stride : 0 .. MaxSize, rows : Int]
  /\ TokenId \subseteq Int

VARIABLES pending, protected, tokens

vars == <<pending, protected, tokens>>

-----------------------------------------------------------------------------
(* size_t addition wraps; checked_add throws before it would. *)
Plus(a, b) == (a + b) % (MaxSize + 1)

Overflows(a, b) == b > MaxSize - a

Larger(a, b) == IF a > b THEN a ELSE b

EndOf(r) == Plus(r.offset, r.length)

(* The checks each range passes, or page_align_and_coalesce throws. *)
InMapping(r) ==
  /\ r.length # 0
  /\ ~Overflows(r.offset, r.length)
  /\ r.offset < MappingSize /\ EndOf(r) <= MappingSize

Accepted(ranges) == \A i \in DOMAIN ranges : InMapping(ranges[i])

(* Rounded up to a page, but not past the end of the file. *)
PageEnd(end) ==
  LET padding == PageSize - (end % PageSize)
  IN  IF end % PageSize = 0 THEN end
      ELSE IF padding > MappingSize - end THEN MappingSize ELSE Plus(end, padding)

Align(r) ==
  LET begin == r.offset - (r.offset % PageSize)
  IN  [offset |-> begin, length |-> PageEnd(EndOf(r)) - begin]

Before(r, s) == r.offset < s.offset \/ (r.offset = s.offset /\ r.length < s.length)

\* Slip: a range inside its predecessor shortens it.
ExtendToLast(tail, r) == [tail EXCEPT !.length = EndOf(r) - tail.offset]

Extend(tail, r) == [tail EXCEPT !.length = Larger(EndOf(tail), EndOf(r)) - tail.offset]

(* One step of the loop that coalesces sorted ranges. *)
Coalesce(result, r) ==
  IF result # <<>> /\ r.offset <= EndOf(Last(result))
  THEN Append(Front(result), Extend(Last(result), r))
  ELSE Append(result, r)

(* std::sort: one of the permutations that leave no range before one it    *)
(* should follow; they differ only in the place of equal ranges.           *)
Sorted(ranges) ==
  LET n == Len(ranges)
      order == CHOOSE p \in Bijection(1 .. n, 1 .. n) :
                 \A i, j \in 1 .. n : i < j => ~Before(ranges[p[j]], ranges[p[i]])
  IN  [i \in 1 .. n |-> ranges[order[i]]]

page_align_and_coalesce(ranges) ==
  FoldLeft(Coalesce, <<>>, Sorted([i \in DOMAIN ranges |-> Align(ranges[i])]))

-----------------------------------------------------------------------------
\* Slip: a guard that lies before the cursor ends the scan.
PassBreaking(scan, end, guard) ==
  IF scan.done \/ guard.offset >= end \/ EndOf(guard) <= scan.cursor
  THEN [scan EXCEPT !.done = TRUE]
  ELSE [cursor |-> Larger(scan.cursor, EndOf(guard)),
        done   |-> Larger(scan.cursor, EndOf(guard)) >= end,
        result |-> IF guard.offset > scan.cursor
                   THEN Append(scan.result, [offset |-> scan.cursor,
                                             length |-> guard.offset - scan.cursor])
                   ELSE scan.result]

(* The scan of one range passes a guard: what lies before it is kept. *)
Pass(scan, end, guard) ==
  IF scan.done \/ EndOf(guard) <= scan.cursor THEN scan
  ELSE IF guard.offset >= end THEN [scan EXCEPT !.done = TRUE]
  ELSE [cursor |-> Larger(scan.cursor, EndOf(guard)),
        done   |-> Larger(scan.cursor, EndOf(guard)) >= end,
        result |-> IF guard.offset > scan.cursor
                   THEN Append(scan.result, [offset |-> scan.cursor,
                                             length |-> guard.offset - scan.cursor])
                   ELSE scan.result]

SubtractFrom(item, guards) ==
  LET end  == EndOf(item)
      scan == FoldLeft(LAMBDA s, g : Pass(s, end, g),
                       [cursor |-> item.offset, done |-> FALSE, result |-> <<>>], guards)
  IN  IF scan.cursor < end
      THEN Append(scan.result, [offset |-> scan.cursor, length |-> end - scan.cursor])
      ELSE scan.result

subtract_ranges(source, guards) ==
  FlattenSeq([i \in DOMAIN source |-> SubtractFrom(source[i], guards)])

(* The ranges ResidencyCoordinator::release passes to MADV_DONTNEED. *)
Releasable ==
  subtract_ranges(page_align_and_coalesce(pending), page_align_and_coalesce(protected))

-----------------------------------------------------------------------------
\* Slip: rows are addressed from the start of the file.
RowWithoutOffset(id) == [offset |-> id * Tensor.stride, length |-> Tensor.stride]

Row(id) == [offset |-> Plus(Tensor.offset, id * Tensor.stride), length |-> Tensor.stride]

KnownToken(id) == id >= 0 /\ id < Tensor.rows

RowsFit ==
  /\ Tensor.stride # 0 /\ Tensor.rows > 0
  /\ Tensor.rows <= Tensor.nbytes \div Tensor.stride

TokensAccepted ==
  /\ RowsFit /\ tokens # <<>>
  /\ \A i \in DOMAIN tokens :
       /\ KnownToken(tokens[i])
       /\ ~Overflows(Tensor.offset, tokens[i] * Tensor.stride)
       /\ ~Overflows(Tensor.offset, Tensor.nbytes)
       /\ EndOf(Row(tokens[i])) <= Plus(Tensor.offset, Tensor.nbytes)
       /\ InMapping(Row(tokens[i]))

(* unique_ids keeps the first occurrence; the order is lost in the sort. *)
token_row_ranges ==
  page_align_and_coalesce(SetToSeq({Row(tokens[i]) : i \in DOMAIN tokens}))

-----------------------------------------------------------------------------
Init == pending = <<>> /\ protected = <<>> /\ tokens = <<>>

Small == Len(pending) + Len(protected) + Len(tokens) < MaxItems

(* A lease of the region is granted. *)
AddPending ==
  /\ Small
  /\ \E r \in Raw : pending' = Append(pending, r)
  /\ UNCHANGED <<protected, tokens>>

(* A lease of another region is active when the region is released. *)
AddProtected ==
  /\ Small
  /\ \E r \in Raw : protected' = Append(protected, r)
  /\ UNCHANGED <<pending, tokens>>

(* A token of the sub-batch. *)
AddToken ==
  /\ Small
  /\ \E id \in TokenId : tokens' = Append(tokens, id)
  /\ UNCHANGED <<pending, protected>>

Next == AddPending \/ AddProtected \/ AddToken

Spec == Init /\ [][Next]_vars

-----------------------------------------------------------------------------
(* Reference definitions, in unbounded arithmetic. *)
Bytes(r) == r.offset .. (r.offset + r.length - 1)

Pages(ranges) == UNION {{b \div PageSize : b \in Bytes(ranges[i])} : i \in DOMAIN ranges}

WholePages(r) ==
  /\ r.length > 0 /\ r.offset % PageSize = 0
  /\ r.offset + r.length = MappingSize \/ (r.offset + r.length) % PageSize = 0

(* The plan covers every page a tensor touches and no other, counted in    *)
(* unbounded arithmetic: what passed the checks did not wrap.  And it is   *)
(* what subtract_ranges and madvise need: whole pages inside the file, in  *)
(* order, with a gap between ranges.                                       *)
PlanIsExact ==
  Accepted(pending) =>
    LET plan == page_align_and_coalesce(pending)
    IN  /\ Pages(plan) = Pages(pending)
        /\ \A i \in DOMAIN plan : WholePages(plan[i]) /\ EndOf(plan[i]) <= MappingSize
        /\ \A i \in 1 .. Len(plan) - 1 : EndOf(plan[i]) < plan[i + 1].offset

(* A release drops the pages of its region that nobody protects, all of    *)
(* them, whole and once.                                                   *)
ReleaseIsExact ==
  Accepted(pending) /\ Accepted(protected) =>
    /\ Pages(Releasable) = Pages(pending) \ Pages(protected)
    /\ \A i \in DOMAIN Releasable : WholePages(Releasable[i])
    /\ \A i, j \in DOMAIN Releasable :
         i # j => Bytes(Releasable[i]) \cap Bytes(Releasable[j]) = {}

(* Every byte the table lookup reads is in a leased page, and no page is   *)
(* leased without a row.                                                   *)
RowsAreLeased ==
  TokensAccepted =>
    Pages(token_row_ranges) =
      {(Tensor.offset + id * Tensor.stride + b) \div PageSize :
         id \in ToSet(tokens), b \in 0 .. Tensor.stride - 1}
=============================================================================
