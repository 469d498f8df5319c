------------------------ MODULE MC_StreamingExecution ------------------------
(* Two contexts; two groups that share page 2, group 2 reaching into the    *)
(* common page 3, and token rows on pages 0 and 1, page 1 shared with group *)
(* 1.                                                                       *)
EXTENDS StreamingExecution, TLC

CONSTANTS c1, c2

MCPage       == 0 .. 3
MCCommon     == {3}
MCGroupPages == <<{1, 2}, {2, 3}>>
MCTokenRows  == {{0}, {0, 1}}

Symm == Permutations({c1, c2})
=============================================================================
