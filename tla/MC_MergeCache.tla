---------------------------- MODULE MC_MergeCache ----------------------------
(* Two threads of process 1 and one of process 2.                           *)
EXTENDS MergeCache, TLC

CONSTANTS pidA, pidB

TwoProcesses   == <<1, 1, 2>>

\* Process ids are only compared.
Symm == Permutations({pidA, pidB})
=============================================================================
