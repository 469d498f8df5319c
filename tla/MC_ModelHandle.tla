---------------------------- MODULE MC_ModelHandle ----------------------------
(* Versions 1 and 2 have the same metadata, version 3 has other metadata.     *)
EXTENDS ModelHandle, TLC

CONSTANTS t1, t2, t3

MCMetadata == <<7, 7, 8>>

Symm == Permutations({t1, t2, t3})
===============================================================================
