----------------------- MODULE MC_ResidencyCoordinator -----------------------
(* Small instances of ResidencyCoordinator. *)
EXTENDS ResidencyCoordinator, TLC

CONSTANTS k1, k2, h1, h2, h3

MCPage   == 0..2
MCCommon == {1}

\* Keys and holders are interchangeable: nothing orders or names them.
Symm == Permutations({k1, k2}) \cup Permutations({h1, h2, h3})
=============================================================================
