------------------------- MODULE MC_WesolowskiProofs -------------------------
(***************************************************************************)
(* The inductive invariant of WesolowskiProofs, checked by TLC on the      *)
(* instance of MC_Wesolowski.                                              *)
(***************************************************************************)
EXTENDS WesolowskiProofs, TLC

MCSeeds == {1, 2}
MCSeedDisc(s) == IF s = 1 THEN -7 ELSE -11
MCDiscBytes == {0, 5, 6, 7}
MCHashPrime(d, a, b, t) == IF (d + a + b + t) % 2 = 0 THEN 3 ELSE 5
MCTargets == {1, 3}
MCLevels == {0, 1}
MCNegB == {2, 3}
MCLValues == {3}
=============================================================================
