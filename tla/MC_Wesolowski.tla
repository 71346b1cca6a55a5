---------------------------- MODULE MC_Wesolowski ----------------------------
(***************************************************************************)
(* Small instances of Wesolowski for TLC.                                  *)
(***************************************************************************)
EXTENDS Wesolowski, TLC

\* Two seeds whose discriminants differ.
MCSeeds == {1, 2}
MCSeedDisc(s) == IF s = 1 THEN -7 ELSE -11
\* |D| bytes, one per residue of -|D| mod 4: 7 (D = -7 is kept), 6 and 5
\* (adjusted to -7), 0 (a zero byte: adjusted to 1, then stepped to -3).
MCDiscBytes == {0, 5, 6, 7}
MCDiscBytesExact == {7}
\* A deterministic stand-in for NextPrime(sha256(...)): the prime 3 or 5.
MCHashPrime(d, a, b, t) == IF (d + a + b + t) % 2 = 0 THEN 3 ELSE 5
\* T = 1 has 2^T < l (q = 0); T = 3 has q = 2 or 1.
MCTargets == {1, 3}
\* 2^T = 2 is below both primes: a hand-made blob is accepted only by the
\* forgery that works in every group, pi = identity with l > 2^T.
MCTargetsShort == {1}
MCLevels == {0, 1}
\* x has order 7; the forms x^2 and x^3 have b < 0, x^5 and x^4 b > 0.
MCNegB == {2, 3}
\* No form has b < 0: the export is exact.
MCNegBNone == {}
\* l = 0 is what a blob with l_size = 0 decodes to.
MCLValues == {0, 3, 5}
\* Hand-made blobs with a prime l only.
MCLValuesPrime == {3}
\* The l of an empty l field.
MCLValuesZero == {0}
=============================================================================
