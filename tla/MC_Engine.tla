------------------------------ MODULE MC_Engine ------------------------------
(***************************************************************************)
(* Small instances of Engine for TLC.                                      *)
(***************************************************************************)
EXTENDS Engine, TLC

CONSTANTS c1, c2, d1, d2

MCClients1 == {c1}
MCClients2 == {c1, c2}
MCDiscs1 == {d1}
MCDiscs2 == {d1, d2}
\* One target inside a single batch and one spanning two batches with a
\* partial last batch (BatchSize 2).
MCTargets == {1, 3}
\* 0 disables checkpoints; 2 puts a checkpoint inside the run and one at T.
MCSegmentSizes == {0, 2}
\* 0 ms makes every batch end run the progress update.
MCIntervals == {0, 1}
\* The two clients run the same code: states that differ only by a renaming
\* of clients are equivalent for every safety property checked.
MCClientSymmetry == Permutations(MCClients2)
=============================================================================
