--------------------------- MODULE MC_EngineProofs ---------------------------
EXTENDS EngineProofs, TLC
CONSTANTS c1, c2, d1, d2
MCClients2 == {c1, c2}
MCDiscs1 == {d1}
MCTargets == {1, 3}
MCSegmentSizes == {0, 2}
MCIntervals == {0, 1}
MCClientSymmetry == Permutations(MCClients2)
=============================================================================
