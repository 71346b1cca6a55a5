\* A run with streaming proofs over two checkpoints.
CONSTANTS
    c1 = c1
    c2 = c2
    d1 = d1
    d2 = d2
    NoHolder = NoHolder
    Clients <- MCClients1
    Discs <- MCDiscs1
    Targets <- MCTargets
    SegmentSizes <- MCSegmentSizes
    Intervals <- MCIntervals
    BatchSize = 2
    MaxElapsed = 1
    MaxCalls = 1
    CanFail = FALSE
SPECIFICATION Spec
INVARIANT BlobIteration
