\* Two clients interleaving every API call with the worker, failures on.
CONSTANTS
    c1 = c1
    c2 = c2
    d1 = d1
    d2 = d2
    NoHolder = NoHolder
    Clients <- MCClients2
    Discs <- MCDiscs1
    Targets <- MCTargets
    SegmentSizes <- MCSegmentSizes
    Intervals <- MCIntervals
    BatchSize = 2
    MaxElapsed = 1
    MaxCalls = 3
    CanFail = TRUE
SPECIFICATION Spec
INVARIANT TypeOK
INVARIANT CheckpointChain
INVARIANT StopLatency
INVARIANT PublishInv
PROPERTY CompletionPublishes
CHECK_DEADLOCK FALSE
SYMMETRY MCClientSymmetry
PROPERTY PhasesRefined
