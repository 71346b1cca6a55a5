\* Callbacks with update_interval_ms = 0, then a short run.
CONSTANTS
    c1 = c1
    c2 = c2
    d1 = d1
    d2 = d2
    NoHolder = NoHolder
    Clients <- MCClients1
    Discs <- MCDiscs1
    Targets <- MCTargets
    SegmentSizes <- MCSegmentSizes
    Intervals <- MCIntervals
    BatchSize = 2
    MaxElapsed = 1
    MaxCalls = 2
    CanFail = FALSE
SPECIFICATION Spec
INVARIANT NoDivByZero
