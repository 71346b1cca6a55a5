\* Two clients start, stop and start again: a start that finds the previous
\* worker thread still joinable, and two stops that both join.
CONSTANTS
    c1 = c1
    c2 = c2
    d1 = d1
    d2 = d2
    NoHolder = NoHolder
    Clients <- MCClients2
    Discs <- MCDiscs1
    Targets <- MCTargets
    SegmentSizes <- MCSegmentSizes
    Intervals <- MCIntervals
    BatchSize = 2
    MaxElapsed = 1
    MaxCalls = 3
    CanFail = FALSE
SPECIFICATION Spec
INVARIANT NoTerminate
