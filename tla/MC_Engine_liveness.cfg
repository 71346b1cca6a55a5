\* One client, no failing squaring: wait_completion on the Completed path.
CONSTANTS
    c1 = c1
    c2 = c2
    d1 = d1
    d2 = d2
    NoHolder = NoHolder
    Clients <- MCClients1
    Discs <- MCDiscs2
    Targets <- MCTargets
    SegmentSizes <- MCSegmentSizes
    Intervals <- MCIntervals
    BatchSize = 2
    MaxElapsed = 1
    MaxCalls = 4
    CanFail = FALSE
SPECIFICATION Spec
PROPERTY WaitReturns ComputationEnds
\* A waiter blocked for ever is reported by WaitReturns, not as a deadlock.
CHECK_DEADLOCK FALSE
