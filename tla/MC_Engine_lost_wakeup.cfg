\* A waiter and a stopper: the Stopped path stores state outside the mutex.
CONSTANTS
    c1 = c1
    c2 = c2
    d1 = d1
    d2 = d2
    NoHolder = NoHolder
    Clients <- MCClients2
    Discs <- MCDiscs1
    Targets <- MCTargets
    SegmentSizes <- MCSegmentSizes
    Intervals <- MCIntervals
    BatchSize = 2
    MaxElapsed = 1
    MaxCalls = 2
    CanFail = FALSE
SPECIFICATION Spec
PROPERTY WaitReturns
CHECK_DEADLOCK FALSE
