CONSTANTS
    c1 = c1
    c2 = c2
    Conns = {c1, c2}
    Readers = {"drain"}
    Established = 4
    MaxRetrans = 1
    Unacknowledged = 2
    IdleAfter = 2
    Readable = TRUE
SPECIFICATION LiveSpec
INVARIANTS
    OneOperation
    BoundaryComplete
    AssignsAfterSweep
    LateSweepMarksOne
    LiveFlowsCount
PROPERTIES
    OwnersStand
    CallsEnd
