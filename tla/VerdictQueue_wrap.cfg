\* The same queue as its identifiers wrap, with no failure at all.
SPECIFICATION Spec
CONSTANTS
    IdModulus = 16
    FirstId = 13
    MaxPackets = 4
    MaxExtras = 2
    MaxFaults = 0
INVARIANTS
    NothingLeftWaiting
CHECK_DEADLOCK FALSE
