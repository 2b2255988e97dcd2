\* Identifiers that do not wrap: four packets, up to two extra replacements
\* each, three failures.
SPECIFICATION Spec
CONSTANTS
    IdModulus = 16
    FirstId = 0
    MaxPackets = 4
    MaxExtras = 2
    MaxFaults = 3
INVARIANTS
    TypeOK
    DecisionsStand
    NothingLeftWaiting
    ReplacedOrOriginal
CHECK_DEADLOCK FALSE
