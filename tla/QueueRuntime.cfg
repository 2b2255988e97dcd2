\* Up to three failures: a queue of each pump, a fatal error, a teardown.
SPECIFICATION FairSpec
CONSTANTS
    MaxFailures = 3
INVARIANTS
    TypeOK
    ReadersBeforeClose
    CleanExitOnRequest
PROPERTIES
    ProcessEnds
CHECK_DEADLOCK FALSE
