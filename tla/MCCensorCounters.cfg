CONSTANTS
    c1 = c1
    c2 = c2
    Flags = {"S", "A", "R", "F"}
    Letters = {"S", "A", "R", "F", "N"}
    Strategies <- MCStrategies
    Packets <- MCPackets
    Observing = TRUE
    Callers = {c1, c2}
    MaxArrivals = 3
    MaxPrograms = 2
    MaxFailures = 1
SPECIFICATION LiveSpec
INVARIANTS
    TypeOK
    ScopeExact
    
PROPERTIES
    NeverOvercounts
    CatchesUp
