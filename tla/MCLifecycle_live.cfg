CONSTANTS
    None = None
    a1 = a1
    f1 = f1
    c1 = c1
    MaxId = 1
    Artifacts = {a1}
    Flows = {f1}
    IdleDrain = FALSE
    Inert = {}
    EveryPacket = {a1}
    MaxGenerations = 2
    MaxScoped = 2
    MaxEvery = 2
    Clients = {c1}
    Serial = TRUE
    CommitOnError = FALSE
    MaxFaults = 2
    MaxRestarts = 1
    MaxSignals = 1
SPECIFICATION LiveSpec
INVARIANTS
    AssignmentAgrees
PROPERTIES
    SignalStopsAssignment
    OperationsEnd
