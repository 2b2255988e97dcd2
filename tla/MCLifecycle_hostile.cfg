CONSTANTS
    None = None
    a1 = a1
    a2 = a2
    f1 = f1
    c1 = c1
    MaxId = 2
    Artifacts = {a1, a2}
    Flows = {f1}
    IdleDrain = TRUE
    Inert = {a2}
    EveryPacket = {a1}
    MaxGenerations = 1
    MaxScoped = 1
    MaxEvery = 1
    Clients = {c1}
    Serial = FALSE
    CommitOnError = TRUE
    MaxFaults = 2
    MaxRestarts = 1
    MaxSignals = 0
SPECIFICATION Spec
INVARIANTS
    DurableCoverage
    UnsafeAssignsNothing
    DiskLoadable
    SteeringHonest
