CONSTANTS
    None = None
    a1 = a1
    a2 = a2
    f1 = f1
    c1 = c1
    MaxId = 2
    Artifacts = {a1, a2}
    Flows = {f1}
    IdleDrain = TRUE
    Inert = {}
    EveryPacket = {a1}
    MaxGenerations = 2
    MaxScoped = 2
    MaxEvery = 2
    Clients = {c1}
    Serial = TRUE
    CommitOnError = FALSE
    MaxFaults = 0
    MaxRestarts = 0
    MaxSignals = 0
SPECIFICATION Spec
INVARIANTS
    Affinity
