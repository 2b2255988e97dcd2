CONSTANTS
    None = None
    a1 = a1
    a2 = a2
    f1 = f1
    f2 = f2
    c1 = c1
    MaxId = 2
    Artifacts = {a1, a2}
    Flows = {f1, f2}
    IdleDrain = FALSE
    Inert = {}
    EveryPacket = {a1}
    MaxGenerations = 2
    MaxScoped = 2
    MaxEvery = 2
    Clients = {c1}
    Serial = TRUE
    CommitOnError = FALSE
    MaxFaults = 1
    MaxRestarts = 1
    MaxSignals = 0
SYMMETRY FlowSymmetry
SPECIFICATION Spec
INVARIANTS
    TypeOK
    Affinity
    EveryMarkAccountedFor
    NeutralBoundary
    OffloadsDownWhileSteering
    EngineCoverage
    AssignmentAgrees
PROPERTIES
    KeepsContract
