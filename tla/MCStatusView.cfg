CONSTANTS
    None = None
    a1 = a1
    a2 = a2
    p1 = p1
    Artifacts = {a1, a2}
    MaxId = 2
    Pumps = {p1}
    MaxConns = 1
    MaxPackets = 1
    MaxEngines = 3
    MaxRestarts = 1
SYMMETRY ArtifactSymmetry
SPECIFICATION Spec
INVARIANTS
    TypeOK
    ActivityIsItsOwn
    LineagesGrow
    PacketsAccountedFor
PROPERTIES
    DrainCountsStand
