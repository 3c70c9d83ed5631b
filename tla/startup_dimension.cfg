SPECIFICATION StartSpec
CONSTANTS
    Engines = {e1}
    Models = {"A", "hashing"}
    Dims = {"d256", "d1024"}
    Dim <- MCDim
    DefaultDim = "d256"
    Offline = {"hashing"}
    Policies = {"warn", "error"}
    Facts = {f1}
    Chunks = {c1}
    Faults = {}
INVARIANT
    ChunksFit
