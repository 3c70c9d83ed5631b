SPECIFICATION StartSpec
CONSTANTS
    Engines = {e1}
    Models = {"A", "B", "hashing"}
    Dims = {"d256", "d1024"}
    Dim <- MCDim
    DefaultDim = "d256"
    Offline = {"hashing"}
    Policies = {"warn", "error", "ignore"}
    Facts = {f1, f2}
    Chunks = {c1, c2}
    Faults = {"embed", "meta", "crash"}
SYMMETRY ItemSymmetry
INVARIANTS
    TypeOK
    NoSilentMix
    PreflightAgrees
    NoDowngrade
PROPERTIES
    SignatureIsEarned
