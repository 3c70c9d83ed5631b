SPECIFICATION Spec
CONSTANTS
    Workers = {w1, w2}
    Namespaces = {"t1", "t2"}
    Names = {"ada", "acme", "bob"}
    Facts <- MCFacts
    Setups <- MCSetups
    Faults = {"store", "embed", "crash"}
    MaxNodes = 3
SYMMETRY WorkerSymmetry
INVARIANTS
    TypeOK
    NeighborsAgree
    ForgottenIsGone
    OneNodePerFact
