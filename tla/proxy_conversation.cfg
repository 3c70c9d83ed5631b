SPECIFICATION Spec
CONSTANTS
    Clients = {c1}
    Models = {"A", "B"}
    Values = {v1, v2}
    CompactOver = 3
    KeepLast = 2
    Faults = {"upstream", "memory"}
    MaxTurns = 5
SYMMETRY ValueSymmetry
INVARIANTS
    TypeOK
    NothingCompactedIsLost
PROPERTIES
    ExchangeWins
    SwitchIsSeen
CHECK_DEADLOCK FALSE
