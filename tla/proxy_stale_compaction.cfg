SPECIFICATION Spec
CONSTANTS
    Clients = {c1}
    Models = {"A"}
    Values = {v1, v2}
    CompactOver = 3
    KeepLast = 2
    Faults = {}
    MaxTurns = 6
INVARIANT
    CurrentIsLatest
CHECK_DEADLOCK FALSE
