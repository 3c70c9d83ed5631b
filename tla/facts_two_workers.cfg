SPECIFICATION TwoSpec
CONSTANTS
    Workers = {w1, w2}
    Keys <- TwoKeys
    Values = {"a", "b"}
    Redacted = "redacted"
    SinglePredicates <- MCSingle
    Messages <- TwoMessages
    CredentialPolicy = "store"
    Ops = {"ingest", "forget"}
    Faults = {"embed", "crash"}
    MaxFacts = 3
    MaxTime = 2
SYMMETRY WorkerSymmetry
INVARIANTS
    TypeOK
    LinksAreSettled
    NoSilentGap
PROPERTIES
    HistoryIsFinal
    ErasedForever
