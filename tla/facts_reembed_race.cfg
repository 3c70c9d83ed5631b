SPECIFICATION Spec
CONSTANTS
    Workers = {w1, w2}
    Keys <- TwoKeys
    Values = {"a", "b"}
    Redacted = "redacted"
    SinglePredicates <- MCSingle
    Messages <- TwoMessages
    CredentialPolicy = "store"
    Ops = {"ingest", "forget", "reembed"}
    Faults = {}
    MaxFacts = 3
    MaxTime = 2
PROPERTY
    ErasedForever
