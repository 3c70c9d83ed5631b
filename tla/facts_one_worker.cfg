SPECIFICATION ReaderSpec
CONSTANTS
    Workers = {w1}
    Keys <- OneKeys
    Values = {"a", "b"}
    Redacted = "redacted"
    SinglePredicates <- MCSingle
    Messages <- OneMessages
    CredentialPolicy = "redact"
    Ops = {"ingest", "forget", "reembed"}
    Faults = {"embed", "crash"}
    MaxFacts = 3
    MaxTime = 2
    Questions <- MCQuestions
    MaxOverlap = 1
    FactType <- MCFactType
    Cost <- MCCost
    Budgets = {1, 2, 3}
INVARIANTS
    NoDuplicates
    Timeline
    ChangeSurfaced
    CurrentFirst
    HandoffFits
    CredentialsWithheld
PROPERTIES
    ImplementsLedger
