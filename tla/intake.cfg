SPECIFICATION IntakeSpec
CONSTANTS
    MaxLines = 6
    Documents <- MCDocuments
    LineSize <- MCLineSize
    Target = 2
    Patterns <- MCPatterns
    Additive = {"uses"}
    Predicates = {"works_at", "uses", "owes"}
    Objects = {"a", "b"}
    Texts <- MCTexts
    Answers <- MCAnswers
    Overrides <- MCOverrides
INVARIANTS
    NothingLost
    SectionsKept
    TablesWhole
    SizeBound
    OrderKept
    LastSaidWins
CHECK_DEADLOCK FALSE
