SPECIFICATION Spec
CONSTANTS
    Requests = {"r1", "r2"}
    Replies <- MCReplies
    Chunks = {"ping", "a", "b", "l", "t"}
    Bytes <- MCBytes
    Threads = 1
    Faults = {"augment", "upstream", "memory", "client"}
INVARIANTS
    TypeOK
    Passthrough
    Remembered
    Reassembled
PROPERTIES
    EveryRequestEnds
    EveryJobEnds
CHECK_DEADLOCK FALSE
