CONSTANTS
    Nil = Nil
    Requests = {q1, q2, q3, q4}
    MaxId = 2
    BatchSizes = {0, 2}
    Operations = {"create", "append", "delete", "read"}
    ReuseIds = FALSE
    LossyCache = TRUE
    CommitMayFail = TRUE
SPECIFICATION Spec
SYMMETRY Symmetry
CHECK_DEADLOCK FALSE
INVARIANTS
    CachedMessagesAreAPrefix
    TrueEntriesAreDropped
