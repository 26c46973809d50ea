CONSTANTS
    Nil = Nil
    Requests = {q1, q2, q3, q4}
    MaxId = 1
    BatchSizes = {1, 2}
    Operations = {"append", "delete", "import"}
    ReuseIds = FALSE
    LossyCache = FALSE
    CommitMayFail = FALSE
SPECIFICATION Spec
SYMMETRY Symmetry
CHECK_DEADLOCK FALSE
INVARIANTS
    TypeOK
    SeqNosAreDense
    BatchesAreWhole
    
    ImportStatusIsTrue
PROPERTIES
    ThreadsAreLogs
