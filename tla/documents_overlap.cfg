CONSTANTS
    Document = {1}
    Worker = {w1, w2}
    Cleaner = {c1}
    Overlap = TRUE
    Faults = {"abort"}
    BatchLimit = 1
    CallCopies = 2
    MaxCopies = 2
SPECIFICATION Spec
INVARIANTS
    TypeOK
    SentIsInBitrix
    KeptUntilDelivered
    DeletedIsNotSent
\* With every document settled nothing more has to happen.
CHECK_DEADLOCK FALSE
