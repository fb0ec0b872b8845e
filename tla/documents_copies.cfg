CONSTANTS
    Document = {1, 2}
    Worker = {w1}
    Cleaner = {c1}
    Overlap = FALSE
    Faults = {"abort"}
    BatchLimit = 2
    CallCopies = 2
    MaxCopies = 7
SPECIFICATION Spec
INVARIANTS
    ControlledCopies
\* With every document settled nothing more has to happen.
CHECK_DEADLOCK FALSE
