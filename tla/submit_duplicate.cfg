CONSTANTS
    r1 = r1
    r2 = r2
    r3 = r3
    w1 = w1
    w2 = w2
    w3 = w3
    None = None
    Application = {a1}
    Document = {d1}
    Request = {r1, r2, r3}
    Worker = {w1, w2, w3}
    WorkerOf <- OneRequestPerWorker
    Draft = {x}
    MaxRetries = 1
    Faults = {"lost_reply", "late_add", "crash"}
    StageStatuses = {"received", "in_work"}
SPECIFICATION Spec
INVARIANTS
    OneDealPerApplication
\* Every request may have been served.
CHECK_DEADLOCK FALSE
