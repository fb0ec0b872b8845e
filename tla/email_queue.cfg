CONSTANTS
    Mail = {m1, m2}
    Run = {r1, r2}
    MaxAttempts = 2
    MaxManual = 1
    MaxCrashes = 1
    None = None
SPECIFICATION FairSpec
INVARIANTS
    TypeOK
    ClaimIsExclusive
    ExactlyOnce
    StrandedByCrash
PROPERTIES
    Settles
\* Every message may have been settled.
CHECK_DEADLOCK FALSE
