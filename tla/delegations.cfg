CONSTANTS
    Delegation = {d1, d2}
    Application = {a1}
    User = {u1, u2}
    Thread = {t1}
    Loop = Loop
    Grace = 0
    MaxPeriod = 1
    MaxTime = 1
    None = None
SPECIFICATION Spec
INVARIANTS
    TypeOK
    OneOpenItem
    ItemsFollow
PROPERTIES
    GrantsMoveForward
SYMMETRY Symmetry
CHECK_DEADLOCK FALSE
