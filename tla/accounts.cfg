CONSTANTS
    User = {a, b}
    Session = {s1, s2}
    Token = {k1}
    Thread = {t1}
    AdminThread = {t1}
    Loop = Loop
    Hook = {h1}
    Contact = {b}
    Staff = {a, b}
    MaxPassword = 2
    MaxRotations = 1
    Nobody = Nobody
SPECIFICATION Spec
INVARIANTS
    TypeOK
    TokenUsedOnce
    ResetEndsSessions
PROPERTIES
    RevokedForGood
    ReinviteSparesSignedIn
SYMMETRY Symmetry
\* Every token and session may have been used up.
CHECK_DEADLOCK FALSE
