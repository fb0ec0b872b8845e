CONSTANTS
    Application = {a1}
    Call = {k1, k2}
    Number = {n1, n2}
    File = {f1, f2}
    MaxMoves = 2
    None = None
SPECIFICATION FairSpec
INVARIANTS
    TypeOK
    IssuedHasPolicy
    PolicyOfOneReply
PROPERTY SyncEnds
