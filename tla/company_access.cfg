CONSTANTS
    Row = {r1, r2}
    Company = {c1, c2, System}
    System = System
    Nobody = Nobody
    Call = {k1, k2}
SPECIFICATION Spec
INVARIANTS
    TypeOK
    AllGrantedIsListed
    AllObjectsFollowApplication
    AllExcessIsDelegated
PROPERTY RevokedRowsStay
SYMMETRY Symmetry
