CONSTANTS
    Partner = {p1}
    Request = {r1}
    Company = {c1, c2}
    Thread = {t1, t2}
    Loop = Loop
    None = None
SPECIFICATION Spec
INVARIANTS
    TypeOK
    LinksConfirmed
    DraftsConfirmed
    ConfirmedOfUse
SYMMETRY Symmetry
