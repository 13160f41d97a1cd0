SPECIFICATION Spec
CONSTANTS
    Archives = {a1}
    Links = {l1}
    Requests = {r1, r2, r3}
    Admins = {ad1}
    Caps = {0, 2}
    Second = 2
    MaxTime = 3
    DBFails = TRUE
    None = None
SYMMETRY Symmetry
CHECK_DEADLOCK FALSE
INVARIANTS
    TypeOK
    UseCapHolds
    TestsAgree
    AnswersAreHonest
PROPERTIES
    RevokedServesNothing
    NothingServedAfterDelete
