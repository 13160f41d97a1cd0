SPECIFICATION Spec
CONSTANTS
    Ids = {i1, i2}
    Contents = {c1}
    Uploads = {u1, u2}
    Deletes = {d1}
    Downloads = {}
    None = None
    MaxCrashes = 1
CHECK_DEADLOCK FALSE
SYMMETRY Symmetry
INVARIANTS
    TypeOK
    AcceptedIsKept
    TransitHasFile
PROPERTIES
    DuplicateIsHonest
