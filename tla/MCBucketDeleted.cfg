SPECIFICATION Spec
CONSTANTS
    Ids = {i1}
    Contents = {c1}
    Uploads = {u1}
    Deletes = {d1}
    Downloads = {}
    None = None
    MaxCrashes = 0
CHECK_DEADLOCK FALSE
INVARIANTS DeletedIsGone
