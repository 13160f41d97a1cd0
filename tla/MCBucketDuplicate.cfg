SPECIFICATION Spec
CONSTANTS
    Ids = {i1, i2}
    Contents = {c1}
    Uploads = {u1, u2}
    Deletes = {d1}
    Downloads = {}
    None = None
    MaxCrashes = 0
CHECK_DEADLOCK FALSE
PROPERTIES DuplicateExists
