SPECIFICATION FairSpec
CONSTANTS
    Names = {f1}
    c1 = c1
    c2 = c2
    Contents = {c1, c2}
    Others = {c1}
    Size <- MCSize
    MaxUpload = 1
    Ids = {i1, i2}
    None = None
    MaxCrashes = 1
CHECK_DEADLOCK FALSE
INVARIANTS
    TypeOK
    SentIsKept
PROPERTIES
    StoredOnce
    SentIsTaken
