SPECIFICATION FairSpec
CONSTANTS
    Ids = {i1, i2}
    Contents = {c1, c2}
    Uploads = {u1, u2}
    Deletes = {d1, d2}
    None = None
    Partial = Partial
    MaxCrashes = 1
CHECK_DEADLOCK FALSE
INVARIANTS
    TypeOK
    CreatedIsKept
    OrphanBlobIsUnfinishedUpload
    OrphanDependentsRaced
PROPERTIES
    DuplicateIsHonest
    ImplementsCatalog
    StagingIsCleared
