SPECIFICATION FairSpec
CONSTANTS
    Ids = {i1}
    Contents = {c1}
    Uploads = {u1}
    Deletes = {d1}
    Downloads = {w1}
    None = None
    MaxCrashes = 1
CHECK_DEADLOCK FALSE
INVARIANTS
    MissIsNoLoss
PROPERTIES
    TransitReachesBucket
    LeftoversAreSwept
