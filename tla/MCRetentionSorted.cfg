SPECIFICATION Spec
CONSTANTS
    Ids = {i1, i2}
    Pages = {p1}
    Topologies = {"vps-s3"}
    Orders = {"newest", "oldest"}
    KeepLast = 1
    MaxAge = 0
    TTL = 2
    MaxTime <- MCMaxTime
    None = None
CHECK_DEADLOCK FALSE
PROPERTIES NewestAreKept
