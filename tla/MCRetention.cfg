SPECIFICATION FairSpec
CONSTANTS
    Ids = {i1, i2}
    Pages = {p1}
    Topologies = {"vps", "vps-s3"}
    Orders = {"newest"}
    KeepLast = 1
    MaxAge = 1
    TTL = 1
    MaxTime <- MCMaxTime
    None = None
CHECK_DEADLOCK FALSE
PROPERTIES
    NewestAreKept
    ProtectedBeforeIsKept
    ExcessIsSwept
