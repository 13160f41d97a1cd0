SPECIFICATION Spec
CONSTANTS
    Users = {u1, u2}
    AskedRoles = {"viewer", "admin"}
    Sessions = {s1, s2}
    Keys = {k1}
    Logins = {l1}
    Requests = {r1, r2}
    None = None
    MaxPassword = 2
    MaxRequests = 3
SYMMETRY Symmetry
CHECK_DEADLOCK FALSE
INVARIANTS
    TypeOK
    AdminRemains
    SessionsAreNewer
    KeyGivesNoMore
PROPERTIES
    ReactivationIsAsked
