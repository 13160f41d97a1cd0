SPECIFICATION Spec
CONSTANTS
    Logins = {l1, l2}
    IPs = {ip1}
    Users = {u1, u2}
    Max = 2
    Window = 3
    MaxLag = 1
    MaxTime = 5
    None = None
CHECK_DEADLOCK FALSE
SYMMETRY Symmetry
INVARIANTS
    WindowCap
    KeptIsRecent
PROPERTIES
    RefusalIsEarned
