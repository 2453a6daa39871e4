SPECIFICATION Spec
CONSTANTS
    N = 2
    Lifetime = 9
    RenewBuffer = 4
    Interval = 2
    MaxOutage = 1
    Obstacles = {}
INVARIANTS
    RequeueAtEarliest
