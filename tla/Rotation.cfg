SPECIFICATION Spec
CONSTANTS
    N = 2
    Lifetime = 16
    RenewBuffer = 6
    Interval = 4
    MaxOutage = 1
    Obstacles = {"denial", "secrets"}
CONSTRAINT OneObstacle
INVARIANTS
    TypeOK
    NoTokenExpires
    GrantIsNoticed
    RotationInv
