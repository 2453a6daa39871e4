SPECIFICATION FairSpec
CONSTANTS
    a1 = a1
    a2 = a2
    p1 = p1
    n1 = n1
    n2 = n2
    NoAccount = NoAccount
    Unnamed = Unnamed
    Accounts = {a1, a2}
    Apps = {p1}
    SecretNames = {n1, n2}
    Setups <- OneSetup
    MaxId = 2
    MaxEdits = 1
    MaxFailures = 1
CHECK_DEADLOCK FALSE
INVARIANTS
    TypeOK
    InstalledWasFound
    ChainInv
PROPERTIES
    MintsForObserved
    StatusesBecomeTrue
    TokenFollowsSpec
