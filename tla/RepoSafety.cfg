SPECIFICATION Spec
CONSTANTS
    g1 = g1
    g2 = g2
    c1 = c1
    n1 = n1
    GitRepos = {g1, g2}
    ControlPlanes = {c1}
    Names = {n1}
    NameOf <- SharedName
    SpecChoices <- AllOrNone
    Manual = Manual
    Absent = Absent
    EnvKinds = {"edit", "manual"}
    MaxFaults = 1
    MaxCrashes = 1
    MaxEdits = 1
CONSTRAINT OneFailure
SYMMETRY Symmetry
INVARIANTS
    MintOnlyWhenDue
    CleanupHitsOwn
    InductiveInv
PROPERTIES
    CreatesUnderFinalizer
    FluxNeverTakenOver
    ReleaseDropsAccess
    RefinesContract
