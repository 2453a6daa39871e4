SPECIFICATION Spec
CONSTANTS
    g1 = g1
    c1 = c1
    n1 = n1
    GitRepos = {g1}
    ControlPlanes = {c1}
    Names = {n1}
    NameOf <- SharedName
    SpecChoices <- AllOrNone
    Manual = Manual
    Absent = Absent
    EnvKinds = {"edit"}
    MaxFaults = 0
    MaxCrashes = 0
    MaxEdits = 1
INVARIANTS
    FluxIsRemoved
