SPECIFICATION FairSpec
CONSTANTS
    g1 = g1
    c1 = c1
    c2 = c2
    n1 = n1
    GitRepos = {g1}
    ControlPlanes = {c1, c2}
    Names = {n1}
    NameOf <- SharedName
    SpecChoices <- TwoRevisions
    Manual = Manual
    Absent = Absent
    EnvKinds = {"edit", "credential"}
    MaxFaults = 1
    MaxCrashes = 1
    MaxEdits = 1
CONSTRAINT OneFailure
PROPERTIES
    DeletionCompletes
    SpecReachesTargets
