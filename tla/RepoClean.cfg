SPECIFICATION Spec
CONSTANTS
    g1 = g1
    c1 = c1
    c2 = c2
    n1 = n1
    GitRepos = {g1}
    ControlPlanes = {c1, c2}
    Names = {n1}
    NameOf <- SharedName
    SpecChoices <- NamedAndLabelled
    Manual = Manual
    Absent = Absent
    EnvKinds = {"edit", "relabel", "credential", "deny"}
    MaxFaults = 0
    MaxCrashes = 0
    MaxEdits = 3
INVARIANTS
    TypeOK
    ReadyMeansPropagated
    ReadyListsEveryTarget
    CleanPassInv
PROPERTIES
    DeletionCleansTargets
