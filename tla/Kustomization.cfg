SPECIFICATION FairSpec
CONSTANTS
    k1 = k1
    k2 = k2
    s1 = s1
    s2 = s2
    NoKust = NoKust
    Kusts = {k1, k2}
    Sources = {s1, s2}
    Revisions = {1, 2}
    SpecChoices <- OneFixed
    MaxEdits = 1
    MaxFailures = 1
CHECK_DEADLOCK FALSE
INVARIANTS
    TypeOK
    NothingOverlooked
    InductiveInv
PROPERTIES
    ComesToRest
