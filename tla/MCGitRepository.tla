-------------------------- MODULE MCGitRepository --------------------------
(* Small instances of GitRepositoryController for TLC.                     *)
EXTENDS GitRepositoryCleanPasses, TLC

\* The GitRepositories are interchangeable: same name, same specs to choose from.
Symmetry == Permutations(GitRepos)

\* Every GitRepository is called the same, in namespaces of its own.
SharedName == [g \in GitRepos |-> CHOOSE n \in Names : TRUE]

\* One spec that names every ControlPlane, one that names none.
AllOrNone == {[names |-> ControlPlanes, byLabel |-> FALSE, rev |-> 1],
              [names |-> {}, byLabel |-> FALSE, rev |-> 2]}

\* Names every ControlPlane at two revisions.
TwoRevisions == {[names |-> ControlPlanes, byLabel |-> FALSE, rev |-> r] : r \in {1, 2}}

\* A fixed target, all of them by label, and none: the same ControlPlane may be
\* named and labelled.
NamedAndLabelled ==
    LET cp == CHOOSE c \in ControlPlanes : TRUE
    IN  {[names |-> {cp}, byLabel |-> FALSE, rev |-> 1],
         [names |-> {cp}, byLabel |-> TRUE, rev |-> 1],
         [names |-> ControlPlanes, byLabel |-> FALSE, rev |-> 2]}

\* Bound: one failure in all, of a call or of the process, whatever follows it.
OneFailure == faults + crashes >= MaxFaults + MaxCrashes - 1

=============================================================================
