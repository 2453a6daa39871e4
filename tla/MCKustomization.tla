--------------------------- MODULE MCKustomization ---------------------------
(* Small instances of KustomizationController for TLC.                     *)
EXTENDS KustomizationController, TLC

\* One Kustomization stays with the first source; the others have another revision
\* (interval) and may choose any source.
OneFixed ==
    LET first == CHOOSE k \in Kusts : TRUE
        home  == CHOOSE s \in Sources : TRUE
    IN  [k \in Kusts |-> IF k = first THEN {[source |-> home, rev |-> 1]}
                         ELSE {[source |-> s, rev |-> 2] : s \in Sources}]

=============================================================================
