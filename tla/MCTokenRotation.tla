-------------------------- MODULE MCTokenRotation --------------------------
(* A small instance of TokenRotation for TLC.                              *)
EXTENDS TokenRotation

\* Bound: where passes are bound to fail, neither a second obstacle nor an outage follows,
\* and the story ends with the first token that expires.
OneObstacle ==
    Obstructed => /\ ~down /\ (\A i \in denied : denied = {i} /\ ~crowded)
                  /\ \A i \in Targets : token[i] # 0

=============================================================================
