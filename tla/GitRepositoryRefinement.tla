---------------------- MODULE GitRepositoryRefinement ----------------------
(* The GitRepository controller keeps the promises of PropagationContract. *)
EXTENDS GitRepositoryController

\* A GitRepository is adopted once it has the finalizer.
Life(r) == IF ~r.exists THEN "none"
           ELSE IF r.deleting THEN "leaving"
           ELSE IF r.finalizer THEN "adopted"
           ELSE "declared"

\* Of the objects in a ControlPlane the contract sees the owner.
OwnersIn(slots) == [cp \in ControlPlanes |-> [n \in Names |-> slots[cp][n].owner]]

lives  == [g \in GitRepos |-> Life(repo[g])]
wishes == [g \in GitRepos |-> repo[g].spec.names]
tokenOwners == OwnersIn(secret)
fluxOwners  == OwnersIn(flux)

Contract == INSTANCE PropagationContract
                WITH life <- lives, wanted <- wishes, token <- tokenOwners, flux <- fluxOwners,
                     acts <- edits

\* Every behaviour of the controller, its failures, crashes and races included, is one
\* of the contract: whatever is written, removed or given up, the GitRepository in whose
\* name it happens is in the stage of its life, has the access and owns the object that
\* the contract asks for, although the worker looked at all three some calls earlier.
\* The acts of users are the edits, which no step of the worker takes from.
RefinesContract == Contract!Spec

-----------------------------------------------------------------------------
(* Why: what a pass has found out stays true until it is done.             *)

\* Access that Resolve found granted is there until this pass gives it up.
AccessHeld ==
    pc \notin CleanupSteps \cup {"idle"}
        => \A cp \in ControlPlanes :
              work.reach[cp] = "cluster" => access[work.repo][cp] = "granted"

\* Only a target with a cluster client gets a token.
TargetReached == pc \in {"mint", "secret", "flux"} => work.reach[work.target] = "cluster"

\* Nobody revives an object with a deletionTimestamp.
StillLeaving == pc # "idle" /\ work.deleting => repo[work.repo].deleting

PassInv == AccessHeld /\ TargetReached /\ StillLeaving /\ CleanupHitsOwn

=============================================================================
