---------------------- MODULE GitRepositoryCleanPasses ----------------------
(***************************************************************************)
(* What the GitRepository controller achieves when no call fails and no    *)
(* process dies in the middle of a pass: inductive invariants that bring   *)
(* the status, the AccessRequests and the objects in the ControlPlanes     *)
(* together.  Names must be unique where two GitRepositories would write   *)
(* into one slot, and no user may touch the slots.                         *)
(***************************************************************************)
EXTENDS GitRepositoryRefinement

UniqueNames == \A g, h \in GitRepos : NameOf[g] = NameOf[h] => g = h

-----------------------------------------------------------------------------
(* No call fails, crashes may happen: the status lists every target.       *)

PropagateSteps == {"adopt", "credential", "target", "mint", "secret", "flux",
                   "patchReady", "patchUnresolved"}

\* A pass that patches the status was started for an object that was not leaving, and
\* while nobody else wrote the object it still is not.
LeavingNoticed ==
    /\ pc \in PropagateSteps => ~work.deleting
    /\ pc # "idle" /\ work.fresh /\ repo[work.repo].deleting => work.deleting

\* The targets are the names of the spec, and what the label selects; the loop gives an
\* entry to each.
EveryTargetListed ==
    /\ pc \in {"adopt", "credential", "list"} => work.todo = {} /\ Targets = {}
    /\ pc = "readAccess" => work.target \in work.todo
    /\ work.spec.byLabel \/ work.todo \cup Targets \subseteq work.spec.names
    /\ pc \in {"target", "mint", "secret", "flux"} =>
          /\ work.spec.names \subseteq Targets
          /\ \A cp \in Targets \ work.todo : work.propagated[cp] # "NoEntry"

\* Only a denied AccessRequest makes a pass give up, and it stays denied until then.
OnlyDenialGivesUp ==
    /\ pc = "readAccess" => access[work.repo][work.target] # "none"
    /\ pc = "patchReady" => \E cp \in ControlPlanes : access[work.repo][cp] = "denied"

\* A Ready status is complete, and that of an object that is leaving is never of its
\* current generation: the cleanup takes denied AccessRequests away.
StatusHonest ==
    /\ \A g \in GitRepos : repo[g].deleting => ~repo[g].observed
    /\ ReadyListsEveryTarget

ListInv == LeavingNoticed /\ EveryTargetListed /\ OnlyDenialGivesUp /\ StatusHonest

-----------------------------------------------------------------------------
(* No call fails and nothing crashes: cleanup finds all there is.          *)

Owned(g, cp) == SecretOf(g, cp).owner = g \/ FluxOf(g, cp).owner = g

\* reconcileDelete is between the AccessRequest and the Secret of the target cp of g.
CleansUp(g, cp) ==
    /\ pc \in {"fluxGet", "fluxDelete", "secretGet", "secretDelete"}
    /\ work.repo = g /\ work.target = cp

\* What g has in a ControlPlane it can reach, unless it is being cleaned up right now.
OwnedWithinReach ==
    \A g \in GitRepos, cp \in ControlPlanes :
        Owned(g, cp) => access[g][cp] = "granted" \/ CleansUp(g, cp)

\* A target whose access was still pending has nothing of this GitRepository; and the
\* cleanup goes through targets only.
PendingOwnsNothing ==
    /\ pc # "idle" => \A cp \in ControlPlanes :
                         work.reach[cp] = "pending" => ~Owned(work.repo, cp)
    /\ pc \in CleanupSteps => work.todo \subseteq Targets

\* The cleanup of a target takes the Flux GitRepository first, and no step of it fails.
FluxGoesFirst ==
    /\ pc \in {"secretGet", "secretDelete"} => FluxOf(work.repo, work.target).owner # work.repo
    /\ ~work.failed

CleanupInv == OwnedWithinReach /\ PendingOwnsNothing /\ FluxGoesFirst

-----------------------------------------------------------------------------
(* In addition names are unique and users stay away: Ready is true.        *)

\* Nobody else is in the slots of g.
SlotsAreOwn ==
    \A g \in GitRepos, cp \in ControlPlanes :
        {SecretOf(g, cp).owner, FluxOf(g, cp).owner} \subseteq {g, Absent}

\* A Secret comes with its Flux GitRepository, except between the two writes of a pass,
\* and between the two deletes of a cleanup.
TokenWithFlux ==
    /\ \A g \in GitRepos, cp \in ControlPlanes :
          SecretOf(g, cp).owner = g
          => \/ FluxOf(g, cp).owner = g
             \/ /\ pc \in {"flux", "secretGet", "secretDelete"}
                /\ work.repo = g /\ work.target = cp
    /\ pc = "flux" => SecretOf(work.repo, work.target).owner = work.repo

\* The entries the worker has in hand are true as well.
ReadyInHand ==
    pc # "idle" /\ ~work.deleting =>
        \A cp \in ControlPlanes :
            work.propagated[cp] = "Ready"
            => SecretOf(work.repo, cp).owner = work.repo /\ FluxOf(work.repo, cp).owner = work.repo

ReadyInv == SlotsAreOwn /\ TokenWithFlux /\ ReadyInHand /\ ReadyMeansPropagated

\* The three together, for an instance without failures and with unique names.
CleanPassInv == ListInv /\ CleanupInv /\ ReadyInv

-----------------------------------------------------------------------------
(* And if the targets never change: nothing is ever left behind.           *)

\* No spec selects by label, and an edit does not change the names.
FixedTargets ==
    /\ \A s \in SpecChoices : ~s.byLabel
    /\ "edit" \in EnvKinds => \A s, t \in SpecChoices : s.names = t.names

\* The targets of a pass are those of the object.
TargetsKnown ==
    /\ \A g \in GitRepos : repo[g].exists => repo[g].spec \in SpecChoices
    /\ pc \notin {"idle", "adopt"} =>
          work.spec \in SpecChoices /\ work.spec.names = repo[work.repo].spec.names

\* What there is of g is in the ControlPlanes it names, and g cannot vanish.
NothingAstray ==
    \A g \in GitRepos : LeftBy(g) # {} =>
        repo[g].finalizer /\ LeftBy(g) \subseteq repo[g].spec.names

AstrayInv == TargetsKnown /\ NothingAstray

=============================================================================
