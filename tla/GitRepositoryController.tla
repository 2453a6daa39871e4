---------------------- MODULE GitRepositoryController ----------------------
(***************************************************************************)
(* The GitRepository controller: it takes a GitRepository object of the    *)
(* onboarding cluster, asks the platform cluster for access to every       *)
(* ControlPlane the object names, and writes into each of them a Secret    *)
(* with a GitHub token and a Flux GitRepository that uses it.              *)
(*                                                                         *)
(* One worker runs Reconcile, one object at a time.  A step of the worker  *)
(* is the code between two calls to an API server, together with the call  *)
(* that ends it: users, the access provider, time and crashes come between *)
(* any two steps.  A Get followed by a Create or an Update of the same     *)
(* object is one step, because the server refuses a write based on a stale *)
(* read; a Get followed by a Delete is two, because Delete carries no      *)
(* precondition.  All reads are of the live object (no client has a cache).*)
(***************************************************************************)
EXTENDS Naturals

CONSTANTS
    GitRepos,       \* GitRepository objects, each a (namespace, name) pair
    Names,          \* the metadata.name part of such a pair
    NameOf,         \* GitRepos -> Names; two namespaces may use one name
    ControlPlanes,  \* the MCPs
    SpecChoices,    \* the specs users write
    Manual,         \* the owner of an object somebody made by hand
    Absent,         \* the owner of an empty slot
    EnvKinds,       \* which of AllEnvKinds happen in this instance
    MaxFaults,      \* bound on API calls that fail
    MaxCrashes,     \* bound on process crashes
    MaxEdits        \* bound on edits by users (specs, labels, credentials, objects)

AllEnvKinds == {"edit", "relabel", "credential", "deny", "manual"}

\* The part of GitRepositorySpec the worker reads: the explicit names of
\* propagateTo, whether it has a matchLabels entry, and the url and ref, as the
\* number of a revision.
PropagateSpecs == [names : SUBSET ControlPlanes, byLabel : BOOLEAN, rev : Nat]

ASSUME NamesAssumption == NameOf \in [GitRepos -> Names]
ASSUME SpecsAssumption == SpecChoices \subseteq PropagateSpecs
ASSUME OwnersAssumption ==
    Manual # Absent /\ {Manual, Absent} \cap (GitRepos \cup ControlPlanes) = {}
ASSUME EnvAssumption == EnvKinds \subseteq AllEnvKinds
ASSUME BoundsAssumption == {MaxFaults, MaxCrashes, MaxEdits} \subseteq Nat

VARIABLES
    repo,       \* the GitRepository objects on the onboarding cluster
    access,     \* the AccessRequest of each (GitRepository, ControlPlane)
    installed,  \* the GitRepositories whose AppInstallation is ready
    labelled,   \* the ControlPlanes that matchLabels selects
    secret,     \* in each MCP, the Secret <name>-token
    flux,       \* in each MCP, the Flux GitRepository <name>
    pc,         \* where the worker is in Reconcile
    work,       \* the local variables of Reconcile
    faults,     \* API failures left
    crashes,    \* crashes left
    edits       \* edits left

cluster == <<repo, access, installed, labelled>>
mcp     == <<secret, flux>>
budgets == <<faults, crashes, edits>>
vars    == <<cluster, mcp, pc, work, budgets>>

-----------------------------------------------------------------------------
(* Objects.                                                                *)

Phases      == {"Pending", "Ready", "TokenFailed", "Conflict"}
StatusLists == [ControlPlanes -> Phases \cup {"NoEntry"}]
EmptyStatus == [cp \in ControlPlanes |-> "NoEntry"]
EmptySpec   == [names |-> {}, byLabel |-> FALSE, rev |-> 0]

\* ready stands for the conditions Ready and CredentialResolved, which every
\* status patch sets to the same value; observed says whether
\* status.observedGeneration is the current metadata.generation.
Repos == [exists : BOOLEAN, finalizer : BOOLEAN, deleting : BOOLEAN,
          spec : PropagateSpecs, ready : {"Unset", "True", "False"},
          observed : BOOLEAN, propagated : StatusLists]

NoRepo == [exists |-> FALSE, finalizer |-> FALSE, deleting |-> FALSE,
           spec |-> EmptySpec, ready |-> "Unset",
           observed |-> FALSE, propagated |-> EmptyStatus]

Owners   == GitRepos \cup {Manual, Absent}
Secrets  == [owner : Owners, due : BOOLEAN]   \* due: within the renew buffer
NoSecret == [owner |-> Absent, due |-> FALSE]
FluxGRs  == [owner : Owners, rev : Nat]
NoFlux   == [owner |-> Absent, rev |-> 0]

\* The slots of g in the MCP cp.
SecretOf(g, cp) == secret[cp][NameOf[g]]
FluxOf(g, cp)   == flux[cp][NameOf[g]]

-----------------------------------------------------------------------------
(* The worker's local state.                                               *)

Steps == {"idle", "adopt", "credential", "list", "access", "readAccess",
          "target", "mint", "secret", "flux", "patchReady", "patchUnresolved",
          "cleanup", "fluxGet", "fluxDelete", "secretGet", "secretDelete"}

TargetSteps == {"readAccess", "mint", "secret", "flux",
                "fluxGet", "fluxDelete", "secretGet", "secretDelete"}

\* reach[cp]: "no" - not a resolved target; "pending" - a target with Pending set;
\* "cluster" - a target with a cluster client.
Works == [repo : GitRepos \cup {Absent},
          fresh : BOOLEAN,          \* the object still has the fetched version
          deleting : BOOLEAN,       \* it was fetched with a deletionTimestamp
          spec : PropagateSpecs,    \* the fetched spec
          propagated : StatusLists, \* the in-memory status.propagated
          todo : SUBSET ControlPlanes,
          target : ControlPlanes \cup {Absent},
          reach : [ControlPlanes -> {"no", "pending", "cluster"}],
          failed : BOOLEAN]         \* cleanupErrs is not empty

NoWork == [repo |-> Absent, fresh |-> TRUE, deleting |-> FALSE, spec |-> EmptySpec,
           propagated |-> EmptyStatus, todo |-> {}, target |-> Absent,
           reach |-> [cp \in ControlPlanes |-> "no"], failed |-> FALSE]

\* The ControlPlanes of the list that Resolve returns.
Targets == {cp \in ControlPlanes : work.reach[cp] # "no"}

Init ==
    /\ repo = [g \in GitRepos |-> NoRepo]
    /\ access = [g \in GitRepos |-> [cp \in ControlPlanes |-> "none"]]
    /\ installed = GitRepos
    /\ labelled = {}
    /\ secret = [cp \in ControlPlanes |-> [n \in Names |-> NoSecret]]
    /\ flux = [cp \in ControlPlanes |-> [n \in Names |-> NoFlux]]
    /\ pc = "idle"
    /\ work = NoWork
    /\ faults = MaxFaults
    /\ crashes = MaxCrashes
    /\ edits = MaxEdits

-----------------------------------------------------------------------------
(* Helpers of the worker's actions.                                        *)

\* An API call that succeeds, and one that fails without effect.
Ok    == UNCHANGED budgets
Fault == faults > 0 /\ faults' = faults - 1 /\ UNCHANGED <<crashes, edits>>

At(step)   == pc = step
Goto(step) == pc' = step

\* Reconcile returns; every return leaves the object queued, at once or later.
Return == Goto("idle") /\ work' = NoWork

\* reconcileTarget returns, and setPropagateStatus replaces or adds the entry of cp.
Report(cp, phase) ==
    /\ Goto("target")
    /\ work' = [work EXCEPT !.propagated[cp] = phase, !.todo = @ \ {cp}, !.target = Absent]

\* Mutant: the entries of removed targets stay.
KeepPropagateStatus(list) == list

\* filterPropagateStatus: only the entries of the resolved targets stay.
FilterPropagateStatus(list) ==
    [cp \in ControlPlanes |-> IF cp \in Targets THEN list[cp] ELSE "NoEntry"]

\* Resolve returns an error: reconcileDelete gives up, reconcilePropagate returns
\* early, with status.propagated as it was fetched.
ResolveError ==
    IF work.deleting THEN Return
    ELSE Goto("patchReady") /\ work' = [work EXCEPT !.target = Absent]

\* An Update carries the fetched resourceVersion: the server refuses it once the
\* object has changed.  Mutant: a Patch, which it does not refuse.
PatchAccepted  == TRUE
UpdateAccepted == work.fresh

\* Mutants: a missing Secret is not noticed; a token that comes due is not.
DueSecret(g, cp)     == SecretOf(g, cp).due
MissingSecret(g, cp) == SecretOf(g, cp).owner \in {Absent, Manual}

\* The Secret is missing, has no expiry annotation, or expires within the buffer.
NeedsRotation(g, cp) ==
    \/ SecretOf(g, cp).owner \in {Absent, Manual}
    \/ SecretOf(g, cp).due

-----------------------------------------------------------------------------
(* Reconcile: fetch, finalizer, credential.                                *)

\* Mutants: no finalizer; the credential is looked at before the deletionTimestamp.
StepWithoutFinalizer(r)  == IF r.deleting THEN "list" ELSE "credential"
StepCredentialFirst(r)   == IF r.finalizer THEN "credential" ELSE "adopt"

\* Where Reconcile goes with the object r it fetched.
StepAfterFetch(r) ==
    IF r.deleting THEN "list" ELSE IF r.finalizer THEN "credential" ELSE "adopt"

Fetch(g) ==
    /\ At("idle")
    /\ repo[g].exists
    /\ Goto(StepAfterFetch(repo[g]))
    /\ work' = [NoWork EXCEPT !.repo = g, !.deleting = repo[g].deleting,
                              !.spec = repo[g].spec, !.propagated = repo[g].propagated]
    /\ UNCHANGED <<cluster, mcp, budgets>>

AddFinalizer ==
    /\ At("adopt")
    /\ \/ UpdateAccepted /\ repo' = [repo EXCEPT ![work.repo].finalizer = TRUE] /\ Ok
       \/ ~UpdateAccepted /\ UNCHANGED repo /\ Ok
       \/ UNCHANGED repo /\ Fault
    /\ Return
    /\ UNCHANGED <<access, installed, labelled, mcp>>

ResolveCredential ==
    /\ At("credential")
    /\ \/ work.repo \in installed /\ Goto("list") /\ Ok
       \/ work.repo \notin installed /\ Goto("patchUnresolved") /\ Ok
       \/ Goto("patchUnresolved") /\ Fault
    /\ UNCHANGED <<cluster, mcp, work>>

-----------------------------------------------------------------------------
(* Resolver.Resolve, for both modes.                                       *)

\* resolveNames: only a matchLabels entry calls the server.
ResolveNames ==
    /\ At("list")
    /\ \/ /\ Goto("access")
          /\ work' = [work EXCEPT !.todo = @ \cup work.spec.names
                          \cup (IF work.spec.byLabel THEN labelled ELSE {})]
          /\ Ok
       \/ work.spec.byLabel /\ ResolveError /\ Fault
    /\ UNCHANGED <<cluster, mcp>>

\* ensureAccessRequest: an existing AccessRequest is left as it is.
EnsureAccessRequest ==
    /\ At("access")
    /\ \E cp \in work.todo :
          \/ /\ Goto("readAccess")
             /\ work' = [work EXCEPT !.target = cp]
             /\ access' = [access EXCEPT ![work.repo][cp] = IF @ = "none" THEN "pending" ELSE @]
             /\ Ok
          \/ ResolveError /\ UNCHANGED access /\ Fault
    /\ UNCHANGED <<repo, installed, labelled, mcp>>

\* The rest of resolveOne.  A fault is a failed read of the AccessRequest or of
\* the kubeconfig Secret.
ReadAccessRequest ==
    /\ At("readAccess")
    /\ LET cp == work.target
           Resolved(r) == /\ Goto("access")
                          /\ work' = [work EXCEPT !.reach[cp] = r, !.todo = @ \ {cp},
                                                  !.target = Absent]
       IN  \/ access[work.repo][cp] = "pending" /\ Resolved("pending") /\ Ok
           \/ access[work.repo][cp] = "granted" /\ Resolved("cluster") /\ Ok
           \/ access[work.repo][cp] \notin {"pending", "granted"} /\ ResolveError /\ Ok
           \/ ResolveError /\ Fault
    /\ UNCHANGED <<cluster, mcp>>

-----------------------------------------------------------------------------
(* reconcilePropagate, reconcileTarget and propagate.Reconcile.            *)

\* resolveGitHubCreds and NewClient.
ResolveGitHubCreds ==
    /\ At("access") /\ work.todo = {} /\ ~work.deleting
    /\ \/ Goto("target") /\ work' = [work EXCEPT !.todo = Targets] /\ Ok
       \/ Goto("patchReady") /\ UNCHANGED work /\ Fault
    /\ UNCHANGED <<cluster, mcp>>

Rotate(cp) == Goto("mint") /\ work' = [work EXCEPT !.target = cp]

\* The Secret cannot be read.  Mutant: that counts as "rotation needed".
RotateUnread(cp) == Rotate(cp)
SkipUnread(cp)   == Report(cp, "Ready")

StartTarget ==
    /\ At("target")
    /\ \E cp \in work.todo :
          \/ work.reach[cp] = "pending" /\ Report(cp, "Pending") /\ Ok
          \/ /\ work.reach[cp] = "cluster"
             /\ \/ ~NeedsRotation(work.repo, cp) /\ Report(cp, "Ready") /\ Ok
                \/ NeedsRotation(work.repo, cp) /\ Rotate(cp) /\ Ok
                \/ SkipUnread(cp) /\ Fault
    /\ UNCHANGED <<cluster, mcp>>

MintScopedToken ==
    /\ At("mint")
    /\ \/ Goto("secret") /\ UNCHANGED work /\ Ok
       \/ Report(work.target, "TokenFailed") /\ Fault
    /\ UNCHANGED <<cluster, mcp>>

\* Whatever the slot holds, it is written over.
SyncSecret ==
    /\ At("secret")
    /\ \/ /\ secret' = [secret EXCEPT ![work.target][NameOf[work.repo]] =
                           [owner |-> work.repo, due |-> FALSE]]
          /\ Goto("flux")
          /\ UNCHANGED work
          /\ Ok
       \/ Report(work.target, "TokenFailed") /\ UNCHANGED secret /\ Fault
    /\ UNCHANGED <<cluster, flux>>

\* The Flux GitRepository is absent, or its managed-by annotation names this object.
\* Mutant: any managed-by annotation will do.
AnyManagedBy(owner)  == owner # Manual
MayWriteFlux(owner)  == owner \in {Absent, work.repo}

SyncFluxGitRepository ==
    /\ At("flux")
    /\ LET owner == FluxOf(work.repo, work.target).owner
       IN  \/ /\ MayWriteFlux(owner)
              /\ flux' = [flux EXCEPT ![work.target][NameOf[work.repo]] =
                             [owner |-> work.repo, rev |-> work.spec.rev]]
              /\ Report(work.target, "Ready")
              /\ Ok
           \/ ~MayWriteFlux(owner) /\ Report(work.target, "Conflict") /\ UNCHANGED flux /\ Ok
           \/ Report(work.target, "TokenFailed") /\ UNCHANGED flux /\ Fault
    /\ UNCHANGED <<cluster, secret>>

\* The status patch that ends a pass.  It has no precondition; its generation is
\* the fetched one.  A pass that got through its targets drops the entries of others.
PatchStatus ==
    /\ At("patchReady") \/ At("patchUnresolved") \/ (At("target") /\ work.todo = {})
    /\ \/ /\ repo' = [repo EXCEPT ![work.repo] =
                 [@ EXCEPT !.ready = IF At("patchUnresolved") THEN "False" ELSE "True",
                           !.observed = work.fresh,
                           !.propagated = IF At("target")
                                          THEN FilterPropagateStatus(work.propagated)
                                          ELSE work.propagated]]
          /\ Ok
       \/ UNCHANGED repo /\ Fault
    /\ Return
    /\ UNCHANGED <<access, installed, labelled, mcp>>

-----------------------------------------------------------------------------
(* reconcileDelete and propagate.Cleanup.                                  *)

StartCleanup ==
    /\ At("access") /\ work.todo = {} /\ work.deleting
    /\ Goto("cleanup")
    /\ work' = [work EXCEPT !.todo = Targets]
    /\ UNCHANGED <<cluster, mcp, budgets>>

\* A target whose access is pending is done after its AccessRequest.
CleanupAccessRequest ==
    /\ At("cleanup")
    /\ \E cp \in work.todo :
          LET Done(err) ==
                  /\ Goto(IF work.reach[cp] = "cluster" THEN "fluxGet" ELSE "cleanup")
                  /\ work' = [work EXCEPT
                                 !.target = IF work.reach[cp] = "cluster" THEN cp ELSE Absent,
                                 !.todo = @ \ {cp},
                                 !.failed = @ \/ err]
          IN  \/ access' = [access EXCEPT ![work.repo][cp] = "none"] /\ Done(FALSE) /\ Ok
              \/ UNCHANGED access /\ Done(TRUE) /\ Fault
    /\ UNCHANGED <<repo, installed, labelled, mcp>>

\* The managed-by annotation names this object.  Mutant: there is one.
IsAnnotated(owner) == owner \in GitRepos
IsOurs(owner)      == owner = work.repo

\* A failed Get counts as "nothing of ours there".
CleanupGetFlux ==
    /\ At("fluxGet")
    /\ LET owner == FluxOf(work.repo, work.target).owner
       IN  \/ IsOurs(owner) /\ Goto("fluxDelete") /\ Ok
           \/ ~IsOurs(owner) /\ Goto("secretGet") /\ Ok
           \/ Goto("secretGet") /\ Fault
    /\ UNCHANGED <<cluster, mcp, work>>

\* The Delete goes by name alone.  When it fails, the Secret is not looked at.
CleanupDeleteFlux ==
    /\ At("fluxDelete")
    /\ \/ /\ flux' = [flux EXCEPT ![work.target][NameOf[work.repo]] = NoFlux]
          /\ Goto("secretGet") /\ UNCHANGED work /\ Ok
       \/ /\ Goto("cleanup")
          /\ work' = [work EXCEPT !.target = Absent, !.failed = TRUE]
          /\ UNCHANGED flux /\ Fault
    /\ UNCHANGED <<cluster, secret>>

CleanupGetSecret ==
    /\ At("secretGet")
    /\ LET Done == Goto("cleanup") /\ work' = [work EXCEPT !.target = Absent]
           owner == SecretOf(work.repo, work.target).owner
       IN  \/ IsOurs(owner) /\ Goto("secretDelete") /\ UNCHANGED work /\ Ok
           \/ ~IsOurs(owner) /\ Done /\ Ok
           \/ Done /\ Fault
    /\ UNCHANGED <<cluster, mcp>>

CleanupDeleteSecret ==
    /\ At("secretDelete")
    /\ Goto("cleanup")
    /\ \/ /\ secret' = [secret EXCEPT ![work.target][NameOf[work.repo]] = NoSecret]
          /\ work' = [work EXCEPT !.target = Absent] /\ Ok
       \/ /\ work' = [work EXCEPT !.target = Absent, !.failed = TRUE]
          /\ UNCHANGED secret /\ Fault
    /\ UNCHANGED <<cluster, flux>>

\* Mutant: the errors are logged and forgotten.
ErrorsIgnored   == TRUE
NoCleanupErrors == ~work.failed

\* With no error in the list the finalizer goes, and the object with it.
RemoveFinalizer ==
    /\ At("cleanup") /\ work.todo = {}
    /\ \/ /\ NoCleanupErrors /\ UpdateAccepted
          /\ repo' = [repo EXCEPT ![work.repo] = NoRepo]
          /\ Ok
       \/ ~(NoCleanupErrors /\ UpdateAccepted) /\ UNCHANGED repo /\ Ok
       \/ NoCleanupErrors /\ UNCHANGED repo /\ Fault
    /\ Return
    /\ UNCHANGED <<access, installed, labelled, mcp>>

\* The process dies, or loses its lease: the call in flight has or has not been made.
Crash ==
    /\ crashes > 0 /\ ~At("idle")
    /\ crashes' = crashes - 1
    /\ Return
    /\ UNCHANGED <<cluster, mcp, faults, edits>>

-----------------------------------------------------------------------------
(* The environment: users, the access provider, time.                      *)

\* A write of g by someone else: what the worker fetched is no longer current.
Touch(g) ==
    /\ work' = IF work.repo = g THEN [work EXCEPT !.fresh = FALSE] ELSE work
    /\ UNCHANGED pc

Edit(kind) ==
    /\ kind \in EnvKinds /\ edits > 0
    /\ edits' = edits - 1
    /\ UNCHANGED <<faults, crashes>>

CreateRepo(g, s) ==
    /\ ~repo[g].exists
    /\ repo' = [repo EXCEPT ![g] = [NoRepo EXCEPT !.exists = TRUE, !.spec = s]]
    /\ UNCHANGED <<access, installed, labelled, mcp, pc, work, budgets>>

EditSpec(g, s) ==
    /\ repo[g].exists /\ repo[g].spec # s
    /\ repo' = [repo EXCEPT ![g] = [@ EXCEPT !.spec = s, !.observed = FALSE]]
    /\ Touch(g)
    /\ Edit("edit")
    /\ UNCHANGED <<access, installed, labelled, mcp>>

DeleteRepo(g) ==
    /\ repo[g].exists /\ ~repo[g].deleting
    /\ repo' = [repo EXCEPT ![g] = IF @.finalizer
                                   THEN [@ EXCEPT !.deleting = TRUE, !.observed = FALSE]
                                   ELSE NoRepo]
    /\ Touch(g)
    /\ UNCHANGED <<access, installed, labelled, mcp, budgets>>

Grant(g, cp) ==
    /\ access[g][cp] = "pending"
    /\ access' = [access EXCEPT ![g][cp] = "granted"]
    /\ UNCHANGED <<repo, installed, labelled, mcp, pc, work, budgets>>

Deny(g, cp) ==
    /\ "deny" \in EnvKinds
    /\ access[g][cp] = "pending"
    /\ access' = [access EXCEPT ![g][cp] = "denied"]
    /\ UNCHANGED <<repo, installed, labelled, mcp, pc, work, budgets>>

CredentialChanges(g) ==
    /\ installed' = IF g \in installed THEN installed \ {g} ELSE installed \cup {g}
    /\ Edit("credential")
    /\ UNCHANGED <<repo, access, labelled, mcp, pc, work>>

Relabel(cp) ==
    /\ labelled' = IF cp \in labelled THEN labelled \ {cp} ELSE labelled \cup {cp}
    /\ Edit("relabel")
    /\ UNCHANGED <<repo, access, installed, mcp, pc, work>>

TokenComesDue(cp, n) ==
    /\ secret[cp][n].owner \in GitRepos /\ ~secret[cp][n].due
    /\ secret' = [secret EXCEPT ![cp][n].due = TRUE]
    /\ UNCHANGED <<cluster, flux, pc, work, budgets>>

\* Somebody with access to the MCP creates or deletes an object in a slot.
ManualSecret(cp, n) ==
    /\ secret' = [secret EXCEPT ![cp][n] =
           IF @.owner = Absent THEN [owner |-> Manual, due |-> FALSE] ELSE NoSecret]
    /\ Edit("manual")
    /\ UNCHANGED <<cluster, flux, pc, work>>

ManualFlux(cp, n) ==
    /\ flux' = [flux EXCEPT ![cp][n] =
           IF @.owner = Absent THEN [owner |-> Manual, rev |-> 0] ELSE NoFlux]
    /\ Edit("manual")
    /\ UNCHANGED <<cluster, secret, pc, work>>

-----------------------------------------------------------------------------
(* The specification.                                                      *)

\* The steps of a Reconcile under way.
WorkerStep ==
    \/ AddFinalizer \/ ResolveCredential
    \/ ResolveNames \/ EnsureAccessRequest \/ ReadAccessRequest
    \/ ResolveGitHubCreds \/ StartTarget \/ MintScopedToken
    \/ SyncSecret \/ SyncFluxGitRepository \/ PatchStatus
    \/ StartCleanup \/ CleanupAccessRequest
    \/ CleanupGetFlux \/ CleanupDeleteFlux \/ CleanupGetSecret \/ CleanupDeleteSecret
    \/ RemoveFinalizer

Environment ==
    \/ \E g \in GitRepos :
          \/ \E s \in SpecChoices : CreateRepo(g, s) \/ EditSpec(g, s)
          \/ DeleteRepo(g) \/ CredentialChanges(g)
          \/ \E cp \in ControlPlanes : Grant(g, cp) \/ Deny(g, cp)
    \/ \E cp \in ControlPlanes :
          \/ Relabel(cp)
          \/ \E n \in Names : TokenComesDue(cp, n) \/ ManualSecret(cp, n) \/ ManualFlux(cp, n)

Next == (\E g \in GitRepos : Fetch(g)) \/ WorkerStep \/ Crash \/ Environment

Spec == Init /\ [][Next]_vars

\* A Reconcile under way goes on.  Every return requeues the object (10 minutes
\* at most, or the error backoff), and the queue is first-in first-out: an object
\* that can be fetched again and again is.  The provider answers a pending
\* AccessRequest, and time brings every token within the renew buffer.
Fairness ==
    /\ WF_vars(WorkerStep)
    /\ \A g \in GitRepos : SF_vars(Fetch(g))
    /\ \A g \in GitRepos, cp \in ControlPlanes : WF_vars(Grant(g, cp) \/ Deny(g, cp))
    /\ \A cp \in ControlPlanes, n \in Names : WF_vars(TokenComesDue(cp, n))

FairSpec == Spec /\ Fairness

-----------------------------------------------------------------------------
(* Properties.                                                             *)

ClusterTypeOK ==
    /\ repo \in [GitRepos -> Repos]
    /\ \A g \in GitRepos : /\ repo[g].finalizer => repo[g].exists
                           /\ repo[g].deleting => repo[g].finalizer
    /\ access \in [GitRepos -> [ControlPlanes -> {"none", "pending", "granted", "denied"}]]
    /\ installed \subseteq GitRepos
    /\ labelled \subseteq ControlPlanes

McpTypeOK ==
    /\ secret \in [ControlPlanes -> [Names -> Secrets]]
    /\ flux \in [ControlPlanes -> [Names -> FluxGRs]]

WorkerTypeOK ==
    /\ pc \in Steps
    /\ work \in Works
    /\ pc # "idle" => work.repo \in GitRepos
    /\ pc \in TargetSteps => work.target \in ControlPlanes

BudgetTypeOK == faults \in Nat /\ crashes \in Nat /\ edits \in Nat

\* Every variable has its type, an object with the finalizer exists, one with a
\* deletionTimestamp has the finalizer, and a step on a target has a target.
TypeOK == ClusterTypeOK /\ McpTypeOK /\ WorkerTypeOK /\ BudgetTypeOK

\* Nothing is created outside the onboarding cluster for an object without the
\* finalizer: an AccessRequest, Secret or Flux GitRepository that becomes g's does
\* so while g carries it, so that g cannot vanish without reconcileDelete.
CreatedUnderFinalizer ==
    \A g \in GitRepos, cp \in ControlPlanes :
        \/ access[g][cp] = "none" /\ access'[g][cp] # "none"
        \/ SecretOf(g, cp).owner # g /\ SecretOf(g, cp)'.owner = g
        \/ FluxOf(g, cp).owner # g /\ FluxOf(g, cp)'.owner = g
        => repo[g].finalizer
CreatesUnderFinalizer == [][CreatedUnderFinalizer]_vars

\* The Flux GitRepository in a slot never changes hands: not from a user to the
\* controller, and not from one GitRepository to another of the same name.
FluxStaysWithOwner ==
    \A cp \in ControlPlanes, n \in Names :
        flux[cp][n].owner # Absent => flux'[cp][n].owner \in {flux[cp][n].owner, Absent}
FluxNeverTakenOver == [][FluxStaysWithOwner]_vars

\* Cleanup checks who owns an object and deletes it by its name one call later.  By then
\* the object may be a user's, but it is never another GitRepository's of the same name.
CleanupHitsOwn ==
    LET others == GitRepos \ {work.repo}
    IN  /\ pc = "fluxDelete" => FluxOf(work.repo, work.target).owner \notin others
        /\ pc = "secretDelete" => SecretOf(work.repo, work.target).owner \notin others

\* A token is minted and written only while the Secret in the MCP lacks a usable one,
\* whatever users, time and failed reads do between the check and the write.
MintOnlyWhenDue == pc \in {"mint", "secret"} => NeedsRotation(work.repo, work.target)

\* When the object goes, no AccessRequest remains for a ControlPlane its spec names,
\* also when the spec was edited, calls failed or the process died during cleanup.
AccessReleased ==
    \A g \in GitRepos :
        repo[g].finalizer /\ ~repo'[g].finalizer
        => \A cp \in repo[g].spec.names : access[g][cp] = "none"
ReleaseDropsAccess == [][AccessReleased]_vars

\* What g has outside the onboarding cluster.
LeftBy(g) ==
    {cp \in ControlPlanes : \/ access[g][cp] # "none"
                            \/ SecretOf(g, cp).owner = g
                            \/ FluxOf(g, cp).owner = g}

\* When no call fails, the object goes only after everything of its own is gone from
\* every ControlPlane that its spec names by then, those that an edit added while the
\* fetched targets were being cleaned up included.
CleanedTargets ==
    \A g \in GitRepos :
        repo[g].finalizer /\ ~repo'[g].finalizer => repo[g].spec.names \cap LeftBy(g) = {}
DeletionCleansTargets == [][CleanedTargets]_vars

\* After a GitRepository is gone nothing of it is left anywhere.
DeletionIsClean == \A g \in GitRepos : ~repo[g].exists => LeftBy(g) = {}

\* In particular no Flux GitRepository, the object that a target gets last.
FluxIsRemoved ==
    \A g \in GitRepos, cp \in ControlPlanes : ~repo[g].exists => FluxOf(g, cp).owner # g

\* Phase Ready ("Token and Flux GitRepository are up to date"): both objects are
\* in the MCP and are g's.
ReadyMeansPropagated ==
    \A g \in GitRepos, cp \in ControlPlanes :
        repo[g].propagated[cp] = "Ready" /\ ~repo[g].deleting
        => SecretOf(g, cp).owner = g /\ FluxOf(g, cp).owner = g

\* A Ready status of the current generation has an entry for every named target,
\* and for no other ControlPlane unless the spec selects by label.  A denied
\* AccessRequest is the exception: the pass then leaves the list as it was.
ReadyListsEveryTarget ==
    \A g \in GitRepos :
        /\ repo[g].observed /\ repo[g].ready = "True"
        /\ \A cp \in ControlPlanes : access[g][cp] # "denied"
        => LET listed == {cp \in ControlPlanes : repo[g].propagated[cp] # "NoEntry"}
           IN  /\ repo[g].spec.names \subseteq listed
               /\ repo[g].spec.byLabel \/ listed \subseteq repo[g].spec.names

\* A deleted GitRepository goes, though calls fail, the process dies or its AppInstallation
\* is not ready: all it takes is that failures come to an end.
DeletionCompletes == \A g \in GitRepos : repo[g].deleting ~> ~repo[g].exists

\* Once g stays as it is, with a ready credential, every ControlPlane it names ends
\* up with a Flux GitRepository of the current revision.
Wanted(g, cp) == /\ repo[g].exists /\ ~repo[g].deleting
                 /\ cp \in repo[g].spec.names
                 /\ g \in installed
SpecReachesTargets ==
    \A g \in GitRepos, cp \in ControlPlanes :
        <>[]Wanted(g, cp)
        => <>[](FluxOf(g, cp) = [owner |-> g, rev |-> repo[g].spec.rev])

-----------------------------------------------------------------------------
(* Why the safety properties hold: an inductive invariant.                 *)

CleanupSteps == {"cleanup", "fluxGet", "fluxDelete", "secretGet", "secretDelete"}

\* While nobody else wrote the object it is the one that was fetched; and past the
\* step that adds it the object has the finalizer, however often it was written.
FetchedObject ==
    pc # "idle" =>
        /\ work.fresh => /\ repo[work.repo].exists
                         /\ repo[work.repo].spec = work.spec
        /\ pc # "adopt" => repo[work.repo].finalizer
        /\ pc \in CleanupSteps => work.deleting

\* Resolve loses no name of the spec: each is still to do or among the targets.
NamesResolved ==
    /\ pc \in {"access", "readAccess"} => work.spec.names \subseteq work.todo \cup Targets
    /\ pc \in CleanupSteps => work.spec.names \subseteq Targets

\* Unless an error is on the list, the targets done have no AccessRequest any more.
AccessCleaned ==
    pc \in CleanupSteps /\ ~work.failed
        => \A cp \in Targets \ work.todo : access[work.repo][cp] = "none"

\* The inductive invariant of the controller: what the worker knows about the objects
\* stays true while others act between its steps.
InductiveInv == TypeOK /\ FetchedObject /\ MintOnlyWhenDue /\ NamesResolved /\ AccessCleaned

=============================================================================
