# platform-service-gitops: a TLA+ model

platform-service-gitops lets a user of an onboarding cluster declare a `GitRepository` once
and have it appear, with a short-lived GitHub token, in any number of ControlPlanes (MCPs).
Beside it, a `Kustomization` object is turned into
Flux objects that use such a repository. This directory holds TLA+ models of all four controllers, TLC configurations that check it on small
instances, and TLAPS proofs of its main safety properties for every instance.

## Inventory

| Component | State it keeps | Operations |
|---|---|---|
| GitRepository controller (`internal/controller/core/gitrepository_controller.go`) | finalizer, `status.conditions`, `status.propagated`, `status.observedGeneration` of each GitRepository | `Reconcile`: add finalizer, resolve credential, propagate, patch status, requeue; `reconcileDelete`: clean up, remove finalizer |
| Propagation (`internal/propagate`) | in each MCP a Secret `<name>-token` with the token's expiry, and a Flux GitRepository `<name>`, both with a managed-by annotation | `NeedsRotation`, `Reconcile` (mint, sync Secret, sync Flux GitRepository), `Cleanup` |
| MCP access (`internal/mcpaccess`) | one AccessRequest per (GitRepository, ControlPlane) on the platform cluster | `Resolve`: names and labels to ControlPlanes, ensure AccessRequest, read its status, build a client; `Cleanup` |
| AppInstallation controller (`internal/controller/github`) | conditions, `installationID`, `lastChecked` | `Reconcile`: resolve credentials, verify the App, look for the installation |
| GitHubInstance controller | condition `Ready` | `Reconcile`: validate the credential Secrets |
| Credentials, GitHub client (`internal/credentials`, `internal/githubapp`) | none | `Resolve`, `SelectSecretRef`, `FromSecret`; `VerifyApp`, `CheckOrgInstallation`, `MintScopedToken` |
| Kustomization controller (`internal/controller/core/kustomization_controller.go`) | a Flux GitRepository and a Flux Kustomization on the onboarding cluster, mirrored conditions | `Reconcile`; it never requeues, only watch events do |
| Process (`cmd/platform-service-gitops`, `internal/scheme`, `api/install`) | the manager, its work queues and caches, the leader lease | start-up, wiring |

How they interact: the controllers share no memory. They talk through objects of three kinds of
API server (onboarding, platform, one per MCP) and through GitHub; a write of one controller wakes
another by a watch. The GitRepository controller reads the AppInstallation's status and is queued
whenever it changes; it does not watch AccessRequests, ControlPlanes, or the objects in the MCPs.

What is hard here:

* A pass makes a dozen calls to four servers. Users, the access provider, the AppInstallation
  controller and time come between any two of them; each call may fail, and the process may die or
  lose its lease between any two, with all local state gone.
* The state of a pass is spread over servers and written in a certain order (Secret before Flux
  GitRepository, AccessRequest before the objects in the MCP): stopping half-way leaves a state that
  the next pass must read correctly.
* Who owns the objects in an MCP is decided by an annotation, and two GitRepositories of one name
  in different namespaces share a slot.
* Requeue times are computed from several deadlines, and nobody is told of a grant.
* An installation ID, the account it belongs to and the credentials it is used with are read in
  three passes of two controllers, from a status that may be of an earlier spec.
* Several Kustomizations write one Flux source, each with its own interval; whether every change reaches
  the queue, and whether the passes stop waking each other, depends on who watches what.

What makes each part correct, and where it is stated:

| Part | Promise | Property |
|---|---|---|
| GitRepository, propagation, access | nothing appears before the finalizer, access goes before the object does | `CreatesUnderFinalizer`, `ReleaseDropsAccess`, `RefinesContract` |
| | others' objects are left alone | `FluxNeverTakenOver`, `CleanupHitsOwn` |
| | tokens are minted when due, and in time unless a denial or the choice of a credential stops every pass | `MintOnlyWhenDue`, `NoTokenExpires`, `GrantIsNoticed` |
| | the status is true, deletion cleans up, specs get there | `ReadyMeansPropagated`, `ReadyListsEveryTarget`, `DeletionCleansTargets`, `DeletionCompletes`, `SpecReachesTargets` |
| GitHubInstance, AppInstallation | the conditions become true | `StatusesBecomeTrue` |
| credentials, minting | a token is for the account that was checked, in the end that of the spec | `InstalledWasFound`, `MintsForObserved`, `TokenFollowsSpec` |
| Kustomization | no change is overlooked, and the controller comes to rest | `NothingOverlooked`, `ComesToRest` |

The hazards, each at its line and with the properties that watch it, are listed in `PROJECT.json`.

## Modules

### GitRepositoryController: the worker and its surroundings

One worker runs `Reconcile` (controller-runtime's default of one worker per controller), modelled
one API call at a time: `pc` is where it is, `work` holds its local variables. Everything it
reads is read live: the clients are plain ones, built by `InitializeClient`, not the
manager's caching client.

| State | Stands for |
|---|---|
| `repo` | the GitRepository objects: finalizer, deletionTimestamp, spec, status |
| `access` | AccessRequests: none, pending, granted, denied |
| `installed` | which GitRepositories have a ready AppInstallation |
| `labelled` | the ControlPlanes that `matchLabels` selects |
| `secret`, `flux` | the slots in each MCP: who owns what is there, whether the token is due, which revision the Flux object has |
| `faults`, `crashes`, `edits` | what is left of the bounds |

| Code | Actions |
|---|---|
| `Reconcile` to the credential | `Fetch`, `AddFinalizer`, `ResolveCredential` |
| `Resolver.Resolve` | `ResolveNames`, `EnsureAccessRequest`, `ReadAccessRequest` |
| `reconcilePropagate`, `reconcileTarget` | `ResolveGitHubCreds`, `StartTarget` |
| `propagate.Reconcile` | `MintScopedToken`, `SyncSecret`, `SyncFluxGitRepository` |
| status patch | `PatchStatus` |
| `reconcileDelete`, `propagate.Cleanup` | `StartCleanup`, `CleanupAccessRequest`, `CleanupGetFlux`, `CleanupDeleteFlux`, `CleanupGetSecret`, `CleanupDeleteSecret`, `RemoveFinalizer` |
| process death, lost lease | `Crash` |
| users, provider, time | `CreateRepo`, `EditSpec`, `DeleteRepo`, `CredentialChanges`, `Relabel`, `Grant`, `Deny`, `TokenComesDue`, `ManualSecret`, `ManualFlux` |

Grain of atomicity: a Get followed by a Create or an Update of the object it returned is one step,
since the server refuses a write that is based on a stale read (the pass then fails exactly as
with an error of the call, which is modelled). A Get followed by a Delete by name is two steps. A
failed call has no effect; a call that took effect and whose answer is lost is a crash between
two steps or a stuttering retry, because every write here is idempotent.

Abstractions: a spec is the explicit names, whether it has a `matchLabels` entry, and a revision
for url and ref; conditions `Ready` and `CredentialResolved` are one value, as every patch
sets them together; the order of targets in a pass is arbitrary (the code's is the order of the
spec, and no property depends on it); a Secret made by hand has no expiry annotation.

### TokenRotation: the same controller over time

Passes are atomic here and time is explicit: `token` counts down, `alarm` is the delayed requeue of
the GitRepository, `recheck` that of its AppInstallation, `event` a watch event. A pass picks an
outcome for each target (`Possible` says when it can happen): among them `conflict`, where the Secret is written, the
Flux GitRepository is somebody else's and the status gets no expiry, and `written`, where the write of the Flux GitRepository
failed. `EarliestDeadline` computes the requeue with the code's running minimum, including its use of 0 for "not set". `Check` is a pass of
the AppInstallation controller, whose `LastChecked` write queues the GitRepository.

A whole pass fails (`PropagateFails`) in an outage, and besides while it is `Obstructed`: one target's AccessRequest is denied (`Deny`), at which
`Resolve` stops for all targets, or the GitHubInstance has a second Secret (`AddSecret`), between which `resolveGitHubCreds` does
not choose. Neither is an outage: everybody answers, it is not bounded, and nothing in the model ends it, as nothing in the code
does. So `NoTokenExpires` and `GrantIsNoticed` are claimed while there is neither; `RotatedBeforeExpiry` is what the API says of
`TokenExpiresAt` without such a condition, and `DeniedRotation` shows it violated. The App stays installed.

### PropagationContract and GitRepositoryRefinement: what is promised, and that it is kept

`PropagationContract` knows no worker, no passes and no failures. A GitRepository is none, declared,
adopted or leaving; it has access to a ControlPlane or not; a slot in a ControlPlane has an owner. Its actions say who may
do what when: ask for access and enter a ControlPlane only while adopted or leaving, and only with access granted;
go only when access to every named ControlPlane has been given up; write a Flux GitRepository only where there is none or one's own;
remove nothing of another GitRepository's. Users amend specs and do as they please with the objects in a ControlPlane, but each act
of theirs takes one from `acts`. That is what gives the rules for removal their force: a removal that nobody is charged for is the
controller's, and must be of an object that is the leaving GitRepository's own, or a user's.

`GitRepositoryRefinement` maps the controller's state to it: `Life` is existence, finalizer and
deletionTimestamp; `wanted` is the names of the spec; of Secrets and Flux GitRepositories the owner counts;
`access` is itself; `acts` is `edits`, which no step of the worker takes from. `RefinesContract` is `Contract!Spec` under this mapping. It is not a matter of form: in the
controller the facts that an action of the contract demands were established several calls before the write.
The contract is honest about what the code does not promise: a Secret is written whoever owns it (`WriteToken` has no such
guard; `PROJECT.json` has this as a finding without a run), and what took the place of one's own object between Get and Delete goes too (`Removable`).

### KustomizationController

One worker, one API call a step, as above; CreateOrUpdate is one step. As `Reconcile` never asks to be
called again, the model is about the queue: `queue` is the work queue, `events` the watch events not yet
mapped, `missed` the sources of which a change reached nobody (a failed List in the map function, or a Flux source
deleted by hand, which nobody watches).

| State | Stands for |
|---|---|
| `source`, `kust` | the GitRepository and Kustomization objects of a namespace; a `uid` tells the incarnations of a name apart |
| `fluxSource`, `fluxKust` | the Flux objects: who controls them, what their spec was made from, what Flux reported and whether on the current spec |
| `queue`, `events`, `missed` | the watches |

| Code | Actions |
|---|---|
| `Reconcile` | `Take`, `GetSource`, `SyncFluxSource`, `SyncFluxKustomization`, `PatchStatus` |
| `SetupWithManager` | `MapSource` (the map function), `Enqueue` (For), `Owns` |
| process, informers | `Crash`, `Resync` |
| users, garbage collector, Flux | `CreateSource`, `AmendSource`, `DeleteSource`, `CreateKust`, `EditKust`, `DeleteKust`, `CollectFluxSource`, `CollectFluxKust`, `FluxReports`, `FluxChanges`, `LoseFluxKust`, `LoseFluxSource` |

A status patch is the difference between the fetched status and the computed one, without a precondition (`Patched`); on
an object of the same name that was created meanwhile, `observedGeneration` is the current generation by coincidence only, so
both outcomes are there. `SetControllerReference` compares the group, kind and name of a controller, not its uid, so an object that was created anew
takes over at once what its predecessor left (a Flux object is named after its owner: nobody else can be in charge of it); the garbage collector
may come first, or may find that a pass has put the predecessor in charge that it had read. `rev` of a spec is path, interval and prune together; of a source, url and ref.

### CredentialChain

Three workers, each with a record of what it has read: `survey` (GitHubInstance), `check`
(AppInstallation) and `mint` (the part of the GitRepository controller that reads the AppInstallation and mints, in the same
pass). GitHub is `issued`, what it registered under each installation ID, which it never gives away twice, and `live`.
A credential Secret is the App it authenticates as, `unusable` (missing, or `FromSecret` refuses it) or `denied` (GitHub refuses it).
`of` is the account that the status was computed for; in the code it is the one the condition's message names.

| Code | Actions |
|---|---|
| GitHubInstance `Reconcile` | `SurveyFetch`, `SurveySecret`, `SurveyPatch` |
| AppInstallation `Reconcile` | `CheckFetch`, `CheckInstance`, `CheckSecret`, `VerifyApp`, `CheckInstallation`, `CheckPatch` |
| `resolveCredential`, `resolveGitHubCreds`, minting | `MintFetch`, `MintInstance`, `MintSecret`, `MintScopedToken` |
| process | `Crash` |
| platform owner, users, GitHub | `EditInstance`, `WriteSecret`, `CreateInstallation`, `EditInstallation`, `DeleteInstallation`, `Install`, `Uninstall` |

The patches here too are differences to what was fetched. The conditions go into one list, so they are patched together, and the ID
apart from them: that is how an object created anew during a check can get half of a status.

### MC and proof modules

`MCGitRepository`, `MCTokenRotation`, `MCKustomization` and `MCCredentials` define the names, specs, setups and constraints of the small instances. `GitRepositoryCleanPasses` states the invariants of the GitRepository controller
for instances without failures. Proofs are in `GitRepositoryProofs`, `GitRepositoryRefinementProofs`, `GitRepositoryCleanProofs`,
`TokenRotationProofs`, `KustomizationProofs` and `CredentialProofs`.

## What the runs show

| Run | Instance | Shows |
|---|---|---|
| `RepoSafety` | 2 GitRepositories of one name, 1 MCP; edits, manual objects; 1 edit, 1 failure (a call or a crash) | `MintOnlyWhenDue`, `CleanupHitsOwn`, `InductiveInv`, `CreatesUnderFinalizer`, `FluxNeverTakenOver`, `ReleaseDropsAccess` hold whatever fails, and `RefinesContract`: the controller implements its contract |
| `RepoClean` | 1 GitRepository, 2 MCPs, names and labels, 3 edits, denials, no failures | `TypeOK`, `ReadyMeansPropagated`, `ReadyListsEveryTarget`, `DeletionCleansTargets`: with no failures the status is true and deletion is clean; `CleanPassInv` is why |
| `RepoLiveness` | 1 GitRepository, 2 MCPs, 1 edit, 1 failure (a call or a crash) | `DeletionCompletes`, `SpecReachesTargets` under fairness |
| `Rotation` | 2 targets, ticks of 2.5 minutes: 40 min tokens, 15 min buffer, 10 min requeue; outages of up to one tick; a denial or a second Secret | `NoTokenExpires`, `GrantIsNoticed`: while there is neither of the last two, rotation is in time through outages, failed reads, conflicts and restarts; `TypeOK` and `RotationInv` are why |
| `Kustomization` | 2 Kustomizations, 2 sources, 2 revisions; 1 edit, 1 failure | `TypeOK`, `InductiveInv`, `NothingOverlooked`: whatever is not queued is up to date; `ComesToRest`: passes stop waking each other, with everything as the specs say |
| `Credentials` | 2 accounts, 1 App, 2 Secrets, 2 installation IDs; 1 edit, 1 failure | `TypeOK`, `ChainInv`, `InstalledWasFound`, `MintsForObserved`: tokens for the account checked; `StatusesBecomeTrue`, `TokenFollowsSpec`: in the end conditions and token are those of the specs |

Six runs expect a violation: each states what a comment or message of the code says, and shows how
the code departs from it.

| Run | What happens |
|---|---|
| `OrphanOnRetarget` | a ControlPlane taken out of `propagateTo` is never cleaned, not even when the object is deleted: AccessRequest, Secret and Flux GitRepository all stay |
| `OrphanOnRestart` | the process stops after deleting the AccessRequest; the retry requests access anew, finds it pending, skips the MCP and lets the object go |
| `DeniedDeletion` | a denied AccessRequest blocks deletion, and its own cleanup, for ever |
| `ReadyAfterCrash` | the process stops after writing the Secret; the next pass reports Ready with no Flux GitRepository |
| `DeniedRotation` | one of two targets is denied; the other's token, whose expiry is in the status, expires with every server up |
| `RotationEarliest` | a deadline that is due now is forgotten by the running minimum |

`OrphanOnRestart` and `ReadyAfterCrash` need no crash: one failing call in the same place does it too.
`RotationEarliest` needs a Secret that cannot be read once and can the second time, within a pass; the
AppInstallation's checks, which queue the GitRepository at least every 10 minutes, keep the token from
expiring all the same, as `Rotation` shows. The mutant that drops this watch breaks both of its properties. The run has no obstacle and a
shorter scale of time than `Rotation`.

`ReadyListsEveryTarget` leaves out objects with a denied AccessRequest: `Resolve` then fails, and the pass still publishes
Ready=True for the current generation over the list of an earlier pass, or none.

`NothingOverlooked` and `ComesToRest` also show two things the code gets right by what it does not do. Two Kustomizations with
different intervals overwrite the interval of one Flux source; they come to rest because nobody watches it, and the mutant
that does (`WakesReferrers`) has them wake each other for ever. And an event that arrives during a pass is not lost on the status patch of that pass.

`TokenFollowsSpec` is stated for a GitHubInstance of one Secret. With two, `resolveGitHubCreds` drops
`credentialName` (`gitrepository_controller.go:373`) and nothing is minted, although `appinstallation_types.go:28` says that the name selects the Secret; `PROJECT.json`
has this as a finding without a run. Two more divergences met on the way, which no property depends on: `appinstallation_types.go:51` says the ID is
"Zero when the App is not installed", and `setBoth` keeps the old one beside AppInstalled=False (`InstalledWasFound` is why that does no harm);
and the access that `main.go:214-250` requests to the onboarding cluster does not include the Flux kinds that the
`+kubebuilder:rbac` comments of `kustomization_controller.go:37-38` list. The model takes these calls as permitted.

### Bounds, and why they are enough

* Two GitRepositories of one name and one MCP give every kind of contest for a slot; two ControlPlanes
  give a pass with one target done and one to do. What one GitRepository does with an MCP does not
  depend on others except through the shared slots.
* One failure (`RepoSafety`'s constraint `OneFailure` cuts off behaviours with both a failed call and a crash, to have time for the
  refinement; the same in `RepoLiveness`, where TLC checks the behaviours within the constraint and nothing fair leads out of it) and one edit reach every error path and every interruption;
  deletion, re-creation, grants and tokens coming due are not bounded. That more failures add
  nothing for the safety properties is what the proofs show.
* `RepoSafety` uses symmetry on the GitRepositories, which have one name and the same choice of specs; it
  checks no liveness.
* In `Rotation` two targets are what the running minimum needs. The ticks are the greatest common
  measure that leaves room for an outage. Tokens of 40 minutes instead of an hour leave out only waiting: they last for the buffer and two requeues,
  and the proofs are for every lifetime. The constraint `OneObstacle` ends a behaviour with an obstacle at a second one, an outage, or the first token that expires. `NoTokenExpires` is tight: it needs the outage and
  `RequeueInterval` together to be shorter than the buffer.
* In `Kustomization` one Kustomization stays with its source and the other, with another interval, may go to the other source: they share
  one or they do not. One edit is by anybody: a user amends, deletes, or retargets, somebody deletes a Flux object, Flux changes
  its mind. Creation, re-creation, garbage collection, Flux's first report on a spec, and the resync are not bounded.
* In `Credentials` the second Secret comes in by an edit of the instance. Two IDs are enough for one installation and its
  successor, or for two accounts. Creation and installation are not bounded but by the IDs. `MCCredentials` fixes the first Secret and account: which it is makes no difference.

### Fairness

`WF(WorkerStep)`: a pass that has begun goes on, since a call returns in the end, with an answer or an error.
`SF(Fetch(g))`: every return requeues the object, at once, with the error backoff, or after at most
`RequeueInterval` or a rotation deadline, and the queue is first-in first-out, so no object is passed
over for ever; strong, because the one worker is busy with others again and again.
`WF(Grant \/ Deny)`: the provider answers pending requests. `WF(TokenComesDue)`: time passes. Nothing is
assumed of users, crashes or failures, whose number is bounded.

`KustomizationController`: `WF(WorkerStep)` and `SF(Take(k))` as above; `WF(MapSource)`: an event is mapped in the end; `WF(Resync)`: the
informers resync (controller-runtime: every ten hours or so) and so repair what was missed; `WF` of garbage collection and of Flux's
first report on a spec, without which there is nothing to come to rest with. `CredentialChain`: `WF` of each worker: all return paths of both checks requeue
after `RequeueInterval` or with the error backoff, except that of an invalid spec, which nothing but an edit can change; a token comes due again and again.

`SpecReachesTargets` depends on `TokenComesDue`: an edit of url or ref is written to a MCP only with the next
rotation, up to 45 minutes later, although the status says Ready for the current generation at once.

## What is proved

Every theorem is for every value of the constants: all sets of objects, all choices of specs, all bounds and durations. Where the code keeps
a promise only under a condition, the theorem has the condition as a hypothesis, in the table after "if".

| Module | Theorem | Statement |
|---|---|---|
| `GitRepositoryProofs` | `Inductive` | `Spec => []InductiveInv` |
| | `TypeCorrect` | `Spec => []TypeOK` |
| | `MintsOnlyWhenDue` | `Spec => []MintOnlyWhenDue` |
| | `CreationUnderFinalizer` | `Spec => CreatesUnderFinalizer` |
| | `FluxOwnership` | `Spec => FluxNeverTakenOver` |
| | `AccessIsReleased` | `Spec => ReleaseDropsAccess` |
| `GitRepositoryRefinementProofs` | `CleanupHitsOnlyOwn` | `Spec => []CleanupHitsOwn` |
| | `ImplementsContract` | `Spec => RefinesContract` |
| `GitRepositoryCleanProofs` | `StatusListsTargets` | `Spec => []ReadyListsEveryTarget`, if no call fails |
| | `DeletionIsComplete` | `Spec => DeletionCleansTargets`, if no call fails and no process dies |
| | `CleanPassInvariant` | `Spec => []CleanPassInv`, if besides names are unique and users stay out of the ControlPlanes |
| | `ReadyIsTrue` | `Spec => []ReadyMeansPropagated`, under the same conditions |
| | `NothingIsLeft` | `Spec => []DeletionIsClean`, if no call fails, no process dies and the targets of an object never change (`FixedTargets`) |
| `TokenRotationProofs` | `TypeCorrect` | `Spec => []TypeOK` |
| | `RotationInvariant` | `Spec => []RotationInv` |
| | `TokensOutliveOutages` | `Spec => []NoTokenExpires` (while no target is denied and the credentials can be selected), if `MaxOutage + Interval < RenewBuffer` |
| | `GrantsAreNoticed` | `Spec => []GrantIsNoticed` (while no target is denied and the credentials can be selected) |
| `KustomizationProofs` | `KustomizationInvariant` | `Spec => []InductiveInv` |
| | `KustomizationTypes` | `Spec => []TypeOK` |
| | `OverlooksNothing` | `Spec => []NothingOverlooked` |
| `CredentialProofs` | `ChainInvariant` | `Spec => []ChainInv` |
| | `ChainTypes` | `Spec => []TypeOK` |
| | `UsableInstallations` | `Spec => []InstalledWasFound` |
| | `TokensForObserved` | `Spec => MintsForObserved` |

Assumptions. GitRepository: `NamesAssumption` (each GitRepository has a name), `SpecsAssumption`, `OwnersAssumption`
(`Manual` and `Absent` are no GitRepositories or ControlPlanes), `EnvAssumption`, `BoundsAssumption`. Rotation: `TimesAssumption` (a token is not due
within one requeue interval of its minting, as with the defaults of the flags: 15 and 10 minutes of an hour), `ObstaclesAssumption`. Kustomization: `KustsAssumption`, `SourcesAssumption`,
`RevisionsAssumption`, `ChoicesAssumption`, `KustBoundsAssumption`. Credentials: `AccountsAssumption`, `SecretsAssumption`, `AppsAssumption`, `SetupsAssumption`,
`ChainBoundsAssumption`. All but `TimesAssumption` say only that the constants are of the kind their comments give.

*GitRepositoryProofs.* None of the safety properties is inductive: that the last step of a deletion leaves no
AccessRequest depends on what Resolve put on its list several steps before, and on the object still having the
spec it was fetched with. `InductiveInv` says what the worker knows at each step: `FetchedObject` (the object
is the fetched one unless somebody wrote it, which an Update notices; past `AddFinalizer` it has the
finalizer, which only this worker removes), `NamesResolved` (no name of the spec is lost between the
list, the loop and the targets), `AccessCleaned` (the targets done have no AccessRequest, unless an error was
noted; the provider answers requests but creates none) and `MintOnlyWhenDue` itself (what time and people do
to a Secret never makes it one that needs no rotation; a missing Secret counts as one that does). There is one
lemma per action or group of like actions. The action properties follow from the invariant and from lemmas on which
actions write which objects (`AccessWriters`, `SecretWriters`, `FluxWriters`, `FinalizerWriters`).

*GitRepositoryRefinementProofs.* Each step is shown to be a step of the contract or to leave the mapped state alone, and no step of the worker to be charged to a user (`WorkerKeepsEdits`); a write into a
ControlPlane needs that access is still granted, a removal that the object is still leaving and the slot still not another's. These are `PassInv`, on top of
`InductiveInv`: `AccessHeld` (the provider never takes back what it granted, and only this pass gives it up), `TargetReached`,
`StillLeaving` (nobody takes back a deletionTimestamp) and `CleanupHitsOwn` (between Get and Delete a slot can only pass to
nobody or to a hand-made object: other GitRepositories write Flux slots only when empty, and the one worker that writes for them is busy here).

*GitRepositoryCleanProofs.* Four properties that failures break, each with the invariant it needs and exactly the conditions under which
TLC finds no counterexample; without any one of them it finds one, in instances of one or two GitRepositories and ControlPlanes.

* `ListInv` (no call fails; crashes, edits, denials and labels as they like): a pass works for an object that was not leaving (`LeavingNoticed`), its targets are the
  names and what the label selects, with an entry for each that is done (`EveryTargetListed`), and it gives up early only on a denied
  AccessRequest, which stays denied until then (`OnlyDenialGivesUp`). One failing call, and Ready=True stands over an old list.
* `CleanupInv` (no crash either; any user, any number of namespaces with the same names): whatever an object owns in a ControlPlane is behind an
  AccessRequest that is granted, or being cleaned up at this moment (`OwnedWithinReach`), so that a target whose access was pending has nothing to
  remove (`PendingOwnsNothing`). A crash after the AccessRequest is deleted breaks this: the finding of `OrphanOnRestart`.
* `ReadyInv` (names unique, no hand in the ControlPlanes either): a Secret comes with its Flux GitRepository except between the two writes of a
  pass or the two deletes of a cleanup (`TokenWithFlux`), so that "no rotation needed" means that both are there, although the code looks at the Secret alone.
* `AstrayInv` (the targets never change: no label, no edit of the names): what there is of an object is in ControlPlanes that its spec names, and it
  has the finalizer (`NothingAstray`). The AccessRequest is always first (`LeftGrows`), and no AccessRequest is for a ControlPlane the fetched spec does not name.
  An edit of the names breaks this: the finding of `OrphanOnRetarget`.

*TokenRotationProofs.* `RotationInv` says how old what the last good pass left behind may be, as long as passes are not bound to fail
(nothing in the model ends an obstacle, so that case is preserved as it is, `ObstructedRotation`). In calm times (`Steady`) a token is worth the buffer, and the time
to the next alarm besides; in an outage it has lost the part of it that is over; after the outage (`Recovering`) it has lost all of it and the time
since the last check, and a check that leads to a pass comes before the next outage may begin. So a token outlives `MaxOutage + Interval`, which is why the
hypothesis of `TokensOutliveOutages` is what it is: with 15 minutes of buffer and an interval of 10, an outage of 5 lets a token expire in TLC.
That the alarm is not too late rests on `EarliestDeadline`, the code's running minimum. It is a recursive function, and induction
over it is out of the prover's reach as a rule; here it is reasoned about by a least counterexample (`LeastNatural`, from the well-foundedness of `<`): `EarliestIsFirst` says that the
loop returns the minimum when no deadline is 0, which is what a pass leaves behind when no call fails. `RotationEarliest` is the case where it does not.

*KustomizationProofs.* `NothingOverlooked` speaks of Kustomizations that are not in work; a pass that ends makes its own
one of them, so the invariant says what holds during a pass unless another is already due: the object is the fetched one
(`PassIsCurrent`), the source read is current or an event of it is on its way or everybody that refers to it is queued (`StaleSource`), and what was
written to the Flux objects still stands (`PassHolds`). The last is where sharing matters: another pass may overwrite the
interval of the Flux source, but what it mirrors is the same; that a pass put a GitRepository in charge that is gone by now is covered by the event of its successor.

*CredentialProofs.* `ChainInv` follows the ID from GitHub's answer into the computed status (`ComputedStatus`), through a patch that
may meet another object or an equal half (`FetchedStatus`: only the check writes the status, so it is the fetched one or that of a new object), into the status that
is read for minting (`InstalledWasFound`) and up to the mint (`MintingKnown`). It needs that GitHub gives no ID away twice.

Only model-checked: liveness (`DeletionCompletes`, `SpecReachesTargets`, `ComesToRest`, `StatusesBecomeTrue`, `TokenFollowsSpec`), as fairness and ENABLED are out
of this prover's reach. Every safety property of the passing runs is proved.

## Not modelled

* Conditions' reasons and messages, logging, metrics, flags, CRD installation and the cluster requests at start-up.
* The branch of the Kustomization controller for a `sourceRef.kind` other than GitRepository (lines 86-106): the enum in the CRD admits no other.
* JWT signing, HTTP and URL classification of the GitHub client (library code). There is one GitHub server in the model; that an ID read from one
  server is used with the credentials of another, after the URL in a Secret changed, is a hazard listed without a property.
* `AccessLocalName`: the models take one AccessRequest per (GitRepository, ControlPlane) for granted. Names that contain `--` can collide.
* RBAC: calls are permitted. A token's repository scope: one token per GitRepository and ControlPlane is all that is told apart.
* Schemes and generated code (deep copies), which have no behaviour of their own.

## What could follow

1. *Naming*: `AccessLocalName` as a function on sequences of name parts, and when it is injective.
2. *Refinement of time*: that a pass of `TokenRotation` is what the steps of a pass of `GitRepositoryController` amount to.
