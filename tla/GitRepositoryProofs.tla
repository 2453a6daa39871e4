------------------------ MODULE GitRepositoryProofs ------------------------
(***************************************************************************)
(* Safety of the GitRepository controller for every set of GitRepositories,*)
(* ControlPlanes and specs, every environment and every bound.             *)
(***************************************************************************)
EXTENDS GitRepositoryController, TLAPS

-----------------------------------------------------------------------------
(* What the helpers do to the worker's local state.                        *)

\* A fresh local state is one.
LEMMA NoWorkType == NoWork \in Works
BY SMT DEF NoWork, Works, EmptySpec, EmptyStatus, StatusLists, Phases, PropagateSpecs

\* After a return the worker is idle.
LEMMA ReturnType == ASSUME Return PROVE WorkerTypeOK'
BY NoWorkType DEF Return, Goto, WorkerTypeOK, Steps, TargetSteps

\* Giving up on Resolve keeps what the worker fetched, or returns.
LEMMA ResolveErrorType ==
    ASSUME WorkerTypeOK, pc # "idle", ResolveError PROVE WorkerTypeOK'
BY ReturnType DEF ResolveError, Goto, WorkerTypeOK, Steps, TargetSteps, Works

\* Reporting the phase of a target goes back to the loop.
LEMMA ReportType ==
    ASSUME WorkerTypeOK, pc # "idle",
           NEW cp \in ControlPlanes, NEW phase \in Phases, Report(cp, phase)
    PROVE  WorkerTypeOK'
BY DEF Report, Goto, WorkerTypeOK, Steps, TargetSteps, Works, StatusLists

-----------------------------------------------------------------------------
(* The inductive invariant.                                                *)

\* It holds initially.
LEMMA InitInductive == Init => InductiveInv
<1> SUFFICES ASSUME Init PROVE InductiveInv
  OBVIOUS
<1> USE DEF Init
<1>1. ClusterTypeOK
  BY DEF ClusterTypeOK, Repos, NoRepo, EmptySpec, EmptyStatus, StatusLists, PropagateSpecs
<1>2. McpTypeOK
  BY DEF McpTypeOK, Secrets, NoSecret, FluxGRs, NoFlux, Owners
<1>3. WorkerTypeOK
  BY NoWorkType DEF WorkerTypeOK, Steps, TargetSteps
<1>4. BudgetTypeOK
  BY BoundsAssumption DEF BudgetTypeOK
<1>5. FetchedObject /\ MintOnlyWhenDue /\ NamesResolved /\ AccessCleaned
  BY DEF FetchedObject, MintOnlyWhenDue, NamesResolved, AccessCleaned, CleanupSteps
<1> QED
  BY <1>1, <1>2, <1>3, <1>4, <1>5 DEF InductiveInv, TypeOK

\* Fetching an object starts a pass that knows it.
LEMMA FetchInductive ==
    ASSUME InductiveInv, NEW g \in GitRepos, Fetch(g) PROVE InductiveInv'
<1> USE DEF InductiveInv, TypeOK, cluster, mcp, budgets
<1>1. repo[g] \in Repos /\ repo' = repo
  BY DEF Fetch, ClusterTypeOK
<1>2. work' = [NoWork EXCEPT !.repo = g, !.deleting = repo[g].deleting,
                             !.spec = repo[g].spec, !.propagated = repo[g].propagated]
  BY DEF Fetch
<1>3. work' \in Works /\ work'.repo = g /\ work'.spec = repo[g].spec
  BY <1>1, <1>2, NoWorkType DEF Works, Repos, NoWork
<1>4. pc' \in {"list", "credential", "adopt"} /\ (pc' # "adopt" => repo[g].finalizer)
  BY DEF Fetch, Goto, StepAfterFetch, ClusterTypeOK
<1>5. WorkerTypeOK'
  BY <1>3, <1>4 DEF WorkerTypeOK, Steps, TargetSteps
<1>6. ClusterTypeOK' /\ McpTypeOK' /\ BudgetTypeOK'
  BY DEF Fetch, ClusterTypeOK, McpTypeOK, BudgetTypeOK
<1>7. FetchedObject'
  BY <1>1, <1>3, <1>4 DEF FetchedObject, Fetch, CleanupSteps
<1>8. MintOnlyWhenDue' /\ NamesResolved' /\ AccessCleaned'
  BY <1>4 DEF MintOnlyWhenDue, NamesResolved, AccessCleaned, CleanupSteps
<1> QED
  BY <1>5, <1>6, <1>7, <1>8

\* A call, failed or not, leaves the budgets in their range.
LEMMA BudgetType == ASSUME BudgetTypeOK, Ok \/ Fault PROVE BudgetTypeOK'
BY BoundsAssumption DEF BudgetTypeOK, Ok, Fault, budgets

\* A return leaves nothing to show but the types of the objects.
LEMMA ReturnInductive ==
    ASSUME Return, ClusterTypeOK', McpTypeOK', BudgetTypeOK' PROVE InductiveInv'
BY ReturnType DEF Return, Goto, InductiveInv, TypeOK, FetchedObject, MintOnlyWhenDue,
                  NamesResolved, AccessCleaned, CleanupSteps

\* Writing one well-formed object keeps all of them so.
LEMMA RepoUpdate ==
    ASSUME ClusterTypeOK, NEW g \in GitRepos, NEW r \in Repos,
           r.finalizer => r.exists, r.deleting => r.finalizer,
           repo' = [repo EXCEPT ![g] = r], UNCHANGED <<access, installed, labelled>>
    PROVE  ClusterTypeOK'
BY DEF ClusterTypeOK

\* The finalizer is written to the object that was fetched, which therefore exists.
LEMMA AddFinalizerInductive == ASSUME InductiveInv, AddFinalizer PROVE InductiveInv'
<1> USE DEF InductiveInv, TypeOK
<1>1. work.repo \in GitRepos /\ (UpdateAccepted => repo[work.repo].exists)
  BY DEF AddFinalizer, At, WorkerTypeOK, FetchedObject, UpdateAccepted
<1>2. ClusterTypeOK'
  <2> DEFINE r == [repo[work.repo] EXCEPT !.finalizer = TRUE]
  <2>1. repo[work.repo] \in Repos
    BY <1>1 DEF ClusterTypeOK
  <2>2. r \in Repos /\ r.finalizer /\ r.exists = repo[work.repo].exists
    BY <2>1 DEF Repos
  <2>3. CASE UpdateAccepted /\ repo' = [repo EXCEPT ![work.repo] = r]
    <3> HIDE DEF r
    <3> QED  BY <1>1, <2>2, <2>3, RepoUpdate DEF AddFinalizer
  <2>4. CASE UNCHANGED repo
    BY <2>4 DEF AddFinalizer, ClusterTypeOK
  <2> QED
    BY <2>3, <2>4 DEF AddFinalizer
<1>3. McpTypeOK' /\ BudgetTypeOK'
  BY BudgetType DEF AddFinalizer, McpTypeOK, mcp
<1> QED
  BY <1>2, <1>3, ReturnInductive DEF AddFinalizer

\* A status patch touches the status only.
LEMMA PatchStatusInductive == ASSUME InductiveInv, PatchStatus PROVE InductiveInv'
<1> USE DEF InductiveInv, TypeOK
<1>1. work.repo \in GitRepos /\ work.propagated \in StatusLists /\ work.fresh \in BOOLEAN
  BY DEF PatchStatus, At, WorkerTypeOK, Works
<1>2. FilterPropagateStatus(work.propagated) \in StatusLists
  BY <1>1 DEF FilterPropagateStatus, StatusLists
<1>3. ClusterTypeOK'
  <2> DEFINE old == repo[work.repo]
             list == IF At("target") THEN FilterPropagateStatus(work.propagated)
                                     ELSE work.propagated
             new == [old EXCEPT !.ready = IF At("patchUnresolved") THEN "False" ELSE "True",
                                !.observed = work.fresh, !.propagated = list]
  <2>1. /\ old \in Repos /\ list \in StatusLists
        /\ old.finalizer => old.exists
        /\ old.deleting => old.finalizer
    BY <1>1, <1>2 DEF ClusterTypeOK
  <2>2. /\ new \in Repos /\ new.exists = old.exists
        /\ new.finalizer = old.finalizer /\ new.deleting = old.deleting
    <3> HIDE DEF list
    <3> QED  BY <1>1, <2>1 DEF Repos
  <2>3. CASE repo' = [repo EXCEPT ![work.repo] = new]
    <3> HIDE DEF new
    <3> QED  BY <1>1, <2>1, <2>2, <2>3, RepoUpdate DEF PatchStatus
  <2>4. CASE UNCHANGED repo
    BY <2>4 DEF PatchStatus, ClusterTypeOK
  <2> QED
    BY <2>3, <2>4 DEF PatchStatus
<1>4. McpTypeOK' /\ BudgetTypeOK'
  BY BudgetType DEF PatchStatus, McpTypeOK, mcp
<1> QED
  BY <1>3, <1>4, ReturnInductive DEF PatchStatus

\* An object goes as a whole.
LEMMA RemoveFinalizerInductive == ASSUME InductiveInv, RemoveFinalizer PROVE InductiveInv'
<1> USE DEF InductiveInv, TypeOK
<1>1. NoRepo \in Repos /\ ~NoRepo.finalizer /\ ~NoRepo.deleting
  BY DEF NoRepo, Repos, EmptySpec, EmptyStatus, StatusLists, PropagateSpecs
<1>2. ClusterTypeOK'
  BY <1>1 DEF RemoveFinalizer, ClusterTypeOK
<1>3. McpTypeOK' /\ BudgetTypeOK'
  BY BudgetType DEF RemoveFinalizer, McpTypeOK, mcp
<1> QED
  BY <1>2, <1>3, ReturnInductive DEF RemoveFinalizer

\* A crash loses the local state only.
LEMMA CrashInductive == ASSUME InductiveInv, Crash PROVE InductiveInv'
<1> USE DEF InductiveInv, TypeOK
<1>1. ClusterTypeOK' /\ McpTypeOK' /\ BudgetTypeOK'
  BY DEF Crash, ClusterTypeOK, McpTypeOK, BudgetTypeOK, cluster, mcp
<1> QED
  BY <1>1, ReturnInductive DEF Crash

-----------------------------------------------------------------------------
(* The steps between the fetch and the return.                             *)

\* The pass goes on with the object it fetched.
SamePass ==
    /\ pc \notin {"idle", "adopt"}
    /\ work'.repo = work.repo /\ work'.fresh = work.fresh
    /\ work'.spec = work.spec /\ work'.deleting = work.deleting

\* What it knows of that object it still knows, as long as the object stays.
LEMMA SamePassFetched ==
    ASSUME FetchedObject, SamePass, UNCHANGED repo, pc' \in CleanupSteps => work.deleting
    PROVE  FetchedObject'
BY DEF FetchedObject, SamePass

\* A step that only reads keeps every object's type.
LEMMA ObjectsKept ==
    ASSUME ClusterTypeOK, McpTypeOK, UNCHANGED <<cluster, mcp>>
    PROVE  ClusterTypeOK' /\ McpTypeOK'
BY DEF ClusterTypeOK, McpTypeOK, cluster, mcp

\* Reporting a phase goes on with the next target.
LEMMA ReportInductive ==
    ASSUME InductiveInv, pc \in {"target", "mint", "secret", "flux"},
           NEW cp \in ControlPlanes, NEW phase \in Phases, Report(cp, phase),
           UNCHANGED repo, ClusterTypeOK', McpTypeOK', BudgetTypeOK'
    PROVE  InductiveInv'
<1> USE DEF InductiveInv, TypeOK
<1>1. WorkerTypeOK'
  BY ReportType
<1>2. SamePass /\ pc' = "target"
  BY DEF SamePass, Report, Goto, WorkerTypeOK, Works
<1>3. FetchedObject'
  BY <1>2, SamePassFetched DEF CleanupSteps
<1> QED
  BY <1>1, <1>2, <1>3 DEF MintOnlyWhenDue, NamesResolved, AccessCleaned, CleanupSteps

\* Giving up on Resolve patches the status or returns.
LEMMA ResolveErrorInductive ==
    ASSUME InductiveInv, pc \in {"list", "access", "readAccess"}, ResolveError,
           UNCHANGED repo, ClusterTypeOK', McpTypeOK', BudgetTypeOK'
    PROVE  InductiveInv'
<1> USE DEF InductiveInv, TypeOK
<1>1. CASE Return
  BY <1>1, ReturnInductive
<1>2. CASE Goto("patchReady") /\ work' = [work EXCEPT !.target = Absent]
  <2>1. WorkerTypeOK'
    BY ResolveErrorType
  <2>2. SamePass /\ pc' = "patchReady"
    BY <1>2 DEF SamePass, Goto, WorkerTypeOK, Works
  <2>3. FetchedObject'
    BY <2>2, SamePassFetched DEF CleanupSteps
  <2> QED
    BY <2>1, <2>2, <2>3 DEF MintOnlyWhenDue, NamesResolved, AccessCleaned, CleanupSteps
<1> QED
  BY <1>1, <1>2 DEF ResolveError

\* Looking at the credential changes where the pass goes, nothing else.
LEMMA ResolveCredentialInductive ==
    ASSUME InductiveInv, ResolveCredential PROVE InductiveInv'
<1> USE DEF InductiveInv, TypeOK
<1>1. pc = "credential" /\ pc' \in {"list", "patchUnresolved"} /\ work' = work
  BY DEF ResolveCredential, At, Goto
<1>2. ClusterTypeOK' /\ McpTypeOK' /\ BudgetTypeOK'
  BY ObjectsKept, BudgetType DEF ResolveCredential
<1>3. WorkerTypeOK'
  BY <1>1 DEF WorkerTypeOK, Steps, TargetSteps
<1>4. FetchedObject'
  BY <1>1, SamePassFetched DEF SamePass, CleanupSteps, ResolveCredential, cluster
<1> QED
  BY <1>1, <1>2, <1>3, <1>4 DEF MintOnlyWhenDue, NamesResolved, AccessCleaned, CleanupSteps

\* Every name of the spec is put on the list.
LEMMA ResolveNamesInductive ==
    ASSUME InductiveInv, ResolveNames PROVE InductiveInv'
<1> USE DEF InductiveInv, TypeOK
<1>1. pc = "list" /\ UNCHANGED repo
  BY DEF ResolveNames, At, cluster
<1>2. ClusterTypeOK' /\ McpTypeOK' /\ BudgetTypeOK'
  BY ObjectsKept, BudgetType DEF ResolveNames
<1>3. CASE ResolveError
  BY <1>1, <1>2, <1>3, ResolveErrorInductive
<1>4. ASSUME Goto("access"),
             work' = [work EXCEPT !.todo = @ \cup work.spec.names
                         \cup (IF work.spec.byLabel THEN labelled ELSE {})]
      PROVE  InductiveInv'
  <2>1. /\ work \in Works /\ labelled \subseteq ControlPlanes
        /\ work.spec.names \subseteq ControlPlanes
    BY DEF WorkerTypeOK, ClusterTypeOK, Works, PropagateSpecs
  <2>2. /\ work' \in Works /\ pc' = "access" /\ SamePass
        /\ work.spec.names \subseteq work'.todo
    BY <1>1, <1>4, <2>1 DEF Works, Goto, SamePass
  <2>3. WorkerTypeOK'
    BY <1>1, <2>2 DEF WorkerTypeOK, Steps, TargetSteps, SamePass
  <2>4. FetchedObject'
    BY <1>1, <2>2, SamePassFetched DEF CleanupSteps
  <2> QED
    BY <1>2, <2>2, <2>3, <2>4
       DEF MintOnlyWhenDue, NamesResolved, AccessCleaned, CleanupSteps, SamePass
<1> QED
  BY <1>3, <1>4 DEF ResolveNames

\* The target is still to do, until its AccessRequest has been read.
LEMMA EnsureAccessRequestInductive ==
    ASSUME InductiveInv, EnsureAccessRequest PROVE InductiveInv'
<1> USE DEF InductiveInv, TypeOK
<1>1. pc = "access" /\ UNCHANGED repo /\ work.repo \in GitRepos /\ work \in Works
  BY DEF EnsureAccessRequest, At, WorkerTypeOK
<1>2. McpTypeOK' /\ BudgetTypeOK'
  BY BudgetType DEF EnsureAccessRequest, McpTypeOK, mcp
<1>3. PICK cp \in work.todo :
         \/ /\ Goto("readAccess")
            /\ work' = [work EXCEPT !.target = cp]
            /\ access' = [access EXCEPT ![work.repo][cp] = IF @ = "none" THEN "pending" ELSE @]
         \/ ResolveError /\ UNCHANGED access
  BY DEF EnsureAccessRequest
<1>4. cp \in ControlPlanes
  BY <1>1 DEF Works
<1>5. ClusterTypeOK'
  BY <1>1, <1>3, <1>4 DEF EnsureAccessRequest, ClusterTypeOK
<1>6. CASE ResolveError
  BY <1>1, <1>2, <1>5, <1>6, ResolveErrorInductive
<1>7. CASE Goto("readAccess") /\ work' = [work EXCEPT !.target = cp]
  <2>1. /\ work' \in Works /\ pc' = "readAccess" /\ SamePass
        /\ work'.target = cp /\ work'.todo = work.todo /\ work'.reach = work.reach
    BY <1>1, <1>4, <1>7 DEF Works, Goto, SamePass
  <2>2. WorkerTypeOK'
    BY <1>1, <1>4, <2>1 DEF WorkerTypeOK, Steps, TargetSteps, SamePass
  <2>3. FetchedObject'
    BY <1>1, <2>1, SamePassFetched DEF CleanupSteps
  <2>4. NamesResolved'
    BY <1>1, <2>1 DEF NamesResolved, CleanupSteps, Targets, SamePass
  <2> QED
    BY <1>2, <1>5, <2>1, <2>2, <2>3, <2>4 DEF MintOnlyWhenDue, AccessCleaned, CleanupSteps
<1> QED
  BY <1>3, <1>6, <1>7

\* A target that is no longer to do is on the list Resolve returns.
LEMMA ReadAccessRequestInductive ==
    ASSUME InductiveInv, ReadAccessRequest PROVE InductiveInv'
<1> USE DEF InductiveInv, TypeOK
<1> DEFINE cp == work.target
<1>1. /\ pc = "readAccess" /\ UNCHANGED repo /\ work \in Works
      /\ work.repo \in GitRepos /\ cp \in ControlPlanes
  BY DEF ReadAccessRequest, At, WorkerTypeOK, TargetSteps, cluster
<1>2. ClusterTypeOK' /\ McpTypeOK' /\ BudgetTypeOK'
  BY ObjectsKept, BudgetType DEF ReadAccessRequest
<1>3. CASE ResolveError
  BY <1>1, <1>2, <1>3, ResolveErrorInductive
<1>4. ASSUME NEW r \in {"pending", "cluster"}, Goto("access"),
             work' = [work EXCEPT !.reach[cp] = r, !.todo = @ \ {cp}, !.target = Absent]
      PROVE  InductiveInv'
  <2> HIDE DEF cp
  <2>1. /\ work' \in Works /\ pc' = "access" /\ SamePass
        /\ work'.todo = work.todo \ {cp} /\ work'.reach = [work.reach EXCEPT ![cp] = r]
    BY <1>1, <1>4 DEF Works, Goto, SamePass
  <2>2. WorkerTypeOK'
    BY <1>1, <2>1 DEF WorkerTypeOK, Steps, TargetSteps, SamePass
  <2>3. FetchedObject'
    BY <1>1, <2>1, SamePassFetched DEF CleanupSteps
  <2>4. Targets' = Targets \cup {cp}
    BY <1>1, <2>1 DEF Targets, Works
  <2>5. NamesResolved'
    BY <1>1, <2>1, <2>4 DEF NamesResolved, CleanupSteps, SamePass
  <2> QED
    BY <1>2, <2>1, <2>2, <2>3, <2>5 DEF MintOnlyWhenDue, AccessCleaned, CleanupSteps
<1>5. \/ ResolveError
      \/ \E r \in {"pending", "cluster"} :
            /\ Goto("access")
            /\ work' = [work EXCEPT !.reach[cp] = r, !.todo = @ \ {cp}, !.target = Absent]
  BY DEF ReadAccessRequest
<1> QED
  BY <1>3, <1>4, <1>5

\* The targets that Resolve returned are now to do.
LEMMA ResolveGitHubCredsInductive ==
    ASSUME InductiveInv, ResolveGitHubCreds PROVE InductiveInv'
<1> USE DEF InductiveInv, TypeOK
<1>1. pc = "access" /\ UNCHANGED repo /\ work \in Works /\ pc' \in {"target", "patchReady"}
  BY DEF ResolveGitHubCreds, At, Goto, WorkerTypeOK, cluster
<1>2. ClusterTypeOK' /\ McpTypeOK' /\ BudgetTypeOK'
  BY ObjectsKept, BudgetType DEF ResolveGitHubCreds
<1>3. work' \in Works /\ SamePass
  BY <1>1 DEF ResolveGitHubCreds, Works, Targets, SamePass
<1>4. WorkerTypeOK'
  BY <1>1, <1>3 DEF WorkerTypeOK, Steps, TargetSteps, SamePass
<1>5. FetchedObject'
  BY <1>1, <1>3, SamePassFetched DEF CleanupSteps
<1> QED
  BY <1>1, <1>2, <1>4, <1>5 DEF MintOnlyWhenDue, NamesResolved, AccessCleaned, CleanupSteps

\* Minting starts on a Secret that needs rotation.
LEMMA StartTargetInductive == ASSUME InductiveInv, StartTarget PROVE InductiveInv'
<1> USE DEF InductiveInv, TypeOK
<1>1. pc = "target" /\ UNCHANGED repo /\ work \in Works /\ work.repo \in GitRepos
  BY DEF StartTarget, At, WorkerTypeOK, cluster
<1>2. ClusterTypeOK' /\ McpTypeOK' /\ BudgetTypeOK'
  BY ObjectsKept, BudgetType DEF StartTarget
<1>3. PICK cp \in work.todo :
         \/ \E phase \in Phases : Report(cp, phase)
         \/ NeedsRotation(work.repo, cp) /\ Rotate(cp)
  BY DEF StartTarget, SkipUnread, Phases
<1>4. cp \in ControlPlanes
  BY <1>1 DEF Works
<1>5. CASE \E phase \in Phases : Report(cp, phase)
  BY <1>1, <1>2, <1>4, <1>5, ReportInductive
<1>6. CASE NeedsRotation(work.repo, cp) /\ Rotate(cp)
  <2>1. work' \in Works /\ pc' = "mint" /\ SamePass /\ work'.target = cp
    BY <1>1, <1>4, <1>6 DEF Rotate, Works, Goto, SamePass
  <2>2. WorkerTypeOK'
    BY <1>1, <1>4, <2>1 DEF WorkerTypeOK, Steps, TargetSteps, SamePass
  <2>3. FetchedObject'
    BY <1>1, <2>1, SamePassFetched DEF CleanupSteps
  <2>4. MintOnlyWhenDue'
    BY <1>6, <2>1 DEF MintOnlyWhenDue, NeedsRotation, SecretOf, StartTarget, mcp, SamePass
  <2> QED
    BY <1>2, <2>1, <2>2, <2>3, <2>4 DEF NamesResolved, AccessCleaned, CleanupSteps
<1> QED
  BY <1>3, <1>5, <1>6

\* Minting leaves the Secret alone, which therefore still needs rotation.
LEMMA MintScopedTokenInductive == ASSUME InductiveInv, MintScopedToken PROVE InductiveInv'
<1> USE DEF InductiveInv, TypeOK
<1>1. /\ pc = "mint" /\ UNCHANGED <<repo, secret>>
      /\ work.repo \in GitRepos /\ work.target \in ControlPlanes
  BY DEF MintScopedToken, At, WorkerTypeOK, TargetSteps, cluster, mcp
<1>2. ClusterTypeOK' /\ McpTypeOK' /\ BudgetTypeOK'
  BY ObjectsKept, BudgetType DEF MintScopedToken
<1>3. CASE Report(work.target, "TokenFailed")
  BY <1>1, <1>2, <1>3, ReportInductive DEF Phases
<1>4. CASE Goto("secret") /\ UNCHANGED work
  <2>1. WorkerTypeOK'
    BY <1>1, <1>4 DEF WorkerTypeOK, Goto, Steps, TargetSteps
  <2>2. FetchedObject'
    BY <1>1, <1>4, SamePassFetched DEF SamePass, Goto, CleanupSteps
  <2> QED
    BY <1>1, <1>2, <1>4, <2>1, <2>2
       DEF MintOnlyWhenDue, NeedsRotation, SecretOf, NamesResolved, AccessCleaned,
           CleanupSteps, Goto
<1> QED
  BY <1>3, <1>4 DEF MintScopedToken

\* Writing a well-formed Secret into a slot keeps all of them so.
LEMMA SlotUpdateOfSecret ==
    ASSUME McpTypeOK, NEW cp \in ControlPlanes, NEW n \in Names, NEW r \in Secrets,
           UNCHANGED flux, UNCHANGED secret \/ secret' = [secret EXCEPT ![cp][n] = r]
    PROVE  McpTypeOK'
BY DEF McpTypeOK

\* The same of a Flux GitRepository.
LEMMA SlotUpdateOfFlux ==
    ASSUME McpTypeOK, NEW cp \in ControlPlanes, NEW n \in Names, NEW r \in FluxGRs,
           UNCHANGED secret, UNCHANGED flux \/ flux' = [flux EXCEPT ![cp][n] = r]
    PROVE  McpTypeOK'
<1>1. CASE UNCHANGED flux
  BY <1>1 DEF McpTypeOK
<1>2. CASE flux' = [flux EXCEPT ![cp][n] = r]
  <2>1. [flux[cp] EXCEPT ![n] = r] \in [Names -> FluxGRs]
    BY DEF McpTypeOK
  <2>2. flux' \in [ControlPlanes -> [Names -> FluxGRs]]
    BY <1>2, <2>1 DEF McpTypeOK
  <2> QED
    BY <2>2 DEF McpTypeOK
<1> QED
  BY <1>1, <1>2

\* After the Secret is written the token no longer matters to the pass.
LEMMA SyncSecretInductive == ASSUME InductiveInv, SyncSecret PROVE InductiveInv'
<1> USE DEF InductiveInv, TypeOK
<1>1. /\ pc = "secret" /\ UNCHANGED repo
      /\ work.repo \in GitRepos /\ work.target \in ControlPlanes
  BY DEF SyncSecret, At, WorkerTypeOK, TargetSteps, cluster
<1>2. ClusterTypeOK' /\ BudgetTypeOK'
  BY BudgetType DEF SyncSecret, ClusterTypeOK, cluster
<1>3. McpTypeOK'
  <2> DEFINE r == [owner |-> work.repo, due |-> FALSE]
  <2>1. r \in Secrets /\ NameOf[work.repo] \in Names
    BY <1>1, NamesAssumption DEF Secrets, Owners
  <2>2. /\ UNCHANGED flux
        /\ \/ UNCHANGED secret
           \/ secret' = [secret EXCEPT ![work.target][NameOf[work.repo]] = r]
    BY DEF SyncSecret
  <2> QED
    BY <1>1, <2>1, <2>2, SlotUpdateOfSecret
<1>4. CASE Report(work.target, "TokenFailed")
  BY <1>1, <1>2, <1>3, <1>4, ReportInductive DEF Phases
<1>5. CASE Goto("flux") /\ UNCHANGED work
  <2>1. WorkerTypeOK'
    BY <1>1, <1>5 DEF WorkerTypeOK, Goto, Steps, TargetSteps
  <2>2. FetchedObject'
    BY <1>1, <1>5, SamePassFetched DEF SamePass, Goto, CleanupSteps
  <2> QED
    BY <1>2, <1>3, <1>5, <2>1, <2>2
       DEF MintOnlyWhenDue, NamesResolved, AccessCleaned, CleanupSteps, Goto
<1> QED
  BY <1>4, <1>5 DEF SyncSecret

\* Whatever comes of the Flux GitRepository, a phase is reported.
LEMMA SyncFluxInductive == ASSUME InductiveInv, SyncFluxGitRepository PROVE InductiveInv'
<1> USE DEF InductiveInv, TypeOK
<1>1. /\ pc = "flux" /\ UNCHANGED repo /\ work \in Works
      /\ work.repo \in GitRepos /\ work.target \in ControlPlanes
  BY DEF SyncFluxGitRepository, At, WorkerTypeOK, TargetSteps, cluster
<1>2. ClusterTypeOK' /\ BudgetTypeOK'
  BY BudgetType DEF SyncFluxGitRepository, ClusterTypeOK, cluster
<1>3. McpTypeOK'
  <2> DEFINE r == [owner |-> work.repo, rev |-> work.spec.rev]
  <2>1. r \in FluxGRs /\ NameOf[work.repo] \in Names
    BY <1>1, NamesAssumption DEF FluxGRs, Owners, Works, PropagateSpecs
  <2>2. /\ UNCHANGED secret
        /\ \/ UNCHANGED flux
           \/ flux' = [flux EXCEPT ![work.target][NameOf[work.repo]] = r]
    BY DEF SyncFluxGitRepository
  <2> QED
    BY <1>1, <2>1, <2>2, SlotUpdateOfFlux
<1>4. \E phase \in Phases : Report(work.target, phase)
  BY DEF SyncFluxGitRepository, Phases
<1> QED
  BY <1>1, <1>2, <1>3, <1>4, ReportInductive

-----------------------------------------------------------------------------
(* The steps of the cleanup.                                               *)

\* Cleanup starts with every name of the spec among the targets, none of them done.
LEMMA StartCleanupInductive == ASSUME InductiveInv, StartCleanup PROVE InductiveInv'
<1> USE DEF InductiveInv, TypeOK
<1>1. /\ pc = "access" /\ pc' = "cleanup" /\ work.todo = {} /\ work.deleting
      /\ UNCHANGED repo /\ work \in Works /\ work.repo \in GitRepos
  BY DEF StartCleanup, At, Goto, WorkerTypeOK, cluster
<1>2. ClusterTypeOK' /\ McpTypeOK' /\ BudgetTypeOK'
  BY ObjectsKept DEF StartCleanup, BudgetTypeOK, budgets
<1>3. /\ work' \in Works /\ SamePass
      /\ work'.reach = work.reach /\ work'.todo = Targets
  BY <1>1 DEF StartCleanup, Works, Targets, SamePass
<1>4. WorkerTypeOK'
  BY <1>1, <1>3 DEF WorkerTypeOK, Steps, TargetSteps, SamePass
<1>5. FetchedObject'
  BY <1>1, <1>3, SamePassFetched
<1>6. NamesResolved' /\ AccessCleaned'
  BY <1>1, <1>3 DEF NamesResolved, AccessCleaned, CleanupSteps, Targets, SamePass
<1> QED
  BY <1>1, <1>2, <1>4, <1>5, <1>6 DEF MintOnlyWhenDue

\* A target is done once its AccessRequest is gone, or an error is on the list.
LEMMA CleanupAccessRequestInductive ==
    ASSUME InductiveInv, CleanupAccessRequest PROVE InductiveInv'
<1> USE DEF InductiveInv, TypeOK
<1>1. pc = "cleanup" /\ UNCHANGED repo /\ work \in Works /\ work.repo \in GitRepos
  BY DEF CleanupAccessRequest, At, WorkerTypeOK
<1>2. McpTypeOK' /\ BudgetTypeOK'
  BY BudgetType DEF CleanupAccessRequest, McpTypeOK, mcp
<1>3. PICK cp \in work.todo, err \in BOOLEAN :
         /\ IF err THEN UNCHANGED access
                   ELSE access' = [access EXCEPT ![work.repo][cp] = "none"]
         /\ Goto(IF work.reach[cp] = "cluster" THEN "fluxGet" ELSE "cleanup")
         /\ work' = [work EXCEPT
                        !.target = IF work.reach[cp] = "cluster" THEN cp ELSE Absent,
                        !.todo = @ \ {cp},
                        !.failed = @ \/ err]
  BY DEF CleanupAccessRequest
<1>4. cp \in ControlPlanes
  BY <1>1 DEF Works
<1>5. ClusterTypeOK'
  BY <1>1, <1>3, <1>4 DEF CleanupAccessRequest, ClusterTypeOK
<1>6. /\ work' \in Works /\ SamePass
      /\ work'.reach = work.reach /\ work'.todo = work.todo \ {cp}
      /\ work'.failed = (work.failed \/ err)
  BY <1>1, <1>3, <1>4 DEF Works, SamePass
<1>7. /\ pc' \in {"fluxGet", "cleanup"}
      /\ pc' = "fluxGet" => work'.target \in ControlPlanes
  BY <1>1, <1>3, <1>4 DEF Goto, Works
<1>8. WorkerTypeOK'
  BY <1>1, <1>6, <1>7 DEF WorkerTypeOK, Steps, TargetSteps, SamePass
<1>9. FetchedObject'
  BY <1>1, <1>6, <1>7, SamePassFetched DEF FetchedObject, CleanupSteps
<1>10. NamesResolved'
  BY <1>1, <1>6, <1>7 DEF NamesResolved, CleanupSteps, Targets, SamePass
<1>11. AccessCleaned'
  <2> SUFFICES ASSUME ~work'.failed, NEW c \in Targets' \ work'.todo
               PROVE  access'[work'.repo][c] = "none"
    BY DEF AccessCleaned
  <2>1. ~err /\ ~work.failed /\ c \in Targets /\ (c = cp \/ c \notin work.todo)
    BY <1>6 DEF Targets
  <2>2. access' = [access EXCEPT ![work.repo][cp] = "none"]
    BY <1>3, <2>1
  <2>3. c # cp => access[work.repo][c] = "none"
    BY <1>1, <2>1 DEF AccessCleaned, CleanupSteps
  <2> QED
    BY <1>1, <1>4, <1>6, <2>1, <2>2, <2>3 DEF ClusterTypeOK, SamePass, Targets
<1> QED
  BY <1>2, <1>5, <1>7, <1>8, <1>9, <1>10, <1>11 DEF MintOnlyWhenDue

\* What the steps on the objects in an MCP have in common: they only move on, or
\* note an error.
LEMMA CleanupStepInductive ==
    ASSUME InductiveInv, pc \in CleanupSteps, pc' \in CleanupSteps, UNCHANGED cluster,
           McpTypeOK', BudgetTypeOK',
           \/ UNCHANGED work
           \/ /\ pc' = "cleanup"
              /\ \/ work' = [work EXCEPT !.target = Absent]
                 \/ work' = [work EXCEPT !.target = Absent, !.failed = TRUE],
           pc' # "cleanup" => pc \in TargetSteps
    PROVE  InductiveInv'
<1> USE DEF InductiveInv, TypeOK
<1>1. work \in Works /\ work.repo \in GitRepos /\ UNCHANGED <<repo, access>>
  BY DEF WorkerTypeOK, CleanupSteps, cluster
<1>2. /\ work' \in Works /\ SamePass /\ work'.reach = work.reach /\ work'.todo = work.todo
      /\ ~work'.failed => ~work.failed
  BY <1>1 DEF Works, SamePass, CleanupSteps
<1>3. ClusterTypeOK'
  BY DEF ClusterTypeOK, cluster
<1>4. WorkerTypeOK'
  BY <1>1, <1>2 DEF WorkerTypeOK, CleanupSteps, TargetSteps, Steps, SamePass
<1>5. FetchedObject'
  BY <1>1, <1>2, SamePassFetched DEF FetchedObject, CleanupSteps
<1>6. NamesResolved' /\ AccessCleaned'
  BY <1>1, <1>2 DEF NamesResolved, AccessCleaned, CleanupSteps, Targets, SamePass
<1> QED
  BY <1>3, <1>4, <1>5, <1>6 DEF MintOnlyWhenDue, CleanupSteps

\* Looking at the Flux GitRepository or the Secret decides what is deleted next.
LEMMA CleanupGetInductive ==
    ASSUME InductiveInv, CleanupGetFlux \/ CleanupGetSecret PROVE InductiveInv'
<1> USE DEF InductiveInv, TypeOK
<1>1. McpTypeOK' /\ BudgetTypeOK' /\ UNCHANGED cluster
  BY BudgetType DEF CleanupGetFlux, CleanupGetSecret, McpTypeOK, mcp
<1>2. CASE CleanupGetFlux
  BY <1>1, <1>2, CleanupStepInductive DEF CleanupGetFlux, At, Goto, CleanupSteps, TargetSteps
<1>3. CASE CleanupGetSecret
  BY <1>1, <1>3, CleanupStepInductive DEF CleanupGetSecret, At, Goto, CleanupSteps, TargetSteps
<1> QED
  BY <1>2, <1>3

\* An emptied slot is a slot.
LEMMA CleanupDeleteInductive ==
    ASSUME InductiveInv, CleanupDeleteFlux \/ CleanupDeleteSecret PROVE InductiveInv'
<1> USE DEF InductiveInv, TypeOK
<1>1. work.repo \in GitRepos /\ work.target \in ControlPlanes /\ NameOf[work.repo] \in Names
  BY NamesAssumption
     DEF CleanupDeleteFlux, CleanupDeleteSecret, At, WorkerTypeOK, TargetSteps
<1>2. NoSecret \in Secrets /\ NoFlux \in FluxGRs
  BY DEF NoSecret, Secrets, NoFlux, FluxGRs, Owners
<1>3. BudgetTypeOK' /\ UNCHANGED cluster
  BY BudgetType DEF CleanupDeleteFlux, CleanupDeleteSecret
<1>4. CASE CleanupDeleteFlux
  <2>1. /\ UNCHANGED secret
        /\ \/ UNCHANGED flux
           \/ flux' = [flux EXCEPT ![work.target][NameOf[work.repo]] = NoFlux]
    BY <1>4 DEF CleanupDeleteFlux
  <2>2. McpTypeOK'
    BY <1>1, <1>2, <2>1, SlotUpdateOfFlux
  <2> QED
    BY <1>3, <1>4, <2>2, CleanupStepInductive
       DEF CleanupDeleteFlux, At, Goto, CleanupSteps, TargetSteps
<1>5. CASE CleanupDeleteSecret
  <2>1. /\ UNCHANGED flux
        /\ \/ UNCHANGED secret
           \/ secret' = [secret EXCEPT ![work.target][NameOf[work.repo]] = NoSecret]
    BY <1>5 DEF CleanupDeleteSecret
  <2>2. McpTypeOK'
    BY <1>1, <1>2, <2>1, SlotUpdateOfSecret
  <2> QED
    BY <1>3, <1>5, <2>2, CleanupStepInductive
       DEF CleanupDeleteSecret, At, Goto, CleanupSteps, TargetSteps
<1> QED
  BY <1>4, <1>5

-----------------------------------------------------------------------------
(* The environment.                                                        *)

\* A write of the object by someone else makes the worker's copy stale, and a write
\* that keeps the finalizer keeps what the worker relies on.
LEMMA TouchInductive ==
    ASSUME InductiveInv, NEW g \in GitRepos, NEW r \in Repos, Touch(g),
           r.finalizer = repo[g].finalizer,
           r.finalizer => r.exists, r.deleting => r.finalizer,
           repo' = [repo EXCEPT ![g] = r],
           UNCHANGED <<access, installed, labelled, mcp>>, BudgetTypeOK'
    PROVE  InductiveInv'
<1> USE DEF InductiveInv, TypeOK
<1>1. ClusterTypeOK' /\ McpTypeOK'
  BY RepoUpdate DEF McpTypeOK, mcp
<1>2. /\ work' \in Works /\ pc' = pc
      /\ work'.repo = work.repo /\ work'.target = work.target /\ work'.spec = work.spec
      /\ work'.deleting = work.deleting /\ work'.reach = work.reach
      /\ work'.todo = work.todo /\ work'.failed = work.failed
      /\ work'.fresh => work.fresh /\ work.repo # g
  BY DEF Touch, WorkerTypeOK, Works
<1>3. WorkerTypeOK'
  BY <1>2 DEF WorkerTypeOK
<1>4. FetchedObject'
  <2> SUFFICES ASSUME pc # "idle"
               PROVE  /\ work.fresh /\ work.repo # g =>
                             repo'[work.repo].exists /\ repo'[work.repo].spec = work.spec
                      /\ pc # "adopt" => repo'[work.repo].finalizer
                      /\ pc \in CleanupSteps => work.deleting
    BY <1>2 DEF FetchedObject, CleanupSteps
  <2>1. work.repo \in GitRepos
    BY DEF WorkerTypeOK
  <2> QED
    BY <2>1 DEF FetchedObject, ClusterTypeOK
<1>5. MintOnlyWhenDue'
  BY <1>2 DEF MintOnlyWhenDue, NeedsRotation, SecretOf, mcp
<1>6. NamesResolved' /\ AccessCleaned'
  BY <1>2 DEF NamesResolved, AccessCleaned, Targets, CleanupSteps
<1> QED
  BY <1>1, <1>3, <1>4, <1>5, <1>6

\* Users create, edit and delete GitRepositories at any step of the worker.
LEMMA CreateRepoInductive ==
    ASSUME InductiveInv, NEW g \in GitRepos, NEW s \in SpecChoices, CreateRepo(g, s)
    PROVE  InductiveInv'
<1> USE DEF InductiveInv, TypeOK
<1> DEFINE r == [NoRepo EXCEPT !.exists = TRUE, !.spec = s]
<1>1. /\ r \in Repos /\ r.exists /\ ~r.finalizer /\ ~r.deleting /\ r.spec = s
  BY SpecsAssumption DEF NoRepo, Repos, EmptySpec, EmptyStatus, StatusLists, PropagateSpecs
<1>2. ~repo[g].exists /\ ~repo[g].finalizer /\ repo' = [repo EXCEPT ![g] = r]
  BY DEF CreateRepo, ClusterTypeOK
<1> HIDE DEF r
<1>3. ClusterTypeOK' /\ McpTypeOK' /\ BudgetTypeOK' /\ WorkerTypeOK'
  BY <1>1, <1>2, RepoUpdate
     DEF CreateRepo, McpTypeOK, mcp, BudgetTypeOK, budgets, WorkerTypeOK
<1>4. FetchedObject'
  BY <1>2 DEF CreateRepo, FetchedObject, ClusterTypeOK, WorkerTypeOK
<1>5. MintOnlyWhenDue' /\ NamesResolved' /\ AccessCleaned'
  BY DEF CreateRepo, MintOnlyWhenDue, NeedsRotation, SecretOf, NamesResolved,
         AccessCleaned, Targets, mcp
<1> QED
  BY <1>3, <1>4, <1>5

\* An edit replaces the spec.
LEMMA EditSpecInductive ==
    ASSUME InductiveInv, NEW g \in GitRepos, NEW s \in SpecChoices, EditSpec(g, s)
    PROVE  InductiveInv'
<1> USE DEF InductiveInv, TypeOK
<1> DEFINE r == [repo[g] EXCEPT !.spec = s, !.observed = FALSE]
<1>1. repo[g] \in Repos
  BY DEF ClusterTypeOK
<1>2. /\ r \in Repos /\ r.exists = repo[g].exists
      /\ r.finalizer = repo[g].finalizer /\ r.deleting = repo[g].deleting
  BY <1>1, SpecsAssumption DEF Repos
<1>3. repo' = [repo EXCEPT ![g] = r] /\ Touch(g) /\ BudgetTypeOK'
  BY BoundsAssumption DEF EditSpec, Edit, BudgetTypeOK
<1> HIDE DEF r
<1> QED
  BY <1>2, <1>3, TouchInductive DEF EditSpec, ClusterTypeOK

\* A delete request marks an object with the finalizer and removes one without.
LEMMA DeleteRepoInductive ==
    ASSUME InductiveInv, NEW g \in GitRepos, DeleteRepo(g) PROVE InductiveInv'
<1> USE DEF InductiveInv, TypeOK
<1> DEFINE r == IF repo[g].finalizer
                THEN [repo[g] EXCEPT !.deleting = TRUE, !.observed = FALSE]
                ELSE NoRepo
<1>1. repo[g] \in Repos /\ (repo[g].finalizer => repo[g].exists)
  BY DEF ClusterTypeOK
<1>2. NoRepo \in Repos /\ ~NoRepo.finalizer /\ ~NoRepo.deleting
  BY DEF NoRepo, Repos, EmptySpec, EmptyStatus, StatusLists, PropagateSpecs
<1>3. /\ r \in Repos /\ r.finalizer = repo[g].finalizer
      /\ r.finalizer => r.exists
      /\ r.deleting => r.finalizer
  BY <1>1, <1>2 DEF Repos
<1>4. repo' = [repo EXCEPT ![g] = r] /\ Touch(g) /\ BudgetTypeOK'
  BY DEF DeleteRepo, BudgetTypeOK, budgets
<1> HIDE DEF r
<1> QED
  BY <1>3, <1>4, TouchInductive DEF DeleteRepo

\* The access provider answers only requests that are there: it creates none.
LEMMA AccessAnswerInductive ==
    ASSUME InductiveInv, NEW g \in GitRepos, NEW cp \in ControlPlanes,
           Grant(g, cp) \/ Deny(g, cp)
    PROVE  InductiveInv'
<1> USE DEF InductiveInv, TypeOK
<1>1. /\ access[g][cp] = "pending"
      /\ \E a \in {"granted", "denied"} : access' = [access EXCEPT ![g][cp] = a]
      /\ UNCHANGED <<repo, installed, labelled, mcp, pc, work, budgets>>
  BY DEF Grant, Deny
<1>2. ClusterTypeOK' /\ McpTypeOK' /\ BudgetTypeOK' /\ WorkerTypeOK'
  BY <1>1 DEF ClusterTypeOK, McpTypeOK, mcp, BudgetTypeOK, budgets, WorkerTypeOK
<1>3. FetchedObject' /\ MintOnlyWhenDue' /\ NamesResolved'
  BY <1>1 DEF FetchedObject, MintOnlyWhenDue, NeedsRotation, SecretOf, NamesResolved,
              Targets, mcp
<1>4. AccessCleaned'
  BY <1>1 DEF AccessCleaned, CleanupSteps, Targets, ClusterTypeOK, WorkerTypeOK
<1> QED
  BY <1>2, <1>3, <1>4

\* Credentials and labels are read, never remembered.
LEMMA SelectionInductive ==
    ASSUME InductiveInv,
           \/ \E g \in GitRepos : CredentialChanges(g)
           \/ \E cp \in ControlPlanes : Relabel(cp)
    PROVE  InductiveInv'
<1> USE DEF InductiveInv, TypeOK
<1>1. /\ installed' \subseteq GitRepos /\ labelled' \subseteq ControlPlanes
      /\ UNCHANGED <<repo, access, mcp, pc, work>> /\ BudgetTypeOK'
  BY BoundsAssumption DEF CredentialChanges, Relabel, Edit, ClusterTypeOK, BudgetTypeOK
<1>2. ClusterTypeOK' /\ McpTypeOK' /\ WorkerTypeOK'
  BY <1>1 DEF ClusterTypeOK, McpTypeOK, mcp, WorkerTypeOK
<1>3. FetchedObject' /\ MintOnlyWhenDue' /\ NamesResolved' /\ AccessCleaned'
  BY <1>1 DEF FetchedObject, MintOnlyWhenDue, NeedsRotation, SecretOf, NamesResolved,
              AccessCleaned, Targets, mcp
<1> QED
  BY <1>1, <1>2, <1>3

\* What time and people do in the MCPs never turns a Secret that needs rotation into
\* one that does not: a token only comes due, and a Secret made by hand has no expiry.
LEMMA McpChangesInductive ==
    ASSUME InductiveInv, NEW cp \in ControlPlanes, NEW n \in Names,
           TokenComesDue(cp, n) \/ ManualSecret(cp, n) \/ ManualFlux(cp, n)
    PROVE  InductiveInv'
<1> USE DEF InductiveInv, TypeOK
<1>1. UNCHANGED <<cluster, pc, work>> /\ BudgetTypeOK'
  BY BoundsAssumption DEF TokenComesDue, ManualSecret, ManualFlux, Edit, BudgetTypeOK, budgets
<1>2. secret[cp][n] \in Secrets /\ flux[cp][n] \in FluxGRs
  BY DEF McpTypeOK
<1>3. CASE ManualFlux(cp, n)
  <2> DEFINE r == IF flux[cp][n].owner = Absent THEN [owner |-> Manual, rev |-> 0] ELSE NoFlux
  <2>1. r \in FluxGRs
    BY DEF FluxGRs, NoFlux, Owners
  <2>2. UNCHANGED secret /\ flux' = [flux EXCEPT ![cp][n] = r]
    BY <1>3 DEF ManualFlux
  <2>3. McpTypeOK'
    BY <2>1, <2>2, SlotUpdateOfFlux
  <2>4. MintOnlyWhenDue'
    BY <1>1, <2>2 DEF MintOnlyWhenDue, NeedsRotation, SecretOf
  <2> QED
    BY <1>1, <2>3, <2>4
       DEF cluster, ClusterTypeOK, WorkerTypeOK, FetchedObject, NamesResolved,
           AccessCleaned, Targets
<1>4. CASE TokenComesDue(cp, n) \/ ManualSecret(cp, n)
  <2> DEFINE NeedsIt(r) == r.owner \in {Absent, Manual} \/ r.due
  <2>1. PICK r \in Secrets : NeedsIt(r) /\ secret' = [secret EXCEPT ![cp][n] = r]
    <3>1. CASE TokenComesDue(cp, n)
      <4> DEFINE r == [secret[cp][n] EXCEPT !.due = TRUE]
      <4>1. r \in Secrets /\ r.due
        BY <1>2 DEF Secrets
      <4>2. secret' = [secret EXCEPT ![cp][n] = r]
        BY <3>1 DEF TokenComesDue
      <4> QED
        BY <4>1, <4>2
    <3>2. CASE ManualSecret(cp, n)
      <4> DEFINE r == IF secret[cp][n].owner = Absent
                      THEN [owner |-> Manual, due |-> FALSE] ELSE NoSecret
      <4>1. r \in Secrets /\ r.owner \in {Absent, Manual}
        BY DEF Secrets, NoSecret, Owners
      <4>2. secret' = [secret EXCEPT ![cp][n] = r]
        BY <3>2 DEF ManualSecret
      <4> QED
        BY <4>1, <4>2
    <3> QED
      BY <1>4, <3>1, <3>2
  <2>2. UNCHANGED flux
    BY <1>4 DEF TokenComesDue, ManualSecret
  <2>3. McpTypeOK'
    BY <2>1, <2>2, SlotUpdateOfSecret
  <2>4. MintOnlyWhenDue'
    <3> SUFFICES ASSUME pc \in {"mint", "secret"}
                 PROVE  NeedsIt(secret'[work.target][NameOf[work.repo]])
      BY <1>1 DEF MintOnlyWhenDue, NeedsRotation, SecretOf
    <3>1. /\ work.target \in ControlPlanes /\ NameOf[work.repo] \in Names
          /\ NeedsIt(secret[work.target][NameOf[work.repo]])
      BY NamesAssumption
         DEF MintOnlyWhenDue, NeedsRotation, SecretOf, WorkerTypeOK, TargetSteps
    <3> QED
      BY <2>1, <3>1 DEF McpTypeOK
  <2> QED
    BY <1>1, <2>3, <2>4
       DEF cluster, ClusterTypeOK, WorkerTypeOK, FetchedObject, NamesResolved,
           AccessCleaned, Targets
<1> QED
  BY <1>3, <1>4

-----------------------------------------------------------------------------
(* Who writes what.                                                        *)

\* Only ensureAccessRequest, the cleanup and the access provider write AccessRequests.
LEMMA AccessWriters ==
    ASSUME Next, access' # access
    PROVE  \/ EnsureAccessRequest \/ CleanupAccessRequest
           \/ \E g \in GitRepos, cp \in ControlPlanes : Grant(g, cp) \/ Deny(g, cp)
<1>1. CASE \E g \in GitRepos : Fetch(g)
  BY <1>1 DEF Fetch, cluster
<1>2. CASE WorkerStep
  BY <1>2 DEF WorkerStep, AddFinalizer, ResolveCredential, ResolveNames, ReadAccessRequest,
              ResolveGitHubCreds, StartTarget, MintScopedToken, SyncSecret,
              SyncFluxGitRepository, PatchStatus, StartCleanup, CleanupGetFlux,
              CleanupDeleteFlux, CleanupGetSecret, CleanupDeleteSecret, RemoveFinalizer,
              cluster
<1>3. CASE Crash
  BY <1>3 DEF Crash, cluster
<1>4. CASE Environment
  BY <1>4 DEF Environment, CreateRepo, EditSpec, DeleteRepo, CredentialChanges, Relabel,
              TokenComesDue, ManualSecret, ManualFlux, cluster
<1> QED
  BY <1>1, <1>2, <1>3, <1>4 DEF Next

\* Only syncSecret, the cleanup, time and people write token Secrets.
LEMMA SecretWriters ==
    ASSUME Next, secret' # secret
    PROVE  \/ SyncSecret \/ CleanupDeleteSecret
           \/ \E cp \in ControlPlanes, n \in Names :
                 TokenComesDue(cp, n) \/ ManualSecret(cp, n)
<1>1. CASE \E g \in GitRepos : Fetch(g)
  BY <1>1 DEF Fetch, mcp
<1>2. CASE WorkerStep
  BY <1>2 DEF WorkerStep, AddFinalizer, ResolveCredential, ResolveNames,
              EnsureAccessRequest, ReadAccessRequest,
              ResolveGitHubCreds, StartTarget, MintScopedToken,
              SyncFluxGitRepository, PatchStatus, StartCleanup, CleanupAccessRequest,
              CleanupGetFlux, CleanupDeleteFlux, CleanupGetSecret, RemoveFinalizer, mcp
<1>3. CASE Crash
  BY <1>3 DEF Crash, mcp
<1>4. CASE Environment
  BY <1>4 DEF Environment, CreateRepo, EditSpec, DeleteRepo, CredentialChanges, Relabel,
              Grant, Deny, ManualFlux, mcp
<1> QED
  BY <1>1, <1>2, <1>3, <1>4 DEF Next

\* Only syncFluxGitRepository, the cleanup and people write Flux GitRepositories.
LEMMA FluxWriters ==
    ASSUME Next, flux' # flux
    PROVE  \/ SyncFluxGitRepository \/ CleanupDeleteFlux
           \/ \E cp \in ControlPlanes, n \in Names : ManualFlux(cp, n)
<1>1. CASE \E g \in GitRepos : Fetch(g)
  BY <1>1 DEF Fetch, mcp
<1>2. CASE WorkerStep
  BY <1>2 DEF WorkerStep, AddFinalizer, ResolveCredential, ResolveNames,
              EnsureAccessRequest, ReadAccessRequest,
              ResolveGitHubCreds, StartTarget, MintScopedToken,
              SyncSecret, PatchStatus, StartCleanup, CleanupAccessRequest,
              CleanupGetFlux, CleanupGetSecret, CleanupDeleteSecret, RemoveFinalizer, mcp
<1>3. CASE Crash
  BY <1>3 DEF Crash, mcp
<1>4. CASE Environment
  BY <1>4 DEF Environment, CreateRepo, EditSpec, DeleteRepo, CredentialChanges, Relabel,
              Grant, Deny, TokenComesDue, ManualSecret, mcp
<1> QED
  BY <1>1, <1>2, <1>3, <1>4 DEF Next

\* A write to one slot of the MCPs changes that slot only.
LEMMA FluxWrite ==
    ASSUME McpTypeOK, NEW c \in ControlPlanes, NEW m \in Names, NEW r,
           flux' = [flux EXCEPT ![c][m] = r]
    PROVE  \A cp \in ControlPlanes, n \in Names :
              flux'[cp][n] = IF cp = c /\ n = m THEN r ELSE flux[cp][n]
BY DEF McpTypeOK

\* An AccessRequest appears where ensureAccessRequest looked for it, for the object in work.
LEMMA AccessCreator ==
    ASSUME InductiveInv, Next, NEW g \in GitRepos, NEW cp \in ControlPlanes,
           access[g][cp] = "none", access'[g][cp] # "none"
    PROVE  EnsureAccessRequest /\ work.repo = g /\ cp \in work.todo
<1> USE DEF InductiveInv, TypeOK
<1>1. ASSUME CleanupAccessRequest PROVE FALSE
  <2>1. \/ UNCHANGED access
        \/ \E c \in work.todo : access' = [access EXCEPT ![work.repo][c] = "none"]
    BY <1>1 DEF CleanupAccessRequest
  <2>2. /\ access \in [GitRepos -> [ControlPlanes -> {"none", "pending", "granted", "denied"}]]
        /\ work.repo \in GitRepos /\ work.todo \subseteq ControlPlanes
    BY <1>1 DEF CleanupAccessRequest, At, ClusterTypeOK, WorkerTypeOK, Works
  <2>3. ASSUME NEW c \in work.todo, access' = [access EXCEPT ![work.repo][c] = "none"]
        PROVE  FALSE
    <3>1. access'[g][cp] = IF g = work.repo /\ cp = c THEN "none" ELSE access[g][cp]
      BY <2>2, <2>3
    <3> QED
      BY <3>1
  <2> QED
    BY <2>1, <2>3
<1>2. ASSUME NEW h \in GitRepos, NEW c \in ControlPlanes, Grant(h, c) \/ Deny(h, c)
      PROVE  FALSE
  BY <1>2 DEF Grant, Deny, ClusterTypeOK
<1>3. EnsureAccessRequest
  BY <1>1, <1>2, AccessWriters
<1>4. work.repo = g /\ cp \in work.todo
  BY <1>3 DEF EnsureAccessRequest, At, ClusterTypeOK
<1> QED
  BY <1>3, <1>4

\* A Secret becomes g's by syncSecret, for the object and the target in work.
LEMMA SecretCreator ==
    ASSUME InductiveInv, Next, NEW g \in GitRepos, NEW cp \in ControlPlanes,
           secret[cp][NameOf[g]].owner # g, secret'[cp][NameOf[g]].owner = g
    PROVE  SyncSecret /\ work.repo = g /\ work.target = cp
<1> USE DEF InductiveInv, TypeOK
<1>1. NameOf[g] \in Names /\ g # Manual /\ g # Absent
  BY NamesAssumption, OwnersAssumption
<1>2. ~CleanupDeleteSecret
  BY <1>1 DEF CleanupDeleteSecret, McpTypeOK, NoSecret
<1>3. ASSUME NEW c \in ControlPlanes, NEW n \in Names, TokenComesDue(c, n) PROVE FALSE
  BY <1>1, <1>3 DEF TokenComesDue, McpTypeOK, Secrets
<1>4. ASSUME NEW c \in ControlPlanes, NEW n \in Names, ManualSecret(c, n) PROVE FALSE
  BY <1>1, <1>4 DEF ManualSecret, McpTypeOK, NoSecret
<1>5. SyncSecret
  BY <1>2, <1>3, <1>4, SecretWriters
<1>6. work.repo = g /\ work.target = cp
  BY <1>1, <1>5 DEF SyncSecret, At, McpTypeOK
<1> QED
  BY <1>5, <1>6

\* A Flux GitRepository becomes g's by syncFluxGitRepository.
LEMMA FluxCreator ==
    ASSUME InductiveInv, Next, NEW g \in GitRepos, NEW cp \in ControlPlanes,
           flux[cp][NameOf[g]].owner # g, flux'[cp][NameOf[g]].owner = g
    PROVE  SyncFluxGitRepository /\ work.repo = g /\ work.target = cp
<1> USE DEF InductiveInv, TypeOK
<1>1. NameOf[g] \in Names /\ g # Manual /\ g # Absent
  BY NamesAssumption, OwnersAssumption
<1>2. ASSUME CleanupDeleteFlux PROVE FALSE
  <2>1. /\ work.target \in ControlPlanes /\ NameOf[work.repo] \in Names
        /\ UNCHANGED flux \/ flux' = [flux EXCEPT ![work.target][NameOf[work.repo]] = NoFlux]
    BY <1>2, NamesAssumption DEF CleanupDeleteFlux, At, WorkerTypeOK, TargetSteps
  <2>2. \/ flux'[cp][NameOf[g]] = flux[cp][NameOf[g]]
        \/ flux'[cp][NameOf[g]] = NoFlux
    <3>1. CASE UNCHANGED flux
      BY <3>1
    <3>2. CASE flux' = [flux EXCEPT ![work.target][NameOf[work.repo]] = NoFlux]
      BY <1>1, <2>1, <3>2 DEF McpTypeOK
    <3> QED
      BY <2>1, <3>1, <3>2
  <2> QED
    BY <1>1, <2>2 DEF NoFlux
<1>3. ASSUME NEW c \in ControlPlanes, NEW n \in Names, ManualFlux(c, n) PROVE FALSE
  BY <1>1, <1>3 DEF ManualFlux, McpTypeOK, NoFlux
<1>4. SyncFluxGitRepository
  BY <1>2, <1>3, FluxWriters
<1>5. work.repo = g /\ work.target = cp
  BY <1>1, <1>4 DEF SyncFluxGitRepository, At, McpTypeOK
<1> QED
  BY <1>4, <1>5

\* Only removing the finalizer takes it off an object: a patch of the status, an edit
\* and a delete request keep it.
LEMMA FinalizerWriters ==
    ASSUME InductiveInv, Next, NEW g \in GitRepos, repo[g].finalizer, ~repo'[g].finalizer
    PROVE  RemoveFinalizer /\ work.repo = g
<1> USE DEF InductiveInv, TypeOK
<1>1. repo \in [GitRepos -> Repos] /\ repo[g].exists
  BY DEF ClusterTypeOK
<1>2. CASE \E h \in GitRepos : Fetch(h)
  BY <1>2 DEF Fetch, cluster
<1>3. CASE WorkerStep
  <2>1. CASE AddFinalizer
    BY <1>1, <2>1 DEF AddFinalizer, Repos
  <2>2. CASE PatchStatus
    <3>1. PICK ready, list :
             \/ UNCHANGED repo
             \/ repo' = [repo EXCEPT ![work.repo] =
                            [@ EXCEPT !.ready = ready, !.observed = work.fresh,
                                      !.propagated = list]]
      BY <2>2 DEF PatchStatus
    <3> QED
      BY <1>1, <3>1 DEF Repos
  <2>3. CASE RemoveFinalizer
    BY <1>1, <2>3 DEF RemoveFinalizer
  <2>4. CASE UNCHANGED repo
    BY <2>4
  <2> QED
    BY <1>3, <2>1, <2>2, <2>3, <2>4
       DEF WorkerStep, ResolveCredential, ResolveNames, EnsureAccessRequest,
           ReadAccessRequest, ResolveGitHubCreds, StartTarget, MintScopedToken, SyncSecret,
           SyncFluxGitRepository, StartCleanup, CleanupAccessRequest, CleanupGetFlux,
           CleanupDeleteFlux, CleanupGetSecret, CleanupDeleteSecret, cluster
<1>4. CASE Crash
  BY <1>4 DEF Crash, cluster
<1>5. CASE Environment
  <2>1. ASSUME NEW h \in GitRepos, NEW s \in SpecChoices, CreateRepo(h, s) PROVE FALSE
    <3>1. h # g /\ repo'[g] = repo[g]
      BY <1>1, <2>1 DEF CreateRepo
    <3> QED
      BY <3>1
  <2>2. ASSUME NEW h \in GitRepos, NEW s \in SpecChoices, EditSpec(h, s) PROVE FALSE
    BY <1>1, <2>2 DEF EditSpec, Repos
  <2>3. ASSUME NEW h \in GitRepos, DeleteRepo(h) PROVE FALSE
    BY <1>1, <2>3 DEF DeleteRepo, Repos
  <2>4. CASE UNCHANGED repo
    BY <2>4
  <2> QED
    BY <1>5, <2>1, <2>2, <2>3, <2>4
       DEF Environment, Grant, Deny, CredentialChanges, Relabel, TokenComesDue,
           ManualSecret, ManualFlux, cluster
<1> QED
  BY <1>2, <1>3, <1>4, <1>5 DEF Next

-----------------------------------------------------------------------------
(* The theorems.                                                           *)

\* Every step of the worker, every crash and every step of the environment keeps the
\* inductive invariant.
LEMMA NextInductive == ASSUME InductiveInv, [Next]_vars PROVE InductiveInv'
<1>1. CASE UNCHANGED vars
  BY <1>1 DEF vars, cluster, mcp, budgets, InductiveInv, TypeOK, ClusterTypeOK, McpTypeOK,
              WorkerTypeOK, BudgetTypeOK, FetchedObject, MintOnlyWhenDue, NeedsRotation,
              SecretOf, NamesResolved, AccessCleaned, Targets
<1>2. CASE \E g \in GitRepos : Fetch(g)
  BY <1>2, FetchInductive
<1>3. CASE WorkerStep
  <2>1. CASE AddFinalizer \/ ResolveCredential \/ ResolveNames
    BY <2>1, AddFinalizerInductive, ResolveCredentialInductive, ResolveNamesInductive
  <2>2. CASE EnsureAccessRequest \/ ReadAccessRequest \/ ResolveGitHubCreds
    BY <2>2, EnsureAccessRequestInductive, ReadAccessRequestInductive,
       ResolveGitHubCredsInductive
  <2>3. CASE StartTarget \/ MintScopedToken \/ SyncSecret \/ SyncFluxGitRepository
    BY <2>3, StartTargetInductive, MintScopedTokenInductive, SyncSecretInductive,
       SyncFluxInductive
  <2>4. CASE PatchStatus \/ StartCleanup \/ CleanupAccessRequest \/ RemoveFinalizer
    BY <2>4, PatchStatusInductive, StartCleanupInductive, CleanupAccessRequestInductive,
       RemoveFinalizerInductive
  <2>5. CASE CleanupGetFlux \/ CleanupDeleteFlux \/ CleanupGetSecret \/ CleanupDeleteSecret
    BY <2>5, CleanupGetInductive, CleanupDeleteInductive
  <2> QED
    BY <1>3, <2>1, <2>2, <2>3, <2>4, <2>5 DEF WorkerStep
<1>4. CASE Crash
  BY <1>4, CrashInductive
<1>5. CASE Environment
  <2>1. ASSUME NEW g \in GitRepos, NEW s \in SpecChoices, CreateRepo(g, s) \/ EditSpec(g, s)
        PROVE  InductiveInv'
    BY <2>1, CreateRepoInductive, EditSpecInductive
  <2>2. ASSUME NEW g \in GitRepos, DeleteRepo(g) PROVE InductiveInv'
    BY <2>2, DeleteRepoInductive
  <2>3. ASSUME NEW g \in GitRepos, NEW cp \in ControlPlanes, Grant(g, cp) \/ Deny(g, cp)
        PROVE  InductiveInv'
    BY <2>3, AccessAnswerInductive
  <2>4. ASSUME \/ \E g \in GitRepos : CredentialChanges(g)
               \/ \E cp \in ControlPlanes : Relabel(cp)
        PROVE  InductiveInv'
    BY <2>4, SelectionInductive
  <2>5. ASSUME NEW cp \in ControlPlanes, NEW n \in Names,
               TokenComesDue(cp, n) \/ ManualSecret(cp, n) \/ ManualFlux(cp, n)
        PROVE  InductiveInv'
    BY <2>5, McpChangesInductive
  <2> QED
    BY <1>5, <2>1, <2>2, <2>3, <2>4, <2>5 DEF Environment
<1> QED
  BY <1>1, <1>2, <1>3, <1>4, <1>5 DEF Next

\* What the worker knows of the objects stays true at every step of every behaviour.
THEOREM Inductive == Spec => []InductiveInv
BY InitInductive, NextInductive, PTL DEF Spec

\* Every variable keeps its type, an object with the finalizer exists, and one with a
\* deletionTimestamp has the finalizer.
THEOREM TypeCorrect == Spec => []TypeOK
<1>1. InductiveInv => TypeOK
  BY DEF InductiveInv
<1> QED
  BY <1>1, Inductive, PTL

\* A token is minted and written only while the Secret needs one (NeedsRotation in
\* propagate.go), whatever happens between the check and the write.
THEOREM MintsOnlyWhenDue == Spec => []MintOnlyWhenDue
<1>1. InductiveInv => MintOnlyWhenDue
  BY DEF InductiveInv
<1> QED
  BY <1>1, Inductive, PTL

\* An AccessRequest, Secret or Flux GitRepository is created only for an object that
\* carries the finalizer: Reconcile adds it before anything else.
THEOREM CreationUnderFinalizer == Spec => CreatesUnderFinalizer
<1>1. ASSUME InductiveInv, Next PROVE CreatedUnderFinalizer
  <2> SUFFICES ASSUME NEW g \in GitRepos, NEW cp \in ControlPlanes,
                      \/ access[g][cp] = "none" /\ access'[g][cp] # "none"
                      \/ SecretOf(g, cp).owner # g /\ SecretOf(g, cp)'.owner = g
                      \/ FluxOf(g, cp).owner # g /\ FluxOf(g, cp)'.owner = g
               PROVE  repo[g].finalizer
    BY DEF CreatedUnderFinalizer
  <2>1. work.repo = g /\ pc \in {"access", "secret", "flux"}
    BY <1>1, AccessCreator, SecretCreator, FluxCreator
       DEF EnsureAccessRequest, SyncSecret, SyncFluxGitRepository, At, SecretOf, FluxOf
  <2> QED
    BY <1>1, <2>1 DEF InductiveInv, FetchedObject
<1>2. ASSUME InductiveInv, [Next]_vars PROVE [CreatedUnderFinalizer]_vars
  BY <1>1, <1>2
<1> QED
  BY <1>2, Inductive, PTL DEF Spec, CreatesUnderFinalizer

\* The Flux GitRepository in a slot never changes hands (checkConflict in
\* syncFluxGitRepository), also when two namespaces use one name.
THEOREM FluxOwnership == Spec => FluxNeverTakenOver
<1>1. ASSUME InductiveInv, Next PROVE FluxStaysWithOwner
  <2> USE <1>1 DEF InductiveInv, TypeOK
  <2> SUFFICES ASSUME NEW cp \in ControlPlanes, NEW n \in Names,
                      flux' # flux, flux[cp][n].owner # Absent
               PROVE  flux'[cp][n].owner \in {flux[cp][n].owner, Absent}
    BY DEF FluxStaysWithOwner
  <2> DEFINE c == work.target
             m == NameOf[work.repo]
  <2>1. CASE SyncFluxGitRepository
    <3>1. c \in ControlPlanes /\ m \in Names
      BY <2>1, NamesAssumption DEF SyncFluxGitRepository, At, WorkerTypeOK, TargetSteps
    <3>2. /\ flux[c][m].owner \in {Absent, work.repo}
          /\ flux' = [flux EXCEPT ![c][m] = [owner |-> work.repo, rev |-> work.spec.rev]]
      BY <2>1 DEF SyncFluxGitRepository, MayWriteFlux, FluxOf
    <3> QED
      BY <3>1, <3>2, FluxWrite
  <2>2. CASE CleanupDeleteFlux
    <3>1. /\ c \in ControlPlanes /\ m \in Names
          /\ flux' = [flux EXCEPT ![c][m] = NoFlux]
      BY <2>2, NamesAssumption DEF CleanupDeleteFlux, At, WorkerTypeOK, TargetSteps
    <3> QED
      BY <3>1, FluxWrite DEF NoFlux
  <2>3. ASSUME NEW d \in ControlPlanes, NEW k \in Names, ManualFlux(d, k)
        PROVE  flux'[cp][n].owner \in {flux[cp][n].owner, Absent}
    <3> DEFINE r == IF flux[d][k].owner = Absent THEN [owner |-> Manual, rev |-> 0] ELSE NoFlux
    <3>1. /\ flux' = [flux EXCEPT ![d][k] = r]
          /\ flux[d][k].owner # Absent => r.owner = Absent
      <4>1. flux[d][k] \in FluxGRs
        BY DEF McpTypeOK
      <4> QED
        BY <2>3, <4>1 DEF ManualFlux, NoFlux
    <3> HIDE DEF r
    <3> QED
      BY <3>1, FluxWrite
  <2> QED
    BY <2>1, <2>2, <2>3, FluxWriters
<1>2. ASSUME InductiveInv, [Next]_vars PROVE [FluxStaysWithOwner]_vars
  BY <1>1, <1>2
<1> QED
  BY <1>2, Inductive, PTL DEF Spec, FluxNeverTakenOver

\* When the finalizer goes, no AccessRequest remains for a ControlPlane the spec names
\* (reconcileDelete), whatever failed, crashed or was edited before.
THEOREM AccessIsReleased == Spec => ReleaseDropsAccess
<1>1. ASSUME InductiveInv, Next PROVE AccessReleased
  <2> USE <1>1 DEF InductiveInv, TypeOK
  <2> SUFFICES ASSUME NEW g \in GitRepos, repo[g].finalizer, ~repo'[g].finalizer
               PROVE  \A cp \in repo[g].spec.names : access[g][cp] = "none"
    BY DEF AccessReleased
  <2>1. RemoveFinalizer /\ work.repo = g
    BY <1>1, FinalizerWriters
  <2>2. pc = "cleanup" /\ work.todo = {} /\ ~work.failed /\ work.fresh
    BY <2>1 DEF RemoveFinalizer, At, NoCleanupErrors, UpdateAccepted
  <2>3. repo[g].spec.names \subseteq Targets
    BY <2>1, <2>2 DEF FetchedObject, NamesResolved, CleanupSteps
  <2> QED
    BY <2>1, <2>2, <2>3 DEF AccessCleaned, CleanupSteps
<1>2. ASSUME InductiveInv, [Next]_vars PROVE [AccessReleased]_vars
  BY <1>1, <1>2
<1> QED
  BY <1>2, Inductive, PTL DEF Spec, ReleaseDropsAccess

=============================================================================
