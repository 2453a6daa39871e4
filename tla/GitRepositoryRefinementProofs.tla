------------------- MODULE GitRepositoryRefinementProofs -------------------
(***************************************************************************)
(* The GitRepository controller implements PropagationContract, for every  *)
(* set of GitRepositories and ControlPlanes and with every failure.        *)
(***************************************************************************)
EXTENDS GitRepositoryRefinement, GitRepositoryProofs

-----------------------------------------------------------------------------
(* PassInv is inductive, given InductiveInv.                               *)

\* A pass that returns knows nothing any more.
LEMMA ReturnPass == ASSUME pc' = "idle" PROVE PassInv'
BY DEF PassInv, AccessHeld, TargetReached, StillLeaving, CleanupHitsOwn

\* The worker goes on with the targets it has resolved.
GoesOn ==
    /\ pc # "idle" /\ UNCHANGED repo
    /\ work'.repo = work.repo /\ work'.deleting = work.deleting /\ work'.reach = work.reach
    /\ pc' \notin {"fluxDelete", "secretDelete"}
    /\ pc' \in {"mint", "secret", "flux"} => work.reach[work'.target] = "cluster"
    /\ \/ pc' \in CleanupSteps
       \/ /\ pc \notin CleanupSteps
          /\ \A cp \in ControlPlanes : access[work.repo][cp] = "granted"
                                       => access'[work.repo][cp] = "granted"

LEMMA GoesOnPass == ASSUME PassInv, GoesOn PROVE PassInv'
BY DEF PassInv, GoesOn, AccessHeld, TargetReached, StillLeaving, CleanupHitsOwn

\* Fetching an object tells whether it is leaving, and nothing of its targets.
LEMMA FetchPass ==
    ASSUME InductiveInv, NEW g \in GitRepos, Fetch(g) PROVE PassInv'
<1>1. work' = [NoWork EXCEPT !.repo = g, !.deleting = repo[g].deleting,
                             !.spec = repo[g].spec, !.propagated = repo[g].propagated]
  BY DEF Fetch
<1>2. /\ work'.repo = g /\ work'.deleting = repo[g].deleting
      /\ work'.reach = [cp \in ControlPlanes |-> "no"]
  BY <1>1 DEF NoWork
<1>3. pc' \in {"list", "adopt", "credential"} /\ repo' = repo
  BY DEF Fetch, Goto, StepAfterFetch, cluster
<1> QED
  BY <1>2, <1>3 DEF PassInv, AccessHeld, TargetReached, StillLeaving, CleanupHitsOwn

\* Reporting a phase goes on with the next target.
LEMMA ReportPass ==
    ASSUME InductiveInv, PassInv, pc \in {"target", "mint", "secret", "flux"},
           NEW cp, NEW phase, Report(cp, phase), UNCHANGED <<repo, access>>
    PROVE  PassInv'
<1>1. GoesOn
  BY DEF GoesOn, Report, Goto, InductiveInv, TypeOK, WorkerTypeOK, Works, CleanupSteps
<1> QED
  BY <1>1, GoesOnPass

\* Giving up on Resolve patches the status or returns.
LEMMA ResolveErrorPass ==
    ASSUME InductiveInv, PassInv, pc \in {"list", "access", "readAccess"},
           ResolveError, UNCHANGED <<repo, access>>
    PROVE  PassInv'
<1>1. CASE Return
  BY <1>1, ReturnPass DEF Return, Goto
<1>2. CASE Goto("patchReady") /\ work' = [work EXCEPT !.target = Absent]
  <2>1. GoesOn
    BY <1>2 DEF GoesOn, Goto, InductiveInv, TypeOK, WorkerTypeOK, Works, CleanupSteps
  <2> QED
    BY <2>1, GoesOnPass
<1> QED
  BY <1>1, <1>2 DEF ResolveError

\* Looking at the credential, and listing the names, resolves no target yet.
LEMMA ResolveNamesPass ==
    ASSUME InductiveInv, PassInv, ResolveCredential \/ ResolveNames PROVE PassInv'
<1>1. CASE ResolveCredential
  <2>1. GoesOn
    BY <1>1 DEF ResolveCredential, GoesOn, At, Goto, cluster, CleanupSteps
  <2> QED
    BY <2>1, GoesOnPass
<1>2. CASE ResolveNames
  <2>1. pc = "list" /\ UNCHANGED <<repo, access>>
    BY <1>2 DEF ResolveNames, At, cluster
  <2>2. CASE ResolveError
    BY <2>1, <2>2, ResolveErrorPass
  <2>3. ASSUME Goto("access"), NEW todo, work' = [work EXCEPT !.todo = todo] PROVE PassInv'
    <3>1. GoesOn
      BY <2>1, <2>3 DEF GoesOn, Goto, InductiveInv, TypeOK, WorkerTypeOK, Works, CleanupSteps
    <3> QED
      BY <3>1, GoesOnPass
  <2> QED
    BY <1>2, <2>2, <2>3 DEF ResolveNames
<1> QED
  BY <1>1, <1>2

\* ensureAccessRequest leaves an AccessRequest that exists as it is.
LEMMA EnsureAccessRequestPass ==
    ASSUME InductiveInv, PassInv, EnsureAccessRequest PROVE PassInv'
<1>1. pc = "access" /\ UNCHANGED repo /\ work.repo \in GitRepos /\ work \in Works
  BY DEF EnsureAccessRequest, At, InductiveInv, TypeOK, WorkerTypeOK
<1>2. PICK cp \in work.todo :
         \/ /\ Goto("readAccess")
            /\ work' = [work EXCEPT !.target = cp]
            /\ access' = [access EXCEPT ![work.repo][cp] = IF @ = "none" THEN "pending" ELSE @]
         \/ ResolveError /\ UNCHANGED access
  BY DEF EnsureAccessRequest
<1>3. CASE ResolveError /\ UNCHANGED access
  BY <1>1, <1>3, ResolveErrorPass
<1>4. CASE /\ Goto("readAccess") /\ work' = [work EXCEPT !.target = cp]
           /\ access' = [access EXCEPT ![work.repo][cp] = IF @ = "none" THEN "pending" ELSE @]
  <2>1. \A c \in ControlPlanes : access[work.repo][c] = "granted"
                                 => access'[work.repo][c] = "granted"
    BY <1>1, <1>4 DEF InductiveInv, TypeOK, ClusterTypeOK, Works
  <2>2. GoesOn
    BY <1>1, <1>4, <2>1 DEF GoesOn, Goto, Works, CleanupSteps
  <2> QED
    BY <2>2, GoesOnPass
<1> QED
  BY <1>2, <1>3, <1>4

\* A target has a cluster client only if its AccessRequest is granted.
LEMMA ReadAccessRequestPass ==
    ASSUME InductiveInv, PassInv, ReadAccessRequest PROVE PassInv'
<1> DEFINE cp == work.target
<1>1. /\ pc = "readAccess" /\ UNCHANGED <<repo, access>> /\ work \in Works
      /\ work.repo \in GitRepos /\ cp \in ControlPlanes
  BY DEF ReadAccessRequest, At, InductiveInv, TypeOK, WorkerTypeOK, TargetSteps, cluster
<1>2. CASE ResolveError
  BY <1>1, <1>2, ResolveErrorPass
<1>3. ASSUME NEW r \in {"pending", "cluster"}, r = "cluster" => access[work.repo][cp] = "granted",
             Goto("access"),
             work' = [work EXCEPT !.reach[cp] = r, !.todo = @ \ {cp}, !.target = Absent]
      PROVE  PassInv'
  <2> HIDE DEF cp
  <2>1. /\ pc' = "access" /\ work'.repo = work.repo /\ work'.deleting = work.deleting
        /\ work'.reach = [work.reach EXCEPT ![cp] = r]
    BY <1>1, <1>3 DEF Works, Goto
  <2>2. AccessHeld'
    BY <1>1, <1>3, <2>1 DEF PassInv, AccessHeld, CleanupSteps, Works
  <2> QED
    BY <1>1, <2>1, <2>2 DEF PassInv, TargetReached, StillLeaving, CleanupHitsOwn
<1>4. \/ ResolveError
      \/ \E r \in {"pending", "cluster"} :
            /\ r = "cluster" => access[work.repo][cp] = "granted"
            /\ Goto("access")
            /\ work' = [work EXCEPT !.reach[cp] = r, !.todo = @ \ {cp}, !.target = Absent]
  BY DEF ReadAccessRequest
<1> QED
  BY <1>2, <1>3, <1>4

\* The targets that Resolve returned are now to do.
LEMMA ResolvedPass ==
    ASSUME InductiveInv, PassInv, ResolveGitHubCreds \/ StartCleanup PROVE PassInv'
<1>1. /\ pc = "access" /\ UNCHANGED <<repo, access>> /\ work \in Works
      /\ pc' \in {"target", "patchReady", "cleanup"}
      /\ work' = [work EXCEPT !.todo = Targets] \/ work' = work
  BY DEF ResolveGitHubCreds, StartCleanup, At, Goto, cluster, InductiveInv, TypeOK,
         WorkerTypeOK
<1>2. GoesOn
  BY <1>1 DEF GoesOn, Works, CleanupSteps
<1> QED
  BY <1>2, GoesOnPass

\* Of the targets, only one with a cluster client is rotated.
LEMMA StartTargetPass ==
    ASSUME InductiveInv, PassInv, StartTarget PROVE PassInv'
<1>1. pc = "target" /\ UNCHANGED <<repo, access>> /\ work \in Works
  BY DEF StartTarget, At, cluster, InductiveInv, TypeOK, WorkerTypeOK
<1>2. PICK cp \in work.todo :
         \/ \E phase : Report(cp, phase)
         \/ work.reach[cp] = "cluster" /\ Rotate(cp)
  BY DEF StartTarget, SkipUnread
<1>3. CASE \E phase : Report(cp, phase)
  BY <1>1, <1>3, ReportPass
<1>4. CASE work.reach[cp] = "cluster" /\ Rotate(cp)
  <2>1. GoesOn
    BY <1>1, <1>4 DEF GoesOn, Rotate, Goto, Works, CleanupSteps
  <2> QED
    BY <2>1, GoesOnPass
<1> QED
  BY <1>2, <1>3, <1>4

\* The steps on a target keep it, until its phase is reported.
LEMMA TargetPass ==
    ASSUME InductiveInv, PassInv, MintScopedToken \/ SyncSecret \/ SyncFluxGitRepository
    PROVE  PassInv'
<1>1. /\ pc \in {"mint", "secret", "flux"} /\ UNCHANGED <<repo, access>>
      /\ \/ \E phase : Report(work.target, phase)
         \/ pc' \in {"secret", "flux"} /\ UNCHANGED work
  BY DEF MintScopedToken, SyncSecret, SyncFluxGitRepository, At, Goto, cluster
<1>2. CASE \E phase : Report(work.target, phase)
  BY <1>1, <1>2, ReportPass
<1>3. CASE pc' \in {"secret", "flux"} /\ UNCHANGED work
  <2>1. GoesOn
    BY <1>1, <1>3 DEF GoesOn, PassInv, TargetReached, CleanupSteps
  <2> QED
    BY <2>1, GoesOnPass
<1> QED
  BY <1>1, <1>2, <1>3

\* The steps of a cleanup need no access any more.
LEMMA CleanupPass ==
    ASSUME InductiveInv, PassInv, UNCHANGED repo,
           pc \in CleanupSteps, pc' \in CleanupSteps \ {"fluxDelete", "secretDelete"},
           work'.repo = work.repo /\ work'.deleting = work.deleting
                                  /\ work'.reach = work.reach
    PROVE  PassInv'
<1>1. GoesOn
  BY DEF GoesOn, CleanupSteps
<1> QED
  BY <1>1, GoesOnPass

LEMMA CleanupAccessRequestPass ==
    ASSUME InductiveInv, PassInv, CleanupAccessRequest PROVE PassInv'
<1>1. PICK cp \in work.todo, err \in BOOLEAN :
         /\ pc' = IF work.reach[cp] = "cluster" THEN "fluxGet" ELSE "cleanup"
         /\ work' = [work EXCEPT
                        !.target = IF work.reach[cp] = "cluster" THEN cp ELSE Absent,
                        !.todo = @ \ {cp}, !.failed = @ \/ err]
  BY DEF CleanupAccessRequest, Goto
<1>2. pc = "cleanup" /\ UNCHANGED repo /\ work \in Works
  BY DEF CleanupAccessRequest, At, InductiveInv, TypeOK, WorkerTypeOK
<1>3. /\ work'.repo = work.repo /\ work'.deleting = work.deleting
      /\ work'.reach = work.reach
  BY <1>1, <1>2 DEF Works
<1> QED
  BY <1>1, <1>2, <1>3, CleanupPass DEF CleanupSteps

\* The Get finds an object of this GitRepository, or the Delete is skipped.
LEMMA CleanupGetPass ==
    ASSUME InductiveInv, PassInv, CleanupGetFlux \/ CleanupGetSecret PROVE PassInv'
<1>1. /\ pc \in {"fluxGet", "secretGet"} /\ UNCHANGED <<repo, access, flux, secret>>
      /\ work \in Works
      /\ work' = work \/ work' = [work EXCEPT !.target = Absent]
  BY DEF CleanupGetFlux, CleanupGetSecret, At, cluster, mcp, InductiveInv, TypeOK,
         WorkerTypeOK
<1>2. /\ work'.repo = work.repo /\ work'.deleting = work.deleting
      /\ work'.reach = work.reach
  BY <1>1 DEF Works
<1>3. \/ pc' = "fluxDelete" /\ FluxOf(work.repo, work.target).owner = work.repo
                            /\ UNCHANGED work
      \/ pc' = "secretDelete" /\ SecretOf(work.repo, work.target).owner = work.repo
                              /\ UNCHANGED work
      \/ pc' \in {"secretGet", "cleanup"}
  BY DEF CleanupGetFlux, CleanupGetSecret, Goto, IsOurs
<1>4. CASE pc' \in {"secretGet", "cleanup"}
  BY <1>1, <1>2, <1>4, CleanupPass DEF CleanupSteps
<1>5. CASE pc' = "fluxDelete" /\ FluxOf(work.repo, work.target).owner = work.repo
                              /\ UNCHANGED work
  BY <1>1, <1>5 DEF PassInv, AccessHeld, TargetReached, StillLeaving, CleanupHitsOwn,
                    CleanupSteps, FluxOf
<1>6. CASE pc' = "secretDelete" /\ SecretOf(work.repo, work.target).owner = work.repo
                                /\ UNCHANGED work
  BY <1>1, <1>6 DEF PassInv, AccessHeld, TargetReached, StillLeaving, CleanupHitsOwn,
                    CleanupSteps, SecretOf
<1> QED
  BY <1>3, <1>4, <1>5, <1>6

LEMMA CleanupDeletePass ==
    ASSUME InductiveInv, PassInv, CleanupDeleteFlux \/ CleanupDeleteSecret PROVE PassInv'
<1>1. /\ pc \in {"fluxDelete", "secretDelete"} /\ pc' \in {"secretGet", "cleanup"}
      /\ UNCHANGED repo /\ work \in Works
      /\ \/ work' = work
         \/ work' = [work EXCEPT !.target = Absent]
         \/ work' = [work EXCEPT !.target = Absent, !.failed = TRUE]
  BY DEF CleanupDeleteFlux, CleanupDeleteSecret, At, Goto, cluster, InductiveInv, TypeOK,
         WorkerTypeOK
<1>2. /\ work'.repo = work.repo /\ work'.deleting = work.deleting
      /\ work'.reach = work.reach
  BY <1>1 DEF Works
<1> QED
  BY <1>1, <1>2, CleanupPass DEF CleanupSteps

-----------------------------------------------------------------------------
(* What the environment leaves to a pass.                                  *)

\* The local state is touched at most in its freshness, an object that is leaving goes
\* on leaving, granted access stays, and what is put into a slot is nobody's or a user's.
Aside ==
    /\ pc' = pc
    /\ work'.repo = work.repo /\ work'.deleting = work.deleting
    /\ work'.reach = work.reach /\ work'.target = work.target
    /\ \A g \in GitRepos : repo[g].deleting => repo'[g].deleting
    /\ \A g \in GitRepos, cp \in ControlPlanes :
          /\ access[g][cp] = "granted" => access'[g][cp] = "granted"
          /\ SecretOf(g, cp)'.owner \in {SecretOf(g, cp).owner, Manual, Absent}
          /\ FluxOf(g, cp)'.owner \in {FluxOf(g, cp).owner, Manual, Absent}

LEMMA AsidePass == ASSUME InductiveInv, PassInv, Aside PROVE PassInv'
<1>1. pc # "idle" => work.repo \in GitRepos
  BY DEF InductiveInv, TypeOK, WorkerTypeOK
<1>2. pc \in {"fluxDelete", "secretDelete"} => work.target \in ControlPlanes
  BY DEF InductiveInv, TypeOK, WorkerTypeOK, TargetSteps
<1>3. AccessHeld' /\ TargetReached' /\ StillLeaving'
  BY <1>1 DEF Aside, PassInv, AccessHeld, TargetReached, StillLeaving, CleanupSteps
<1>4. CleanupHitsOwn'
  <2> SUFFICES ASSUME NEW other \in GitRepos \ {work.repo}
               PROVE  /\ pc = "fluxDelete" =>
                             FluxOf(work.repo, work.target)'.owner # other
                      /\ pc = "secretDelete" =>
                             SecretOf(work.repo, work.target)'.owner # other
    BY DEF CleanupHitsOwn, Aside, FluxOf, SecretOf
  <2>1. other \notin {Manual, Absent}
    BY OwnersAssumption
  <2> QED
    BY <1>1, <1>2, <2>1 DEF Aside, PassInv, CleanupHitsOwn, FluxOf, SecretOf
<1> QED
  BY <1>3, <1>4 DEF PassInv

\* A user edits or deletes an object, or creates one: its deletionTimestamp stays.
LEMMA RepoAside ==
    ASSUME InductiveInv, NEW g \in GitRepos,
           DeleteRepo(g) \/ \E s \in SpecChoices : CreateRepo(g, s) \/ EditSpec(g, s)
    PROVE  Aside
<1>1. /\ UNCHANGED <<access, secret, flux>> /\ pc' = pc
      /\ work' = work \/ work' = [work EXCEPT !.fresh = FALSE]
  BY DEF CreateRepo, EditSpec, DeleteRepo, Touch, mcp
<1>2. /\ work'.repo = work.repo /\ work'.deleting = work.deleting
      /\ work'.reach = work.reach /\ work'.target = work.target
  BY <1>1 DEF InductiveInv, TypeOK, WorkerTypeOK, Works
<1>3. /\ repo \in [GitRepos -> Repos]
      /\ repo[g].deleting => repo[g].finalizer /\ repo[g].exists
  BY DEF InductiveInv, TypeOK, ClusterTypeOK
<1>4. \A h \in GitRepos : repo[h].deleting => repo'[h].deleting
  BY <1>3 DEF CreateRepo, EditSpec, DeleteRepo, Repos
<1> QED
  BY <1>1, <1>2, <1>4 DEF Aside, SecretOf, FluxOf

\* The access provider answers pending AccessRequests only.
LEMMA AnswerAside ==
    ASSUME InductiveInv, NEW g \in GitRepos, NEW cp \in ControlPlanes,
           Grant(g, cp) \/ Deny(g, cp)
    PROVE  Aside
<1>1. \A h \in GitRepos, c \in ControlPlanes :
         access[h][c] = "granted" => access'[h][c] = "granted"
  BY DEF Grant, Deny, InductiveInv, TypeOK, ClusterTypeOK
<1> QED
  BY <1>1 DEF Grant, Deny, Aside, SecretOf, FluxOf, mcp

\* People and time put nothing of a GitRepository into a slot.
LEMMA McpAside ==
    ASSUME InductiveInv, NEW cp \in ControlPlanes, NEW n \in Names,
           TokenComesDue(cp, n) \/ ManualSecret(cp, n) \/ ManualFlux(cp, n)
    PROVE  Aside
<1>1. UNCHANGED <<repo, access, pc, work>>
  BY DEF TokenComesDue, ManualSecret, ManualFlux, cluster
<1>2. \A c \in ControlPlanes, m \in Names :
         /\ secret'[c][m].owner \in {secret[c][m].owner, Manual, Absent}
         /\ flux'[c][m].owner \in {flux[c][m].owner, Manual, Absent}
  <2>1. CASE TokenComesDue(cp, n)
    BY <2>1 DEF TokenComesDue, InductiveInv, TypeOK, McpTypeOK, Secrets
  <2>2. CASE ManualSecret(cp, n)
    BY <2>2 DEF ManualSecret, InductiveInv, TypeOK, McpTypeOK, NoSecret
  <2>3. CASE ManualFlux(cp, n)
    BY <2>3 DEF ManualFlux, InductiveInv, TypeOK, McpTypeOK, NoFlux
  <2> QED
    BY <2>1, <2>2, <2>3
<1> QED
  BY <1>1, <1>2, NamesAssumption DEF Aside, SecretOf, FluxOf

LEMMA EnvironmentPass ==
    ASSUME InductiveInv, PassInv, Environment PROVE PassInv'
<1>1. CASE \E g \in GitRepos : \/ \E s \in SpecChoices : CreateRepo(g, s) \/ EditSpec(g, s)
                               \/ DeleteRepo(g)
  BY <1>1, RepoAside, AsidePass
<1>2. CASE \E g \in GitRepos, cp \in ControlPlanes : Grant(g, cp) \/ Deny(g, cp)
  BY <1>2, AnswerAside, AsidePass
<1>3. CASE (\E g \in GitRepos : CredentialChanges(g)) \/ (\E cp \in ControlPlanes : Relabel(cp))
  <2>1. Aside
    BY <1>3 DEF CredentialChanges, Relabel, Aside, SecretOf, FluxOf, mcp
  <2> QED
    BY <2>1, AsidePass
<1>4. CASE \E cp \in ControlPlanes, n \in Names :
              TokenComesDue(cp, n) \/ ManualSecret(cp, n) \/ ManualFlux(cp, n)
  BY <1>4, McpAside, AsidePass
<1> QED
  BY <1>1, <1>2, <1>3, <1>4 DEF Environment

-----------------------------------------------------------------------------
(* The worker's knowledge, at every step of every behaviour.               *)

LEMMA InitPass == Init => PassInv
BY DEF Init, PassInv, AccessHeld, TargetReached, StillLeaving, CleanupHitsOwn

LEMMA NextPass == ASSUME InductiveInv, PassInv, [Next]_vars PROVE PassInv'
<1>1. CASE UNCHANGED vars
  BY <1>1 DEF vars, cluster, mcp, PassInv, AccessHeld, TargetReached, StillLeaving,
              CleanupHitsOwn, FluxOf, SecretOf
<1>2. CASE \E g \in GitRepos : Fetch(g)
  BY <1>2, FetchPass
<1>3. CASE WorkerStep
  <2>1. CASE AddFinalizer \/ PatchStatus \/ RemoveFinalizer
    BY <2>1, ReturnPass DEF AddFinalizer, PatchStatus, RemoveFinalizer, Return, Goto
  <2>2. CASE ResolveCredential \/ ResolveNames \/ EnsureAccessRequest \/ ReadAccessRequest
    BY <2>2, ResolveNamesPass, EnsureAccessRequestPass, ReadAccessRequestPass
  <2>3. CASE ResolveGitHubCreds \/ StartTarget \/ MintScopedToken \/ SyncSecret
             \/ SyncFluxGitRepository
    BY <2>3, ResolvedPass, StartTargetPass, TargetPass
  <2>4. CASE StartCleanup \/ CleanupAccessRequest \/ CleanupGetFlux \/ CleanupDeleteFlux
             \/ CleanupGetSecret \/ CleanupDeleteSecret
    BY <2>4, ResolvedPass, CleanupAccessRequestPass, CleanupGetPass, CleanupDeletePass
  <2> QED
    BY <1>3, <2>1, <2>2, <2>3, <2>4 DEF WorkerStep
<1>4. CASE Crash
  BY <1>4, ReturnPass DEF Crash, Return, Goto
<1>5. CASE Environment
  BY <1>5, EnvironmentPass
<1> QED
  BY <1>1, <1>2, <1>3, <1>4, <1>5 DEF Next

LEMMA PassHolds == Spec => [](InductiveInv /\ PassInv)
<1>1. Init => InductiveInv /\ PassInv
  BY InitInductive, InitPass
<1>2. InductiveInv /\ PassInv /\ [Next]_vars => InductiveInv' /\ PassInv'
  BY NextInductive, NextPass
<1> QED
  BY <1>1, <1>2, PTL DEF Spec

\* Cleanup (propagate.go) never deletes an object of another GitRepository, although it
\* deletes by name what it has looked at one call earlier.
THEOREM CleanupHitsOnlyOwn == Spec => []CleanupHitsOwn
<1>1. PassInv => CleanupHitsOwn
  BY DEF PassInv
<1> QED
  BY <1>1, PassHolds, PTL

-----------------------------------------------------------------------------
(* What a write of an object is to the contract.                           *)

\* A write of one GitRepository is a step of its life.
LEMMA LifeWrite ==
    ASSUME InductiveInv, NEW g \in GitRepos, NEW r \in Repos,
           repo' = [repo EXCEPT ![g] = r], UNCHANGED <<access, secret, flux>>
    PROVE  Contract!Becomes(g, Life(r), r.spec.names)
<1>1. repo \in [GitRepos -> Repos]
  BY DEF InductiveInv, TypeOK, ClusterTypeOK
<1>2. lives' = [lives EXCEPT ![g] = Life(r)]
  BY <1>1 DEF lives
<1>3. wishes' = [wishes EXCEPT ![g] = r.spec.names]
  BY <1>1 DEF wishes
<1> QED
  BY <1>2, <1>3 DEF Contract!Becomes, tokenOwners, fluxOwners

\* A write of one slot changes one owner.
LEMMA SecretWritten ==
    ASSUME McpTypeOK, NEW cp \in ControlPlanes, NEW n \in Names, NEW r,
           secret' = [secret EXCEPT ![cp][n] = r]
    PROVE  tokenOwners' = [tokenOwners EXCEPT ![cp][n] = r.owner]
BY DEF McpTypeOK, tokenOwners, OwnersIn

LEMMA FluxWritten ==
    ASSUME McpTypeOK, NEW cp \in ControlPlanes, NEW n \in Names, NEW r,
           flux' = [flux EXCEPT ![cp][n] = r]
    PROVE  fluxOwners' = [fluxOwners EXCEPT ![cp][n] = r.owner]
BY DEF McpTypeOK, fluxOwners, OwnersIn

\* What the contract calls a step.
Allowed == [Contract!Next]_(Contract!vars)

\* A step of the controller or the access provider is one that no user is charged for.
LEMMA LifeAllowed ==
    ASSUME NEW g \in GitRepos, Contract!LifeStep(g), UNCHANGED edits PROVE Allowed
BY DEF Allowed, Contract!Next, Contract!ObjectStep

LEMMA AccessAllowed ==
    ASSUME NEW g \in GitRepos, NEW cp \in ControlPlanes, Contract!AccessStep(g, cp),
           UNCHANGED edits
    PROVE  Allowed
BY DEF Allowed, Contract!Next, Contract!ObjectStep

LEMMA SlotAllowed ==
    ASSUME NEW g \in GitRepos, NEW cp \in ControlPlanes,
           Contract!WriteStep(g, cp) \/ Contract!RemoveStep(g, cp), UNCHANGED edits
    PROVE  Allowed
BY DEF Allowed, Contract!Next, Contract!ObjectStep

LEMMA NothingAllowed ==
    ASSUME UNCHANGED <<lives, wishes, access, secret, flux, edits>> PROVE Allowed
BY DEF Allowed, Contract!vars, Contract!objects, tokenOwners, fluxOwners

\* One edit pays for an act of a user, also for one that is of no concern to the contract.
LEMMA ActAllowed ==
    ASSUME NEW kind, Edit(kind),
           \/ \E g \in GitRepos, names \in SUBSET ControlPlanes : Contract!Amend(g, names)
           \/ \E cp \in ControlPlanes, n \in Names : Contract!Meddle(cp, n)
           \/ UNCHANGED <<lives, wishes, access, secret, flux>>
    PROVE  Allowed
<1>1. Contract!Act
  BY DEF Edit, Contract!Act, Contract!objects, tokenOwners, fluxOwners
<1> QED
  BY <1>1 DEF Allowed, Contract!Next

-----------------------------------------------------------------------------
(* Every step is one of the contract, or none.                             *)

\* Past the finalizer the object is adopted or leaving; in a cleanup it is leaving.
LEMMA PassInCharge ==
    ASSUME InductiveInv, PassInv, pc \notin {"idle", "adopt"}
    PROVE  /\ work.repo \in GitRepos /\ Contract!InCharge(work.repo)
           /\ pc \in CleanupSteps => lives[work.repo] = "leaving"
<1>1. /\ work.repo \in GitRepos /\ repo[work.repo].finalizer
      /\ pc \in CleanupSteps => work.deleting
  BY DEF InductiveInv, TypeOK, WorkerTypeOK, FetchedObject
<1>2. repo[work.repo].exists /\ (pc \in CleanupSteps => repo[work.repo].deleting)
  BY <1>1 DEF InductiveInv, TypeOK, ClusterTypeOK, PassInv, StillLeaving
<1> QED
  BY <1>1, <1>2 DEF Contract!InCharge, lives, Life

\* A target being written has access granted.
LEMMA PassEnters ==
    ASSUME InductiveInv, PassInv, pc \in {"secret", "flux"}
    PROVE  /\ work.repo \in GitRepos /\ work.target \in ControlPlanes
           /\ NameOf[work.repo] \in Names
           /\ Contract!Enters(work.repo, work.target)
<1>1. work.repo \in GitRepos /\ Contract!InCharge(work.repo)
  BY PassInCharge
<1>2. work.target \in ControlPlanes
  BY DEF InductiveInv, TypeOK, WorkerTypeOK, TargetSteps
<1>3. access[work.repo][work.target] = "granted"
  BY <1>2 DEF PassInv, AccessHeld, TargetReached, CleanupSteps
<1> QED
  BY <1>1, <1>2, <1>3, NamesAssumption DEF Contract!Enters

\* The finalizer is added to the object that was fetched, or to none.
LEMMA AddFinalizerAllowed ==
    ASSUME InductiveInv, PassInv, AddFinalizer, UNCHANGED edits PROVE Allowed
<1> DEFINE g == work.repo
           r == [repo[g] EXCEPT !.finalizer = TRUE]
<1>1. /\ g \in GitRepos /\ repo[g] \in Repos /\ UNCHANGED <<access, secret, flux>>
      /\ repo[g].deleting => repo[g].finalizer
  BY DEF AddFinalizer, At, InductiveInv, TypeOK, WorkerTypeOK, ClusterTypeOK, mcp
<1>2. CASE UNCHANGED repo
  BY <1>1, <1>2, NothingAllowed DEF lives, wishes
<1>3. CASE work.fresh /\ repo' = [repo EXCEPT ![g].finalizer = TRUE]
  <2>1. repo' = [repo EXCEPT ![g] = r] /\ r \in Repos
    BY <1>1, <1>3 DEF Repos, InductiveInv, TypeOK, ClusterTypeOK
  <2>2. repo[g].exists /\ r.exists /\ r.spec = repo[g].spec
        /\ r.deleting = repo[g].deleting /\ r.finalizer
    BY <1>1, <1>3 DEF InductiveInv, FetchedObject, AddFinalizer, At, Repos
  <2>3. Contract!Becomes(g, Life(r), r.spec.names)
    BY <1>1, <2>1, LifeWrite
  <2>4. lives[g] = Life(repo[g]) /\ wishes[g] = repo[g].spec.names
    BY <1>1 DEF lives, wishes
  <2> HIDE DEF g, r
  <2>5. CASE repo[g].finalizer
    <3>1. Life(r) = lives[g]
      BY <2>2, <2>4, <2>5 DEF Life
    <3>2. [lives EXCEPT ![g] = lives[g]] = lives /\ [wishes EXCEPT ![g] = wishes[g]] = wishes
      BY DEF lives, wishes
    <3>3. lives' = lives /\ wishes' = wishes
      BY <2>2, <2>3, <2>4, <3>1, <3>2 DEF Contract!Becomes
    <3> QED
      BY <1>1, <3>3, NothingAllowed
  <2>6. CASE ~repo[g].finalizer
    <3>1. Life(r) = "adopted" /\ lives[g] = "declared"
      BY <1>1, <2>2, <2>4, <2>6 DEF Life
    <3>2. Contract!Adopt(g)
      BY <2>2, <2>3, <2>4, <3>1 DEF Contract!Adopt
    <3> QED
      BY <1>1, <3>2, LifeAllowed DEF Contract!LifeStep
  <2> QED
    BY <2>5, <2>6
<1> QED
  BY <1>2, <1>3 DEF AddFinalizer, UpdateAccepted

\* A patch of the status is nothing to the contract.
LEMMA PatchStatusAllowed ==
    ASSUME InductiveInv, PatchStatus, UNCHANGED edits PROVE Allowed
<1>1. PICK ready, list :
         \/ UNCHANGED repo
         \/ repo' = [repo EXCEPT ![work.repo] =
                        [@ EXCEPT !.ready = ready, !.observed = work.fresh,
                                  !.propagated = list]]
  BY DEF PatchStatus
<1>2. ASSUME NEW g \in GitRepos
      PROVE  /\ repo'[g].exists = repo[g].exists /\ repo'[g].deleting = repo[g].deleting
             /\ repo'[g].finalizer = repo[g].finalizer /\ repo'[g].spec = repo[g].spec
  <2>1. repo \in [GitRepos -> Repos] /\ repo[g] \in Repos
    BY DEF InductiveInv, TypeOK, ClusterTypeOK
  <2>2. CASE UNCHANGED repo \/ g # work.repo
    BY <1>1, <2>1, <2>2
  <2>3. CASE g = work.repo /\ ~UNCHANGED repo
    <3>1. repo'[g] = [repo[g] EXCEPT !.ready = ready, !.observed = work.fresh,
                                     !.propagated = list]
      BY <1>1, <2>1, <2>3
    <3> QED
      BY <2>1, <3>1 DEF Repos
  <2> QED
    BY <2>2, <2>3
<1>3. lives' = lives /\ wishes' = wishes
  BY <1>2 DEF lives, wishes, Life
<1> QED
  BY <1>3, NothingAllowed DEF PatchStatus, mcp

\* The object goes with its finalizer once it has no access left.
LEMMA RemoveFinalizerAllowed ==
    ASSUME InductiveInv, PassInv, RemoveFinalizer, UNCHANGED edits PROVE Allowed
<1> DEFINE g == work.repo
<1>1. /\ pc = "cleanup" /\ work.todo = {} /\ UNCHANGED <<access, secret, flux>>
      /\ \/ UNCHANGED repo
         \/ ~work.failed /\ work.fresh /\ repo' = [repo EXCEPT ![g] = NoRepo]
  BY DEF RemoveFinalizer, At, NoCleanupErrors, UpdateAccepted, mcp
<1>2. CASE UNCHANGED repo
  BY <1>1, <1>2, NothingAllowed DEF lives, wishes
<1>3. CASE ~work.failed /\ work.fresh /\ repo' = [repo EXCEPT ![g] = NoRepo]
  <2>1. g \in GitRepos /\ lives[g] = "leaving"
    BY <1>1, PassInCharge DEF CleanupSteps
  <2>2. \A cp \in repo[g].spec.names : access[g][cp] = "none"
    BY <1>1, <1>3 DEF InductiveInv, FetchedObject, NamesResolved, AccessCleaned, CleanupSteps
  <2>3. NoRepo \in Repos /\ Life(NoRepo) = "none" /\ NoRepo.spec.names = {}
    BY DEF NoRepo, Repos, EmptySpec, EmptyStatus, StatusLists, PropagateSpecs, Life
  <2>4. Contract!Becomes(g, "none", {})
    <3>1. Contract!Becomes(g, Life(NoRepo), NoRepo.spec.names)
      BY <1>1, <1>3, <2>1, <2>3, LifeWrite
    <3> QED
      BY <2>3, <3>1
  <2>5. Contract!Go(g)
    BY <2>1, <2>2, <2>4 DEF Contract!Go, wishes
  <2> QED
    BY <2>1, <2>5, LifeAllowed DEF Contract!LifeStep
<1> QED
  BY <1>1, <1>2, <1>3

\* Access is asked for by one in charge, and given up by one that leaves.
LEMMA EnsureAccessAllowed ==
    ASSUME InductiveInv, PassInv, EnsureAccessRequest, UNCHANGED edits PROVE Allowed
<1>1. /\ pc = "access" /\ UNCHANGED <<repo, secret, flux>> /\ work \in Works
      /\ access \in [GitRepos -> [ControlPlanes -> {"none", "pending", "granted", "denied"}]]
  BY DEF EnsureAccessRequest, At, mcp, InductiveInv, TypeOK, WorkerTypeOK, ClusterTypeOK
<1>2. /\ work.repo \in GitRepos /\ Contract!InCharge(work.repo)
  BY <1>1, PassInCharge
<1>3. lives' = lives /\ wishes' = wishes
  BY <1>1 DEF lives, wishes
<1>4. PICK cp \in work.todo :
         \/ access' = [access EXCEPT ![work.repo][cp] = IF @ = "none" THEN "pending" ELSE @]
         \/ UNCHANGED access
  BY DEF EnsureAccessRequest
<1>5. cp \in ControlPlanes
  BY <1>1 DEF Works
<1>6. CASE access[work.repo][cp] # "none" \/ UNCHANGED access
  <2>1. UNCHANGED access
    BY <1>1, <1>2, <1>4, <1>5, <1>6
  <2> QED
    BY <1>1, <1>3, <2>1, NothingAllowed
<1>7. CASE access[work.repo][cp] = "none" /\ access' # access
  <2>1. access' = [access EXCEPT ![work.repo][cp] = "pending"]
    BY <1>1, <1>2, <1>4, <1>5, <1>7
  <2>2. Contract!Ask(work.repo, cp)
    BY <1>1, <1>2, <1>3, <1>7, <2>1 DEF Contract!Ask, Contract!Access, tokenOwners, fluxOwners
  <2> QED
    BY <1>2, <1>5, <2>2, AccessAllowed DEF Contract!AccessStep
<1> QED
  BY <1>6, <1>7

LEMMA CleanupAccessAllowed ==
    ASSUME InductiveInv, PassInv, CleanupAccessRequest, UNCHANGED edits PROVE Allowed
<1>1. pc = "cleanup" /\ UNCHANGED <<repo, secret, flux>> /\ work \in Works
  BY DEF CleanupAccessRequest, At, mcp, InductiveInv, TypeOK, WorkerTypeOK
<1>2. work.repo \in GitRepos /\ lives[work.repo] = "leaving"
  BY <1>1, PassInCharge DEF CleanupSteps
<1>3. lives' = lives /\ wishes' = wishes
  BY <1>1 DEF lives, wishes
<1>4. PICK cp \in work.todo :
         UNCHANGED access \/ access' = [access EXCEPT ![work.repo][cp] = "none"]
  BY DEF CleanupAccessRequest
<1>5. cp \in ControlPlanes
  BY <1>1 DEF Works
<1>6. CASE UNCHANGED access
  BY <1>1, <1>3, <1>6, NothingAllowed
<1>7. CASE access' = [access EXCEPT ![work.repo][cp] = "none"]
  <2>1. Contract!GiveUp(work.repo, cp)
    BY <1>1, <1>2, <1>3, <1>7 DEF Contract!GiveUp, Contract!Access, tokenOwners, fluxOwners
  <2> QED
    BY <1>2, <1>5, <2>1, AccessAllowed DEF Contract!AccessStep
<1> QED
  BY <1>4, <1>6, <1>7

\* What is written into a ControlPlane is written with access to it.
LEMMA SyncSecretAllowed ==
    ASSUME InductiveInv, PassInv, SyncSecret, UNCHANGED edits PROVE Allowed
<1> DEFINE g == work.repo
           cp == work.target
           r == [owner |-> g, due |-> FALSE]
<1>1. pc = "secret" /\ UNCHANGED <<repo, access, flux>>
  BY DEF SyncSecret, At, cluster
<1>2. /\ g \in GitRepos /\ cp \in ControlPlanes /\ NameOf[g] \in Names
      /\ Contract!Enters(g, cp) /\ McpTypeOK
  BY <1>1, PassEnters DEF InductiveInv, TypeOK
<1>3. UNCHANGED secret \/ secret' = [secret EXCEPT ![cp][NameOf[g]] = r]
  BY DEF SyncSecret
<1>4. lives' = lives /\ wishes' = wishes /\ fluxOwners' = fluxOwners
  BY <1>1 DEF lives, wishes, fluxOwners
<1>5. CASE UNCHANGED secret
  BY <1>1, <1>4, <1>5, NothingAllowed
<1>6. CASE secret' = [secret EXCEPT ![cp][NameOf[g]] = r]
  <2>1. tokenOwners' = [tokenOwners EXCEPT ![cp][NameOf[g]] = g]
    <3>1. r.owner = g
      OBVIOUS
    <3> HIDE DEF r, g, cp
    <3>2. McpTypeOK /\ cp \in ControlPlanes /\ NameOf[g] \in Names
          /\ secret' = [secret EXCEPT ![cp][NameOf[g]] = r]
      BY <1>2, <1>6
    <3>3. tokenOwners' = [tokenOwners EXCEPT ![cp][NameOf[g]] = r.owner]
      BY <3>2, SecretWritten
    <3> QED
      BY <3>1, <3>3
  <2>2. Contract!WriteToken(g, cp)
    BY <1>1, <1>2, <1>4, <2>1 DEF Contract!WriteToken
  <2> QED
    BY <1>2, <2>2, SlotAllowed DEF Contract!WriteStep
<1> QED
  BY <1>3, <1>5, <1>6

LEMMA SyncFluxAllowed ==
    ASSUME InductiveInv, PassInv, SyncFluxGitRepository, UNCHANGED edits PROVE Allowed
<1> DEFINE g == work.repo
           cp == work.target
           r == [owner |-> g, rev |-> work.spec.rev]
<1>1. pc = "flux" /\ UNCHANGED <<repo, access, secret>>
  BY DEF SyncFluxGitRepository, At, cluster
<1>2. /\ g \in GitRepos /\ cp \in ControlPlanes /\ NameOf[g] \in Names
      /\ Contract!Enters(g, cp) /\ McpTypeOK
  BY <1>1, PassEnters DEF InductiveInv, TypeOK
<1>3. \/ UNCHANGED flux
      \/ /\ flux[cp][NameOf[g]].owner \in {Absent, g}
         /\ flux' = [flux EXCEPT ![cp][NameOf[g]] = r]
  BY DEF SyncFluxGitRepository, MayWriteFlux, FluxOf
<1>4. lives' = lives /\ wishes' = wishes /\ tokenOwners' = tokenOwners
  BY <1>1 DEF lives, wishes, tokenOwners
<1>5. CASE UNCHANGED flux
  BY <1>1, <1>4, <1>5, NothingAllowed
<1>6. CASE /\ flux[cp][NameOf[g]].owner \in {Absent, g}
           /\ flux' = [flux EXCEPT ![cp][NameOf[g]] = r]
  <2>1. fluxOwners' = [fluxOwners EXCEPT ![cp][NameOf[g]] = g]
    <3>1. r.owner = g
      OBVIOUS
    <3> HIDE DEF r, g, cp
    <3>2. McpTypeOK /\ cp \in ControlPlanes /\ NameOf[g] \in Names
          /\ flux' = [flux EXCEPT ![cp][NameOf[g]] = r]
      BY <1>2, <1>6
    <3>3. fluxOwners' = [fluxOwners EXCEPT ![cp][NameOf[g]] = r.owner]
      BY <3>2, FluxWritten
    <3> QED
      BY <3>1, <3>3
  <2>2. fluxOwners[cp][NameOf[g]] \in {g, Absent}
    BY <1>2, <1>6 DEF fluxOwners, OwnersIn
  <2>3. Contract!WriteFlux(g, cp)
    BY <1>1, <1>2, <1>4, <2>1, <2>2 DEF Contract!WriteFlux
  <2> QED
    BY <1>2, <2>3, SlotAllowed DEF Contract!WriteStep
<1> QED
  BY <1>3, <1>5, <1>6

\* What is removed is the GitRepository's own, a user's, or gone already.
LEMMA DeletedFluxAllowed ==
    ASSUME InductiveInv, PassInv, CleanupDeleteFlux, UNCHANGED edits PROVE Allowed
<1> DEFINE g == work.repo
           cp == work.target
<1>1. pc = "fluxDelete" /\ UNCHANGED <<repo, access, secret>>
  BY DEF CleanupDeleteFlux, At, cluster
<1>2. /\ g \in GitRepos /\ cp \in ControlPlanes /\ NameOf[g] \in Names
      /\ lives[g] = "leaving" /\ McpTypeOK
  BY <1>1, PassInCharge, NamesAssumption
     DEF InductiveInv, TypeOK, WorkerTypeOK, TargetSteps, CleanupSteps
<1>3. UNCHANGED flux \/ flux' = [flux EXCEPT ![cp][NameOf[g]] = NoFlux]
  BY DEF CleanupDeleteFlux
<1>4. lives' = lives /\ wishes' = wishes /\ tokenOwners' = tokenOwners
  BY <1>1 DEF lives, wishes, tokenOwners
<1>5. CASE UNCHANGED flux
  BY <1>1, <1>4, <1>5, NothingAllowed
<1>6. CASE flux' = [flux EXCEPT ![cp][NameOf[g]] = NoFlux]
  <2>1. fluxOwners' = [fluxOwners EXCEPT ![cp][NameOf[g]] = Absent]
    <3>1. fluxOwners' = [fluxOwners EXCEPT ![cp][NameOf[g]] = NoFlux.owner]
      BY <1>2, <1>6, FluxWritten
    <3> QED
      BY <3>1 DEF NoFlux
  <2>2. fluxOwners[cp][NameOf[g]] \in {g, Manual, Absent}
    <3>1. flux[cp][NameOf[g]].owner \in Owners
      BY <1>2 DEF McpTypeOK, FluxGRs
    <3>2. fluxOwners[cp][NameOf[g]] = flux[cp][NameOf[g]].owner
      BY <1>2 DEF fluxOwners, OwnersIn
    <3> QED
      BY <1>1, <3>1, <3>2 DEF PassInv, CleanupHitsOwn, FluxOf, Owners
  <2>3. CASE fluxOwners[cp][NameOf[g]] = Absent
    <3>1. [fluxOwners EXCEPT ![cp][NameOf[g]] = fluxOwners[cp][NameOf[g]]] = fluxOwners
      BY DEF fluxOwners, OwnersIn
    <3>2. fluxOwners' = fluxOwners
      BY <2>1, <2>3, <3>1
    <3> QED
      BY <1>1, <1>4, <3>2 DEF Allowed, Contract!vars, Contract!objects
  <2>4. CASE fluxOwners[cp][NameOf[g]] \in {g, Manual}
    <3>1. Contract!RemoveFlux(g, cp)
      BY <1>1, <1>2, <1>4, <2>1, <2>4 DEF Contract!RemoveFlux, Contract!Removable
    <3> QED
      BY <1>2, <3>1, SlotAllowed DEF Contract!RemoveStep
  <2> QED
    BY <2>2, <2>3, <2>4
<1> QED
  BY <1>3, <1>5, <1>6

LEMMA DeletedSecretAllowed ==
    ASSUME InductiveInv, PassInv, CleanupDeleteSecret, UNCHANGED edits PROVE Allowed
<1> DEFINE g == work.repo
           cp == work.target
<1>1. pc = "secretDelete" /\ UNCHANGED <<repo, access, flux>>
  BY DEF CleanupDeleteSecret, At, cluster
<1>2. /\ g \in GitRepos /\ cp \in ControlPlanes /\ NameOf[g] \in Names
      /\ lives[g] = "leaving" /\ McpTypeOK
  BY <1>1, PassInCharge, NamesAssumption
     DEF InductiveInv, TypeOK, WorkerTypeOK, TargetSteps, CleanupSteps
<1>3. UNCHANGED secret \/ secret' = [secret EXCEPT ![cp][NameOf[g]] = NoSecret]
  BY DEF CleanupDeleteSecret
<1>4. lives' = lives /\ wishes' = wishes /\ fluxOwners' = fluxOwners
  BY <1>1 DEF lives, wishes, fluxOwners
<1>5. CASE UNCHANGED secret
  BY <1>1, <1>4, <1>5, NothingAllowed
<1>6. CASE secret' = [secret EXCEPT ![cp][NameOf[g]] = NoSecret]
  <2>1. tokenOwners' = [tokenOwners EXCEPT ![cp][NameOf[g]] = Absent]
    <3>1. tokenOwners' = [tokenOwners EXCEPT ![cp][NameOf[g]] = NoSecret.owner]
      BY <1>2, <1>6, SecretWritten
    <3> QED
      BY <3>1 DEF NoSecret
  <2>2. tokenOwners[cp][NameOf[g]] \in {g, Manual, Absent}
    <3>1. secret[cp][NameOf[g]].owner \in Owners
      BY <1>2 DEF McpTypeOK, Secrets
    <3>2. tokenOwners[cp][NameOf[g]] = secret[cp][NameOf[g]].owner
      BY <1>2 DEF tokenOwners, OwnersIn
    <3> QED
      BY <1>1, <3>1, <3>2 DEF PassInv, CleanupHitsOwn, SecretOf, Owners
  <2>3. CASE tokenOwners[cp][NameOf[g]] = Absent
    <3>1. [tokenOwners EXCEPT ![cp][NameOf[g]] = tokenOwners[cp][NameOf[g]]] = tokenOwners
      BY DEF tokenOwners, OwnersIn
    <3>2. tokenOwners' = tokenOwners
      BY <2>1, <2>3, <3>1
    <3> QED
      BY <1>1, <1>4, <3>2 DEF Allowed, Contract!vars, Contract!objects
  <2>4. CASE tokenOwners[cp][NameOf[g]] \in {g, Manual}
    <3>1. Contract!RemoveToken(g, cp)
      BY <1>1, <1>2, <1>4, <2>1, <2>4 DEF Contract!RemoveToken, Contract!Removable
    <3> QED
      BY <1>2, <3>1, SlotAllowed DEF Contract!RemoveStep
  <2> QED
    BY <2>2, <2>3, <2>4
<1> QED
  BY <1>3, <1>5, <1>6

\* Users, the access provider, people in a ControlPlane, and time.
LEMMA CreateRepoAllowed ==
    ASSUME InductiveInv, NEW g \in GitRepos, NEW s \in SpecChoices, CreateRepo(g, s)
    PROVE  Allowed
<1> DEFINE r == [NoRepo EXCEPT !.exists = TRUE, !.spec = s]
<1>1. /\ ~repo[g].exists /\ repo' = [repo EXCEPT ![g] = r]
      /\ UNCHANGED <<access, secret, flux, edits>>
  BY DEF CreateRepo, mcp, budgets
<1>2. s \in PropagateSpecs
  BY SpecsAssumption
<1>3. /\ r \in Repos /\ r.spec = s /\ r.exists /\ ~r.deleting /\ ~r.finalizer
      /\ s.names \subseteq ControlPlanes
  BY <1>2 DEF NoRepo, Repos, EmptyStatus, StatusLists, PropagateSpecs
<1> HIDE DEF r
<1>4. Contract!Becomes(g, "declared", s.names)
  <2>1. Contract!Becomes(g, Life(r), r.spec.names)
    BY <1>1, <1>3, LifeWrite
  <2>2. Life(r) = "declared"
    BY <1>3 DEF Life
  <2> QED
    BY <1>3, <2>1, <2>2
<1>5. Contract!Declare(g, s.names)
  BY <1>1, <1>4 DEF Contract!Declare, lives, Life
<1> QED
  BY <1>1, <1>3, <1>5, LifeAllowed DEF Contract!LifeStep

LEMMA EditSpecAllowed ==
    ASSUME InductiveInv, NEW g \in GitRepos, NEW s \in SpecChoices, EditSpec(g, s)
    PROVE  Allowed
<1> DEFINE r == [repo[g] EXCEPT !.spec = s, !.observed = FALSE]
<1>1. /\ repo[g].exists /\ repo[g] \in Repos /\ repo' = [repo EXCEPT ![g] = r]
      /\ UNCHANGED <<access, secret, flux>>
  BY DEF EditSpec, mcp, InductiveInv, TypeOK, ClusterTypeOK
<1>2. s \in PropagateSpecs
  BY SpecsAssumption
<1>3. /\ r \in Repos /\ r.spec = s /\ s.names \subseteq ControlPlanes /\ r.exists
      /\ r.deleting = repo[g].deleting /\ r.finalizer = repo[g].finalizer
  BY <1>1, <1>2 DEF Repos, PropagateSpecs
<1> HIDE DEF r
<1>4. Contract!Becomes(g, Life(r), s.names)
  BY <1>1, <1>3, LifeWrite
<1>5. lives[g] = Life(r) /\ lives[g] # "none"
  BY <1>1, <1>3 DEF lives, Life
<1>6. Contract!Amend(g, s.names)
  BY <1>4, <1>5 DEF Contract!Amend
<1> QED
  BY <1>3, <1>6, ActAllowed DEF EditSpec

LEMMA DeleteRepoAllowed ==
    ASSUME InductiveInv, NEW g \in GitRepos, DeleteRepo(g) PROVE Allowed
<1> DEFINE r == [repo[g] EXCEPT !.deleting = TRUE, !.observed = FALSE]
<1>1. /\ repo[g].exists /\ ~repo[g].deleting /\ repo[g] \in Repos
      /\ repo' = [repo EXCEPT ![g] = IF repo[g].finalizer THEN r ELSE NoRepo]
      /\ UNCHANGED <<access, secret, flux, edits>>
  BY DEF DeleteRepo, mcp, budgets, InductiveInv, TypeOK, ClusterTypeOK
<1>2. /\ r \in Repos /\ r.exists /\ r.deleting /\ r.spec = repo[g].spec
  BY <1>1 DEF Repos
<1>3. NoRepo \in Repos /\ Life(NoRepo) = "none" /\ NoRepo.spec.names = {}
  BY DEF NoRepo, Repos, EmptySpec, EmptyStatus, StatusLists, PropagateSpecs, Life
<1> HIDE DEF r
<1>4. CASE repo[g].finalizer
  <2>1. Contract!Becomes(g, Life(r), r.spec.names)
    BY <1>1, <1>2, <1>4, LifeWrite
  <2>2. Life(r) = "leaving" /\ lives[g] = "adopted" /\ wishes[g] = r.spec.names
    BY <1>1, <1>2, <1>4 DEF Life, lives, wishes
  <2>3. Contract!Leave(g)
    BY <2>1, <2>2 DEF Contract!Leave
  <2> QED
    BY <1>1, <2>3, LifeAllowed DEF Contract!LifeStep
<1>5. CASE ~repo[g].finalizer
  <2>1. Contract!Becomes(g, Life(NoRepo), NoRepo.spec.names)
    BY <1>1, <1>3, <1>5, LifeWrite
  <2>2. lives[g] = "declared"
    BY <1>1, <1>5 DEF Life, lives
  <2>3. Contract!Withdraw(g)
    BY <1>3, <2>1, <2>2 DEF Contract!Withdraw
  <2> QED
    BY <1>1, <2>3, LifeAllowed DEF Contract!LifeStep
<1> QED
  BY <1>4, <1>5

LEMMA AnswerAllowed ==
    ASSUME NEW g \in GitRepos, NEW cp \in ControlPlanes, Grant(g, cp) \/ Deny(g, cp)
    PROVE  Allowed
<1>1. /\ access[g][cp] = "pending" /\ UNCHANGED <<repo, secret, flux, edits>>
      /\ \E answer \in {"granted", "denied"} : access' = [access EXCEPT ![g][cp] = answer]
  BY DEF Grant, Deny, mcp, budgets
<1>2. lives' = lives /\ wishes' = wishes /\ tokenOwners' = tokenOwners /\ fluxOwners' = fluxOwners
  BY <1>1 DEF lives, wishes, tokenOwners, fluxOwners
<1>3. Contract!Answer(g, cp)
  BY <1>1, <1>2 DEF Contract!Answer, Contract!Access
<1> QED
  BY <1>1, <1>3, AccessAllowed DEF Contract!AccessStep

LEMMA McpAllowed ==
    ASSUME InductiveInv, NEW cp \in ControlPlanes, NEW n \in Names,
           TokenComesDue(cp, n) \/ ManualSecret(cp, n) \/ ManualFlux(cp, n)
    PROVE  Allowed
<1>1. McpTypeOK /\ UNCHANGED <<repo, access>>
  BY DEF InductiveInv, TypeOK, TokenComesDue, ManualSecret, ManualFlux, cluster
<1>2. lives' = lives /\ wishes' = wishes
  BY <1>1 DEF lives, wishes
<1>3. CASE TokenComesDue(cp, n)
  <2>1. \A c \in ControlPlanes, m \in Names : secret'[c][m].owner = secret[c][m].owner
    BY <1>1, <1>3 DEF TokenComesDue, McpTypeOK, Secrets
  <2>2. tokenOwners' = tokenOwners /\ fluxOwners' = fluxOwners
    BY <1>3, <2>1 DEF TokenComesDue, tokenOwners, fluxOwners, OwnersIn
  <2> QED
    BY <1>1, <1>2, <1>3, <2>2 DEF Allowed, Contract!vars, Contract!objects, TokenComesDue, budgets
<1>4. CASE ManualSecret(cp, n)
  <2> DEFINE made == [owner |-> Manual, due |-> FALSE]
  <2>1. made.owner = Manual /\ NoSecret.owner = Absent
    BY DEF NoSecret
  <2>2. \/ secret' = [secret EXCEPT ![cp][n] = made]
        \/ secret' = [secret EXCEPT ![cp][n] = NoSecret]
    BY <1>1, <1>4 DEF ManualSecret, McpTypeOK
  <2> HIDE DEF made
  <2>3. \/ tokenOwners' = [tokenOwners EXCEPT ![cp][n] = made.owner]
        \/ tokenOwners' = [tokenOwners EXCEPT ![cp][n] = NoSecret.owner]
    BY <1>1, <2>2, SecretWritten
  <2>4. fluxOwners' = fluxOwners
    BY <1>4 DEF ManualSecret, fluxOwners
  <2>5. Contract!Meddle(cp, n)
    BY <1>1, <1>2, <2>1, <2>3, <2>4 DEF Contract!Meddle
  <2> QED
    BY <1>4, <2>5, ActAllowed DEF ManualSecret
<1>5. CASE ManualFlux(cp, n)
  <2> DEFINE made == [owner |-> Manual, rev |-> 0]
  <2>1. made.owner = Manual /\ NoFlux.owner = Absent
    BY DEF NoFlux
  <2>2. \/ flux' = [flux EXCEPT ![cp][n] = made]
        \/ flux' = [flux EXCEPT ![cp][n] = NoFlux]
    BY <1>1, <1>5 DEF ManualFlux, McpTypeOK
  <2> HIDE DEF made
  <2>3. \/ fluxOwners' = [fluxOwners EXCEPT ![cp][n] = made.owner]
        \/ fluxOwners' = [fluxOwners EXCEPT ![cp][n] = NoFlux.owner]
    BY <1>1, <2>2, FluxWritten
  <2>4. tokenOwners' = tokenOwners
    BY <1>5 DEF ManualFlux, tokenOwners
  <2>5. Contract!Meddle(cp, n)
    BY <1>1, <1>2, <2>1, <2>3, <2>4 DEF Contract!Meddle
  <2> QED
    BY <1>5, <2>5, ActAllowed DEF ManualFlux
<1> QED
  BY <1>3, <1>4, <1>5

\* The refinement, step by step.
LEMMA InitRefines == Init => Contract!Init
<1> SUFFICES ASSUME Init PROVE Contract!Init
  OBVIOUS
<1>1. lives = [g \in GitRepos |-> "none"] /\ wishes = [g \in GitRepos |-> {}]
  BY DEF Init, lives, wishes, Life, NoRepo, EmptySpec
<1>2. /\ tokenOwners = [cp \in ControlPlanes |-> [n \in Names |-> Absent]]
      /\ fluxOwners = [cp \in ControlPlanes |-> [n \in Names |-> Absent]]
  BY DEF Init, tokenOwners, fluxOwners, OwnersIn, NoSecret, NoFlux
<1> QED
  BY <1>1, <1>2, BoundsAssumption DEF Init, Contract!Init

\* No step of the worker is charged to a user.
LEMMA WorkerKeepsEdits == ASSUME WorkerStep PROVE UNCHANGED edits
<1>1. Ok \/ Fault \/ UNCHANGED budgets => UNCHANGED edits
  BY DEF Ok, Fault, budgets
<1>2. CASE AddFinalizer \/ ResolveCredential \/ ResolveNames \/ EnsureAccessRequest
           \/ ReadAccessRequest \/ ResolveGitHubCreds
  BY <1>1, <1>2 DEF AddFinalizer, ResolveCredential, ResolveNames, EnsureAccessRequest,
                    ReadAccessRequest, ResolveGitHubCreds
<1>3. CASE StartTarget \/ MintScopedToken \/ SyncSecret \/ SyncFluxGitRepository \/ PatchStatus
  BY <1>1, <1>3 DEF StartTarget, MintScopedToken, SyncSecret, SyncFluxGitRepository,
                    PatchStatus
<1>4. CASE StartCleanup \/ CleanupAccessRequest \/ CleanupGetFlux \/ CleanupDeleteFlux
           \/ CleanupGetSecret \/ CleanupDeleteSecret \/ RemoveFinalizer
  BY <1>1, <1>4 DEF StartCleanup, CleanupAccessRequest, CleanupGetFlux, CleanupDeleteFlux,
                    CleanupGetSecret, CleanupDeleteSecret, RemoveFinalizer
<1> QED
  BY <1>2, <1>3, <1>4 DEF WorkerStep

LEMMA WorkerAllowed == ASSUME InductiveInv, PassInv, WorkerStep PROVE Allowed
<1>1. UNCHANGED edits
  BY WorkerKeepsEdits
<1>2. CASE UNCHANGED <<repo, access, secret, flux>>
  BY <1>1, <1>2, NothingAllowed DEF lives, wishes
<1>3. CASE AddFinalizer \/ PatchStatus \/ RemoveFinalizer
  BY <1>1, <1>3, AddFinalizerAllowed, PatchStatusAllowed, RemoveFinalizerAllowed
<1>4. CASE EnsureAccessRequest \/ CleanupAccessRequest
  BY <1>1, <1>4, EnsureAccessAllowed, CleanupAccessAllowed
<1>5. CASE SyncSecret \/ SyncFluxGitRepository
  BY <1>1, <1>5, SyncSecretAllowed, SyncFluxAllowed
<1>6. CASE CleanupDeleteFlux \/ CleanupDeleteSecret
  BY <1>1, <1>6, DeletedFluxAllowed, DeletedSecretAllowed
<1> QED
  BY <1>2, <1>3, <1>4, <1>5, <1>6
     DEF WorkerStep, ResolveCredential, ResolveNames, ReadAccessRequest,
         ResolveGitHubCreds, StartTarget, MintScopedToken, StartCleanup, CleanupGetFlux,
         CleanupGetSecret, cluster, mcp

LEMMA EnvironmentAllowed == ASSUME InductiveInv, Environment PROVE Allowed
<1>1. ASSUME NEW g \in GitRepos, NEW s \in SpecChoices, CreateRepo(g, s) \/ EditSpec(g, s)
      PROVE  Allowed
  BY <1>1, CreateRepoAllowed, EditSpecAllowed
<1>2. ASSUME NEW g \in GitRepos, DeleteRepo(g) PROVE Allowed
  BY <1>2, DeleteRepoAllowed
<1>3. ASSUME NEW g \in GitRepos, NEW cp \in ControlPlanes, Grant(g, cp) \/ Deny(g, cp)
      PROVE  Allowed
  BY <1>3, AnswerAllowed
<1>4. ASSUME NEW g \in GitRepos, CredentialChanges(g) PROVE Allowed
  BY <1>4, ActAllowed DEF CredentialChanges, mcp, lives, wishes
<1>5. ASSUME NEW cp \in ControlPlanes, Relabel(cp) PROVE Allowed
  BY <1>5, ActAllowed DEF Relabel, mcp, lives, wishes
<1>6. ASSUME NEW cp \in ControlPlanes, NEW n \in Names,
             TokenComesDue(cp, n) \/ ManualSecret(cp, n) \/ ManualFlux(cp, n)
      PROVE  Allowed
  BY <1>6, McpAllowed
<1> QED
  BY <1>1, <1>2, <1>3, <1>4, <1>5, <1>6 DEF Environment

LEMMA NextRefines == ASSUME InductiveInv, PassInv, [Next]_vars PROVE Allowed
<1>1. CASE (\E g \in GitRepos : Fetch(g)) \/ Crash \/ UNCHANGED vars
  <2>1. UNCHANGED <<repo, access, secret, flux, edits>>
    BY <1>1 DEF Fetch, Crash, vars, cluster, mcp, budgets
  <2> QED
    BY <2>1, NothingAllowed DEF lives, wishes
<1> QED
  BY <1>1, WorkerAllowed, EnvironmentAllowed DEF Next

\* The controller keeps the promises of PropagationContract: it writes and removes
\* objects and gives up access only where the contract lets the GitRepository do so.
THEOREM ImplementsContract == Spec => RefinesContract
<1>1. InductiveInv /\ PassInv /\ [Next]_vars => [Contract!Next]_(Contract!vars)
  BY NextRefines DEF Allowed
<1> QED
  BY <1>1, InitRefines, PassHolds, PTL DEF Spec, RefinesContract, Contract!Spec

=============================================================================
