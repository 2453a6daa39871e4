---------------------- MODULE GitRepositoryCleanProofs ----------------------
(***************************************************************************)
(* What the GitRepository controller achieves when no call fails, for      *)
(* every set of GitRepositories and ControlPlanes, every spec, and every   *)
(* order in which users, the access provider and time act.                 *)
(***************************************************************************)
EXTENDS GitRepositoryCleanPasses, GitRepositoryRefinementProofs

-----------------------------------------------------------------------------
(* No call fails, no process dies.                                         *)

LEMMA CallSucceeds == ASSUME faults = 0 PROVE ~Fault
BY DEF Fault

\* Only a failing call uses up a failure, only a crash a crash.
LEMMA BudgetSteps ==
    ASSUME [Next]_vars PROVE Fault \/ Crash \/ UNCHANGED <<faults, crashes>>
<1>1. CASE \E g \in GitRepos : Fetch(g)
  BY <1>1 DEF Fetch, budgets
<1>2. CASE AddFinalizer \/ ResolveCredential \/ ResolveNames \/ EnsureAccessRequest
  BY <1>2 DEF AddFinalizer, ResolveCredential, ResolveNames, EnsureAccessRequest, Ok, budgets
<1>3. CASE ReadAccessRequest \/ ResolveGitHubCreds \/ StartTarget \/ MintScopedToken
  BY <1>3 DEF ReadAccessRequest, ResolveGitHubCreds, StartTarget, MintScopedToken, Ok, budgets
<1>4. CASE SyncSecret \/ SyncFluxGitRepository \/ PatchStatus \/ StartCleanup
  BY <1>4 DEF SyncSecret, SyncFluxGitRepository, PatchStatus, StartCleanup, Ok, budgets
<1>5. CASE CleanupAccessRequest \/ CleanupGetFlux \/ CleanupDeleteFlux
  BY <1>5 DEF CleanupAccessRequest, CleanupGetFlux, CleanupDeleteFlux, Ok, budgets
<1>6. CASE CleanupGetSecret \/ CleanupDeleteSecret \/ RemoveFinalizer
  BY <1>6 DEF CleanupGetSecret, CleanupDeleteSecret, RemoveFinalizer, Ok, budgets
<1>7. CASE Environment
  BY <1>7 DEF Environment, CreateRepo, EditSpec, DeleteRepo, CredentialChanges, Grant, Deny,
              Relabel, TokenComesDue, ManualSecret, ManualFlux, Edit, budgets
<1> QED
  BY <1>1, <1>2, <1>3, <1>4, <1>5, <1>6, <1>7 DEF Next, WorkerStep, vars, budgets

\* Without failures in the budget none happens, and the same of crashes.
LEMMA NoFaultsStays == ASSUME faults = 0, [Next]_vars PROVE faults' = 0
BY BudgetSteps, CallSucceeds DEF Crash

LEMMA NoCrashesStays ==
    ASSUME faults = 0, crashes = 0, [Next]_vars PROVE crashes' = 0 /\ ~Crash
BY BudgetSteps, CallSucceeds DEF Crash

-----------------------------------------------------------------------------
(* The status lists every target: ListInv is inductive.                    *)

\* What the status says stays true as long as nobody writes it, and nobody takes away a
\* denied AccessRequest of an object whose status is current.
LEMMA HonestKept ==
    ASSUME StatusHonest, UNCHANGED repo,
           \A g \in GitRepos, cp \in ControlPlanes :
              repo[g].observed /\ access[g][cp] = "denied" => access'[g][cp] = "denied"
    PROVE  StatusHonest'
BY DEF StatusHonest, ReadyListsEveryTarget

\* A write to one object, with the status honest in itself.
LEMMA HonestWritten ==
    ASSUME StatusHonest, UNCHANGED access, repo \in [GitRepos -> Repos],
           NEW g \in GitRepos, NEW r \in Repos, repo' = [repo EXCEPT ![g] = r],
           r.observed => /\ ~r.deleting
                         /\ r.ready # "True" \/ (\E cp \in ControlPlanes : access[g][cp] = "denied")
                            \/ LET listed == {cp \in ControlPlanes : r.propagated[cp] # "NoEntry"}
                               IN  /\ r.spec.names \subseteq listed
                                   /\ r.spec.byLabel \/ listed \subseteq r.spec.names
    PROVE  StatusHonest'
<1>1. \A h \in GitRepos : repo'[h] = IF h = g THEN r ELSE repo[h]
  OBVIOUS
<1>2. \A h \in GitRepos : repo'[h].deleting => ~repo'[h].observed
  BY <1>1 DEF StatusHonest
<1>3. ReadyListsEveryTarget'
  <2> SUFFICES ASSUME NEW h \in GitRepos, repo'[h].observed /\ repo'[h].ready = "True",
                      \A cp \in ControlPlanes : access[h][cp] # "denied"
               PROVE  LET listed == {cp \in ControlPlanes : repo'[h].propagated[cp] # "NoEntry"}
                      IN  /\ repo'[h].spec.names \subseteq listed
                          /\ repo'[h].spec.byLabel \/ listed \subseteq repo'[h].spec.names
    BY DEF ReadyListsEveryTarget
  <2>1. CASE h = g
    BY <1>1, <2>1
  <2>2. CASE h # g
    BY <1>1, <2>2 DEF StatusHonest, ReadyListsEveryTarget
  <2> QED
    BY <2>1, <2>2
<1> QED
  BY <1>2, <1>3 DEF StatusHonest

\* A return leaves only the status to show.
LEMMA ReturnList == ASSUME Return, StatusHonest' PROVE ListInv'
BY DEF Return, Goto, NoWork, EmptySpec, ListInv, LeavingNoticed, EveryTargetListed,
       OnlyDenialGivesUp, PropagateSteps, Targets

\* The pass goes on with an object nobody wrote in this step.
LEMMA SamePassLeaving ==
    ASSUME LeavingNoticed, SamePass, UNCHANGED repo, pc' \in PropagateSteps => ~work.deleting
    PROVE  LeavingNoticed'
BY DEF LeavingNoticed, SamePass

\* A fresh pass has nothing on its lists.
LEMMA FetchList ==
    ASSUME InductiveInv, ListInv, NEW g \in GitRepos, Fetch(g) PROVE ListInv'
<1> USE DEF ListInv
<1>1. work' = [NoWork EXCEPT !.repo = g, !.deleting = repo[g].deleting,
                             !.spec = repo[g].spec, !.propagated = repo[g].propagated]
  BY DEF Fetch
<1>2. /\ work'.repo = g /\ work'.deleting = repo[g].deleting /\ work'.todo = {}
      /\ work'.reach = [cp \in ControlPlanes |-> "no"]
  BY <1>1 DEF NoWork
<1>3. /\ pc' \in {"list", "adopt", "credential"} /\ (pc' # "list" => ~repo[g].deleting)
      /\ UNCHANGED <<repo, access>>
  BY DEF Fetch, Goto, StepAfterFetch, cluster
<1>4. Targets' = {}
  BY <1>2 DEF Targets
<1>5. StatusHonest'
  BY <1>3, HonestKept
<1> QED
  BY <1>2, <1>3, <1>4, <1>5
     DEF LeavingNoticed, EveryTargetListed, OnlyDenialGivesUp, PropagateSteps

\* Writing the finalizer touches nothing else.
LEMMA AddFinalizerList == ASSUME InductiveInv, ListInv, AddFinalizer PROVE ListInv'
<1> DEFINE r == [repo[work.repo] EXCEPT !.finalizer = TRUE]
<1>1. /\ work.repo \in GitRepos /\ repo \in [GitRepos -> Repos] /\ UNCHANGED access
      /\ UNCHANGED repo \/ repo' = [repo EXCEPT ![work.repo] = r]
  BY DEF AddFinalizer, At, InductiveInv, TypeOK, WorkerTypeOK, ClusterTypeOK
<1>2. CASE UNCHANGED repo
  BY <1>1, <1>2, HonestKept, ReturnList DEF AddFinalizer, ListInv
<1>3. CASE repo' = [repo EXCEPT ![work.repo] = r]
  <2>1. /\ r \in Repos /\ r.spec = repo[work.repo].spec
        /\ r.deleting = repo[work.repo].deleting /\ r.observed = repo[work.repo].observed
        /\ r.ready = repo[work.repo].ready /\ r.propagated = repo[work.repo].propagated
    BY <1>1 DEF Repos
  <2> HIDE DEF r
  <2>2. StatusHonest'
    BY <1>1, <1>3, <2>1, HonestWritten DEF ListInv, StatusHonest, ReadyListsEveryTarget
  <2> QED
    BY <2>2, ReturnList DEF AddFinalizer
<1> QED
  BY <1>1, <1>2, <1>3

\* The list of targets is made of the names of the spec and the labelled ControlPlanes.
LEMMA ResolveNamesList ==
    ASSUME InductiveInv, ListInv, faults = 0, ResolveCredential \/ ResolveNames PROVE ListInv'
<1> USE DEF ListInv
<1>1. /\ UNCHANGED <<repo, access>> /\ work \in Works
      /\ pc \in {"credential", "list"} /\ work.todo = {} /\ Targets = {}
  BY DEF ResolveCredential, ResolveNames, At, cluster, EveryTargetListed, InductiveInv,
         TypeOK, WorkerTypeOK
<1>2. StatusHonest'
  BY <1>1, HonestKept
<1>3. CASE ResolveCredential
  <2>1. /\ pc = "credential" /\ pc' \in {"list", "patchUnresolved"} /\ UNCHANGED work
    BY <1>3 DEF ResolveCredential, At, Goto
  <2>2. LeavingNoticed'
    BY <1>1, <2>1, SamePassLeaving DEF SamePass, LeavingNoticed, PropagateSteps
  <2> QED
    BY <1>1, <1>2, <2>1, <2>2 DEF EveryTargetListed, OnlyDenialGivesUp, Targets
<1>4. CASE ResolveNames
  <2>1. /\ pc = "list" /\ pc' = "access"
        /\ work' = [work EXCEPT !.todo = @ \cup work.spec.names
                        \cup (IF work.spec.byLabel THEN labelled ELSE {})]
    BY <1>4, CallSucceeds DEF ResolveNames, At, Goto
  <2>2. /\ SamePass /\ work'.reach = work.reach
        /\ work'.todo = work.spec.names \cup (IF work.spec.byLabel THEN labelled ELSE {})
    BY <1>1, <2>1 DEF SamePass, Works
  <2>3. LeavingNoticed'
    BY <1>1, <2>1, <2>2, SamePassLeaving DEF PropagateSteps
  <2>4. EveryTargetListed'
    BY <1>1, <2>1, <2>2 DEF EveryTargetListed, Targets, SamePass
  <2> QED
    BY <1>2, <2>1, <2>3, <2>4 DEF OnlyDenialGivesUp
<1> QED
  BY <1>3, <1>4

\* The AccessRequest exists once ensureAccessRequest is through; a denied one stays.
LEMMA EnsureAccessRequestList ==
    ASSUME InductiveInv, ListInv, faults = 0, EnsureAccessRequest PROVE ListInv'
<1> USE DEF ListInv
<1>1. /\ pc = "access" /\ UNCHANGED repo /\ work.repo \in GitRepos /\ work \in Works
      /\ access \in [GitRepos -> [ControlPlanes -> {"none", "pending", "granted", "denied"}]]
  BY DEF EnsureAccessRequest, At, InductiveInv, TypeOK, WorkerTypeOK, ClusterTypeOK
<1>2. PICK cp \in work.todo :
         /\ pc' = "readAccess" /\ work' = [work EXCEPT !.target = cp]
         /\ access' = [access EXCEPT ![work.repo][cp] = IF @ = "none" THEN "pending" ELSE @]
  BY CallSucceeds DEF EnsureAccessRequest, Goto
<1>3. /\ SamePass /\ work'.reach = work.reach /\ work'.todo = work.todo /\ work'.target = cp
      /\ cp \in ControlPlanes
  BY <1>1, <1>2 DEF SamePass, Works
<1>4. /\ access'[work.repo][cp] # "none"
      /\ \A g \in GitRepos, c \in ControlPlanes :
            access[g][c] = "denied" => access'[g][c] = "denied"
  BY <1>1, <1>2, <1>3
<1>5. StatusHonest'
  BY <1>1, <1>4, HonestKept
<1>6. LeavingNoticed'
  BY <1>1, <1>2, <1>3, SamePassLeaving DEF PropagateSteps
<1>7. EveryTargetListed'
  BY <1>1, <1>2, <1>3 DEF EveryTargetListed, Targets, SamePass
<1> QED
  BY <1>1, <1>2, <1>3, <1>4, <1>5, <1>6, <1>7 DEF OnlyDenialGivesUp, SamePass

\* A target leaves the list of those to do for the list of targets; the pass gives up
\* only on a denied AccessRequest.
LEMMA ReadAccessRequestList ==
    ASSUME InductiveInv, ListInv, faults = 0, ReadAccessRequest PROVE ListInv'
<1> USE DEF ListInv
<1> DEFINE cp == work.target
<1>1. /\ pc = "readAccess" /\ UNCHANGED <<repo, access>> /\ work \in Works
      /\ work.repo \in GitRepos /\ cp \in ControlPlanes
      /\ access \in [GitRepos -> [ControlPlanes -> {"none", "pending", "granted", "denied"}]]
  BY DEF ReadAccessRequest, At, InductiveInv, TypeOK, WorkerTypeOK, ClusterTypeOK,
         TargetSteps, cluster
<1>2. StatusHonest'
  BY <1>1, HonestKept
<1>3. \/ access[work.repo][cp] = "denied" /\ ResolveError
      \/ \E r \in {"pending", "cluster"} :
            /\ pc' = "access"
            /\ work' = [work EXCEPT !.reach[cp] = r, !.todo = @ \ {cp}, !.target = Absent]
  BY <1>1, CallSucceeds DEF ReadAccessRequest, OnlyDenialGivesUp, Goto
<1>4. CASE ResolveError /\ work.deleting
  BY <1>2, <1>4, ReturnList DEF ResolveError
<1>5. CASE access[work.repo][cp] = "denied" /\ ResolveError /\ ~work.deleting
  <2>1. pc' = "patchReady" /\ work' = [work EXCEPT !.target = Absent]
    BY <1>5 DEF ResolveError, Goto
  <2>2. SamePass /\ work'.reach = work.reach /\ work'.todo = work.todo
    BY <1>1, <2>1 DEF SamePass, Works
  <2>3. LeavingNoticed'
    BY <1>1, <1>5, <2>2, SamePassLeaving
  <2>4. EveryTargetListed'
    BY <2>1, <2>2 DEF EveryTargetListed, Targets, SamePass
  <2>5. OnlyDenialGivesUp'
    BY <1>1, <1>5, <2>1, <2>2 DEF OnlyDenialGivesUp, SamePass
  <2> QED
    BY <1>2, <2>3, <2>4, <2>5
<1>6. ASSUME NEW r \in {"pending", "cluster"}, pc' = "access",
             work' = [work EXCEPT !.reach[cp] = r, !.todo = @ \ {cp}, !.target = Absent]
      PROVE  ListInv'
  <2> HIDE DEF cp
  <2>1. /\ SamePass /\ work'.todo = work.todo \ {cp}
        /\ work'.reach = [work.reach EXCEPT ![cp] = r]
    BY <1>1, <1>6 DEF SamePass, Works
  <2>2. Targets' = Targets \cup {cp}
    BY <1>1, <2>1 DEF Targets, Works
  <2>3. work.spec.byLabel \/ cp \in work.spec.names
    BY <1>1 DEF EveryTargetListed, cp
  <2>4. LeavingNoticed'
    BY <1>1, <1>6, <2>1, SamePassLeaving DEF PropagateSteps
  <2>5. EveryTargetListed'
    BY <1>6, <2>1, <2>2, <2>3 DEF EveryTargetListed, SamePass
  <2> QED
    BY <1>2, <1>6, <2>4, <2>5 DEF OnlyDenialGivesUp
<1> QED
  BY <1>3, <1>4, <1>5, <1>6

\* The loop begins with every target to do, and no failed call in between.
LEMMA ResolveGitHubCredsList ==
    ASSUME InductiveInv, ListInv, faults = 0, ResolveGitHubCreds PROVE ListInv'
<1> USE DEF ListInv
<1>1. /\ pc = "access" /\ pc' = "target" /\ UNCHANGED <<repo, access>> /\ work \in Works
      /\ work.todo = {} /\ ~work.deleting /\ work' = [work EXCEPT !.todo = Targets]
  BY CallSucceeds DEF ResolveGitHubCreds, At, Goto, cluster, InductiveInv, TypeOK, WorkerTypeOK
<1>2. SamePass /\ work'.reach = work.reach /\ work'.todo = Targets /\ Targets' = Targets
  BY <1>1 DEF SamePass, Works, Targets
<1>3. work.spec.names \subseteq Targets
  BY <1>1 DEF InductiveInv, NamesResolved
<1>4. LeavingNoticed'
  BY <1>1, <1>2, SamePassLeaving
<1>5. EveryTargetListed'
  BY <1>1, <1>2, <1>3 DEF EveryTargetListed, SamePass
<1>6. StatusHonest'
  BY <1>1, HonestKept
<1> QED
  BY <1>1, <1>4, <1>5, <1>6 DEF OnlyDenialGivesUp

\* A target that is done has an entry.
LEMMA ReportList ==
    ASSUME InductiveInv, ListInv, pc \in {"target", "mint", "secret", "flux"},
           NEW cp \in ControlPlanes, NEW phase \in Phases, Report(cp, phase),
           UNCHANGED <<repo, access>>
    PROVE  ListInv'
<1> USE DEF ListInv
<1>1. /\ pc' = "target" /\ work \in Works
      /\ work' = [work EXCEPT !.propagated[cp] = phase, !.todo = @ \ {cp}, !.target = Absent]
  BY DEF Report, Goto, InductiveInv, TypeOK, WorkerTypeOK
<1>2. /\ SamePass /\ work'.reach = work.reach /\ work'.todo = work.todo \ {cp}
      /\ work'.propagated = [work.propagated EXCEPT ![cp] = phase]
      /\ Targets' = Targets /\ phase # "NoEntry"
  BY <1>1 DEF SamePass, Works, Targets, Phases
<1>3. LeavingNoticed'
  BY <1>1, <1>2, SamePassLeaving DEF LeavingNoticed, PropagateSteps
<1>4. \A c \in Targets' \ work'.todo : work'.propagated[c] # "NoEntry"
  <2> SUFFICES ASSUME NEW c \in Targets \ (work.todo \ {cp})
               PROVE  work'.propagated[c] # "NoEntry"
    BY <1>2
  <2>1. work.propagated \in StatusLists /\ c \in ControlPlanes
    BY <1>1 DEF Works, Targets
  <2>2. CASE c = cp
    BY <1>2, <2>1, <2>2 DEF StatusLists
  <2>3. CASE c # cp
    BY <1>2, <2>1, <2>3 DEF StatusLists, EveryTargetListed
  <2> QED
    BY <2>2, <2>3
<1>5. EveryTargetListed'
  BY <1>1, <1>2, <1>4 DEF EveryTargetListed, SamePass
<1>6. StatusHonest'
  BY HonestKept
<1> QED
  BY <1>1, <1>3, <1>5, <1>6 DEF OnlyDenialGivesUp

\* The steps on a target keep the lists until they report.
LEMMA TargetList ==
    ASSUME InductiveInv, ListInv, faults = 0,
           StartTarget \/ MintScopedToken \/ SyncSecret \/ SyncFluxGitRepository
    PROVE  ListInv'
<1> USE DEF ListInv
<1>1. /\ UNCHANGED <<repo, access>> /\ work \in Works
      /\ pc \in {"target", "mint", "secret", "flux"}
  BY DEF StartTarget, MintScopedToken, SyncSecret, SyncFluxGitRepository, At, cluster,
         InductiveInv, TypeOK, WorkerTypeOK
<1>2. \/ \E cp \in ControlPlanes, phase \in Phases : Report(cp, phase)
      \/ /\ pc' \in {"mint", "secret", "flux"}
         /\ \/ UNCHANGED work
            \/ \E cp \in work.todo : work' = [work EXCEPT !.target = cp]
  <2>1. /\ {"Pending", "Ready", "Conflict"} \subseteq Phases
        /\ work.todo \subseteq ControlPlanes
        /\ pc \in TargetSteps => work.target \in ControlPlanes
    BY <1>1 DEF Phases, Works, InductiveInv, TypeOK, WorkerTypeOK
  <2>2. CASE StartTarget
    BY <2>1, <2>2, CallSucceeds DEF StartTarget, Rotate, Goto
  <2>3. CASE MintScopedToken \/ SyncSecret
    BY <2>3, CallSucceeds DEF MintScopedToken, SyncSecret, Goto
  <2>4. CASE SyncFluxGitRepository
    BY <2>1, <2>4, CallSucceeds DEF SyncFluxGitRepository, At, TargetSteps
  <2> QED
    BY <2>2, <2>3, <2>4
<1>3. CASE \E cp \in ControlPlanes, phase \in Phases : Report(cp, phase)
  BY <1>1, <1>3, ReportList
<1>4. CASE /\ pc' \in {"mint", "secret", "flux"}
           /\ UNCHANGED work \/ \E cp \in work.todo : work' = [work EXCEPT !.target = cp]
  <2>1. /\ SamePass /\ work'.reach = work.reach /\ work'.todo = work.todo
        /\ work'.propagated = work.propagated /\ Targets' = Targets
    BY <1>1, <1>4 DEF SamePass, Works, Targets
  <2>2. LeavingNoticed'
    BY <1>1, <2>1, SamePassLeaving DEF LeavingNoticed, PropagateSteps
  <2>3. EveryTargetListed'
    BY <1>1, <1>4, <2>1 DEF EveryTargetListed, SamePass
  <2>4. StatusHonest'
    BY <1>1, HonestKept
  <2> QED
    BY <1>4, <2>2, <2>3, <2>4 DEF OnlyDenialGivesUp
<1> QED
  BY <1>2, <1>3, <1>4

\* The status patch: of the current generation only when nobody wrote the object, and
\* then with the lists of the spec it still has.
LEMMA PatchStatusList == ASSUME InductiveInv, ListInv, PatchStatus PROVE ListInv'
<1> USE DEF ListInv
<1> DEFINE g == work.repo
           list == IF At("target") THEN FilterPropagateStatus(work.propagated)
                                   ELSE work.propagated
           ready == IF At("patchUnresolved") THEN "False" ELSE "True"
           r == [repo[g] EXCEPT !.ready = ready, !.observed = work.fresh, !.propagated = list]
<1>1. /\ pc \in {"patchReady", "patchUnresolved", "target"} /\ (pc = "target" => work.todo = {})
      /\ UNCHANGED access /\ g \in GitRepos /\ work \in Works /\ repo \in [GitRepos -> Repos]
      /\ UNCHANGED repo \/ repo' = [repo EXCEPT ![g] = r]
  BY DEF PatchStatus, At, InductiveInv, TypeOK, WorkerTypeOK, ClusterTypeOK
<1>2. CASE UNCHANGED repo
  BY <1>1, <1>2, HonestKept, ReturnList DEF PatchStatus
<1>3. CASE repo' = [repo EXCEPT ![g] = r]
  <2>1. list \in StatusLists
    BY <1>1 DEF FilterPropagateStatus, StatusLists, Works
  <2>2. /\ r \in Repos /\ r.spec = repo[g].spec /\ r.deleting = repo[g].deleting
        /\ r.observed = work.fresh /\ r.propagated = list
        /\ r.ready = ready
    <3>1. repo[g] \in Repos /\ work.fresh \in BOOLEAN /\ ready \in {"False", "True"}
      BY <1>1 DEF Works
    <3> HIDE DEF list, ready
    <3> QED  BY <2>1, <3>1 DEF Repos
  <2>3. ASSUME work.fresh PROVE repo[g].spec = work.spec /\ ~repo[g].deleting
    BY <1>1, <2>3 DEF LeavingNoticed, PropagateSteps, InductiveInv, FetchedObject
  <2>4. CASE pc = "patchUnresolved"
    <3> HIDE DEF r, list
    <3>1. r.ready = "False"
      BY <2>2, <2>4 DEF ready, At
    <3>2. StatusHonest'
      BY <1>1, <1>3, <2>2, <2>3, <3>1, HonestWritten
    <3> QED  BY <3>2, ReturnList DEF PatchStatus
  <2>5. CASE pc = "patchReady"
    <3> HIDE DEF r, list
    <3>1. \E cp \in ControlPlanes : access[g][cp] = "denied"
      BY <2>5 DEF OnlyDenialGivesUp
    <3>2. StatusHonest'
      BY <1>1, <1>3, <2>2, <2>3, <3>1, HonestWritten
    <3> QED  BY <3>2, ReturnList DEF PatchStatus
  <2>6. CASE pc = "target"
    <3>1. {cp \in ControlPlanes : list[cp] # "NoEntry"} = Targets
      BY <1>1, <2>6 DEF FilterPropagateStatus, EveryTargetListed, At, Targets
    <3>2. /\ work.spec.names \subseteq Targets
          /\ work.spec.byLabel \/ Targets \subseteq work.spec.names
      BY <2>6 DEF EveryTargetListed
    <3> HIDE DEF r, list
    <3>3. StatusHonest'
      BY <1>1, <1>3, <2>2, <2>3, <3>1, <3>2, HonestWritten
    <3> QED  BY <3>3, ReturnList DEF PatchStatus
  <2> QED
    BY <1>1, <2>4, <2>5, <2>6
<1> QED
  BY <1>1, <1>2, <1>3

\* The cleanup steps build no lists; a denied AccessRequest that goes is one of an object
\* that is leaving, whose status is not current.
LEMMA CleanupList ==
    ASSUME InductiveInv, PassInv, ListInv,
           \/ StartCleanup \/ CleanupAccessRequest
           \/ CleanupGetFlux \/ CleanupDeleteFlux \/ CleanupGetSecret \/ CleanupDeleteSecret
    PROVE  ListInv'
<1> USE DEF ListInv
<1>1. /\ pc' \in CleanupSteps /\ UNCHANGED repo /\ work \in Works /\ work.repo \in GitRepos
      /\ pc = "access" \/ pc \in CleanupSteps
  <2>1. CASE StartCleanup \/ CleanupAccessRequest
    BY <2>1 DEF StartCleanup, CleanupAccessRequest, At, Goto, cluster, CleanupSteps,
                InductiveInv, TypeOK, WorkerTypeOK
  <2>2. CASE CleanupGetFlux \/ CleanupDeleteFlux \/ CleanupGetSecret \/ CleanupDeleteSecret
    BY <2>2 DEF CleanupGetFlux, CleanupDeleteFlux, CleanupGetSecret, CleanupDeleteSecret,
                At, Goto, cluster, CleanupSteps, InductiveInv, TypeOK, WorkerTypeOK
  <2> QED  BY <2>1, <2>2
<1>2. \E todo, target, failed :
         /\ todo \subseteq work.todo \cup Targets
         /\ work' = [work EXCEPT !.todo = todo, !.target = target, !.failed = failed]
  <2>1. work = [work EXCEPT !.todo = work.todo, !.target = work.target, !.failed = work.failed]
    BY <1>1 DEF Works
  <2>2. CASE StartCleanup
    <3>1. work' = [work EXCEPT !.todo = Targets, !.target = work.target, !.failed = work.failed]
      BY <1>1, <2>2 DEF StartCleanup, Works
    <3> QED  BY <3>1
  <2>3. CASE CleanupAccessRequest
    <3>1. PICK cp \in work.todo, err \in BOOLEAN :
             work' = [work EXCEPT
                         !.target = IF work.reach[cp] = "cluster" THEN cp ELSE Absent,
                         !.todo = @ \ {cp}, !.failed = @ \/ err]
      BY <2>3 DEF CleanupAccessRequest
    <3>2. work' = [work EXCEPT
                      !.todo = work.todo \ {cp},
                      !.target = IF work.reach[cp] = "cluster" THEN cp ELSE Absent,
                      !.failed = work.failed \/ err]
      BY <1>1, <3>1 DEF Works
    <3> QED  BY <3>2
  <2>4. CASE CleanupGetFlux \/ CleanupDeleteFlux \/ CleanupGetSecret \/ CleanupDeleteSecret
    <3>1. \/ work' = work
          \/ work' = [work EXCEPT !.target = Absent]
          \/ work' = [work EXCEPT !.target = Absent, !.failed = TRUE]
      BY <2>4 DEF CleanupGetFlux, CleanupDeleteFlux, CleanupGetSecret, CleanupDeleteSecret
    <3>2. CASE work' = work
      BY <2>1, <3>2
    <3>3. CASE work' = [work EXCEPT !.target = Absent]
      <4>1. work' = [work EXCEPT !.todo = work.todo, !.target = Absent, !.failed = work.failed]
        BY <1>1, <3>3 DEF Works
      <4> QED  BY <4>1
    <3>4. CASE work' = [work EXCEPT !.target = Absent, !.failed = TRUE]
      <4>1. work' = [work EXCEPT !.todo = work.todo, !.target = Absent, !.failed = TRUE]
        BY <1>1, <3>4 DEF Works
      <4> QED  BY <4>1
    <3> QED  BY <3>1, <3>2, <3>3, <3>4
  <2> QED
    BY <2>2, <2>3, <2>4
<1>3. SamePass /\ work'.reach = work.reach /\ work'.todo \subseteq work.todo \cup Targets
  BY <1>1, <1>2 DEF SamePass, Works, CleanupSteps
<1>4. LeavingNoticed'
  BY <1>1, <1>3, SamePassLeaving DEF CleanupSteps, PropagateSteps
<1>5. EveryTargetListed'
  BY <1>1, <1>3 DEF EveryTargetListed, Targets, CleanupSteps, SamePass
<1>6. StatusHonest'
  <2>1. CASE CleanupAccessRequest
    <3>1. repo[work.repo].deleting
      BY <2>1 DEF PassInv, StillLeaving, InductiveInv, FetchedObject, CleanupSteps,
                  CleanupAccessRequest, At
    <3>2. ~repo[work.repo].observed
      BY <1>1, <3>1 DEF StatusHonest
    <3>3. /\ access \in [GitRepos -> [ControlPlanes -> {"none", "pending", "granted", "denied"}]]
          /\ UNCHANGED access
             \/ \E c \in ControlPlanes : access' = [access EXCEPT ![work.repo][c] = "none"]
      BY <1>1, <2>1 DEF CleanupAccessRequest, InductiveInv, TypeOK, ClusterTypeOK, Works
    <3>4. \A g \in GitRepos, cp \in ControlPlanes :
             repo[g].observed /\ access[g][cp] = "denied" => access'[g][cp] = "denied"
      BY <1>1, <3>2, <3>3
    <3> QED
      BY <1>1, <3>4, HonestKept
  <2>2. CASE UNCHANGED access
    BY <1>1, <2>2, HonestKept
  <2> QED
    BY <2>1, <2>2 DEF StartCleanup, CleanupGetFlux, CleanupDeleteFlux, CleanupGetSecret,
                      CleanupDeleteSecret, cluster
<1> QED
  BY <1>1, <1>4, <1>5, <1>6 DEF OnlyDenialGivesUp, CleanupSteps

\* An object that goes, goes with its status.
LEMMA RemoveFinalizerList == ASSUME InductiveInv, ListInv, RemoveFinalizer PROVE ListInv'
<1> USE DEF ListInv
<1>1. /\ work.repo \in GitRepos /\ repo \in [GitRepos -> Repos] /\ UNCHANGED access
      /\ UNCHANGED repo \/ repo' = [repo EXCEPT ![work.repo] = NoRepo]
  BY DEF RemoveFinalizer, At, InductiveInv, TypeOK, WorkerTypeOK, ClusterTypeOK
<1>2. NoRepo \in Repos /\ ~NoRepo.observed
  BY DEF NoRepo, Repos, EmptySpec, EmptyStatus, StatusLists, PropagateSpecs
<1>3. StatusHonest'
  BY <1>1, <1>2, HonestKept, HonestWritten
<1> QED
  BY <1>3, ReturnList DEF RemoveFinalizer

\* Whoever else writes an object takes away that its status is current, or leaves what
\* the status is about, and the worker will not take the object for fresh.
LEMMA TouchList ==
    ASSUME InductiveInv, ListInv, NEW g \in GitRepos, NEW r \in Repos,
           repo' = [repo EXCEPT ![g] = r], ~r.observed,
           UNCHANGED <<access, pc>>,
           \/ Touch(g)
           \/ UNCHANGED work /\ ~r.deleting
    PROVE  ListInv'
<1> USE DEF ListInv
<1>1. work \in Works /\ repo \in [GitRepos -> Repos] /\ (pc # "idle" => work.repo \in GitRepos)
  BY DEF InductiveInv, TypeOK, WorkerTypeOK, ClusterTypeOK
<1>2. work' = work \/ (work.repo = g /\ work' = [work EXCEPT !.fresh = FALSE])
  BY DEF Touch
<1>3. /\ work'.repo = work.repo /\ work'.deleting = work.deleting /\ work'.spec = work.spec
      /\ work'.todo = work.todo /\ work'.reach = work.reach /\ work'.target = work.target
      /\ work'.propagated = work.propagated /\ Targets' = Targets
  BY <1>1, <1>2 DEF Works, Targets
<1>4. StatusHonest'
  BY <1>1, HonestWritten
<1>5. LeavingNoticed'
  <2>1. CASE work.repo # g
    <3>1. repo'[work.repo] = repo[work.repo] \/ pc = "idle"
      BY <1>1, <2>1
    <3> QED  BY <1>2, <1>3, <2>1, <3>1 DEF LeavingNoticed
  <2>2. CASE work.repo = g
    <3>1. repo'[work.repo] = r
      BY <1>1, <2>2
    <3>2. ~work'.fresh \/ ~r.deleting
      BY <1>1, <2>2 DEF Touch, Works
    <3> QED  BY <1>3, <3>1, <3>2 DEF LeavingNoticed
  <2> QED  BY <2>1, <2>2
<1>6. EveryTargetListed' /\ OnlyDenialGivesUp'
  BY <1>3 DEF EveryTargetListed, OnlyDenialGivesUp
<1> QED
  BY <1>4, <1>5, <1>6

LEMMA UserList ==
    ASSUME InductiveInv, ListInv, NEW g \in GitRepos,
           DeleteRepo(g) \/ \E s \in SpecChoices : CreateRepo(g, s) \/ EditSpec(g, s)
    PROVE  ListInv'
<1>1. repo[g] \in Repos /\ NoRepo \in Repos /\ ~NoRepo.observed
  BY DEF InductiveInv, TypeOK, ClusterTypeOK, NoRepo, Repos, EmptySpec, EmptyStatus,
         StatusLists, PropagateSpecs
<1>2. ASSUME NEW s \in SpecChoices, CreateRepo(g, s) PROVE ListInv'
  <2> DEFINE r == [NoRepo EXCEPT !.exists = TRUE, !.spec = s]
  <2>1. r \in Repos /\ ~r.observed /\ ~r.deleting
    BY SpecsAssumption DEF NoRepo, Repos, EmptySpec, EmptyStatus, StatusLists, PropagateSpecs
  <2>2. repo' = [repo EXCEPT ![g] = r] /\ UNCHANGED <<access, pc, work>>
    BY <1>2 DEF CreateRepo
  <2> HIDE DEF r
  <2> QED  BY <2>1, <2>2, TouchList
<1>3. ASSUME NEW s \in SpecChoices, EditSpec(g, s) PROVE ListInv'
  <2> DEFINE r == [repo[g] EXCEPT !.spec = s, !.observed = FALSE]
  <2>1. r \in Repos /\ ~r.observed
    BY <1>1, SpecsAssumption DEF Repos
  <2>2. repo' = [repo EXCEPT ![g] = r] /\ UNCHANGED <<access, pc>> /\ Touch(g)
    BY <1>3 DEF EditSpec, Touch
  <2> HIDE DEF r
  <2> QED  BY <2>1, <2>2, TouchList
<1>4. CASE DeleteRepo(g)
  <2> DEFINE r == [repo[g] EXCEPT !.deleting = TRUE, !.observed = FALSE]
  <2>1. r \in Repos /\ ~r.observed
    BY <1>1 DEF Repos
  <2>2. /\ UNCHANGED <<access, pc>> /\ Touch(g)
        /\ repo' = [repo EXCEPT ![g] = r] \/ repo' = [repo EXCEPT ![g] = NoRepo]
    BY <1>4 DEF DeleteRepo, Touch
  <2> HIDE DEF r
  <2> QED  BY <1>1, <2>1, <2>2, TouchList
<1> QED
  BY <1>2, <1>3, <1>4

\* An answer of the access provider, a label, a credential, time or a user in a
\* ControlPlane changes nothing the status or the lists are about.
LEMMA ElsewhereList ==
    ASSUME InductiveInv, ListInv, UNCHANGED <<repo, pc, work>>,
           \A g \in GitRepos, cp \in ControlPlanes :
              \/ access'[g][cp] = access[g][cp]
              \/ access[g][cp] = "pending" /\ access'[g][cp] \in {"granted", "denied"}
    PROVE  ListInv'
<1> USE DEF ListInv
<1>1. /\ pc # "idle" => work.repo \in GitRepos
      /\ pc = "readAccess" => work.target \in ControlPlanes
  BY DEF InductiveInv, TypeOK, WorkerTypeOK, TargetSteps
<1>2. StatusHonest'
  BY HonestKept
<1>3. OnlyDenialGivesUp'
  BY <1>1 DEF OnlyDenialGivesUp
<1>4. LeavingNoticed' /\ EveryTargetListed'
  BY DEF LeavingNoticed, EveryTargetListed, Targets
<1> QED
  BY <1>2, <1>3, <1>4

LEMMA EnvironmentList == ASSUME InductiveInv, ListInv, Environment PROVE ListInv'
<1>1. CASE \E g \in GitRepos : \/ \E s \in SpecChoices : CreateRepo(g, s) \/ EditSpec(g, s)
                               \/ DeleteRepo(g)
  BY <1>1, UserList
<1>2. ASSUME NEW g \in GitRepos, NEW cp \in ControlPlanes, Grant(g, cp) \/ Deny(g, cp)
      PROVE  ListInv'
  <2>1. access \in [GitRepos -> [ControlPlanes -> {"none", "pending", "granted", "denied"}]]
    BY DEF InductiveInv, TypeOK, ClusterTypeOK
  <2>2. \A h \in GitRepos, c \in ControlPlanes :
           \/ access'[h][c] = access[h][c]
           \/ access[h][c] = "pending" /\ access'[h][c] \in {"granted", "denied"}
    BY <1>2, <2>1 DEF Grant, Deny
  <2>3. UNCHANGED <<repo, pc, work>>
    BY <1>2 DEF Grant, Deny
  <2> QED  BY <2>2, <2>3, ElsewhereList
<1>3. CASE UNCHANGED <<repo, access, pc, work>>
  BY <1>3, ElsewhereList
<1>4. ASSUME NEW g \in GitRepos, CredentialChanges(g) PROVE UNCHANGED <<repo, access, pc, work>>
  BY <1>4 DEF CredentialChanges
<1>5. ASSUME NEW cp \in ControlPlanes,
             \/ Relabel(cp)
             \/ \E n \in Names : TokenComesDue(cp, n) \/ ManualSecret(cp, n) \/ ManualFlux(cp, n)
      PROVE  UNCHANGED <<repo, access, pc, work>>
  BY <1>5 DEF Relabel, TokenComesDue, ManualSecret, ManualFlux, cluster
<1> QED
  BY <1>1, <1>2, <1>3, <1>4, <1>5 DEF Environment

LEMMA InitList == Init => ListInv
<1> SUFFICES ASSUME Init PROVE ListInv
  OBVIOUS
<1>1. pc = "idle" /\ work = NoWork /\ \A g \in GitRepos : repo[g] = NoRepo
  BY DEF Init
<1> QED
  BY <1>1 DEF NoRepo, NoWork, EmptySpec, ListInv, LeavingNoticed, EveryTargetListed,
              OnlyDenialGivesUp, StatusHonest, ReadyListsEveryTarget, PropagateSteps, Targets

LEMMA NextList ==
    ASSUME InductiveInv, PassInv, ListInv, faults = 0, [Next]_vars PROVE ListInv'
<1>1. CASE UNCHANGED vars
  BY <1>1, ElsewhereList DEF vars, cluster
<1>2. CASE \E g \in GitRepos : Fetch(g)
  BY <1>2, FetchList
<1>3. CASE Crash
  BY <1>3, HonestKept, ReturnList DEF Crash, cluster, ListInv
<1>4. CASE Environment
  BY <1>4, EnvironmentList
<1>5. CASE WorkerStep
  BY <1>5, AddFinalizerList, ResolveNamesList, EnsureAccessRequestList, ReadAccessRequestList,
     ResolveGitHubCredsList, TargetList, PatchStatusList, CleanupList, RemoveFinalizerList
     DEF WorkerStep
<1> QED
  BY <1>1, <1>2, <1>3, <1>4, <1>5 DEF Next

\* A Ready status of the current generation has an entry for every named target, and for
\* no other ControlPlane unless the spec selects by label (setPropagateStatus and
\* filterPropagateStatus), whatever users do and wherever the process dies, as long as no
\* call fails: a failed call leaves the list as it was, under the new generation.
THEOREM StatusListsTargets ==
    ASSUME MaxFaults = 0 PROVE Spec => []ReadyListsEveryTarget
<1> DEFINE I == InductiveInv /\ PassInv /\ ListInv /\ faults = 0
<1>1. Init => I
  BY InitInductive, InitPass, InitList DEF Init
<1>2. I /\ [Next]_vars => I'
  BY NextInductive, NextPass, NextList, NoFaultsStays
<1>3. I => ReadyListsEveryTarget
  BY DEF ListInv, StatusHonest
<1> QED
  BY <1>1, <1>2, <1>3, PTL DEF Spec

-----------------------------------------------------------------------------
(* Cleanup finds all there is: CleanupInv is inductive.                    *)

\* The steps of reconcileDelete on a target, past its AccessRequest.
DeleteSteps == {"fluxGet", "fluxDelete", "secretGet", "secretDelete"}

\* What a write to the slot of h does to the slots of all.
LEMMA SecretSlot ==
    ASSUME McpTypeOK, NEW h \in GitRepos, NEW c \in ControlPlanes, NEW r,
           secret' = [secret EXCEPT ![c][NameOf[h]] = r]
    PROVE  \A g \in GitRepos, cp \in ControlPlanes :
              secret'[cp][NameOf[g]] =
                 IF cp = c /\ NameOf[g] = NameOf[h] THEN r ELSE secret[cp][NameOf[g]]
BY NamesAssumption DEF McpTypeOK

LEMMA FluxSlot ==
    ASSUME McpTypeOK, NEW h \in GitRepos, NEW c \in ControlPlanes, NEW r,
           flux' = [flux EXCEPT ![c][NameOf[h]] = r]
    PROVE  \A g \in GitRepos, cp \in ControlPlanes :
              flux'[cp][NameOf[g]] =
                 IF cp = c /\ NameOf[g] = NameOf[h] THEN r ELSE flux[cp][NameOf[g]]
BY NamesAssumption DEF McpTypeOK

\* Granted access stays.
GrantsStay ==
    \A g \in GitRepos, cp \in ControlPlanes :
        access[g][cp] = "granted" => access'[g][cp] = "granted"

\* A step between cleanups of targets that neither writes nor removes anything.
LEMMA QuietCleanup ==
    ASSUME CleanupInv, UNCHANGED <<secret, flux>>, GrantsStay,
           pc \notin DeleteSteps, pc' \notin DeleteSteps, ~work'.failed,
           pc' # "idle" => \A cp \in ControlPlanes :
                              work'.reach[cp] = "pending" => ~Owned(work'.repo, cp),
           pc' \in CleanupSteps => work'.todo \subseteq Targets'
    PROVE  CleanupInv'
<1> USE DEF CleanupInv
<1>1. \A g, cp : Owned(g, cp)' = Owned(g, cp)
  BY DEF Owned, SecretOf, FluxOf
<1>2. OwnedWithinReach'
  BY <1>1 DEF OwnedWithinReach, CleansUp, DeleteSteps, GrantsStay
<1>3. PendingOwnsNothing'
  BY DEF PendingOwnsNothing, Owned, SecretOf, FluxOf
<1>4. FluxGoesFirst'
  BY DEF FluxGoesFirst, DeleteSteps
<1> QED
  BY <1>2, <1>3, <1>4

\* A return ends what the pass knew.
LEMMA ReturnCleanup ==
    ASSUME CleanupInv, Return, UNCHANGED <<secret, flux, access>>, pc \notin DeleteSteps
    PROVE  CleanupInv'
BY QuietCleanup DEF Return, Goto, NoWork, DeleteSteps, CleanupSteps, GrantsStay

\* The pass goes on with the targets it has, outside reconcileDelete.
LEMMA SameTargetsCleanup ==
    ASSUME CleanupInv, UNCHANGED <<secret, flux>>, GrantsStay,
           pc # "idle", pc \notin DeleteSteps, pc' \notin CleanupSteps,
           work'.repo = work.repo, work'.reach = work.reach, work'.failed = work.failed
    PROVE  CleanupInv'
BY QuietCleanup DEF DeleteSteps, CleanupSteps, CleanupInv, PendingOwnsNothing, FluxGoesFirst

LEMMA FetchCleanup ==
    ASSUME CleanupInv, NEW g \in GitRepos, Fetch(g) PROVE CleanupInv'
<1>1. work' = [NoWork EXCEPT !.repo = g, !.deleting = repo[g].deleting,
                             !.spec = repo[g].spec, !.propagated = repo[g].propagated]
  BY DEF Fetch
<1>2. ~work'.failed /\ work'.reach = [cp \in ControlPlanes |-> "no"]
  BY <1>1 DEF NoWork
<1>3. /\ pc' \in {"list", "adopt", "credential"} /\ pc = "idle"
      /\ UNCHANGED <<access, secret, flux>>
  BY DEF Fetch, Goto, At, StepAfterFetch, cluster, mcp
<1> QED
  BY <1>2, <1>3, QuietCleanup DEF DeleteSteps, CleanupSteps, GrantsStay

\* Until the targets are resolved the pass reads, and asks for access it does not have.
LEMMA ResolveCleanup ==
    ASSUME InductiveInv, CleanupInv, faults = 0,
           \/ AddFinalizer \/ ResolveCredential \/ ResolveNames \/ EnsureAccessRequest
           \/ ReadAccessRequest \/ ResolveGitHubCreds \/ StartCleanup
    PROVE  CleanupInv'
<1>1. /\ work \in Works /\ work.repo \in GitRepos /\ UNCHANGED <<secret, flux>>
      /\ access \in [GitRepos -> [ControlPlanes -> {"none", "pending", "granted", "denied"}]]
      /\ pc \in {"adopt", "credential", "list", "access", "readAccess"}
      /\ pc = "readAccess" => work.target \in ControlPlanes
  BY DEF AddFinalizer, ResolveCredential, ResolveNames, EnsureAccessRequest, ReadAccessRequest,
         ResolveGitHubCreds, StartCleanup, At, mcp, InductiveInv, TypeOK, WorkerTypeOK,
         ClusterTypeOK, TargetSteps
<1>2. ASSUME ResolveError, UNCHANGED access PROVE CleanupInv'
  <2>1. CASE Return
    BY <1>1, <1>2, <2>1, ReturnCleanup DEF DeleteSteps
  <2>2. CASE pc' = "patchReady" /\ work' = [work EXCEPT !.target = Absent]
    <3>1. work'.repo = work.repo /\ work'.reach = work.reach /\ work'.failed = work.failed
      BY <1>1, <2>2 DEF Works
    <3> QED
      BY <1>1, <1>2, <2>2, <3>1, SameTargetsCleanup DEF GrantsStay, DeleteSteps, CleanupSteps
  <2> QED
    BY <1>2, <2>1, <2>2 DEF ResolveError, Goto
<1>3. CASE AddFinalizer
  BY <1>1, <1>3, ReturnCleanup DEF AddFinalizer, DeleteSteps
<1>4. CASE ResolveCredential \/ ResolveNames \/ ResolveGitHubCreds
  <2>1. /\ UNCHANGED access /\ pc' \in {"list", "patchUnresolved", "access", "target"}
        /\ work' = work \/ \E todo : work' = [work EXCEPT !.todo = todo]
    BY <1>4, CallSucceeds
       DEF ResolveCredential, ResolveNames, ResolveGitHubCreds, Goto, cluster
  <2>2. work'.repo = work.repo /\ work'.reach = work.reach /\ work'.failed = work.failed
    BY <1>1, <2>1 DEF Works
  <2> QED
    BY <1>1, <2>1, <2>2, SameTargetsCleanup DEF GrantsStay, DeleteSteps, CleanupSteps
<1>5. CASE EnsureAccessRequest
  <2>1. PICK cp \in work.todo :
           /\ pc' = "readAccess" /\ work' = [work EXCEPT !.target = cp]
           /\ access' = [access EXCEPT ![work.repo][cp] = IF @ = "none" THEN "pending" ELSE @]
    BY <1>5, CallSucceeds DEF EnsureAccessRequest, Goto
  <2>2. work'.repo = work.repo /\ work'.reach = work.reach /\ work'.failed = work.failed
    BY <1>1, <2>1 DEF Works
  <2>3. GrantsStay
    BY <1>1, <2>1 DEF Works, GrantsStay
  <2> QED
    BY <1>1, <2>1, <2>2, <2>3, SameTargetsCleanup DEF DeleteSteps, CleanupSteps
<1>6. CASE ReadAccessRequest
  <2>1. UNCHANGED access
    BY <1>6 DEF ReadAccessRequest, cluster
  <2>2. ASSUME NEW r \in {"pending", "cluster"}, r = "pending" => access[work.repo][work.target] = r,
               pc' = "access", pc = "readAccess",
               work' = [work EXCEPT !.reach[work.target] = r, !.todo = @ \ {work.target},
                                    !.target = Absent]
        PROVE  CleanupInv'
    <3>1. /\ work'.repo = work.repo /\ work'.failed = work.failed
          /\ work'.reach = [work.reach EXCEPT ![work.target] = r]
      BY <1>1, <2>2 DEF Works
    <3>2. r = "pending" => ~Owned(work.repo, work.target)
      BY <1>1, <2>2 DEF CleanupInv, OwnedWithinReach, CleansUp
    <3>3. \A cp \in ControlPlanes : work'.reach[cp] = "pending" => ~Owned(work.repo, cp)
      BY <1>1, <2>2, <3>1, <3>2 DEF CleanupInv, PendingOwnsNothing, Works
    <3> QED
      BY <1>1, <2>1, <2>2, <3>1, <3>3, QuietCleanup
         DEF GrantsStay, DeleteSteps, CleanupSteps, CleanupInv, FluxGoesFirst
  <2>3. \/ ResolveError
        \/ \E r \in {"pending", "cluster"} :
              /\ r = "pending" => access[work.repo][work.target] = r
              /\ pc' = "access" /\ pc = "readAccess"
              /\ work' = [work EXCEPT !.reach[work.target] = r, !.todo = @ \ {work.target},
                                      !.target = Absent]
    BY <1>6 DEF ReadAccessRequest, At, Goto
  <2> QED
    BY <1>2, <2>1, <2>2, <2>3
<1>7. CASE StartCleanup
  <2>1. pc' = "cleanup" /\ UNCHANGED access /\ work' = [work EXCEPT !.todo = Targets]
    BY <1>7 DEF StartCleanup, Goto, cluster
  <2>2. /\ work'.repo = work.repo /\ work'.reach = work.reach /\ work'.failed = work.failed
        /\ work'.todo = Targets /\ Targets' = Targets
    BY <1>1, <2>1 DEF Works, Targets
  <2> QED
    BY <1>1, <2>1, <2>2, QuietCleanup
       DEF GrantsStay, DeleteSteps, CleanupSteps, CleanupInv, PendingOwnsNothing, FluxGoesFirst
<1> QED
  BY <1>3, <1>4, <1>5, <1>6, <1>7

\* A pass writes to a target only while its access is granted, and access outlives it.
LEMMA PropagateCleanup ==
    ASSUME InductiveInv, PassInv, CleanupInv, faults = 0,
           StartTarget \/ MintScopedToken \/ SyncSecret \/ SyncFluxGitRepository
    PROVE  CleanupInv'
<1>1. /\ work \in Works /\ work.repo \in GitRepos /\ McpTypeOK /\ UNCHANGED access
      /\ pc \in {"target", "mint", "secret", "flux"}
      /\ pc # "target" => work.target \in ControlPlanes
  BY DEF StartTarget, MintScopedToken, SyncSecret, SyncFluxGitRepository, At, cluster,
         InductiveInv, TypeOK, WorkerTypeOK, TargetSteps
<1>2. /\ pc' \in {"target", "mint", "secret", "flux"}
      /\ work'.repo = work.repo /\ work'.reach = work.reach /\ work'.failed = work.failed
  <2>1. CASE StartTarget
    <3>1. \/ \E cp, phase : Report(cp, phase)
          \/ pc' = "mint" /\ \E cp : work' = [work EXCEPT !.target = cp]
      BY <2>1, CallSucceeds DEF StartTarget, Rotate, Goto
    <3>2. CASE pc' = "mint" /\ \E cp : work' = [work EXCEPT !.target = cp]
      BY <1>1, <3>2 DEF Works
    <3>3. ASSUME NEW cp, NEW phase, Report(cp, phase)
          PROVE  /\ pc' = "target" /\ work'.repo = work.repo /\ work'.reach = work.reach
                 /\ work'.failed = work.failed
      BY <1>1, <3>3 DEF Report, Goto, Works
    <3> QED
      BY <3>1, <3>2, <3>3
  <2>2. CASE MintScopedToken \/ SyncSecret
    BY <2>2, CallSucceeds DEF MintScopedToken, SyncSecret, Goto
  <2>3. CASE SyncFluxGitRepository
    BY <1>1, <2>3, CallSucceeds DEF SyncFluxGitRepository, Report, Goto, Works
  <2> QED
    BY <2>1, <2>2, <2>3
<1>3. CASE UNCHANGED <<secret, flux>>
  BY <1>1, <1>2, <1>3, SameTargetsCleanup DEF GrantsStay, DeleteSteps, CleanupSteps
<1>4. CASE SyncSecret \/ SyncFluxGitRepository
  <2>1. PICK g \in GitRepos, cp \in ControlPlanes :
           /\ g = work.repo /\ cp = work.target
           /\ access[g][cp] = "granted" /\ work.reach[cp] = "cluster"
    BY <1>1, <1>4 DEF PassInv, AccessHeld, TargetReached, CleanupSteps, SyncSecret,
                      SyncFluxGitRepository, At
  <2>2. \A h \in GitRepos, c \in ControlPlanes :
           Owned(h, c)' => Owned(h, c) \/ (h = g /\ c = cp)
    <3>1. CASE UNCHANGED <<secret, flux>>
      BY <3>1 DEF Owned, SecretOf, FluxOf
    <3>2. CASE /\ secret' = [secret EXCEPT ![cp][NameOf[g]] = [owner |-> g, due |-> FALSE]]
               /\ UNCHANGED flux
      BY <1>1, <3>2, SecretSlot DEF Owned, SecretOf, FluxOf
    <3>3. CASE /\ flux' = [flux EXCEPT ![cp][NameOf[g]] = [owner |-> g, rev |-> work.spec.rev]]
               /\ UNCHANGED secret
      BY <1>1, <3>3, FluxSlot DEF Owned, SecretOf, FluxOf
    <3> QED
      BY <1>4, <2>1, <3>1, <3>2, <3>3 DEF SyncSecret, SyncFluxGitRepository
  <2>3. OwnedWithinReach'
    BY <1>1, <1>2, <2>1, <2>2 DEF CleanupInv, OwnedWithinReach, CleansUp
  <2>4. PendingOwnsNothing'
    <3>1. \A c \in ControlPlanes : work'.reach[c] = "pending" => ~Owned(g, c)'
      BY <1>1, <1>2, <2>1, <2>2 DEF CleanupInv, PendingOwnsNothing
    <3> QED  BY <1>2, <2>1, <3>1 DEF PendingOwnsNothing, CleanupSteps, Owned, SecretOf, FluxOf
  <2> QED
    BY <1>2, <2>3, <2>4 DEF CleanupInv, FluxGoesFirst
<1> QED
  BY <1>3, <1>4 DEF StartTarget, MintScopedToken, mcp

\* The AccessRequest of a target goes first: either the rest of the target follows at
\* once, or there was nothing.
LEMMA CleanupAccessCleanup ==
    ASSUME InductiveInv, CleanupInv, faults = 0, CleanupAccessRequest PROVE CleanupInv'
<1> USE DEF CleanupInv
<1>1. /\ pc = "cleanup" /\ work \in Works /\ work.repo \in GitRepos /\ UNCHANGED <<secret, flux>>
      /\ access \in [GitRepos -> [ControlPlanes -> {"none", "pending", "granted", "denied"}]]
  BY DEF CleanupAccessRequest, At, mcp, InductiveInv, TypeOK, WorkerTypeOK, ClusterTypeOK
<1>2. PICK cp \in work.todo :
         /\ access' = [access EXCEPT ![work.repo][cp] = "none"]
         /\ pc' = IF work.reach[cp] = "cluster" THEN "fluxGet" ELSE "cleanup"
         /\ work' = [work EXCEPT
                        !.target = IF work.reach[cp] = "cluster" THEN cp ELSE Absent,
                        !.todo = @ \ {cp}, !.failed = @ \/ FALSE]
  BY CallSucceeds DEF CleanupAccessRequest, Goto
<1>3. /\ work'.repo = work.repo /\ work'.reach = work.reach
      /\ work'.failed = (work.failed \/ FALSE) /\ work'.todo = work.todo \ {cp}
      /\ work.reach[cp] = "cluster" => work'.target = cp
      /\ cp \in ControlPlanes
  BY <1>1, <1>2 DEF Works
<1>4. work.reach[cp] \in {"pending", "cluster"}
  BY <1>1 DEF PendingOwnsNothing, CleanupSteps, Targets, Works
<1>5. \A g, c : Owned(g, c)' = Owned(g, c)
  BY <1>1 DEF Owned, SecretOf, FluxOf
<1>6. OwnedWithinReach'
  <2> SUFFICES ASSUME NEW g \in GitRepos, NEW c \in ControlPlanes, Owned(g, c)
               PROVE  access'[g][c] = "granted" \/ CleansUp(g, c)'
    BY <1>5 DEF OwnedWithinReach
  <2>1. access[g][c] = "granted"
    BY <1>1 DEF OwnedWithinReach, CleansUp
  <2>2. CASE g = work.repo /\ c = cp
    <3>1. work.reach[cp] = "cluster"
      BY <1>1, <1>3, <1>4, <2>2 DEF PendingOwnsNothing
    <3> QED  BY <1>2, <1>3, <2>2, <3>1 DEF CleansUp
  <2>3. CASE ~(g = work.repo /\ c = cp)
    BY <1>1, <1>2, <1>3, <2>1, <2>3
  <2> QED
    BY <2>2, <2>3
<1>7. PendingOwnsNothing'
  BY <1>1, <1>2, <1>3, <1>5 DEF PendingOwnsNothing, Targets, CleanupSteps
<1>8. FluxGoesFirst'
  BY <1>2, <1>3 DEF FluxGoesFirst
<1> QED
  BY <1>6, <1>7, <1>8

\* The steps on one target: of what this GitRepository has there, they leave nothing.
LEMMA DeleteStepsCleanup ==
    ASSUME InductiveInv, CleanupInv, faults = 0,
           CleanupGetFlux \/ CleanupDeleteFlux \/ CleanupGetSecret \/ CleanupDeleteSecret
    PROVE  CleanupInv'
<1> USE DEF CleanupInv
<1>0. PICK g \in GitRepos, cp \in ControlPlanes : g = work.repo /\ cp = work.target
  BY DEF CleanupGetFlux, CleanupDeleteFlux, CleanupGetSecret, CleanupDeleteSecret, At,
         InductiveInv, TypeOK, WorkerTypeOK, TargetSteps
<1>1. /\ pc \in DeleteSteps /\ work \in Works
      /\ McpTypeOK /\ UNCHANGED access /\ \A h \in GitRepos : h # Absent
  BY OwnersAssumption
     DEF CleanupGetFlux, CleanupDeleteFlux, CleanupGetSecret, CleanupDeleteSecret, At, cluster,
         DeleteSteps, InductiveInv, TypeOK, WorkerTypeOK, TargetSteps
<1>2. \A h \in GitRepos, c \in ControlPlanes : Owned(h, c)' => Owned(h, c)
  <2>1. CASE UNCHANGED <<secret, flux>>
    BY <2>1 DEF Owned, SecretOf, FluxOf
  <2>2. CASE flux' = [flux EXCEPT ![cp][NameOf[g]] = NoFlux] /\ UNCHANGED secret
    BY <1>1, <2>2, FluxSlot DEF Owned, NoFlux, SecretOf, FluxOf
  <2>3. CASE secret' = [secret EXCEPT ![cp][NameOf[g]] = NoSecret] /\ UNCHANGED flux
    BY <1>1, <2>3, SecretSlot DEF Owned, NoSecret, SecretOf, FluxOf
  <2> QED
    BY <1>0, <2>1, <2>2, <2>3, CallSucceeds
       DEF CleanupGetFlux, CleanupDeleteFlux, CleanupGetSecret, CleanupDeleteSecret, mcp
<1>3. /\ work'.repo = g /\ work'.reach = work.reach /\ work'.failed = work.failed
      /\ work'.todo = work.todo /\ pc' \in CleanupSteps
  BY <1>0, <1>1, CallSucceeds
     DEF CleanupGetFlux, CleanupDeleteFlux, CleanupGetSecret, CleanupDeleteSecret, Goto, Works,
         CleanupSteps
<1>4. PendingOwnsNothing'
  <2>1. \A c \in ControlPlanes : work'.reach[c] = "pending" => ~Owned(g, c)'
    BY <1>0, <1>1, <1>2, <1>3 DEF PendingOwnsNothing, DeleteSteps
  <2> QED
    BY <1>1, <1>3, <2>1
       DEF PendingOwnsNothing, Targets, CleanupSteps, DeleteSteps, Owned, SecretOf, FluxOf
<1>5. CASE pc' \in DeleteSteps /\ work' = work
  <2>1. OwnedWithinReach'
    BY <1>1, <1>2, <1>5 DEF OwnedWithinReach, CleansUp, DeleteSteps
  <2>2. pc' \in {"secretGet", "secretDelete"} => FluxOf(g, cp)'.owner # g
    <3>1. CASE CleanupGetFlux
      BY <1>0, <3>1, CallSucceeds DEF CleanupGetFlux, IsOurs, Goto, mcp, FluxOf
    <3>2. CASE CleanupDeleteFlux
      <4>1. flux' = [flux EXCEPT ![cp][NameOf[g]] = NoFlux] /\ UNCHANGED secret
        BY <1>0, <3>2, CallSucceeds DEF CleanupDeleteFlux
      <4>2. flux'[cp][NameOf[g]] = NoFlux
        BY <1>1, <4>1, NamesAssumption DEF McpTypeOK
      <4> QED  BY <1>1, <4>2 DEF NoFlux, FluxOf
    <3>3. CASE CleanupGetSecret \/ CleanupDeleteSecret
      <4>1. FluxOf(g, cp).owner # g /\ UNCHANGED flux
        BY <1>0, <3>3, CallSucceeds
           DEF CleanupGetSecret, CleanupDeleteSecret, At, FluxGoesFirst, mcp
      <4> QED  BY <4>1 DEF FluxOf
    <3> QED
      BY <3>1, <3>2, <3>3
  <2>3. FluxGoesFirst'
    BY <1>0, <1>3, <1>5, <2>2 DEF FluxGoesFirst, FluxOf
  <2> QED
    BY <1>4, <2>1, <2>3
<1>6. CASE pc' = "cleanup"
  <2>1. ~Owned(g, cp)'
    <3>1. pc \in {"secretGet", "secretDelete"} /\ FluxOf(g, cp).owner # g /\ UNCHANGED flux
      BY <1>0, <1>6, CallSucceeds
         DEF CleanupGetFlux, CleanupDeleteFlux, CleanupGetSecret, CleanupDeleteSecret, At, Goto,
             mcp, FluxGoesFirst
    <3>2. CASE CleanupGetSecret
      <4>1. SecretOf(g, cp).owner # g /\ UNCHANGED secret
        BY <1>0, <1>6, <3>2, CallSucceeds DEF CleanupGetSecret, IsOurs, Goto, mcp
      <4> QED  BY <3>1, <4>1 DEF Owned, SecretOf, FluxOf
    <3>3. CASE CleanupDeleteSecret
      <4>1. secret' = [secret EXCEPT ![cp][NameOf[g]] = NoSecret]
        BY <1>0, <3>3, CallSucceeds DEF CleanupDeleteSecret
      <4>2. secret'[cp][NameOf[g]] = NoSecret
        BY <1>1, <4>1, NamesAssumption DEF McpTypeOK
      <4> QED  BY <1>1, <3>1, <4>2 DEF NoSecret, Owned, SecretOf, FluxOf
    <3> QED
      BY <3>1, <3>2, <3>3 DEF CleanupGetFlux, CleanupDeleteFlux, At
  <2>2. OwnedWithinReach'
    BY <1>0, <1>1, <1>2, <2>1 DEF OwnedWithinReach, CleansUp
  <2>3. FluxGoesFirst'
    BY <1>3, <1>6 DEF FluxGoesFirst
  <2> QED
    BY <1>4, <2>2, <2>3
<1>7. \/ pc' \in DeleteSteps /\ work' = work
      \/ pc' = "cleanup"
  BY CallSucceeds
     DEF CleanupGetFlux, CleanupDeleteFlux, CleanupGetSecret, CleanupDeleteSecret, Goto,
         DeleteSteps
<1> QED
  BY <1>5, <1>6, <1>7

\* A pass that ends leaves behind what its targets have.
LEMMA EndCleanup ==
    ASSUME CleanupInv, PatchStatus \/ RemoveFinalizer PROVE CleanupInv'
BY ReturnCleanup DEF PatchStatus, RemoveFinalizer, At, DeleteSteps, mcp

\* Whoever else acts gives a GitRepository nothing, and takes no granted access away.
LEMMA AsideCleanup ==
    ASSUME InductiveInv, CleanupInv, Aside, work'.failed = work.failed, work'.todo = work.todo
    PROVE  CleanupInv'
<1> USE DEF CleanupInv
<1>1. \A g \in GitRepos, cp \in ControlPlanes :
         /\ Owned(g, cp)' => Owned(g, cp)
         /\ FluxOf(g, cp)'.owner = g => FluxOf(g, cp).owner = g
  <2> SUFFICES ASSUME NEW g \in GitRepos, NEW cp \in ControlPlanes
               PROVE  /\ Owned(g, cp)' => Owned(g, cp)
                      /\ FluxOf(g, cp)'.owner = g => FluxOf(g, cp).owner = g
    OBVIOUS
  <2>1. g \notin {Manual, Absent}
    BY OwnersAssumption
  <2> QED
    BY <2>1 DEF Aside, Owned, SecretOf, FluxOf
<1>2. /\ pc # "idle" => work.repo \in GitRepos
      /\ pc \in {"secretGet", "secretDelete"} => work.target \in ControlPlanes
  BY DEF InductiveInv, TypeOK, WorkerTypeOK, TargetSteps
<1>3. OwnedWithinReach'
  BY <1>1 DEF Aside, OwnedWithinReach, CleansUp
<1>4. PendingOwnsNothing'
  <2>1. ASSUME pc # "idle" PROVE PendingOwnsNothing'
    <3>1. PICK g \in GitRepos : g = work.repo
      BY <1>2, <2>1
    <3>2. \A cp \in ControlPlanes : work.reach[cp] = "pending" => ~Owned(g, cp)'
      BY <1>1, <2>1, <3>1 DEF PendingOwnsNothing
    <3> QED
      BY <3>1, <3>2 DEF Aside, PendingOwnsNothing, Targets, Owned, SecretOf, FluxOf
  <2> QED
    BY <2>1 DEF Aside, PendingOwnsNothing, CleanupSteps
<1>5. FluxGoesFirst'
  <2>1. ASSUME pc \in {"secretGet", "secretDelete"}
        PROVE  FluxOf(work.repo, work.target)'.owner # work.repo
    <3>1. PICK g \in GitRepos, cp \in ControlPlanes : g = work.repo /\ cp = work.target
      BY <1>2, <2>1
    <3>2. FluxOf(g, cp)'.owner # g
      BY <1>1, <2>1, <3>1 DEF FluxGoesFirst
    <3> QED
      BY <3>1, <3>2 DEF Aside, FluxOf
  <2> QED
    BY <2>1 DEF Aside, FluxGoesFirst, FluxOf
<1> QED
  BY <1>3, <1>4, <1>5

\* The environment never writes the worker's lists.
LEMMA EnvironmentAside ==
    ASSUME InductiveInv, Environment
    PROVE  Aside /\ \E fresh : work' = [work EXCEPT !.fresh = fresh]
<1>1. work = [work EXCEPT !.fresh = work.fresh]
  BY DEF InductiveInv, TypeOK, WorkerTypeOK, Works
<1>2. ASSUME NEW g \in GitRepos,
             DeleteRepo(g) \/ \E s \in SpecChoices : CreateRepo(g, s) \/ EditSpec(g, s)
      PROVE  Aside /\ \E fresh : work' = [work EXCEPT !.fresh = fresh]
  BY <1>1, <1>2, RepoAside DEF DeleteRepo, CreateRepo, EditSpec, Touch
<1>3. ASSUME NEW g \in GitRepos, NEW cp \in ControlPlanes, Grant(g, cp) \/ Deny(g, cp)
      PROVE  Aside /\ work' = work
  BY <1>3, AnswerAside DEF Grant, Deny
<1>4. CASE (\E g \in GitRepos : CredentialChanges(g)) \/ (\E cp \in ControlPlanes : Relabel(cp))
  <2>1. Aside /\ work' = work
    BY <1>4 DEF CredentialChanges, Relabel, Aside, SecretOf, FluxOf, mcp
  <2> QED  BY <1>1, <2>1
<1>5. ASSUME NEW cp \in ControlPlanes, NEW n \in Names,
             TokenComesDue(cp, n) \/ ManualSecret(cp, n) \/ ManualFlux(cp, n)
      PROVE  Aside /\ work' = work
  BY <1>5, McpAside DEF TokenComesDue, ManualSecret, ManualFlux
<1> QED
  BY <1>1, <1>2, <1>3, <1>4, <1>5 DEF Environment

LEMMA InitCleanup == Init => CleanupInv
<1> SUFFICES ASSUME Init PROVE CleanupInv
  OBVIOUS
<1>1. /\ pc = "idle" /\ ~work.failed
      /\ \A g \in GitRepos, cp \in ControlPlanes :
            SecretOf(g, cp) = NoSecret /\ FluxOf(g, cp) = NoFlux
  BY NamesAssumption DEF Init, NoWork, SecretOf, FluxOf
<1>2. \A g \in GitRepos, cp \in ControlPlanes : ~Owned(g, cp)
  BY <1>1, OwnersAssumption DEF NoSecret, NoFlux, Owned
<1> QED
  BY <1>1, <1>2
     DEF CleanupInv, OwnedWithinReach, PendingOwnsNothing, FluxGoesFirst, CleanupSteps

LEMMA NextCleanup ==
    ASSUME InductiveInv, PassInv, CleanupInv, faults = 0, crashes = 0, [Next]_vars
    PROVE  CleanupInv'
<1>1. CASE UNCHANGED vars
  <2>1. Aside /\ work' = work
    BY <1>1 DEF vars, cluster, mcp, Aside, SecretOf, FluxOf
  <2> QED  BY <2>1, AsideCleanup
<1>2. CASE \E g \in GitRepos : Fetch(g)
  BY <1>2, FetchCleanup
<1>3. CASE Environment
  <2>1. PICK fresh : work' = [work EXCEPT !.fresh = fresh]
    BY <1>3, EnvironmentAside
  <2>2. work'.failed = work.failed /\ work'.todo = work.todo
    BY <2>1 DEF InductiveInv, TypeOK, WorkerTypeOK, Works
  <2> QED  BY <1>3, <2>2, EnvironmentAside, AsideCleanup
<1>4. CASE WorkerStep
  BY <1>4, ResolveCleanup, PropagateCleanup, CleanupAccessCleanup, DeleteStepsCleanup, EndCleanup
     DEF WorkerStep
<1> QED
  BY <1>1, <1>2, <1>3, <1>4, NoCrashesStays DEF Next

\* RemoveFinalizer finds an empty ControlPlane for every name of the spec.
LEMMA RemovalIsClean ==
    ASSUME InductiveInv, CleanupInv, Next PROVE CleanedTargets
<1> SUFFICES ASSUME NEW g \in GitRepos, repo[g].finalizer, ~repo'[g].finalizer,
                    NEW cp \in repo[g].spec.names
             PROVE  cp \notin LeftBy(g)
  BY DEF CleanedTargets
<1>1. RemoveFinalizer /\ work.repo = g
  BY FinalizerWriters
<1>2. pc = "cleanup" /\ work.todo = {} /\ ~work.failed /\ work.fresh
  BY <1>1 DEF RemoveFinalizer, At, NoCleanupErrors, UpdateAccepted
<1>3. cp \in Targets
  BY <1>1, <1>2 DEF InductiveInv, FetchedObject, NamesResolved, CleanupSteps
<1>4. cp \in ControlPlanes /\ access[g][cp] = "none"
  BY <1>1, <1>2, <1>3 DEF InductiveInv, AccessCleaned, CleanupSteps, Targets
<1>5. ~Owned(g, cp)
  BY <1>2, <1>4 DEF CleanupInv, OwnedWithinReach, CleansUp
<1> QED
  BY <1>4, <1>5 DEF LeftBy, Owned

\* When no call fails and no process dies, the object goes only after everything of its
\* own is gone from every ControlPlane its spec names (reconcileDelete and Cleanup), also
\* from those added to or taken off the spec and back again, and while another namespace
\* uses the same names.
THEOREM DeletionIsComplete ==
    ASSUME MaxFaults = 0, MaxCrashes = 0 PROVE Spec => DeletionCleansTargets
<1> DEFINE I == InductiveInv /\ PassInv /\ CleanupInv /\ faults = 0 /\ crashes = 0
<1>1. Init => I
  BY InitInductive, InitPass, InitCleanup DEF Init
<1>2. I /\ [Next]_vars => I'
  BY NextInductive, NextPass, NextCleanup, NoFaultsStays, NoCrashesStays
<1>3. ASSUME I, Next PROVE CleanedTargets
  BY <1>3, RemovalIsClean
<1>4. ASSUME I, [Next]_vars PROVE [CleanedTargets]_vars
  BY <1>3, <1>4
<1> QED
  BY <1>1, <1>2, <1>4, PTL DEF Spec, DeletionCleansTargets

-----------------------------------------------------------------------------
(* Ready is true: ReadyInv is inductive.                                   *)

\* A step that neither writes nor removes anything in a ControlPlane, and ends neither
\* the writes nor the deletes of a target.
LEMMA QuietReady ==
    ASSUME ReadyInv, UNCHANGED <<secret, flux>>, pc \notin {"flux", "secretGet", "secretDelete"},
           pc' # "flux", ReadyInHand', ReadyMeansPropagated'
    PROVE  ReadyInv'
<1> USE DEF ReadyInv
<1>1. SlotsAreOwn'
  BY DEF SlotsAreOwn, SecretOf, FluxOf
<1>2. TokenWithFlux'
  BY DEF TokenWithFlux, SecretOf, FluxOf
<1> QED
  BY <1>1, <1>2

\* The status stays true while the slots stay, if no entry becomes Ready and no object
\* stops leaving.
LEMMA StatusKept ==
    ASSUME ReadyMeansPropagated, UNCHANGED <<secret, flux>>,
           \A g \in GitRepos, cp \in ControlPlanes :
              repo'[g].propagated[cp] = "Ready" /\ ~repo'[g].deleting
              => repo[g].propagated[cp] = "Ready" /\ ~repo[g].deleting
    PROVE  ReadyMeansPropagated'
BY DEF ReadyMeansPropagated, SecretOf, FluxOf

\* The pass goes on with the entries it has.
LEMMA SameHandReady ==
    ASSUME ReadyInv, UNCHANGED <<secret, flux, repo>>, pc # "idle",
           pc \notin {"flux", "secretGet", "secretDelete"}, pc' # "flux",
           work'.repo = work.repo, work'.deleting = work.deleting,
           work'.propagated = work.propagated
    PROVE  ReadyInv'
<1>1. ReadyInHand'
  BY DEF ReadyInv, ReadyInHand, SecretOf, FluxOf
<1>2. ReadyMeansPropagated'
  BY StatusKept DEF ReadyInv
<1> QED
  BY <1>1, <1>2, QuietReady

\* A return leaves what the status says.
LEMMA ReturnReady ==
    ASSUME ReadyInv, Return, UNCHANGED <<secret, flux>>, ReadyMeansPropagated',
           pc \notin {"flux", "secretGet", "secretDelete"}
    PROVE  ReadyInv'
<1>1. pc' = "idle" /\ ReadyInHand'
  BY DEF Return, Goto, ReadyInHand
<1> QED
  BY <1>1, QuietReady

\* The entries of the fetched object are those of its status.
LEMMA FetchReady ==
    ASSUME InductiveInv, ReadyInv, NEW g \in GitRepos, Fetch(g) PROVE ReadyInv'
<1>1. work' = [NoWork EXCEPT !.repo = g, !.deleting = repo[g].deleting,
                             !.spec = repo[g].spec, !.propagated = repo[g].propagated]
  BY DEF Fetch
<1>2. work'.repo = g /\ work'.deleting = repo[g].deleting /\ work'.propagated = repo[g].propagated
  BY <1>1 DEF NoWork
<1>3. /\ pc = "idle" /\ pc' \in {"list", "adopt", "credential"}
      /\ UNCHANGED <<repo, secret, flux>>
  BY DEF Fetch, Goto, At, StepAfterFetch, cluster, mcp
<1>4. ReadyInHand'
  <2>1. \A cp \in ControlPlanes :
           repo[g].propagated[cp] = "Ready" /\ ~repo[g].deleting
           => secret[cp][NameOf[g]].owner = g /\ flux[cp][NameOf[g]].owner = g
    BY DEF ReadyInv, ReadyMeansPropagated, SecretOf, FluxOf
  <2> QED  BY <1>2, <1>3, <2>1 DEF ReadyInHand, SecretOf, FluxOf
<1>5. ReadyMeansPropagated'
  BY <1>3, StatusKept DEF ReadyInv
<1> QED
  BY <1>3, <1>4, <1>5, QuietReady

\* Until the targets are resolved the pass only reads in the ControlPlanes.
LEMMA ResolveReady ==
    ASSUME InductiveInv, ReadyInv, faults = 0,
           \/ ResolveCredential \/ ResolveNames \/ EnsureAccessRequest \/ ReadAccessRequest
           \/ ResolveGitHubCreds \/ MintScopedToken
           \/ StartCleanup \/ CleanupAccessRequest \/ CleanupGetFlux
    PROVE  ReadyInv'
<1>1. /\ work \in Works /\ UNCHANGED <<secret, flux, repo>>
      /\ pc \in {"credential", "list", "access", "readAccess", "mint", "cleanup", "fluxGet"}
  BY DEF ResolveCredential, ResolveNames, EnsureAccessRequest, ReadAccessRequest,
         ResolveGitHubCreds, MintScopedToken, StartCleanup, CleanupAccessRequest, CleanupGetFlux,
         At, cluster, mcp, InductiveInv, TypeOK, WorkerTypeOK
<1>2. CASE Return
  BY <1>1, <1>2, StatusKept, ReturnReady DEF ReadyInv
<1>3. ASSUME pc' # "flux", work'.repo = work.repo, work'.deleting = work.deleting,
             work'.propagated = work.propagated
      PROVE  ReadyInv'
  BY <1>1, <1>3, SameHandReady
<1>4. CASE ResolveError
  <2>1. CASE pc' = "patchReady" /\ work' = [work EXCEPT !.target = Absent]
    BY <1>1, <1>3, <2>1 DEF Works
  <2> QED  BY <1>2, <1>4, <2>1 DEF ResolveError, Goto
<1>5. CASE ResolveCredential \/ MintScopedToken \/ CleanupGetFlux
  BY <1>3, <1>5, CallSucceeds DEF ResolveCredential, MintScopedToken, CleanupGetFlux, Goto
<1>6. CASE ResolveNames \/ ResolveGitHubCreds \/ StartCleanup
  <2>1. pc' # "flux" /\ \E todo : work' = [work EXCEPT !.todo = todo]
    BY <1>6, CallSucceeds DEF ResolveNames, ResolveGitHubCreds, StartCleanup, Goto
  <2> QED  BY <1>1, <1>3, <2>1 DEF Works
<1>7. CASE EnsureAccessRequest
  <2>1. pc' # "flux" /\ \E cp : work' = [work EXCEPT !.target = cp]
    BY <1>7, CallSucceeds DEF EnsureAccessRequest, Goto
  <2> QED  BY <1>1, <1>3, <2>1 DEF Works
<1>8. CASE ReadAccessRequest
  <2>1. \/ ResolveError
        \/ /\ pc' = "access"
           /\ \E r : work' = [work EXCEPT !.reach[work.target] = r, !.todo = @ \ {work.target},
                                          !.target = Absent]
    BY <1>8 DEF ReadAccessRequest, Goto
  <2> QED  BY <1>1, <1>3, <1>4, <2>1 DEF Works
<1>9. CASE CleanupAccessRequest
  <2>1. PICK cp \in work.todo, err \in BOOLEAN :
           /\ pc' = IF work.reach[cp] = "cluster" THEN "fluxGet" ELSE "cleanup"
           /\ work' = [work EXCEPT
                          !.target = IF work.reach[cp] = "cluster" THEN cp ELSE Absent,
                          !.todo = @ \ {cp}, !.failed = @ \/ err]
    BY <1>9 DEF CleanupAccessRequest, Goto
  <2> QED  BY <1>1, <1>3, <2>1 DEF Works
<1> QED
  BY <1>5, <1>6, <1>7, <1>8, <1>9

\* Writing the finalizer, and taking it off, makes no entry Ready.
LEMMA FinalizerReady ==
    ASSUME InductiveInv, ReadyInv, AddFinalizer \/ RemoveFinalizer PROVE ReadyInv'
<1>1. /\ pc \in {"adopt", "cleanup"} /\ Return /\ UNCHANGED <<secret, flux>>
      /\ repo \in [GitRepos -> Repos] /\ work.repo \in GitRepos
      /\ \/ UNCHANGED repo
         \/ repo' = [repo EXCEPT ![work.repo].finalizer = TRUE]
         \/ repo' = [repo EXCEPT ![work.repo] = NoRepo]
  BY DEF AddFinalizer, RemoveFinalizer, At, mcp, InductiveInv, TypeOK, ClusterTypeOK,
         WorkerTypeOK
<1>2. \A g \in GitRepos, cp \in ControlPlanes :
         repo'[g].propagated[cp] = "Ready" /\ ~repo'[g].deleting
         => repo[g].propagated[cp] = "Ready" /\ ~repo[g].deleting
  BY <1>1 DEF Repos, NoRepo, EmptyStatus
<1> QED
  BY <1>1, <1>2, StatusKept, ReturnReady DEF ReadyInv

\* The status patch writes the entries the worker has in hand.
LEMMA PatchStatusReady ==
    ASSUME InductiveInv, LeavingNoticed, ReadyInv, PatchStatus PROVE ReadyInv'
<1> DEFINE list == IF At("target") THEN FilterPropagateStatus(work.propagated)
                                   ELSE work.propagated
<1>1. /\ pc \in {"patchReady", "patchUnresolved", "target"} /\ ~work.deleting /\ Return
      /\ UNCHANGED <<secret, flux>> /\ repo \in [GitRepos -> Repos] /\ work \in Works
  BY DEF PatchStatus, At, mcp, LeavingNoticed, PropagateSteps, InductiveInv, TypeOK,
         ClusterTypeOK, WorkerTypeOK
<1>2. PICK g \in GitRepos, ready \in {"True", "False"}, observed \in BOOLEAN :
         /\ g = work.repo
         /\ \/ UNCHANGED repo
            \/ repo' = [repo EXCEPT ![g] =
                           [@ EXCEPT !.ready = ready, !.observed = observed, !.propagated = list]]
  BY <1>1 DEF PatchStatus, InductiveInv, TypeOK, WorkerTypeOK, Works
<1>3. \A cp \in ControlPlanes : list[cp] = "Ready" =>
         secret[cp][NameOf[g]].owner = g /\ flux[cp][NameOf[g]].owner = g
  <2>1. \A cp \in ControlPlanes : list[cp] = "Ready" => work.propagated[cp] = "Ready"
    BY DEF FilterPropagateStatus
  <2> HIDE DEF list
  <2> QED  BY <1>1, <1>2, <2>1 DEF ReadyInv, ReadyInHand, SecretOf, FluxOf
<1>4. ReadyMeansPropagated'
  <2> HIDE DEF list
  <2> SUFFICES ASSUME NEW h \in GitRepos, NEW cp \in ControlPlanes,
                      repo'[h].propagated[cp] = "Ready", ~repo'[h].deleting
               PROVE  secret[cp][NameOf[h]].owner = h /\ flux[cp][NameOf[h]].owner = h
    BY <1>1 DEF ReadyMeansPropagated, SecretOf, FluxOf
  <2>1. CASE repo'[h] = repo[h]
    BY <2>1 DEF ReadyInv, ReadyMeansPropagated, SecretOf, FluxOf
  <2>2. CASE h = g /\ repo'[h].propagated = list
    BY <1>3, <2>2
  <2>3. repo'[h] = repo[h] \/ (h = g /\ repo'[h].propagated = list)
    <3>1. \/ repo'[h] = repo[h]
          \/ h = g /\ repo'[g] = [repo[g] EXCEPT !.ready = ready, !.observed = observed,
                                               !.propagated = list]
      BY <1>1, <1>2
    <3>2. repo[g] \in Repos
      BY <1>1
    <3> QED  BY <3>1, <3>2 DEF Repos
  <2> QED
    BY <2>1, <2>2, <2>3
<1> QED
  BY <1>1, <1>4, ReturnReady

\* Where no rotation is needed the Secret is the object's own, and so is, between two
\* passes, the Flux GitRepository.
LEMMA StartTargetReady ==
    ASSUME InductiveInv, ReadyInv, faults = 0, StartTarget PROVE ReadyInv'
<1>1. PICK g \in GitRepos : g = work.repo
  BY DEF StartTarget, At, InductiveInv, TypeOK, WorkerTypeOK
<1>2. /\ pc = "target" /\ UNCHANGED <<secret, flux, repo>> /\ work \in Works
      /\ work.todo \subseteq ControlPlanes
  BY DEF StartTarget, At, cluster, mcp, InductiveInv, TypeOK, WorkerTypeOK, Works
<1>3. \/ \E cp \in work.todo : pc' = "mint" /\ work' = [work EXCEPT !.target = cp]
      \/ \E cp \in work.todo : Report(cp, "Pending")
      \/ \E cp \in work.todo : Report(cp, "Ready") /\ ~NeedsRotation(g, cp)
  BY <1>1, CallSucceeds DEF StartTarget, Rotate, Goto
<1>4. ASSUME NEW cp \in work.todo, pc' = "mint", work' = [work EXCEPT !.target = cp]
      PROVE  ReadyInv'
  <2>1. /\ work'.repo = work.repo /\ work'.deleting = work.deleting
        /\ work'.propagated = work.propagated
    BY <1>2, <1>4 DEF Works
  <2> QED  BY <1>2, <1>4, <2>1, SameHandReady
<1>5. ASSUME NEW cp \in work.todo, NEW phase, Report(cp, phase),
             phase = "Ready" => SecretOf(g, cp).owner = g /\ FluxOf(g, cp).owner = g
      PROVE  ReadyInv'
  <2>1. /\ pc' = "target" /\ work'.repo = g /\ work'.deleting = work.deleting
        /\ work'.propagated = [work.propagated EXCEPT ![cp] = phase]
        /\ work.propagated \in StatusLists
    BY <1>1, <1>2, <1>5 DEF Report, Goto, Works
  <2>2. ASSUME NEW c \in ControlPlanes, work'.propagated[c] = "Ready", ~work.deleting
        PROVE  SecretOf(g, c).owner = g /\ FluxOf(g, c).owner = g
    <3>1. CASE c = cp
      BY <1>2, <1>5, <2>1, <2>2, <3>1 DEF StatusLists
    <3>2. CASE c # cp
      <4>1. work.propagated[c] = "Ready"
        BY <2>1, <2>2, <3>2 DEF StatusLists
      <4> QED  BY <1>1, <1>2, <2>2, <4>1 DEF ReadyInv, ReadyInHand
    <3> QED  BY <3>1, <3>2
  <2>3. ReadyInHand'
    BY <1>2, <2>1, <2>2 DEF ReadyInHand, SecretOf, FluxOf
  <2>4. ReadyMeansPropagated'
    BY <1>2, StatusKept DEF ReadyInv
  <2> QED
    BY <1>2, <2>1, <2>3, <2>4, QuietReady
<1>6. ASSUME NEW cp \in work.todo, ~NeedsRotation(g, cp)
      PROVE  SecretOf(g, cp).owner = g /\ FluxOf(g, cp).owner = g
  <2>1. cp \in ControlPlanes /\ SecretOf(g, cp).owner = g
    BY <1>2, <1>6 DEF NeedsRotation, ReadyInv, SlotsAreOwn
  <2> QED
    BY <1>2, <2>1 DEF ReadyInv, TokenWithFlux
<1> QED
  BY <1>3, <1>4, <1>5, <1>6

\* The two writes of a pass: the Secret, and at once after it the Flux GitRepository,
\* which nobody else has.
LEMMA SyncReady ==
    ASSUME InductiveInv, ReadyInv, UniqueNames, faults = 0,
           SyncSecret \/ SyncFluxGitRepository
    PROVE  ReadyInv'
<1> USE DEF ReadyInv
<1>1. PICK g \in GitRepos, cp \in ControlPlanes : g = work.repo /\ cp = work.target
  BY DEF SyncSecret, SyncFluxGitRepository, At, InductiveInv, TypeOK, WorkerTypeOK, TargetSteps
<1>2. UNCHANGED repo /\ work \in Works /\ McpTypeOK
  BY DEF SyncSecret, SyncFluxGitRepository, cluster, InductiveInv, TypeOK, WorkerTypeOK
<1>3. CASE SyncSecret
  <2>1. /\ pc = "secret" /\ pc' = "flux" /\ work' = work /\ UNCHANGED flux
        /\ secret' = [secret EXCEPT ![cp][NameOf[g]] = [owner |-> g, due |-> FALSE]]
    BY <1>1, <1>3, CallSucceeds DEF SyncSecret, At, Goto
  <2>2. \A h \in GitRepos, c \in ControlPlanes :
           secret'[c][NameOf[h]] = IF c = cp /\ h = g THEN [owner |-> g, due |-> FALSE]
                                   ELSE secret[c][NameOf[h]]
    BY <1>2, <2>1, NamesAssumption DEF McpTypeOK, UniqueNames
  <2>3. SlotsAreOwn'
    BY <2>1, <2>2 DEF SlotsAreOwn, SecretOf, FluxOf
  <2>4. TokenWithFlux'
    BY <1>1, <2>1, <2>2 DEF TokenWithFlux, SecretOf, FluxOf
  <2>5. ReadyInHand'
    BY <1>1, <2>1, <2>2 DEF ReadyInHand, SecretOf, FluxOf
  <2>6. ReadyMeansPropagated'
    BY <1>2, <2>1, <2>2 DEF ReadyMeansPropagated, SecretOf, FluxOf
  <2> QED
    BY <2>3, <2>4, <2>5, <2>6
<1>4. CASE SyncFluxGitRepository
  <2>1. FluxOf(g, cp).owner \in {g, Absent}
    BY DEF SlotsAreOwn
  <2>2. /\ pc = "flux" /\ Report(cp, "Ready") /\ UNCHANGED secret
        /\ flux' = [flux EXCEPT ![cp][NameOf[g]] = [owner |-> g, rev |-> work.spec.rev]]
    BY <1>1, <1>4, <2>1, CallSucceeds DEF SyncFluxGitRepository, At, MayWriteFlux
  <2>3. /\ pc' = "target" /\ work'.repo = g /\ work'.deleting = work.deleting
        /\ work'.propagated = [work.propagated EXCEPT ![cp] = "Ready"]
        /\ work.propagated \in StatusLists
    BY <1>1, <1>2, <2>2 DEF Report, Goto, Works
  <2>4. \A h \in GitRepos, c \in ControlPlanes :
           flux'[c][NameOf[h]] = IF c = cp /\ h = g THEN [owner |-> g, rev |-> work.spec.rev]
                                 ELSE flux[c][NameOf[h]]
    BY <1>2, <2>2, NamesAssumption DEF McpTypeOK, UniqueNames
  <2>5. secret[cp][NameOf[g]].owner = g
    BY <1>1, <2>2 DEF TokenWithFlux, SecretOf
  <2>6. SlotsAreOwn'
    BY <2>2, <2>4 DEF SlotsAreOwn, SecretOf, FluxOf
  <2>7. TokenWithFlux'
    BY <1>1, <2>2, <2>3, <2>4 DEF TokenWithFlux, SecretOf, FluxOf
  <2>8. ReadyInHand'
    <3>1. ASSUME NEW c \in ControlPlanes, work'.propagated[c] = "Ready", ~work.deleting
          PROVE  secret[c][NameOf[g]].owner = g /\ flux'[c][NameOf[g]].owner = g
      <4>1. CASE c = cp
        BY <2>4, <2>5, <4>1
      <4>2. CASE c # cp
        <5>1. work.propagated[c] = "Ready"
          BY <2>3, <3>1, <4>2 DEF StatusLists
        <5> QED  BY <1>1, <2>2, <2>4, <3>1, <5>1 DEF ReadyInHand, SecretOf, FluxOf
      <4> QED  BY <4>1, <4>2
    <3> QED  BY <2>2, <2>3, <3>1 DEF ReadyInHand, SecretOf, FluxOf
  <2>9. ReadyMeansPropagated'
    BY <1>2, <2>2, <2>4 DEF ReadyMeansPropagated, SecretOf, FluxOf
  <2> QED
    BY <2>6, <2>7, <2>8, <2>9
<1> QED
  BY <1>3, <1>4

\* The deletes of a cleanup take entries from under a status that no longer counts: the
\* object is leaving, for the worker and on the cluster.
LEMMA DeleteReady ==
    ASSUME InductiveInv, PassInv, ReadyInv, UniqueNames, faults = 0,
           CleanupDeleteFlux \/ CleanupGetSecret \/ CleanupDeleteSecret
    PROVE  ReadyInv'
<1> USE DEF ReadyInv
<1>1. PICK g \in GitRepos, cp \in ControlPlanes : g = work.repo /\ cp = work.target
  BY DEF CleanupDeleteFlux, CleanupGetSecret, CleanupDeleteSecret, At, InductiveInv, TypeOK,
         WorkerTypeOK, TargetSteps
<1>2. /\ UNCHANGED repo /\ work \in Works /\ McpTypeOK /\ \A h \in GitRepos : h # Absent
      /\ pc \in {"fluxDelete", "secretGet", "secretDelete"}
  BY OwnersAssumption
     DEF CleanupDeleteFlux, CleanupGetSecret, CleanupDeleteSecret, At, cluster, InductiveInv,
         TypeOK, WorkerTypeOK
<1>3. work.deleting /\ repo[g].deleting
  BY <1>1, <1>2 DEF InductiveInv, FetchedObject, CleanupSteps, PassInv, StillLeaving
<1>4. /\ pc' \in {"secretGet", "secretDelete", "cleanup"}
      /\ work'.repo = g /\ work'.deleting = work.deleting
      /\ pc' # "cleanup" => work'.target = cp
  BY <1>1, <1>2, CallSucceeds
     DEF CleanupDeleteFlux, CleanupGetSecret, CleanupDeleteSecret, Goto, Works
<1>5. \A h \in GitRepos, c \in ControlPlanes :
         \/ /\ secret'[c][NameOf[h]] = secret[c][NameOf[h]]
            /\ flux'[c][NameOf[h]] = flux[c][NameOf[h]]
         \/ /\ h = g /\ c = cp
            /\ \/ secret'[c][NameOf[h]] = secret[c][NameOf[h]] /\ pc' = "secretGet"
               \/ secret'[c][NameOf[h]].owner = Absent
            /\ \/ flux'[c][NameOf[h]] = flux[c][NameOf[h]]
               \/ flux'[c][NameOf[h]].owner = Absent
  <2>1. CASE CleanupDeleteFlux
    <3>1. /\ flux' = [flux EXCEPT ![cp][NameOf[g]] = NoFlux] /\ UNCHANGED secret
          /\ pc' = "secretGet"
      BY <1>1, <2>1, CallSucceeds DEF CleanupDeleteFlux, Goto
    <3> QED  BY <1>2, <3>1, NamesAssumption DEF McpTypeOK, UniqueNames, NoFlux
  <2>2. CASE CleanupGetSecret
    BY <2>2 DEF CleanupGetSecret, mcp
  <2>3. CASE CleanupDeleteSecret
    <3>1. secret' = [secret EXCEPT ![cp][NameOf[g]] = NoSecret] /\ UNCHANGED flux
      BY <1>1, <2>3, CallSucceeds DEF CleanupDeleteSecret
    <3> QED  BY <1>2, <3>1, NamesAssumption DEF McpTypeOK, UniqueNames, NoSecret
  <2> QED
    BY <2>1, <2>2, <2>3
<1>6. pc' = "cleanup" => secret'[cp][NameOf[g]].owner # g
  <2>1. CASE CleanupGetSecret
    BY <1>1, <2>1, CallSucceeds DEF CleanupGetSecret, IsOurs, Goto, SecretOf, mcp
  <2>2. CASE CleanupDeleteSecret
    <3>1. secret' = [secret EXCEPT ![cp][NameOf[g]] = NoSecret]
      BY <1>1, <2>2, CallSucceeds DEF CleanupDeleteSecret
    <3> QED  BY <1>2, <3>1, NamesAssumption DEF McpTypeOK, NoSecret
  <2>3. CASE CleanupDeleteFlux
    BY <2>3, CallSucceeds DEF CleanupDeleteFlux, Goto
  <2> QED
    BY <2>1, <2>2, <2>3
<1>7. SlotsAreOwn'
  BY <1>5 DEF SlotsAreOwn, SecretOf, FluxOf
<1>8. TokenWithFlux'
  <2> SUFFICES ASSUME NEW h \in GitRepos, NEW c \in ControlPlanes,
                      secret'[c][NameOf[h]].owner = h, flux'[c][NameOf[h]].owner # h
               PROVE  /\ pc' \in {"flux", "secretGet", "secretDelete"}
                      /\ work'.repo = h /\ work'.target = c
    BY <1>4 DEF TokenWithFlux, SecretOf, FluxOf
  <2>1. h = g /\ c = cp
    BY <1>1, <1>2, <1>5 DEF TokenWithFlux, SecretOf, FluxOf
  <2> QED
    BY <1>4, <1>6, <2>1
<1>9. ReadyInHand'
  BY <1>3, <1>4 DEF ReadyInHand
<1>10. ReadyMeansPropagated'
  BY <1>2, <1>3, <1>5 DEF ReadyMeansPropagated, SecretOf, FluxOf
<1> QED
  BY <1>7, <1>8, <1>9, <1>10

\* Without users in the ControlPlanes the environment changes no owner there; and no user
\* makes an entry of a status Ready, or stops an object from leaving.
LEMMA EnvironmentReady ==
    ASSUME InductiveInv, ReadyInv, "manual" \notin EnvKinds, Environment PROVE ReadyInv'
<1> USE DEF ReadyInv
<1>1. PICK fresh : work' = [work EXCEPT !.fresh = fresh]
  BY EnvironmentAside
<1>2. /\ pc' = pc /\ work'.repo = work.repo /\ work'.deleting = work.deleting
      /\ work'.target = work.target /\ work'.propagated = work.propagated
  BY <1>1, EnvironmentAside DEF Aside, InductiveInv, TypeOK, WorkerTypeOK, Works
<1>3. \A c \in ControlPlanes, n \in Names :
         secret'[c][n].owner = secret[c][n].owner /\ flux'[c][n].owner = flux[c][n].owner
  <2>1. CASE UNCHANGED <<secret, flux>>
    BY <2>1
  <2>2. ASSUME NEW cp \in ControlPlanes, NEW m \in Names, TokenComesDue(cp, m)
        PROVE  \A c \in ControlPlanes, n \in Names :
                  secret'[c][n].owner = secret[c][n].owner /\ flux'[c][n].owner = flux[c][n].owner
    BY <2>2 DEF TokenComesDue, InductiveInv, TypeOK, McpTypeOK, Secrets
  <2>3. ASSUME NEW cp \in ControlPlanes, NEW m \in Names, ManualSecret(cp, m) \/ ManualFlux(cp, m)
        PROVE  FALSE
    BY <2>3 DEF ManualSecret, ManualFlux, Edit
  <2> QED
    BY <2>1, <2>2, <2>3
       DEF Environment, CreateRepo, EditSpec, DeleteRepo, CredentialChanges, Grant, Deny,
           Relabel, mcp
<1>4. \A g \in GitRepos, cp \in ControlPlanes :
         repo'[g].propagated[cp] = "Ready" /\ ~repo'[g].deleting
         => repo[g].propagated[cp] = "Ready" /\ ~repo[g].deleting
  <2>1. repo \in [GitRepos -> Repos]
    BY DEF InductiveInv, TypeOK, ClusterTypeOK
  <2>2. ASSUME NEW h \in GitRepos, NEW s \in SpecChoices, CreateRepo(h, s)
        PROVE  \A g \in GitRepos : repo'[g] = repo[g] \/ repo'[g].propagated = EmptyStatus
    BY <2>1, <2>2 DEF CreateRepo, NoRepo
  <2>3. ASSUME NEW h \in GitRepos, NEW s \in SpecChoices, EditSpec(h, s)
        PROVE  \A g \in GitRepos : /\ repo'[g].propagated = repo[g].propagated
                                   /\ repo'[g].deleting = repo[g].deleting
    BY <2>1, <2>3 DEF EditSpec, Repos
  <2>4. ASSUME NEW h \in GitRepos, DeleteRepo(h)
        PROVE  \A g \in GitRepos : \/ repo'[g] = repo[g] \/ repo'[g].propagated = EmptyStatus
                                   \/ repo'[g].deleting
    BY <2>1, <2>4 DEF DeleteRepo, NoRepo, Repos
  <2>5. CASE UNCHANGED repo
    BY <2>5
  <2> QED
    BY <2>2, <2>3, <2>4, <2>5
       DEF Environment, Grant, Deny, CredentialChanges, Relabel, TokenComesDue, ManualSecret,
           ManualFlux, cluster, EmptyStatus
<1>5. /\ \A g \in GitRepos : NameOf[g] \in Names
      /\ pc # "idle" => work.repo \in GitRepos
      /\ pc = "flux" => work.target \in ControlPlanes
  BY NamesAssumption DEF InductiveInv, TypeOK, WorkerTypeOK, TargetSteps
<1>6. SlotsAreOwn' /\ TokenWithFlux'
  BY <1>2, <1>3, <1>5 DEF SlotsAreOwn, TokenWithFlux, SecretOf, FluxOf
<1>7. ReadyInHand'
  BY <1>2, <1>3, <1>5 DEF ReadyInHand, SecretOf, FluxOf
<1>8. ReadyMeansPropagated'
  BY <1>3, <1>4, <1>5 DEF ReadyMeansPropagated, SecretOf, FluxOf
<1> QED
  BY <1>6, <1>7, <1>8

LEMMA InitReady == Init => ReadyInv
<1> SUFFICES ASSUME Init PROVE ReadyInv
  OBVIOUS
<1>1. /\ pc = "idle" /\ \A g \in GitRepos : repo[g] = NoRepo
      /\ \A g \in GitRepos, cp \in ControlPlanes :
            SecretOf(g, cp) = NoSecret /\ FluxOf(g, cp) = NoFlux
  BY NamesAssumption DEF Init, SecretOf, FluxOf
<1>2. \A g \in GitRepos : g # Absent
  BY OwnersAssumption
<1>3. SlotsAreOwn /\ TokenWithFlux
  BY <1>1, <1>2 DEF NoSecret, NoFlux, SlotsAreOwn, TokenWithFlux
<1> QED
  BY <1>1, <1>3 DEF NoRepo, EmptyStatus, ReadyInv, ReadyInHand, ReadyMeansPropagated

LEMMA NextReady ==
    ASSUME InductiveInv, PassInv, ListInv, ReadyInv, UniqueNames, "manual" \notin EnvKinds,
           faults = 0, crashes = 0, [Next]_vars
    PROVE  ReadyInv'
<1>1. CASE UNCHANGED vars
  BY <1>1 DEF vars, cluster, mcp, ReadyInv, SlotsAreOwn, TokenWithFlux, ReadyInHand,
              ReadyMeansPropagated, SecretOf, FluxOf
<1>2. CASE \E g \in GitRepos : Fetch(g)
  BY <1>2, FetchReady
<1>3. CASE Environment
  BY <1>3, EnvironmentReady
<1>4. CASE WorkerStep
  BY <1>4, ResolveReady, FinalizerReady, PatchStatusReady, StartTargetReady, SyncReady,
     DeleteReady DEF WorkerStep, ListInv
<1> QED
  BY <1>1, <1>2, <1>3, <1>4, NoCrashesStays DEF Next

\* A pass that nothing interrupts knows at each step what its status, its targets and
\* the objects in the ControlPlanes have to do with each other: the strengthening behind
\* the theorems of this module on the status and on cleanup (Reconcile as a whole).
THEOREM CleanPassInvariant ==
    ASSUME MaxFaults = 0, MaxCrashes = 0, "manual" \notin EnvKinds, UniqueNames
    PROVE  Spec => []CleanPassInv
<1> DEFINE I == InductiveInv /\ PassInv /\ CleanPassInv /\ faults = 0 /\ crashes = 0
<1>1. Init => I
  BY InitInductive, InitPass, InitList, InitCleanup, InitReady DEF Init, CleanPassInv
<1>2. I /\ [Next]_vars => I'
  BY NextInductive, NextPass, NextList, NextCleanup, NextReady, NoFaultsStays,
     NoCrashesStays DEF CleanPassInv
<1>3. I => CleanPassInv
  OBVIOUS
<1> QED
  BY <1>1, <1>2, <1>3, PTL DEF Spec

\* Phase Ready ("Token and Flux GitRepository are up to date") is true: both objects are
\* in the ControlPlane and are those of the GitRepository (reconcileTarget, NeedsRotation
\* and propagate.Reconcile).  The hypotheses are needed: a second namespace with the same
\* name, a user who deletes the Flux GitRepository, a failed call or a crash between the
\* two writes each make it false.
THEOREM ReadyIsTrue ==
    ASSUME MaxFaults = 0, MaxCrashes = 0, "manual" \notin EnvKinds, UniqueNames
    PROVE  Spec => []ReadyMeansPropagated
<1>1. CleanPassInv => ReadyMeansPropagated
  BY DEF CleanPassInv, ReadyInv
<1> QED
  BY <1>1, CleanPassInvariant, PTL

-----------------------------------------------------------------------------
(* The targets never change: AstrayInv is inductive.                       *)

\* What becomes of the spec of an object: users alone write it.
SpecWritten(g) ==
    \/ ~repo'[g].exists
    \/ repo[g].exists /\ repo'[g].spec = repo[g].spec
    \/ repo'[g].spec \in SpecChoices /\ (repo[g].exists => "edit" \in EnvKinds)

LEMMA SpecWriters ==
    ASSUME InductiveInv, Next, NEW g \in GitRepos PROVE SpecWritten(g)
<1> USE DEF InductiveInv, TypeOK
<1>1. repo \in [GitRepos -> Repos] /\ repo[g] \in Repos
  BY DEF ClusterTypeOK
<1>2. CASE UNCHANGED repo
  BY <1>2 DEF SpecWritten
<1>3. ASSUME NEW h \in GitRepos, Fetch(h) PROVE SpecWritten(g)
  BY <1>2, <1>3 DEF Fetch, cluster
<1>4. CASE WorkerStep
  <2>1. CASE AddFinalizer
    BY <1>1, <2>1 DEF AddFinalizer, SpecWritten, Repos
  <2>2. CASE PatchStatus
    <3>1. PICK ready, list :
             \/ UNCHANGED repo
             \/ repo' = [repo EXCEPT ![work.repo] =
                            [@ EXCEPT !.ready = ready, !.observed = work.fresh,
                                      !.propagated = list]]
      BY <2>2 DEF PatchStatus
    <3>2. CASE repo' = [repo EXCEPT ![work.repo] =
                          [@ EXCEPT !.ready = ready, !.observed = work.fresh,
                                    !.propagated = list]]
      <4>1. repo'[g].exists = repo[g].exists /\ repo'[g].spec = repo[g].spec
        BY <1>1, <3>2 DEF Repos
      <4> QED
        BY <4>1 DEF SpecWritten
    <3> QED
      BY <1>2, <3>1, <3>2
  <2>3. CASE RemoveFinalizer
    BY <1>1, <2>3 DEF RemoveFinalizer, SpecWritten, NoRepo
  <2> QED
    BY <1>2, <1>4, <2>1, <2>2, <2>3
       DEF WorkerStep, ResolveCredential, ResolveNames, EnsureAccessRequest,
           ReadAccessRequest, ResolveGitHubCreds, StartTarget, MintScopedToken, SyncSecret,
           SyncFluxGitRepository, StartCleanup, CleanupAccessRequest, CleanupGetFlux,
           CleanupDeleteFlux, CleanupGetSecret, CleanupDeleteSecret, cluster
<1>5. CASE Crash
  BY <1>2, <1>5 DEF Crash, cluster
<1>6. CASE Environment
  <2>1. ASSUME NEW h \in GitRepos, NEW s \in SpecChoices, CreateRepo(h, s)
        PROVE  SpecWritten(g)
    <3>1. repo'[g] = IF h = g THEN [NoRepo EXCEPT !.exists = TRUE, !.spec = s] ELSE repo[g]
      BY <1>1, <2>1 DEF CreateRepo
    <3>2. repo'[g].spec = IF h = g THEN s ELSE repo[g].spec
      BY <3>1 DEF NoRepo
    <3> QED
      BY <2>1, <3>1, <3>2 DEF CreateRepo, SpecWritten
  <2>2. ASSUME NEW h \in GitRepos, NEW s \in SpecChoices, EditSpec(h, s)
        PROVE  SpecWritten(g)
    BY <1>1, <2>2 DEF EditSpec, Edit, SpecWritten, Repos
  <2>3. ASSUME NEW h \in GitRepos, DeleteRepo(h) PROVE SpecWritten(g)
    BY <1>1, <2>3 DEF DeleteRepo, SpecWritten, Repos, NoRepo
  <2> QED
    BY <1>2, <1>6, <2>1, <2>2, <2>3
       DEF Environment, Grant, Deny, CredentialChanges, Relabel, TokenComesDue,
           ManualSecret, ManualFlux, cluster
<1> QED
  BY <1>3, <1>4, <1>5, <1>6 DEF Next

\* A pass under way keeps its object and the spec it fetched.
LEMMA SpecInHand ==
    ASSUME InductiveInv, Next, pc' \notin {"idle", "adopt"}
    PROVE  \/ \E g \in GitRepos : Fetch(g)
           \/ /\ pc \notin {"idle", "adopt"}
              /\ work'.repo = work.repo /\ work'.spec = work.spec
<1> USE DEF InductiveInv, TypeOK
<1>1. work \in Works
  BY DEF WorkerTypeOK
<1>2. CASE WorkerStep
  <2>1. CASE AddFinalizer \/ PatchStatus \/ RemoveFinalizer
    BY <2>1 DEF AddFinalizer, PatchStatus, RemoveFinalizer, Return, Goto
  <2>2. CASE ResolveCredential \/ ResolveNames \/ EnsureAccessRequest \/ ReadAccessRequest
    BY <1>1, <2>2 DEF ResolveCredential, ResolveNames, EnsureAccessRequest,
                      ReadAccessRequest, ResolveError, Return, At, Goto, Works
  <2>3. CASE ResolveGitHubCreds \/ StartTarget \/ MintScopedToken \/ SyncSecret
             \/ SyncFluxGitRepository
    BY <1>1, <2>3 DEF ResolveGitHubCreds, StartTarget, MintScopedToken, SyncSecret,
                      SyncFluxGitRepository, Rotate, SkipUnread, Report, At, Goto, Works
  <2>4. CASE StartCleanup \/ CleanupAccessRequest
    BY <1>1, <2>4 DEF StartCleanup, CleanupAccessRequest, At, Goto, Works
  <2>5. CASE CleanupGetFlux \/ CleanupDeleteFlux \/ CleanupGetSecret \/ CleanupDeleteSecret
    BY <1>1, <2>5 DEF CleanupGetFlux, CleanupDeleteFlux, CleanupGetSecret,
                      CleanupDeleteSecret, At, Goto, Works
  <2> QED
    BY <1>2, <2>1, <2>2, <2>3, <2>4, <2>5 DEF WorkerStep
<1>3. CASE Crash
  BY <1>3 DEF Crash, Return, Goto
<1>4. CASE Environment
  <2>1. PICK fresh : work' = [work EXCEPT !.fresh = fresh]
    BY <1>4, EnvironmentAside
  <2>2. UNCHANGED pc
    BY <1>4, EnvironmentAside DEF Aside
  <2> QED
    BY <1>1, <2>1, <2>2 DEF Works
<1> QED
  BY <1>2, <1>3, <1>4 DEF Next

\* Something of g appears where g can be found again: the AccessRequest comes first.
LEMMA LeftGrows ==
    ASSUME InductiveInv, PassInv, Next, NEW g \in GitRepos, NEW cp \in LeftBy(g)'
    PROVE  \/ cp \in LeftBy(g)
           \/ EnsureAccessRequest /\ work.repo = g /\ cp \in work.todo
<1>1. cp \in ControlPlanes /\ \/ access'[g][cp] # "none"
                              \/ secret'[cp][NameOf[g]].owner = g
                              \/ flux'[cp][NameOf[g]].owner = g
  BY DEF LeftBy, SecretOf, FluxOf
<1> SUFFICES ASSUME access[g][cp] = "none", secret[cp][NameOf[g]].owner # g,
                    flux[cp][NameOf[g]].owner # g
             PROVE  EnsureAccessRequest /\ work.repo = g /\ cp \in work.todo
  BY <1>1 DEF LeftBy, SecretOf, FluxOf
<1>2. ~(SyncSecret /\ work.repo = g /\ work.target = cp)
  BY <1>1 DEF SyncSecret, At, PassInv, AccessHeld, TargetReached, CleanupSteps
<1>3. ~(SyncFluxGitRepository /\ work.repo = g /\ work.target = cp)
  BY <1>1 DEF SyncFluxGitRepository, At, PassInv, AccessHeld, TargetReached, CleanupSteps
<1> QED
  BY <1>1, <1>2, <1>3, AccessCreator, SecretCreator, FluxCreator

LEMMA NextAstray ==
    ASSUME InductiveInv, InductiveInv', PassInv, ListInv, CleanupInv, AstrayInv, FixedTargets,
           [Next]_vars
    PROVE  AstrayInv'
<1> USE DEF AstrayInv
<1>1. CASE UNCHANGED vars
  BY <1>1 DEF vars, cluster, mcp, TargetsKnown, NothingAstray, LeftBy, SecretOf, FluxOf
<1>2. CASE Next
  <2>1. ASSUME NEW g \in GitRepos, repo'[g].exists
        PROVE  /\ repo'[g].spec \in SpecChoices
               /\ repo[g].exists => repo'[g].spec.names = repo[g].spec.names
    BY <1>2, <2>1, SpecWriters DEF SpecWritten, TargetsKnown, FixedTargets
  <2>2. ASSUME NEW g \in GitRepos, repo[g].finalizer, repo'[g].finalizer
        PROVE  repo'[g].spec.names = repo[g].spec.names
    BY <2>1, <2>2 DEF InductiveInv, TypeOK, ClusterTypeOK
  <2>3. TargetsKnown'
    <3> SUFFICES ASSUME pc' \notin {"idle", "adopt"}
                 PROVE  /\ work'.spec \in SpecChoices
                        /\ work'.spec.names = repo'[work'.repo].spec.names
      BY <2>1 DEF TargetsKnown
    <3>1. ASSUME NEW g \in GitRepos, Fetch(g)
          PROVE  /\ repo[g].exists /\ UNCHANGED repo
                 /\ work'.spec = repo[g].spec /\ work'.repo = g
      BY <3>1 DEF Fetch, cluster, NoWork
    <3>2. CASE \E g \in GitRepos : Fetch(g)
      BY <3>1, <3>2 DEF TargetsKnown
    <3>3. CASE /\ pc \notin {"idle", "adopt"}
               /\ work'.repo = work.repo /\ work'.spec = work.spec
      <4>1. work.repo \in GitRepos /\ repo[work.repo].finalizer /\ repo'[work.repo].finalizer
        BY <3>3 DEF InductiveInv, TypeOK, WorkerTypeOK, FetchedObject
      <4> QED
        BY <2>2, <3>3, <4>1 DEF TargetsKnown
    <3> QED
      BY <1>2, <3>2, <3>3, SpecInHand
  <2>4. NothingAstray'
    <3> SUFFICES ASSUME NEW g \in GitRepos, NEW cp \in LeftBy(g)'
                 PROVE  repo'[g].finalizer /\ cp \in repo'[g].spec.names
      BY DEF NothingAstray
    <3>1. CASE cp \in LeftBy(g)
      <4>1. repo[g].finalizer /\ cp \in repo[g].spec.names
        BY <3>1 DEF NothingAstray
      <4>2. repo'[g].finalizer
        BY <1>2, <3>1, <4>1, RemovalIsClean DEF CleanedTargets
      <4> QED
        BY <2>2, <4>1, <4>2
    <3>2. CASE EnsureAccessRequest /\ work.repo = g /\ cp \in work.todo
      <4>1. pc = "access" /\ UNCHANGED repo
        BY <3>2 DEF EnsureAccessRequest, At
      <4>2. repo[g].finalizer
        BY <3>2, <4>1 DEF InductiveInv, FetchedObject
      <4>3. ~work.spec.byLabel /\ work.spec.names = repo[g].spec.names
        BY <3>2, <4>1 DEF TargetsKnown, FixedTargets
      <4> QED
        BY <3>2, <4>1, <4>2, <4>3 DEF ListInv, EveryTargetListed
    <3> QED
      BY <1>2, <3>1, <3>2, LeftGrows
  <2> QED
    BY <2>3, <2>4
<1> QED
  BY <1>1, <1>2

LEMMA InitAstray == Init => AstrayInv
<1> SUFFICES ASSUME Init PROVE AstrayInv
  OBVIOUS
<1>1. /\ pc = "idle"
      /\ \A g \in GitRepos : ~repo[g].exists
      /\ \A g \in GitRepos, cp \in ControlPlanes :
            /\ access[g][cp] = "none"
            /\ SecretOf(g, cp) = NoSecret /\ FluxOf(g, cp) = NoFlux
  BY NamesAssumption DEF Init, NoRepo, SecretOf, FluxOf
<1>2. \A g \in GitRepos, cp \in ControlPlanes :
         SecretOf(g, cp).owner # g /\ FluxOf(g, cp).owner # g
  BY <1>1, OwnersAssumption DEF NoSecret, NoFlux
<1>3. \A g \in GitRepos : LeftBy(g) = {}
  BY <1>1, <1>2 DEF LeftBy
<1> QED
  BY <1>1, <1>3 DEF AstrayInv, TargetsKnown, NothingAstray

\* While the names of a spec never change and nothing is selected by label, nothing of a
\* GitRepository outlives it: no AccessRequest, no Secret, no Flux GitRepository, in no
\* ControlPlane (the finalizer, Resolve and reconcileDelete together).  The hypotheses
\* are needed: an edited name, a label, a crash or a failed call each leaves something.
THEOREM NothingIsLeft ==
    ASSUME MaxFaults = 0, MaxCrashes = 0, FixedTargets PROVE Spec => []DeletionIsClean
<1> DEFINE I == /\ InductiveInv /\ PassInv /\ ListInv /\ CleanupInv /\ AstrayInv
                /\ faults = 0 /\ crashes = 0
<1>1. Init => I
  BY InitInductive, InitPass, InitList, InitCleanup, InitAstray DEF Init
<1>2. I /\ [Next]_vars => I'
  BY NextInductive, NextPass, NextList, NextCleanup, NextAstray, NoFaultsStays,
     NoCrashesStays
<1>3. I => DeletionIsClean
  BY DEF DeletionIsClean, NothingAstray, AstrayInv, InductiveInv, TypeOK, ClusterTypeOK
<1> QED
  BY <1>1, <1>2, <1>3, PTL DEF Spec

=============================================================================
