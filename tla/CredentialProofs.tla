-------------------------- MODULE CredentialProofs --------------------------
(***************************************************************************)
(* The chain from a check to a token, for every set of accounts, Apps and  *)
(* Secrets, every environment and every bound.                             *)
(***************************************************************************)
EXTENDS CredentialChain, TLAPS

-----------------------------------------------------------------------------
(* Types of what the helpers return.                                       *)

\* The idle workers are of their types.
LEMMA IdleTypes == NoSurvey \in Surveys /\ NoCheck \in Checks /\ NoMint \in Mints
BY ChainBoundsAssumption DEF NoSurvey, Surveys, NoCheck, Checks, NoMint, Mints, NoStatus,
   Statuses, Readiness, Credentials, Contents

\* So is the status of a new object.
LEMMA NoStatusType == NoStatus \in Statuses /\ NoInstallation \in AppInstallations
BY ChainBoundsAssumption DEF NoStatus, NoInstallation, AppInstallations, Statuses, Readiness,
   Credentials

\* A call, failed or not, and an edit leave the budgets natural numbers.
LEMMA BudgetTypes ==
    ASSUME edits \in Nat, failures \in Nat, Ok \/ Fault \/ Edit
    PROVE  edits' \in Nat /\ failures' \in Nat
BY DEF Ok, Fault, Edit, budgets

\* A selected Secret is one of the list.
LEMMA SelectedIsListed == \A list, name : SelectSecretRef(list, name) \subseteq list
BY DEF SelectSecretRef

\* What a patch may leave: nothing but what it was and what was computed.
LEMMA PatchedValues == \A current, old, new : Patched(current, old, new) \subseteq {current, new}
BY DEF Patched

\* Of the status that a patch leaves: its type, and where its parts come from.
LEMMA StatusPatched ==
    ASSUME TypeOK, NEW status \in StatusPatches
    PROVE  /\ status \in Statuses /\ status.of = check.new.of
           /\ status.installed \in {ai.status.installed, check.new.installed}
           /\ status.id \in {ai.status.id, check.new.id}
           /\ ai.status = check.old =>
                 status.installed = check.new.installed /\ status.id = check.new.id
<1>1. check.new \in Statuses /\ check.old \in Statuses /\ ai.status \in Statuses
  BY DEF TypeOK, Checks, AppInstallations
<1>2. PICK conditions \in Patched(Conditions(ai.status), Conditions(check.old),
                                  Conditions(check.new)) :
        status = [installed |-> conditions.installed, verified |-> conditions.verified,
                  id |-> IF check.old.id = check.new.id THEN ai.status.id ELSE check.new.id,
                  of |-> check.new.of]
  BY DEF StatusPatches
<1>3. conditions \in {Conditions(ai.status), Conditions(check.new)}
  BY PatchedValues
<1>4. conditions.installed \in {ai.status.installed, check.new.installed}
      /\ conditions.verified \in {ai.status.verified, check.new.verified}
  BY <1>3 DEF Conditions
<1>5. ASSUME ai.status = check.old PROVE conditions.installed = check.new.installed
  BY <1>5, <1>2, <1>3 DEF Conditions, Patched
<1> QED
  BY <1>1, <1>2, <1>4, <1>5 DEF Statuses

-----------------------------------------------------------------------------
(* The inductive invariant.                                                *)

\* It holds initially.
LEMMA InitChain == Init => ChainInv
<1> SUFFICES ASSUME Init PROVE ChainInv
  OBVIOUS
<1> USE DEF Init
<1>1. refs \subseteq SecretNames /\ vault \in [SecretNames -> Contents]
  BY SetupsAssumption DEF Contents
<1>2. ai \in AppInstallations /\ ai.status = NoStatus
  BY SetupsAssumption, NoStatusType DEF AppInstallations, NoInstallation
<1>3. issued \in [Ids -> Installations] /\ live \subseteq {id \in Ids : issued[id] # Unissued}
  BY DEF Installations, Unissued
<1>4. TypeOK
  BY <1>1, <1>2, <1>3, IdleTypes, ChainBoundsAssumption DEF TypeOK, Readiness, NoCheck, NoMint
<1>5. InstalledWasFound /\ FetchedStatus /\ ComputedStatus /\ MintingKnown
  BY <1>2 DEF InstalledWasFound, FetchedStatus, ComputedStatus, MintingKnown, Usable,
     NoStatus, NoCheck, NoMint
<1> QED
  BY <1>4, <1>5 DEF ChainInv

\* The GitHubInstance controller touches only what is its own.
LEMMA SurveyKeeps == ASSUME ChainInv, SurveyStep PROVE ChainInv'
<1> USE DEF ChainInv
<1>1. UNCHANGED <<refs, vault, github, ai, check, mint, token>>
  BY DEF SurveyStep, SurveyFetch, SurveySecret, SurveyPatch
<1>2. edits' \in Nat /\ failures' \in Nat
  BY BudgetTypes DEF SurveyStep, SurveyFetch, SurveySecret, SurveyPatch, TypeOK, budgets
<1>3. survey' \in Surveys /\ ready' \in Readiness
  <2> USE DEF TypeOK
  <2>1. CASE SurveyFetch
    BY <2>1 DEF SurveyFetch, Surveys, Readiness
  <2>2. CASE SurveySecret
    BY <2>2 DEF SurveySecret, SurveyEnds, Surveys, Readiness
  <2>3. CASE SurveyPatch
    BY <2>3, IdleTypes, PatchedValues DEF SurveyPatch, Surveys
  <2> QED
    BY <2>1, <2>2, <2>3 DEF SurveyStep
<1>4. TypeOK'
  BY <1>1, <1>2, <1>3 DEF TypeOK, github
<1>5. InstalledWasFound' /\ FetchedStatus' /\ ComputedStatus' /\ MintingKnown'
  BY <1>1 DEF InstalledWasFound, FetchedStatus, ComputedStatus, MintingKnown, Registered,
     github
<1> QED
  BY <1>4, <1>5

\* A call of a check brings it nearer to its patch, with what GitHub registered.
LEMMA CheckGoesOn ==
    ASSUME ChainInv,
           \/ CheckFetch \/ CheckInstance \/ CheckSecret \/ VerifyApp \/ CheckInstallation
    PROVE  ChainInv'
<1> USE DEF ChainInv
<1>1. UNCHANGED <<refs, ready, vault, github, ai, survey, mint, token>>
  BY DEF CheckFetch, CheckInstance, CheckSecret, VerifyApp, CheckInstallation
<1>2. edits' \in Nat /\ failures' \in Nat
  BY BudgetTypes DEF CheckFetch, CheckInstance, CheckSecret, VerifyApp, CheckInstallation,
     TypeOK, budgets
<1>3. ASSUME check' \in Checks, check'.step = "secret" => check'.credential \in SecretNames,
             FetchedStatus', ComputedStatus'
      PROVE  ChainInv'
  BY <1>1, <1>2, <1>3 DEF TypeOK, InstalledWasFound, MintingKnown, Registered, github
<1>4. CASE CheckFetch
  <2>1. check' = [step |-> IF ai.account = NoAccount THEN "patch" ELSE "instance",
                  account |-> ai.account, credential |-> ai.credential, key |-> "unusable",
                  old |-> ai.status, new |-> [SetBoth(ai.status) EXCEPT !.of = ai.account]]
    BY <1>4 DEF CheckFetch
  <2>2. ai.status \in Statuses /\ ai.account \in Accounts \cup {NoAccount}
        /\ ai.credential \in Credentials
    BY DEF TypeOK, AppInstallations
  <2>3. /\ [SetBoth(ai.status) EXCEPT !.of = ai.account] \in Statuses
        /\ [SetBoth(ai.status) EXCEPT !.of = ai.account].of = ai.account
        /\ [SetBoth(ai.status) EXCEPT !.of = ai.account].installed = "False"
    BY <2>2 DEF SetBoth, Statuses, Readiness
  <2>4. check' \in Checks
    BY <2>1, <2>2, <2>3 DEF Checks, Contents
  <2> QED
    BY <1>1, <1>3, <2>1, <2>3, <2>4 DEF FetchedStatus, ComputedStatus
<1>5. ASSUME check' \in Checks, check'.old = check.old, check'.new = check.new,
             check'.account = check.account, check.step # "idle",
             check'.step = "secret" => check'.credential \in SecretNames
      PROVE  ChainInv'
  BY <1>1, <1>3, <1>5 DEF FetchedStatus, ComputedStatus, Registered, github
<1>6. CASE CheckInstance
  BY <1>5, <1>6, SelectedIsListed DEF CheckInstance, GiveUp, Checks, Credentials, TypeOK
<1>7. CASE CheckSecret
  <2>1. vault[check.credential] \in Contents
    BY <1>7 DEF CheckSecret, TypeOK
  <2> QED
    BY <1>5, <1>7, <2>1 DEF CheckSecret, GiveUp, Checks, TypeOK
<1>8. CASE VerifyApp
  BY <1>5, <1>8 DEF VerifyApp, GiveUp, Checks, TypeOK
<1>9. CASE CheckInstallation
  <2>1. PICK installed \in {"True", "False", "Unknown"}, id \in 0 .. MaxId :
          /\ check' = [check EXCEPT !.step = "patch", !.new.installed = installed,
                                    !.new.verified = "True", !.new.id = id]
          /\ installed = "True" =>
                /\ id \in Ids /\ issued[id] # Unissued
                /\ issued[id] = [app |-> check.key, account |-> check.account]
    <3>1. live \subseteq {i \in Ids : issued[i] # Unissued} /\ Ids \subseteq 0 .. MaxId /\ 0 \in 0 .. MaxId
          /\ check.old.id \in 0 .. MaxId
      BY ChainBoundsAssumption DEF TypeOK, Ids, Checks, Statuses
    <3> QED
      BY <1>9, <3>1 DEF CheckInstallation, InstallationsOf, Found
  <2>2. check \in Checks /\ check.new \in Statuses /\ check.step # "idle"
    BY <1>9 DEF TypeOK, Checks, CheckInstallation
  <2>3. /\ check' \in Checks /\ check'.step = "patch" /\ check'.old = check.old /\ check'.account = check.account
        /\ check'.new.installed = installed /\ check'.new.id = id
        /\ check'.new.of = check.new.of
    BY <2>1, <2>2 DEF Checks, Statuses, Readiness
  <2>4. FetchedStatus'
    BY <1>1, <2>2, <2>3 DEF FetchedStatus
  <2>5. ComputedStatus'
    BY <1>1, <2>1, <2>2, <2>3 DEF ComputedStatus, Registered, github
  <2> QED
    BY <1>3, <2>3, <2>4, <2>5
<1> QED
  BY <1>4, <1>6, <1>7, <1>8, <1>9

\* The patch makes of the fetched status the computed one; on another object of the name
\* a part of it may be missing, and then the status is not usable.
LEMMA PatchKeeps == ASSUME ChainInv, CheckPatch PROVE ChainInv'
<1> USE DEF ChainInv
<1>1. UNCHANGED <<refs, ready, vault, github, survey, mint, token>> /\ check' = NoCheck
  BY DEF CheckPatch
<1>2. edits' \in Nat /\ failures' \in Nat
  BY BudgetTypes DEF CheckPatch, TypeOK, budgets
<1>3. FetchedStatus' /\ ComputedStatus' /\ MintingKnown'
  BY <1>1 DEF FetchedStatus, ComputedStatus, MintingKnown, Registered, NoCheck, NoStatus,
     github
<1>4. CASE ai' = ai
  BY <1>1, <1>2, <1>3, <1>4, IdleTypes DEF TypeOK, InstalledWasFound, Registered, NoCheck,
     github
<1>5. ASSUME NEW status \in StatusPatches, ai' = [ai EXCEPT !.status = status]
      PROVE  ChainInv'
  <2>1. status \in Statuses /\ ai \in AppInstallations
    BY StatusPatched DEF TypeOK
  <2>2. ai' \in AppInstallations /\ ai'.status = status
    BY <1>5, <2>1 DEF AppInstallations
  <2>3. ASSUME Usable(status) PROVE Registered(status.id, status.of)
    <3>1. check.step = "patch" /\ ai.status \in {check.old, NoStatus}
      BY DEF CheckPatch, FetchedStatus
    <3>2. status.installed = check.new.installed /\ status.id = check.new.id
      BY <2>3, <3>1, StatusPatched DEF NoStatus, Usable
    <3> QED
      BY <2>3, <3>2, StatusPatched DEF Usable, ComputedStatus, Registered
  <2> QED
    BY <1>1, <1>2, <1>3, <2>2, <2>3, IdleTypes DEF TypeOK, InstalledWasFound, Usable,
       Registered, NoCheck, github
<1> QED
  BY <1>4, <1>5 DEF CheckPatch

\* A pass of the GitRepository controller keeps the ID it started with.
LEMMA MintKeeps == ASSUME ChainInv, MintStep PROVE ChainInv'
<1> USE DEF ChainInv
<1>1. UNCHANGED <<refs, ready, vault, github, ai, survey, check>>
  BY DEF MintStep, MintFetch, MintInstance, MintSecret, MintScopedToken
<1>2. edits' \in Nat /\ failures' \in Nat
  BY BudgetTypes DEF MintStep, MintFetch, MintInstance, MintSecret, MintScopedToken, TypeOK,
     budgets
<1>3. /\ mint' \in Mints /\ MintingKnown'
      /\ mint'.step = "secret" => mint'.credential \in SecretNames
  <2>1. CASE MintFetch
    <3>1. ai.status \in Statuses /\ Registered(ai.status.id, ai.status.of)
      BY <2>1 DEF MintFetch, TypeOK, AppInstallations, InstalledWasFound
    <3>2. mint' = [NoMint EXCEPT !.step = "instance", !.id = ai.status.id, !.of = ai.status.of]
      BY <2>1 DEF MintFetch
    <3> QED
      BY <1>1, <3>1, <3>2, IdleTypes DEF Mints, Statuses, MintingKnown, Registered, github
  <2>2. CASE MintInstance
    BY <1>1, <2>2, IdleTypes, SelectedIsListed DEF MintInstance, MintEnds, Mints, Credentials,
       MintingKnown, Registered, NoMint, TypeOK, github
  <2>3. CASE MintSecret
    <3>1. vault[mint.credential] \in Contents
      BY <2>3 DEF MintSecret, TypeOK
    <3> QED
      BY <1>1, <2>3, <3>1, IdleTypes DEF MintSecret, MintEnds, Mints, MintingKnown,
         Registered, NoMint, TypeOK, github
  <2>4. CASE MintScopedToken
    BY <1>1, <2>4, IdleTypes DEF MintScopedToken, MintEnds, MintingKnown, NoMint
  <2> QED
    BY <2>1, <2>2, <2>3, <2>4 DEF MintStep
<1>4. token' \in Accounts \cup {NoAccount}
  BY DEF MintStep, MintFetch, MintInstance, MintSecret, MintScopedToken, TypeOK, MintingKnown,
     Registered, Installations
<1>5. TypeOK'
  BY <1>1, <1>2, <1>3, <1>4 DEF TypeOK, github
<1> QED
  BY <1>1, <1>3, <1>5 DEF InstalledWasFound, FetchedStatus, ComputedStatus, Registered, github

\* Nothing of a check or a pass outlives the process.
LEMMA CrashKeeps == ASSUME ChainInv, Crash PROVE ChainInv'
<1> USE DEF ChainInv
<1>1. /\ UNCHANGED <<refs, ready, vault, github, ai, token>>
      /\ survey' = NoSurvey /\ check' = NoCheck /\ mint' = NoMint
      /\ edits' \in Nat /\ failures' \in Nat
  BY BudgetTypes DEF Crash, TypeOK
<1>2. TypeOK'
  BY <1>1, IdleTypes DEF TypeOK, NoCheck, NoMint, github
<1>3. InstalledWasFound' /\ FetchedStatus' /\ ComputedStatus' /\ MintingKnown'
  BY <1>1 DEF InstalledWasFound, FetchedStatus, ComputedStatus, MintingKnown, Registered,
     NoCheck, NoMint, NoStatus, github
<1> QED
  BY <1>2, <1>3

\* Users may change an object under a check; GitHub's registry only grows.
LEMMA EnvironmentKeeps == ASSUME ChainInv, Environment PROVE ChainInv'
<1> USE DEF ChainInv
<1>1. ASSUME NEW list \in SUBSET SecretNames, EditInstance(list) PROVE ChainInv'
  <2>1. TypeOK'
    BY <1>1, BudgetTypes DEF EditInstance, TypeOK, Readiness, workers, github
  <2> QED
    BY <1>1, <2>1 DEF EditInstance, InstalledWasFound, FetchedStatus, ComputedStatus,
       MintingKnown, Registered, workers, github
<1>2. ASSUME NEW n \in SecretNames, NEW content \in Contents, WriteSecret(n, content)
      PROVE  ChainInv'
  <2>1. TypeOK'
    BY <1>2, BudgetTypes DEF WriteSecret, TypeOK, workers, github
  <2> QED
    BY <1>2, <2>1 DEF WriteSecret, InstalledWasFound, FetchedStatus, ComputedStatus,
       MintingKnown, Registered, workers, github
<1>3. ASSUME UNCHANGED <<refs, ready, vault, github, workers, token>>, Ok \/ Edit,
             ai' \in AppInstallations, ai'.status \in {ai.status, NoStatus}
      PROVE  ChainInv'
  <2>1. TypeOK'
    BY <1>3, BudgetTypes DEF TypeOK, workers, github
  <2> QED
    BY <1>3, <2>1 DEF InstalledWasFound, FetchedStatus, ComputedStatus, MintingKnown,
       Registered, Usable, NoStatus, workers, github
<1>4. ASSUME NEW account \in Accounts \cup {NoAccount}, NEW credential \in Credentials,
             CreateInstallation(account, credential) \/ EditInstallation(account, credential)
      PROVE  ChainInv'
  <2>1. ai' \in AppInstallations /\ ai'.status \in {ai.status, NoStatus}
    <3>1. ai \in AppInstallations
      BY DEF TypeOK
    <3>2. CASE CreateInstallation(account, credential)
      BY <3>2, NoStatusType DEF CreateInstallation, AppInstallations
    <3>3. CASE EditInstallation(account, credential)
      BY <3>1, <3>3 DEF EditInstallation, AppInstallations
    <3> QED
      BY <1>4, <3>2, <3>3
  <2>2. UNCHANGED <<refs, ready, vault, github, workers, token>>
    BY <1>4 DEF CreateInstallation, EditInstallation
  <2>3. Ok \/ Edit
    BY <1>4 DEF CreateInstallation, EditInstallation, Ok
  <2> QED
    BY <1>3, <2>1, <2>2, <2>3
<1>5. CASE DeleteInstallation
  BY <1>3, <1>5, NoStatusType DEF DeleteInstallation, NoInstallation
<1>6. ASSUME NEW id \in Ids, NEW app \in Apps, NEW account \in Accounts,
             Install(id, app, account)
      PROVE  ChainInv'
  <2>1. /\ UNCHANGED <<refs, ready, vault, ai, workers, token, budgets>>
        /\ issued' = [issued EXCEPT ![id] = [app |-> app, account |-> account]]
        /\ live' = live \cup {id} /\ issued[id] = Unissued
    BY <1>6 DEF Install
  <2>2. issued' \in [Ids -> Installations] /\ issued'[id] = [app |-> app, account |-> account]
        /\ \A i \in Ids \ {id} : issued'[i] = issued[i]
    BY <2>1 DEF TypeOK, Installations
  <2>3. issued'[id] # Unissued
    BY <2>2, AccountsAssumption DEF Unissued
  <2>4. TypeOK'
    BY <2>1, <2>2, <2>3 DEF TypeOK, workers, budgets
  <2>5. ASSUME NEW i, NEW a, Registered(i, a)
        PROVE  i \in Ids /\ issued'[i] # Unissued /\ issued'[i].account = a
    BY <2>1, <2>2, <2>5 DEF Registered
  <2> QED
    BY <2>1, <2>4, <2>5 DEF InstalledWasFound, FetchedStatus, ComputedStatus, MintingKnown,
       Registered, workers
<1>7. ASSUME NEW id \in Ids, Uninstall(id) PROVE ChainInv'
  <2>1. TypeOK'
    BY <1>7, BudgetTypes DEF Uninstall, TypeOK, workers
  <2> QED
    BY <1>7, <2>1 DEF Uninstall, InstalledWasFound, FetchedStatus, ComputedStatus,
       MintingKnown, Registered, workers
<1> QED
  BY <1>1, <1>2, <1>4, <1>5, <1>6, <1>7 DEF Environment

\* Every step keeps it.
LEMMA NextChain == ASSUME ChainInv, [Next]_vars PROVE ChainInv'
<1>1. CASE UNCHANGED vars
  BY <1>1 DEF vars, github, workers, budgets, ChainInv, TypeOK, InstalledWasFound,
     FetchedStatus, ComputedStatus, MintingKnown, Registered
<1>2. CASE CheckStep
  BY <1>2, CheckGoesOn, PatchKeeps DEF CheckStep
<1> QED
  BY <1>1, <1>2, SurveyKeeps, MintKeeps, CrashKeeps, EnvironmentKeeps DEF Next

-----------------------------------------------------------------------------
(* The theorems.                                                           *)

\* The inductive invariant holds in every reachable state.
THEOREM ChainInvariant == Spec => []ChainInv
BY InitChain, NextChain, PTL DEF Spec

\* Every variable has its type.
THEOREM ChainTypes == Spec => []TypeOK
<1>1. ChainInv => TypeOK
  BY DEF ChainInv
<1> QED
  BY <1>1, ChainInvariant, PTL

\* An AppInstallation that a GitRepository may use names an installation on the account
\* that the check was for, whatever fails, changes or is created anew during checks.
THEOREM UsableInstallations == Spec => []InstalledWasFound
<1>1. ChainInv => InstalledWasFound
  BY DEF ChainInv
<1> QED
  BY <1>1, ChainInvariant, PTL

\* A token is minted for the account the AppInstallation was checked for, or not at all.
THEOREM TokensForObserved == Spec => MintsForObserved
<1>1. ASSUME ChainInv, [Next]_vars PROVE [token' # token => token' = mint.of]_vars
  <2>1. SUFFICES ASSUME token' # token PROVE token' = mint.of
    OBVIOUS
  <2>2. MintScopedToken
    BY <1>1, <2>1 DEF Next, SurveyStep, SurveyFetch, SurveySecret, SurveyPatch, CheckStep,
       CheckFetch, CheckInstance, CheckSecret, VerifyApp, CheckInstallation, CheckPatch,
       MintStep, MintFetch, MintInstance, MintSecret, Crash, Environment, EditInstance,
       WriteSecret, CreateInstallation, EditInstallation, DeleteInstallation, Install,
       Uninstall, vars
  <2> QED
    BY <1>1, <2>1, <2>2 DEF MintScopedToken, ChainInv, MintingKnown, Registered
<1> QED
  BY <1>1, ChainInvariant, PTL DEF Spec, MintsForObserved

=============================================================================
