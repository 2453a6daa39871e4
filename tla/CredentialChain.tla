--------------------------- MODULE CredentialChain ---------------------------
(***************************************************************************)
(* From a credential Secret to a token.  The GitHubInstance controller     *)
(* surveys the Secrets of an instance; the AppInstallation controller      *)
(* resolves one of them, asks GitHub whether the App is installed on an    *)
(* account, and publishes the installation's ID; the GitRepository         *)
(* controller reads that ID from the status, resolves the credentials once *)
(* more and has GitHub mint a token.  No two of these reads are atomic.    *)
(*                                                                         *)
(* Each controller has one worker; a step of it is one call to an API      *)
(* server or to GitHub.  One GitHubInstance, one AppInstallation that      *)
(* refers to it, and one token in one ControlPlane.                        *)
(***************************************************************************)
EXTENDS Naturals

CONSTANTS
    Accounts,     \* organizations and users on GitHub
    NoAccount,    \* neither or both of spec.org and spec.user are set
    Apps,         \* GitHub Apps
    SecretNames,  \* names of credential Secrets
    Unnamed,      \* the empty credentialName
    Setups,       \* the Secrets and AppInstallations there may be at first
    MaxId,        \* bound on the installations GitHub registers
    MaxEdits,     \* bound on edits by users, the platform owner and GitHub's users
    MaxFailures   \* bound on calls that fail and process crashes

ASSUME AccountsAssumption == NoAccount \notin Accounts
ASSUME SecretsAssumption == Unnamed \notin SecretNames
ASSUME AppsAssumption == {"unusable", "denied"} \cap Apps = {}
ASSUME SetupsAssumption ==
    Setups \subseteq [secret : SecretNames, app : Apps, account : Accounts]
ASSUME ChainBoundsAssumption == {MaxId, MaxEdits, MaxFailures} \subseteq Nat

VARIABLES
    refs,      \* spec.secretRefs of the GitHubInstance; {}: there is none
    ready,     \* its condition Ready
    vault,     \* the credential Secrets
    issued,    \* what GitHub registered under each installation ID
    live,      \* the IDs of installations that were not removed
    ai,        \* the AppInstallation
    survey,    \* the worker of the GitHubInstance controller
    check,     \* the worker of the AppInstallation controller
    mint,      \* the worker of the GitRepository controller
    token,     \* the account the last minted token is for
    edits, failures \* what is left of the bounds

github  == <<issued, live>>
workers == <<survey, check, mint>>
budgets == <<edits, failures>>
vars    == <<refs, ready, vault, github, ai, workers, token, budgets>>

-----------------------------------------------------------------------------
(* Objects.                                                                *)

\* "unusable": missing, or a key is missing or no number; "denied": GitHub does not
\* accept the key, or it is none; else the App it authenticates as.
Contents == Apps \cup {"unusable", "denied"}

Ids == 1 .. MaxId
Unissued == [app |-> "denied", account |-> NoAccount]
Installations == [app : Apps \cup {"denied"}, account : Accounts \cup {NoAccount}]

Readiness == {"Unset", "True", "False", "Unknown"}

\* The conditions AppInstalled and AccessVerified, installationID, and the account the
\* status was computed for, as the message of AppInstalled names it.
Statuses == [installed : Readiness, verified : {"Unset", "True", "False"},
             id : 0 .. MaxId, of : Accounts \cup {NoAccount}]
NoStatus == [installed |-> "Unset", verified |-> "Unset", id |-> 0, of |-> NoAccount]

Credentials == SecretNames \cup {Unnamed}
AppInstallations == [exists : BOOLEAN, account : Accounts \cup {NoAccount},
                     credential : Credentials, status : Statuses]
NoInstallation == [exists |-> FALSE, account |-> NoAccount, credential |-> Unnamed,
                   status |-> NoStatus]

-----------------------------------------------------------------------------
(* The workers' local state.                                               *)

\* todo: refs not yet read; old, new: Ready as fetched and as computed.
Surveys  == [step : {"idle", "secret", "patch"}, todo : SUBSET SecretNames,
             old : Readiness, new : Readiness]
NoSurvey == [step |-> "idle", todo |-> {}, old |-> "Unset", new |-> "Unset"]

\* credential: credentialName, then the name of the selected Secret; key: its content.
Checks  == [step : {"idle", "instance", "secret", "verify", "installation", "patch"},
            account : Accounts \cup {NoAccount}, credential : Credentials,
            key : Contents, old : Statuses, new : Statuses]
NoCheck == [step |-> "idle", account |-> NoAccount, credential |-> Unnamed,
            key |-> "unusable", old |-> NoStatus, new |-> NoStatus]

\* id, of: from the status of the AppInstallation that was fetched.
Mints  == [step : {"idle", "instance", "secret", "mint"}, id : 0 .. MaxId,
           of : Accounts \cup {NoAccount}, credential : Credentials, key : Contents]
NoMint == [step |-> "idle", id |-> 0, of |-> NoAccount, credential |-> Unnamed,
           key |-> "unusable"]

\* A platform with an instance of one Secret, and a user's AppInstallation for it.
Init ==
    /\ \E s \in Setups :
          /\ refs = {s.secret}
          /\ vault = [n \in SecretNames |-> IF n = s.secret THEN s.app ELSE "unusable"]
          /\ ai = [NoInstallation EXCEPT !.exists = TRUE, !.account = s.account]
    /\ ready = "Unset"
    /\ issued = [id \in Ids |-> Unissued] /\ live = {}
    /\ survey = NoSurvey /\ check = NoCheck /\ mint = NoMint
    /\ token = NoAccount
    /\ edits = MaxEdits /\ failures = MaxFailures

-----------------------------------------------------------------------------
(* Calls, and credentials.Resolve.                                         *)

Ok    == UNCHANGED budgets
Fault == failures > 0 /\ failures' = failures - 1 /\ UNCHANGED edits

\* SelectSecretRef: the named Secret, or the sole one: at most one of the list.
SelectSecretRef(list, name) == {n \in list : IF name = Unnamed THEN list = {n} ELSE n = name}

\* FromSecret accepts it.
WellFormed(content) == content # "unusable"

-----------------------------------------------------------------------------
(* The GitHubInstance controller.                                          *)

SurveyFetch ==
    /\ survey.step = "idle" /\ refs # {}
    /\ survey' = [step |-> "secret", todo |-> refs, old |-> ready, new |-> "True"]
    /\ UNCHANGED <<refs, ready, vault, github, ai, check, mint, token, budgets>>

\* The loop ends early.  Mutant: and the readiness is still what it was before the loop.
SurveyForgets(readiness) == survey' = [survey EXCEPT !.step = "patch", !.todo = {}]
SurveyEnds(readiness) ==
    survey' = [survey EXCEPT !.step = "patch", !.todo = {}, !.new = readiness]

\* The loop ends at the first Secret that is not there, not well-formed or not readable.
SurveySecret ==
    /\ survey.step = "secret"
    /\ \E n \in survey.todo :
          \/ /\ WellFormed(vault[n])
             /\ survey' = [survey EXCEPT !.todo = @ \ {n},
                               !.step = IF survey.todo = {n} THEN "patch" ELSE "secret"]
             /\ Ok
          \/ ~WellFormed(vault[n]) /\ SurveyEnds("False") /\ Ok
          \/ SurveyEnds("Unknown") /\ Fault
    /\ UNCHANGED <<refs, ready, vault, github, ai, check, mint, token>>

\* A patch has the difference to what was fetched, and no precondition.  What looks the
\* same may have another message.
Patched(current, old, new) == IF old = new THEN {current, new} ELSE {new}

SurveyPatch ==
    /\ survey.step = "patch"
    /\ \/ refs # {} /\ ready' \in Patched(ready, survey.old, survey.new) /\ Ok
       \/ refs = {} /\ UNCHANGED ready /\ Ok
       \/ UNCHANGED ready /\ Fault
    /\ survey' = NoSurvey
    /\ UNCHANGED <<refs, vault, github, ai, check, mint, token>>

-----------------------------------------------------------------------------
(* The AppInstallation controller.                                         *)

\* setBoth: the ID of an earlier check stays.  Mutant: the conditions become Unknown.
SetUnknown(status) == [status EXCEPT !.installed = "Unknown", !.verified = "Unknown"]
SetBoth(status)    == [status EXCEPT !.installed = "False", !.verified = "False"]

CheckFetch ==
    /\ check.step = "idle" /\ ai.exists
    /\ check' = [step |-> IF ai.account = NoAccount THEN "patch" ELSE "instance",
                 account |-> ai.account, credential |-> ai.credential, key |-> "unusable",
                 old |-> ai.status,
                 new |-> [SetBoth(ai.status) EXCEPT !.of = ai.account]]
    /\ UNCHANGED <<refs, ready, vault, github, ai, survey, mint, token, budgets>>

\* The check gives up: both conditions are False, as CheckFetch left them.
GiveUp == check' = [check EXCEPT !.step = "patch"]

CheckInstance ==
    /\ check.step = "instance"
    /\ LET selected == SelectSecretRef(refs, check.credential)
       IN  \/ \E n \in selected :
                 check' = [check EXCEPT !.step = "secret", !.credential = n] /\ Ok
           \/ selected = {} /\ GiveUp /\ Ok
           \/ GiveUp /\ Fault
    /\ UNCHANGED <<refs, ready, vault, github, ai, survey, mint, token>>

CheckSecret ==
    /\ check.step = "secret"
    /\ LET content == vault[check.credential]
       IN  \/ WellFormed(content) /\ check' = [check EXCEPT !.step = "verify", !.key = content] /\ Ok
           \/ ~WellFormed(content) /\ GiveUp /\ Ok
           \/ GiveUp /\ Fault
    /\ UNCHANGED <<refs, ready, vault, github, ai, survey, mint, token>>

\* NewClient and VerifyApp.
VerifyApp ==
    /\ check.step = "verify"
    /\ \/ check.key \in Apps /\ check' = [check EXCEPT !.step = "installation"] /\ Ok
       \/ check.key \notin Apps /\ GiveUp /\ Ok
       \/ GiveUp /\ Fault
    /\ UNCHANGED <<refs, ready, vault, github, ai, survey, mint, token>>

\* What GitHub answers: the installations of an App on an account.
InstallationsOf(app, account) ==
    {id \in live : issued[id] = [app |-> app, account |-> account]}

\* Mutant: an ID that is known is kept.
FoundFirst(id) == IF check.old.id = 0 THEN id ELSE check.old.id
Found(id)      == id

CheckInstallation ==
    /\ check.step = "installation"
    /\ LET Conclude(installed, id) ==
               check' = [check EXCEPT !.step = "patch", !.new.installed = installed,
                                      !.new.verified = "True", !.new.id = id]
           found == InstallationsOf(check.key, check.account)
       IN  \/ \E id \in found : Conclude("True", Found(id)) /\ Ok
           \/ found = {} /\ Conclude("False", 0) /\ Ok
           \/ Conclude("Unknown", check.old.id) /\ Fault
    /\ UNCHANGED <<refs, ready, vault, github, ai, survey, mint, token>>

\* The difference is taken of the ID and of the list of conditions.
Conditions(status) == [installed |-> status.installed, verified |-> status.verified]
StatusPatches ==
    {[installed |-> conditions.installed, verified |-> conditions.verified,
      id |-> IF check.old.id = check.new.id THEN ai.status.id ELSE check.new.id,
      of |-> check.new.of] :
        conditions \in Patched(Conditions(ai.status), Conditions(check.old), Conditions(check.new))}

CheckPatch ==
    /\ check.step = "patch"
    /\ \/ ai.exists /\ (\E status \in StatusPatches : ai' = [ai EXCEPT !.status = status]) /\ Ok
       \/ ~ai.exists /\ UNCHANGED ai /\ Ok
       \/ UNCHANGED ai /\ Fault
    /\ check' = NoCheck
    /\ UNCHANGED <<refs, ready, vault, github, survey, mint, token>>

-----------------------------------------------------------------------------
(* The GitRepository controller, when the token is due.                    *)

\* Mutants: a status with an ID will do; one that says installed will.
HasId(status)       == status.id # 0
IsInstalled(status) == status.installed = "True"
Usable(status)      == status.installed = "True" /\ status.id # 0

\* resolveCredential.
MintFetch ==
    /\ mint.step = "idle"
    /\ ai.exists /\ Usable(ai.status)
    /\ mint' = [NoMint EXCEPT !.step = "instance", !.id = ai.status.id, !.of = ai.status.of]
    /\ UNCHANGED <<refs, ready, vault, github, ai, survey, check, token, budgets>>

MintEnds == mint' = NoMint

\* resolveGitHubCreds: credentialName is not passed on.
MintInstance ==
    /\ mint.step = "instance"
    /\ LET selected == SelectSecretRef(refs, Unnamed)
       IN  \/ \E n \in selected : mint' = [mint EXCEPT !.step = "secret", !.credential = n] /\ Ok
           \/ selected = {} /\ MintEnds /\ Ok
           \/ MintEnds /\ Fault
    /\ UNCHANGED <<refs, ready, vault, github, ai, survey, check, token>>

MintSecret ==
    /\ mint.step = "secret"
    /\ LET content == vault[mint.credential]
       IN  \/ WellFormed(content) /\ mint' = [mint EXCEPT !.step = "mint", !.key = content] /\ Ok
           \/ ~WellFormed(content) /\ MintEnds /\ Ok
           \/ MintEnds /\ Fault
    /\ UNCHANGED <<refs, ready, vault, github, ai, survey, check, token>>

\* GitHub mints for an installation of the App that asks, and for no other.
MintScopedToken ==
    /\ mint.step = "mint"
    /\ LET Granted == mint.id \in live /\ issued[mint.id].app = mint.key
       IN  \/ Granted /\ token' = issued[mint.id].account /\ Ok
           \/ ~Granted /\ UNCHANGED token /\ Ok
           \/ UNCHANGED token /\ Fault
    /\ MintEnds
    /\ UNCHANGED <<refs, ready, vault, github, ai, survey, check>>

\* The process dies.
Crash ==
    /\ survey' = NoSurvey /\ check' = NoCheck /\ mint' = NoMint
    /\ Fault
    /\ UNCHANGED <<refs, ready, vault, github, ai, token>>

-----------------------------------------------------------------------------
(* The environment: the platform owner, users, and users of GitHub.        *)

Edit == edits > 0 /\ edits' = edits - 1 /\ UNCHANGED failures

\* The status goes with a deleted instance.
EditInstance(list) ==
    /\ list # refs
    /\ refs' = list
    /\ ready' = IF list = {} THEN "Unset" ELSE ready
    /\ IF refs = {} THEN Ok ELSE Edit
    /\ UNCHANGED <<vault, github, ai, workers, token>>

WriteSecret(n, content) ==
    /\ content # vault[n]
    /\ vault' = [vault EXCEPT ![n] = content]
    /\ Edit
    /\ UNCHANGED <<refs, ready, github, ai, workers, token>>

CreateInstallation(account, credential) ==
    /\ ~ai.exists
    /\ ai' = [exists |-> TRUE, account |-> account, credential |-> credential,
              status |-> NoStatus]
    /\ UNCHANGED <<refs, ready, vault, github, workers, token, budgets>>

EditInstallation(account, credential) ==
    /\ ai.exists
    /\ ai' = [ai EXCEPT !.account = account, !.credential = credential]
    /\ Edit
    /\ UNCHANGED <<refs, ready, vault, github, workers, token>>

DeleteInstallation ==
    /\ ai.exists
    /\ ai' = NoInstallation
    /\ Edit
    /\ UNCHANGED <<refs, ready, vault, github, workers, token>>

\* A new installation gets an ID that no other had.
Install(id, app, account) ==
    /\ issued[id] = Unissued
    /\ InstallationsOf(app, account) = {}
    /\ issued' = [issued EXCEPT ![id] = [app |-> app, account |-> account]]
    /\ live' = live \cup {id}
    /\ UNCHANGED <<refs, ready, vault, ai, workers, token, budgets>>

Uninstall(id) ==
    /\ id \in live
    /\ live' = live \ {id}
    /\ Edit
    /\ UNCHANGED <<refs, ready, vault, issued, ai, workers, token>>

-----------------------------------------------------------------------------
(* The specification.                                                      *)

SurveyStep == SurveyFetch \/ SurveySecret \/ SurveyPatch
CheckStep  == CheckFetch \/ CheckInstance \/ CheckSecret \/ VerifyApp \/ CheckInstallation
              \/ CheckPatch
MintStep   == MintFetch \/ MintInstance \/ MintSecret \/ MintScopedToken

Environment ==
    \/ \E list \in SUBSET SecretNames : EditInstance(list)
    \/ \E n \in SecretNames, content \in Contents : WriteSecret(n, content)
    \/ \E account \in Accounts \cup {NoAccount}, credential \in Credentials :
          CreateInstallation(account, credential) \/ EditInstallation(account, credential)
    \/ DeleteInstallation
    \/ \E id \in Ids :
          \/ \E app \in Apps, account \in Accounts : Install(id, app, account)
          \/ Uninstall(id)

Next == SurveyStep \/ CheckStep \/ MintStep \/ Crash \/ Environment

Spec == Init /\ [][Next]_vars

\* Both checking controllers ask to be called again after every pass that reached the
\* status patch or failed there, and a token comes due again and again.
Fairness == WF_vars(SurveyStep) /\ WF_vars(CheckStep) /\ WF_vars(MintStep)

FairSpec == Spec /\ Fairness

-----------------------------------------------------------------------------
(* Properties.                                                             *)

\* Every variable has its type, GitHub registered what is live, and the Secret that a
\* worker reads was selected.
TypeOK ==
    /\ refs \subseteq SecretNames /\ ready \in Readiness
    /\ vault \in [SecretNames -> Contents]
    /\ issued \in [Ids -> Installations] /\ live \subseteq {id \in Ids : issued[id] # Unissued}
    /\ ai \in AppInstallations
    /\ survey \in Surveys /\ check \in Checks /\ mint \in Mints
    /\ check.step = "secret" => check.credential \in SecretNames
    /\ mint.step = "secret" => mint.credential \in SecretNames
    /\ token \in Accounts \cup {NoAccount}
    /\ edits \in Nat /\ failures \in Nat

\* An AppInstallation that a GitRepository may use has the ID of an installation on the
\* account it was checked for: not that of an earlier check of another account, which
\* stays in the status while checks fail, and not half of the status of an object of
\* the same name that was deleted during the check.
Registered(id, account) == id \in Ids /\ issued[id] # Unissued /\ issued[id].account = account
InstalledWasFound == Usable(ai.status) => Registered(ai.status.id, ai.status.of)

\* Whatever changes between the two passes and within each, a token is for the account
\* that the AppInstallation was checked for, or none is minted.
MintsForObserved == [][token' # token => token' = mint.of]_vars

\* What a check finds when nothing changes.
ExpectedStatus ==
    LET keys == {vault[n] : n \in SelectSecretRef(refs, ai.credential)}
        found == UNION {InstallationsOf(key, ai.account) : key \in keys}
    IN  IF ai.account = NoAccount \/ keys \cap Apps = {} THEN <<"False", "False">>
        ELSE IF found = {} THEN <<"False", "True">> ELSE <<"True", "True">>

\* In the end the conditions are true: Ready of what the Secrets hold, AppInstalled and
\* AccessVerified of what GitHub answers, with the ID of a living installation.
StatusesBecomeTrue ==
    <>[](/\ refs # {} => ready = IF \A n \in refs : WellFormed(vault[n]) THEN "True" ELSE "False"
         /\ ai.exists =>
               /\ <<ai.status.installed, ai.status.verified>> = ExpectedStatus
               /\ ai.status.of = ai.account
               /\ ai.status.installed = "True" => ai.status.id \in live)

\* An AppInstallation for whose account the App is installed, with an instance that
\* lists exactly one Secret, in the end has a token for that account, although the ID
\* and the credentials are read at different times and the status may be of an earlier
\* spec.  With two Secrets there is none: credentialName is dropped when minting.
Serviceable ==
    /\ ai.exists /\ ExpectedStatus = <<"True", "True">>
    /\ SelectSecretRef(refs, Unnamed) # {}
TokenFollowsSpec == <>[](Serviceable => token = ai.account)

-----------------------------------------------------------------------------
(* Why the right installation is used: an inductive invariant.             *)

\* During a check nobody else writes the status, but the object may be another one.
FetchedStatus == check.step # "idle" => ai.status \in {check.old, NoStatus}

\* What a check found is registered for the account that it asked for.
ComputedStatus ==
    /\ check.step # "idle" => check.new.of = check.account
    /\ check.new.installed = "True" => Registered(check.new.id, check.new.of)

\* A pass of the GitRepository controller goes on with the ID and the account of one
\* status, and GitHub never gives the ID to another.
MintingKnown == mint.step # "idle" => Registered(mint.id, mint.of)

\* From the answer of GitHub to the token the ID and the account stay together.
ChainInv == TypeOK /\ InstalledWasFound /\ FetchedStatus /\ ComputedStatus /\ MintingKnown

=============================================================================
