--------------------------- MODULE TokenRotation ---------------------------
(***************************************************************************)
(* Token rotation over time: when the GitRepository controller looks at an *)
(* object again, and what that means for the tokens in its ControlPlanes.  *)
(*                                                                         *)
(* One GitRepository with the targets 1..N, in the order Resolve returns   *)
(* them, and the AppInstallation it uses.  A pass of either controller is  *)
(* one step and takes no time (GitRepositoryController has its            *)
(* interleavings); only Tick does, and only when the work queue has        *)
(* nothing that is due.  The App stays installed, and nobody but the       *)
(* controller touches the Secrets.                                         *)
(***************************************************************************)
EXTENDS Integers

CONSTANTS
    N,           \* number of targets
    Lifetime,    \* how long a token lives, in ticks
    RenewBuffer, \* --token-renew-buffer
    Interval,    \* controllerconst.RequeueInterval
    MaxOutage,   \* bound on how long calls keep failing, in ticks
    Obstacles    \* which of AllObstacles get into the way in this instance

\* "denial": the provider denies an AccessRequest; "secrets": the GitHubInstance lists
\* a second Secret, and the AppInstallation says which one it means.
AllObstacles == {"denial", "secrets"}

ASSUME TimesAssumption ==
    /\ {N, Lifetime, RenewBuffer, Interval, MaxOutage} \subseteq Nat
    /\ 0 < Interval /\ RenewBuffer + Interval < Lifetime
ASSUME ObstaclesAssumption == Obstacles \subseteq AllObstacles

Targets == 1 .. N
NoToken == -1      \* there is no Secret in the ControlPlane
NoDeadline == -1   \* PropagateStatus.TokenExpiresAt is nil

VARIABLES
    granted,   \* targets whose AccessRequest is granted
    denied,    \* targets whose AccessRequest is denied
    crowded,   \* the GitHubInstance lists several Secrets
    token,     \* per target, ticks until the token in the Secret expires; 0: expired
    status,    \* status.propagated: phase, and whether TokenExpiresAt is set
    resolved,  \* the condition CredentialResolved, as published
    event,     \* a watch event has queued the GitRepository
    alarm,     \* ticks until its delayed requeue
    ready,     \* the AppInstallation is ready
    recheck,   \* ticks until the AppInstallation's delayed requeue
    down,      \* calls to GitHub and to API servers may fail
    left,      \* ticks an outage may go on, or until the next one may begin
    waited     \* per target, ticks since the grant without a Secret

world == <<granted, denied, crowded>>    \* what no pass changes
vars  == <<world, token, status, resolved, event, alarm, ready, recheck, down, left, waited>>

Phases   == {"NoEntry", "Pending", "Ready", "TokenFailed", "Conflict"}
MaxAlarm == Lifetime    \* more than any requeue: no alarm
MaxWait  == 2 * Interval + MaxOutage

MinOf(a, b) == IF a < b THEN a ELSE b
MaxOf(a, b) == IF a > b THEN a ELSE b

Init ==
    /\ granted = {} /\ denied = {} /\ crowded = FALSE
    /\ token = [i \in Targets |-> NoToken]
    /\ status = [i \in Targets |-> [phase |-> "NoEntry", dated |-> FALSE]]
    /\ resolved = FALSE
    /\ event = TRUE
    /\ alarm = MaxAlarm
    /\ ready = FALSE
    /\ recheck = 0
    /\ down = FALSE
    /\ left = 0
    /\ waited = [i \in Targets |-> 0]

-----------------------------------------------------------------------------
(* One target in one pass of the GitRepository controller.                 *)

NeedsRotation(i) == token[i] <= RenewBuffer    \* a missing Secret included

\* How reconcileTarget can end.  "conflict": the Secret is written, the Flux GitRepository
\* is somebody else's; "written": the Secret is, the Flux GitRepository could not be.
\* "unsure": the Secret could not be read, so no rotation, and currentTokenExpiry
\* could; "blind": it could not either.
Outcomes == {"pending", "valid", "minted", "conflict", "failed", "written", "unsure", "blind"}

Possible(i, outcome) ==
    CASE outcome = "pending"              -> i \notin granted
      [] outcome = "valid"                -> i \in granted /\ ~NeedsRotation(i)
      [] outcome \in {"minted", "conflict"} -> i \in granted /\ NeedsRotation(i)
      [] outcome \in {"failed", "written"}  -> i \in granted /\ NeedsRotation(i) /\ down
      [] outcome = "unsure"               -> i \in granted /\ token[i] # NoToken /\ down
      [] outcome = "blind"                -> i \in granted /\ down

PhaseOf(outcome) ==
    CASE outcome = "pending"               -> "Pending"
      [] outcome = "conflict"              -> "Conflict"
      [] outcome \in {"failed", "written"} -> "TokenFailed"
      [] OTHER                             -> "Ready"

\* The outcomes whose status has TokenExpiresAt.
Dated == {"valid", "minted", "unsure"}

TokenAfter(i, outcome) ==
    IF outcome \in {"minted", "conflict", "written"} THEN Lifetime ELSE token[i]

\* Time until the rotation deadline of target i, when its status has an expiry.
\* Mutant: the renew buffer is not subtracted.
UntilExpiry(i, outcome) ==
    IF outcome \in Dated THEN TokenAfter(i, outcome) ELSE NoDeadline
Until(i, outcome) ==
    IF outcome \in Dated THEN MaxOf(TokenAfter(i, outcome) - RenewBuffer, 0) ELSE NoDeadline

\* The loop over the targets: earliest starts at 0 and 0 also means "not set".
EarliestDeadline(outcome) ==
    LET earliest[i \in 0 .. N] ==
            IF i = 0 THEN 0
            ELSE LET until == Until(i, outcome[i])
                 IN  IF until # NoDeadline /\ (earliest[i - 1] = 0 \/ until < earliest[i - 1])
                     THEN until ELSE earliest[i - 1]
    IN  earliest[N]

-----------------------------------------------------------------------------
(* The GitRepository controller.                                           *)

Due == event \/ alarm = 0

\* Reconcile returns RequeueAfter.  The queue keeps an alarm that rings earlier; a
\* change of the status comes back as a watch event.
Requeue(after, changed) ==
    /\ alarm' = MinOf(IF alarm = 0 THEN MaxAlarm ELSE alarm, after)
    /\ event' = changed

\* Every pass fails: Resolve stops at a denied target, or SelectSecretRef refuses, since
\* resolveGitHubCreds does not say which Secret the AppInstallation means.
Obstructed == denied # {} \/ crowded

\* The credential is resolved and the targets are: the loop runs.
Propagate ==
    /\ Due /\ ready /\ ~Obstructed
    /\ \E outcome \in [Targets -> Outcomes] :
          /\ \A i \in Targets : Possible(i, outcome[i])
          /\ token' = [i \in Targets |-> TokenAfter(i, outcome[i])]
          /\ status' = [i \in Targets |-> [phase |-> PhaseOf(outcome[i]),
                                           dated |-> outcome[i] \in Dated]]
          /\ LET after == EarliestDeadline(outcome)
             IN  Requeue(IF after > 0 THEN after ELSE Interval,
                         \/ status' # status \/ ~resolved
                         \/ \E i \in Targets : outcome[i] = "minted")
    /\ resolved' = TRUE
    /\ UNCHANGED <<world, ready, recheck, down, left, waited>>

\* Resolve, the credentials or the client fail: status.propagated stays.
PropagateFails ==
    /\ Due /\ ready /\ (down \/ Obstructed)
    /\ Requeue(Interval, ~resolved)
    /\ resolved' = TRUE
    /\ UNCHANGED <<world, token, status, ready, recheck, down, left, waited>>

\* The AppInstallation is not ready, or cannot be read.
Unresolved ==
    /\ Due /\ (~ready \/ down)
    /\ Requeue(Interval, resolved)
    /\ resolved' = FALSE
    /\ UNCHANGED <<world, token, status, ready, recheck, down, left, waited>>

-----------------------------------------------------------------------------
(* The AppInstallation controller, the rest of the process, and time.      *)

\* A check writes LastChecked, which queues the GitRepository (and the
\* AppInstallation itself: a check may come before the recheck is due).
\* Mutant: only a change of the readiness queues the GitRepository.
CheckWithoutWatch ==
    /\ ready' \in (IF down THEN BOOLEAN ELSE {TRUE})
    /\ recheck' = IF recheck = 0 THEN Interval ELSE recheck
    /\ event' = (event \/ ready' # ready)
    /\ UNCHANGED <<world, token, status, resolved, alarm, down, left, waited>>
Check ==
    /\ ready' \in (IF down THEN BOOLEAN ELSE {TRUE})
    /\ recheck' = IF recheck = 0 THEN Interval ELSE recheck
    /\ event' = TRUE
    /\ UNCHANGED <<world, token, status, resolved, alarm, down, left, waited>>

\* The process starts again: the queue has every object, and no alarm.
Restart ==
    /\ event' = TRUE
    /\ alarm' = MaxAlarm
    /\ recheck' = 0
    /\ UNCHANGED <<world, token, status, resolved, ready, down, left, waited>>

\* The access provider answers an AccessRequest; the controller does not watch them.
Grant(i) ==
    /\ i \notin granted \cup denied
    /\ granted' = granted \cup {i}
    /\ UNCHANGED <<denied, crowded>>
    /\ UNCHANGED <<token, status, resolved, event, alarm, ready, recheck, down, left, waited>>

Deny(i) ==
    /\ "denial" \in Obstacles /\ i \notin granted \cup denied
    /\ denied' = denied \cup {i}
    /\ UNCHANGED <<granted, crowded>>
    /\ UNCHANGED <<token, status, resolved, event, alarm, ready, recheck, down, left, waited>>

\* The platform owner adds a Secret to the GitHubInstance.  A check goes on finding the
\* one that the AppInstallation names.
AddSecret ==
    /\ "secrets" \in Obstacles /\ ~crowded
    /\ crowded' = TRUE
    /\ UNCHANGED <<granted, denied>>
    /\ UNCHANGED <<token, status, resolved, event, alarm, ready, recheck, down, left, waited>>

OutageBegins ==
    /\ ~down /\ left = 0
    /\ down' = TRUE
    /\ left' = MaxOutage
    /\ UNCHANGED <<world, token, status, resolved, event, alarm, ready, recheck, waited>>

\* The next outage does not begin before both controllers have had a turn.
OutageEnds ==
    /\ down
    /\ down' = FALSE
    /\ left' = Interval + 1
    /\ UNCHANGED <<world, token, status, resolved, event, alarm, ready, recheck, waited>>

Tick ==
    /\ ~Due /\ recheck > 0
    /\ down => left > 0
    /\ left' = MaxOf(left - 1, 0)
    /\ token' = [i \in Targets |-> IF token[i] > 0 THEN token[i] - 1 ELSE token[i]]
    /\ waited' = [i \in Targets |-> IF i \in granted /\ token[i] = NoToken
                                    THEN MinOf(waited[i] + 1, MaxWait + 1) ELSE 0]
    /\ alarm' = alarm - 1
    /\ recheck' = recheck - 1
    /\ UNCHANGED <<world, status, resolved, event, ready, down>>

Next ==
    \/ Propagate \/ PropagateFails \/ Unresolved
    \/ Check \/ Restart
    \/ (\E i \in Targets : Grant(i) \/ Deny(i)) \/ AddSecret
    \/ OutageBegins \/ OutageEnds \/ Tick

Spec == Init /\ [][Next]_vars

-----------------------------------------------------------------------------
(* Properties.                                                             *)

\* Every variable has its type, and the next pass is at most a rotation away.
TypeOK ==
    /\ granted \subseteq Targets /\ denied \subseteq Targets \ granted
    /\ token \in [Targets -> NoToken .. Lifetime]
    /\ status \in [Targets -> [phase : Phases, dated : BOOLEAN]]
    /\ {crowded, resolved, event, ready, down} \subseteq BOOLEAN
    /\ alarm \in 0 .. MaxAlarm
    /\ event \/ alarm <= Lifetime - RenewBuffer
    /\ recheck \in 0 .. Interval
    /\ left \in 0 .. MaxOf(MaxOutage, Interval + 1)
    /\ waited \in [Targets -> 0 .. MaxWait + 1]

\* While no target is denied and the credentials can be selected, the token in a
\* ControlPlane is replaced before it expires, through outages, failed reads and restarts.
NoTokenExpires == Obstructed \/ \A i \in Targets : token[i] # 0

\* While no target is denied and the credentials can be selected, a target whose access
\* is granted has its Secret after two requeue intervals and the longest outage, although
\* nobody watches AccessRequests and the requeue of a pass may be the rotation deadline
\* of another target.
GrantIsNoticed == Obstructed \/ \A i \in Targets : waited[i] <= MaxWait

\* A token whose expiry the status gives is replaced before that time ("The controller
\* rotates the token before this time based on the configured renew buffer."), whatever
\* becomes of the other targets.
RotatedBeforeExpiry == \A i \in Targets : status[i].dated => token[i] # 0

\* The requeue of a pass is no later than the first rotation deadline of its targets
\* ("returns the earliest token rotation deadline across all targets").
RequeueAtEarliest ==
    \A i \in Targets :
        status[i].dated /\ resolved /\ ~event
        => alarm <= MaxOf(MaxOf(token[i] - RenewBuffer, 0), Interval)

-----------------------------------------------------------------------------
(* Why no token expires and no grant is missed: an inductive invariant.    *)

HasToken(i) == token[i] # NoToken
Waits(i)    == i \in granted /\ ~HasToken(i)

\* Every token is worth at least this much, every grant has waited at most this long.
AtLeast(worth) == \A i \in Targets : HasToken(i) => token[i] >= worth
AtMost(wait)   == \A i \in Targets : Waits(i) => waited[i] <= wait

\* A check has just found the AppInstallation ready: the next pass gets through.
Answered == event /\ ready

\* The time since the last check, or since it should have been.
Unchecked == IF Answered THEN Interval ELSE Interval - recheck

\* Calls get through, and the last pass did: the alarm is set for the first deadline.
Steady ==
    /\ ready \/ \A i \in Targets : ~HasToken(i)
    /\ AtLeast(IF event THEN RenewBuffer ELSE RenewBuffer + alarm)
    /\ AtMost(Unchecked)

\* Calls fail: what was in order when that began has aged by the length of the outage.
Outage ==
    /\ left <= MaxOutage
    /\ AtLeast(RenewBuffer - (MaxOutage - left))
    /\ AtMost(Interval + MaxOutage - left)

\* Calls get through again, and a check that leads to a pass comes before they may fail.
Recovering ==
    /\ left > 0 /\ (Answered \/ left > recheck)
    /\ AtLeast(RenewBuffer - MaxOutage - Unchecked)
    /\ AtMost(Interval + MaxOutage + Unchecked)

\* Only a target with granted access has a token, and waiting begins with the grant.
GrantsFirst ==
    \A i \in Targets : /\ HasToken(i) => i \in granted
                       /\ i \notin granted => waited[i] = 0

\* The inductive invariant: how old what the last good pass left behind may be, as long
\* as passes are not bound to fail.
RotationInv ==
    /\ TypeOK /\ GrantsFirst /\ GrantIsNoticed
    /\ Obstructed \/ (IF down THEN Outage ELSE Steady \/ Recovering)

=============================================================================
