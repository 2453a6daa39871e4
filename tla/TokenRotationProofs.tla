------------------------ MODULE TokenRotationProofs ------------------------
(***************************************************************************)
(* Timing of the token rotation for every number of targets, every token   *)
(* lifetime, buffer and interval, and every length of an outage.           *)
(***************************************************************************)
EXTENDS TokenRotation, WellFoundedInduction, TLAPS

-----------------------------------------------------------------------------
(* The loop over the targets, a recursive function.                        *)

\* A set of natural numbers has a least element: what takes the place of induction.
LEMMA LeastNatural ==
    ASSUME NEW T, T \subseteq Nat, T # {}
    PROVE  \E n \in T : \A m \in T : n <= m
<1>1. PICK n \in T : \A m \in T : <<m, n>> \notin OpToRel(<, Nat)
  BY WFMin, NatLessThanWellFounded
<1>2. \A m \in T : ~(m < n)
  BY <1>1 DEF OpToRel
<1> QED
  BY <1>2

\* One round of the loop: what earliest is after the target i, when it was e before.
Round(outcome, i, e) ==
    LET until == Until(i, outcome[i])
    IN  IF until # NoDeadline /\ (e = 0 \/ until < e) THEN until ELSE e

\* f holds the values of earliest in the first n rounds.
IsLoop(f, outcome, n) ==
    f = [i \in 0 .. n |-> IF i = 0 THEN 0 ELSE Round(outcome, i, f[i - 1])]

\* The recursion defines a function.
LEMMA LoopExists ==
    ASSUME NEW outcome, NEW n \in Nat
    PROVE  \E f : IsLoop(f, outcome, n)
<1> DEFINE T == {k \in Nat : ~ \E f : IsLoop(f, outcome, k)}
<1>1. SUFFICES ASSUME T # {} PROVE FALSE
  OBVIOUS
<1>2. PICK k \in T : \A m \in T : k <= m
  BY <1>1, LeastNatural
<1>3. k # 0
  <2> DEFINE f == [i \in 0 .. 0 |-> 0]
  <2>1. IsLoop(f, outcome, 0)
    BY DEF IsLoop
  <2> QED  BY <1>2, <2>1
<1>4. PICK f : IsLoop(f, outcome, k - 1)
  BY <1>2, <1>3
<1> DEFINE g == [i \in 0 .. k |-> IF i = 0 THEN 0 ELSE Round(outcome, i, f[i - 1])]
<1>5. \A i \in 0 .. k - 1 : g[i] = f[i]
  BY <1>2, <1>4 DEF IsLoop
<1>6. g = [i \in 0 .. k |-> IF i = 0 THEN 0 ELSE Round(outcome, i, g[i - 1])]
  <2>1. \A i \in 0 .. k : i # 0 => i - 1 \in 0 .. k - 1
    BY <1>2
  <2>2. \A i \in 0 .. k : i # 0 => g[i - 1] = f[i - 1]
    BY <1>5, <2>1
  <2> HIDE DEF T
  <2> QED  BY <2>2
<1>7. IsLoop(g, outcome, k)
  BY <1>6 DEF IsLoop
<1> QED
  BY <1>2, <1>7

LEMMA EarliestIsLoop ==
    ASSUME NEW outcome
    PROVE  \E f : IsLoop(f, outcome, N) /\ EarliestDeadline(outcome) = f[N]
<1> DEFINE earliest[i \in 0 .. N] ==
            IF i = 0 THEN 0
            ELSE LET until == Until(i, outcome[i])
                 IN  IF until # NoDeadline /\ (earliest[i - 1] = 0 \/ until < earliest[i - 1])
                     THEN until ELSE earliest[i - 1]
<1>1. EarliestDeadline(outcome) = earliest[N]
  BY DEF EarliestDeadline
<1>2. \E f : IsLoop(f, outcome, N)
  BY LoopExists, TimesAssumption DEF TimesAssumption
<1>3. IsLoop(earliest, outcome, N)
  BY <1>2 DEF IsLoop, Round
<1> QED
  BY <1>1, <1>3

\* The time until a rotation deadline, when there is one, is no longer than a rotation.
LEMMA UntilRange ==
    ASSUME NEW i \in Targets, NEW o \in Outcomes, token[i] \in NoToken .. Lifetime
    PROVE  Until(i, o) \in NoDeadline .. Lifetime - RenewBuffer
BY TimesAssumption
   DEF TimesAssumption, Until, Dated, TokenAfter, MaxOf, NoToken, NoDeadline

\* So is what the loop holds at any time.
LEMMA LoopRange ==
    ASSUME NEW outcome, NEW f, IsLoop(f, outcome, N),
           \A i \in Targets : Until(i, outcome[i]) \in NoDeadline .. Lifetime - RenewBuffer
    PROVE  \A n \in 0 .. N : f[n] \in 0 .. Lifetime - RenewBuffer
<1> DEFINE T == {n \in 0 .. N : f[n] \notin 0 .. Lifetime - RenewBuffer}
<1>1. SUFFICES ASSUME T # {} PROVE FALSE
  OBVIOUS
<1> USE TimesAssumption DEF TimesAssumption
<1>2. PICK n \in T : \A m \in T : n <= m
  <2>1. T \subseteq Nat
    OBVIOUS
  <2> QED  BY <1>1, <2>1, LeastNatural
<1>3. n # 0
  BY <1>2 DEF IsLoop
<1>4. /\ n \in Targets /\ f[n] = Round(outcome, n, f[n - 1])
      /\ f[n - 1] \in 0 .. Lifetime - RenewBuffer
  <2>1. n \in 0 .. N /\ n - 1 \in 0 .. N /\ n - 1 \notin T /\ n \in 1 .. N
    BY <1>2, <1>3
  <2> QED  BY <1>3, <2>1 DEF IsLoop, Targets
<1>5. f[n] \in 0 .. Lifetime - RenewBuffer
  BY <1>4 DEF Round, NoDeadline
<1> QED
  BY <1>2, <1>5

\* Where every deadline lies ahead the loop finds the first one; it is the deadline
\* that has just come that it loses, 0 being its "not set".
LEMMA LoopFirst ==
    ASSUME NEW outcome, NEW f, IsLoop(f, outcome, N),
           \A i \in Targets : Until(i, outcome[i]) \in NoDeadline .. Lifetime - RenewBuffer,
           \A i \in Targets : Until(i, outcome[i]) # 0
    PROVE  \A i \in Targets : Until(i, outcome[i]) # NoDeadline
                              => 0 < f[N] /\ f[N] <= Until(i, outcome[i])
<1> DEFINE Good(n) == \A i \in 1 .. n : Until(i, outcome[i]) # NoDeadline
                                        => 0 < f[n] /\ f[n] <= Until(i, outcome[i])
           T == {n \in 0 .. N : ~Good(n)}
<1> USE TimesAssumption DEF TimesAssumption
<1>1. SUFFICES ASSUME T # {} PROVE FALSE
  BY DEF Targets
<1>2. PICK n \in T : \A m \in T : n <= m
  <2>1. T \subseteq Nat
    OBVIOUS
  <2> QED  BY <1>1, <2>1, LeastNatural
<1>3. n # 0
  BY <1>2
<1>4. n \in 1 .. N /\ n - 1 \in 0 .. N /\ Good(n - 1)
  BY <1>2, <1>3
<1>5. f[n] = Round(outcome, n, f[n - 1]) /\ f[n - 1] \in 0 .. Lifetime - RenewBuffer
  BY <1>3, <1>4, LoopRange DEF IsLoop
<1>6. Good(n)
  <2> SUFFICES ASSUME NEW i \in 1 .. n, Until(i, outcome[i]) # NoDeadline
               PROVE  0 < f[n] /\ f[n] <= Until(i, outcome[i])
    OBVIOUS
  <2>1. i \in Targets /\ n \in Targets /\ (i # n => i \in 1 .. n - 1)
    BY <1>4 DEF Targets
  <2> QED  BY <1>4, <1>5, <2>1 DEF Round, NoDeadline
<1> QED
  BY <1>2, <1>6

\* The requeue of a pass: no later than one rotation.
LEMMA EarliestRange ==
    ASSUME NEW outcome \in [Targets -> Outcomes],
           \A i \in Targets : token[i] \in NoToken .. Lifetime
    PROVE  EarliestDeadline(outcome) \in 0 .. Lifetime - RenewBuffer
BY EarliestIsLoop, UntilRange, LoopRange, TimesAssumption DEF TimesAssumption

\* The requeue of a pass that found every deadline ahead: no later than any of them.
LEMMA EarliestIsFirst ==
    ASSUME NEW outcome \in [Targets -> Outcomes],
           \A i \in Targets : token[i] \in NoToken .. Lifetime,
           \A i \in Targets : Until(i, outcome[i]) # 0,
           NEW i \in Targets, Until(i, outcome[i]) # NoDeadline
    PROVE  0 < EarliestDeadline(outcome)
           /\ EarliestDeadline(outcome) <= Until(i, outcome[i])
BY EarliestIsLoop, UntilRange, LoopFirst

-----------------------------------------------------------------------------
(* Type correctness.                                                       *)

\* What a pass can do to a target, by type.
LEMMA PassType ==
    ASSUME NEW i \in Targets, NEW o \in Outcomes, token[i] \in NoToken .. Lifetime
    PROVE  TokenAfter(i, o) \in NoToken .. Lifetime /\ PhaseOf(o) \in Phases
BY TimesAssumption DEF TimesAssumption, TokenAfter, NoToken, PhaseOf, Phases, Outcomes

\* A requeue after at most one rotation is an alarm for at most that time.
LEMMA RequeueType ==
    ASSUME TypeOK, NEW after \in 1 .. Lifetime - RenewBuffer, NEW changed \in BOOLEAN,
           Requeue(after, changed)
    PROVE  event' \in BOOLEAN /\ alarm' \in 1 .. Lifetime - RenewBuffer
BY TimesAssumption DEF TimesAssumption, TypeOK, Requeue, MinOf, MaxAlarm

LEMMA IntervalIsRequeue == Interval \in 1 .. Lifetime - RenewBuffer
BY TimesAssumption DEF TimesAssumption

LEMMA InitType == Init => TypeOK
<1> SUFFICES ASSUME Init PROVE TypeOK
  OBVIOUS
<1> USE TimesAssumption DEF TimesAssumption, Init
<1>1. {crowded, resolved, event, ready, down} \subseteq BOOLEAN /\ event
  OBVIOUS
<1>2. token \in [Targets -> NoToken .. Lifetime] /\ waited \in [Targets -> 0 .. MaxWait + 1]
  BY DEF NoToken, MaxWait
<1>3. alarm \in 0 .. MaxAlarm /\ recheck \in 0 .. Interval
  BY DEF MaxAlarm
<1>4. left \in 0 .. MaxOf(MaxOutage, Interval + 1)
  BY DEF MaxOf
<1>5. /\ granted \subseteq Targets /\ denied \subseteq Targets \ granted
      /\ status \in [Targets -> [phase : Phases, dated : BOOLEAN]]
  BY DEF Phases
<1> QED
  BY <1>1, <1>2, <1>3, <1>4, <1>5 DEF TypeOK

LEMMA NextType == ASSUME TypeOK, [Next]_vars PROVE TypeOK'
<1> USE DEF TypeOK, world
<1>1. CASE Propagate
  <2>1. PICK outcome \in [Targets -> Outcomes] :
           /\ token' = [i \in Targets |-> TokenAfter(i, outcome[i])]
           /\ status' = [i \in Targets |-> [phase |-> PhaseOf(outcome[i]),
                                            dated |-> outcome[i] \in Dated]]
           /\ \E changed \in BOOLEAN :
                 Requeue(IF EarliestDeadline(outcome) > 0
                         THEN EarliestDeadline(outcome) ELSE Interval, changed)
    BY <1>1 DEF Propagate
  <2>2. EarliestDeadline(outcome) \in 0 .. Lifetime - RenewBuffer
    BY EarliestRange
  <2>3. (IF EarliestDeadline(outcome) > 0 THEN EarliestDeadline(outcome) ELSE Interval)
           \in 1 .. Lifetime - RenewBuffer
    BY <2>2, IntervalIsRequeue, TimesAssumption DEF TimesAssumption
  <2>4. event' \in BOOLEAN /\ alarm' \in 1 .. Lifetime - RenewBuffer
    BY <2>1, <2>3, RequeueType
  <2>5. \A i \in Targets : /\ TokenAfter(i, outcome[i]) \in NoToken .. Lifetime
                           /\ PhaseOf(outcome[i]) \in Phases
    BY PassType
  <2>6. token' \in [Targets -> NoToken .. Lifetime]
    BY <2>1, <2>5
  <2>7. status' \in [Targets -> [phase : Phases, dated : BOOLEAN]]
    BY <2>1, <2>5
  <2> QED
    BY <1>1, <2>4, <2>6, <2>7, TimesAssumption DEF Propagate, TimesAssumption, MaxAlarm
<1>2. CASE PropagateFails \/ Unresolved
  <2>1. event' \in BOOLEAN /\ alarm' \in 1 .. Lifetime - RenewBuffer
    BY <1>2, RequeueType, IntervalIsRequeue DEF PropagateFails, Unresolved
  <2>2. resolved' \in BOOLEAN
    BY <1>2 DEF PropagateFails, Unresolved
  <2> QED
    BY <1>2, <2>1, <2>2, TimesAssumption
       DEF PropagateFails, Unresolved, TimesAssumption, MaxAlarm
<1>3. CASE Check
  <2>1. ready' \in BOOLEAN /\ event' = TRUE
    BY <1>3 DEF Check
  <2>2. recheck' \in 0 .. Interval
    BY <1>3, TimesAssumption DEF Check, TimesAssumption
  <2> QED
    BY <1>3, <2>1, <2>2 DEF Check
<1>4. CASE Restart
  BY <1>4, TimesAssumption DEF Restart, TimesAssumption, MaxAlarm
<1>5. CASE (\E i \in Targets : Grant(i) \/ Deny(i)) \/ AddSecret
  BY <1>5 DEF Grant, Deny, AddSecret
<1>6. CASE OutageBegins \/ OutageEnds
  <2>1. down' \in BOOLEAN
    BY <1>6 DEF OutageBegins, OutageEnds
  <2>2. left' \in 0 .. MaxOf(MaxOutage, Interval + 1)
    BY <1>6, TimesAssumption DEF OutageBegins, OutageEnds, TimesAssumption, MaxOf
  <2> QED
    BY <1>6, <2>1, <2>2 DEF OutageBegins, OutageEnds
<1>7. CASE Tick
  <2>1. alarm > 0 /\ recheck > 0 /\ ~event /\ event' = event
    BY <1>7 DEF Tick, Due
  <2>2. token' \in [Targets -> NoToken .. Lifetime]
    BY <1>7, TimesAssumption DEF Tick, TimesAssumption, NoToken
  <2>3. waited' \in [Targets -> 0 .. MaxWait + 1]
    BY <1>7, TimesAssumption DEF Tick, TimesAssumption, MinOf, MaxWait
  <2>4. left' \in 0 .. MaxOf(MaxOutage, Interval + 1)
    BY <1>7, TimesAssumption DEF Tick, TimesAssumption, MaxOf
  <2> QED
    BY <1>7, <2>1, <2>2, <2>3, <2>4, TimesAssumption DEF Tick, TimesAssumption, MaxAlarm
<1>8. CASE UNCHANGED vars
  BY <1>8 DEF vars
<1> QED
  BY <1>1, <1>2, <1>3, <1>4, <1>5, <1>6, <1>7, <1>8 DEF Next

\* Every variable keeps its type: above all the next pass of the GitRepository is
\* queued, or at most one rotation away (reconcilePropagate returns RequeueAfter).
THEOREM TypeCorrect == Spec => []TypeOK
<1>1. TypeOK /\ [Next]_vars => TypeOK'
  BY NextType
<1> QED
  BY <1>1, InitType, PTL DEF Spec

-----------------------------------------------------------------------------
(* Tokens and grants over time.                                            *)

\* The bounds in terms of which the invariant speaks are numbers.
LEMMA Numbers ==
    ASSUME TypeOK
    PROVE  /\ N \in Nat /\ Lifetime \in Nat /\ RenewBuffer \in Nat
           /\ Interval \in Nat /\ MaxOutage \in Nat
           /\ RenewBuffer < Lifetime /\ 0 < Interval
           /\ alarm \in Nat /\ recheck \in Nat /\ recheck <= Interval /\ left \in Nat
           /\ \A i \in Targets : token[i] \in Int /\ token[i] >= NoToken /\ waited[i] \in Nat
BY TimesAssumption DEF TimesAssumption, TypeOK, MaxAlarm, MaxOf, MaxWait, NoToken

LEMMA InitRotation == Init => RotationInv
<1> SUFFICES ASSUME Init PROVE RotationInv
  OBVIOUS
<1>1. TypeOK
  BY InitType
<1>2. \A i \in Targets : ~HasToken(i) /\ ~Waits(i) /\ waited[i] = 0
  BY DEF Init, HasToken, Waits
<1>3. Steady /\ ~down
  BY <1>2 DEF Init, Steady, AtLeast, AtMost
<1>4. GrantsFirst /\ GrantIsNoticed
  BY <1>1, <1>2, Numbers DEF GrantsFirst, GrantIsNoticed, MaxWait
<1> QED
  BY <1>1, <1>3, <1>4 DEF RotationInv

\* What a pass does to one target: it mints, for a target with access, or nothing.
\* A pass that no failing call disturbs leaves no target without a token, and none
\* with a deadline that has come.
LEMMA PassOnTarget ==
    ASSUME TypeOK, GrantsFirst, NEW i \in Targets, NEW o \in Outcomes, Possible(i, o)
    PROVE  /\ \/ i \in granted /\ TokenAfter(i, o) = Lifetime
              \/ TokenAfter(i, o) = token[i]
           /\ ~down => /\ o = "pending" => i \notin granted /\ TokenAfter(i, o) = NoToken
                       /\ o \in {"valid", "minted"}
                             => /\ TokenAfter(i, o) > RenewBuffer
                                /\ Until(i, o) = TokenAfter(i, o) - RenewBuffer
                       /\ o = "conflict" => TokenAfter(i, o) = Lifetime
                       /\ o \in {"pending", "valid", "minted", "conflict"}
                       /\ Until(i, o) # 0
<1> USE Numbers DEF Possible, TokenAfter, Outcomes
<1>1. \/ i \in granted /\ TokenAfter(i, o) = Lifetime
      \/ TokenAfter(i, o) = token[i]
  OBVIOUS
<1>2. ASSUME ~down
      PROVE  /\ o = "pending" => i \notin granted /\ TokenAfter(i, o) = NoToken
             /\ o \in {"valid", "minted"}
                   => /\ TokenAfter(i, o) > RenewBuffer
                      /\ Until(i, o) = TokenAfter(i, o) - RenewBuffer
             /\ o = "conflict" => TokenAfter(i, o) = Lifetime
             /\ o \in {"pending", "valid", "minted", "conflict"}
             /\ Until(i, o) # 0
  <2>1. o \in {"pending", "valid", "minted", "conflict"}
    BY <1>2
  <2>2. CASE o = "pending"
    BY <2>2 DEF GrantsFirst, HasToken, Until, Dated, NoDeadline
  <2>3. CASE o = "valid"
    BY <2>3 DEF NeedsRotation, Until, Dated, MaxOf, NoDeadline
  <2>4. CASE o = "minted"
    BY <2>4 DEF Until, Dated, MaxOf, NoDeadline
  <2>5. CASE o = "conflict"
    BY <2>5 DEF Until, Dated, NoDeadline
  <2> QED
    BY <2>1, <2>2, <2>3, <2>4, <2>5
<1> QED
  BY <1>1, <1>2

\* So a pass that gets through leaves the alarm set for the first deadline.
LEMMA PropagateRotation ==
    ASSUME RotationInv, Propagate PROVE RotationInv'
<1> USE DEF RotationInv
<1>1. TypeOK'
  BY NextType DEF Next
<1>2. PICK outcome \in [Targets -> Outcomes] :
         /\ \A i \in Targets : Possible(i, outcome[i])
         /\ token' = [i \in Targets |-> TokenAfter(i, outcome[i])]
         /\ alarm' = MinOf(IF alarm = 0 THEN MaxAlarm ELSE alarm,
                           IF EarliestDeadline(outcome) > 0
                           THEN EarliestDeadline(outcome) ELSE Interval)
  BY DEF Propagate, Requeue
<1>3. UNCHANGED <<granted, denied, crowded, ready, recheck, down, left, waited>> /\ ~Obstructed
  BY DEF Propagate, world
<1>4. \A i \in Targets : /\ \/ i \in granted /\ token'[i] = Lifetime
                            \/ token'[i] = token[i]
                         /\ token'[i] = TokenAfter(i, outcome[i])
  BY <1>2, PassOnTarget
<1>5. GrantsFirst' /\ GrantIsNoticed'
  BY <1>3, <1>4, Numbers DEF GrantsFirst, HasToken, NoToken, GrantIsNoticed, MaxWait, Obstructed
<1>6. CASE down
  <2>1. AtLeast(RenewBuffer - (MaxOutage - left))'
    BY <1>3, <1>4, <1>6, Numbers DEF Outage, AtLeast, HasToken
  <2>2. AtMost(Interval + MaxOutage - left)'
    BY <1>3, <1>4, <1>6, Numbers DEF Outage, AtMost, Waits, HasToken, NoToken
  <2> QED
    BY <1>1, <1>3, <1>5, <1>6, <2>1, <2>2 DEF Outage
<1>7. CASE ~down
  <2>1. \A i \in Targets :
           /\ outcome[i] = "pending" => i \notin granted /\ token'[i] = NoToken
           /\ outcome[i] \in {"valid", "minted"}
                 => /\ token'[i] > RenewBuffer
                    /\ Until(i, outcome[i]) = token'[i] - RenewBuffer
           /\ outcome[i] = "conflict" => token'[i] = Lifetime
           /\ outcome[i] \in {"pending", "valid", "minted", "conflict"}
           /\ Until(i, outcome[i]) # 0
    BY <1>2, <1>4, <1>7, PassOnTarget
  <2>2. \A i \in Targets : HasToken(i)' => token'[i] >= RenewBuffer + alarm'
    <3> SUFFICES ASSUME NEW i \in Targets, HasToken(i)'
                 PROVE  token'[i] >= RenewBuffer + alarm'
      OBVIOUS
    <3>1. token'[i] \in Int /\ alarm' \in Nat
      BY <1>1, Numbers, TimesAssumption DEF TypeOK, MaxAlarm, NoToken, TimesAssumption
    <3>2. EarliestDeadline(outcome) \in 0 .. Lifetime - RenewBuffer
      BY EarliestRange DEF TypeOK
    <3>3. CASE outcome[i] \in {"valid", "minted"}
      <4>1. token'[i] > RenewBuffer /\ Until(i, outcome[i]) = token'[i] - RenewBuffer
        BY <2>1, <3>3
      <4>2. Until(i, outcome[i]) # NoDeadline
        BY <3>1, <4>1, Numbers DEF NoDeadline
      <4>3. /\ 0 < EarliestDeadline(outcome)
            /\ EarliestDeadline(outcome) <= Until(i, outcome[i])
        BY <2>1, <4>2, EarliestIsFirst DEF TypeOK
      <4>4. alarm' <= EarliestDeadline(outcome)
        BY <1>2, <3>2, <4>3, Numbers DEF MinOf, MaxAlarm
      <4> QED
        BY <3>1, <3>2, <4>1, <4>3, <4>4, Numbers
    <3>4. CASE outcome[i] = "conflict"
      <4>1. alarm' <= Lifetime - RenewBuffer
        BY <1>2, <3>2, IntervalIsRequeue, Numbers DEF MinOf, MaxAlarm
      <4> QED
        BY <2>1, <3>1, <3>4, <4>1, Numbers
    <3> QED
      BY <2>1, <3>3, <3>4 DEF HasToken
  <2>3. \A i \in Targets : ~Waits(i)'
    BY <1>3, <2>1, Numbers DEF Waits, HasToken, NoToken
  <2>4. AtLeast(IF event THEN RenewBuffer ELSE RenewBuffer + alarm)'
    <3>1. alarm' \in Nat /\ \A i \in Targets : token'[i] \in Int
      BY <1>1, TimesAssumption DEF TypeOK, MaxAlarm, NoToken, TimesAssumption
    <3> QED
      BY <2>2, <3>1, Numbers DEF AtLeast
  <2>5. ready'
    BY <1>3 DEF Propagate
  <2>6. Steady'
    BY <2>3, <2>4, <2>5 DEF Steady, AtMost
  <2> QED
    BY <1>1, <1>3, <1>5, <1>7, <2>6
<1> QED
  BY <1>6, <1>7

\* A step that keeps tokens and grants, and lets nothing age, leaves them in order.
LEMMA KeepsTokens ==
    ASSUME GrantsFirst, GrantIsNoticed, UNCHANGED <<world, token, waited>>
    PROVE  GrantsFirst' /\ GrantIsNoticed' /\ UNCHANGED granted
BY DEF GrantsFirst, GrantIsNoticed, HasToken, world, Obstructed

\* A pass that fails while calls fail changes nothing that matters; one without a
\* ready AppInstallation comes before there is a token, or before the next check.
LEMMA FailingPassRotation ==
    ASSUME RotationInv, ~Obstructed, PropagateFails \/ Unresolved PROVE RotationInv'
<1> USE DEF RotationInv
<1>1. TypeOK'
  BY NextType DEF Next
<1>2. UNCHANGED <<world, token, ready, recheck, down, left, waited>>
  BY DEF PropagateFails, Unresolved
<1>3. GrantsFirst' /\ GrantIsNoticed' /\ UNCHANGED granted
  BY <1>2, KeepsTokens
<1>4. CASE down
  BY <1>1, <1>2, <1>3, <1>4 DEF Outage, AtLeast, AtMost, HasToken, Waits
<1>5. CASE ~down
  <2>1. ~ready
    BY <1>5 DEF PropagateFails, Unresolved
  <2>2. Unchecked' = Unchecked /\ ~Answered /\ ~Answered'
    BY <1>2, <1>3, <2>1 DEF Unchecked, Answered
  <2>3. ASSUME Steady PROVE Steady'
    <3>1. \A i \in Targets : ~HasToken(i)
      BY <2>1, <2>3 DEF Steady
    <3>2. AtMost(Unchecked)'
      BY <1>2, <1>3, <2>2, <2>3 DEF Steady, AtMost, Waits, HasToken
    <3> QED
      BY <1>2, <1>3, <3>1, <3>2 DEF Steady, AtLeast, HasToken
  <2>4. ASSUME Recovering PROVE Recovering'
    BY <1>2, <1>3, <2>2, <2>4 DEF Recovering, AtLeast, AtMost, Waits, HasToken
  <2> QED
    BY <1>1, <1>2, <1>3, <1>5, <2>3, <2>4
<1> QED
  BY <1>4, <1>5

\* After a check that finds the AppInstallation ready the next pass gets through.
LEMMA CheckRotation ==
    ASSUME RotationInv, ~Obstructed, Check PROVE RotationInv'
<1> USE DEF RotationInv
<1>1. TypeOK'
  BY NextType DEF Next
<1>2. UNCHANGED <<world, token, alarm, down, left, waited>> /\ event'
  BY DEF Check
<1>3. GrantsFirst' /\ GrantIsNoticed' /\ UNCHANGED granted
  BY <1>2, KeepsTokens
<1>4. CASE down
  BY <1>1, <1>2, <1>3, <1>4 DEF Outage, AtLeast, AtMost, HasToken, Waits
<1>5. CASE ~down
  <2>1. ready' /\ Answered'
    BY <1>2, <1>3, <1>5 DEF Check, Answered
  <2>2. Unchecked \in Int /\ Unchecked <= Interval /\ Unchecked' = Interval
    BY <2>1, Numbers DEF Unchecked
  <2>3. ASSUME Steady PROVE Steady'
    <3>1. AtLeast(RenewBuffer)
      BY <2>3, Numbers DEF Steady, AtLeast
    <3>2. /\ \A i \in Targets : HasToken(i)' => token'[i] >= RenewBuffer
          /\ \A i \in Targets : Waits(i)' => waited'[i] <= Interval
      BY <1>2, <1>3, <2>2, <2>3, <3>1, Numbers DEF Steady, AtLeast, AtMost, Waits, HasToken
    <3> QED
      BY <1>2, <1>3, <2>1, <2>2, <3>2 DEF Steady, AtLeast, AtMost
  <2>4. ASSUME Recovering PROVE Recovering'
    <3>1. /\ \A i \in Targets : HasToken(i)' => token'[i] >= RenewBuffer - MaxOutage - Interval
          /\ \A i \in Targets : Waits(i)' => waited'[i] <= Interval + MaxOutage + Interval
      BY <1>2, <1>3, <2>2, <2>4, Numbers
         DEF Recovering, AtLeast, AtMost, Waits, HasToken
    <3> QED
      BY <1>2, <1>3, <2>1, <2>2, <2>4, <3>1 DEF Recovering, AtLeast, AtMost
  <2> QED
    BY <1>1, <1>2, <1>3, <1>5, <2>3, <2>4
<1> QED
  BY <1>4, <1>5

\* A restart forgets the alarm and queues every object at once.
LEMMA RestartRotation ==
    ASSUME RotationInv, ~Obstructed, Restart PROVE RotationInv'
<1> USE DEF RotationInv
<1>1. TypeOK'
  BY NextType DEF Next
<1>2. UNCHANGED <<world, token, ready, down, left, waited>> /\ event' /\ recheck' = 0
  BY DEF Restart
<1>3. GrantsFirst' /\ GrantIsNoticed' /\ UNCHANGED granted
  BY <1>2, KeepsTokens
<1>4. CASE down
  BY <1>1, <1>2, <1>3, <1>4 DEF Outage, AtLeast, AtMost, HasToken, Waits
<1>5. CASE ~down
  <2>1. Unchecked \in Int /\ Unchecked <= Interval /\ Unchecked' = Interval
    BY <1>2, <1>3, Numbers DEF Unchecked
  <2>2. ASSUME Steady PROVE Steady'
    <3>1. AtLeast(RenewBuffer)
      BY <2>2, Numbers DEF Steady, AtLeast
    <3>2. /\ \A i \in Targets : HasToken(i)' => token'[i] >= RenewBuffer
          /\ \A i \in Targets : Waits(i)' => waited'[i] <= Interval
      BY <1>2, <1>3, <2>1, <2>2, <3>1, Numbers DEF Steady, AtLeast, AtMost, Waits, HasToken
    <3>3. ready' \/ \A i \in Targets : ~HasToken(i)'
      BY <1>2, <1>3, <2>2 DEF Steady, HasToken
    <3> QED
      BY <1>2, <1>3, <2>1, <3>2, <3>3 DEF Steady, AtLeast, AtMost
  <2>3. ASSUME Recovering PROVE Recovering'
    <3>1. /\ \A i \in Targets : HasToken(i)' => token'[i] >= RenewBuffer - MaxOutage - Interval
          /\ \A i \in Targets : Waits(i)' => waited'[i] <= Interval + MaxOutage + Interval
      BY <1>2, <1>3, <2>1, <2>3, Numbers
         DEF Recovering, AtLeast, AtMost, Waits, HasToken
    <3> QED
      BY <1>2, <1>3, <2>1, <2>3, <3>1 DEF Recovering, AtLeast, AtMost
  <2> QED
    BY <1>1, <1>2, <1>3, <1>5, <2>2, <2>3
<1> QED
  BY <1>4, <1>5

\* A grant begins to wait.
LEMMA GrantRotation ==
    ASSUME RotationInv, ~Obstructed, NEW i \in Targets, Grant(i) PROVE RotationInv'
<1> USE DEF RotationInv
<1>1. TypeOK'
  BY NextType DEF Next
<1>2. UNCHANGED <<denied, crowded, token, waited, event, ready, alarm, recheck, down, left>>
  BY DEF Grant
<1>3. /\ \A j \in Targets : HasToken(j)' <=> HasToken(j)
      /\ \A j \in Targets : Waits(j)' => Waits(j) \/ waited[j] = 0
  BY <1>2 DEF Grant, HasToken, Waits, GrantsFirst
<1>4. GrantsFirst' /\ GrantIsNoticed'
  BY <1>2, <1>3 DEF Grant, GrantsFirst, GrantIsNoticed, Obstructed
<1>5. Unchecked' = Unchecked /\ Answered' = Answered /\ Unchecked \in Nat
  BY <1>2, Numbers DEF Unchecked, Answered
<1>6. CASE down
  BY <1>1, <1>2, <1>3, <1>4, <1>6, Numbers DEF Outage, AtLeast, AtMost
<1>7. CASE ~down /\ Steady
  <2>1. Steady'
    BY <1>2, <1>3, <1>5, <1>7, Numbers DEF Steady, AtLeast, AtMost
  <2> QED  BY <1>1, <1>2, <1>4, <1>7, <2>1
<1>8. CASE ~down /\ Recovering
  <2>1. Recovering'
    BY <1>2, <1>3, <1>5, <1>8, Numbers DEF Recovering, AtLeast, AtMost
  <2> QED  BY <1>1, <1>2, <1>4, <1>8, <2>1
<1> QED
  BY <1>6, <1>7, <1>8

\* An outage begins while things are in order, not while they are being put in order.
LEMMA OutageBeginsRotation ==
    ASSUME RotationInv, ~Obstructed, OutageBegins PROVE RotationInv'
<1> USE DEF RotationInv
<1>1. TypeOK'
  BY NextType DEF Next
<1>2. /\ UNCHANGED <<world, token, waited>>
      /\ ~down /\ left = 0 /\ down' /\ left' = MaxOutage
  BY DEF OutageBegins
<1>3. GrantsFirst' /\ GrantIsNoticed' /\ UNCHANGED granted
  BY <1>2, KeepsTokens
<1>4. Steady
  BY <1>2 DEF Recovering
<1>5. Unchecked \in Int /\ Unchecked <= Interval
  BY Numbers DEF Unchecked
<1>6. Outage'
  BY <1>2, <1>3, <1>4, <1>5, Numbers DEF Steady, Outage, AtLeast, AtMost, Waits, HasToken
<1> QED
  BY <1>1, <1>2, <1>3, <1>6

\* When it ends a check is at most an interval away, and no outage begins before that.
LEMMA OutageEndsRotation ==
    ASSUME RotationInv, ~Obstructed, OutageEnds PROVE RotationInv'
<1> USE DEF RotationInv
<1>1. TypeOK'
  BY NextType DEF Next
<1>2. /\ UNCHANGED <<world, token, waited, event, ready, recheck>>
      /\ down /\ ~down' /\ left' = Interval + 1
  BY DEF OutageEnds
<1>3. GrantsFirst' /\ GrantIsNoticed' /\ UNCHANGED granted
  BY <1>2, KeepsTokens
<1>4. Unchecked' = Unchecked /\ Unchecked \in Nat
  BY <1>2, Numbers DEF Unchecked, Answered
<1>5. Recovering'
  BY <1>2, <1>3, <1>4, Numbers DEF Recovering, Outage, AtLeast, AtMost, Waits, HasToken
<1> QED
  BY <1>1, <1>2, <1>3, <1>5

\* Time passes only when no pass is due: everything ages by a tick, and the alarm, the
\* next check and the end of the outage come a tick nearer.
LEMMA TickRotation ==
    ASSUME RotationInv, ~Obstructed, Tick PROVE RotationInv'
<1> USE DEF RotationInv
<1>1. TypeOK'
  BY NextType DEF Next
<1>2. /\ UNCHANGED <<world, granted, event, ready, down>>
      /\ ~event /\ alarm # 0 /\ recheck > 0 /\ (down => left > 0)
      /\ alarm' = alarm - 1 /\ recheck' = recheck - 1
      /\ left' = IF left > 0 THEN left - 1 ELSE 0
  BY Numbers DEF Tick, Due, MaxOf, world
<1>3. \A i \in Targets :
         /\ HasToken(i)' <=> HasToken(i)
         /\ Waits(i)' <=> Waits(i)
         /\ HasToken(i) => token'[i] >= token[i] - 1
         /\ Waits(i) => waited'[i] <= waited[i] + 1
         /\ ~Waits(i) => waited'[i] = 0
  BY Numbers DEF Tick, TypeOK, world, HasToken, Waits, NoToken, MinOf, MaxWait
<1>4. ~Answered /\ ~Answered' /\ Unchecked = Interval - recheck /\ Unchecked' = Unchecked + 1
  BY <1>2, Numbers DEF Answered, Unchecked
<1>5. GrantsFirst'
  BY <1>2, <1>3 DEF GrantsFirst, Waits
<1>6. ASSUME NEW i \in Targets, Waits(i) PROVE waited[i] < MaxWait
  BY <1>2, <1>4, <1>6, Numbers DEF Steady, Outage, Recovering, AtMost, MaxWait
<1>7. GrantIsNoticed'
  <2> SUFFICES ASSUME NEW i \in Targets PROVE waited'[i] <= MaxWait
    BY DEF GrantIsNoticed, MaxWait
  <2> waited'[i] \in Nat
    BY <1>1 DEF TypeOK
  <2> QED
    BY <1>3, <1>6, Numbers DEF MaxWait
<1>8. \A i \in Targets : token'[i] \in Int /\ waited'[i] \in Nat
  BY <1>1, Numbers DEF TypeOK, NoToken
<1>9. CASE down
  <2>1. Outage'
    BY <1>2, <1>3, <1>8, <1>9, Numbers DEF Outage, AtLeast, AtMost
  <2> QED  BY <1>1, <1>2, <1>5, <1>7, <1>9, <2>1
<1>10. CASE ~down /\ Steady
  <2>1. AtLeast(IF event THEN RenewBuffer ELSE RenewBuffer + alarm)'
    BY <1>2, <1>3, <1>8, <1>10, Numbers DEF Steady, AtLeast
  <2>2. AtMost(Unchecked)'
    BY <1>3, <1>4, <1>8, <1>10, Numbers DEF Steady, AtMost
  <2>3. Steady'
    BY <1>2, <1>3, <1>10, <2>1, <2>2 DEF Steady
  <2> QED  BY <1>1, <1>2, <1>5, <1>7, <1>10, <2>3
<1>11. CASE ~down /\ Recovering
  <2>1. Recovering'
    BY <1>2, <1>3, <1>4, <1>8, <1>11, Numbers DEF Recovering, AtLeast, AtMost
  <2> QED  BY <1>1, <1>2, <1>5, <1>7, <1>11, <2>1
<1> QED
  BY <1>9, <1>10, <1>11

\* Passes that are bound to fail go on failing, and mint nothing.
LEMMA ObstructedRotation ==
    ASSUME RotationInv, [Next]_vars, Obstructed \/ Obstructed' PROVE RotationInv'
<1> USE DEF RotationInv
<1>1. TypeOK'
  BY NextType
<1>2. CASE \/ UNCHANGED <<granted, token, waited>>
           \/ Tick
           \/ \E i \in Targets : Grant(i)
  <2>1. GrantsFirst'
    <3>1. CASE UNCHANGED <<granted, token, waited>>
      BY <3>1 DEF GrantsFirst, HasToken
    <3>2. CASE Tick
      BY <3>2, Numbers DEF Tick, world, GrantsFirst, HasToken, NoToken
    <3>3. CASE \E i \in Targets : Grant(i)
      BY <3>3 DEF Grant, GrantsFirst, HasToken
    <3> QED
      BY <1>2, <3>1, <3>2, <3>3
  <2>2. Obstructed'
    <3>1. CASE Obstructed
      <4>1. CASE UNCHANGED <<denied, crowded>>
        BY <3>1, <4>1 DEF Obstructed
      <4>2. CASE (\E i \in Targets : Deny(i)) \/ AddSecret
        BY <4>2 DEF Deny, AddSecret, Obstructed
      <4>3. CASE \E i \in Targets : Grant(i)
        BY <4>1, <4>3 DEF Grant
      <4> QED
        BY <4>1, <4>2, <4>3
           DEF Next, vars, world, Propagate, PropagateFails, Unresolved, Check, Restart,
               OutageBegins, OutageEnds, Tick
    <3> QED
      BY <3>1
  <2> QED
    BY <1>1, <2>1, <2>2 DEF GrantIsNoticed
<1>3. CASE Propagate
  BY <1>3 DEF Propagate, world, Obstructed
<1> QED
  BY <1>2, <1>3
     DEF Next, vars, world, PropagateFails, Unresolved, Check, Restart, Deny, AddSecret,
         OutageBegins, OutageEnds

LEMMA NextRotation == ASSUME RotationInv, [Next]_vars PROVE RotationInv'
<1>1. CASE Obstructed \/ Obstructed'
  BY <1>1, ObstructedRotation
<1>2. CASE ~Obstructed /\ ~Obstructed'
  <2>1. CASE Propagate \/ PropagateFails \/ Unresolved
    BY <1>2, <2>1, PropagateRotation, FailingPassRotation
  <2>2. CASE Check \/ Restart \/ Tick
    BY <1>2, <2>2, CheckRotation, RestartRotation, TickRotation
  <2>3. CASE OutageBegins \/ OutageEnds \/ \E i \in Targets : Grant(i)
    BY <1>2, <2>3, OutageBeginsRotation, OutageEndsRotation, GrantRotation
  <2>4. CASE (\E i \in Targets : Deny(i)) \/ AddSecret
    BY <1>2, <2>4 DEF Deny, AddSecret, Obstructed
  <2>5. CASE UNCHANGED vars
    BY <2>5
       DEF vars, world, RotationInv, TypeOK, GrantsFirst, GrantIsNoticed, Obstructed, Outage,
           Steady, Recovering, AtLeast, AtMost, HasToken, Waits, Unchecked, Answered
  <2> QED
    BY <2>1, <2>2, <2>3, <2>4, <2>5 DEF Next
<1> QED
  BY <1>1, <1>2

\* At every moment, until a target is denied or the credentials cannot be selected any
\* more, a token is worth at least, and a grant has waited at most, what the last good
\* pass, the length of the outage and the checks since then allow (reconcilePropagate's
\* requeue, and the AppInstallation's checks that queue a pass).
THEOREM RotationInvariant == Spec => []RotationInv
<1>1. RotationInv /\ [Next]_vars => RotationInv'
  BY NextRotation
<1> QED
  BY <1>1, InitRotation, PTL DEF Spec

-----------------------------------------------------------------------------
(* What follows.                                                           *)

\* While no target is denied and the credentials can be selected (~Obstructed), no token
\* expires in a ControlPlane, whatever fails for up to MaxOutage, provided that
\* --token-renew-buffer exceeds the longest outage by more than one requeue interval: it
\* is the next check of the AppInstallation, not the requeue of the pass that failed,
\* that brings the pass that rotates.
THEOREM TokensOutliveOutages ==
    ASSUME MaxOutage + Interval < RenewBuffer PROVE Spec => []NoTokenExpires
<1>1. RotationInv => NoTokenExpires
  <2> SUFFICES ASSUME RotationInv, ~Obstructed, NEW i \in Targets, HasToken(i)
               PROVE  token[i] > 0
    BY Numbers DEF RotationInv, NoTokenExpires, HasToken, NoToken
  <2> USE DEF RotationInv
  <2>1. Unchecked \in Int /\ Unchecked <= Interval
    BY Numbers DEF Unchecked
  <2>2. token[i] >= RenewBuffer - MaxOutage - Interval
    BY <2>1, Numbers DEF Steady, Outage, Recovering, AtLeast
  <2> QED
    BY <2>2, Numbers
<1> QED
  BY <1>1, RotationInvariant, PTL

\* While no target is denied and the credentials can be selected (~Obstructed), a granted
\* target has its Secret after two requeue intervals and the longest outage, whatever the
\* lifetime of a token and however late the rotation it is queued for.
THEOREM GrantsAreNoticed == Spec => []GrantIsNoticed
<1>1. RotationInv => GrantIsNoticed
  BY DEF RotationInv
<1> QED
  BY <1>1, RotationInvariant, PTL

=============================================================================
