------------------------- MODULE KustomizationProofs -------------------------
(***************************************************************************)
(* The Kustomization controller overlooks nothing, for every number of     *)
(* Kustomizations and sources, every choice of specs and every bound.      *)
(***************************************************************************)
EXTENDS KustomizationController, TLAPS

-----------------------------------------------------------------------------
(* Types.                                                                  *)

\* The objects that stand for nothing are of their types.
LEMMA NothingTypes ==
    /\ SomeSpec \in Specs /\ NoStatus \in Statuses /\ NoSource \in SourceObjects
    /\ NoFluxSource \in FluxSources /\ NoFluxKust \in FluxKusts /\ NoWork \in Works
<1>1. (CHOOSE r \in Revisions : TRUE) \in Revisions
  BY RevisionsAssumption
<1>2. SomeSpec \in Specs
  <2>1. PICK s \in Sources : TRUE
    BY SourcesAssumption
  <2>2. [source |-> s, rev |-> CHOOSE r \in Revisions : TRUE] \in Specs
    BY <1>1 DEF Specs
  <2> QED
    BY <2>2 DEF SomeSpec
<1>3. NoStatus \in Statuses /\ NoSource \in SourceObjects
  BY <1>1 DEF NoStatus, Statuses, NoSource, SourceObjects
<1>4. NoFluxSource \in FluxSources /\ NoFluxKust \in FluxKusts
  BY <1>1, <1>2 DEF NoFluxSource, FluxSources, NoFluxKust, FluxKusts
<1>5. NoWork \in Works
  BY <1>2, <1>3 DEF NoWork, Works
<1> QED
  BY <1>2, <1>3, <1>4, <1>5

\* A call, failed or not, and an edit leave the budgets natural numbers.
LEMMA BudgetTypes ==
    ASSUME edits \in Nat, failures \in Nat, Ok \/ Fault \/ Edit
    PROVE  edits' \in Nat /\ failures' \in Nat
BY DEF Ok, Fault, Edit, budgets

\* What TypeOK says of the objects a pass does not write, and of the pass.
ObjectTypes ==
    /\ source \in [Sources -> SourceObjects]
    /\ kust \in [Kusts -> KustObjects]
    /\ \A k \in Kusts : kust[k].status.invalid = "Unset" <=> kust[k].status.ready = "Unset"
FluxTypes == fluxSource \in [Sources -> FluxSources] /\ fluxKust \in [Kusts -> FluxKusts]
WatchTypes == queue \subseteq Kusts /\ events \subseteq Sources /\ missed \subseteq Sources
PassTypes ==
    pc \in Steps /\ work \in Works /\ (work.kust \in Kusts <=> pc # "idle")
BudgetsOK == edits \in Nat /\ failures \in Nat

LEMMA TypeParts ==
    /\ TypeOK <=> ObjectTypes /\ FluxTypes /\ WatchTypes /\ PassTypes /\ BudgetsOK
    /\ TypeOK' <=> ObjectTypes' /\ FluxTypes' /\ WatchTypes' /\ PassTypes' /\ BudgetsOK'
BY DEF TypeOK, ObjectTypes, FluxTypes, WatchTypes, PassTypes, BudgetsOK

\* The end of a pass.
LEMMA FinishTypes == Finish => PassTypes' /\ pc' = "idle" /\ work'.kust = NoKust
BY NothingTypes, KustsAssumption DEF Finish, Goto, PassTypes, Steps, NoWork

\* With no pass under way, only what is not queued must be up to date.
LEMMA IdleInductive ==
    ASSUME TypeOK', NothingOverlooked', pc' = "idle" PROVE InductiveInv'
BY DEF InductiveInv, SourceRead, StaleSource, PassIsCurrent, PassHolds

-----------------------------------------------------------------------------
(* The steps of a pass.                                                    *)

\* It holds initially.
LEMMA InitInductive == Init => InductiveInv
<1> SUFFICES ASSUME Init PROVE InductiveInv
  OBVIOUS
<1>1. source \in [Sources -> SourceObjects]
  BY NothingTypes DEF Init, SourceObjects
<1>2. PICK spec \in [Kusts -> Specs] :
         kust = [k \in Kusts |-> [exists |-> TRUE, uid |-> 1, spec |-> spec[k],
                                  status |-> NoStatus]]
  BY DEF Init
<1>3. kust \in [Kusts -> KustObjects] /\ \A k \in Kusts : kust[k].status = NoStatus
  BY <1>2, NothingTypes DEF KustObjects
<1>4. TypeOK
  BY <1>1, <1>3, NothingTypes, KustsAssumption, KustBoundsAssumption
     DEF Init, TypeOK, NoStatus, NoWork, Steps
<1> QED
  BY <1>4 DEF Init, InductiveInv, SourceRead, StaleSource, PassIsCurrent, PassHolds,
     NothingOverlooked

\* A pass that fails leaves its object queued.
LEMMA FailKeeps ==
    ASSUME InductiveInv, pc # "idle", Fail, UNCHANGED <<objects, flux>>, Ok \/ Fault
    PROVE  InductiveInv'
<1> USE DEF InductiveInv
<1>1. /\ UNCHANGED <<source, kust, fluxSource, fluxKust, events, missed>>
      /\ queue' = queue \cup {work.kust} /\ Finish
  BY DEF Fail, Requeue, Enqueue, objects, flux
<1>2. TypeOK'
  BY <1>1, TypeParts, FinishTypes, BudgetTypes
     DEF ObjectTypes, FluxTypes, WatchTypes, PassTypes, BudgetsOK
<1>3. NothingOverlooked'
  BY <1>1 DEF NothingOverlooked, UpToDate, SourceMirrored
<1> QED
  BY <1>1, <1>2, <1>3, IdleInductive, FinishTypes

\* A pass begins with the object as it is.
LEMMA TakeKeeps == ASSUME InductiveInv, NEW k \in Kusts, Take(k) PROVE InductiveInv'
<1> USE DEF InductiveInv
<1>1. /\ UNCHANGED <<source, kust, fluxSource, fluxKust, events, missed>>
      /\ pc = "idle" /\ work.kust \notin Kusts /\ k \in queue
  BY DEF Take, objects, flux, watch, At, TypeOK
<1>2. BudgetsOK'
  BY TypeParts, BudgetTypes DEF Take, BudgetsOK
<1>3. CASE queue' = queue \ {k} /\ kust[k].exists /\ pc' = "getSource"
           /\ work' = [NoWork EXCEPT !.kust = k, !.uid = kust[k].uid,
                                     !.spec = kust[k].spec, !.status = kust[k].status]
  <2>1. /\ work' \in Works /\ work'.kust = k /\ work'.uid = kust[k].uid
        /\ work'.spec = kust[k].spec /\ work'.status = kust[k].status /\ work'.fresh
    <3>1. kust[k] \in KustObjects
      BY DEF TypeOK
    <3>2. NoWork \in Works /\ NoWork.fresh
      BY NothingTypes DEF NoWork
    <3> QED
      BY <1>3, <3>1, <3>2 DEF KustObjects, Works
  <2>2. TypeOK'
    BY <1>1, <1>2, <1>3, <2>1, TypeParts
       DEF ObjectTypes, FluxTypes, WatchTypes, PassTypes, Steps
  <2>3. NothingOverlooked'
    BY <1>1, <1>3, <2>1 DEF NothingOverlooked, UpToDate, SourceMirrored
  <2> QED
    BY <1>1, <1>3, <2>1, <2>2, <2>3
       DEF SourceRead, StaleSource, PassIsCurrent, PassHolds
<1>4. CASE queue' = queue \ {k} /\ ~kust[k].exists /\ UNCHANGED <<pc, work>>
  <2>1. TypeOK'
    BY <1>1, <1>2, <1>4, TypeParts DEF ObjectTypes, FluxTypes, WatchTypes, PassTypes
  <2>2. NothingOverlooked'
    BY <1>1, <1>4 DEF NothingOverlooked, UpToDate, SourceMirrored
  <2> QED
    BY <1>1, <1>4, <2>1, <2>2, IdleInductive
<1>5. CASE UNCHANGED <<watch, pc, work>>
  <2>1. TypeOK'
    BY <1>1, <1>2, <1>5, TypeParts DEF ObjectTypes, FluxTypes, WatchTypes, PassTypes, watch
  <2>2. NothingOverlooked'
    BY <1>1, <1>5 DEF NothingOverlooked, UpToDate, SourceMirrored, watch
  <2> QED
    BY <1>1, <1>5, <2>1, <2>2, IdleInductive
<1> QED
  BY <1>3, <1>4, <1>5 DEF Take, Goto

\* The GitRepository it read is the one there is.
LEMMA GetSourceKeeps == ASSUME InductiveInv, GetSource PROVE InductiveInv'
<1> USE DEF InductiveInv
<1>1. pc = "getSource" /\ UNCHANGED <<source, kust, fluxSource, fluxKust>>
  BY DEF GetSource, At, objects, flux
<1>2. CASE /\ pc' = IF source[work.spec.source].exists THEN "fluxSource" ELSE "patchMissing"
           /\ work' = [work EXCEPT !.src = source[work.spec.source]]
           /\ UNCHANGED watch /\ Ok
  <2>1. work \in Works /\ work.kust \in Kusts /\ work.spec \in Specs
    BY <1>1 DEF TypeOK, Works
  <2>2. source[work.spec.source] \in SourceObjects
    BY <2>1 DEF TypeOK, Specs
  <2>3. /\ work' \in Works /\ work'.kust = work.kust /\ work'.uid = work.uid
        /\ work'.spec = work.spec /\ work'.status = work.status /\ work'.fresh = work.fresh
        /\ work'.src = source[work.spec.source]
    BY <1>2, <2>1, <2>2 DEF Works
  <2>4. UNCHANGED <<queue, events, missed>>
    BY <1>2 DEF watch
  <2>5. TypeOK'
    BY <1>1, <1>2, <2>1, <2>3, <2>4, TypeParts, BudgetTypes
       DEF ObjectTypes, FluxTypes, WatchTypes, PassTypes, BudgetsOK, Steps
  <2>6. NothingOverlooked'
    BY <1>1, <2>3, <2>4 DEF NothingOverlooked, UpToDate, SourceMirrored
  <2>7. SourceRead' /\ StaleSource' /\ PassIsCurrent' /\ PassHolds'
    BY <1>1, <1>2, <2>3, <2>4 DEF SourceRead, StaleSource, PassIsCurrent, PassHolds
  <2> QED
    BY <2>5, <2>6, <2>7
<1>3. CASE Fail /\ Fault
  BY <1>1, <1>3, FailKeeps DEF objects, flux
<1> QED
  BY <1>2, <1>3 DEF GetSource, Goto

\* What is written is what the source is now, or everybody concerned will hear of the
\* source.  So it does no harm to others, who may be at rest.
LEMMA SyncFluxSourceKeeps == ASSUME InductiveInv, SyncFluxSource PROVE InductiveInv'
<1> USE DEF InductiveInv
<1> DEFINE s == work.spec.source
           wanted == [owner |-> work.src.uid, rev |-> work.src.rev, interval |-> work.spec.rev]
           Written == fluxSource'[s].owner = source[s].uid /\ fluxSource'[s].rev = source[s].rev
<1>1. /\ pc = "fluxSource" /\ UNCHANGED <<source, kust, fluxKust>>
      /\ work \in Works /\ work.kust \in Kusts /\ s \in Sources
      /\ work.src \in SourceObjects /\ work.spec \in Specs
  BY DEF SyncFluxSource, At, objects, TypeOK, Works, Specs
<1>2. CASE /\ fluxSource' = [fluxSource EXCEPT ![s] = wanted]
           /\ pc' = "fluxKust" /\ UNCHANGED work /\ UNCHANGED watch /\ Ok
  <2>1. UNCHANGED <<queue, events, missed>>
    BY <1>2 DEF watch
  <2>2. /\ fluxSource' \in [Sources -> FluxSources]
        /\ fluxSource'[s].owner = work.src.uid /\ fluxSource'[s].rev = work.src.rev
        /\ \A t \in Sources \ {s} : fluxSource'[t] = fluxSource[t]
    BY <1>1, <1>2 DEF TypeOK, FluxSources, SourceObjects, Specs
  <2>3. TypeOK'
    BY <1>1, <1>2, <2>1, <2>2, TypeParts, BudgetTypes
       DEF ObjectTypes, FluxTypes, WatchTypes, PassTypes, BudgetsOK, Steps
  <2>4. \/ Written /\ source[s].exists
        \/ s \in events \cup missed \/ Referrers(s) \subseteq queue
    BY <1>1, <2>2 DEF StaleSource, SourceRead
  <2>5. NothingOverlooked'
    <3> SUFFICES ASSUME NEW k \in Kusts, k \notin queue, k # work.kust, kust[k].exists,
                        kust[k].spec.source \notin events \cup missed
                 PROVE  UpToDate(k)'
      BY <1>1, <1>2, <2>1 DEF NothingOverlooked
    <3>1. UpToDate(k) /\ kust[k].spec.source \in Sources
      BY DEF NothingOverlooked, TypeOK, KustObjects, Specs
    <3>2. CASE kust[k].spec.source = s
      <4>1. Written
        BY <2>4, <3>2 DEF Referrers
      <4> QED
        BY <1>1, <3>1, <3>2, <4>1 DEF UpToDate, SourceMirrored
    <3>3. CASE kust[k].spec.source # s
      BY <1>1, <2>2, <3>1, <3>3 DEF UpToDate, SourceMirrored
    <3> QED
      BY <3>2, <3>3
  <2>6. PassHolds'
    <3> SUFFICES ASSUME work.kust \notin queue, s \notin events \cup missed
                 PROVE  source[s].exists /\ Written
      BY <1>1, <1>2, <2>1 DEF PassHolds, SourceMirrored
    <3>1. work.kust \in Referrers(s)
      BY <1>1 DEF PassIsCurrent, Referrers
    <3> QED
      BY <2>4, <3>1
  <2>7. SourceRead' /\ StaleSource' /\ PassIsCurrent'
    BY <1>1, <1>2, <2>1 DEF SourceRead, StaleSource, PassIsCurrent
  <2> QED
    BY <2>3, <2>5, <2>6, <2>7
<1>3. CASE UNCHANGED fluxSource /\ Fail /\ Fault
  BY <1>1, <1>3, FailKeeps DEF objects, flux
<1> QED
  BY <1>2, <1>3 DEF SyncFluxSource, Goto, WakesNobody

\* A change of the Flux Kustomization queues its object; without one it is what it was.
LEMMA SyncFluxKustKeeps == ASSUME InductiveInv, SyncFluxKustomization PROVE InductiveInv'
<1> USE DEF InductiveInv
<1> DEFINE k == work.kust
           wanted == [fluxKust[k] EXCEPT !.owner = work.uid, !.spec = work.spec,
                         !.seen = @ /\ fluxKust[k].spec = work.spec]
<1>1. /\ pc = "fluxKust" /\ UNCHANGED <<source, kust, fluxSource>>
      /\ work \in Works /\ k \in Kusts /\ work.spec \in Specs /\ fluxKust[k] \in FluxKusts
  BY DEF SyncFluxKustomization, At, objects, TypeOK, Works
<1>2. CASE /\ fluxKust' = [fluxKust EXCEPT ![k] = wanted]
           /\ pc' = "patchFound" /\ work' = [work EXCEPT !.ready = wanted.ready]
           /\ Enqueue(IF wanted = fluxKust[k] THEN {} ELSE {k}) /\ Ok
  <2>1. /\ UNCHANGED <<events, missed>>
        /\ queue' = queue \/ queue' = queue \cup {k}
        /\ k \notin queue' => queue' = queue /\ wanted = fluxKust[k]
    BY <1>2 DEF Enqueue
  <2>2. /\ wanted \in FluxKusts /\ wanted.owner = work.uid /\ wanted.spec = work.spec
    BY <1>1 DEF FluxKusts, Works
  <2>3. /\ fluxKust' \in [Kusts -> FluxKusts] /\ fluxKust'[k] = wanted
        /\ \A j \in Kusts \ {k} : fluxKust'[j] = fluxKust[j]
    BY <1>1, <1>2, <2>2 DEF TypeOK
  <2>4. /\ work' \in Works /\ work'.kust = work.kust /\ work'.uid = work.uid
        /\ work'.spec = work.spec /\ work'.status = work.status /\ work'.fresh = work.fresh
        /\ work'.ready = wanted.ready
    BY <1>1, <1>2, <2>2 DEF Works, FluxKusts
  <2> HIDE DEF wanted
  <2>5. TypeOK'
    BY <1>1, <1>2, <2>1, <2>3, <2>4, TypeParts, BudgetTypes
       DEF ObjectTypes, FluxTypes, WatchTypes, PassTypes, BudgetsOK, Steps
  <2>6. NothingOverlooked'
    BY <1>1, <2>1, <2>3, <2>4 DEF NothingOverlooked, UpToDate, SourceMirrored
  <2>7. SourceRead' /\ StaleSource' /\ PassIsCurrent'
    BY <1>1, <1>2, <2>1, <2>4 DEF SourceRead, StaleSource, PassIsCurrent
  <2>8. PassHolds'
    BY <1>1, <1>2, <2>1, <2>2, <2>3, <2>4 DEF PassHolds, SourceMirrored
  <2> QED
    BY <2>5, <2>6, <2>7, <2>8
<1>3. CASE UNCHANGED fluxKust /\ Fail /\ Fault
  BY <1>1, <1>3, FailKeeps DEF objects, flux
<1> QED
  BY <1>2, <1>3 DEF SyncFluxKustomization, Goto

\* The status that a patch leaves has this pass's conditions, if it was the fetched one.
LEMMA PatchedStatus ==
    ASSUME InductiveInv, pc \in {"patchFound", "patchMissing"},
           NEW old \in Statuses, old.invalid = "Unset" <=> old.ready = "Unset",
           NEW observed \in BOOLEAN
    PROVE  /\ Patched(old, observed) \in Statuses
           /\ Patched(old, observed).invalid = "Unset" <=> Patched(old, observed).ready = "Unset"
           /\ old = work.status /\ observed =>
                 Patched(old, observed) = [invalid |-> Conditions.invalid,
                                           ready |-> Conditions.ready, observed |-> TRUE]
<1>1. work.status \in Statuses /\ work.ready \in {"Unset", "True", "False"}
  BY DEF InductiveInv, TypeOK, Works
<1>2. /\ Conditions = [invalid |-> Conditions.invalid, ready |-> Conditions.ready]
      /\ Conditions.invalid \in {"True", "False"}
      /\ Conditions.ready \in {"Unknown", "True", "False"}
  BY <1>1 DEF Conditions, Mirror, At
<1> DEFINE Same == [invalid |-> work.status.invalid, ready |-> work.status.ready] = Conditions
           invalid == IF Same THEN old.invalid ELSE Conditions.invalid
           ready == IF Same THEN old.ready ELSE Conditions.ready
           current == IF work.status.observed THEN old.observed ELSE observed
<1>3. Patched(old, observed) = [invalid |-> invalid, ready |-> ready, observed |-> current]
  BY DEF Patched
<1>4. Same => work.status.invalid = Conditions.invalid /\ work.status.ready = Conditions.ready
  BY <1>2
<1>5. /\ invalid \in {"Unset", "True", "False"} /\ ready \in {"Unset", "Unknown", "True", "False"}
      /\ invalid = "Unset" <=> ready = "Unset"
      /\ old = work.status => invalid = Conditions.invalid /\ ready = Conditions.ready
  BY <1>1, <1>2, <1>4 DEF Statuses
<1>6. current \in BOOLEAN /\ (old = work.status /\ observed => current = TRUE)
  <2>1. CASE work.status.observed
    BY <1>1, <2>1 DEF Statuses
  <2>2. CASE ~work.status.observed
    BY <2>2
  <2> QED
    BY <2>1, <2>2
<1> HIDE DEF invalid, ready, current
<1>7. Patched(old, observed) \in Statuses
  BY <1>3, <1>5, <1>6 DEF Statuses
<1>8. Patched(old, observed).invalid = "Unset" <=> Patched(old, observed).ready = "Unset"
  BY <1>3, <1>5
<1>9. ASSUME old = work.status, observed
      PROVE  Patched(old, observed) = [invalid |-> Conditions.invalid,
                                       ready |-> Conditions.ready, observed |-> TRUE]
  BY <1>3, <1>5, <1>6, <1>9
<1> QED
  BY <1>7, <1>8, <1>9

\* An object that a patch leaves unqueued was up to date with the patch.
LEMMA PatchStatusKeeps == ASSUME InductiveInv, PatchStatus PROVE InductiveInv'
<1> USE DEF InductiveInv
<1>1. PICK k \in Kusts : k = work.kust /\ pc \in {"patchFound", "patchMissing"}
  BY DEF PatchStatus, At, TypeOK
<1>2. /\ UNCHANGED <<source, fluxSource, fluxKust>>
      /\ kust[k] \in KustObjects /\ kust[k].status \in Statuses
      /\ kust[k].status.invalid = "Unset" <=> kust[k].status.ready = "Unset"
      /\ work.fresh \in BOOLEAN
  BY DEF PatchStatus, flux, TypeOK, KustObjects, Works
<1>3. ASSUME kust[k].exists,
             NEW observed \in IF kust[k].uid = work.uid THEN {work.fresh} ELSE BOOLEAN,
             kust' = [kust EXCEPT ![k].status = Patched(@, observed)],
             Enqueue(IF kust'[k] = kust[k] THEN {} ELSE {k}), Finish, Ok
      PROVE  InductiveInv'
  <2> DEFINE new == Patched(kust[k].status, observed)
  <2>1. /\ new \in Statuses /\ (new.invalid = "Unset" <=> new.ready = "Unset")
        /\ kust[k].status = work.status /\ observed =>
              new = [invalid |-> Conditions.invalid, ready |-> Conditions.ready,
                     observed |-> TRUE]
    BY <1>1, <1>2, <1>3, PatchedStatus
  <2>2. kust' = [kust EXCEPT ![k].status = new]
    BY <1>3
  <2> HIDE DEF new
  <2>3. /\ kust' \in [Kusts -> KustObjects] /\ kust'[k] = [kust[k] EXCEPT !.status = new]
        /\ kust'[k].status = new
        /\ \A j \in Kusts \ {k} : kust'[j] = kust[j]
    BY <1>1, <1>2, <2>1, <2>2 DEF TypeOK, KustObjects
  <2>4. /\ UNCHANGED <<events, missed>>
        /\ queue' = queue \/ queue' = queue \cup {k}
        /\ k \notin queue' => kust'[k] = kust[k]
    BY <1>3 DEF Enqueue
  <2>5. TypeOK'
    BY <1>1, <1>2, <1>3, <2>1, <2>3, <2>4, TypeParts, BudgetTypes, FinishTypes
       DEF ObjectTypes, FluxTypes, WatchTypes, BudgetsOK
  <2>6. ASSUME k \notin queue', kust[k].spec.source \notin events \cup missed
        PROVE  UpToDate(k)'
    <3>1. /\ k \notin queue /\ kust'[k] = kust[k] /\ kust[k].status = new
      BY <2>3, <2>4, <2>6
    <3>2. /\ work.fresh /\ kust[k].uid = work.uid /\ kust[k].spec = work.spec
          /\ kust[k].status = work.status
      BY <1>1, <1>2, <3>1 DEF PassIsCurrent
    <3>3. new = [invalid |-> Conditions.invalid, ready |-> Conditions.ready, observed |-> TRUE]
      BY <1>3, <2>1, <3>2
    <3>4. CASE pc = "patchMissing"
      <4>1. ~source[work.spec.source].exists
        BY <1>1, <2>6, <3>1, <3>2, <3>4 DEF PassHolds
      <4>2. new = [invalid |-> "True", ready |-> "False", observed |-> TRUE]
        BY <3>3, <3>4 DEF Conditions, At
      <4>3. /\ new.observed /\ new.invalid = "True" /\ new.ready = "False"
        BY <4>2
      <4> QED
        BY <1>2, <3>1, <3>2, <4>1, <4>3 DEF UpToDate
    <3>5. CASE pc = "patchFound"
      <4>1. /\ source[work.spec.source].exists /\ SourceMirrored(work.spec.source)
            /\ fluxKust[k].owner = work.uid /\ fluxKust[k].spec = work.spec
            /\ fluxKust[k].ready = work.ready
        BY <1>1, <2>6, <3>1, <3>2, <3>5 DEF PassHolds
      <4>2. new = [invalid |-> "False", ready |-> Mirror(work.ready), observed |-> TRUE]
        BY <3>3, <3>5 DEF Conditions, At
      <4>3. /\ new.observed /\ new.invalid = "False" /\ new.ready = Mirror(work.ready)
        BY <4>2
      <4> QED
        BY <1>2, <3>1, <3>2, <4>1, <4>3 DEF UpToDate, SourceMirrored
    <3> QED
      BY <1>1, <1>2, <3>4, <3>5
  <2>7. NothingOverlooked'
    <3> SUFFICES ASSUME NEW j \in Kusts, j \notin queue', kust'[j].exists,
                        kust'[j].spec.source \notin events \cup missed
                 PROVE  UpToDate(j)'
      BY <2>4 DEF NothingOverlooked
    <3>1. CASE j = k
      BY <2>3, <2>4, <2>6, <3>1
    <3>2. CASE j # k
      BY <1>1, <1>2, <2>3, <2>4, <3>2 DEF NothingOverlooked, UpToDate, SourceMirrored
    <3> QED
      BY <3>1, <3>2
  <2> QED
    BY <1>3, <2>5, <2>7, IdleInductive, FinishTypes
<1>4. CASE UNCHANGED kust /\ Fail /\ (Ok \/ Fault)
  BY <1>1, <1>2, <1>4, FailKeeps DEF objects, flux
<1> QED
  BY <1>1, <1>3, <1>4 DEF PatchStatus

-----------------------------------------------------------------------------
(* The watches and the process.                                            *)

\* An event reaches everybody, or is remembered as missed.
LEMMA MapSourceKeeps == ASSUME InductiveInv, NEW s \in Sources, MapSource(s) PROVE InductiveInv'
<1> USE DEF InductiveInv
<1>1. /\ UNCHANGED <<source, kust, fluxSource, fluxKust, pc, work>>
      /\ events' = events \ {s}
      /\ \/ queue' = queue \cup Referrers(s) /\ missed' = missed
         \/ queue' = queue /\ missed' = missed \cup {s}
  BY DEF MapSource, objects, flux
<1>2. TypeOK'
  BY <1>1, TypeParts, BudgetTypes
     DEF MapSource, ObjectTypes, FluxTypes, WatchTypes, PassTypes, BudgetsOK, Referrers
<1>3. NothingOverlooked'
  BY <1>1 DEF NothingOverlooked, UpToDate, SourceMirrored, Referrers
<1>4. SourceRead' /\ PassIsCurrent'
  BY <1>1 DEF SourceRead, PassIsCurrent
<1>5. StaleSource'
  BY <1>1 DEF StaleSource, Referrers
<1>6. PassHolds'
  <2> SUFFICES ASSUME pc # "idle", work.kust \notin queue',
                      work.spec.source \notin events' \cup missed'
               PROVE  work.kust \notin queue /\ work.spec.source \notin events \cup missed
    BY <1>1 DEF PassHolds, SourceMirrored
  <2>1. work.kust \notin queue
    BY <1>1
  <2>2. work.kust \in Referrers(work.spec.source)
    BY <2>1 DEF PassIsCurrent, Referrers, TypeOK
  <2> QED
    BY <1>1, <2>1, <2>2
<1> QED
  BY <1>2, <1>3, <1>4, <1>5, <1>6

\* A resync queues everybody.
LEMMA ResyncKeeps == ASSUME InductiveInv, Resync PROVE InductiveInv'
<1> USE DEF InductiveInv
<1>1. /\ UNCHANGED <<source, kust, fluxSource, fluxKust, events, pc, work, edits, failures>>
      /\ queue' = queue \cup {k \in Kusts : kust[k].exists} /\ missed' = {}
  BY DEF Resync, objects, flux, budgets
<1>2. TypeOK'
  BY <1>1, TypeParts
     DEF ObjectTypes, FluxTypes, WatchTypes, PassTypes, BudgetsOK
<1>3. NothingOverlooked' /\ SourceRead' /\ PassIsCurrent'
  BY <1>1 DEF NothingOverlooked, SourceRead, PassIsCurrent
<1>4. StaleSource'
  BY <1>1 DEF StaleSource, Referrers
<1>5. PassHolds'
  BY <1>1 DEF PassHolds, PassIsCurrent, TypeOK
<1> QED
  BY <1>2, <1>3, <1>4, <1>5

\* So does a new process.
LEMMA CrashKeeps == ASSUME InductiveInv, Crash PROVE InductiveInv'
<1> USE DEF InductiveInv
<1>1. /\ UNCHANGED <<source, kust, fluxSource, fluxKust>> /\ Finish
      /\ queue' = {k \in Kusts : kust[k].exists} /\ events' = {} /\ missed' = {}
  BY DEF Crash, objects, flux
<1>2. TypeOK'
  BY <1>1, TypeParts, BudgetTypes, FinishTypes
     DEF Crash, ObjectTypes, FluxTypes, WatchTypes, BudgetsOK
<1>3. NothingOverlooked'
  BY <1>1 DEF NothingOverlooked
<1> QED
  BY <1>1, <1>2, <1>3, IdleInductive, FinishTypes

-----------------------------------------------------------------------------
(* The environment.                                                        *)

\* A source may change at any time, for its event is on the way.
LEMMA SourceChangeKeeps ==
    ASSUME InductiveInv, NEW s \in Sources, NEW new \in SourceObjects, SourceChanges(s, new),
           BudgetsOK'
    PROVE  InductiveInv'
<1> USE DEF InductiveInv
<1>1. /\ UNCHANGED <<kust, fluxSource, fluxKust, queue, missed, pc, work>>
      /\ source' = [source EXCEPT ![s] = new] /\ events' = events \cup {s}
  BY DEF SourceChanges, flux
<1>2. source' \in [Sources -> SourceObjects] /\ \A t \in Sources \ {s} : source'[t] = source[t]
  BY <1>1 DEF TypeOK
<1>3. TypeOK'
  BY <1>1, <1>2, TypeParts DEF ObjectTypes, FluxTypes, WatchTypes, PassTypes
<1>4. NothingOverlooked'
  <2> SUFFICES ASSUME NEW k \in Kusts, k \notin queue \cup {work.kust}, kust[k].exists,
                      kust[k].spec.source \notin events' \cup missed
               PROVE  UpToDate(k)'
    BY <1>1 DEF NothingOverlooked
  <2>1. kust[k].spec.source \in Sources \ {s} /\ UpToDate(k)
    BY <1>1 DEF NothingOverlooked, TypeOK, KustObjects, Specs
  <2> QED
    BY <1>1, <1>2, <2>1 DEF UpToDate, SourceMirrored
<1>5. SourceRead' /\ PassIsCurrent'
  BY <1>1 DEF SourceRead, PassIsCurrent
<1>6. work.spec.source \in Sources
  BY DEF TypeOK, Works, Specs
<1>7. StaleSource'
  BY <1>1, <1>2, <1>6 DEF StaleSource, Referrers
<1>8. PassHolds'
  BY <1>1, <1>2, <1>6 DEF PassHolds, SourceMirrored
<1> QED
  BY <1>3, <1>4, <1>5, <1>7, <1>8

\* So may a Kustomization, for it is queued.
LEMMA KustChangeKeeps ==
    ASSUME InductiveInv, NEW k \in Kusts, NEW new \in KustObjects,
           new.status.invalid = "Unset" <=> new.status.ready = "Unset",
           KustChanges(k, new), BudgetsOK'
    PROVE  InductiveInv'
<1> USE DEF InductiveInv
<1>1. /\ UNCHANGED <<source, fluxSource, fluxKust, events, missed, pc>>
      /\ kust' = [kust EXCEPT ![k] = new] /\ queue' = queue \cup {k}
  BY DEF KustChanges, flux, Enqueue
<1>2. /\ work' \in Works /\ work'.kust = work.kust /\ work'.uid = work.uid
      /\ work'.spec = work.spec /\ work'.status = work.status /\ work'.src = work.src
      /\ work'.ready = work.ready /\ (work.kust # k => work'.fresh = work.fresh)
  BY DEF KustChanges, TypeOK, Works
<1>3. /\ kust' \in [Kusts -> KustObjects] /\ kust'[k] = new
      /\ \A j \in Kusts \ {k} : kust'[j] = kust[j]
  BY <1>1 DEF TypeOK
<1>4. TypeOK'
  BY <1>1, <1>2, <1>3, TypeParts DEF ObjectTypes, FluxTypes, WatchTypes, PassTypes
<1>5. NothingOverlooked'
  BY <1>1, <1>2, <1>3 DEF NothingOverlooked, UpToDate, SourceMirrored
<1>6. PassIsCurrent'
  BY <1>1, <1>2, <1>3 DEF PassIsCurrent, TypeOK
<1>7. SourceRead' /\ PassHolds'
  BY <1>1, <1>2 DEF SourceRead, PassHolds, SourceMirrored
<1>8. StaleSource'
  BY <1>1, <1>2, <1>3 DEF StaleSource, Referrers
<1> QED
  BY <1>4, <1>5, <1>6, <1>7, <1>8

\* And a Flux Kustomization, for its owner is queued.
LEMMA FluxKustChangeKeeps ==
    ASSUME InductiveInv, NEW k \in Kusts, NEW new \in FluxKusts, FluxKustChanges(k, new),
           BudgetsOK'
    PROVE  InductiveInv'
<1> USE DEF InductiveInv
<1>1. /\ UNCHANGED <<source, kust, fluxSource, events, missed, pc, work>>
      /\ fluxKust' = [fluxKust EXCEPT ![k] = new] /\ queue' = queue \cup {k}
  BY DEF FluxKustChanges, objects, Owns, Enqueue
<1>2. fluxKust' \in [Kusts -> FluxKusts] /\ \A j \in Kusts \ {k} : fluxKust'[j] = fluxKust[j]
  BY <1>1 DEF TypeOK
<1>3. TypeOK'
  BY <1>1, <1>2, TypeParts DEF ObjectTypes, FluxTypes, WatchTypes, PassTypes
<1>4. NothingOverlooked'
  BY <1>1, <1>2 DEF NothingOverlooked, UpToDate, SourceMirrored
<1>5. SourceRead' /\ PassIsCurrent' /\ StaleSource'
  BY <1>1 DEF SourceRead, PassIsCurrent, StaleSource, Referrers
<1>6. PassHolds'
  BY <1>1, <1>2 DEF PassHolds, SourceMirrored, TypeOK
<1> QED
  BY <1>3, <1>4, <1>5, <1>6

\* A Flux source that is collected mirrors nothing that is there, and one that somebody
\* deletes is a change that nobody is told of.
LEMMA FluxSourceGoes ==
    ASSUME InductiveInv, NEW s \in Sources, fluxSource' = [fluxSource EXCEPT ![s] = NoFluxSource],
           UNCHANGED <<objects, fluxKust, queue, events, pc, work>>, BudgetsOK',
           \/ UNCHANGED missed /\ ~Alive(source[s], fluxSource[s].owner)
           \/ missed' = missed \cup {s}
    PROVE  InductiveInv'
<1> USE DEF InductiveInv
<1>1. UNCHANGED <<source, kust, fluxKust, queue, events, pc, work>>
  BY DEF objects
<1>2. /\ fluxSource' \in [Sources -> FluxSources]
      /\ \A t \in Sources \ {s} : fluxSource'[t] = fluxSource[t]
  BY NothingTypes DEF TypeOK
<1>3. TypeOK'
  BY <1>1, <1>2, TypeParts DEF ObjectTypes, FluxTypes, WatchTypes, PassTypes
<1>4. missed \subseteq missed'
         /\ (s \notin missed' => ~(source[s].exists /\ SourceMirrored(s)))
  BY DEF Alive, SourceMirrored
<1>5. NothingOverlooked'
  <2> SUFFICES ASSUME NEW k \in Kusts, k \notin queue \cup {work.kust}, kust[k].exists,
                      kust[k].spec.source \notin events \cup missed'
               PROVE  UpToDate(k)'
    BY <1>1 DEF NothingOverlooked
  <2>1. UpToDate(k) /\ kust[k].spec.source \in Sources
    BY <1>4 DEF NothingOverlooked, TypeOK, KustObjects, Specs
  <2>2. source[kust[k].spec.source].exists => kust[k].spec.source # s
    BY <1>4, <2>1 DEF UpToDate
  <2> QED
    BY <1>1, <1>2, <2>1, <2>2 DEF UpToDate, SourceMirrored
<1>6. SourceRead' /\ PassIsCurrent'
  BY <1>1 DEF SourceRead, PassIsCurrent
<1>7. StaleSource'
  BY <1>1, <1>4 DEF StaleSource, Referrers
<1>8. PassHolds'
  <2> SUFFICES ASSUME pc # "idle", work.kust \notin queue,
                      work.spec.source \notin events \cup missed'
               PROVE  pc \in {"fluxKust", "patchFound"} =>
                         fluxSource'[work.spec.source] = fluxSource[work.spec.source]
    BY <1>1, <1>4 DEF PassHolds, SourceMirrored
  <2>1. pc \in {"fluxKust", "patchFound"} => work.spec.source \in Sources \ {s}
    BY <1>4 DEF PassHolds, TypeOK, Works, Specs
  <2> QED
    BY <1>2, <2>1
<1> QED
  BY <1>3, <1>5, <1>6, <1>7, <1>8

\* What users, the garbage collector and Flux do is one of these.
LEMMA EnvironmentKeeps == ASSUME InductiveInv, Environment PROVE InductiveInv'
<1> USE DEF InductiveInv
<1>1. ASSUME NEW s \in Sources, NEW r \in Revisions, CreateSource(s, r) \/ AmendSource(s, r)
      PROVE  InductiveInv'
  <2>1. source[s] \in SourceObjects
    BY DEF TypeOK
  <2>2. BudgetsOK'
    BY <1>1, BudgetTypes DEF CreateSource, AmendSource, TypeOK, BudgetsOK
  <2> QED
    <3>1. /\ [exists |-> TRUE, uid |-> source[s].uid + 1, rev |-> r] \in SourceObjects
          /\ [source[s] EXCEPT !.rev = r] \in SourceObjects
      BY <2>1 DEF SourceObjects
    <3> QED
      BY <1>1, <2>2, <3>1, SourceChangeKeeps DEF CreateSource, AmendSource
<1>2. ASSUME NEW s \in Sources, DeleteSource(s) PROVE InductiveInv'
  <2>1. source[s] \in SourceObjects
    BY DEF TypeOK
  <2>2. BudgetsOK'
    BY <1>2, BudgetTypes DEF DeleteSource, TypeOK, BudgetsOK
  <2> QED
    BY <1>2, <2>1, <2>2, SourceChangeKeeps DEF DeleteSource, SourceObjects
<1>3. ASSUME NEW s \in Sources, CollectFluxSource(s) \/ LoseFluxSource(s) PROVE InductiveInv'
  <2>1. BudgetsOK'
    BY <1>3, BudgetTypes DEF CollectFluxSource, LoseFluxSource, TypeOK, BudgetsOK, budgets
  <2>2. UNCHANGED <<objects, fluxKust, queue, events, pc, work>>
    BY <1>3 DEF CollectFluxSource, LoseFluxSource, watch
  <2>3. \/ UNCHANGED missed /\ ~Alive(source[s], fluxSource[s].owner)
        \/ missed' = missed \cup {s}
    BY <1>3 DEF CollectFluxSource, LoseFluxSource, watch
  <2> QED
    BY <1>3, <2>1, <2>2, <2>3, FluxSourceGoes DEF CollectFluxSource, LoseFluxSource
<1>4. ASSUME NEW k \in Kusts, NEW spec \in SpecChoices[k],
             CreateKust(k, spec) \/ EditKust(k, spec)
      PROVE  InductiveInv'
  <2>1. spec \in Specs /\ kust[k] \in KustObjects
        /\ (kust[k].status.invalid = "Unset" <=> kust[k].status.ready = "Unset")
    BY ChoicesAssumption DEF Specs, TypeOK
  <2>2. BudgetsOK'
    BY <1>4, BudgetTypes DEF CreateKust, EditKust, TypeOK, BudgetsOK
  <2>3. CASE CreateKust(k, spec)
    <3>1. [exists |-> TRUE, uid |-> kust[k].uid + 1, spec |-> spec, status |-> NoStatus]
             \in KustObjects
      BY <2>1, NothingTypes DEF KustObjects
    <3> QED
      BY <2>2, <2>3, <3>1, KustChangeKeeps DEF CreateKust, NoStatus
  <2>4. CASE EditKust(k, spec)
    <3> DEFINE new == [kust[k] EXCEPT !.spec = spec, !.status.observed = FALSE]
    <3>1. /\ new \in KustObjects
          /\ new.status.invalid = "Unset" <=> new.status.ready = "Unset"
      BY <2>1 DEF KustObjects, Statuses
    <3> QED
      BY <2>2, <2>4, <3>1, KustChangeKeeps DEF EditKust
  <2> QED
    BY <1>4, <2>3, <2>4
<1>5. ASSUME NEW k \in Kusts, DeleteKust(k) PROVE InductiveInv'
  <2> DEFINE new == [kust[k] EXCEPT !.exists = FALSE]
  <2>1. new \in KustObjects /\ (new.status.invalid = "Unset" <=> new.status.ready = "Unset")
    BY DEF TypeOK, KustObjects
  <2>2. BudgetsOK'
    BY <1>5, BudgetTypes DEF DeleteKust, TypeOK, BudgetsOK
  <2> QED
    BY <1>5, <2>1, <2>2, KustChangeKeeps DEF DeleteKust
<1>6. ASSUME NEW k \in Kusts, NEW ready \in {"True", "False"},
             CollectFluxKust(k) \/ LoseFluxKust(k) \/ FluxChanges(k) \/ FluxReports(k, ready)
      PROVE  InductiveInv'
  <2>1. fluxKust[k] \in FluxKusts
    BY DEF TypeOK
  <2>2. BudgetsOK'
    BY <1>6, BudgetTypes
       DEF CollectFluxKust, LoseFluxKust, FluxChanges, FluxReports, TypeOK, BudgetsOK
  <2>3. \E new \in FluxKusts : FluxKustChanges(k, new)
    BY <1>6, <2>1, NothingTypes
       DEF CollectFluxKust, LoseFluxKust, FluxChanges, FluxReports, FluxKusts
  <2> QED
    BY <2>2, <2>3, FluxKustChangeKeeps
<1> QED
  BY <1>1, <1>2, <1>3, <1>4, <1>5, <1>6 DEF Environment

\* Every step keeps it.
LEMMA NextInductive == ASSUME InductiveInv, [Next]_vars PROVE InductiveInv'
<1>1. CASE UNCHANGED vars
  <2>1. UNCHANGED <<source, kust, fluxSource, fluxKust, queue, events, missed, pc, work,
                    edits, failures>>
    BY <1>1 DEF vars, objects, flux, watch, budgets
  <2>2. TypeOK'
    BY <2>1, TypeParts
       DEF InductiveInv, ObjectTypes, FluxTypes, WatchTypes, PassTypes, BudgetsOK
  <2> QED
    BY <2>1, <2>2 DEF InductiveInv, SourceRead, StaleSource, PassIsCurrent, PassHolds,
       NothingOverlooked, UpToDate, SourceMirrored, Referrers
<1>2. CASE WorkerStep
  BY <1>2, GetSourceKeeps, SyncFluxSourceKeeps, SyncFluxKustKeeps, PatchStatusKeeps
     DEF WorkerStep
<1> QED
  BY <1>1, <1>2, TakeKeeps, MapSourceKeeps, ResyncKeeps, CrashKeeps, EnvironmentKeeps DEF Next

-----------------------------------------------------------------------------
(* The theorems.                                                           *)

\* The inductive invariant holds in every reachable state.
THEOREM KustomizationInvariant == Spec => []InductiveInv
BY InitInductive, NextInductive, PTL DEF Spec

\* Every variable has its type.
THEOREM KustomizationTypes == Spec => []TypeOK
<1>1. InductiveInv => TypeOK
  BY DEF InductiveInv
<1> QED
  BY <1>1, KustomizationInvariant, PTL

\* A Kustomization that is not queued and not in work is as one more pass would leave it,
\* unless a change of its source is on the way or was told to nobody.
THEOREM OverlooksNothing == Spec => []NothingOverlooked
<1>1. InductiveInv => NothingOverlooked
  BY DEF InductiveInv
<1> QED
  BY <1>1, KustomizationInvariant, PTL

=============================================================================
