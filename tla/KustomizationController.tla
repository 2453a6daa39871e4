----------------------- MODULE KustomizationController -----------------------
(***************************************************************************)
(* The Kustomization controller: for every Kustomization object of a       *)
(* namespace it keeps a Flux source that mirrors the GitRepository the     *)
(* object refers to, and a Flux Kustomization that uses that source; the   *)
(* status of the latter is mirrored back.                                  *)
(*                                                                         *)
(* Reconcile never asks to be called again: apart from the retry of a pass *)
(* that failed, only watch events queue an object.  So the module models   *)
(* the queue, who is put on it and what is overlooked.  A step of the one  *)
(* worker is one call to the API server; CreateOrUpdate is one step, since *)
(* the server refuses an Update of a version that is not the current one.  *)
(***************************************************************************)
EXTENDS Naturals

CONSTANTS
    Kusts,           \* names of Kustomizations in the namespace
    Sources,         \* names of GitRepositories in the namespace
    Revisions,       \* numbers for the rest of a spec
    SpecChoices,     \* the specs users write for each Kustomization
    NoKust,          \* the worker has no object
    MaxEdits,        \* bound on edits and deletions by users
    MaxFailures      \* bound on API calls that fail and process crashes

ASSUME KustsAssumption == NoKust \notin Kusts
ASSUME SourcesAssumption == Sources # {}
ASSUME RevisionsAssumption == Revisions \subseteq Nat /\ Revisions # {}
ASSUME ChoicesAssumption ==
    SpecChoices \in [Kusts -> SUBSET [source : Sources, rev : Revisions]]
ASSUME KustBoundsAssumption ==
    {MaxEdits, MaxFailures} \subseteq Nat

VARIABLES
    source,     \* the GitRepository objects (of this platform service)
    kust,       \* the Kustomization objects
    fluxSource, \* the Flux GitRepository of each source
    fluxKust,   \* the Flux Kustomization of each Kustomization
    queue,      \* the Kustomizations on the work queue
    events,     \* the sources with a watch event that is not yet mapped
    missed,     \* the sources of which a change reached nobody
    pc,         \* where the worker is in Reconcile
    work,       \* the local variables of Reconcile
    edits, failures \* what is left of the bounds

objects == <<source, kust>>
flux    == <<fluxSource, fluxKust>>
watch   == <<queue, events, missed>>
budgets == <<edits, failures>>
vars    == <<objects, flux, watch, pc, work, budgets>>

-----------------------------------------------------------------------------
(* Objects.  A uid tells the incarnations of one name apart.               *)

SourceObjects == [exists : BOOLEAN, uid : Nat, rev : Revisions]

\* rev stands for path, interval and prune.
Specs == [source : Sources, rev : Revisions]

\* The conditions SourceInvalid and Ready, and whether observedGeneration is the
\* current generation.
Statuses == [invalid : {"Unset", "True", "False"},
             ready : {"Unset", "Unknown", "True", "False"}, observed : BOOLEAN]
NoStatus == [invalid |-> "Unset", ready |-> "Unset", observed |-> FALSE]

KustObjects == [exists : BOOLEAN, uid : Nat, spec : Specs, status : Statuses]

SomeSpec == CHOOSE spec \in Specs : TRUE
NoSource == [exists |-> FALSE, uid |-> 0, rev |-> CHOOSE r \in Revisions : TRUE]

\* owner is the uid in the controller reference, 0 when there is no object.
FluxSources  == [owner : Nat, rev : Revisions, interval : Revisions]
NoFluxSource == [owner |-> 0, rev |-> CHOOSE r \in Revisions : TRUE,
                 interval |-> CHOOSE r \in Revisions : TRUE]

\* seen: Flux has reported on the current spec.
FluxKusts   == [owner : Nat, spec : Specs, ready : {"Unset", "True", "False"}, seen : BOOLEAN]
NoFluxKust  == [owner |-> 0, spec |-> SomeSpec, ready |-> "Unset", seen |-> FALSE]

Steps == {"idle", "getSource", "fluxSource", "fluxKust", "patchFound", "patchMissing"}

Works == [kust : Kusts \cup {NoKust},
          uid : Nat, spec : Specs, status : Statuses, \* as fetched
          fresh : BOOLEAN,                            \* nobody wrote it since
          src : SourceObjects,                        \* the fetched GitRepository
          ready : {"Unset", "True", "False"}]         \* of the Flux Kustomization

NoWork == [kust |-> NoKust, uid |-> 0, spec |-> SomeSpec, status |-> NoStatus,
           fresh |-> TRUE, src |-> NoSource, ready |-> "Unset"]

\* The process starts in a namespace with objects it has not seen before, and has an
\* event for each.
Init ==
    /\ source = [s \in Sources |-> [NoSource EXCEPT !.exists = TRUE, !.uid = 1]]
    /\ \E spec \in [Kusts -> Specs] :
          /\ \A k \in Kusts : spec[k] \in SpecChoices[k]
          /\ kust = [k \in Kusts |-> [exists |-> TRUE, uid |-> 1, spec |-> spec[k],
                                      status |-> NoStatus]]
    /\ fluxSource = [s \in Sources |-> NoFluxSource]
    /\ fluxKust = [k \in Kusts |-> NoFluxKust]
    /\ queue = Kusts /\ events = {} /\ missed = {}
    /\ pc = "idle"
    /\ work = NoWork
    /\ edits = MaxEdits /\ failures = MaxFailures

-----------------------------------------------------------------------------
(* Reconcile.                                                              *)

Ok    == UNCHANGED budgets
Fault == failures > 0 /\ failures' = failures - 1 /\ UNCHANGED edits

At(step)   == pc = step
Goto(step) == pc' = step
Finish     == Goto("idle") /\ work' = NoWork

\* An event of an object the controller watches by name.
Enqueue(ks) == queue' = queue \cup ks /\ UNCHANGED <<events, missed>>

\* Reconcile returns an error: the object is queued again.  Mutant: it is logged.
LogOnly == UNCHANGED watch
Requeue == Enqueue({work.kust})
Fail    == Finish /\ Requeue

\* An object that is gone needs nothing.
Take(k) ==
    /\ At("idle") /\ k \in queue
    /\ \/ /\ queue' = queue \ {k}
          /\ UNCHANGED <<events, missed>>
          /\ IF kust[k].exists
             THEN /\ Goto("getSource")
                  /\ work' = [NoWork EXCEPT !.kust = k, !.uid = kust[k].uid,
                                 !.spec = kust[k].spec, !.status = kust[k].status]
             ELSE UNCHANGED <<pc, work>>
          /\ Ok
       \/ UNCHANGED <<watch, pc, work>> /\ Fault
    /\ UNCHANGED <<objects, flux>>

GetSource ==
    /\ At("getSource")
    /\ LET src == source[work.spec.source]
       IN  \/ /\ Goto(IF src.exists THEN "fluxSource" ELSE "patchMissing")
              /\ work' = [work EXCEPT !.src = src]
              /\ UNCHANGED watch /\ Ok
           \/ Fail /\ Fault
    /\ UNCHANGED <<objects, flux>>

\* The Kustomizations that refer to s.
Referrers(s) == {k \in Kusts : kust[k].exists /\ kust[k].spec.source = s}

\* Nobody watches the Flux source.  Mutant: its changes queue those that refer to it.
WakesReferrers(s) == Enqueue(Referrers(s))
WakesNobody(s)    == UNCHANGED watch

\* SetControllerReference compares group, kind and name of a controller, not its uid: a
\* source that was created anew takes over what its predecessor left.
SyncFluxSource ==
    /\ At("fluxSource")
    /\ LET s == work.spec.source
           wanted == [owner |-> work.src.uid, rev |-> work.src.rev, interval |-> work.spec.rev]
       IN  \/ /\ fluxSource' = [fluxSource EXCEPT ![s] = wanted]
              /\ Goto("fluxKust") /\ UNCHANGED work
              /\ IF fluxSource[s] = wanted THEN UNCHANGED watch ELSE WakesNobody(s)
              /\ Ok
           \/ UNCHANGED fluxSource /\ Fail /\ Fault
    /\ UNCHANGED <<objects, fluxKust>>

\* Flux's status stays on the object when its spec is written, also when the Kustomization
\* is another of the same name.  A write is an event of an owned object.
SyncFluxKustomization ==
    /\ At("fluxKust")
    /\ LET k == work.kust
           old == fluxKust[k]
           wanted == [old EXCEPT !.owner = work.uid, !.spec = work.spec,
                          !.seen = @ /\ old.spec = work.spec]
       IN  \/ /\ fluxKust' = [fluxKust EXCEPT ![k] = wanted]
              /\ Goto("patchFound") /\ work' = [work EXCEPT !.ready = wanted.ready]
              /\ Enqueue(IF wanted = old THEN {} ELSE {k})
              /\ Ok
           \/ UNCHANGED fluxKust /\ Fail /\ Fault
    /\ UNCHANGED <<objects, fluxSource>>

\* Ready as it is mirrored: Unknown while Flux has reported nothing.  Mutant: nothing.
MirrorRaw(ready) == ready
Mirror(ready)    == IF ready = "Unset" THEN "Unknown" ELSE ready

\* The conditions of this pass.
Conditions == IF At("patchMissing") THEN [invalid |-> "True", ready |-> "False"]
              ELSE [invalid |-> "False", ready |-> Mirror(work.ready)]

\* The patch has the differences to the fetched status, and no precondition: on an
\* object created anew its generation is the current one by coincidence only.
Patched(old, observed) ==
    [invalid  |-> IF [invalid |-> work.status.invalid, ready |-> work.status.ready] = Conditions
                  THEN old.invalid ELSE Conditions.invalid,
     ready    |-> IF [invalid |-> work.status.invalid, ready |-> work.status.ready] = Conditions
                  THEN old.ready ELSE Conditions.ready,
     observed |-> IF work.status.observed THEN old.observed ELSE observed]

\* A patch that changes the object is an event of it.
PatchStatus ==
    /\ At("patchFound") \/ At("patchMissing")
    /\ LET k == work.kust
       IN  \/ /\ kust[k].exists
              /\ \E observed \in IF kust[k].uid = work.uid THEN {work.fresh} ELSE BOOLEAN :
                    /\ kust' = [kust EXCEPT ![k].status = Patched(@, observed)]
                    /\ Enqueue(IF kust'[k] = kust[k] THEN {} ELSE {k})
              /\ Finish /\ Ok
           \/ ~kust[k].exists /\ UNCHANGED kust /\ Fail /\ Ok
           \/ UNCHANGED kust /\ Fail /\ Fault
    /\ UNCHANGED <<source, flux>>

-----------------------------------------------------------------------------
(* The watches and the process.                                            *)

\* The map function of the GitRepository watch.  When its List fails it maps the event
\* to nothing.
MapSource(s) ==
    /\ s \in events
    /\ events' = events \ {s}
    /\ \/ queue' = queue \cup Referrers(s) /\ UNCHANGED missed /\ Ok
       \/ UNCHANGED queue /\ missed' = missed \cup {s} /\ Fault
    /\ UNCHANGED <<objects, flux, pc, work>>

\* The periodic resync of the informers, with an event for every object.
Resync ==
    /\ missed # {}
    /\ queue' = queue \cup {k \in Kusts : kust[k].exists}
    /\ missed' = {}
    /\ UNCHANGED <<objects, flux, events, pc, work, budgets>>

\* A new process begins with an event for every object.
Crash ==
    /\ Finish
    /\ Fault
    /\ queue' = {k \in Kusts : kust[k].exists}
    /\ events' = {} /\ missed' = {}
    /\ UNCHANGED <<objects, flux>>

-----------------------------------------------------------------------------
(* The environment: users, garbage collection, Flux.                       *)

Edit == edits > 0 /\ edits' = edits - 1 /\ UNCHANGED failures

SourceChanges(s, new) ==
    /\ source' = [source EXCEPT ![s] = new]
    /\ events' = events \cup {s}
    /\ UNCHANGED <<kust, flux, queue, missed, pc, work>>

CreateSource(s, r) ==
    /\ ~source[s].exists
    /\ SourceChanges(s, [exists |-> TRUE, uid |-> source[s].uid + 1, rev |-> r])
    /\ Ok

AmendSource(s, r) ==
    /\ source[s].exists /\ r # source[s].rev
    /\ SourceChanges(s, [source[s] EXCEPT !.rev = r])
    /\ Edit

DeleteSource(s) ==
    /\ source[s].exists
    /\ SourceChanges(s, [source[s] EXCEPT !.exists = FALSE])
    /\ Edit

KustChanges(k, new) ==
    /\ kust' = [kust EXCEPT ![k] = new]
    /\ work' = IF work.kust = k THEN [work EXCEPT !.fresh = FALSE] ELSE work
    /\ Enqueue({k})
    /\ UNCHANGED <<source, flux, pc>>

CreateKust(k, spec) ==
    /\ ~kust[k].exists
    /\ KustChanges(k, [exists |-> TRUE, uid |-> kust[k].uid + 1, spec |-> spec,
                       status |-> NoStatus])
    /\ Ok

EditKust(k, spec) ==
    /\ kust[k].exists /\ spec # kust[k].spec
    /\ KustChanges(k, [kust[k] EXCEPT !.spec = spec, !.status.observed = FALSE])
    /\ Edit

DeleteKust(k) ==
    /\ kust[k].exists
    /\ KustChanges(k, [kust[k] EXCEPT !.exists = FALSE])
    /\ Edit

\* Is the owner with this uid still there?
Alive(object, uid) == object.exists /\ object.uid = uid

CollectFluxSource(s) ==
    /\ fluxSource[s].owner # 0 /\ ~Alive(source[s], fluxSource[s].owner)
    /\ fluxSource' = [fluxSource EXCEPT ![s] = NoFluxSource]
    /\ UNCHANGED <<objects, fluxKust, watch, pc, work, budgets>>

\* The watch of owned objects maps them to their owner.  Mutant: it is forgotten.
NotOwns(k) == UNCHANGED watch
Owns(k)    == Enqueue({k})

FluxKustChanges(k, new) ==
    /\ fluxKust' = [fluxKust EXCEPT ![k] = new]
    /\ Owns(k)
    /\ UNCHANGED <<objects, fluxSource, pc, work>>

CollectFluxKust(k) ==
    /\ fluxKust[k].owner # 0 /\ ~Alive(kust[k], fluxKust[k].owner)
    /\ FluxKustChanges(k, NoFluxKust)
    /\ Ok

\* Flux reports on the spec it was given.
FluxReports(k, ready) ==
    /\ fluxKust[k].owner # 0 /\ ~fluxKust[k].seen
    /\ FluxKustChanges(k, [fluxKust[k] EXCEPT !.seen = TRUE, !.ready = ready])
    /\ Ok

\* Later the source has new content, or the cluster refuses it.
FluxChanges(k) ==
    /\ fluxKust[k].owner # 0 /\ fluxKust[k].seen
    /\ FluxKustChanges(k, [fluxKust[k] EXCEPT !.ready = IF @ = "True" THEN "False" ELSE "True"])
    /\ Edit

\* Somebody deletes an object that the controller made.  Of the Flux source nobody hears.
LoseFluxKust(k) ==
    /\ fluxKust[k].owner # 0
    /\ FluxKustChanges(k, NoFluxKust)
    /\ Edit

LoseFluxSource(s) ==
    /\ fluxSource[s].owner # 0
    /\ fluxSource' = [fluxSource EXCEPT ![s] = NoFluxSource]
    /\ missed' = missed \cup {s}
    /\ Edit
    /\ UNCHANGED <<objects, fluxKust, queue, events, pc, work>>

-----------------------------------------------------------------------------
(* The specification.                                                      *)

WorkerStep == GetSource \/ SyncFluxSource \/ SyncFluxKustomization \/ PatchStatus

Environment ==
    \/ \E s \in Sources :
          \/ \E r \in Revisions : CreateSource(s, r) \/ AmendSource(s, r)
          \/ DeleteSource(s) \/ CollectFluxSource(s) \/ LoseFluxSource(s)
    \/ \E k \in Kusts :
          \/ \E spec \in SpecChoices[k] : CreateKust(k, spec) \/ EditKust(k, spec)
          \/ DeleteKust(k) \/ CollectFluxKust(k) \/ LoseFluxKust(k) \/ FluxChanges(k)
          \/ \E ready \in {"True", "False"} : FluxReports(k, ready)

Next ==
    \/ \E k \in Kusts : Take(k)
    \/ WorkerStep
    \/ \E s \in Sources : MapSource(s)
    \/ Resync \/ Crash
    \/ Environment

Spec == Init /\ [][Next]_vars

\* A pass goes on, the queue is first-in first-out, an event is mapped in the end and
\* the informers resync; the garbage collector collects, and Flux reports.
Fairness ==
    /\ WF_vars(WorkerStep)
    /\ \A k \in Kusts : SF_vars(Take(k))
    /\ \A s \in Sources : WF_vars(MapSource(s)) /\ WF_vars(CollectFluxSource(s))
    /\ WF_vars(Resync)
    /\ \A k \in Kusts :
          /\ WF_vars(CollectFluxKust(k))
          /\ WF_vars(\E ready \in {"True", "False"} : FluxReports(k, ready))

FairSpec == Spec /\ Fairness

-----------------------------------------------------------------------------
(* Properties.                                                             *)

\* Every variable has its type, a pass has an object, and a status has both conditions
\* or none.
TypeOK ==
    /\ source \in [Sources -> SourceObjects]
    /\ kust \in [Kusts -> KustObjects]
    /\ \A k \in Kusts : kust[k].status.invalid = "Unset" <=> kust[k].status.ready = "Unset"
    /\ fluxSource \in [Sources -> FluxSources]
    /\ fluxKust \in [Kusts -> FluxKusts]
    /\ queue \subseteq Kusts /\ events \subseteq Sources /\ missed \subseteq Sources
    /\ pc \in Steps /\ work \in Works
    /\ work.kust \in Kusts <=> pc # "idle"
    /\ edits \in Nat /\ failures \in Nat

\* The Flux source of s mirrors s as it is now.
SourceMirrored(s) ==
    fluxSource[s].owner = source[s].uid /\ fluxSource[s].rev = source[s].rev

\* The objects and the status of k are what one more pass would make them.
UpToDate(k) ==
    LET spec == kust[k].spec
        status == kust[k].status
    IN  /\ status.observed
        /\ IF source[spec.source].exists
           THEN /\ SourceMirrored(spec.source)
                /\ fluxKust[k].owner = kust[k].uid /\ fluxKust[k].spec = spec
                /\ status.invalid = "False" /\ status.ready = Mirror(fluxKust[k].ready)
           ELSE status.invalid = "True" /\ status.ready = "False"

\* No change is lost between the watches, the queue and the passes: a Kustomization
\* that is neither queued nor in work is up to date, whatever others do to the source
\* they share, unless its source changed and nobody was told.
NothingOverlooked ==
    \A k \in Kusts \ (queue \cup {work.kust}) :
        kust[k].exists /\ kust[k].spec.source \notin events \cup missed => UpToDate(k)

\* After the last edit the controller comes to rest: no pass goes on waking another, not
\* even when two Kustomizations with different intervals write one Flux source; then
\* everything is up to date with what Flux reported on the current specs, and nothing is
\* left of objects that are gone.
AtRest ==
    /\ queue = {} /\ events = {} /\ missed = {} /\ pc = "idle"
    /\ \A k \in Kusts : IF kust[k].exists
                        THEN UpToDate(k) /\ (fluxKust[k].owner # 0 => fluxKust[k].seen)
                        ELSE fluxKust[k].owner = 0
    /\ \A s \in Sources : ~source[s].exists => fluxSource[s].owner = 0
ComesToRest == <>[]AtRest

-----------------------------------------------------------------------------
(* Why nothing is overlooked: an inductive invariant.                      *)

\* Of a source that changed since the pass read it everybody will hear.
StaleSource ==
    pc = "fluxSource" =>
        LET s == work.spec.source
        IN  work.src = source[s] \/ s \in events \cup missed \/ Referrers(s) \subseteq queue

\* While the object in work is not queued again it is the one that was fetched.
PassIsCurrent ==
    pc # "idle" /\ work.kust \notin queue =>
        LET o == kust[work.kust]
        IN  /\ work.fresh
            /\ o.exists /\ o.uid = work.uid /\ o.spec = work.spec /\ o.status = work.status

\* And what the pass has done to the Flux objects still stands.
PassHolds ==
    pc # "idle" /\ work.kust \notin queue /\ work.spec.source \notin events \cup missed =>
        LET s == work.spec.source
        IN  /\ pc = "patchMissing" => ~source[s].exists
            /\ pc \in {"fluxSource", "fluxKust", "patchFound"} => source[s].exists
            /\ pc \in {"fluxKust", "patchFound"} => SourceMirrored(s)
            /\ pc = "patchFound" => /\ fluxKust[work.kust].owner = work.uid
                                    /\ fluxKust[work.kust].spec = work.spec
                                    /\ fluxKust[work.kust].ready = work.ready

\* The pass knows what it is about, or another one will follow.
SourceRead == pc = "fluxSource" => work.src.exists
InductiveInv ==
    TypeOK /\ SourceRead /\ StaleSource /\ PassIsCurrent /\ PassHolds /\ NothingOverlooked

=============================================================================
