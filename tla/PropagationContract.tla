------------------------ MODULE PropagationContract ------------------------
(***************************************************************************)
(* What the GitRepository controller promises to the owners of the objects *)
(* it touches: nothing outside the onboarding cluster appears before the   *)
(* GitRepository is adopted (has the finalizer); a ControlPlane is entered *)
(* only with access granted to that GitRepository; access is given up      *)
(* before the GitRepository goes; a Flux GitRepository of somebody else is *)
(* neither written nor removed, nor is another GitRepository's Secret      *)
(* removed.  There is no worker here, and nothing fails.                   *)
(*                                                                         *)
(* Users amend specs, and do with the objects in a ControlPlane as they    *)
(* please.  Each act of theirs is counted, so that a step that nobody      *)
(* counts is the controller's, and bound by what it promises.              *)
(***************************************************************************)
EXTENDS Naturals

CONSTANTS
    GitRepos, Names, NameOf, ControlPlanes,
    Manual,     \* an object that somebody made by hand
    Absent      \* no object

VARIABLES
    life,       \* of each GitRepository
    wanted,     \* the ControlPlanes its spec names
    access,     \* its access to each ControlPlane
    token,      \* in each ControlPlane, whose Secret has a name
    flux,       \* and whose Flux GitRepository
    acts        \* the acts of users to come

objects == <<life, wanted, access, token, flux>>
vars    == <<objects, acts>>

Init ==
    /\ life = [g \in GitRepos |-> "none"]
    /\ wanted = [g \in GitRepos |-> {}]
    /\ access = [g \in GitRepos |-> [cp \in ControlPlanes |-> "none"]]
    /\ token = [cp \in ControlPlanes |-> [n \in Names |-> Absent]]
    /\ flux = [cp \in ControlPlanes |-> [n \in Names |-> Absent]]
    /\ acts \in Nat

-----------------------------------------------------------------------------
(* The life of a GitRepository.                                            *)

Becomes(g, stage, names) ==
    /\ life' = [life EXCEPT ![g] = stage]
    /\ wanted' = [wanted EXCEPT ![g] = names]
    /\ UNCHANGED <<access, token, flux>>

Declare(g, names) == life[g] = "none" /\ Becomes(g, "declared", names)
Adopt(g)          == life[g] = "declared" /\ Becomes(g, "adopted", wanted[g])
Withdraw(g)       == life[g] = "declared" /\ Becomes(g, "none", {})
Leave(g)          == life[g] = "adopted" /\ Becomes(g, "leaving", wanted[g])
Go(g) ==
    /\ life[g] = "leaving" /\ \A cp \in wanted[g] : access[g][cp] = "none"
    /\ Becomes(g, "none", {})

-----------------------------------------------------------------------------
(* Access to ControlPlanes, and what is in them.                           *)

InCharge(g) == life[g] \in {"adopted", "leaving"}

Access(g, cp, state) ==
    access' = [access EXCEPT ![g][cp] = state] /\ UNCHANGED <<life, wanted, token, flux>>

Ask(g, cp)    == InCharge(g) /\ access[g][cp] = "none" /\ Access(g, cp, "pending")
Answer(g, cp) == access[g][cp] = "pending"
                 /\ \E answer \in {"granted", "denied"} : Access(g, cp, answer)
GiveUp(g, cp) == life[g] = "leaving" /\ Access(g, cp, "none")

Enters(g, cp) == InCharge(g) /\ access[g][cp] = "granted"

WriteToken(g, cp) ==
    /\ Enters(g, cp)
    /\ token' = [token EXCEPT ![cp][NameOf[g]] = g]
    /\ UNCHANGED <<life, wanted, access, flux>>

WriteFlux(g, cp) ==
    /\ Enters(g, cp) /\ flux[cp][NameOf[g]] \in {g, Absent}
    /\ flux' = [flux EXCEPT ![cp][NameOf[g]] = g]
    /\ UNCHANGED <<life, wanted, access, token>>

\* An object that took the place of g's own may go with it, but not another's.
Removable(g, owner) == owner \in {g, Manual}

RemoveToken(g, cp) ==
    /\ life[g] = "leaving" /\ Removable(g, token[cp][NameOf[g]])
    /\ token' = [token EXCEPT ![cp][NameOf[g]] = Absent]
    /\ UNCHANGED <<life, wanted, access, flux>>

RemoveFlux(g, cp) ==
    /\ life[g] = "leaving" /\ Removable(g, flux[cp][NameOf[g]])
    /\ flux' = [flux EXCEPT ![cp][NameOf[g]] = Absent]
    /\ UNCHANGED <<life, wanted, access, token>>

-----------------------------------------------------------------------------
(* What users do, besides creating and deleting GitRepositories.           *)

Amend(g, names) == life[g] # "none" /\ Becomes(g, life[g], names)

Meddle(cp, n) ==
    /\ \E owner \in {Manual, Absent} :
          \/ token' = [token EXCEPT ![cp][n] = owner] /\ flux' = flux
          \/ flux' = [flux EXCEPT ![cp][n] = owner] /\ token' = token
    /\ UNCHANGED <<life, wanted, access>>

\* An act is one of these, or of no concern here: a label, a credential.
Act ==
    /\ acts > 0 /\ acts' = acts - 1
    /\ \/ \E g \in GitRepos, names \in SUBSET ControlPlanes : Amend(g, names)
       \/ \E cp \in ControlPlanes, n \in Names : Meddle(cp, n)
       \/ UNCHANGED objects

-----------------------------------------------------------------------------
(* The specification.                                                      *)

LifeStep(g) ==
    \/ \E names \in SUBSET ControlPlanes : Declare(g, names)
    \/ Adopt(g) \/ Withdraw(g) \/ Leave(g) \/ Go(g)

AccessStep(g, cp) == Ask(g, cp) \/ Answer(g, cp) \/ GiveUp(g, cp)
WriteStep(g, cp)  == WriteToken(g, cp) \/ WriteFlux(g, cp)
RemoveStep(g, cp) == RemoveToken(g, cp) \/ RemoveFlux(g, cp)

ObjectStep(g) ==
    \/ LifeStep(g)
    \/ \E cp \in ControlPlanes : AccessStep(g, cp) \/ WriteStep(g, cp) \/ RemoveStep(g, cp)

\* Something happens (which spares TLC the search for the reason why nothing did).
Next ==
    /\ vars' # vars
    /\ \/ (\E g \in GitRepos : ObjectStep(g)) /\ UNCHANGED acts
       \/ Act

Spec == Init /\ [][Next]_vars

=============================================================================
