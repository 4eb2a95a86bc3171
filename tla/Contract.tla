------------------------------ MODULE Contract ------------------------------
(***************************************************************************)
(* The life of one contract: applyContractEvent of protocol/contracts.ts,  *)
(* one action per event kind.  The repository hands a contract its events  *)
(* one at a time, each written against the latest one (module Repository), *)
(* so an action is a whole event: the checks the reducer makes and the     *)
(* state it returns.  Any actor may send any event; the reducer is all     *)
(* that stands between the parties.                                        *)
(***************************************************************************)
EXTENDS Naturals, FiniteSets

CONSTANTS
  Milestones,        \* milestone ids of the contract
  Actors,            \* everybody who can sign an event
  Parties,           \* the parties the creation event names
  ProofRefs,         \* ids of evidence bundles and oracle attestations
  CounterpartyMode,  \* milestones that allow mode "counterparty-acceptance"
  Nobody             \* an absent submittedBy, acceptedBy or rejectedBy

ASSUME ContractConstants ==
  /\ Milestones # {}
  /\ Parties # {} /\ Parties \subseteq Actors
  /\ CounterpartyMode \subseteq Milestones
  /\ Nobody \notin Actors

VARIABLES
  status,    \* status of the contract; "none" before contract.created
  milestone  \* milestone[m]: the state of milestone m

contractVars == <<status, milestone>>

Statuses == {"none", "active", "paused", "completed", "canceled", "disputed"}
MilestoneStatuses == {"pending", "open", "submitted", "accepted", "rejected"}

MilestoneState ==
  [status : MilestoneStatuses,
   submittedBy : Actors \cup {Nobody},
   acceptedBy  : Actors \cup {Nobody},
   rejectedBy  : Actors \cup {Nobody},
   proofs : SUBSET ProofRefs]

NewMilestone ==
  [status |-> "pending", submittedBy |-> Nobody, acceptedBy |-> Nobody,
   rejectedBy |-> Nobody, proofs |-> {}]

\* milestoneHasProof: the milestone refers to some proof, or its policy takes
\* the word of whoever accepted it.
HasProof(m, ms) ==
  \/ ms.proofs # {}
  \/ m \in CounterpartyMode /\ ms.acceptedBy # Nobody

ContractInit ==
  /\ status = "none"
  /\ milestone = [m \in Milestones |-> NewMilestone]

-----------------------------------------------------------------------------
(* The events.  assertParty guards all but the first, whose actor must be    *)
(* one of the parties it names.                                              *)

Create(a) ==
  /\ status = "none"
  /\ a \in Parties
  /\ status' = "active"
  /\ UNCHANGED milestone

\* A party's event on a created contract.
ByParty(a) == status # "none" /\ a \in Parties

\* Milestone m goes to ms; the contract's own status is neither read nor changed.
UpdateMilestone(m, ms) ==
  /\ milestone' = [milestone EXCEPT ![m] = ms]
  /\ UNCHANGED status

\* Faulty variant: opening forgets to clear the old rejection.
OpenMilestone_KeepsRejection(a, m) ==
  /\ ByParty(a)
  /\ milestone[m].status \in {"pending", "rejected"}
  /\ UpdateMilestone(m, [milestone[m] EXCEPT !.status = "open"])

OpenMilestone(a, m) ==
  /\ ByParty(a)
  /\ milestone[m].status \in {"pending", "rejected"}
  /\ UpdateMilestone(m, [milestone[m] EXCEPT !.status = "open", !.rejectedBy = Nobody])

SubmitMilestone(a, m, refs) ==
  /\ ByParty(a)
  /\ milestone[m].status \in {"open", "rejected"}
  /\ UpdateMilestone(m, [milestone[m] EXCEPT !.status = "submitted", !.submittedBy = a,
                                             !.proofs = @ \cup refs])

\* The milestone as acceptance would leave it.
Accepted(a, m, refs) ==
  [milestone[m] EXCEPT !.status = "accepted", !.acceptedBy = a, !.proofs = @ \cup refs]

AcceptMilestone(a, m, refs) ==
  /\ ByParty(a)
  /\ milestone[m].status \in {"submitted", "open"}
  /\ HasProof(m, Accepted(a, m, refs))
  /\ UpdateMilestone(m, Accepted(a, m, refs))

\* Faulty variant: a milestone can be rejected after it was accepted.
RejectMilestone_Accepted(a, m) ==
  /\ ByParty(a)
  /\ milestone[m].status \in {"submitted", "open", "accepted"}
  /\ UpdateMilestone(m, [milestone[m] EXCEPT !.status = "rejected", !.rejectedBy = a])

RejectMilestone(a, m) ==
  /\ ByParty(a)
  /\ milestone[m].status \in {"submitted", "open"}
  /\ UpdateMilestone(m, [milestone[m] EXCEPT !.status = "rejected", !.rejectedBy = a])

\* The contract goes to another status; no milestone changes.
ChangeStatus(a, to) ==
  /\ ByParty(a)
  /\ status' = to
  /\ UNCHANGED milestone

Pause(a)  == status = "active" /\ ChangeStatus(a, "paused")

Resume(a) == status = "paused" /\ ChangeStatus(a, "active")

\* Faulty variant: completion looks at the statuses of pending milestones only.
Complete_NonePending(a) ==
  /\ status = "active"
  /\ \A m \in Milestones : milestone[m].status # "pending"
  /\ ChangeStatus(a, "completed")

Complete(a) ==
  /\ status = "active"
  /\ \A m \in Milestones : milestone[m].status = "accepted" /\ HasProof(m, milestone[m])
  /\ ChangeStatus(a, "completed")

Cancel(a) == status # "completed" /\ ChangeStatus(a, "canceled")

Dispute(a) == status \notin {"completed", "canceled"} /\ ChangeStatus(a, "disputed")

ContractNext ==
  \E a \in Actors :
    \/ Create(a)
    \/ \E m \in Milestones : OpenMilestone(a, m) \/ RejectMilestone(a, m)
    \/ \E m \in Milestones, refs \in SUBSET ProofRefs :
         SubmitMilestone(a, m, refs) \/ AcceptMilestone(a, m, refs)
    \/ Pause(a) \/ Resume(a) \/ Complete(a) \/ Cancel(a) \/ Dispute(a)

ContractSpec == ContractInit /\ [][ContractNext]_contractVars

-----------------------------------------------------------------------------
(* Properties.                                                               *)

ContractTypeOK ==
  /\ status \in Statuses
  /\ milestone \in [Milestones -> MilestoneState]

\* A completed contract is one whose every milestone is accepted with proof:
\* nothing a party can send after completion reopens one.
CompletedIsProven ==
  status = "completed" =>
    \A m \in Milestones : milestone[m].status = "accepted" /\ HasProof(m, milestone[m])

\* Blame and credit go to parties and match the milestone's status: the last
\* submission, acceptance and rejection are each somebody's, and a milestone that
\* is open carries no old rejection.
AttributionHolds ==
  \A m \in Milestones :
    LET ms == milestone[m]
    IN /\ {ms.submittedBy, ms.acceptedBy, ms.rejectedBy} \subseteq Parties \cup {Nobody}
       /\ ms.status = "submitted" => ms.submittedBy # Nobody
       /\ ms.status = "rejected" => ms.rejectedBy # Nobody
       /\ ms.status \in {"pending", "open"} => ms.rejectedBy = Nobody
       /\ ms.status = "accepted" <=> ms.acceptedBy # Nobody

\* An accepted milestone stays as it was accepted, whatever happens to the
\* contract: it cannot be reopened, resubmitted, rejected or accepted again.
AcceptanceIsFinal ==
  [][\A m \in Milestones :
       milestone[m].status = "accepted" => milestone'[m] = milestone[m]]_contractVars

\* Proof is never lost: the references of a milestone survive its rejections,
\* reopenings and resubmissions.
ProofIsKept ==
  [][\A m \in Milestones : milestone[m].proofs \subseteq milestone'[m].proofs]_contractVars

\* A contract once disputed or canceled never becomes active or completed again,
\* and a canceled one is not disputed: there is no way back to settlement.
NoWayBack ==
  [][/\ status \in {"disputed", "canceled"} => status' \in {"disputed", "canceled"}
     /\ status = "canceled" => status' = "canceled"
     /\ status = "completed" => status' = "completed"]_contractVars

\* A contract only moves on, whatever events two parties and others send in
\* whatever order (applyContractEvent): acceptances stand, proof is kept, and a
\* contract that was disputed, canceled or completed is not settled again.
ContractOnlyAdvances == AcceptanceIsFinal /\ ProofIsKept /\ NoWayBack
=============================================================================
