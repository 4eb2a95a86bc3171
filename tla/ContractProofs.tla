--------------------------- MODULE ContractProofs ---------------------------
(***************************************************************************)
(* What holds of every contract, for any milestones, parties, proofs and   *)
(* policies (applyContractEvent of protocol/contracts.ts).                 *)
(***************************************************************************)
EXTENDS Contract, TLAPS

\* The state of a milestone after any event on it is well formed.
LEMMA UpdateTyped ==
  ASSUME ContractTypeOK, NEW m \in Milestones, NEW ms \in MilestoneState,
         UpdateMilestone(m, ms)
  PROVE  ContractTypeOK'
BY DEF ContractTypeOK, UpdateMilestone

\* Type correctness is inductive: each reducer case returns a well-formed state.
LEMMA TypeStep == ContractTypeOK /\ [ContractNext]_contractVars => ContractTypeOK'
<1>1. SUFFICES ASSUME ContractTypeOK, [ContractNext]_contractVars
               PROVE  ContractTypeOK'
  OBVIOUS
<1>2. CASE UNCHANGED contractVars
  BY <1>1, <1>2 DEF ContractTypeOK, contractVars
<1>3. ASSUME NEW a \in Actors, Create(a)
      PROVE  ContractTypeOK'
  BY <1>1, <1>3 DEF ContractTypeOK, Create, Statuses
<1>4. ASSUME NEW a \in Actors, NEW m \in Milestones, OpenMilestone(a, m)
      PROVE  ContractTypeOK'
  <2>1. [milestone[m] EXCEPT !.status = "open", !.rejectedBy = Nobody] \in MilestoneState
    BY <1>1, <1>4 DEF ContractTypeOK, MilestoneState, MilestoneStatuses
  <2>2. QED
    BY <1>1, <1>4, <2>1, UpdateTyped DEF OpenMilestone
<1>5. ASSUME NEW a \in Actors, NEW m \in Milestones, RejectMilestone(a, m)
      PROVE  ContractTypeOK'
  <2>1. [milestone[m] EXCEPT !.status = "rejected", !.rejectedBy = a] \in MilestoneState
    BY <1>1, <1>5 DEF ContractTypeOK, MilestoneState, MilestoneStatuses
  <2>2. QED
    BY <1>1, <1>5, <2>1, UpdateTyped DEF RejectMilestone
<1>6. ASSUME NEW a \in Actors, NEW m \in Milestones, NEW refs \in SUBSET ProofRefs,
             SubmitMilestone(a, m, refs)
      PROVE  ContractTypeOK'
  <2>1. [milestone[m] EXCEPT !.status = "submitted", !.submittedBy = a,
                             !.proofs = @ \cup refs] \in MilestoneState
    BY <1>1, <1>6 DEF ContractTypeOK, MilestoneState, MilestoneStatuses
  <2>2. QED
    BY <1>1, <1>6, <2>1, UpdateTyped DEF SubmitMilestone
<1>7. ASSUME NEW a \in Actors, NEW m \in Milestones, NEW refs \in SUBSET ProofRefs,
             AcceptMilestone(a, m, refs)
      PROVE  ContractTypeOK'
  <2>1. Accepted(a, m, refs) \in MilestoneState
    BY <1>1, <1>7 DEF ContractTypeOK, MilestoneState, MilestoneStatuses, Accepted
  <2>2. QED
    BY <1>1, <1>7, <2>1, UpdateTyped DEF AcceptMilestone
<1>8. ASSUME NEW a \in Actors,
             Pause(a) \/ Resume(a) \/ Complete(a) \/ Cancel(a) \/ Dispute(a)
      PROVE  ContractTypeOK'
  BY <1>1, <1>8 DEF ContractTypeOK, Pause, Resume, Complete, Cancel, Dispute, ChangeStatus, Statuses
<1>9. QED
  BY <1>1, <1>2, <1>3, <1>4, <1>5, <1>6, <1>7, <1>8 DEF ContractNext

\* The reducer keeps every contract well formed, for any parties and milestones.
THEOREM TypeCorrect == ContractSpec => []ContractTypeOK
<1>1. ContractInit => ContractTypeOK
  BY DEF ContractInit, ContractTypeOK, Statuses, NewMilestone, MilestoneState, MilestoneStatuses
<1>2. QED
  BY <1>1, TypeStep, PTL DEF ContractSpec

-----------------------------------------------------------------------------

\* No event touches an accepted milestone: each milestone event demands another
\* status of the milestone it is for, and leaves the others alone.
LEMMA AcceptedUntouched ==
  ASSUME ContractTypeOK, [ContractNext]_contractVars, NEW m \in Milestones, milestone[m].status = "accepted"
  PROVE  milestone'[m] = milestone[m]
<1>1. CASE UNCHANGED milestone
  BY <1>1
<1>2. ASSUME NEW a \in Actors, NEW n \in Milestones,
             OpenMilestone(a, n) \/ RejectMilestone(a, n)
      PROVE  milestone'[m] = milestone[m]
  BY <1>2 DEF ContractTypeOK, OpenMilestone, RejectMilestone, UpdateMilestone
<1>3. ASSUME NEW a \in Actors, NEW n \in Milestones, NEW refs \in SUBSET ProofRefs,
             SubmitMilestone(a, n, refs) \/ AcceptMilestone(a, n, refs)
      PROVE  milestone'[m] = milestone[m]
  BY <1>3 DEF ContractTypeOK, SubmitMilestone, AcceptMilestone, UpdateMilestone
<1>4. ASSUME NEW a \in Actors,
             Create(a) \/ Pause(a) \/ Resume(a) \/ Complete(a) \/ Cancel(a) \/ Dispute(a)
      PROVE  UNCHANGED milestone
  BY <1>4 DEF Create, Pause, Resume, Complete, Cancel, Dispute, ChangeStatus
<1>5. QED
  BY <1>1, <1>2, <1>3, <1>4 DEF ContractNext, contractVars

\* Once accepted, a milestone stays exactly as it was accepted.
THEOREM AcceptedForever == ContractSpec => AcceptanceIsFinal
<1>1. ContractTypeOK /\ [ContractNext]_contractVars =>
        [\A m \in Milestones :
           milestone[m].status = "accepted" => milestone'[m] = milestone[m]]_contractVars
  BY AcceptedUntouched
<1>2. QED
  BY <1>1, TypeCorrect, PTL DEF ContractSpec, AcceptanceIsFinal

\* The status an event leaves a contract in: only Complete makes it completed,
\* and nothing takes a completed contract anywhere else.
LEMMA CompletionStep ==
  ASSUME [ContractNext]_contractVars, status' = "completed"
  PROVE  \/ status = "completed"
         \/ \E a \in Actors : Complete(a)
<1>1. ASSUME NEW a \in Actors, NEW m \in Milestones,
             OpenMilestone(a, m) \/ RejectMilestone(a, m)
      PROVE  status = "completed"
  BY <1>1 DEF OpenMilestone, RejectMilestone, UpdateMilestone
<1>2. ASSUME NEW a \in Actors, NEW m \in Milestones, NEW refs \in SUBSET ProofRefs,
             SubmitMilestone(a, m, refs) \/ AcceptMilestone(a, m, refs)
      PROVE  status = "completed"
  BY <1>2 DEF SubmitMilestone, AcceptMilestone, UpdateMilestone
<1>3. ASSUME NEW a \in Actors, Create(a) \/ Pause(a) \/ Resume(a) \/ Cancel(a) \/ Dispute(a)
      PROVE  FALSE
  BY <1>3 DEF Create, Pause, Resume, Cancel, Dispute, ChangeStatus
<1>4. QED
  BY <1>1, <1>2, <1>3 DEF ContractNext, contractVars

\* A contract is completed only with every milestone accepted with proof, at the
\* completion and at any time after it.
THEOREM CompletionIsProven == ContractSpec => []CompletedIsProven
<1>1. ContractInit => CompletedIsProven
  BY DEF ContractInit, CompletedIsProven
<1>2. ContractTypeOK /\ CompletedIsProven /\ [ContractNext]_contractVars => CompletedIsProven'
  <2>1. SUFFICES ASSUME ContractTypeOK, CompletedIsProven, [ContractNext]_contractVars, status' = "completed",
                        NEW m \in Milestones
                 PROVE  /\ milestone'[m].status = "accepted"
                        /\ HasProof(m, milestone'[m])
    BY DEF CompletedIsProven
  <2>2. /\ milestone[m].status = "accepted"
        /\ HasProof(m, milestone[m])
    <3>1. CASE status = "completed"
      BY <2>1, <3>1 DEF CompletedIsProven
    <3>2. ASSUME NEW a \in Actors, Complete(a)
          PROVE  /\ milestone[m].status = "accepted"
                 /\ HasProof(m, milestone[m])
      BY <3>2 DEF Complete
    <3>3. QED
      BY <2>1, <3>1, <3>2, CompletionStep
  <2>3. milestone'[m] = milestone[m]
    BY <2>1, <2>2, AcceptedUntouched
  <2>4. QED
    BY <2>2, <2>3
<1>3. QED
  BY <1>1, <1>2, TypeCorrect, PTL DEF ContractSpec

-----------------------------------------------------------------------------

\* What AttributionHolds says of one milestone.
WellAttributed(ms) ==
  /\ {ms.submittedBy, ms.acceptedBy, ms.rejectedBy} \subseteq Parties \cup {Nobody}
  /\ ms.status = "submitted" => ms.submittedBy # Nobody
  /\ ms.status = "rejected" => ms.rejectedBy # Nobody
  /\ ms.status \in {"pending", "open"} => ms.rejectedBy = Nobody
  /\ ms.status = "accepted" <=> ms.acceptedBy # Nobody

\* An event leaves every other milestone as it was.
LEMMA UpdateAttributed ==
  ASSUME ContractTypeOK, AttributionHolds, NEW m \in Milestones, NEW ms,
         WellAttributed(ms), UpdateMilestone(m, ms)
  PROVE  AttributionHolds'
<1>1. \A n \in Milestones : milestone'[n] = IF n = m THEN ms ELSE milestone[n]
  BY DEF ContractTypeOK, UpdateMilestone
<1>2. \A n \in Milestones : WellAttributed(milestone[n])
  BY DEF AttributionHolds, WellAttributed
<1>3. \A n \in Milestones : WellAttributed(milestone'[n])
  BY <1>1, <1>2
<1>4. QED
  BY <1>3 DEF AttributionHolds, WellAttributed

LEMMA AttributionStep == ContractTypeOK /\ AttributionHolds /\ [ContractNext]_contractVars => AttributionHolds'
<1>1. SUFFICES ASSUME ContractTypeOK, AttributionHolds, [ContractNext]_contractVars
               PROVE  AttributionHolds'
  OBVIOUS
<1>2. CASE UNCHANGED milestone
  BY <1>1, <1>2 DEF AttributionHolds
<1>3. \A m \in Milestones : milestone[m] \in MilestoneState /\ WellAttributed(milestone[m])
  BY <1>1 DEF ContractTypeOK, AttributionHolds, WellAttributed
<1>4. ASSUME NEW a \in Actors, NEW m \in Milestones, OpenMilestone(a, m)
      PROVE  AttributionHolds'
  <2>1. WellAttributed([milestone[m] EXCEPT !.status = "open", !.rejectedBy = Nobody])
    BY <1>3, <1>4 DEF MilestoneState, WellAttributed, OpenMilestone
  <2>2. QED
    BY <1>1, <1>4, <2>1, UpdateAttributed DEF OpenMilestone
<1>5. ASSUME NEW a \in Actors, NEW m \in Milestones, RejectMilestone(a, m)
      PROVE  AttributionHolds'
  <2>1. WellAttributed([milestone[m] EXCEPT !.status = "rejected", !.rejectedBy = a])
    BY <1>3, <1>5, ContractConstants DEF MilestoneState, WellAttributed, RejectMilestone, ByParty
  <2>2. QED
    BY <1>1, <1>5, <2>1, UpdateAttributed DEF RejectMilestone
<1>6. ASSUME NEW a \in Actors, NEW m \in Milestones, NEW refs \in SUBSET ProofRefs,
             SubmitMilestone(a, m, refs)
      PROVE  AttributionHolds'
  <2>1. WellAttributed([milestone[m] EXCEPT !.status = "submitted", !.submittedBy = a,
                                            !.proofs = @ \cup refs])
    BY <1>3, <1>6, ContractConstants DEF MilestoneState, WellAttributed, SubmitMilestone, ByParty
  <2>2. QED
    BY <1>1, <1>6, <2>1, UpdateAttributed DEF SubmitMilestone
<1>7. ASSUME NEW a \in Actors, NEW m \in Milestones, NEW refs \in SUBSET ProofRefs,
             AcceptMilestone(a, m, refs)
      PROVE  AttributionHolds'
  <2>1. WellAttributed(Accepted(a, m, refs))
    BY <1>3, <1>7, ContractConstants
       DEF MilestoneState, WellAttributed, AcceptMilestone, Accepted, ByParty
  <2>2. QED
    BY <1>1, <1>7, <2>1, UpdateAttributed DEF AcceptMilestone
<1>8. ASSUME NEW a \in Actors,
             Create(a) \/ Pause(a) \/ Resume(a) \/ Complete(a) \/ Cancel(a) \/ Dispute(a)
      PROVE  UNCHANGED milestone
  BY <1>8 DEF Create, Pause, Resume, Complete, Cancel, Dispute, ChangeStatus
<1>9. QED
  BY <1>1, <1>2, <1>4, <1>5, <1>6, <1>7, <1>8 DEF ContractNext, contractVars

\* Who submitted, accepted and rejected a milestone is always a party and fits the
\* milestone's status.
THEOREM AttributionIsRight == ContractSpec => []AttributionHolds
<1>1. ContractInit => AttributionHolds
  BY DEF ContractInit, AttributionHolds, NewMilestone
<1>2. QED
  BY <1>1, AttributionStep, TypeCorrect, PTL DEF ContractSpec

\* An event that only adds to the references of its milestone loses none.
LEMMA UpdateKeepsProof ==
  ASSUME ContractTypeOK, NEW m \in Milestones, NEW ms, milestone[m].proofs \subseteq ms.proofs,
         UpdateMilestone(m, ms)
  PROVE  \A n \in Milestones : milestone[n].proofs \subseteq milestone'[n].proofs
<1>1. \A n \in Milestones : milestone'[n] = IF n = m THEN ms ELSE milestone[n]
  BY DEF ContractTypeOK, UpdateMilestone
<1>2. QED
  BY <1>1

LEMMA ProofStep ==
  ASSUME ContractTypeOK, [ContractNext]_contractVars
  PROVE  \A m \in Milestones : milestone[m].proofs \subseteq milestone'[m].proofs
<1>1. CASE UNCHANGED milestone
  BY <1>1
<1>2. \A m \in Milestones : milestone[m] \in MilestoneState
  BY DEF ContractTypeOK
<1>3. ASSUME NEW a \in Actors, NEW n \in Milestones, OpenMilestone(a, n)
      PROVE  \A m \in Milestones : milestone[m].proofs \subseteq milestone'[m].proofs
  <2>1. [milestone[n] EXCEPT !.status = "open", !.rejectedBy = Nobody].proofs = milestone[n].proofs
    BY <1>2 DEF MilestoneState
  <2>2. QED
    BY <1>3, <2>1, UpdateKeepsProof DEF OpenMilestone
<1>4. ASSUME NEW a \in Actors, NEW n \in Milestones, RejectMilestone(a, n)
      PROVE  \A m \in Milestones : milestone[m].proofs \subseteq milestone'[m].proofs
  <2>1. [milestone[n] EXCEPT !.status = "rejected", !.rejectedBy = a].proofs = milestone[n].proofs
    BY <1>2 DEF MilestoneState
  <2>2. QED
    BY <1>4, <2>1, UpdateKeepsProof DEF RejectMilestone
<1>5. ASSUME NEW a \in Actors, NEW n \in Milestones, NEW refs \in SUBSET ProofRefs,
             SubmitMilestone(a, n, refs)
      PROVE  \A m \in Milestones : milestone[m].proofs \subseteq milestone'[m].proofs
  <2>1. [milestone[n] EXCEPT !.status = "submitted", !.submittedBy = a,
                             !.proofs = @ \cup refs].proofs = milestone[n].proofs \cup refs
    BY <1>2 DEF MilestoneState
  <2>2. QED
    BY <1>5, <2>1, UpdateKeepsProof DEF SubmitMilestone
<1>6. ASSUME NEW a \in Actors, NEW n \in Milestones, NEW refs \in SUBSET ProofRefs,
             AcceptMilestone(a, n, refs)
      PROVE  \A m \in Milestones : milestone[m].proofs \subseteq milestone'[m].proofs
  <2>1. Accepted(a, n, refs).proofs = milestone[n].proofs \cup refs
    BY <1>2 DEF MilestoneState, Accepted
  <2>2. QED
    BY <1>6, <2>1, UpdateKeepsProof DEF AcceptMilestone
<1>7. ASSUME NEW a \in Actors,
             Create(a) \/ Pause(a) \/ Resume(a) \/ Complete(a) \/ Cancel(a) \/ Dispute(a)
      PROVE  UNCHANGED milestone
  BY <1>7 DEF Create, Pause, Resume, Complete, Cancel, Dispute, ChangeStatus
<1>8. QED
  BY <1>1, <1>3, <1>4, <1>5, <1>6, <1>7 DEF ContractNext, contractVars

\* The references of a milestone only grow, through any rejections and reopenings.
THEOREM ProofOnlyGrows == ContractSpec => ProofIsKept
<1>1. ContractTypeOK /\ [ContractNext]_contractVars =>
        [\A m \in Milestones : milestone[m].proofs \subseteq milestone'[m].proofs]_contractVars
  BY ProofStep
<1>2. QED
  BY <1>1, TypeCorrect, PTL DEF ContractSpec, ProofIsKept

\* No step takes a contract out of dispute, cancellation or completion.
LEMMA StatusStep ==
  ASSUME [ContractNext]_contractVars
  PROVE  /\ status \in {"disputed", "canceled"} => status' \in {"disputed", "canceled"}
         /\ status = "canceled" => status' = "canceled"
         /\ status = "completed" => status' = "completed"
<1>1. CASE UNCHANGED status
  BY <1>1
<1>2. ASSUME NEW a \in Actors, NEW m \in Milestones,
             OpenMilestone(a, m) \/ RejectMilestone(a, m)
      PROVE  UNCHANGED status
  BY <1>2 DEF OpenMilestone, RejectMilestone, UpdateMilestone
<1>3. ASSUME NEW a \in Actors, NEW m \in Milestones, NEW refs \in SUBSET ProofRefs,
             SubmitMilestone(a, m, refs) \/ AcceptMilestone(a, m, refs)
      PROVE  UNCHANGED status
  BY <1>3 DEF SubmitMilestone, AcceptMilestone, UpdateMilestone
<1>4. ASSUME NEW a \in Actors,
             Create(a) \/ Pause(a) \/ Resume(a) \/ Complete(a) \/ Cancel(a) \/ Dispute(a)
      PROVE  /\ status \in {"disputed", "canceled"} => status' \in {"disputed", "canceled"}
             /\ status = "canceled" => status' = "canceled"
             /\ status = "completed" => status' = "completed"
  BY <1>4 DEF Create, Pause, Resume, Complete, Cancel, Dispute, ChangeStatus
<1>5. QED
  BY <1>1, <1>2, <1>3, <1>4 DEF ContractNext, contractVars

\* A disputed or canceled contract is never active or completed again.
THEOREM NoWayBackToSettlement == ContractSpec => NoWayBack
<1>1. [ContractNext]_contractVars =>
        [/\ status \in {"disputed", "canceled"} => status' \in {"disputed", "canceled"}
         /\ status = "canceled" => status' = "canceled"
         /\ status = "completed" => status' = "completed"]_contractVars
  BY StatusStep
<1>2. QED
  BY <1>1, PTL DEF ContractSpec, NoWayBack

\* The three together: for any milestones, actors and policies, no event takes
\* anything back that a settlement relied on (applyContractEvent).
THEOREM OnlyAdvances == ContractSpec => ContractOnlyAdvances
BY AcceptedForever, ProofOnlyGrows, NoWayBackToSettlement DEF ContractOnlyAdvances
=============================================================================
