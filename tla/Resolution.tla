----------------------------- MODULE Resolution -----------------------------
(***************************************************************************)
(* Evidence, oracle attestations and dispute cases: the reducers of        *)
(* protocol/resolution.ts, one action per event kind.  They look at a      *)
(* contract only for its parties and its resolution policy, which no       *)
(* contract event changes; contracts are constants here.                   *)
(*                                                                         *)
(* The events that begin an object are accepted for one that exists, too,  *)
(* and start it over.  A ruling cites evidence and attestations and names  *)
(* a verifier and approvers; its outcome and summary are left out.         *)
(***************************************************************************)
EXTENDS Naturals, Sequences, SequencesExt

CONSTANTS
  Cases,              \* contracts under which a dispute may arise
  CaseParties,        \* the parties of each of these contracts
  Mode,               \* Mode[c]: how contract c's policy resolves a dispute
  Authorized,         \* the oracles its policy authorizes
  Quorum,             \* how many attestations the policy asks for
  Verifiers,          \* deterministic verifiers
  Trusted,            \* those of them that its policy authorizes
  NoVerifier,         \* a ruling that names no verifier
  Agencies,           \* who can sign an event
  CaseMilestones,     \* milestones of each contract
  AnyMilestone,       \* a dispute about the contract as a whole
  Bundles, Attestations, Disputes,
  MaxCited            \* bound on the length of a ruling's lists

ASSUME ResolutionConstants ==
  /\ Mode \in [Cases -> {"deterministic", "oracle", "hybrid", "mutual"}]
  /\ Cases # {} /\ Agencies # {} /\ CaseMilestones # {}
  /\ CaseParties \subseteq Agencies /\ Authorized \subseteq Agencies
  /\ Quorum \in Nat /\ MaxCited \in Nat
  /\ Trusted \subseteq Verifiers /\ NoVerifier \notin Verifiers /\ AnyMilestone \notin CaseMilestones

VARIABLES bundle, attestation, dispute

resolutionVars == <<bundle, attestation, dispute>>

SomeCase == CHOOSE c \in Cases : TRUE

\* Lists, as the payload of a ruling has them: with repetitions.
Lists(S) == UNION {[1..n -> S] : n \in 0..MaxCited}

Rulings ==
  [evidence : SUBSET Bundles, attestations : Lists(Attestations),
   verifier : Verifiers \cup {NoVerifier}, approvers : Lists(Agencies)]
NoRuling == [evidence |-> {}, attestations |-> <<>>, verifier |-> NoVerifier, approvers |-> <<>>]

BundleState ==
  [status : {"none", "recorded", "superseded"}, case : Cases, milestone : CaseMilestones]
AttestationState == [status : {"none", "active", "revoked"}, oracle : Agencies]
DisputeState ==
  [status : {"none", "open", "awaiting-oracle", "ruled", "closed"}, case : Cases,
   milestone : CaseMilestones \cup {AnyMilestone}, evidence : SUBSET Bundles,
   attestations : SUBSET Attestations, ruled : BOOLEAN, ruling : Rulings]

ResolutionInit ==
  /\ bundle = [b \in Bundles |->
       [status |-> "none", case |-> SomeCase, milestone |-> CHOOSE m \in CaseMilestones : TRUE]]
  /\ attestation = [t \in Attestations |->
       [status |-> "none", oracle |-> CHOOSE a \in Agencies : TRUE]]
  /\ dispute = [d \in Disputes |->
       [status |-> "none", case |-> SomeCase, milestone |-> AnyMilestone, evidence |-> {},
        attestations |-> {}, ruled |-> FALSE, ruling |-> NoRuling]]

-----------------------------------------------------------------------------
(* Evidence bundles and oracle attestations.                                 *)

RecordEvidence(b, c, m) ==
  /\ bundle' = [bundle EXCEPT ![b] = [status |-> "recorded", case |-> c, milestone |-> m]]
  /\ UNCHANGED <<attestation, dispute>>

SupersedeEvidence(b) ==
  /\ bundle[b].status # "none"
  /\ bundle' = [bundle EXCEPT ![b].status = "superseded"]
  /\ UNCHANGED <<attestation, dispute>>

\* Whatever the attestation is about, be it a contract, a bundle or a dispute, it
\* exists.
RecordAttestation(a, t) ==
  /\ attestation' = [attestation EXCEPT ![t] = [status |-> "active", oracle |-> a]]
  /\ UNCHANGED <<bundle, dispute>>

RevokeAttestation(t) ==
  /\ attestation[t].status # "none"
  /\ attestation' = [attestation EXCEPT ![t].status = "revoked"]
  /\ UNCHANGED <<bundle, dispute>>

-----------------------------------------------------------------------------
(* Dispute cases.                                                            *)

DisputeGoes(d, state) ==
  /\ dispute' = [dispute EXCEPT ![d] = state]
  /\ UNCHANGED <<bundle, attestation>>

\* Faulty variant: a case opened again keeps the ruling it had.
OpenDispute_KeepsRuling(a, d, c, m) ==
  /\ a \in CaseParties
  /\ DisputeGoes(d, [dispute[d] EXCEPT !.status = "open", !.case = c, !.milestone = m])

OpenDispute(a, d, c, m) ==
  /\ a \in CaseParties
  /\ DisputeGoes(d, [status |-> "open", case |-> c, milestone |-> m, evidence |-> {},
                     attestations |-> {}, ruled |-> FALSE, ruling |-> NoRuling])

Exists(d) == dispute[d].status # "none"

AddEvidence(d, added) ==
  /\ Exists(d)
  /\ \A b \in added :
       /\ bundle[b].status # "none" /\ bundle[b].case = dispute[d].case
       /\ dispute[d].milestone \in {AnyMilestone, bundle[b].milestone}
  /\ DisputeGoes(d, [dispute[d] EXCEPT !.evidence = @ \cup added])

RequestOracle(d) ==
  /\ Exists(d)
  /\ DisputeGoes(d, [dispute[d] EXCEPT !.status = "awaiting-oracle"])

\* validateRuling: what is cited must belong to the contract, be active and come
\* from oracles it authorizes.
CitesProperly(c, r) ==
  /\ \A b \in r.evidence : bundle[b].status # "none" /\ bundle[b].case = c
  /\ \A t \in ToSet(r.attestations) :
       attestation[t].status = "active" /\ attestation[t].oracle \in Authorized

\* And the contract's mode of resolution is observed.  The hybrid mode takes any
\* verifier's name, and counts no quorum.
ModeAllows(c, r) ==
  CASE Mode[c] = "deterministic" -> r.verifier \in Trusted
    [] Mode[c] = "oracle"        -> r.attestations # <<>> /\ Len(r.attestations) >= Quorum
    [] Mode[c] = "hybrid"        -> r.verifier # NoVerifier \/ r.attestations # <<>>
    [] Mode[c] = "mutual"        -> /\ Len(r.approvers) = Cardinality(CaseParties)
                                    /\ CaseParties \subseteq ToSet(r.approvers)

Rule(d, r) ==
  /\ Exists(d)
  /\ CitesProperly(dispute[d].case, r)
  /\ ModeAllows(dispute[d].case, r)
  /\ DisputeGoes(d, [dispute[d] EXCEPT !.status = "ruled", !.ruled = TRUE, !.ruling = r,
                                       !.evidence = @ \cup r.evidence,
                                       !.attestations = @ \cup ToSet(r.attestations)])

CloseDispute(d) ==
  /\ dispute[d].status = "ruled"
  /\ DisputeGoes(d, [dispute[d] EXCEPT !.status = "closed"])

-----------------------------------------------------------------------------

ResolutionNext ==
  \/ \E b \in Bundles, c \in Cases, m \in CaseMilestones : RecordEvidence(b, c, m)
  \/ \E b \in Bundles : SupersedeEvidence(b)
  \/ \E a \in Agencies, t \in Attestations : RecordAttestation(a, t)
  \/ \E t \in Attestations : RevokeAttestation(t)
  \/ \E a \in Agencies, d \in Disputes, c \in Cases, m \in CaseMilestones \cup {AnyMilestone} :
       OpenDispute(a, d, c, m)
  \/ \E d \in Disputes, added \in SUBSET Bundles : AddEvidence(d, added)
  \/ \E d \in Disputes, r \in Rulings : Rule(d, r)
  \/ \E d \in Disputes : RequestOracle(d) \/ CloseDispute(d)

ResolutionSpec == ResolutionInit /\ [][ResolutionNext]_resolutionVars

-----------------------------------------------------------------------------
(* Properties.                                                               *)

ResolutionTypeOK ==
  /\ bundle \in [Bundles -> BundleState]
  /\ attestation \in [Attestations -> AttestationState]
  /\ dispute \in [Disputes -> DisputeState]

\* Whatever was ruled, requested, reopened or ruled again: a ruled or closed case
\* has a ruling, the ruling is one that the case's own contract allows, and all it
\* cites is on file in the case.
RuledCasesHold ==
  \A d \in Disputes :
    LET case == dispute[d]
    IN /\ case.status \in {"ruled", "closed"} => case.ruled
       /\ case.ruled => /\ ModeAllows(case.case, case.ruling)
                        /\ case.ruling.evidence \subseteq case.evidence
                        /\ ToSet(case.ruling.attestations) \subseteq case.attestations

\* The ruling a dispute case was closed with is final: it is not replaced by
\* another ruling, nor dropped with the case opened anew.
RulingIsFinal ==
  [][\A d \in Disputes :
       dispute[d].status = "closed" => dispute'[d].ruling = dispute[d].ruling]_resolutionVars
=============================================================================
