------------------------------- MODULE Market -------------------------------
(***************************************************************************)
(* The market objects and what ties them together: the reducers of         *)
(* protocol/market.ts, one action per event kind.  As in module Contract,  *)
(* an action is one event, checked against the latest state (repository)   *)
(* and applied to it.                                                      *)
(*                                                                         *)
(* A creation event is accepted for an object that exists, too (the        *)
(* commands take an --id, and name the latest event whatever the kind): it *)
(* starts the object over.                                                 *)
(*                                                                         *)
(* Listings and requests are "adverts"; offers and bids, which share       *)
(* applyNegotiationEvent, are "proposals".  No reducer asks who signed the *)
(* event, so actors appear only where an agreement names them.  Of the     *)
(* payment terms and Lightning references the model keeps one value.       *)
(***************************************************************************)
EXTENDS Naturals, FiniteSets

CONSTANTS
  Products, Adverts, Proposals, Agreements,  \* object ids
  Marketplaces,
  Terms,         \* payment terms, with Lightning references
  Agents,        \* whom an agreement can name
  NoSource       \* the source of an agreement that does not exist yet

ASSUME MarketConstants ==
  /\ Marketplaces # {} /\ Terms # {}
  /\ Adverts \cap Proposals = {}
  /\ NoSource \notin Adverts \cup Proposals

VARIABLES product, advert, proposal, agreement

marketVars == <<product, advert, proposal, agreement>>

Sources == Adverts \cup Proposals

ProductStatuses   == {"none", "draft", "published", "unpublished", "retired"}
AdvertStatuses    == {"none", "open", "withdrawn", "expired"}
ProposalStatuses  == {"none", "open", "accepted", "rejected", "canceled", "expired"}
AgreementStatuses == {"none", "active", "completed", "canceled", "disputed"}

AdvertState   == [status : AdvertStatuses, market : Marketplaces, terms : Terms]
ProposalState == [status : ProposalStatuses, market : Marketplaces, terms : Terms]
AgreementState ==
  [status : AgreementStatuses, market : Marketplaces, terms : Terms,
   source : Sources \cup {NoSource}, counterparties : SUBSET Agents]

SomeMarket == CHOOSE m \in Marketplaces : TRUE
SomeTerms  == CHOOSE t \in Terms : TRUE

Absent == [status |-> "none", market |-> SomeMarket, terms |-> SomeTerms]

MarketInit ==
  /\ product = [p \in Products |-> "none"]
  /\ advert = [a \in Adverts |-> Absent]
  /\ proposal = [o \in Proposals |-> Absent]
  /\ agreement = [g \in Agreements |->
       [status |-> "none", market |-> SomeMarket, terms |-> SomeTerms,
        source |-> NoSource, counterparties |-> {}]]

-----------------------------------------------------------------------------
(* Products.  Unpublishing and retiring ask only whether the product exists. *)

ProductGoes(p, to) ==
  /\ product' = [product EXCEPT ![p] = to]
  /\ UNCHANGED <<advert, proposal, agreement>>

CreateProduct(p)    == ProductGoes(p, "draft")
UpdateProduct(p)    == product[p] \notin {"none", "retired"} /\ ProductGoes(p, product[p])
PublishProduct(p)   == product[p] \notin {"none", "retired"} /\ ProductGoes(p, "published")
UnpublishProduct(p) == product[p] # "none" /\ ProductGoes(p, "unpublished")
RetireProduct(p)    == product[p] # "none" /\ ProductGoes(p, "retired")

-----------------------------------------------------------------------------
(* Listings and requests.                                                    *)

AdvertGoes(a, state) ==
  /\ advert' = [advert EXCEPT ![a] = state]
  /\ UNCHANGED <<product, proposal, agreement>>

PublishAdvert(a, m, t) ==
  AdvertGoes(a, [status |-> "open", market |-> m, terms |-> t])

ReviseAdvert(a, t) ==
  /\ advert[a].status = "open"
  /\ AdvertGoes(a, [advert[a] EXCEPT !.terms = t])

\* listing.withdrawn and listing.expired, request.closed and request.expired.
EndAdvert(a, to) ==
  /\ advert[a].status # "none"
  /\ AdvertGoes(a, [advert[a] EXCEPT !.status = to])

-----------------------------------------------------------------------------
(* Offers and bids.                                                          *)

ProposalGoes(o, state) ==
  /\ proposal' = [proposal EXCEPT ![o] = state]
  /\ UNCHANGED <<product, advert, agreement>>

SubmitProposal(o, m, t) ==
  ProposalGoes(o, [status |-> "open", market |-> m, terms |-> t])

CounterProposal(o, t) ==
  /\ proposal[o].status = "open"
  /\ ProposalGoes(o, [proposal[o] EXCEPT !.terms = t])

\* Accepted, rejected, canceled or expired.
EndProposal(o, to) ==
  /\ proposal[o].status = "open"
  /\ ProposalGoes(o, [proposal[o] EXCEPT !.status = to])

-----------------------------------------------------------------------------
(* Agreements.                                                               *)

AgreementGoes(g, state) ==
  /\ agreement' = [agreement EXCEPT ![g] = state]
  /\ UNCHANGED <<product, advert, proposal>>

\* The object an agreement is made from: it exists, is in the same market and,
\* if it is a proposal, was accepted.
IsSource(s, m) ==
  \/ s \in Adverts /\ advert[s].status # "none" /\ advert[s].market = m
  \/ s \in Proposals /\ proposal[s].status = "accepted" /\ proposal[s].market = m

\* The event lists counterparties, by name as often as it likes; at least two
\* list entries are asked for, and the state keeps each name once.
CreateAgreement(g, s, m, t, first, second) ==
  /\ IsSource(s, m)
  /\ AgreementGoes(g, [status |-> "active", market |-> m, terms |-> t, source |-> s,
                       counterparties |-> {first, second}])

\* Faulty variant: what has ended is ended again.
EndAgreement_Again(g, to) ==
  /\ agreement[g].status # "none"
  /\ AgreementGoes(g, [agreement[g] EXCEPT !.status = to])

\* Completed, canceled or disputed.
EndAgreement(g, to) ==
  /\ agreement[g].status = "active"
  /\ AgreementGoes(g, [agreement[g] EXCEPT !.status = to])

-----------------------------------------------------------------------------

MarketNext ==
  \/ \E p \in Products :
       \/ CreateProduct(p) \/ UpdateProduct(p) \/ PublishProduct(p)
       \/ UnpublishProduct(p) \/ RetireProduct(p)
  \/ \E a \in Adverts, m \in Marketplaces, t \in Terms : PublishAdvert(a, m, t)
  \/ \E a \in Adverts, t \in Terms : ReviseAdvert(a, t)
  \/ \E a \in Adverts, to \in {"withdrawn", "expired"} : EndAdvert(a, to)
  \/ \E o \in Proposals, m \in Marketplaces, t \in Terms : SubmitProposal(o, m, t)
  \/ \E o \in Proposals, t \in Terms : CounterProposal(o, t)
  \/ \E o \in Proposals, to \in ProposalStatuses \ {"none", "open"} : EndProposal(o, to)
  \/ \E g \in Agreements, s \in Sources, m \in Marketplaces, t \in Terms :
       \E first, second \in Agents : CreateAgreement(g, s, m, t, first, second)
  \/ \E g \in Agreements, to \in {"completed", "canceled", "disputed"} : EndAgreement(g, to)

MarketSpec == MarketInit /\ [][MarketNext]_marketVars

-----------------------------------------------------------------------------
(* Properties.                                                               *)

MarketTypeOK ==
  /\ product \in [Products -> ProductStatuses]
  /\ advert \in [Adverts -> AdvertState]
  /\ proposal \in [Proposals -> ProposalState]
  /\ agreement \in [Agreements -> AgreementState]

\* An agreement stays as it was made until it is made anew: it ends once, and no
\* event changes its terms, parties or source but one that founds it again, on an
\* acceptance or on an advert.
DealsHold ==
  [][\A g \in Agreements : agreement[g].status # "none" =>
       \/ agreement'[g] = agreement[g]
       \/ /\ agreement[g].status = "active"
          /\ agreement'[g] = [agreement[g] EXCEPT !.status = agreement'[g].status]
       \/ /\ agreement'[g].status = "active"
          /\ IsSource(agreement'[g].source, agreement'[g].market)]_marketVars

\* What has left the market stays as it was until it is published or submitted
\* anew: no revision, counter-proposal or late answer that crosses its end changes
\* the terms of an ended advert or anything of an answered proposal.
ReopensOnlyAnew ==
  [][/\ \A a \in Adverts : advert[a].status \in {"withdrawn", "expired"} =>
          \/ advert'[a] = [advert[a] EXCEPT !.status = advert'[a].status]
          \/ advert'[a].status = "open"
     /\ \A o \in Proposals : proposal[o].status \notin {"none", "open"} =>
          \/ proposal'[o] = proposal[o]
          \/ proposal'[o].status = "open"]_marketVars

\* Deals and what led to them change only by beginning again, whatever events
\* cross each other on their way (applyListingEvent .. applyAgreementEvent).
MarketOnlyMovesOn == DealsHold /\ ReopensOnlyAnew

\* What was accepted stays as it was accepted.
AcceptedTermsStand ==
  [][\A o \in Proposals : proposal[o].status = "accepted" => proposal'[o] = proposal[o]]_marketVars
=============================================================================
