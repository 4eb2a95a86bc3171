--------------------------- MODULE ReducerProofs ---------------------------
(***************************************************************************)
(* The reducers but for that of contracts, and the commands over spaces:   *)
(* the governance of a company (protocol/company.ts), agreements and       *)
(* answered proposals (protocol/market.ts), memberships, voices and sealed *)
(* messages (protocol/messaging.ts and handleMessage... of cli.ts), and    *)
(* dispute cases with their rulings (protocol/resolution.ts), proved for   *)
(* any agents, objects, policies and rulings and any number of them.       *)
(***************************************************************************)
EXTENDS Company, Market, Mailing, Resolution, TLAPS

-----------------------------------------------------------------------------
(* Companies.                                                                *)

\* Only three events touch the roles: the others are records of the company.
LEMMA RecordsLeaveRoles ==
  ASSUME NEW a \in Members,
         \/ \E id \in Attested : AttestTreasury(a, id)
         \/ \E id \in Reservations : ReserveTreasury(a, id) \/ ReleaseTreasury(a, id)
         \/ \E m \in Venues : JoinMarket(a, m) \/ LeaveMarket(a, m)
  PROVE  UNCHANGED <<founded, role>>
BY DEF AttestTreasury, ReserveTreasury, ReleaseTreasury, JoinMarket, LeaveMarket

\* The state of a company keeps its type in every event.
LEMMA CompanyTypeStep == CompanyTypeOK /\ [CompanyNext]_companyVars => CompanyTypeOK'
<1>1. SUFFICES ASSUME CompanyTypeOK, [CompanyNext]_companyVars PROVE CompanyTypeOK'
  OBVIOUS
<1>2. ASSUME NEW a \in Members, NEW owners \in SUBSET Members, Found(a, owners)
      PROVE  CompanyTypeOK'
  BY <1>1, <1>2 DEF CompanyTypeOK, Found, Roles
<1>3. ASSUME NEW a \in Members, NEW r \in Roles, NEW m \in Members,
             GrantRole(a, r, m) \/ RevokeRole(a, r, m)
      PROVE  CompanyTypeOK'
  <2>1. role[r] \cup {m} \in SUBSET Members /\ role[r] \ {m} \in SUBSET Members
    BY <1>1 DEF CompanyTypeOK
  <2>2. QED
    BY <1>1, <1>3, <2>1 DEF CompanyTypeOK, GrantRole, RevokeRole
<1>4. ASSUME NEW a \in Members,
             \/ \E id \in Attested : AttestTreasury(a, id)
             \/ \E id \in Reservations : ReserveTreasury(a, id) \/ ReleaseTreasury(a, id)
             \/ \E m \in Venues : JoinMarket(a, m) \/ LeaveMarket(a, m)
      PROVE  CompanyTypeOK'
  BY <1>1, <1>4 DEF CompanyTypeOK, AttestTreasury, ReserveTreasury, ReleaseTreasury, JoinMarket,
                    LeaveMarket
<1>5. CASE UNCHANGED companyVars
  BY <1>1, <1>5 DEF CompanyTypeOK, companyVars
<1>6. QED
  BY <1>1, <1>2, <1>3, <1>4, <1>5 DEF CompanyNext

\* The reducer keeps every company well formed.
THEOREM CompanyTypeCorrect == CompanySpec => []CompanyTypeOK
<1>1. CompanyInit => CompanyTypeOK
  BY DEF CompanyInit, CompanyTypeOK
<1>2. QED
  BY <1>1, CompanyTypeStep, PTL DEF CompanySpec

\* A company that exists always has an owner, whoever takes whose role away in
\* whatever order.
THEOREM NeverOrphaned == CompanySpec => []AlwaysOwned
<1>1. CompanyInit => AlwaysOwned
  BY DEF CompanyInit, AlwaysOwned
<1>2. CompanyTypeOK /\ AlwaysOwned /\ [CompanyNext]_companyVars => AlwaysOwned'
  <2>1. SUFFICES ASSUME CompanyTypeOK, AlwaysOwned, [CompanyNext]_companyVars PROVE AlwaysOwned'
    OBVIOUS
  <2>2. "owner" \in DOMAIN role
    BY <2>1 DEF CompanyTypeOK, Roles
  <2>3. ASSUME NEW a \in Members, NEW owners \in SUBSET Members, Found(a, owners)
        PROVE  AlwaysOwned'
    BY <2>2, <2>3 DEF Found, AlwaysOwned
  <2>4. ASSUME NEW a \in Members, NEW r \in Roles, NEW m \in Members, GrantRole(a, r, m)
        PROVE  AlwaysOwned'
    BY <2>1, <2>2, <2>4 DEF GrantRole, AlwaysOwned, CompanyTypeOK
  <2>5. ASSUME NEW a \in Members, NEW r \in Roles, NEW m \in Members, RevokeRole(a, r, m)
        PROVE  AlwaysOwned'
    <3>1. CASE r = "owner"
      BY <2>1, <2>2, <2>5, <3>1 DEF RevokeRole, AlwaysOwned
    <3>2. CASE r # "owner"
      BY <2>1, <2>2, <2>5, <3>2 DEF RevokeRole, AlwaysOwned, CompanyTypeOK
    <3>3. QED
      BY <3>1, <3>2
  <2>6. ASSUME UNCHANGED <<founded, role>>
        PROVE  AlwaysOwned'
    BY <2>1, <2>6 DEF AlwaysOwned
  <2>7. QED
    BY <2>1, <2>3, <2>4, <2>5, <2>6, RecordsLeaveRoles DEF CompanyNext, companyVars
<1>3. QED
  BY <1>1, <1>2, CompanyTypeCorrect, PTL DEF CompanySpec

-----------------------------------------------------------------------------
(* Agreements and answered proposals.                                         *)

\* What an event may do to the agreements.
AgreementsHold ==
  \A g \in Agreements : agreement[g].status # "none" =>
    \/ agreement'[g] = agreement[g]
    \/ /\ agreement[g].status = "active"
       /\ agreement'[g] = [agreement[g] EXCEPT !.status = agreement'[g].status]
    \/ /\ agreement'[g].status = "active"
       /\ IsSource(agreement'[g].source, agreement'[g].market)

\* What an event may do to adverts and proposals that have left the market.
EndedHold ==
  /\ \A a \in Adverts : advert[a].status \in {"withdrawn", "expired"} =>
       \/ advert'[a] = [advert[a] EXCEPT !.status = advert'[a].status]
       \/ advert'[a].status = "open"
  /\ \A o \in Proposals : proposal[o].status \notin {"none", "open"} =>
       \/ proposal'[o] = proposal[o]
       \/ proposal'[o].status = "open"

\* The market's objects keep their types in every event.
LEMMA MarketTypeStep == MarketTypeOK /\ [MarketNext]_marketVars => MarketTypeOK'
<1>1. SUFFICES ASSUME MarketTypeOK, [MarketNext]_marketVars PROVE MarketTypeOK'
  OBVIOUS
<1>2. ASSUME NEW p \in Products,
             \/ CreateProduct(p) \/ UpdateProduct(p) \/ PublishProduct(p)
             \/ UnpublishProduct(p) \/ RetireProduct(p)
      PROVE  MarketTypeOK'
  BY <1>1, <1>2 DEF MarketTypeOK, CreateProduct, UpdateProduct, PublishProduct, UnpublishProduct,
                    RetireProduct, ProductGoes, ProductStatuses
<1>3. ASSUME NEW a \in Adverts, NEW m \in Marketplaces, NEW t \in Terms, PublishAdvert(a, m, t)
      PROVE  MarketTypeOK'
  BY <1>1, <1>3 DEF MarketTypeOK, PublishAdvert, AdvertGoes, AdvertState, AdvertStatuses
<1>4. ASSUME NEW a \in Adverts, NEW t \in Terms, ReviseAdvert(a, t)
      PROVE  MarketTypeOK'
  <2>1. [advert[a] EXCEPT !.terms = t] \in AdvertState
    BY <1>1 DEF MarketTypeOK, AdvertState
  <2>2. QED
    BY <1>1, <1>4, <2>1 DEF MarketTypeOK, ReviseAdvert, AdvertGoes
<1>5. ASSUME NEW a \in Adverts, NEW to \in {"withdrawn", "expired"}, EndAdvert(a, to)
      PROVE  MarketTypeOK'
  <2>1. [advert[a] EXCEPT !.status = to] \in AdvertState
    BY <1>1 DEF MarketTypeOK, AdvertState, AdvertStatuses
  <2>2. QED
    BY <1>1, <1>5, <2>1 DEF MarketTypeOK, EndAdvert, AdvertGoes
<1>6. ASSUME NEW o \in Proposals, NEW m \in Marketplaces, NEW t \in Terms, SubmitProposal(o, m, t)
      PROVE  MarketTypeOK'
  BY <1>1, <1>6 DEF MarketTypeOK, SubmitProposal, ProposalGoes, ProposalState, ProposalStatuses
<1>7. ASSUME NEW o \in Proposals, NEW t \in Terms, CounterProposal(o, t)
      PROVE  MarketTypeOK'
  <2>1. [proposal[o] EXCEPT !.terms = t] \in ProposalState
    BY <1>1 DEF MarketTypeOK, ProposalState
  <2>2. QED
    BY <1>1, <1>7, <2>1 DEF MarketTypeOK, CounterProposal, ProposalGoes
<1>8. ASSUME NEW o \in Proposals, NEW to \in ProposalStatuses \ {"none", "open"}, EndProposal(o, to)
      PROVE  MarketTypeOK'
  <2>1. [proposal[o] EXCEPT !.status = to] \in ProposalState
    BY <1>1 DEF MarketTypeOK, ProposalState
  <2>2. QED
    BY <1>1, <1>8, <2>1 DEF MarketTypeOK, EndProposal, ProposalGoes
<1>9. ASSUME NEW g \in Agreements, NEW s \in Sources, NEW m \in Marketplaces, NEW t \in Terms,
             NEW first \in Agents, NEW second \in Agents, CreateAgreement(g, s, m, t, first, second)
      PROVE  MarketTypeOK'
  <2>1. [status |-> "active", market |-> m, terms |-> t, source |-> s,
         counterparties |-> {first, second}] \in AgreementState
    BY DEF AgreementState, AgreementStatuses
  <2>2. QED
    BY <1>1, <1>9, <2>1 DEF MarketTypeOK, CreateAgreement, AgreementGoes
<1>10. ASSUME NEW g \in Agreements, NEW to \in {"completed", "canceled", "disputed"},
              EndAgreement(g, to)
       PROVE  MarketTypeOK'
  <2>1. [agreement[g] EXCEPT !.status = to] \in AgreementState
    BY <1>1 DEF MarketTypeOK, AgreementState, AgreementStatuses
  <2>2. QED
    BY <1>1, <1>10, <2>1 DEF MarketTypeOK, EndAgreement, AgreementGoes
<1>11. CASE UNCHANGED marketVars
  BY <1>1, <1>11 DEF MarketTypeOK, marketVars
<1>12. QED
  BY <1>1, <1>2, <1>3, <1>4, <1>5, <1>6, <1>7, <1>8, <1>9, <1>10, <1>11 DEF MarketNext

\* The reducers keep every object of the market well formed.
THEOREM MarketTypeCorrect == MarketSpec => []MarketTypeOK
<1>1. SomeMarket \in Marketplaces /\ SomeTerms \in Terms
  BY MarketConstants DEF SomeMarket, SomeTerms
<1>2. MarketInit => MarketTypeOK
  BY <1>1 DEF MarketInit, MarketTypeOK, Absent, ProductStatuses, AdvertState, AdvertStatuses,
              ProposalState, ProposalStatuses, AgreementState, AgreementStatuses
<1>3. QED
  BY <1>2, MarketTypeStep, PTL DEF MarketSpec

\* Only the two agreement events change an agreement.
LEMMA OthersLeaveAgreements ==
  ASSUME [MarketNext]_marketVars
  PROVE  \/ UNCHANGED agreement
         \/ \E g \in Agreements, s \in Sources, m \in Marketplaces, t \in Terms :
              \E first, second \in Agents : CreateAgreement(g, s, m, t, first, second)
         \/ \E g \in Agreements, to \in {"completed", "canceled", "disputed"} : EndAgreement(g, to)
<1>1. ASSUME NEW p \in Products,
             \/ CreateProduct(p) \/ UpdateProduct(p) \/ PublishProduct(p)
             \/ UnpublishProduct(p) \/ RetireProduct(p)
      PROVE  UNCHANGED agreement
  BY <1>1 DEF CreateProduct, UpdateProduct, PublishProduct, UnpublishProduct, RetireProduct,
              ProductGoes
<1>2. ASSUME NEW a \in Adverts,
             \/ \E m \in Marketplaces, t \in Terms : PublishAdvert(a, m, t)
             \/ \E t \in Terms : ReviseAdvert(a, t)
             \/ \E to \in {"withdrawn", "expired"} : EndAdvert(a, to)
      PROVE  UNCHANGED agreement
  BY <1>2 DEF PublishAdvert, ReviseAdvert, EndAdvert, AdvertGoes
<1>3. ASSUME NEW o \in Proposals,
             \/ \E m \in Marketplaces, t \in Terms : SubmitProposal(o, m, t)
             \/ \E t \in Terms : CounterProposal(o, t)
             \/ \E to \in ProposalStatuses \ {"none", "open"} : EndProposal(o, to)
      PROVE  UNCHANGED agreement
  BY <1>3 DEF SubmitProposal, CounterProposal, EndProposal, ProposalGoes
<1>4. QED
  BY <1>1, <1>2, <1>3 DEF MarketNext, marketVars

\* No event breaks an agreement.
LEMMA AgreementStep == MarketTypeOK /\ [MarketNext]_marketVars => AgreementsHold
<1>1. SUFFICES ASSUME MarketTypeOK, [MarketNext]_marketVars, NEW h \in Agreements,
                      agreement[h].status # "none"
               PROVE  \/ agreement'[h] = agreement[h]
                      \/ /\ agreement[h].status = "active"
                         /\ agreement'[h] = [agreement[h] EXCEPT !.status = agreement'[h].status]
                      \/ /\ agreement'[h].status = "active"
                         /\ IsSource(agreement'[h].source, agreement'[h].market)
  BY DEF AgreementsHold
<1>2. h \in DOMAIN agreement /\ agreement[h] \in AgreementState
  BY <1>1 DEF MarketTypeOK
<1>3. ASSUME NEW g \in Agreements, NEW s \in Sources, NEW m \in Marketplaces, NEW t \in Terms,
             NEW first \in Agents, NEW second \in Agents, CreateAgreement(g, s, m, t, first, second)
      PROVE  \/ agreement'[h] = agreement[h]
             \/ /\ agreement'[h].status = "active"
                /\ IsSource(agreement'[h].source, agreement'[h].market)
  <2>1. CASE g = h
    <3>1. agreement'[h] = [status |-> "active", market |-> m, terms |-> t, source |-> s,
                           counterparties |-> {first, second}]
      BY <1>2, <1>3, <2>1 DEF CreateAgreement, AgreementGoes
    <3>2. IsSource(s, m)
      BY <1>3 DEF CreateAgreement
    <3>3. agreement'[h].status = "active" /\ agreement'[h].source = s /\ agreement'[h].market = m
      BY <3>1
    <3>4. QED
      BY <3>2, <3>3
  <2>2. CASE g # h
    BY <1>3, <2>2 DEF CreateAgreement, AgreementGoes
  <2>3. QED
    BY <2>1, <2>2
<1>4. ASSUME NEW g \in Agreements, NEW to \in {"completed", "canceled", "disputed"},
             EndAgreement(g, to)
      PROVE  \/ agreement'[h] = agreement[h]
             \/ /\ agreement[h].status = "active"
                /\ agreement'[h] = [agreement[h] EXCEPT !.status = agreement'[h].status]
  <2>1. CASE g = h
    <3>1. agreement'[h] = [agreement[h] EXCEPT !.status = to] /\ agreement[h].status = "active"
      BY <1>2, <1>4, <2>1 DEF EndAgreement, AgreementGoes
    <3>2. agreement'[h].status = to
      BY <1>2, <3>1 DEF AgreementState
    <3>3. QED
      BY <3>1, <3>2
  <2>2. CASE g # h
    BY <1>4, <2>2 DEF EndAgreement, AgreementGoes
  <2>3. QED
    BY <2>1, <2>2
<1>5. QED
  BY <1>1, <1>3, <1>4, OthersLeaveAgreements

\* An agreement ends once and keeps its terms, parties and source until it is
\* founded again.
THEOREM AgreementsStand == MarketSpec => DealsHold
<1>1. MarketTypeOK /\ [MarketNext]_marketVars => [AgreementsHold]_marketVars
  BY AgreementStep
<1>2. QED
  BY <1>1, MarketTypeCorrect, PTL DEF MarketSpec, DealsHold, AgreementsHold

\* Of the events of the market, only a publication changes the terms of an ended
\* advert.
LEMMA AdvertStep ==
  ASSUME MarketTypeOK, [MarketNext]_marketVars, NEW b \in Adverts,
         advert[b].status \in {"withdrawn", "expired"}
  PROVE  \/ advert'[b] = [advert[b] EXCEPT !.status = advert'[b].status]
         \/ advert'[b].status = "open"
<1>1. b \in DOMAIN advert /\ advert[b] \in AdvertState
  BY DEF MarketTypeOK
<1>2. advert'[b] = advert[b] => advert'[b] = [advert[b] EXCEPT !.status = advert'[b].status]
  BY <1>1 DEF AdvertState
<1>3. ASSUME NEW a \in Adverts, NEW m \in Marketplaces, NEW t \in Terms, PublishAdvert(a, m, t)
      PROVE  advert'[b] = advert[b] \/ advert'[b].status = "open"
  <2>1. CASE a = b
    <3>1. advert'[b] = [status |-> "open", market |-> m, terms |-> t]
      BY <1>1, <1>3, <2>1 DEF PublishAdvert, AdvertGoes
    <3>2. QED
      BY <3>1
  <2>2. CASE a # b
    BY <1>3, <2>2 DEF PublishAdvert, AdvertGoes
  <2>3. QED
    BY <2>1, <2>2
<1>4. ASSUME NEW a \in Adverts, NEW t \in Terms, ReviseAdvert(a, t)
      PROVE  advert'[b] = advert[b]
  BY <1>4 DEF ReviseAdvert, AdvertGoes
<1>5. ASSUME NEW a \in Adverts, NEW to \in {"withdrawn", "expired"}, EndAdvert(a, to)
      PROVE  \/ advert'[b] = advert[b]
             \/ advert'[b] = [advert[b] EXCEPT !.status = advert'[b].status]
  <2>1. CASE a = b
    <3>1. advert'[b] = [advert[b] EXCEPT !.status = to]
      BY <1>1, <1>5, <2>1 DEF EndAdvert, AdvertGoes
    <3>2. advert'[b].status = to
      BY <1>1, <3>1 DEF AdvertState
    <3>3. QED
      BY <3>1, <3>2
  <2>2. CASE a # b
    BY <1>5, <2>2 DEF EndAdvert, AdvertGoes
  <2>3. QED
    BY <2>1, <2>2
<1>6. ASSUME NEW p \in Products,
             \/ CreateProduct(p) \/ UpdateProduct(p) \/ PublishProduct(p)
             \/ UnpublishProduct(p) \/ RetireProduct(p)
      PROVE  UNCHANGED advert
  BY <1>6 DEF CreateProduct, UpdateProduct, PublishProduct, UnpublishProduct, RetireProduct,
              ProductGoes
<1>7. ASSUME NEW o \in Proposals,
             \/ \E m \in Marketplaces, t \in Terms : SubmitProposal(o, m, t)
             \/ \E t \in Terms : CounterProposal(o, t)
             \/ \E to \in ProposalStatuses \ {"none", "open"} : EndProposal(o, to)
      PROVE  UNCHANGED advert
  BY <1>7 DEF SubmitProposal, CounterProposal, EndProposal, ProposalGoes
<1>8. ASSUME NEW g \in Agreements,
             \/ \E s \in Sources, m \in Marketplaces, t \in Terms :
                  \E first, second \in Agents : CreateAgreement(g, s, m, t, first, second)
             \/ \E to \in {"completed", "canceled", "disputed"} : EndAgreement(g, to)
      PROVE  UNCHANGED advert
  BY <1>8 DEF CreateAgreement, EndAgreement, AgreementGoes
<1>9. QED
  BY <1>2, <1>3, <1>4, <1>5, <1>6, <1>7, <1>8 DEF MarketNext, marketVars

\* Of the events of the market, only a submission changes an answered proposal.
LEMMA ProposalStep ==
  ASSUME MarketTypeOK, [MarketNext]_marketVars, NEW q \in Proposals,
         proposal[q].status \notin {"none", "open"}
  PROVE  proposal'[q] = proposal[q] \/ proposal'[q].status = "open"
<1>1. q \in DOMAIN proposal
  BY DEF MarketTypeOK
<1>2. ASSUME NEW o \in Proposals, NEW m \in Marketplaces, NEW t \in Terms, SubmitProposal(o, m, t)
      PROVE  proposal'[q] = proposal[q] \/ proposal'[q].status = "open"
  <2>1. CASE o = q
    <3>1. proposal'[q] = [status |-> "open", market |-> m, terms |-> t]
      BY <1>1, <1>2, <2>1 DEF SubmitProposal, ProposalGoes
    <3>2. QED
      BY <3>1
  <2>2. CASE o # q
    BY <1>2, <2>2 DEF SubmitProposal, ProposalGoes
  <2>3. QED
    BY <2>1, <2>2
<1>3. ASSUME NEW o \in Proposals,
             \/ \E t \in Terms : CounterProposal(o, t)
             \/ \E to \in ProposalStatuses \ {"none", "open"} : EndProposal(o, to)
      PROVE  proposal'[q] = proposal[q]
  <2>1. proposal[o].status = "open"
    BY <1>3 DEF CounterProposal, EndProposal
  <2>2. o # q
    BY <2>1
  <2>3. \E state : ProposalGoes(o, state)
    BY <1>3 DEF CounterProposal, EndProposal
  <2>4. QED
    BY <2>2, <2>3 DEF ProposalGoes
<1>4. ASSUME NEW p \in Products,
             \/ CreateProduct(p) \/ UpdateProduct(p) \/ PublishProduct(p)
             \/ UnpublishProduct(p) \/ RetireProduct(p)
      PROVE  UNCHANGED proposal
  BY <1>4 DEF CreateProduct, UpdateProduct, PublishProduct, UnpublishProduct, RetireProduct,
              ProductGoes
<1>5. ASSUME NEW a \in Adverts,
             \/ \E m \in Marketplaces, t \in Terms : PublishAdvert(a, m, t)
             \/ \E t \in Terms : ReviseAdvert(a, t)
             \/ \E to \in {"withdrawn", "expired"} : EndAdvert(a, to)
      PROVE  UNCHANGED proposal
  BY <1>5 DEF PublishAdvert, ReviseAdvert, EndAdvert, AdvertGoes
<1>6. ASSUME NEW g \in Agreements,
             \/ \E s \in Sources, m \in Marketplaces, t \in Terms :
                  \E first, second \in Agents : CreateAgreement(g, s, m, t, first, second)
             \/ \E to \in {"completed", "canceled", "disputed"} : EndAgreement(g, to)
      PROVE  UNCHANGED proposal
  BY <1>6 DEF CreateAgreement, EndAgreement, AgreementGoes
<1>7. QED
  BY <1>2, <1>3, <1>4, <1>5, <1>6 DEF MarketNext, marketVars

\* What has left the market stays as it was until it is published or submitted
\* anew.
THEOREM EndedStay == MarketSpec => ReopensOnlyAnew
<1>1. MarketTypeOK /\ [MarketNext]_marketVars => [EndedHold]_marketVars
  BY AdvertStep, ProposalStep DEF EndedHold
<1>2. QED
  BY <1>1, MarketTypeCorrect, PTL DEF MarketSpec, ReopensOnlyAnew, EndedHold

\* Both: for any adverts, proposals, agreements and agents, no event changes an
\* agreement, an ended advert or an answered proposal but by starting it over.
THEOREM OnlyMovesOn == MarketSpec => MarketOnlyMovesOn
BY AgreementsStand, EndedStay DEF MarketOnlyMovesOn

-----------------------------------------------------------------------------
(* Memberships.  Who may act is decided by a search through a map, which the *)
(* argument does not need.                                                   *)

\* The type of the memberships; the rest of the state plays no part.
MembershipTyped == membership \in [MembershipIds -> MembershipState]

\* What an event may do to a membership that is muted or removed.
SilencedStay ==
  \A x \in MembershipIds :
    membership[x].status \in {"muted", "removed"} => membership'[x].status # "active"

\* Spaces and messages leave the memberships alone, and so does opening the
\* repository again.
LEMMA OthersLeaveMemberships ==
  ASSUME [MessagingNext]_messagingVars
  PROVE  \/ UNCHANGED membership
         \/ \E p, who \in Persons, x \in MembershipIds, s \in Spaces, r \in Ranks :
              AddMember(p, x, s, who, r)
         \/ \E p \in Persons, x \in MembershipIds : RemoveMember(p, x) \/ MuteMember(p, x)
         \/ \E p \in Persons, x \in MembershipIds, r \in Ranks : SetRank(p, x, r)
<1>1. ASSUME NEW s \in Spaces, NEW owners \in SUBSET Persons, CreateSpace(s, owners) \/ ArchiveSpace(s)
      PROVE  UNCHANGED membership
  BY <1>1 DEF CreateSpace, ArchiveSpace
<1>2. ASSUME NEW p \in Persons, NEW n \in Notes,
             \/ \E s \in Spaces : SendMessage(p, n, s)
             \/ EditMessage(p, n) \/ DeleteMessage(p, n) \/ ReactToMessage(p, n)
      PROVE  UNCHANGED membership
  BY <1>2 DEF SendMessage, EditMessage, DeleteMessage, ReactToMessage, NoteGoes
<1>3. Reopen => UNCHANGED membership
  BY DEF Reopen
<1>4. QED
  BY <1>1, <1>2, <1>3 DEF MessagingNext, messagingVars

\* No event breaks the type of the memberships.
LEMMA MembershipTypeStep == MembershipTyped /\ [MessagingNext]_messagingVars => MembershipTyped'
<1>1. SUFFICES ASSUME MembershipTyped, [MessagingNext]_messagingVars PROVE MembershipTyped'
  OBVIOUS
<1>2. ASSUME NEW p \in Persons, NEW who \in Persons, NEW x \in MembershipIds, NEW s \in Spaces,
             NEW r \in Ranks, AddMember(p, x, s, who, r)
      PROVE  MembershipTyped'
  <2>1. [status |-> "active", space |-> s, who |-> who, rank |-> r] \in MembershipState
    BY DEF MembershipState
  <2>2. QED
    BY <1>1, <1>2, <2>1 DEF MembershipTyped, AddMember
<1>3. ASSUME NEW p \in Persons, NEW x \in MembershipIds, NEW r \in Ranks,
             RemoveMember(p, x) \/ MuteMember(p, x) \/ SetRank(p, x, r)
      PROVE  MembershipTyped'
  <2>1. /\ [membership[x] EXCEPT !.status = "removed"] \in MembershipState
        /\ [membership[x] EXCEPT !.status = "muted"] \in MembershipState
        /\ [membership[x] EXCEPT !.rank = r] \in MembershipState
    BY <1>1 DEF MembershipTyped, MembershipState
  <2>2. QED
    BY <1>1, <1>3, <2>1 DEF MembershipTyped, RemoveMember, MuteMember, SetRank, ChangeMembership
<1>4. UNCHANGED membership => MembershipTyped'
  BY <1>1 DEF MembershipTyped
<1>5. QED
  BY <1>1, <1>2, <1>3, <1>4, OthersLeaveMemberships DEF Ranks

\* No event gives a silenced membership its voice back.
LEMMA SilencedStep == MembershipTyped /\ [MessagingNext]_messagingVars => SilencedStay
<1>1. SUFFICES ASSUME MembershipTyped, [MessagingNext]_messagingVars, NEW y \in MembershipIds,
                      membership[y].status \in {"muted", "removed"}
               PROVE  membership'[y].status # "active"
  BY DEF SilencedStay
<1>2. y \in DOMAIN membership /\ membership[y] \in MembershipState
  BY <1>1 DEF MembershipTyped
<1>3. ASSUME NEW p \in Persons, NEW who \in Persons, NEW x \in MembershipIds, NEW s \in Spaces,
             NEW r \in Ranks, AddMember(p, x, s, who, r)
      PROVE  membership'[y] = membership[y]
  <2>1. x # y
    BY <1>1, <1>3 DEF AddMember
  <2>2. QED
    BY <1>3, <2>1 DEF AddMember
<1>4. ASSUME NEW p \in Persons, NEW x \in MembershipIds, NEW r \in Ranks,
             RemoveMember(p, x) \/ MuteMember(p, x) \/ SetRank(p, x, r)
      PROVE  membership'[y].status # "active"
  <2>1. CASE x = y
    <3>1. CASE RemoveMember(p, x)
      BY <1>2, <2>1, <3>1 DEF RemoveMember, ChangeMembership, MembershipState
    <3>2. CASE MuteMember(p, x)
      BY <1>2, <2>1, <3>2 DEF MuteMember, ChangeMembership, MembershipState
    <3>3. CASE SetRank(p, x, r)
      BY <1>1, <1>2, <2>1, <3>3 DEF SetRank, ChangeMembership, MembershipState
    <3>4. QED
      BY <1>4, <3>1, <3>2, <3>3
  <2>2. CASE x # y
    <3>1. \E state : ChangeMembership(p, x, state)
      BY <1>4 DEF RemoveMember, MuteMember, SetRank
    <3>2. membership'[y] = membership[y]
      BY <2>2, <3>1 DEF ChangeMembership
    <3>3. QED
      BY <1>1, <3>2
  <2>3. QED
    BY <2>1, <2>2
<1>5. QED
  BY <1>1, <1>3, <1>4, OthersLeaveMemberships DEF Ranks

\* A muted or removed membership is never active again.
THEOREM SilenceLasts == MessagingSpec => SilencedForGood
<1>1. MessagingInit => MembershipTyped
  <2>1. SUFFICES ASSUME MessagingInit PROVE MembershipTyped
    OBVIOUS
  <2>2. NoMembership \in MembershipState
    BY MessagingConstants DEF NoMembership, MembershipState, Ranks
  <2>3. QED
    BY <2>1, <2>2 DEF MessagingInit, MembershipTyped
<1>2. MembershipTyped /\ [MessagingNext]_messagingVars => [SilencedStay]_messagingVars
  BY SilencedStep
<1>3. QED
  BY <1>1, <1>2, MembershipTypeStep, PTL DEF MessagingSpec, SilencedForGood, SilencedStay

-----------------------------------------------------------------------------
(* Voices.  Whoever is found by the search through the map of memberships    *)
(* has a membership on record, and no event takes one from the record.       *)

\* Person p has, or had, a membership of space s.
HasRecord(s, p, mem) ==
  \E x \in MembershipIds : mem[x].status # "none" /\ mem[x].space = s /\ mem[x].who = p

\* Everybody who is heard in message m is on record.
VoicesKnown(m, mem) ==
  m.status # "none" => \A p \in {m.from} \cup m.reactions : HasRecord(m.space, p, mem)

\* The map holds memberships on record only.
MapKnown(map, mem) == \A i \in DOMAIN map : map[i] \in MembershipIds /\ mem[map[i]].status # "none"

\* The inductive invariant.
VoiceInv ==
  /\ MessagingTypeOK
  /\ MapKnown(order, membership)
  /\ \A n \in Notes : VoicesKnown(note[n], membership)

\* Whoever may speak in a space is on record there.
LEMMA SpeakersHaveRecord ==
  ASSUME VoiceInv, NEW s \in Spaces, NEW p \in Persons, Speaks(s, p)
  PROVE  HasRecord(s, p, membership)
<1>1. PICK i \in DOMAIN order : membership[order[i]].space = s /\ membership[order[i]].who = p
  BY DEF Speaks, HeldBy
<1>2. order[i] \in MembershipIds /\ membership[order[i]].status # "none"
  BY DEF VoiceInv, MapKnown
<1>3. QED
  BY <1>1, <1>2 DEF HasRecord

\* Whatever happens to one membership on record leaves it on record with its person.
LEMMA RecordsStay ==
  ASSUME VoiceInv, NEW x \in MembershipIds, NEW q \in MembershipState, q.status # "none",
         membership[x].status # "none" => q.space = membership[x].space /\ q.who = membership[x].who,
         membership' = [membership EXCEPT ![x] = q], note' = note
  PROVE  /\ membership' \in [MembershipIds -> MembershipState]
         /\ \A y \in MembershipIds : membership[y].status # "none" => membership'[y].status # "none"
         /\ \A n \in Notes : VoicesKnown(note'[n], membership')
<1>1. /\ membership' \in [MembershipIds -> MembershipState]
      /\ membership'[x] = q /\ \A y \in MembershipIds : y # x => membership'[y] = membership[y]
  BY DEF VoiceInv, MessagingTypeOK
<1>2. \A y \in MembershipIds : membership[y].status # "none" =>
        /\ membership'[y].status # "none"
        /\ membership'[y].space = membership[y].space /\ membership'[y].who = membership[y].who
  BY <1>1
<1>3. \A s, p : HasRecord(s, p, membership) => HasRecord(s, p, membership')
  BY <1>2 DEF HasRecord
<1>4. QED
  BY <1>1, <1>2, <1>3 DEF VoiceInv, VoicesKnown

\* No event of a membership takes anybody from the record.
LEMMA MembershipVoices ==
  ASSUME VoiceInv,
         NEW p \in Persons, NEW who \in Persons, NEW x \in MembershipIds, NEW s \in Spaces, NEW r \in Ranks,
         AddMember(p, x, s, who, r) \/ RemoveMember(p, x) \/ MuteMember(p, x) \/ SetRank(p, x, r)
  PROVE  VoiceInv'
<1>1. membership[x] \in MembershipState /\ order \in Seq(MembershipIds)
  BY DEF VoiceInv, MessagingTypeOK
<1>2. CASE AddMember(p, x, s, who, r)
  <2> DEFINE q == [status |-> "active", space |-> s, who |-> who, rank |-> r]
  <2>1. /\ membership[x].status = "none" /\ membership' = [membership EXCEPT ![x] = q]
        /\ order' = Append(order, x) /\ UNCHANGED <<space, note>>
    BY <1>2 DEF AddMember
  <2>2. q \in MembershipState /\ q.status # "none"
    BY DEF MembershipState
  <2> HIDE DEF q
  <2>3. /\ membership' \in [MembershipIds -> MembershipState]
        /\ \A y \in MembershipIds : membership[y].status # "none" => membership'[y].status # "none"
        /\ \A n \in Notes : VoicesKnown(note'[n], membership')
    BY <2>1, <2>2, RecordsStay
  <2>4. membership'[x].status # "none"
    BY <2>1, <2>2 DEF VoiceInv, MessagingTypeOK
  <2>5. order' \in Seq(MembershipIds) /\ \A i \in DOMAIN order' : order'[i] = x \/ (i \in DOMAIN order /\ order'[i] = order[i])
    BY <1>1, <2>1
  <2>6. MapKnown(order', membership')
    BY <2>3, <2>4, <2>5 DEF VoiceInv, MapKnown
  <2>7. QED
    BY <2>1, <2>3, <2>5, <2>6 DEF VoiceInv, MessagingTypeOK
<1>3. ASSUME NEW q, q \in MembershipState, q.status # "none", q.space = membership[x].space, q.who = membership[x].who,
             ChangeMembership(p, x, q)
      PROVE  VoiceInv'
  <2>1. membership' = [membership EXCEPT ![x] = q] /\ UNCHANGED <<space, note, order>>
    BY <1>3 DEF ChangeMembership
  <2>2. /\ membership' \in [MembershipIds -> MembershipState]
        /\ \A y \in MembershipIds : membership[y].status # "none" => membership'[y].status # "none"
        /\ \A n \in Notes : VoicesKnown(note'[n], membership')
    BY <1>3, <2>1, RecordsStay
  <2>3. MapKnown(order', membership')
    BY <2>1, <2>2 DEF VoiceInv, MapKnown
  <2>4. QED
    BY <2>1, <2>2, <2>3 DEF VoiceInv, MessagingTypeOK
<1>4. CASE RemoveMember(p, x) \/ MuteMember(p, x)
  <2>1. PICK st \in {"removed", "muted"} : ChangeMembership(p, x, [membership[x] EXCEPT !.status = st])
    BY <1>4 DEF RemoveMember, MuteMember
  <2> DEFINE q == [membership[x] EXCEPT !.status = st]
  <2>2. q \in MembershipState /\ q.status # "none" /\ q.space = membership[x].space /\ q.who = membership[x].who
    BY <1>1 DEF MembershipState
  <2>3. QED
    BY <1>3, <2>1, <2>2
<1>5. CASE SetRank(p, x, r)
  <2> DEFINE q == [membership[x] EXCEPT !.rank = r]
  <2>1. q \in MembershipState /\ q.status = membership[x].status /\ q.space = membership[x].space
        /\ q.who = membership[x].who
    BY <1>1 DEF MembershipState
  <2>2. ChangeMembership(p, x, q)
    BY <1>5 DEF SetRank
  <2>3. q.status # "none"
    BY <2>1, <2>2 DEF ChangeMembership
  <2>4. QED
    BY <1>3, <2>1, <2>2, <2>3
<1>6. QED
  BY <1>2, <1>4, <1>5

\* Whoever speaks is on record, and nobody speaks for others.
LEMMA MessageVoices ==
  ASSUME VoiceInv, NEW p \in Persons, NEW n \in Notes,
         \/ \E s \in Spaces : SendMessage(p, n, s)
         \/ EditMessage(p, n) \/ DeleteMessage(p, n) \/ ReactToMessage(p, n)
  PROVE  VoiceInv'
<1>1. note[n] \in NoteState /\ VoicesKnown(note[n], membership)
  BY DEF VoiceInv, MessagingTypeOK
<1>2. ASSUME NEW q, q \in NoteState, NoteGoes(n, q), VoicesKnown(q, membership) PROVE VoiceInv'
  <2>1. note' = [note EXCEPT ![n] = q] /\ UNCHANGED <<space, membership, order>>
    BY <1>2 DEF NoteGoes
  <2>2. /\ note' \in [Notes -> NoteState]
        /\ note'[n] = q /\ \A m \in Notes : m # n => note'[m] = note[m]
    BY <1>2, <2>1 DEF VoiceInv, MessagingTypeOK
  <2>3. \A m \in Notes : VoicesKnown(note'[m], membership')
    BY <1>2, <2>1, <2>2 DEF VoiceInv
  <2>4. QED
    BY <2>1, <2>2, <2>3 DEF VoiceInv, MessagingTypeOK
<1>3. ASSUME NEW s \in Spaces, SendMessage(p, n, s) PROVE VoiceInv'
  <2> DEFINE q == [status |-> "sent", space |-> s, from |-> p, reactions |-> {}]
  <2>1. NoteGoes(n, q) /\ Speaks(s, p)
    BY <1>3 DEF SendMessage
  <2>2. q \in NoteState /\ q.space = s /\ q.from = p /\ q.reactions = {}
    BY DEF NoteState
  <2>3. VoicesKnown(q, membership)
    BY <2>1, <2>2, SpeakersHaveRecord DEF VoicesKnown
  <2>4. QED
    BY <1>2, <2>1, <2>2, <2>3
<1>4. CASE EditMessage(p, n) \/ DeleteMessage(p, n)
  <2>1. PICK st \in {"edited", "deleted"} : NoteGoes(n, [note[n] EXCEPT !.status = st]) /\ note[n].status # "none"
    BY <1>4 DEF EditMessage, DeleteMessage
  <2> DEFINE q == [note[n] EXCEPT !.status = st]
  <2>2. q \in NoteState /\ q.space = note[n].space /\ q.from = note[n].from /\ q.reactions = note[n].reactions
    BY <1>1 DEF NoteState
  <2>3. VoicesKnown(q, membership)
    BY <1>1, <2>1, <2>2 DEF VoicesKnown
  <2>4. QED
    BY <1>2, <2>1, <2>2, <2>3
<1>5. CASE ReactToMessage(p, n)
  <2> DEFINE q == [note[n] EXCEPT !.reactions = @ \cup {p}]
  <2>1. NoteGoes(n, q) /\ Speaks(note[n].space, p) /\ note[n].status # "none"
    BY <1>5 DEF ReactToMessage
  <2>2. /\ q \in NoteState /\ q.space = note[n].space /\ q.from = note[n].from
        /\ q.reactions = note[n].reactions \cup {p} /\ note[n].space \in Spaces
    BY <1>1 DEF NoteState
  <2>3. HasRecord(note[n].space, p, membership)
    BY <2>1, <2>2, SpeakersHaveRecord
  <2>4. VoicesKnown(q, membership)
    BY <1>1, <2>1, <2>2, <2>3 DEF VoicesKnown
  <2>5. QED
    BY <1>2, <2>1, <2>2, <2>4
<1>6. QED
  BY <1>3, <1>4, <1>5

\* The map that is read again has the memberships it had.
LEMMA ReopenVoices ==
  ASSUME VoiceInv, Reopen
  PROVE  VoiceInv'
<1>1. PICK ids \in [DOMAIN order -> ToSet(order)] : order' = ids
  BY DEF Reopen
<1>2. order \in Seq(MembershipIds) /\ DOMAIN order = 1..Len(order) /\ Len(order) \in Nat
  BY DEF VoiceInv, MessagingTypeOK
<1>3. \A i \in DOMAIN ids : \E j \in DOMAIN order : ids[i] = order[j]
  BY DEF ToSet
<1>4. MapKnown(order', membership)
  BY <1>1, <1>3 DEF VoiceInv, MapKnown
<1>5. ids \in [1..Len(order) -> MembershipIds]
  BY <1>2, <1>3 DEF VoiceInv, MapKnown
<1>6. order' \in Seq(MembershipIds)
  BY <1>1, <1>2, <1>5
<1>7. QED
  BY <1>4, <1>6 DEF VoiceInv, MessagingTypeOK, Reopen

\* Nobody has spoken at first.
LEMMA VoicesBegin == MessagingInit => VoiceInv
<1>1. SUFFICES ASSUME MessagingInit PROVE VoiceInv
  OBVIOUS
<1>2. NoMembership \in MembershipState
  BY MessagingConstants DEF NoMembership, MembershipState, Ranks
<1>3. NoMembership.space \in Spaces /\ NoMembership.who \in Persons
  BY <1>2 DEF MembershipState
<1>4. membership \in [MembershipIds -> MembershipState] /\ order = <<>> /\ space \in [Spaces -> SpaceState]
  BY <1>1, <1>2 DEF MessagingInit, SpaceState
<1>5. note \in [Notes -> NoteState] /\ \A n \in Notes : note[n].status = "none"
  BY <1>1, <1>3 DEF MessagingInit, NoteState
<1>6. QED
  BY <1>4, <1>5 DEF VoiceInv, MessagingTypeOK, MapKnown, VoicesKnown

\* No event takes a voice from the record.
LEMMA VoicesStep == VoiceInv /\ [MessagingNext]_messagingVars => VoiceInv'
<1>1. SUFFICES ASSUME VoiceInv, [MessagingNext]_messagingVars PROVE VoiceInv'
  OBVIOUS
<1>2. ASSUME UNCHANGED <<membership, note, order>>, space' \in [Spaces -> SpaceState] PROVE VoiceInv'
  BY <1>1, <1>2 DEF VoiceInv, MessagingTypeOK
<1>3. ASSUME NEW s \in Spaces, NEW owners \in SUBSET Persons, CreateSpace(s, owners) PROVE VoiceInv'
  <2>1. [status |-> "active", owners |-> owners] \in SpaceState
    BY DEF SpaceState
  <2>2. space' \in [Spaces -> SpaceState]
    BY <1>1, <1>3, <2>1 DEF CreateSpace, VoiceInv, MessagingTypeOK
  <2>3. QED
    BY <1>2, <1>3, <2>2 DEF CreateSpace
<1>4. ASSUME NEW s \in Spaces, ArchiveSpace(s) PROVE VoiceInv'
  <2>1. space[s] \in SpaceState /\ [space[s] EXCEPT !.status = "archived"] \in SpaceState
    BY <1>1 DEF SpaceState, VoiceInv, MessagingTypeOK
  <2>2. space' \in [Spaces -> SpaceState]
    BY <1>1, <1>4, <2>1 DEF ArchiveSpace, VoiceInv, MessagingTypeOK
  <2>3. QED
    BY <1>2, <1>4, <2>2 DEF ArchiveSpace
<1>5. CASE UNCHANGED messagingVars
  BY <1>1, <1>2, <1>5 DEF messagingVars, VoiceInv, MessagingTypeOK
<1>6. "member" \in Ranks
  BY DEF Ranks
<1>7. ASSUME NEW p \in Persons, NEW x \in MembershipIds, RemoveMember(p, x) \/ MuteMember(p, x) PROVE VoiceInv'
  <2>1. PICK s \in Spaces : TRUE
    BY MessagingConstants
  <2>2. QED
    BY <1>1, <1>6, <1>7, <2>1, MembershipVoices
<1>8. ASSUME NEW p \in Persons, NEW x \in MembershipIds, NEW r \in Ranks, SetRank(p, x, r) PROVE VoiceInv'
  <2>1. PICK s \in Spaces : TRUE
    BY MessagingConstants
  <2>2. QED
    BY <1>1, <1>8, <2>1, MembershipVoices
<1>9. QED
  BY <1>1, <1>3, <1>4, <1>5, <1>7, <1>8, MembershipVoices, MessageVoices, ReopenVoices DEF MessagingNext

\* The inductive invariant of spaces, memberships and messages, with their types.
THEOREM VoicesCorrect == MessagingSpec => []VoiceInv
BY VoicesBegin, VoicesStep, PTL DEF MessagingSpec

\* Everybody who sent or reacted to a message is on record as a member of its space.
THEOREM VoicesHaveRecord == MessagingSpec => []VoicesAreMembers
<1>1. VoiceInv => VoicesAreMembers
  BY DEF VoiceInv, VoicesAreMembers, VoicesKnown, HasRecord
<1>2. QED
  BY <1>1, VoicesCorrect, PTL

\* The state of spaces, memberships and messages keeps its type.
THEOREM MessagingTypeCorrect == MessagingSpec => []MessagingTypeOK
<1>1. VoiceInv => MessagingTypeOK
  BY DEF VoiceInv
<1>2. QED
  BY <1>1, VoicesCorrect, PTL

-----------------------------------------------------------------------------
(* The commands that open a space and write in it.                           *)

\* What is known of the command under way, where map and mem are the memberships:
\* whom it seals for is whom the space has, but for its author and those who came
\* or went meanwhile.
MailKnown(m, map, mem) ==
  m.does \in {"send", "edit"} =>
    /\ m.note \in Notes /\ m.by \in m.to
    /\ \A p \in Persons \ m.moved :
         p \in m.to <=> p = m.by \/ \E i \in DOMAIN map : mem[map[i]].space = m.space
                                    /\ mem[map[i]].who = p /\ mem[map[i]].status # "removed"

\* No message has to be written for a command to open a space, or to do nothing.
MailTyped ==
  /\ mail \in [does : {"nothing", "create", "join", "send", "edit"}, by : Persons,
               note : Notes \cup {NoMail.note}, space : Spaces, to : SUBSET Persons,
               moved : SUBSET Persons]
  /\ mail.does \in {"send", "edit"} => mail.note \in Notes

MailInv == MailTyped /\ MailKnown(mail, order, membership)

\* No command is no command of anybody.
LEMMA NoMailTyped ==
  /\ NoMail \in [does : {"nothing", "create", "join", "send", "edit"}, by : Persons,
                 note : Notes \cup {NoMail.note}, space : Spaces, to : SUBSET Persons,
                 moved : SUBSET Persons]
  /\ NoMail.does = "nothing"
<1>1. NoMembership.space \in Spaces /\ NoMembership.who \in Persons
  BY MessagingConstants DEF NoMembership
<1> DEFINE n == CHOOSE m \in Notes : TRUE
<1>2. NoMail.note = n
  BY DEF NoMail
<1> HIDE DEF n
<1>3. QED
  BY <1>1, <1>2 DEF NoMail

\* A command begins by listing who is in the space.
LEMMA BeginMails ==
  ASSUME VoiceInv, MailInv, NEW p \in Persons, NEW s \in Spaces,
         \/ BeginCreate(p, s)
         \/ \E n \in Notes : BeginSend(p, n, s) \/ BeginEdit(p, n)
  PROVE  MailInv' /\ UNCHANGED messagingVars
<1>1. ASSUME NEW does \in {"send", "edit"}, NEW n \in Notes, NEW r \in Spaces,
             BeginMail(does, p, n, r, Listed(r) \cup {p})
      PROVE  MailInv'
  <2> DEFINE m == [does |-> does, by |-> p, note |-> n, space |-> r, to |-> Listed(r) \cup {p}, moved |-> {}]
  <2>1. mail' = m /\ UNCHANGED messagingVars
    BY <1>1 DEF BeginMail
  <2>2. Listed(r) \subseteq Persons
    BY DEF Listed, InSpace
  <2>3. \A q \in Persons : q \in Listed(r) <=> \E i \in DOMAIN order : membership[order[i]].space = r
          /\ membership[order[i]].who = q /\ membership[order[i]].status # "removed"
    BY DEF Listed, InSpace, HeldBy
  <2>4. MailKnown(m, order, membership)
    BY <1>1, <2>3 DEF MailKnown
  <2>5. MailTyped'
    BY <2>1, <2>2 DEF MailInv, MailTyped
  <2>6. QED
    BY <2>1, <2>4, <2>5 DEF MailInv, messagingVars
<1>2. ASSUME BeginCreate(p, s) PROVE MailInv'
  BY <1>2 DEF BeginCreate, BeginMail, MailInv, MailTyped, MailKnown
<1>3. ASSUME NEW n \in Notes, BeginSend(p, n, s) PROVE MailInv'
  BY <1>1, <1>3 DEF BeginSend
<1>4. ASSUME NEW n \in Notes, BeginEdit(p, n) PROVE MailInv'
  <2>1. note[n].space \in Spaces
    BY DEF VoiceInv, MessagingTypeOK, NoteState
  <2>2. QED
    BY <1>1, <1>4, <2>1 DEF BeginEdit
<1>5. QED
  BY <1>2, <1>3, <1>4 DEF BeginCreate, BeginSend, BeginEdit, BeginMail

\* Who comes or goes while a message is sealed is told apart.
LEMMA OthersMail ==
  ASSUME VoiceInv, MailInv, OthersGo
  PROVE  MailInv' /\ MessagingNext
<1>1. MessagingNext
  BY DEF OthersGo, MessagingNext, Ranks
<1> DEFINE s == mail.space
           Now == {p \in Persons : \E i \in DOMAIN order : membership[order[i]].space = s
                     /\ membership[order[i]].who = p /\ membership[order[i]].status # "removed"}
           Then == {p \in Persons : \E i \in DOMAIN order' : membership'[order'[i]].space = s
                     /\ membership'[order'[i]].who = p /\ membership'[order'[i]].status # "removed"}
<1>3. mail' = IF mail.to = {} THEN mail ELSE [mail EXCEPT !.moved = @ \cup (Now \ Then) \cup (Then \ Now)]
  <2>1. PICK r \in {mail.space} :
          mail' = IF mail.to = {} THEN mail ELSE [mail EXCEPT !.moved = @ \cup Moving(r)]
    BY DEF OthersGo
  <2>2. \A p \in Persons : /\ (HeldBy(r, p) # {}) <=> p \in Now
                           /\ (HeldBy(r, p)' # {}) <=> p \in Then
    BY <2>1 DEF HeldBy
  <2>3. Moving(r) = (Now \ Then) \cup (Then \ Now)
    <3> HIDE DEF Now, Then
    <3>1. Now \subseteq Persons /\ Then \subseteq Persons
      BY DEF Now, Then
    <3>2. \A p \in Persons : p \in Moving(r) <=> (p \in Now \ Then) \/ (p \in Then \ Now)
      BY <2>2 DEF Moving
    <3>3. QED
      BY <3>1, <3>2 DEF Moving
  <2>4. mail.moved \cup ((Now \ Then) \cup (Then \ Now)) = mail.moved \cup (Now \ Then) \cup (Then \ Now)
    <3> HIDE DEF Now, Then
    <3>1. QED
      OBVIOUS
  <2>5. QED
    <3> HIDE DEF Now, Then
    <3>1. QED
      BY <2>1, <2>3, <2>4
<1>4. Now \subseteq Persons /\ Then \subseteq Persons
  OBVIOUS
<1>5. MailTyped'
  <2> HIDE DEF Now, Then
  <2>1. QED
    BY <1>3, <1>4 DEF MailInv, MailTyped
<1>6. ASSUME mail.does \in {"send", "edit"} PROVE MailKnown(mail', order', membership')
  <2>1. mail.to # {}
    BY <1>6 DEF MailInv, MailKnown
  <2>2. /\ mail'.does = mail.does /\ mail'.note = mail.note /\ mail'.by = mail.by /\ mail'.to = mail.to
        /\ mail'.space = s /\ mail'.moved = mail.moved \cup (Now \ Then) \cup (Then \ Now)
    <3> HIDE DEF Now, Then
    <3>1. QED
      BY <1>3, <2>1 DEF MailInv, MailTyped
  <2>3. \A p \in Persons \ mail'.moved : p \notin mail.moved /\ (p \in Now <=> p \in Then)
    <3> HIDE DEF Now, Then
    <3>1. QED
      BY <2>2
  <2>4. \A p \in Persons \ mail.moved : p \in mail.to <=> p = mail.by \/ p \in Now
    BY <1>6 DEF MailInv, MailKnown
  <2>5. \A p \in Persons \ mail'.moved : p \in mail'.to <=> p = mail'.by \/ p \in Then
    <3> HIDE DEF Now, Then
    <3>1. QED
      BY <2>2, <2>3, <2>4
  <2>6. mail'.note \in Notes /\ mail'.by \in mail'.to
    BY <1>6, <2>2 DEF MailInv, MailKnown
  <2>7. QED
    BY <2>2, <2>5, <2>6 DEF MailKnown
<1>7. ASSUME mail.does \notin {"send", "edit"} PROVE mail'.does \notin {"send", "edit"}
  <2> HIDE DEF Now, Then
  <2>1. QED
    BY <1>3, <1>7 DEF MailInv, MailTyped
<1>8. QED
  BY <1>1, <1>5, <1>6, <1>7 DEF MailInv, MailKnown

\* An append ends the command that makes it, or its first half.
LEMMA AppendMails ==
  ASSUME VoiceInv, MailInv,
         \/ \E owners \in SUBSET Persons : AppendSpace(owners)
         \/ \E x \in MembershipIds : AppendOwner(x)
         \/ AppendMessage \/ MailFails
  PROVE  MailInv' /\ [MessagingNext]_messagingVars
<1>1. mail.space \in Spaces /\ mail.by \in Persons /\ "owner" \in Ranks
  BY DEF MailInv, MailTyped, Ranks
<1>2. ASSUME mail' = NoMail PROVE MailInv'
  BY <1>2, NoMailTyped DEF MailInv, MailTyped, MailKnown
<1>3. ASSUME NEW owners \in SUBSET Persons, AppendSpace(owners) PROVE MailInv' /\ MessagingNext
  <2>1. mail' = [mail EXCEPT !.does = "join"]
    BY <1>3 DEF AppendSpace
  <2>2. MailInv'
    BY <2>1 DEF MailInv, MailTyped, MailKnown
  <2>3. QED
    BY <1>1, <1>3, <2>2 DEF AppendSpace, MessagingNext
<1>4. ASSUME NEW x \in MembershipIds, AppendOwner(x) PROVE MailInv' /\ MessagingNext
  BY <1>1, <1>2, <1>4 DEF AppendOwner, MessagingNext, MailInv, MailTyped
<1>5. ASSUME AppendMessage PROVE MailInv' /\ MessagingNext
  <2>1. mail.note \in Notes /\ mail.to \subseteq Persons
    BY <1>5 DEF AppendMessage, MailInv, MailTyped
  <2>2. MessagingNext
    BY <1>1, <1>5, <2>1 DEF AppendMessage, MessagingNext
  <2>3. QED
    BY <1>2, <1>5, <2>1, <2>2 DEF AppendMessage
<1>6. ASSUME MailFails PROVE MailInv' /\ UNCHANGED messagingVars
  BY <1>2, <1>6 DEF MailFails, MailInv, MailTyped
<1>7. QED
  BY <1>3, <1>4, <1>5, <1>6

\* Each step of a command keeps what is known of it, and is an event or none.
LEMMA MailStep ==
  VoiceInv /\ MailInv /\ [MailingNext]_mailingVars => MailInv' /\ [MessagingNext]_messagingVars
<1>1. SUFFICES ASSUME VoiceInv, MailInv, [MailingNext]_mailingVars
               PROVE  MailInv' /\ [MessagingNext]_messagingVars
  OBVIOUS
<1>2. CASE UNCHANGED mailingVars
  BY <1>1, <1>2 DEF mailingVars, messagingVars, MailInv, MailTyped
<1>3. ASSUME NEW p \in Persons, NEW n \in Notes, BeginEdit(p, n) PROVE MailInv' /\ UNCHANGED messagingVars
  <2>1. PICK s \in Spaces : TRUE
    BY MessagingConstants
  <2>2. QED
    BY <1>1, <1>3, <2>1, BeginMails
<1>4. QED
  BY <1>1, <1>2, <1>3, BeginMails, AppendMails, OthersMail DEF MailingNext

\* What each command keeps while it is under way.
THEOREM MailCorrect == MailingSpec => [](VoiceInv /\ MailInv)
<1>1. MailingInit => VoiceInv /\ MailInv
  <2>1. SUFFICES ASSUME MailingInit PROVE VoiceInv /\ MailInv
    OBVIOUS
  <2>2. VoiceInv
    BY <2>1, VoicesBegin DEF MailingInit
  <2>3. MailInv
    BY <2>1, NoMailTyped DEF MailingInit, MailInv, MailTyped, MailKnown
  <2>4. QED
    BY <2>2, <2>3
<1>2. (VoiceInv /\ MailInv) /\ [MailingNext]_mailingVars => (VoiceInv /\ MailInv)'
  BY MailStep, VoicesStep
<1>3. QED
  BY <1>1, <1>2, PTL DEF MailingSpec

\* The commands do nothing to spaces, memberships and messages but append events
\* that the reducers accept, in an order the reducers may see: what is proved of
\* the reducers holds of the commands.
THEOREM MailingIsMessaging == MailingSpec => MessagingSpec
<1>1. MailingInit => MessagingInit
  BY DEF MailingInit
<1>2. QED
  BY <1>1, MailStep, MailCorrect, PTL DEF MailingSpec, MessagingSpec

\* A message and every later text of it is sealed for its author and for exactly
\* those in its space when it is appended, but for who came or went meanwhile and
\* for the edit of a message that was sent anew to another space.
THEOREM SealedRight == MailingSpec => SealedForMembers
<1> DEFINE SealedNow ==
      AppendMessage /\ note'[mail.note].space = mail.space =>
        \A p \in Persons \ mail.moved :
          p \in mail.to <=> p \in InSpace(mail.space) \/ p = note'[mail.note].from
<1>1. ASSUME VoiceInv, MailInv PROVE SealedNow
  <2>1. SUFFICES ASSUME AppendMessage, NEW p \in Persons \ mail.moved
                 PROVE  p \in mail.to <=> p \in InSpace(mail.space) \/ p = note'[mail.note].from
    OBVIOUS
  <2>2. note \in [Notes -> NoteState] /\ mail.note \in Notes
    BY <1>1, <2>1 DEF VoiceInv, MessagingTypeOK, AppendMessage, MailInv, MailTyped
  <2>3. note'[mail.note].from = mail.by
    <3>1. CASE mail.does = "send"
      BY <2>1, <2>2, <3>1 DEF AppendMessage, SendMessage, NoteGoes
    <3>2. CASE mail.does = "edit"
      BY <2>1, <2>2, <3>2 DEF AppendMessage, EditMessage, NoteGoes, NoteState
    <3>3. QED
      BY <2>1, <3>1, <3>2 DEF AppendMessage
  <2>4. p \in mail.to <=> p = mail.by \/ \E i \in DOMAIN order : membership[order[i]].space = mail.space
          /\ membership[order[i]].who = p /\ membership[order[i]].status # "removed"
    BY <1>1, <2>1 DEF AppendMessage, MailInv, MailKnown
  <2>5. p \in InSpace(mail.space) <=> \E i \in DOMAIN order : membership[order[i]].space = mail.space
          /\ membership[order[i]].who = p /\ membership[order[i]].status # "removed"
    BY <2>1 DEF InSpace, HeldBy
  <2>6. QED
    BY <2>3, <2>4, <2>5
<1>2. VoiceInv /\ MailInv => [SealedNow]_mailingVars
  BY <1>1
<1>3. QED
  BY <1>2, MailCorrect, PTL DEF MailingSpec, SealedForMembers

-----------------------------------------------------------------------------
(* Dispute cases.                                                            *)

DisputesTyped == dispute \in [Disputes -> DisputeState]

\* RuledCasesHold, of one case.
CaseHolds(case) ==
  /\ case.status \in {"ruled", "closed"} => case.ruled
  /\ case.ruled => /\ ModeAllows(case.case, case.ruling)
                   /\ case.ruling.evidence \subseteq case.evidence
                   /\ ToSet(case.ruling.attestations) \subseteq case.attestations

\* The lists of a ruling hold what they are lists of.
LEMMA ListsHoldElements ==
  ASSUME NEW S, NEW l \in Lists(S)
  PROVE  ToSet(l) \subseteq S
<1>1. PICK n \in 0..MaxCited : l \in [1..n -> S]
  BY DEF Lists
<1>2. QED
  BY <1>1 DEF ToSet

\* The empty list is a list.
LEMMA EmptyIsList == ASSUME NEW S PROVE <<>> \in Lists(S)
<1>1. 0 \in 0..MaxCited
  BY ResolutionConstants
<1>2. <<>> \in [1..0 -> S]
  OBVIOUS
<1>3. QED
  BY <1>1, <1>2 DEF Lists

\* A ruling that cites nothing is a ruling.
LEMMA NoRulingTyped == NoRuling \in Rulings
BY EmptyIsList DEF NoRuling, Rulings

\* The events of evidence and attestations leave the disputes alone.
LEMMA OthersLeaveDisputes ==
  ASSUME [ResolutionNext]_resolutionVars
  PROVE  \/ UNCHANGED dispute
         \/ \E a \in Agencies, d \in Disputes, c \in Cases, m \in CaseMilestones \cup {AnyMilestone} :
              OpenDispute(a, d, c, m)
         \/ \E d \in Disputes, added \in SUBSET Bundles : AddEvidence(d, added)
         \/ \E d \in Disputes, r \in Rulings : Rule(d, r)
         \/ \E d \in Disputes : RequestOracle(d) \/ CloseDispute(d)
<1>1. ASSUME NEW b \in Bundles, NEW c \in Cases, NEW m \in CaseMilestones,
             RecordEvidence(b, c, m) \/ SupersedeEvidence(b)
      PROVE  UNCHANGED dispute
  BY <1>1 DEF RecordEvidence, SupersedeEvidence
<1>2. ASSUME NEW b \in Bundles, SupersedeEvidence(b) PROVE UNCHANGED dispute
  BY <1>2 DEF SupersedeEvidence
<1>3. ASSUME NEW a \in Agencies, NEW t \in Attestations, RecordAttestation(a, t) PROVE UNCHANGED dispute
  BY <1>3 DEF RecordAttestation
<1>4. ASSUME NEW t \in Attestations, RevokeAttestation(t) PROVE UNCHANGED dispute
  BY <1>4 DEF RevokeAttestation
<1>5. QED
  BY <1>1, <1>2, <1>3, <1>4 DEF ResolutionNext, resolutionVars

\* A dispute event that gives a case a well formed state that holds keeps every
\* case well formed and holding.
LEMMA OneCaseChanges ==
  ASSUME DisputesTyped, RuledCasesHold, NEW d \in Disputes, NEW state \in DisputeState,
         CaseHolds(state), DisputeGoes(d, state)
  PROVE  DisputesTyped' /\ RuledCasesHold'
<1>1. dispute' = [dispute EXCEPT ![d] = state]
  BY DEF DisputeGoes
<1>2. DisputesTyped'
  BY <1>1 DEF DisputesTyped
<1>3. ASSUME NEW e \in Disputes PROVE CaseHolds(dispute'[e])
  <2>1. CASE e = d
    BY <1>1, <2>1 DEF DisputesTyped
  <2>2. CASE e # d
    <3>1. dispute'[e] = dispute[e]
      BY <1>1, <2>2 DEF DisputesTyped
    <3>2. CaseHolds(dispute[e])
      BY DEF RuledCasesHold, CaseHolds
    <3>3. QED
      BY <3>1, <3>2
  <2>3. QED
    BY <2>1, <2>2
<1>4. RuledCasesHold'
  BY <1>3 DEF RuledCasesHold, CaseHolds
<1>5. QED
  BY <1>2, <1>4

\* What a case holds, it holds with more evidence or another status that asks no
\* ruling of it.
LEMMA CaseGrows ==
  ASSUME NEW case \in DisputeState, NEW state \in DisputeState, CaseHolds(case),
         state.case = case.case, state.ruled = case.ruled, state.ruling = case.ruling,
         case.evidence \subseteq state.evidence, case.attestations \subseteq state.attestations,
         state.status \in {"ruled", "closed"} => case.status \in {"ruled", "closed"}
  PROVE  CaseHolds(state)
BY DEF CaseHolds

\* No event breaks a case.
LEMMA CaseStep ==
  DisputesTyped /\ RuledCasesHold /\ [ResolutionNext]_resolutionVars
    => DisputesTyped' /\ RuledCasesHold'
<1>1. SUFFICES ASSUME DisputesTyped, RuledCasesHold, [ResolutionNext]_resolutionVars
               PROVE  DisputesTyped' /\ RuledCasesHold'
  OBVIOUS
<1>2. \A d \in Disputes : dispute[d] \in DisputeState /\ CaseHolds(dispute[d])
  BY <1>1 DEF DisputesTyped, RuledCasesHold, CaseHolds
<1>3. ASSUME NEW a \in Agencies, NEW d \in Disputes, NEW c \in Cases,
             NEW m \in CaseMilestones \cup {AnyMilestone}, OpenDispute(a, d, c, m)
      PROVE  DisputesTyped' /\ RuledCasesHold'
  <2> DEFINE state == [status |-> "open", case |-> c, milestone |-> m, evidence |-> {},
                       attestations |-> {}, ruled |-> FALSE, ruling |-> NoRuling]
  <2>1. state \in DisputeState
    BY NoRulingTyped DEF DisputeState
  <2>2. CaseHolds(state)
    BY DEF CaseHolds
  <2>3. DisputeGoes(d, state)
    BY <1>3 DEF OpenDispute
  <2>4. QED
    BY <1>1, <2>1, <2>2, <2>3, OneCaseChanges
<1>4. ASSUME NEW d \in Disputes, NEW added \in SUBSET Bundles, AddEvidence(d, added)
      PROVE  DisputesTyped' /\ RuledCasesHold'
  <2> DEFINE state == [dispute[d] EXCEPT !.evidence = @ \cup added]
  <2>1. state \in DisputeState
    BY <1>2 DEF DisputeState
  <2>2. CaseHolds(state)
    BY <1>2, <2>1, CaseGrows DEF DisputeState
  <2>3. DisputeGoes(d, state)
    BY <1>4 DEF AddEvidence
  <2>4. QED
    BY <1>1, <2>1, <2>2, <2>3, OneCaseChanges
<1>5. ASSUME NEW d \in Disputes, NEW r \in Rulings, Rule(d, r)
      PROVE  DisputesTyped' /\ RuledCasesHold'
  <2> DEFINE state == [dispute[d] EXCEPT !.status = "ruled", !.ruled = TRUE, !.ruling = r,
                                         !.evidence = @ \cup r.evidence,
                                         !.attestations = @ \cup ToSet(r.attestations)]
  <2>1. r.evidence \subseteq Bundles /\ ToSet(r.attestations) \subseteq Attestations
    BY ListsHoldElements DEF Rulings
  <2>2. state \in DisputeState
    BY <1>2, <2>1 DEF DisputeState
  <2>3. /\ state.case = dispute[d].case /\ state.ruling = r
        /\ r.evidence \subseteq state.evidence
        /\ ToSet(r.attestations) \subseteq state.attestations
    BY <1>2 DEF DisputeState
  <2>4. ModeAllows(dispute[d].case, r) /\ DisputeGoes(d, state)
    BY <1>5 DEF Rule
  <2>5. CaseHolds(state)
    BY <2>3, <2>4, <2>2 DEF CaseHolds, DisputeState
  <2>6. QED
    BY <1>1, <2>2, <2>4, <2>5, OneCaseChanges
<1>6. ASSUME NEW d \in Disputes, RequestOracle(d)
      PROVE  DisputesTyped' /\ RuledCasesHold'
  <2> DEFINE state == [dispute[d] EXCEPT !.status = "awaiting-oracle"]
  <2>1. state \in DisputeState
    BY <1>2 DEF DisputeState
  <2>2. CaseHolds(state)
    BY <1>2, <2>1, CaseGrows DEF DisputeState
  <2>3. DisputeGoes(d, state)
    BY <1>6 DEF RequestOracle
  <2>4. QED
    BY <1>1, <2>1, <2>2, <2>3, OneCaseChanges
<1>7. ASSUME NEW d \in Disputes, CloseDispute(d)
      PROVE  DisputesTyped' /\ RuledCasesHold'
  <2> DEFINE state == [dispute[d] EXCEPT !.status = "closed"]
  <2>1. state \in DisputeState
    BY <1>2 DEF DisputeState
  <2>2. dispute[d].status = "ruled" /\ DisputeGoes(d, state)
    BY <1>7 DEF CloseDispute
  <2>3. CaseHolds(state)
    BY <1>2, <2>1, <2>2, CaseGrows DEF DisputeState
  <2>4. QED
    BY <1>1, <2>1, <2>2, <2>3, OneCaseChanges
<1>8. CASE UNCHANGED dispute
  BY <1>1, <1>8 DEF DisputesTyped, RuledCasesHold
<1>9. QED
  BY <1>1, <1>3, <1>4, <1>5, <1>6, <1>7, <1>8, OthersLeaveDisputes

\* A ruled or closed case has a ruling that its contract's mode of resolution
\* allows, and all that the ruling cites is in the case.
THEOREM RulingsStandUp == ResolutionSpec => []RuledCasesHold
<1>1. ResolutionInit => DisputesTyped /\ RuledCasesHold
  <2>1. SUFFICES ASSUME ResolutionInit PROVE DisputesTyped /\ RuledCasesHold
    OBVIOUS
  <2>2. SomeCase \in Cases
    BY ResolutionConstants DEF SomeCase
  <2>3. DisputesTyped
    BY <2>1, <2>2, NoRulingTyped DEF ResolutionInit, DisputesTyped, DisputeState
  <2>4. RuledCasesHold
    BY <2>1 DEF ResolutionInit, RuledCasesHold
  <2>5. QED
    BY <2>3, <2>4
<1>2. QED
  BY <1>1, CaseStep, PTL DEF ResolutionSpec
=============================================================================
