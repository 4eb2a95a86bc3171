------------------------------- MODULE Company -------------------------------
(***************************************************************************)
(* The governance of one company: applyCompanyEvent of                     *)
(* protocol/company.ts, one action per event kind.  Owners hand out and    *)
(* take back roles; owners and operators run the company.  Any agent can   *)
(* send any event.  Names and descriptions are left out, and so are the    *)
(* contents of attestations and reservations.                              *)
(***************************************************************************)
EXTENDS FiniteSets

CONSTANTS
  Members,         \* agents that can hold a role
  Attested,        \* ids of treasury attestations
  Reservations,    \* ids of treasury reservations
  Venues           \* marketplaces the company can join

VARIABLES
  founded,       \* the genesis event was appended
  role,          \* role[r]: the agents with role r
  attestations,  \* treasury attestations on record
  reserved,      \* open treasury reservations
  joined         \* marketplaces joined

companyVars == <<founded, role, attestations, reserved, joined>>

Roles == {"owner", "operator", "member"}

CompanyInit ==
  /\ founded = FALSE
  /\ role = [r \in Roles |-> {}]
  /\ attestations = {} /\ reserved = {} /\ joined = {}

-----------------------------------------------------------------------------

Found(a, owners) ==
  /\ ~founded
  /\ a \in owners
  /\ founded' = TRUE
  /\ role' = [role EXCEPT !["owner"] = owners]
  /\ UNCHANGED <<attestations, reserved, joined>>

GrantRole(a, r, m) ==
  /\ founded /\ a \in role["owner"]
  /\ role' = [role EXCEPT ![r] = @ \cup {m}]
  /\ UNCHANGED <<founded, attestations, reserved, joined>>

\* Faulty variant: only somebody else's ownership is protected.
RevokeRole_Self(a, r, m) ==
  /\ founded /\ a \in role["owner"]
  /\ (r = "owner" /\ m # a) => role["owner"] \ {m} # {}
  /\ role' = [role EXCEPT ![r] = @ \ {m}]
  /\ UNCHANGED <<founded, attestations, reserved, joined>>

\* The last owner stays.
RevokeRole(a, r, m) ==
  /\ founded /\ a \in role["owner"]
  /\ r = "owner" => role["owner"] \ {m} # {}
  /\ role' = [role EXCEPT ![r] = @ \ {m}]
  /\ UNCHANGED <<founded, attestations, reserved, joined>>

\* assertOperationalActor.
Operates(a) == founded /\ a \in role["owner"] \cup role["operator"]

AttestTreasury(a, id) ==
  /\ Operates(a)
  /\ attestations' = attestations \cup {id}
  /\ UNCHANGED <<founded, role, reserved, joined>>

ReserveTreasury(a, id) ==
  /\ Operates(a)
  /\ reserved' = reserved \cup {id}
  /\ UNCHANGED <<founded, role, attestations, joined>>

ReleaseTreasury(a, id) ==
  /\ Operates(a)
  /\ id \in reserved
  /\ reserved' = reserved \ {id}
  /\ UNCHANGED <<founded, role, attestations, joined>>

JoinMarket(a, m) ==
  /\ Operates(a)
  /\ joined' = joined \cup {m}
  /\ UNCHANGED <<founded, role, attestations, reserved>>

LeaveMarket(a, m) ==
  /\ Operates(a)
  /\ joined' = joined \ {m}
  /\ UNCHANGED <<founded, role, attestations, reserved>>

CompanyNext ==
  \E a \in Members :
    \/ \E owners \in SUBSET Members : Found(a, owners)
    \/ \E r \in Roles, m \in Members : GrantRole(a, r, m) \/ RevokeRole(a, r, m)
    \/ \E id \in Attested : AttestTreasury(a, id)
    \/ \E id \in Reservations : ReserveTreasury(a, id) \/ ReleaseTreasury(a, id)
    \/ \E m \in Venues : JoinMarket(a, m) \/ LeaveMarket(a, m)

CompanySpec == CompanyInit /\ [][CompanyNext]_companyVars

-----------------------------------------------------------------------------
(* Properties.                                                               *)

CompanyTypeOK ==
  /\ founded \in BOOLEAN
  /\ role \in [Roles -> SUBSET Members]
  /\ attestations \subseteq Attested
  /\ reserved \subseteq Reservations
  /\ joined \subseteq Venues

\* Owners can remove each other and themselves in any order, and a company that
\* exists always has one: nobody else could ever change a role of it again.
AlwaysOwned == founded => role["owner"] # {}
=============================================================================
