----------------------------- MODULE MCReducers -----------------------------
(***************************************************************************)
(* The reducers of the protocol objects, the commands over them that do    *)
(* more than append, and the envelopes that bring their events, checked    *)
(* together by TLC.  A reducer changes the object its event is about and   *)
(* nothing else, and each property speaks of the objects of one module, so *)
(* that a behaviour follows the objects of one module.                     *)
(***************************************************************************)
EXTENDS Contract, Market, Company, Mailing, MCResolution, Profile, Envelope

VARIABLE family  \* the module whose objects the behaviour follows

reducerVars == <<contractVars, marketVars, companyVars, mailingVars, resolutionVars,
                 profileVars, envelopeVars>>

Families ==
  {"contract", "market", "company", "messaging", "mailing", "resolution", "profile", "envelope"}

Init ==
  /\ ContractInit /\ MarketInit /\ CompanyInit /\ MailingInit /\ ResolutionInit
  /\ ProfileInit /\ EnvelopeInit
  /\ family \in Families

\* Bounds of the instance.  Where commands work on a space, its policy names one
\* owner at most; owners by rank are not bounded.
OneOwnerByPolicy == \A s \in Spaces : Cardinality(space[s].owners) <= 1

\* Approvers are named where the mode of resolution looks at them.
ApproversWhereRead ==
  \A d \in Disputes : Mode[dispute[d].case] # "mutual" => dispute[d].ruling.approvers = <<>>

Next ==
  /\ family' = family
  /\ \/ /\ family = "contract" /\ ContractNext
        /\ UNCHANGED <<marketVars, companyVars, mailingVars, resolutionVars, profileVars, envelopeVars>>
     \/ /\ family = "market" /\ MarketNext
        /\ UNCHANGED <<contractVars, companyVars, mailingVars, resolutionVars, profileVars, envelopeVars>>
     \/ /\ family = "company" /\ CompanyNext
        /\ UNCHANGED <<contractVars, marketVars, mailingVars, resolutionVars, profileVars, envelopeVars>>
     \/ /\ family = "messaging" /\ MessagingNext
        /\ UNCHANGED <<mail, contractVars, marketVars, companyVars, resolutionVars, profileVars, envelopeVars>>
     \/ /\ family = "mailing" /\ MailingNext /\ OneOwnerByPolicy'
        /\ UNCHANGED <<contractVars, marketVars, companyVars, resolutionVars, profileVars, envelopeVars>>
     \/ /\ family = "resolution" /\ ResolutionNext /\ ApproversWhereRead'
        /\ UNCHANGED <<contractVars, marketVars, companyVars, mailingVars, profileVars, envelopeVars>>
     \/ /\ family = "profile" /\ ProfileNext
        /\ UNCHANGED <<contractVars, marketVars, companyVars, mailingVars, resolutionVars, envelopeVars>>
     \/ /\ family = "envelope" /\ EnvelopeNext
        /\ UNCHANGED <<contractVars, marketVars, companyVars, mailingVars, resolutionVars, profileVars>>

Spec == Init /\ [][Next]_<<family, reducerVars>>
=============================================================================
