------------------------------ MODULE Messaging ------------------------------
(***************************************************************************)
(* Spaces, their memberships and the messages in them: the reducers of     *)
(* protocol/messaging.ts, one action per event kind.  Whoever acts is a    *)
(* parameter of the action, as every reducer but the space's asks who it   *)
(* is.  The contents of messages are left out.                             *)
(*                                                                         *)
(* A membership is an object of its own, and a person may have several in  *)
(* one space (its id is an option of the command).  The reducers then find *)
(* the one that is last in the repository's map of memberships: in the     *)
(* order they were first added, or, once the repository was opened again,  *)
(* in the order of their ids.                                              *)
(***************************************************************************)
EXTENDS Naturals, Sequences, FiniteSetsExt, SequencesExt

CONSTANTS
  Spaces, Persons, Notes,  \* spaces, agents, messages
  MaxMemberships           \* membership ids are 1..MaxMemberships, in the order of ids

ASSUME MessagingConstants ==
  /\ Spaces # {} /\ Persons # {}
  /\ MaxMemberships \in Nat

VARIABLES space, membership, note, order

messagingVars == <<space, membership, note, order>>

MembershipIds == 1..MaxMemberships
Ranks         == {"owner", "moderator", "member"}

SpaceState == [status : {"none", "active", "archived"}, owners : SUBSET Persons]
MembershipState ==
  [status : {"none", "active", "muted", "removed"}, space : Spaces, who : Persons, rank : Ranks]
NoteState ==
  [status : {"none", "sent", "edited", "deleted"}, space : Spaces, from : Persons,
   reactions : SUBSET Persons]

NoMembership ==
  [status |-> "none", space |-> CHOOSE s \in Spaces : TRUE,
   who |-> CHOOSE p \in Persons : TRUE, rank |-> "member"]

MessagingInit ==
  /\ space = [s \in Spaces |-> [status |-> "none", owners |-> {}]]
  /\ membership = [x \in MembershipIds |-> NoMembership]
  /\ note = [n \in Notes |->
       [status |-> "none", space |-> NoMembership.space, from |-> NoMembership.who,
        reactions |-> {}]]
  /\ order = <<>>

\* The places in the map of the memberships activeMembersForSpace keeps for p.
HeldBy(s, p) ==
  {i \in DOMAIN order : /\ membership[order[i]].space = s /\ membership[order[i]].who = p
                        /\ membership[order[i]].status # "removed"}

\* The one that is set last.
LastHeld(s, p) == membership[order[Max(HeldBy(s, p))]]

Populated(s) == \E p \in Persons : HeldBy(s, p) # {}

\* assertActiveMember.
Speaks(s, p) == HeldBy(s, p) # {} /\ LastHeld(s, p).status = "active"

\* assertCanManageMembership.
Manages(s, p) ==
  \/ p \in space[s].owners
  \/ HeldBy(s, p) # {} /\ LastHeld(s, p).rank \in {"owner", "moderator"}

-----------------------------------------------------------------------------
(* Spaces.  Nobody asks who creates (again) or archives one.                 *)

CreateSpace(s, owners) ==
  /\ owners # {}
  /\ space' = [space EXCEPT ![s] = [status |-> "active", owners |-> owners]]
  /\ UNCHANGED <<membership, note, order>>

ArchiveSpace(s) ==
  /\ space[s].status # "none"
  /\ space' = [space EXCEPT ![s].status = "archived"]
  /\ UNCHANGED <<membership, note, order>>

-----------------------------------------------------------------------------
(* Memberships.                                                              *)

\* Faulty variant: a membership can be added again.
AddMember_Again(p, x, s, who, rank) ==
  /\ space[s].status # "none"
  /\ Populated(s) => Manages(s, p)
  /\ membership' = [membership EXCEPT ![x] =
       [status |-> "active", space |-> s, who |-> who, rank |-> rank]]
  /\ order' = IF membership[x].status = "none" THEN Append(order, x) ELSE order
  /\ UNCHANGED <<space, note>>

\* A space nobody is in takes a member from anyone.
AddMember(p, x, s, who, rank) ==
  /\ membership[x].status = "none"
  /\ space[s].status # "none"
  /\ Populated(s) => Manages(s, p)
  /\ membership' = [membership EXCEPT ![x] =
       [status |-> "active", space |-> s, who |-> who, rank |-> rank]]
  /\ order' = Append(order, x)
  /\ UNCHANGED <<space, note>>

\* Removed, muted or given another rank, from whatever the membership was.
ChangeMembership(p, x, state) ==
  /\ membership[x].status # "none"
  /\ Manages(membership[x].space, p)
  /\ membership' = [membership EXCEPT ![x] = state]
  /\ UNCHANGED <<space, note, order>>

RemoveMember(p, x) == ChangeMembership(p, x, [membership[x] EXCEPT !.status = "removed"])
MuteMember(p, x)   == ChangeMembership(p, x, [membership[x] EXCEPT !.status = "muted"])
SetRank(p, x, r)   == ChangeMembership(p, x, [membership[x] EXCEPT !.rank = r])

-----------------------------------------------------------------------------
(* Messages.                                                                 *)

NoteGoes(n, state) ==
  /\ note' = [note EXCEPT ![n] = state]
  /\ UNCHANGED <<space, membership, order>>

\* Also for a message that exists: it starts over.
SendMessage(p, n, s) ==
  /\ space[s].status = "active"
  /\ Speaks(s, p)
  /\ NoteGoes(n, [status |-> "sent", space |-> s, from |-> p, reactions |-> {}])

EditMessage(p, n) ==
  /\ note[n].status # "none" /\ note[n].from = p
  /\ NoteGoes(n, [note[n] EXCEPT !.status = "edited"])

DeleteMessage(p, n) ==
  /\ note[n].status # "none" /\ note[n].from = p
  /\ NoteGoes(n, [note[n] EXCEPT !.status = "deleted"])

\* Faulty variant: whoever sees a message can react to it.
ReactToMessage_Anyone(p, n) ==
  /\ note[n].status # "none"
  /\ NoteGoes(n, [note[n] EXCEPT !.reactions = @ \cup {p}])

ReactToMessage(p, n) ==
  /\ note[n].status # "none"
  /\ Speaks(note[n].space, p)
  /\ NoteGoes(n, [note[n] EXCEPT !.reactions = @ \cup {p}])

-----------------------------------------------------------------------------

\* The repository is opened again: its maps are filled in the order of ids.
Reopen ==
  /\ \E ids \in [DOMAIN order -> ToSet(order)] :
       /\ \A i, j \in DOMAIN ids : i < j => ids[i] < ids[j]
       /\ order' = ids
  /\ UNCHANGED <<space, membership, note>>

MessagingNext ==
  \/ \E s \in Spaces, owners \in SUBSET Persons : CreateSpace(s, owners)
  \/ \E s \in Spaces : ArchiveSpace(s)
  \/ \E p, who \in Persons, x \in MembershipIds, s \in Spaces, r \in Ranks : AddMember(p, x, s, who, r)
  \/ \E p \in Persons, x \in MembershipIds : RemoveMember(p, x) \/ MuteMember(p, x)
  \/ \E p \in Persons, x \in MembershipIds, r \in Ranks : SetRank(p, x, r)
  \/ \E p \in Persons, n \in Notes :
       \/ \E s \in Spaces : SendMessage(p, n, s)
       \/ EditMessage(p, n) \/ DeleteMessage(p, n) \/ ReactToMessage(p, n)
  \/ Reopen

MessagingSpec == MessagingInit /\ [][MessagingNext]_messagingVars

-----------------------------------------------------------------------------
(* Properties.                                                               *)

MessagingTypeOK ==
  /\ space \in [Spaces -> SpaceState]
  /\ membership \in [MembershipIds -> MembershipState]
  /\ note \in [Notes -> NoteState]
  /\ order \in Seq(MembershipIds)

\* Every voice in a space, the sender of a message and those who reacted to it,
\* is that of somebody the space has a membership on record for, also after
\* removals and after messages and spaces were created anew.
VoicesAreMembers ==
  \A n \in Notes : note[n].status # "none" =>
    \A p \in {note[n].from} \cup note[n].reactions :
      \E x \in MembershipIds :
        membership[x].status # "none" /\ membership[x].space = note[n].space
          /\ membership[x].who = p

\* A membership once muted or removed is never active again, whoever adds, mutes
\* or removes it in whatever order.
SilencedForGood ==
  [][\A x \in MembershipIds :
       membership[x].status \in {"muted", "removed"} => membership'[x].status # "active"]_messagingVars
=============================================================================
