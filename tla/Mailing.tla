------------------------------- MODULE Mailing -------------------------------
(***************************************************************************)
(* The commands that open a space and write messages in it                 *)
(* (handleSpaceCreate, handleMessageSend and handleMessageEdit of cli.ts,  *)
(* encryptMessageForRecipients of protocol/messaging.ts), over the         *)
(* reducers of Messaging.  A message is sealed for the members the command *)
(* has listed when it began, one box after the other, with awaits; until   *)
(* it is appended other commands create spaces, manage memberships, and    *)
(* send and edit messages, this one among them.  Boxes are named by whom   *)
(* they are for.  One command is followed, any other is one step.          *)
(***************************************************************************)
EXTENDS Messaging

VARIABLE mail  \* the command under way

mailingVars == <<space, membership, note, order, mail>>

\* to: whom the body of the message is sealed for; moved: whoever came into or
\* went from its space meanwhile (history).
Mail ==
  [does : {"nothing", "create", "join", "send", "edit"}, by : Persons, note : Notes, space : Spaces,
   to : SUBSET Persons, moved : SUBSET Persons]

NoMail ==
  [does |-> "nothing", by |-> NoMembership.who, note |-> CHOOSE n \in Notes : TRUE,
   space |-> NoMembership.space, to |-> {}, moved |-> {}]

MailingInit ==
  /\ MessagingInit
  /\ mail = NoMail

InSpace(s) == {p \in Persons : HeldBy(s, p) # {}}

BeginMail(does, p, n, s, to) ==
  /\ mail.does = "nothing"
  /\ mail' = [does |-> does, by |-> p, note |-> n, space |-> s, to |-> to, moved |-> {}]
  /\ UNCHANGED messagingVars

\* Whoever has had a membership.
OnRecord(s) ==
  {membership[x].who : x \in {y \in MembershipIds : membership[y].status # "none" /\ membership[y].space = s}}

\* Faulty variant: removed members are listed too.
Listed_Removed(s) == OnRecord(s)

\* listActiveSpaceMemberDids.
Listed(s) == InSpace(s)

BeginCreate(p, s) == BeginMail("create", p, NoMail.note, s, {})

BeginSend(p, n, s) == Listed(s) # {} /\ BeginMail("send", p, n, s, Listed(s) \cup {p})

\* The text of a deleted message is edited too.
BeginEdit(p, n) ==
  note[n].status # "none" /\ BeginMail("edit", p, n, note[n].space, Listed(note[n].space) \cup {p})

-----------------------------------------------------------------------------

\* The creator is among the owners, unless the policy is given as an option.
AppendSpace(owners) ==
  /\ mail.does = "create"
  /\ CreateSpace(mail.space, owners)
  /\ mail' = [mail EXCEPT !.does = "join"]

\* The id of the creator's membership is that of the space with that of the
\* creator, so that there is at most one.
AppendOwner(x) ==
  /\ mail.does = "join"
  /\ mail.by \notin OnRecord(mail.space)
  /\ AddMember(mail.by, x, mail.space, mail.by, "owner")
  /\ mail' = NoMail

AppendMessage ==
  /\ \/ mail.does = "send" /\ SendMessage(mail.by, mail.note, mail.space)
     \/ mail.does = "edit" /\ EditMessage(mail.by, mail.note)
  /\ mail' = NoMail

\* Refused, unable to seal for somebody, or killed.
MailFails ==
  /\ mail.does # "nothing"
  /\ mail' = NoMail
  /\ UNCHANGED messagingVars

\* Who comes into space s, or goes from it, by a step.
Moving(s) ==
  {p \in Persons : (HeldBy(s, p) = {}) # (HeldBy(s, p)' = {})}

\* Events of other commands, also about the message at hand; a moderator manages
\* as an owner does.
OthersGo ==
  /\ \/ \E s \in Spaces, owners \in SUBSET Persons : CreateSpace(s, owners) \/ ArchiveSpace(s)
     \/ \E p, who \in Persons, x \in MembershipIds, s \in Spaces, r \in Ranks \ {"moderator"} :
          AddMember(p, x, s, who, r) \/ SetRank(p, x, r)
     \/ \E p \in Persons, x \in MembershipIds : RemoveMember(p, x) \/ MuteMember(p, x)
     \/ \E p \in Persons, n \in Notes :
          (\E s \in Spaces : SendMessage(p, n, s)) \/ EditMessage(p, n) \/ DeleteMessage(p, n)
  /\ \E s \in {mail.space} :
       mail' = IF mail.to = {} THEN mail ELSE [mail EXCEPT !.moved = @ \cup Moving(s)]

MailingNext ==
  \/ \E p \in Persons, s \in Spaces : BeginCreate(p, s) \/ \E n \in Notes : BeginSend(p, n, s)
  \/ \E p \in Persons, n \in Notes : BeginEdit(p, n)
  \/ \E owners \in SUBSET Persons : AppendSpace(owners)
  \/ \E x \in MembershipIds : AppendOwner(x)
  \/ AppendMessage \/ MailFails \/ OthersGo

MailingSpec == MailingInit /\ [][MailingNext]_mailingVars

-----------------------------------------------------------------------------

MailingTypeOK == mail \in Mail

\* A message, and every later text of it, is sealed for its author and for
\* those who are in the space when it is appended: nobody who was removed
\* before the command began can read it, whatever memberships a person has
\* had and however often it is edited, and nobody who was there is left out.
\* Who came or went while it was being sealed is counted as when that began
\* (handleMessageSend, handleMessageEdit).  Left out is the edit of a message
\* that is sent anew to another space meanwhile: it is sealed for those of the
\* space it was in.
SealedForMembers ==
  [][AppendMessage /\ note'[mail.note].space = mail.space =>
       \A p \in Persons \ mail.moved :
         p \in mail.to <=> p \in InSpace(mail.space) \/ p = note'[mail.note].from]_mailingVars
=============================================================================
