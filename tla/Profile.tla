------------------------------- MODULE Profile -------------------------------
(***************************************************************************)
(* The profile of an agent and the feedback credentials it refers to:      *)
(* applyAgentProfileEvent (protocol/identity.ts), the reducer of           *)
(* feedback-credential-ref (protocol/credential-reference.ts), and the     *)
(* agent commands of cli.ts that write them.  A feedback command writes    *)
(* two objects one after the other, and commands of the daemon overlap at  *)
(* every await.  Names, bios and the contents of entries are left out: an  *)
(* entry is its id.  An event is refused unless its command has read the   *)
(* latest event of the object; a command remembers whether what it has     *)
(* read is still the latest.  What a write error or a crash leaves in the  *)
(* logs is the matter of Repository: here they end a command anywhere.     *)
(***************************************************************************)
CONSTANTS
  AgentCalls,  \* commands that can run at once
  Entries      \* ids of endpoints, attestations and credentials

VARIABLES
  made,    \* the profile exists
  listed,  \* listed[l]: the entries list l of the profile has
  refs,    \* refs[e]: the status of the credential reference object e
  agentCall, \* agentCall[c]: the command c runs
  cut      \* credentials commands left half way                (history)

profileVars == <<made, listed, refs, agentCall, cut>>

ProfileLists == {"paymentEndpoints", "custodialWalletAttestations", "feedbackCredentialRefs"}

Appends == {"create", "save", "record", "list", "revoke", "unlist"}

NoCall == [does |-> "nothing", list |-> "none", entry |-> "none", at |-> "idle",
           read |-> "not yet", halfWay |-> FALSE]

ProfileInit ==
  /\ made = FALSE
  /\ listed = [l \in ProfileLists |-> {}]
  /\ refs = [e \in Entries |-> "none"]
  /\ agentCall = [c \in AgentCalls |-> NoCall]
  /\ cut = {}

OnProfile(at) == at \in Appends \ {"record", "revoke"}

SameObject(k, m) ==
  \/ OnProfile(k.at) /\ OnProfile(m.at)
  \/ {k.at, m.at} \subseteq {"record", "revoke"} /\ k.entry = m.entry

GoOn(c, at) == agentCall' = [agentCall EXCEPT ![c].at = at, ![c].read = "not yet"]

-----------------------------------------------------------------------------

BeginAgent(c, does, l, e) ==
  /\ agentCall[c].at = "idle"
  /\ agentCall' = [agentCall EXCEPT ![c] =
       [NoCall EXCEPT !.does = does, !.list = l, !.entry = e,
                      !.at = IF does = "init" THEN "look" ELSE "ensure"]]
  /\ UNCHANGED <<made, listed, refs, cut>>

\* agent init creates the profile, or updates it where it says something new.
LookAtProfile(c, news) ==
  /\ agentCall[c].at = "look"
  /\ GoOn(c, IF made /\ ~news THEN "answer" ELSE "save")
  /\ UNCHANGED <<made, listed, refs, cut>>

\* Faulty variant: a feedback credential is listed like the other entries.
FirstStep_ListsAll(k) == IF k.does = "add" THEN "list" ELSE "unlist"

\* The object of a feedback credential is written before the profile.
FirstStep(k) ==
  IF k.list = "feedbackCredentialRefs"
  THEN IF k.does = "add" THEN "record" ELSE "look up"
  ELSE IF k.does = "add" THEN "list" ELSE "unlist"

EnsureProfile(c) ==
  /\ agentCall[c].at = "ensure"
  /\ GoOn(c, IF made THEN FirstStep(agentCall[c]) ELSE "create")
  /\ UNCHANGED <<made, listed, refs, cut>>

\* A credential that was never recorded has nothing to revoke.
LookUpRef(c) ==
  /\ agentCall[c].at = "look up"
  /\ GoOn(c, IF refs[agentCall[c].entry] = "none" THEN "unlist" ELSE "revoke")
  /\ UNCHANGED <<made, listed, refs, cut>>

ReadLatest(c) ==
  /\ agentCall[c].at \in Appends /\ agentCall[c].read = "not yet"
  /\ agentCall' = [agentCall EXCEPT ![c].read = "latest"]
  /\ UNCHANGED <<made, listed, refs, cut>>

\* Call c has appended and goes on; what the others read of the object is stale.
Appended(c, next, halfWay) ==
  LET k == agentCall[c] IN
  /\ k.read = "latest"
  /\ agentCall' = [d \in AgentCalls |->
       IF d = c THEN [k EXCEPT !.at = next, !.read = "not yet", !.halfWay = halfWay]
       ELSE IF agentCall[d].read = "latest" /\ SameObject(k, agentCall[d])
            THEN [agentCall[d] EXCEPT !.read = "stale"]
       ELSE agentCall[d]]

\* agent-profile.created is an update like another where the profile exists.
SaveProfile(c) ==
  LET k == agentCall[c] IN
  /\ k.at \in {"create", "save"}
  /\ made' = TRUE
  /\ Appended(c, IF k.at = "save" THEN "answer" ELSE FirstStep(k), FALSE)
  /\ UNCHANGED <<listed, refs, cut>>

RecordRef(c) ==
  LET k == agentCall[c] IN
  /\ k.at = "record" /\ refs[k.entry] = "none"
  /\ refs' = [refs EXCEPT ![k.entry] = "active"]
  /\ Appended(c, "list", TRUE)
  /\ UNCHANGED <<made, listed, cut>>

RevokeRef(c) ==
  LET k == agentCall[c] IN
  /\ k.at = "revoke" /\ refs[k.entry] = "active"
  /\ refs' = [refs EXCEPT ![k.entry] = "revoked"]
  /\ Appended(c, "unlist", TRUE)
  /\ UNCHANGED <<made, listed, cut>>

ListEntry(c) ==
  LET k == agentCall[c] IN
  /\ k.at = "list"
  /\ listed' = [listed EXCEPT ![k.list] = @ \cup {k.entry}]
  /\ Appended(c, "answer", k.halfWay)
  /\ UNCHANGED <<made, refs, cut>>

\* A removal that looked before the credential was recorded unlists it unrevoked.
UnlistEntry(c) ==
  LET k == agentCall[c] IN
  /\ k.at = "unlist" /\ k.entry \in listed[k.list]
  /\ cut' = IF k.list = "feedbackCredentialRefs" /\ ~k.halfWay
            THEN cut \cup {k.entry} ELSE cut
  /\ listed' = [listed EXCEPT ![k.list] = @ \ {k.entry}]
  /\ Appended(c, "answer", k.halfWay)
  /\ UNCHANGED <<made, refs>>

AnswerAgent(c) ==
  /\ agentCall[c].at = "answer"
  /\ agentCall' = [agentCall EXCEPT ![c] = NoCall]
  /\ UNCHANGED <<made, listed, refs, cut>>

\* Refused, hit by a write error, or killed.
AgentFails(c) ==
  /\ agentCall[c].at # "idle"
  /\ agentCall' = [agentCall EXCEPT ![c] = NoCall]
  /\ cut' = IF agentCall[c].halfWay THEN cut \cup {agentCall[c].entry} ELSE cut
  /\ UNCHANGED <<made, listed, refs>>

ProfileNext ==
  \E c \in AgentCalls :
    \/ BeginAgent(c, "init", "none", "none")
    \/ \E does \in {"add", "remove"}, l \in ProfileLists, e \in Entries : BeginAgent(c, does, l, e)
    \/ \E news \in BOOLEAN : LookAtProfile(c, news)
    \/ EnsureProfile(c) \/ LookUpRef(c) \/ ReadLatest(c)
    \/ SaveProfile(c) \/ RecordRef(c) \/ RevokeRef(c) \/ ListEntry(c) \/ UnlistEntry(c)
    \/ AnswerAgent(c) \/ AgentFails(c)

ProfileSpec == ProfileInit /\ [][ProfileNext]_profileVars

-----------------------------------------------------------------------------

Places == Appends \cup {"idle", "look", "look up", "ensure", "answer"}

CallRecord ==
  [does : {"nothing", "init", "add", "remove"}, list : ProfileLists \cup {"none"},
   entry : Entries \cup {"none"}, at : Places, read : {"not yet", "latest", "stale"},
   halfWay : BOOLEAN]

\* The profile, its references and the commands have values of their kinds.
ProfileTypeOK ==
  /\ made \in BOOLEAN
  /\ listed \in [ProfileLists -> SUBSET Entries]
  /\ refs \in [Entries -> {"none", "active", "revoked"}]
  /\ agentCall \in [AgentCalls -> CallRecord]
  /\ cut \in SUBSET Entries

InHand(e) == \E c \in AgentCalls : agentCall[c].entry = e /\ agentCall[c].halfWay

\* However the agent commands overlap, a credential in the profile has been
\* recorded, and is active exactly while the profile lists it, but for the
\* credentials a feedback command is at work on or has left half way (cut short,
\* or removed by one that had looked for its reference too early;
\* handleAgentFeedbackAdd and handleAgentFeedbackRemove of cli.ts, over the
\* two reducers).
ProfileMatchesRefs ==
  \A e \in Entries :
    LET in == e \in listed["feedbackCredentialRefs"] IN
    /\ in => refs[e] # "none"
    /\ (e \notin cut /\ ~InHand(e)) => (in <=> refs[e] = "active")
=============================================================================
