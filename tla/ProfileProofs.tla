---------------------------- MODULE ProfileProofs ----------------------------
(***************************************************************************)
(* The profile lists exactly the active credentials, but for those in hand *)
(* or left half way, for any number of overlapping commands and entries.   *)
(*                                                                         *)
(* The argument: a credential is recorded once, so that at most one        *)
(* command is about to list it, and until then it is not listed (OneLists);*)
(* a command about to unlist it has revoked it, or leaves it marked; so    *)
(* whoever comes last of the commands that have it in hand leaves list and *)
(* status in agreement, or marks it (Agrees).                              *)
(***************************************************************************)
EXTENDS Profile, TLAPS

Cred == "feedbackCredentialRefs"

\* What a command at each place is working on.
Sane(k) ==
  /\ k.halfWay => k.list = Cred /\ k.entry \in Entries /\ k.at \in {"list", "unlist", "answer"}
  /\ k.at \in {"record", "revoke", "look up"} => k.list = Cred
  /\ k.at = "list" /\ k.list = Cred => k.halfWay
  /\ k.at \in Places \ {"idle", "look", "save", "answer"} =>
       k.list \in ProfileLists /\ k.entry \in Entries

CallsAreSane == \A c \in AgentCalls : Sane(agentCall[c])

Lists(c, e) == agentCall[c].halfWay /\ agentCall[c].entry = e /\ agentCall[c].at = "list"

Unlists(c, e) == agentCall[c].halfWay /\ agentCall[c].entry = e /\ agentCall[c].at = "unlist"

Listed(e) == e \in listed[Cred]

\* What is listed or in hand was recorded.
Recorded(e) ==
  refs[e] = "none" =>
    ~Listed(e) /\ \A c \in AgentCalls : ~(agentCall[c].halfWay /\ agentCall[c].entry = e)

OneLists(e) ==
  \A c \in AgentCalls : Lists(c, e) =>
    /\ ~Listed(e)
    /\ \A d \in AgentCalls : Lists(d, e) => d = c

UnlistsRevoked(e) == \A c \in AgentCalls : Unlists(c, e) => refs[e] = "revoked"

RevokedIsUnlisted(e) ==
  \A c \in AgentCalls : Lists(c, e) /\ refs[e] = "revoked" =>
    e \in cut \/ \E d \in AgentCalls : Unlists(d, e)

Agrees(e) ==
  \/ e \in cut
  \/ \E c \in AgentCalls : Lists(c, e) \/ Unlists(c, e)
  \/ Listed(e) <=> refs[e] = "active"

EntryInv(e) ==
  Recorded(e) /\ OneLists(e) /\ UnlistsRevoked(e) /\ RevokedIsUnlisted(e) /\ Agrees(e)

ProfileInv == ProfileTypeOK /\ CallsAreSane /\ \A e \in Entries : EntryInv(e)

\* What command c has read is of no matter here: the others stay as they are.
OthersStay(c) ==
  \A d \in AgentCalls \ {c} :
    /\ agentCall'[d].does = agentCall[d].does
    /\ agentCall'[d].list = agentCall[d].list
    /\ agentCall'[d].entry = agentCall[d].entry
    /\ agentCall'[d].at = agentCall[d].at
    /\ agentCall'[d].halfWay = agentCall[d].halfWay

\* Command c goes to another place with the same work.
Moves(c, to, halfWay) ==
  /\ agentCall'[c].does = agentCall[c].does
  /\ agentCall'[c].list = agentCall[c].list
  /\ agentCall'[c].entry = agentCall[c].entry
  /\ agentCall'[c].at = to
  /\ agentCall'[c].halfWay = halfWay

-----------------------------------------------------------------------------

LEMMA NoCallIsSane == NoCall \in CallRecord /\ Sane(NoCall) /\ ~NoCall.halfWay /\ NoCall.at = "idle"
BY DEF NoCall, CallRecord, Sane, Places, Appends

LEMMA InitHolds == ProfileInit => ProfileInv
<1>1. SUFFICES ASSUME ProfileInit PROVE ProfileInv
  OBVIOUS
<1>2. \A c \in AgentCalls : agentCall[c] = NoCall
  BY <1>1 DEF ProfileInit
<1>3. ProfileTypeOK
  BY <1>1, NoCallIsSane DEF ProfileInit, ProfileTypeOK
<1>4. CallsAreSane
  BY <1>2, NoCallIsSane DEF CallsAreSane
<1>5. ASSUME NEW e \in Entries PROVE EntryInv(e)
  <2>1. refs[e] = "none" /\ ~Listed(e)
    BY <1>1 DEF ProfileInit, Listed, ProfileLists, Cred
  <2>2. QED
    BY <1>2, <2>1, NoCallIsSane DEF EntryInv, Recorded, OneLists, UnlistsRevoked,
      RevokedIsUnlisted, Agrees, Lists, Unlists
<1>6. QED
  BY <1>3, <1>4, <1>5 DEF ProfileInv

LEMMA RecordUpdates ==
  ASSUME NEW k \in CallRecord, NEW at \in Places, NEW h \in BOOLEAN
  PROVE  /\ [k EXCEPT !.read = "stale"] \in CallRecord
         /\ [k EXCEPT !.read = "latest"] \in CallRecord
         /\ [k EXCEPT !.at = at, !.read = "not yet"] \in CallRecord
         /\ [k EXCEPT !.at = at, !.read = "not yet", !.halfWay = h] \in CallRecord
BY DEF CallRecord

\* An append moves its command and leaves the work of the others.
LEMMA AppendMoves ==
  ASSUME ProfileTypeOK, NEW c \in AgentCalls, NEW to \in Places, NEW h \in BOOLEAN,
         Appended(c, to, h)
  PROVE  OthersStay(c) /\ Moves(c, to, h) /\ agentCall' \in [AgentCalls -> CallRecord]
<1>1. \A d \in AgentCalls : agentCall[d] \in CallRecord
  BY DEF ProfileTypeOK
<1>2. agentCall'[c] = [agentCall[c] EXCEPT !.at = to, !.read = "not yet", !.halfWay = h]
  BY DEF Appended
<1>3. \A d \in AgentCalls \ {c} :
        agentCall'[d] \in {agentCall[d], [agentCall[d] EXCEPT !.read = "stale"]}
  BY DEF Appended
<1>4. Moves(c, to, h) /\ agentCall'[c] \in CallRecord
  <2>1. agentCall[c] \in CallRecord
    BY <1>1
  <2>2. agentCall'[c] \in CallRecord
    <3>1. [agentCall[c] EXCEPT !.at = to, !.read = "not yet", !.halfWay = h] \in CallRecord
      BY <2>1, RecordUpdates, Zenon
    <3>2. QED
      BY <1>2, <3>1, Zenon
  <2>3. Moves(c, to, h)
    BY <1>2, <2>1 DEF Moves, CallRecord
  <2>4. QED
    BY <2>2, <2>3
<1>5. OthersStay(c) /\ \A d \in AgentCalls \ {c} : agentCall'[d] \in CallRecord
  <2>1. SUFFICES ASSUME NEW d \in AgentCalls \ {c}
                 PROVE  /\ agentCall'[d] \in CallRecord
                        /\ agentCall'[d].does = agentCall[d].does
                        /\ agentCall'[d].list = agentCall[d].list
                        /\ agentCall'[d].entry = agentCall[d].entry
                        /\ agentCall'[d].at = agentCall[d].at
                        /\ agentCall'[d].halfWay = agentCall[d].halfWay
    BY DEF OthersStay
  <2>2. CASE agentCall'[d] = agentCall[d]
    BY <1>1, <2>2
  <2>3. CASE agentCall'[d] = [agentCall[d] EXCEPT !.read = "stale"]
    BY <1>1, <2>3 DEF CallRecord
  <2>4. QED
    BY <1>3, <2>2, <2>3
<1>6. agentCall' = [d \in AgentCalls |-> agentCall'[d]]
  <2> DEFINE next(d) ==
        IF d = c THEN [agentCall[c] EXCEPT !.at = to, !.read = "not yet", !.halfWay = h]
        ELSE IF agentCall[d].read = "latest" /\ SameObject(agentCall[c], agentCall[d])
             THEN [agentCall[d] EXCEPT !.read = "stale"]
        ELSE agentCall[d]
  <2>1. agentCall' = [d \in AgentCalls |-> next(d)]
    BY DEF Appended
  <2> HIDE DEF next
  <2>2. QED
    BY <2>1
<1>7. QED
  BY <1>4, <1>5, <1>6

LEMMA GoOnMoves ==
  ASSUME ProfileTypeOK, NEW c \in AgentCalls, NEW to \in Places, GoOn(c, to)
  PROVE  /\ OthersStay(c) /\ Moves(c, to, agentCall[c].halfWay)
         /\ agentCall' \in [AgentCalls -> CallRecord]
<1>1. agentCall[c] \in CallRecord
  BY DEF ProfileTypeOK
<1>2. agentCall' = [agentCall EXCEPT ![c] = [agentCall[c] EXCEPT !.at = to, !.read = "not yet"]]
  BY DEF GoOn, ProfileTypeOK
<1>3. [agentCall[c] EXCEPT !.at = to, !.read = "not yet"] \in CallRecord
  BY <1>1, RecordUpdates
<1>4. agentCall'[c] = [agentCall[c] EXCEPT !.at = to, !.read = "not yet"]
  BY <1>2 DEF ProfileTypeOK
<1>5. QED
  BY <1>1, <1>2, <1>3, <1>4 DEF ProfileTypeOK, OthersStay, Moves, CallRecord

\* A step of c that changes no credential and neither begins nor ends work on one.
LEMMA QuietStep ==
  ASSUME NEW c \in AgentCalls, \A e \in Entries : EntryInv(e), OthersStay(c),
         listed'[Cred] = listed[Cred], refs' = refs, cut' = cut,
         ~agentCall[c].halfWay \/ agentCall[c].at = "answer",
         ~agentCall'[c].halfWay
  PROVE  \A e \in Entries : EntryInv(e)'
BY DEF OthersStay, EntryInv, Recorded, OneLists, UnlistsRevoked, RevokedIsUnlisted, Agrees,
       Lists, Unlists, Listed

-----------------------------------------------------------------------------
(* The appends that change a credential.                                    *)

LEMMA RecordStep ==
  ASSUME ProfileInv, NEW c \in AgentCalls, RecordRef(c)
  PROVE  ProfileInv'
<1> DEFINE e == agentCall[c].entry
<1>1. Sane(agentCall[c]) /\ ~agentCall[c].halfWay /\ e \in Entries /\ agentCall[c].list = Cred
  BY DEF ProfileInv, CallsAreSane, Sane, RecordRef, Places, Appends
<1>2. OthersStay(c) /\ Moves(c, "list", TRUE) /\ agentCall' \in [AgentCalls -> CallRecord]
  BY AppendMoves DEF ProfileInv, RecordRef, Places, Appends
<1>3. ProfileTypeOK'
  BY <1>2 DEF ProfileInv, ProfileTypeOK, RecordRef
<1>4. CallsAreSane'
  BY <1>1, <1>2 DEF ProfileInv, CallsAreSane, Sane, OthersStay, Moves, Places, Appends, ProfileLists, Cred
<1>5. refs[e] = "none" /\ refs'[e] = "active" /\ \A f \in Entries \ {e} : refs'[f] = refs[f]
  BY <1>1 DEF RecordRef, ProfileInv, ProfileTypeOK
<1>6. listed' = listed /\ cut' = cut
  BY DEF RecordRef
<1>7. ASSUME NEW f \in Entries PROVE EntryInv(f)'
  <2>1. EntryInv(f)
    BY DEF ProfileInv
  <2>2. CASE f = e
    BY <1>1, <1>2, <1>5, <1>6, <2>1, <2>2 DEF OthersStay, Moves, EntryInv, Recorded, OneLists, UnlistsRevoked,
      RevokedIsUnlisted, Agrees, Lists, Unlists, Listed
  <2>3. CASE f # e
    BY <1>1, <1>2, <1>5, <1>6, <2>1, <2>3 DEF OthersStay, Moves, EntryInv, Recorded, OneLists, UnlistsRevoked,
      RevokedIsUnlisted, Agrees, Lists, Unlists, Listed
  <2>4. QED
    BY <2>2, <2>3
<1>8. QED
  BY <1>3, <1>4, <1>7 DEF ProfileInv

LEMMA RevokeStep ==
  ASSUME ProfileInv, NEW c \in AgentCalls, RevokeRef(c)
  PROVE  ProfileInv'
<1> DEFINE e == agentCall[c].entry
<1>1. Sane(agentCall[c]) /\ ~agentCall[c].halfWay /\ e \in Entries /\ agentCall[c].list = Cred
  BY DEF ProfileInv, CallsAreSane, Sane, RevokeRef, Places, Appends
<1>2. OthersStay(c) /\ Moves(c, "unlist", TRUE) /\ agentCall' \in [AgentCalls -> CallRecord]
  BY AppendMoves DEF ProfileInv, RevokeRef, Places, Appends
<1>3. ProfileTypeOK'
  BY <1>2 DEF ProfileInv, ProfileTypeOK, RevokeRef
<1>4. CallsAreSane'
  BY <1>1, <1>2 DEF ProfileInv, CallsAreSane, Sane, OthersStay, Moves, Places, Appends, ProfileLists, Cred
<1>5. refs[e] = "active" /\ refs'[e] = "revoked" /\ \A f \in Entries \ {e} : refs'[f] = refs[f]
  BY <1>1 DEF RevokeRef, ProfileInv, ProfileTypeOK
<1>6. listed' = listed /\ cut' = cut
  BY DEF RevokeRef
<1>7. ASSUME NEW f \in Entries PROVE EntryInv(f)'
  <2>1. EntryInv(f)
    BY DEF ProfileInv
  <2>2. CASE f = e
    BY <1>1, <1>2, <1>5, <1>6, <2>1, <2>2 DEF OthersStay, Moves, EntryInv, Recorded, OneLists, UnlistsRevoked,
      RevokedIsUnlisted, Agrees, Lists, Unlists, Listed
  <2>3. CASE f # e
    BY <1>1, <1>2, <1>5, <1>6, <2>1, <2>3 DEF OthersStay, Moves, EntryInv, Recorded, OneLists, UnlistsRevoked,
      RevokedIsUnlisted, Agrees, Lists, Unlists, Listed
  <2>4. QED
    BY <2>2, <2>3
<1>8. QED
  BY <1>3, <1>4, <1>7 DEF ProfileInv

\* With a credential in hand half way the command lists it; another entry is
\* listed elsewhere.
LEMMA ListStep ==
  ASSUME ProfileInv, NEW c \in AgentCalls, ListEntry(c)
  PROVE  ProfileInv'
<1> DEFINE k == agentCall[c]
<1>1. Sane(k) /\ k.list \in ProfileLists /\ k.entry \in Entries /\ k.halfWay \in BOOLEAN
      /\ k.halfWay = (k.list = Cred)
  BY DEF ProfileInv, ProfileTypeOK, CallRecord, CallsAreSane, Sane, ListEntry, Places, Appends
<1>2. OthersStay(c) /\ Moves(c, "answer", k.halfWay) /\ agentCall' \in [AgentCalls -> CallRecord]
  BY <1>1, AppendMoves DEF ProfileInv, ListEntry, Places, Appends
<1>3. ProfileTypeOK'
  BY <1>1, <1>2 DEF ProfileInv, ProfileTypeOK, ListEntry
<1>4. CallsAreSane'
  BY <1>1, <1>2 DEF ProfileInv, CallsAreSane, Sane, OthersStay, Moves, Places, Appends, ProfileLists, Cred
<1>5. refs' = refs /\ cut' = cut
  BY DEF ListEntry
<1>6. CASE k.list = Cred
  <2>1. listed'[Cred] = listed[Cred] \cup {k.entry}
    BY <1>6 DEF ListEntry, ProfileInv, ProfileTypeOK, ProfileLists, Cred
  <2>2. ASSUME NEW f \in Entries PROVE EntryInv(f)'
    <3>1. EntryInv(f) /\ (f \in listed'[Cred] <=> f \in listed[Cred] \/ f = k.entry)
      BY <2>1 DEF ProfileInv
    <3>2. refs[f] \in {"none", "active", "revoked"} /\ k.at = "list" /\ k.halfWay
      BY <1>1, <1>6 DEF ProfileInv, ProfileTypeOK, ListEntry
    <3>3. CASE f = k.entry
      BY <1>1, <1>2, <1>5, <3>1, <3>2, <3>3 DEF OthersStay, Moves, EntryInv, Recorded, OneLists,
        UnlistsRevoked, RevokedIsUnlisted, Agrees, Lists, Unlists, Listed
    <3>4. CASE f # k.entry
      BY <1>1, <1>2, <1>5, <3>1, <3>4 DEF OthersStay, Moves, EntryInv, Recorded, OneLists,
        UnlistsRevoked, RevokedIsUnlisted, Agrees, Lists, Unlists, Listed
    <3>5. QED
      BY <3>3, <3>4
  <2>3. QED
    BY <1>3, <1>4, <2>2 DEF ProfileInv
<1>7. CASE k.list # Cred
  <2>1. listed'[Cred] = listed[Cred] /\ ~k.halfWay /\ ~agentCall'[c].halfWay
    BY <1>1, <1>2, <1>7 DEF ListEntry, ProfileInv, ProfileTypeOK, ProfileLists, Cred, Moves
  <2>2. \A f \in Entries : EntryInv(f)'
    BY <1>2, <1>5, <2>1, QuietStep DEF ProfileInv
  <2>3. QED
    BY <1>3, <1>4, <2>2 DEF ProfileInv
<1>8. QED
  BY <1>6, <1>7

\* A credential that is unlisted was revoked by its command, or is marked.
LEMMA UnlistStep ==
  ASSUME ProfileInv, NEW c \in AgentCalls, UnlistEntry(c)
  PROVE  ProfileInv'
<1> DEFINE k == agentCall[c]
<1>1. Sane(k) /\ k.list \in ProfileLists /\ k.entry \in Entries /\ k.halfWay \in BOOLEAN
      /\ (k.halfWay => k.list = Cred) /\ k.at = "unlist"
  BY DEF ProfileInv, ProfileTypeOK, CallRecord, CallsAreSane, Sane, UnlistEntry, Places, Appends
<1>2. OthersStay(c) /\ Moves(c, "answer", k.halfWay) /\ agentCall' \in [AgentCalls -> CallRecord]
  BY <1>1, AppendMoves DEF ProfileInv, UnlistEntry, Places, Appends
<1>3. ProfileTypeOK'
  BY <1>1, <1>2 DEF ProfileInv, ProfileTypeOK, UnlistEntry
<1>4. CallsAreSane'
  <2>1. Sane(agentCall[c])'
    BY <1>1, <1>2 DEF Sane, Moves, Places, Appends
  <2>2. ASSUME NEW d \in AgentCalls \ {c} PROVE Sane(agentCall[d])'
    BY <1>2 DEF ProfileInv, CallsAreSane, Sane, OthersStay
  <2>3. QED
    BY <2>1, <2>2 DEF CallsAreSane
<1>5. refs' = refs
  BY DEF UnlistEntry
<1>6. CASE k.list = Cred
  <2>1. listed'[Cred] = listed[Cred] \ {k.entry} /\ Listed(k.entry)
    BY <1>6 DEF UnlistEntry, ProfileInv, ProfileTypeOK, ProfileLists, Cred, Listed
  <2>2. cut' = IF k.halfWay THEN cut ELSE cut \cup {k.entry}
    BY <1>6 DEF UnlistEntry, Cred
  <2>3. ASSUME NEW f \in Entries PROVE EntryInv(f)'
    <3>1. EntryInv(f) /\ (f \in listed'[Cred] <=> f \in listed[Cred] /\ f # k.entry)
          /\ (f \in cut => f \in cut') /\ (f # k.entry => (f \in cut' => f \in cut))
          /\ (f = k.entry /\ ~k.halfWay => f \in cut')
      BY <2>1, <2>2 DEF ProfileInv
    <3>2. f = k.entry => Listed(f) /\ \A d \in AgentCalls : ~Lists(d, f)
      BY <2>1, <3>1 DEF EntryInv, OneLists
    <3>3. CASE f = k.entry
      BY <1>1, <1>2, <1>5, <3>1, <3>2, <3>3 DEF OthersStay, Moves, EntryInv, Recorded, OneLists,
        UnlistsRevoked, RevokedIsUnlisted, Agrees, Lists, Unlists, Listed
    <3>4. CASE f # k.entry
      BY <1>1, <1>2, <1>5, <3>1, <3>4 DEF OthersStay, Moves, EntryInv, Recorded, OneLists,
        UnlistsRevoked, RevokedIsUnlisted, Agrees, Lists, Unlists, Listed
    <3>5. QED
      BY <3>3, <3>4
  <2>4. QED
    BY <1>3, <1>4, <2>3 DEF ProfileInv
<1>7. CASE k.list # Cred
  <2>1. listed'[Cred] = listed[Cred] /\ ~k.halfWay /\ ~agentCall'[c].halfWay /\ cut' = cut
    BY <1>1, <1>2, <1>7 DEF UnlistEntry, ProfileInv, ProfileTypeOK, ProfileLists, Cred, Moves
  <2>2. \A f \in Entries : EntryInv(f)'
    BY <1>2, <1>5, <2>1, QuietStep DEF ProfileInv
  <2>3. QED
    BY <1>3, <1>4, <2>2 DEF ProfileInv
<1>8. QED
  BY <1>6, <1>7

-----------------------------------------------------------------------------
(* The other steps.                                                         *)

\* A step that moves command c between places where it has no credential in hand.
LEMMA MoveStep ==
  ASSUME ProfileInv, NEW c \in AgentCalls, NEW to \in Places, ~agentCall[c].halfWay,
         OthersStay(c), Moves(c, to, FALSE), agentCall' \in [AgentCalls -> CallRecord],
         made' \in BOOLEAN, UNCHANGED <<listed, refs, cut>>,
         to # "list" \/ agentCall[c].list # Cred,
         to \in {"record", "revoke", "look up"} => agentCall[c].list = Cred,
         to \in Places \ {"idle", "look", "save", "answer"} =>
           agentCall[c].list \in ProfileLists /\ agentCall[c].entry \in Entries
  PROVE  ProfileInv'
<1>1. ProfileTypeOK'
  BY DEF ProfileInv, ProfileTypeOK
<1>2. Sane(agentCall[c])'
  BY DEF Sane, Moves
<1>3. ASSUME NEW d \in AgentCalls \ {c} PROVE Sane(agentCall[d])'
  BY DEF ProfileInv, CallsAreSane, Sane, OthersStay
<1>4. CallsAreSane'
  BY <1>2, <1>3 DEF CallsAreSane
<1>5. \A e \in Entries : EntryInv(e)'
  BY QuietStep DEF ProfileInv, Moves
<1>6. QED
  BY <1>1, <1>4, <1>5 DEF ProfileInv

\* Where a command that works on its entry goes first.
LEMMA FirstStepIsSane ==
  ASSUME NEW k \in CallRecord
  PROVE  /\ FirstStep(k) \in {"record", "look up", "list", "unlist"}
         /\ FirstStep(k) = "list" => k.list # Cred
         /\ FirstStep(k) \in {"record", "look up"} => k.list = Cred
BY DEF FirstStep, Cred

LEMMA SaveStep ==
  ASSUME ProfileInv, NEW c \in AgentCalls, SaveProfile(c)
  PROVE  ProfileInv'
<1> DEFINE k == agentCall[c]
           to == IF k.at = "save" THEN "answer" ELSE FirstStep(k)
<1>1. k \in CallRecord /\ Sane(k) /\ ~k.halfWay
      /\ (k.at = "create" => k.list \in ProfileLists /\ k.entry \in Entries)
  BY DEF ProfileInv, ProfileTypeOK, CallsAreSane, Sane, SaveProfile, Places, Appends
<1>2. to \in Places
  BY <1>1, FirstStepIsSane DEF Places, Appends
<1>3. OthersStay(c) /\ Moves(c, to, FALSE) /\ agentCall' \in [AgentCalls -> CallRecord]
  BY <1>2, AppendMoves DEF ProfileInv, SaveProfile
<1>4. made' \in BOOLEAN /\ UNCHANGED <<listed, refs, cut>> /\ k.at \in {"create", "save"}
  BY DEF SaveProfile
<1>5. QED
  BY <1>1, <1>2, <1>3, <1>4, FirstStepIsSane, MoveStep

LEMMA LookSteps ==
  ASSUME ProfileInv, NEW c \in AgentCalls,
         (\E news \in BOOLEAN : LookAtProfile(c, news)) \/ EnsureProfile(c) \/ LookUpRef(c)
  PROVE  ProfileInv'
<1> DEFINE k == agentCall[c]
<1>1. k \in CallRecord /\ Sane(k) /\ ~k.halfWay /\ k.at \in {"look", "ensure", "look up"}
      /\ (k.at # "look" => k.list \in ProfileLists /\ k.entry \in Entries)
  BY DEF ProfileInv, ProfileTypeOK, CallsAreSane, Sane, LookAtProfile, EnsureProfile, LookUpRef,
    Places, Appends
<1>2. UNCHANGED <<made, listed, refs, cut>>
  BY DEF LookAtProfile, EnsureProfile, LookUpRef
<1>3. PICK to \in Places :
        /\ GoOn(c, to)
        /\ to # "list" \/ k.list # Cred
        /\ to \in {"record", "revoke", "look up"} => k.list = Cred
        /\ to \in Places \ {"idle", "look", "save", "answer"} => k.at # "look"
  <2>1. CASE \E news \in BOOLEAN : LookAtProfile(c, news)
    BY <2>1 DEF LookAtProfile, Places, Appends
  <2>2. CASE EnsureProfile(c)
    BY <1>1, <2>2, FirstStepIsSane DEF EnsureProfile, Places, Appends
  <2>3. CASE LookUpRef(c)
    <3>1. k.at = "look up" /\ k.list = Cred
      BY <1>1, <2>3 DEF LookUpRef, Sane
    <3>2. {"unlist", "revoke"} \subseteq Places
      BY DEF Places, Appends
    <3>3. GoOn(c, "unlist") \/ GoOn(c, "revoke")
      BY <2>3 DEF LookUpRef
    <3>4. QED
      BY <3>1, <3>2, <3>3
  <2>4. QED
    BY <2>1, <2>2, <2>3, Zenon
<1>4. OthersStay(c) /\ Moves(c, to, FALSE) /\ agentCall' \in [AgentCalls -> CallRecord]
  <2>1. k.halfWay = FALSE
    BY <1>1 DEF CallRecord
  <2>2. OthersStay(c) /\ Moves(c, to, k.halfWay) /\ agentCall' \in [AgentCalls -> CallRecord]
    BY <1>3, GoOnMoves DEF ProfileInv
  <2>3. QED
    BY <2>1, <2>2
<1>5. made' \in BOOLEAN
  BY <1>2 DEF ProfileInv, ProfileTypeOK
<1>6. QED
  BY <1>1, <1>2, <1>3, <1>4, <1>5, MoveStep

\* What a command has read is not part of the invariant.
LEMMA ReadStep ==
  ASSUME ProfileInv, NEW c \in AgentCalls, ReadLatest(c)
  PROVE  ProfileInv'
<1>1. agentCall[c] \in CallRecord /\ agentCall \in [AgentCalls -> CallRecord]
  BY DEF ProfileInv, ProfileTypeOK
<1>2. agentCall' = [agentCall EXCEPT ![c] = [agentCall[c] EXCEPT !.read = "latest"]]
  BY <1>1 DEF ReadLatest
<1>3. [agentCall[c] EXCEPT !.read = "latest"] \in CallRecord
  BY <1>1 DEF CallRecord
<1>4. agentCall' \in [AgentCalls -> CallRecord]
  BY <1>1, <1>2, <1>3
<1>5. \A d \in AgentCalls :
        /\ agentCall'[d].does = agentCall[d].does
        /\ agentCall'[d].list = agentCall[d].list
        /\ agentCall'[d].entry = agentCall[d].entry
        /\ agentCall'[d].at = agentCall[d].at
        /\ agentCall'[d].halfWay = agentCall[d].halfWay
  BY <1>1, <1>2 DEF CallRecord
<1>6. UNCHANGED <<made, listed, refs, cut>>
  BY DEF ReadLatest
<1>7. ProfileTypeOK'
  BY <1>4, <1>6 DEF ProfileInv, ProfileTypeOK
<1>8. CallsAreSane'
  BY <1>5 DEF ProfileInv, CallsAreSane, Sane
<1>9. ASSUME NEW e \in Entries PROVE EntryInv(e)'
  BY <1>5, <1>6 DEF ProfileInv, EntryInv, Recorded, OneLists, UnlistsRevoked, RevokedIsUnlisted,
    Agrees, Lists, Unlists, Listed
<1>10. QED
  BY <1>7, <1>8, <1>9 DEF ProfileInv

\* A command that begins, answers or fails.
LEMMA FreshStep ==
  ASSUME ProfileInv, NEW c \in AgentCalls, NEW k \in CallRecord, Sane(k), ~k.halfWay,
         agentCall' = [agentCall EXCEPT ![c] = k], UNCHANGED <<made, listed, refs>>,
         k.at \notin {"list", "unlist"}, cut' \in SUBSET Entries, cut \subseteq cut',
         agentCall[c].halfWay =>
           agentCall[c].at = "answer" \/ agentCall[c].entry \in cut'
  PROVE  ProfileInv'
<1>1. agentCall \in [AgentCalls -> CallRecord]
  BY DEF ProfileInv, ProfileTypeOK
<1>2. agentCall'[c] = k /\ \A d \in AgentCalls \ {c} : agentCall'[d] = agentCall[d]
  BY <1>1
<1>3. ProfileTypeOK'
  BY <1>1 DEF ProfileInv, ProfileTypeOK
<1>4. CallsAreSane'
  BY <1>2 DEF ProfileInv, CallsAreSane
<1>5. ASSUME NEW e \in Entries PROVE EntryInv(e)'
  <2>1. EntryInv(e)
    BY DEF ProfileInv
  <2>2. Recorded(e)' /\ OneLists(e)' /\ UnlistsRevoked(e)'
    BY <1>2, <2>1 DEF EntryInv, Recorded, OneLists, UnlistsRevoked, Lists, Unlists, Listed
  <2>3. RevokedIsUnlisted(e)'
    BY <1>2, <2>1 DEF EntryInv, RevokedIsUnlisted, Lists, Unlists
  <2>4. Agrees(e)'
    BY <1>2, <2>1 DEF EntryInv, Agrees, Lists, Unlists, Listed
  <2>5. QED
    BY <2>2, <2>3, <2>4 DEF EntryInv
<1>6. QED
  BY <1>3, <1>4, <1>5 DEF ProfileInv

LEMMA BeginStep ==
  ASSUME ProfileInv, NEW c \in AgentCalls,
         \/ BeginAgent(c, "init", "none", "none")
         \/ \E does \in {"add", "remove"}, l \in ProfileLists, e \in Entries : BeginAgent(c, does, l, e)
  PROVE  ProfileInv'
<1>1. PICK does \in {"init", "add", "remove"}, l \in ProfileLists \cup {"none"},
           e \in Entries \cup {"none"} :
        /\ BeginAgent(c, does, l, e)
        /\ does # "init" => l \in ProfileLists /\ e \in Entries
  BY DEF ProfileLists
<1> DEFINE k == [NoCall EXCEPT !.does = does, !.list = l, !.entry = e,
                               !.at = IF does = "init" THEN "look" ELSE "ensure"]
<1>2. /\ k \in CallRecord /\ k.does = does /\ k.list = l /\ k.entry = e /\ ~k.halfWay
      /\ k.at = IF does = "init" THEN "look" ELSE "ensure"
  BY DEF NoCall, CallRecord, Places, Appends
<1>3. Sane(k)
  BY <1>1, <1>2 DEF Sane
<1>4. ~agentCall[c].halfWay
  BY <1>1 DEF BeginAgent, ProfileInv, CallsAreSane, Sane
<1>5. agentCall' = [agentCall EXCEPT ![c] = k] /\ UNCHANGED <<made, listed, refs, cut>>
  BY <1>1 DEF BeginAgent
<1>6. cut' \in SUBSET Entries
  BY <1>5 DEF ProfileInv, ProfileTypeOK
<1> HIDE DEF k
<1>7. k.at \notin {"list", "unlist"}
  BY <1>2
<1>8. QED
  BY <1>2, <1>3, <1>4, <1>5, <1>6, <1>7, FreshStep

LEMMA EndSteps ==
  ASSUME ProfileInv, NEW c \in AgentCalls, AnswerAgent(c) \/ AgentFails(c)
  PROVE  ProfileInv'
<1>1. agentCall' = [agentCall EXCEPT ![c] = NoCall] /\ UNCHANGED <<made, listed, refs>>
  BY DEF AnswerAgent, AgentFails
<1>2. cut' \in SUBSET Entries /\ cut \subseteq cut'
  BY DEF AnswerAgent, AgentFails, ProfileInv, ProfileTypeOK, CallsAreSane, Sane
<1>3. agentCall[c].halfWay => agentCall[c].at = "answer" \/ agentCall[c].entry \in cut'
  BY DEF AnswerAgent, AgentFails
<1>4. QED
  BY <1>1, <1>2, <1>3, NoCallIsSane, FreshStep

-----------------------------------------------------------------------------

\* The profile, its references and the commands keep their types, and every
\* credential is as its commands left it (applyAgentProfileEvent, agent commands).
THEOREM Correct == ProfileSpec => []ProfileInv
<1>1. ProfileInv /\ [ProfileNext]_profileVars => ProfileInv'
  <2> SUFFICES ASSUME ProfileInv, [ProfileNext]_profileVars PROVE ProfileInv'
    OBVIOUS
  <2>1. CASE ProfileNext
    <3>1. PICK c \in AgentCalls :
            \/ BeginAgent(c, "init", "none", "none")
            \/ \E does \in {"add", "remove"}, l \in ProfileLists, e \in Entries :
                 BeginAgent(c, does, l, e)
            \/ \E news \in BOOLEAN : LookAtProfile(c, news)
            \/ EnsureProfile(c) \/ LookUpRef(c) \/ ReadLatest(c)
            \/ SaveProfile(c) \/ RecordRef(c) \/ RevokeRef(c) \/ ListEntry(c) \/ UnlistEntry(c)
            \/ AnswerAgent(c) \/ AgentFails(c)
      BY <2>1, Zenon DEF ProfileNext
    <3>2. CASE \/ BeginAgent(c, "init", "none", "none")
               \/ \E does \in {"add", "remove"}, l \in ProfileLists, e \in Entries :
                    BeginAgent(c, does, l, e)
      BY <3>2, BeginStep, Zenon
    <3>3. CASE (\E news \in BOOLEAN : LookAtProfile(c, news)) \/ EnsureProfile(c) \/ LookUpRef(c)
      BY <3>3, LookSteps, Zenon
    <3>4. CASE ReadLatest(c)
      BY <3>4, ReadStep
    <3>5. CASE SaveProfile(c)
      BY <3>5, SaveStep
    <3>6. CASE RecordRef(c)
      BY <3>6, RecordStep
    <3>7. CASE RevokeRef(c)
      BY <3>7, RevokeStep
    <3>8. CASE ListEntry(c)
      BY <3>8, ListStep
    <3>9. CASE UnlistEntry(c)
      BY <3>9, UnlistStep
    <3>10. CASE AnswerAgent(c) \/ AgentFails(c)
      BY <3>10, EndSteps
    <3>11. QED
      BY <3>1, <3>2, <3>3, <3>4, <3>5, <3>6, <3>7, <3>8, <3>9, <3>10
  <2>2. CASE UNCHANGED profileVars
    <3>1. ProfileTypeOK' /\ CallsAreSane'
      BY <2>2 DEF profileVars, ProfileInv, ProfileTypeOK, CallsAreSane, Sane
    <3>2. ASSUME NEW e \in Entries PROVE EntryInv(e)'
      BY <2>2 DEF profileVars, ProfileInv, EntryInv, Recorded, OneLists, UnlistsRevoked,
        RevokedIsUnlisted, Agrees, Lists, Unlists, Listed
    <3>3. QED
      BY <3>1, <3>2 DEF ProfileInv
  <2>3. QED
    BY <2>1, <2>2
<1>2. QED
  BY <1>1, InitHolds, PTL DEF ProfileSpec

\* For any number of overlapping agent commands, failing anywhere: a credential
\* in the profile was recorded, and is listed exactly while active, unless a
\* feedback command is at work on it or has left it half way.
THEOREM ListedIsActive == ProfileSpec => []ProfileMatchesRefs
<1>1. ProfileInv => ProfileMatchesRefs
  BY DEF ProfileInv, EntryInv, Recorded, Agrees, Lists, Unlists, Listed, Cred, ProfileMatchesRefs, InHand
<1>2. QED
  BY <1>1, Correct, PTL
=============================================================================
