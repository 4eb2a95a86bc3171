----------------------------- MODULE NodeProofs -----------------------------
(***************************************************************************)
(* The session table is authentic and follows the sockets, and stop closes *)
(* all of them; what the discovery watcher counts as seen was reported;    *)
(* what the wallet's adapters report is true; a daemon keeps the storage   *)
(* for the commands it serves, and those who give commands in order can    *)
(* find it, and are told the truth when it has stopped: for any sockets,   *)
(* agents, walks, entries, requests, amounts, commands and daemons.        *)
(*                                                                         *)
(* Sessions: a socket keeps its key and, once it has been read, its hello; *)
(* past validation the two agree (Checked), and the table only names       *)
(* sockets in session under their own agent (Named).  A socket in          *)
(* handleSocket that is no longer open closed early (Lost), and two open   *)
(* sockets of one agent make it a shared one (Doubled); with these, what   *)
(* the close listener takes out of the table is missed by nobody else.     *)
(*                                                                         *)
(* Watcher: a walk has reported all that comes before the entry it waits   *)
(* for (Covered), and it notes no more than that.                          *)
(*                                                                         *)
(* Adapters: an answer that can still be heard states what its payment was *)
(* while the request was under way (Answered), which a request that has    *)
(* not ended follows (Followed); what is made of its fields is right.      *)
(*                                                                         *)
(* Daemons: the storage is with the one daemon that has it open (Held),    *)
(* and every command that is served waits for one daemon (Served).  In     *)
(* order, one command runs and one daemon lives.  The files tell of a      *)
(* daemon as far as it has come (Told); only a start that waits for it can *)
(* run while one is coming up (Settled); and each stage of a probe carries *)
(* what was learnt so far (Knows): what a start knows of its daemon is     *)
(* less than what any other command knows, which may rely on Settled.      *)
(***************************************************************************)
EXTENDS Daemon, Sessions, Discovery, WalletClient, TLAPS

-----------------------------------------------------------------------------
(* Sessions.                                                                *)

Someone == Agents \cup {Unknown}

HeardTypeOK ==
  heard \in [Sockets -> [state : {"waiting", "hello", "failed"}, hello : [did : Someone, feed : Someone]]]

Checked(s) == stage[s] \in {"track", "session"} => Genuine(s) /\ key[s] \in Agents

Keyed(s) ==
  /\ stage[s] = "none" => ~open[s]
  /\ stage[s] # "none" => key[s] \in Agents

Named(a) ==
  LET s == session[a] IN
    s # Unknown => stage[s] = "session" /\ key[s] = a /\ (open[s] \/ s \in closedEarly)

Lost(s) == stage[s] \in {"handshake", "validate", "track"} => open[s] \/ s \in closedEarly

Doubled(s, t) == s # t /\ open[s] /\ open[t] /\ key[s] = key[t] => key[s] \in shared

Tabled(s) == open[s] /\ stage[s] = "session" => session[key[s]] # Unknown \/ key[s] \in shared

Closed(s) == running \in {"store", "stopped"} => ~open[s]

SocketInv(s) ==
  Checked(s) /\ Keyed(s) /\ Lost(s) /\ Tabled(s) /\ Closed(s) /\ \A t \in Sockets : Doubled(s, t)

SessionsInv ==
  /\ SessionsTypeOK /\ HeardTypeOK
  /\ \A a \in Agents : Named(a)
  /\ \A s \in Sockets : SocketInv(s)

-----------------------------------------------------------------------------

LEMMA InitHolds == SessionsInit => SessionsInv
BY SessionConstants DEF SessionsInit, SessionsInv, SessionsTypeOK, HeardTypeOK, HandlerStages,
   RunStages, Unheard, Someone, Named, SocketInv, Checked, Keyed, Lost, Tabled, Closed, Doubled

\* The inductive invariant gives the three properties.
LEMMA InvImplies ==
  SessionsInv => SessionsAreAuthentic /\ TableFollowsSockets /\ StopClosesAll
<1>1. SUFFICES ASSUME SessionsInv
               PROVE  SessionsAreAuthentic /\ TableFollowsSockets /\ StopClosesAll
  OBVIOUS
<1>2. SessionsAreAuthentic
  <2>1. SUFFICES ASSUME NEW a \in Agents, session[a] # Unknown
                 PROVE  key[session[a]] = a /\ heard[session[a]].hello.feed = a
    BY DEF SessionsAreAuthentic
  <2>2. session[a] \in Sockets /\ stage[session[a]] = "session" /\ key[session[a]] = a
    BY <1>1, <2>1 DEF SessionsInv, SessionsTypeOK, Named
  <2>3. Genuine(session[a])
    BY <1>1, <2>2 DEF SessionsInv, SocketInv, Checked
  <2>4. QED
    BY <2>2, <2>3 DEF Genuine
<1>3. TableFollowsSockets
  BY <1>1 DEF SessionsInv, TableFollowsSockets, Named, SocketInv, Tabled
<1>4. StopClosesAll
  BY <1>1 DEF SessionsInv, StopClosesAll, SocketInv, Closed
<1>5. QED
  BY <1>2, <1>3, <1>4

-----------------------------------------------------------------------------
(* The steps of one socket.                                                 *)

LEMMA ConnectStep ==
  ASSUME SessionsInv, NEW s \in Sockets, NEW a \in Agents, Connect(s, a)
  PROVE  SessionsInv'
<1>1. stage[s] = "none" /\ ~open[s] /\ running \notin {"store", "stopped"} /\ running' = running
  BY DEF SessionsInv, SocketInv, Keyed, Connect, Stage, Accepting
<1>2. /\ stage'[s] = "handshake" /\ key'[s] = a /\ open'[s]
      /\ \A t \in Sockets \ {s} : stage'[t] = stage[t] /\ key'[t] = key[t] /\ open'[t] = open[t]
      /\ shared \subseteq shared'
      /\ \A t \in Sockets \ {s} : open[t] /\ key[t] = a => a \in shared'
  BY DEF SessionsInv, SessionsTypeOK, Connect, Stage
<1>3. heard' = heard /\ session' = session /\ closedEarly' = closedEarly
  BY DEF Connect
<1>4. SessionsTypeOK' /\ HeardTypeOK'
  BY <1>1, <1>3 DEF SessionsInv, SessionsTypeOK, HeardTypeOK, Connect, Stage, HandlerStages
<1>5. ASSUME NEW b \in Agents PROVE Named(b)'
  BY <1>1, <1>2, <1>3, SessionConstants DEF SessionsInv, SessionsTypeOK, Named
<1>6. ASSUME NEW t \in Sockets PROVE SocketInv(t)'
  <2>1. Checked(t)' /\ Keyed(t)' /\ Lost(t)'
    BY <1>1, <1>2, <1>3 DEF SessionsInv, SocketInv, Checked, Keyed, Lost, Genuine
  <2>2. Tabled(t)' /\ Closed(t)'
    BY <1>1, <1>2, <1>3 DEF SessionsInv, SocketInv, Tabled, Closed
  <2>3. \A u \in Sockets : Doubled(t, u)'
    BY <1>1, <1>2 DEF SessionsInv, SocketInv, Doubled
  <2>4. QED
    BY <2>1, <2>2, <2>3 DEF SocketInv
<1>7. QED
  BY <1>4, <1>5, <1>6 DEF SessionsInv

LEMMA DrainStep ==
  ASSUME SessionsInv, NEW s \in Sockets, Drain(s)
  PROVE  SessionsInv'
BY DEF SessionsInv, SessionsTypeOK, HeardTypeOK, Drain, Named, SocketInv, Checked, Keyed, Lost,
   Tabled, Closed, Doubled, Genuine

\* A hello is read, or not, before it is checked.
LEMMA ReadStep ==
  ASSUME SessionsInv, NEW s \in Sockets,
         NEW result \in [state : {"hello", "failed"}, hello : [did : Someone, feed : Someone]],
         ReadEnds(s, result), running' \in {running, "died"}
  PROVE  SessionsInv'
<1>1. stage[s] = "handshake" /\ \A t \in Sockets \ {s} : heard'[t] = heard[t]
  BY DEF SessionsInv, HeardTypeOK, ReadEnds
<1>2. UNCHANGED <<stage, key, open, written, session, closedEarly, shared>>
  BY DEF ReadEnds
<1>3. SessionsTypeOK' /\ HeardTypeOK'
  BY <1>2 DEF SessionsInv, SessionsTypeOK, HeardTypeOK, ReadEnds, RunStages
<1>4. \A a \in Agents : Named(a)'
  BY <1>2 DEF SessionsInv, Named
<1>5. ASSUME NEW t \in Sockets PROVE SocketInv(t)'
  BY <1>1, <1>2 DEF SessionsInv, SocketInv, Checked, Keyed, Lost, Tabled, Closed, Doubled, Genuine
<1>6. QED
  BY <1>3, <1>4, <1>5 DEF SessionsInv

\* handleSocket goes on, and the table is not touched.
LEMMA StageStep ==
  ASSUME SessionsInv, NEW s \in Sockets, NEW from \in HandlerStages, NEW to \in HandlerStages,
         Stage(s, from, to), from \notin {"none", "session"}, to \notin {"none", "session"},
         to = "rejected" \/ from # "rejected", to = "track" => Genuine(s),
         UNCHANGED <<key, open, written, heard, session, running, closedEarly, shared>>
  PROVE  SessionsInv'
<1>1. stage[s] = from /\ stage'[s] = to /\ \A t \in Sockets \ {s} : stage'[t] = stage[t]
  BY DEF SessionsInv, SessionsTypeOK, Stage
<1>2. SessionsTypeOK' /\ HeardTypeOK'
  BY DEF SessionsInv, SessionsTypeOK, HeardTypeOK, Stage
<1>3. ASSUME NEW a \in Agents PROVE Named(a)'
  BY <1>1 DEF SessionsInv, SessionsTypeOK, Named
<1>4. ASSUME NEW t \in Sockets PROVE SocketInv(t)'
  <2>1. Keyed(t)' /\ Checked(t)'
    BY <1>1 DEF SessionsInv, SocketInv, Checked, Keyed, Genuine
  <2>2. Lost(t)' /\ Tabled(t)' /\ Closed(t)' /\ \A u \in Sockets : Doubled(t, u)'
    BY <1>1 DEF SessionsInv, SocketInv, Lost, Tabled, Closed, Doubled, HandlerStages
  <2>3. QED
    BY <2>1, <2>2 DEF SocketInv
<1>5. QED
  BY <1>2, <1>3, <1>4 DEF SessionsInv

LEMMA RejectStep ==
  ASSUME SessionsInv, NEW s \in Sockets, NEW from \in HandlerStages, Reject(s, from),
         from \notin {"none", "session"}
  PROVE  SessionsInv'
<1>1. /\ stage[s] = from /\ stage'[s] = "rejected" /\ ~open'[s]
      /\ \A t \in Sockets \ {s} : stage'[t] = stage[t] /\ open'[t] = open[t]
  BY DEF SessionsInv, SessionsTypeOK, Reject, Stage
<1>2. UNCHANGED <<key, written, heard, session, running, closedEarly, shared>>
  BY DEF Reject
<1>3. SessionsTypeOK' /\ HeardTypeOK'
  BY <1>2 DEF SessionsInv, SessionsTypeOK, HeardTypeOK, Reject, Stage, HandlerStages
<1>4. ASSUME NEW a \in Agents PROVE Named(a)'
  BY <1>1, <1>2 DEF SessionsInv, SessionsTypeOK, Named
<1>5. ASSUME NEW t \in Sockets PROVE SocketInv(t)'
  BY <1>1, <1>2 DEF SessionsInv, SocketInv, Checked, Keyed, Lost, Tabled, Closed, Doubled, Genuine
<1>6. QED
  BY <1>3, <1>4, <1>5 DEF SessionsInv

LEMMA ValidateStep ==
  ASSUME SessionsInv, NEW s \in Sockets, Validate(s)
  PROVE  SessionsInv'
<1>1. CASE Genuine(s) /\ Stage(s, "validate", "track")
           /\ UNCHANGED <<key, open, written, heard, session, running, closedEarly, shared>>
  BY <1>1, StageStep DEF HandlerStages
<1>2. CASE Reject(s, "validate")
  BY <1>2, RejectStep DEF HandlerStages
<1>3. QED
  BY <1>1, <1>2 DEF Validate

LEMMA BeginStep ==
  ASSUME SessionsInv, NEW s \in Sockets, BeginSession(s)
  PROVE  SessionsInv'
<1> DEFINE a == key[s]
<1>1. stage[s] = "track" /\ Genuine(s) /\ a \in Agents /\ (open[s] \/ s \in closedEarly)
  BY DEF SessionsInv, SocketInv, Checked, Lost, BeginSession, Stage
<1>2. stage'[s] = "session" /\ \A t \in Sockets \ {s} : stage'[t] = stage[t]
  BY DEF SessionsInv, SessionsTypeOK, BeginSession, Stage
<1>3. session'[a] = s /\ \A b \in Agents \ {a} : session'[b] = session[b]
  BY <1>1 DEF SessionsInv, SessionsTypeOK, BeginSession, Genuine
<1>4. UNCHANGED <<key, open, written, heard, running, closedEarly, shared>>
  BY DEF BeginSession
<1>5. SessionsTypeOK' /\ HeardTypeOK'
  BY <1>1, <1>4 DEF SessionsInv, SessionsTypeOK, HeardTypeOK, BeginSession, Stage, HandlerStages
<1>6. ASSUME NEW b \in Agents PROVE Named(b)'
  BY <1>1, <1>2, <1>3, <1>4 DEF SessionsInv, SessionsTypeOK, Named
<1>7. ASSUME NEW t \in Sockets PROVE SocketInv(t)'
  <2>1. Checked(t)' /\ Keyed(t)' /\ Lost(t)'
    BY <1>1, <1>2, <1>4 DEF SessionsInv, SocketInv, Checked, Keyed, Lost, Genuine
  <2>2. Tabled(t)'
    BY <1>1, <1>2, <1>3, <1>4, SessionConstants DEF SessionsInv, SocketInv, Tabled, Keyed
  <2>3. Closed(t)' /\ \A u \in Sockets : Doubled(t, u)'
    BY <1>4 DEF SessionsInv, SocketInv, Closed, Doubled
  <2>4. QED
    BY <2>1, <2>2, <2>3 DEF SocketInv
<1>8. QED
  BY <1>5, <1>6, <1>7 DEF SessionsInv

LEMMA CloseStep ==
  ASSUME SessionsInv, NEW s \in Sockets, Close(s)
  PROVE  SessionsInv'
<1>1. open[s] /\ ~open'[s] /\ \A t \in Sockets \ {s} : open'[t] = open[t]
  BY DEF SessionsInv, SessionsTypeOK, Close
<1>2. UNCHANGED <<stage, key, written, heard, running, shared>>
  BY DEF Close
<1>3. closedEarly \subseteq closedEarly' /\ (stage[s] # "session" => s \in closedEarly')
  BY DEF Close
<1>4. CASE stage[s] = "session"
  <2>1. key[s] \in Agents /\ session' = [session EXCEPT ![key[s]] = Unknown]
    BY <1>4 DEF SessionsInv, SocketInv, Checked, Genuine, Close, Forget
  <2>2. SessionsTypeOK' /\ HeardTypeOK'
    BY <1>2, <2>1 DEF SessionsInv, SessionsTypeOK, HeardTypeOK, Close
  <2>3. ASSUME NEW a \in Agents PROVE Named(a)'
    <3>1. CASE a = key[s]
      <4>1. session'[a] = Unknown
        BY <2>1, <3>1 DEF SessionsInv, SessionsTypeOK
      <4>2. QED
        BY <4>1 DEF Named
    <3>2. CASE a # key[s]
      <4>1. session'[a] = session[a] /\ session[a] \in Sockets \cup {Unknown} /\ Named(a)
        BY <2>1, <3>2 DEF SessionsInv, SessionsTypeOK
      <4>2. CASE session[a] \in Sockets /\ session[a] # Unknown
        BY <1>1, <1>2, <1>3, <3>2, <4>1, <4>2 DEF Named
      <4>3. CASE session[a] = Unknown
        BY <4>1, <4>3 DEF Named
      <4>4. QED
        BY <4>1, <4>2, <4>3
    <3>3. QED
      BY <3>1, <3>2
  <2>4. ASSUME NEW t \in Sockets PROVE SocketInv(t)'
    <3>1. Checked(t)' /\ Keyed(t)' /\ Lost(t)'
      BY <1>1, <1>2, <1>3, <1>4 DEF SessionsInv, SocketInv, Checked, Keyed, Lost, Genuine
    <3>2. Tabled(t)'
      <4>1. CASE t = s
        BY <1>1, <4>1 DEF Tabled
      <4>2. CASE t # s /\ key[t] = key[s]
        BY <1>1, <1>2, <4>2 DEF SessionsInv, SocketInv, Doubled, Tabled
      <4>3. CASE key[t] # key[s]
        BY <1>1, <1>2, <2>1, <4>3 DEF SessionsInv, SessionsTypeOK, SocketInv, Tabled, Keyed
      <4>4. QED
        BY <4>1, <4>2, <4>3
    <3>3. Closed(t)' /\ \A u \in Sockets : Doubled(t, u)'
      BY <1>1, <1>2 DEF SessionsInv, SocketInv, Closed, Doubled
    <3>4. QED
      BY <3>1, <3>2, <3>3 DEF SocketInv
  <2>5. QED
    BY <2>2, <2>3, <2>4 DEF SessionsInv
<1>5. CASE stage[s] # "session"
  <2>1. session' = session
    BY <1>5 DEF Close, Forget
  <2>2. SessionsTypeOK' /\ HeardTypeOK'
    BY <1>2, <2>1 DEF SessionsInv, SessionsTypeOK, HeardTypeOK, Close
  <2>3. ASSUME NEW a \in Agents PROVE Named(a)'
    <3>1. Named(a) /\ session[a] \in Sockets \cup {Unknown}
      BY DEF SessionsInv, SessionsTypeOK
    <3>2. session[a] \in Sockets /\ session[a] # Unknown => session[a] # s
      BY <1>5, <3>1 DEF Named
    <3>3. QED
      BY <1>1, <1>2, <1>3, <2>1, <3>1, <3>2 DEF Named
  <2>4. ASSUME NEW t \in Sockets PROVE SocketInv(t)'
    BY <1>1, <1>2, <1>3, <1>5, <2>1
       DEF SessionsInv, SocketInv, Checked, Keyed, Lost, Tabled, Closed, Doubled, Genuine
  <2>5. QED
    BY <2>2, <2>3, <2>4 DEF SessionsInv
<1>6. QED
  BY <1>4, <1>5

LEMMA HandleStep ==
  ASSUME SessionsInv, NEW s \in Sockets, Handle(s)
  PROVE  SessionsInv'
<1>1. CASE ReadFails(s)
  <2>1. [state |-> "failed", hello |-> Unheard]
          \in [state : {"hello", "failed"}, hello : [did : Someone, feed : Someone]]
    BY DEF Unheard, Someone
  <2>2. QED
    BY <1>1, <2>1, ReadStep DEF ReadFails
<1>2. CASE ShakenHands(s)
  BY <1>2, StageStep DEF ShakenHands, HandlerStages
<1>3. CASE HandshakeFails(s)
  BY <1>3, RejectStep DEF HandshakeFails, HandlerStages
<1>4. CASE Validate(s)
  BY <1>4, ValidateStep
<1>5. CASE BeginSession(s)
  BY <1>5, BeginStep
<1>6. CASE TrackFails(s)
  BY <1>6, RejectStep DEF TrackFails, HandlerStages
<1>7. QED
  BY <1>1, <1>2, <1>3, <1>4, <1>5, <1>6 DEF Handle

-----------------------------------------------------------------------------
(* The steps of stop.                                                       *)

LEMMA CloseAllStep ==
  ASSUME SessionsInv, CloseAll({s \in Sockets : open[s]}), running' \in RunStages
  PROVE  SessionsInv'
<1>1. \A s \in Sockets : ~open'[s]
  BY DEF CloseAll
<1>2. UNCHANGED <<stage, key, written, heard, shared>>
  BY DEF CloseAll
<1>3. closedEarly \subseteq closedEarly'
      /\ \A s \in Sockets : open[s] /\ stage[s] # "session" => s \in closedEarly'
  BY DEF CloseAll
<1>4. \A a \in Agents :
        /\ session'[a] \in {session[a], Unknown}
        /\ \A s \in Sockets : open[s] /\ stage[s] = "session" /\ heard[s].hello.did = a
             => session'[a] = Unknown
  BY DEF CloseAll
<1>5. SessionsTypeOK' /\ HeardTypeOK'
  <2>1. session' \in [Agents -> Sockets \cup {Unknown}]
    BY DEF SessionsInv, SessionsTypeOK, CloseAll
  <2>2. open' \in [Sockets -> BOOLEAN]
    BY DEF SessionsInv, SessionsTypeOK, CloseAll
  <2>3. QED
    BY <1>2, <2>1, <2>2 DEF SessionsInv, SessionsTypeOK, HeardTypeOK
<1>6. ASSUME NEW a \in Agents PROVE Named(a)'
  <2>1. SUFFICES ASSUME session'[a] # Unknown
                 PROVE  /\ stage[session[a]] = "session" /\ key[session[a]] = a
                        /\ session[a] \in closedEarly'
    BY <1>2, <1>4 DEF Named
  <2>2. session[a] \in Sockets /\ session[a] # Unknown
    BY <1>4, <2>1 DEF SessionsInv, SessionsTypeOK
  <2>3. stage[session[a]] = "session" /\ key[session[a]] = a
    BY <2>2 DEF SessionsInv, Named
  <2>4. heard[session[a]].hello.did = a
    BY <2>2, <2>3 DEF SessionsInv, SocketInv, Checked, Genuine
  <2>5. ~open[session[a]]
    BY <1>4, <2>1, <2>2, <2>3, <2>4
  <2>6. QED
    BY <1>3, <2>2, <2>3, <2>5 DEF SessionsInv, Named
<1>7. ASSUME NEW s \in Sockets PROVE SocketInv(s)'
  BY <1>1, <1>2, <1>3
     DEF SessionsInv, SocketInv, Checked, Keyed, Lost, Tabled, Closed, Doubled, Genuine
<1>8. QED
  BY <1>5, <1>6, <1>7 DEF SessionsInv

\* Stop goes on without touching a socket.
LEMMA RunStep ==
  ASSUME SessionsInv, StopBegins \/ StopStore
  PROVE  SessionsInv'
<1>1. UNCHANGED <<stage, key, open, written, heard, session, closedEarly, shared>>
      /\ running' \in RunStages
      /\ (running' \in {"store", "stopped"} => running \in {"store", "stopped"})
  BY DEF StopBegins, StopStore, RunStages
<1>2. QED
  BY <1>1 DEF SessionsInv, SessionsTypeOK, HeardTypeOK, Named, SocketInv, Checked, Keyed, Lost,
     Tabled, Closed, Doubled, Genuine

LEMMA StepHolds == SessionsInv /\ [SessionsNext]_sessionVars => SessionsInv'
<1>1. SUFFICES ASSUME SessionsInv, [SessionsNext]_sessionVars PROVE SessionsInv'
  OBVIOUS
<1>2. ASSUME NEW s \in Sockets, NEW a \in Agents, Connect(s, a) PROVE SessionsInv'
  BY <1>1, <1>2, ConnectStep
<1>3. ASSUME NEW s \in Sockets, NEW h \in Hellos, Hear(s, h) PROVE SessionsInv'
  <2>1. [state |-> "hello", hello |-> h]
          \in [state : {"hello", "failed"}, hello : [did : Someone, feed : Someone]]
    BY DEF Hellos, Someone
  <2>2. QED
    BY <1>1, <1>3, <2>1, ReadStep DEF Hear
<1>4. ASSUME NEW s \in Sockets, Drain(s) \/ Handle(s) \/ Close(s) PROVE SessionsInv'
  BY <1>1, <1>4, DrainStep, HandleStep, CloseStep
<1>5. CASE StopBegins \/ StopStore
  BY <1>1, <1>5, RunStep
<1>6. CASE StopSockets \/ StopSwarm
  BY <1>1, <1>6, CloseAllStep DEF StopSockets, StopSwarm, RunStages
<1>7. CASE UNCHANGED sessionVars
  BY <1>1, <1>7 DEF sessionVars, SessionsInv, SessionsTypeOK, HeardTypeOK, Named, SocketInv,
     Checked, Keyed, Lost, Tabled, Closed, Doubled, Genuine
<1>8. QED
  BY <1>1, <1>2, <1>3, <1>4, <1>5, <1>6, <1>7 DEF SessionsNext

\* The invariant, whatever is fair.
THEOREM Correct == SessionsSpec => []SessionsInv
BY InitHolds, StepHolds, PTL DEF SessionsSpec

\* A session listed under a DID is over a socket of that agent's key, with that
\* agent's control feed (validateRemoteHello).
THEOREM Authentic == SessionsSpec => []SessionsAreAuthentic
BY Correct, InvImplies, PTL

\* The table names whoever is connected, but for sockets that closed during
\* their handshake and agents that had two sockets at once (handleSocket).
THEOREM TableFollows == SessionsSpec => []TableFollowsSockets
BY Correct, InvImplies, PTL

\* A stopped transport has no open socket (stop).
THEOREM StopCloses == SessionsSpec => []StopClosesAll
BY Correct, InvImplies, PTL

-----------------------------------------------------------------------------
(* The discovery watcher.                                                   *)

WalkRecord ==
  [at : {"off", "next", "look", "get"}, peer : Peers \cup {NoPeer}, index : Nat, visited : SUBSET Peers]

FeedRecord == [there : Nat, known : Nat, here : Nat, bad : Nat]

DiscoveryTyped ==
  /\ feed \in [Peers -> FeedRecord]
  /\ seen \in [Peers -> Nat]
  /\ reported \in [Peers -> SUBSET Nat]
  /\ walk \in [Walks -> WalkRecord]

\* A walk has reported whatever comes before the entry it waits for.
Covered(w) ==
  /\ walk[w].at \in {"look", "get"} => walk[w].peer \in Peers
  /\ walk[w].at = "get" =>
       walk[w].index >= 1 /\ 1..(walk[w].index - 1) \subseteq reported[walk[w].peer]

DiscoveryInv == DiscoveryTyped /\ (\A w \in Walks : Covered(w)) /\ SeenIsReported

LEMMA WatcherInit == DiscoveryInit => DiscoveryInv
BY DEF DiscoveryInit, DiscoveryInv, DiscoveryTyped, FeedRecord, WalkRecord, Covered, SeenIsReported, NoWalk

\* What was reported stays so, and what a walk has covered with it.
LEMMA FeedsGrow ==
  ASSUME DiscoveryInv, NEW a \in Peers,
         AnnounceHead(a) \/ AppendOther(a) \/ Extend(a) \/ SendBlock(a) \/ Link(a) \/ Unlink(a)
  PROVE  DiscoveryInv'
<1>1. UNCHANGED <<seen, reported>>
  BY DEF AnnounceHead, AppendOther, Extend, SendBlock, FeedGoes, Link, Unlink
<1>2. feed' \in [Peers -> FeedRecord]
  <2>1. ASSUME NEW part \in {"there", "known", "here"}, FeedGoes(a, part)
        PROVE  feed' \in [Peers -> FeedRecord]
    BY <2>1 DEF DiscoveryInv, DiscoveryTyped, FeedGoes, FeedRecord
  <2>2. CASE AppendOther(a)
    BY <2>2 DEF DiscoveryInv, DiscoveryTyped, AppendOther, FeedRecord
  <2>3. QED
    BY <2>1, <2>2 DEF DiscoveryInv, DiscoveryTyped, AnnounceHead, Extend, SendBlock, Link, Unlink
<1>3. ASSUME NEW w \in Walks
      PROVE  /\ walk'[w] \in WalkRecord
             /\ walk'[w].at = walk[w].at /\ walk'[w].peer = walk[w].peer /\ walk'[w].index = walk[w].index
  <2>1. walk'[w] = walk[w] \/ walk'[w] = [walk[w] EXCEPT !.visited = @ \ {a}]
    BY DEF AnnounceHead, AppendOther, Extend, SendBlock, FeedGoes, Link, Unlink
  <2>2. walk[w] \in WalkRecord
    BY DEF DiscoveryInv, DiscoveryTyped
  <2>3. QED
    BY <2>1, <2>2 DEF WalkRecord
<1>4. walk' \in [Walks -> WalkRecord]
  <2>1. walk' = [w \in Walks |-> walk'[w]]
    BY DEF DiscoveryInv, DiscoveryTyped, AnnounceHead, AppendOther, Extend, SendBlock, FeedGoes, Link, Unlink
  <2>2. QED
    BY <1>3, <2>1
<1>5. QED
  BY <1>1, <1>2, <1>3, <1>4 DEF DiscoveryInv, DiscoveryTyped, Covered, SeenIsReported

\* A walk that neither reports nor notes a length.
LEMMA QuietStep ==
  ASSUME DiscoveryInv, NEW w \in Walks, NEW state \in WalkRecord,
         WalkGoes(w, state), UNCHANGED <<seen, reported>>,
         state.at \in {"look", "get"} => state.peer \in Peers,
         state.at = "get" =>
           state.index >= 1 /\ 1..(state.index - 1) \subseteq reported[state.peer]
  PROVE  DiscoveryInv'
<1>1. walk'[w] = state /\ \A v \in Walks \ {w} : walk'[v] = walk[v]
  BY DEF DiscoveryInv, DiscoveryTyped, WalkGoes
<1>2. DiscoveryTyped'
  BY DEF DiscoveryInv, DiscoveryTyped, WalkGoes
<1>3. \A v \in Walks : Covered(v)'
  BY <1>1 DEF DiscoveryInv, Covered
<1>4. QED
  BY <1>2, <1>3 DEF DiscoveryInv, SeenIsReported

LEMMA LookStep ==
  ASSUME DiscoveryInv, NEW w \in Walks, Look(w)
  PROVE  DiscoveryInv'
<1>1. walk[w] \in WalkRecord /\ walk[w].peer \in Peers /\ seen[walk[w].peer] \in Nat
  BY DEF DiscoveryInv, DiscoveryTyped, Covered, WalkRecord, Look
<1>2. 1..seen[walk[w].peer] \subseteq reported[walk[w].peer]
  BY <1>1 DEF DiscoveryInv, SeenIsReported
<1>3. CASE News(walk[w].peer)
  <2>1. DEFINE n == seen[walk[w].peer] + 1
               to == [walk[w] EXCEPT !.at = "get", !.index = n]
  <2>2. WalkGoes(w, to) /\ UNCHANGED <<seen, reported>>
    BY <1>3 DEF Look
  <2>3. n \in Nat /\ n >= 1 /\ n - 1 = seen[walk[w].peer]
    BY <1>1
  <2>4. HIDE DEF n
  <2>5. to \in WalkRecord /\ to.at = "get" /\ to.peer = walk[w].peer /\ to.index = n
    BY <1>1, <2>3 DEF WalkRecord
  <2>6. HIDE DEF to
  <2>7. QED
    BY <1>1, <1>2, <2>2, <2>3, <2>5, QuietStep
<1>4. CASE ~News(walk[w].peer)
  <2>1. DEFINE to == [walk[w] EXCEPT !.at = "next", !.peer = NoPeer]
  <2>2. WalkGoes(w, to) /\ UNCHANGED <<seen, reported>>
    BY <1>4 DEF Look
  <2>3. to \in WalkRecord /\ to.at = "next"
    BY <1>1 DEF WalkRecord
  <2>4. HIDE DEF to
  <2>5. QED
    BY <2>2, <2>3, QuietStep
<1>5. QED
  BY <1>3, <1>4

\* An entry is reported; the length is noted only where the walk has come to it.
LEMMA GetStep ==
  ASSUME DiscoveryInv, NEW w \in Walks, GetEntry(w)
  PROVE  DiscoveryInv'
<1>1. DEFINE a == walk[w].peer  i == walk[w].index
<1>2. walk[w] \in WalkRecord /\ a \in Peers /\ i \in Nat /\ i >= 1 /\ 1..(i - 1) \subseteq reported[a]
  BY DEF DiscoveryInv, DiscoveryTyped, Covered, WalkRecord, GetEntry, BlockIsHere
<1>3. reported' = [reported EXCEPT ![a] = @ \cup {i}] /\ UNCHANGED <<feed, linked>>
  BY DEF GetEntry, WalkGoes
<1>4. reported' \in [Peers -> SUBSET Nat] /\ \A b \in Peers : reported[b] \subseteq reported'[b]
  BY <1>2, <1>3 DEF DiscoveryInv, DiscoveryTyped
<1>5. 1..i \subseteq reported'[a]
  <2>1. 1..i = (1..(i - 1)) \cup {i}
    BY <1>2
  <2>2. reported'[a] = reported[a] \cup {i}
    BY <1>2, <1>3 DEF DiscoveryInv, DiscoveryTyped
  <2>3. QED
    BY <1>2, <2>1, <2>2
<1>6. feed[a].known \in Nat
  BY <1>2 DEF DiscoveryInv, DiscoveryTyped, FeedRecord
<1>7. CASE IsLast(w)
  <2>1. seen' = [seen EXCEPT ![a] = feed[a].known]
        /\ walk' = [walk EXCEPT ![w] = [walk[w] EXCEPT !.at = "next", !.peer = NoPeer, !.index = 0]]
    BY <1>7 DEF GetEntry, WalkGoes
  <2>2. 1..feed[a].known \subseteq reported'[a]
    BY <1>2, <1>5, <1>6, <1>7 DEF IsLast
  <2>3. SeenIsReported'
    BY <1>2, <1>4, <2>1, <2>2 DEF DiscoveryInv, DiscoveryTyped, SeenIsReported
  <2>4. walk' \in [Walks -> WalkRecord] /\ walk'[w].at = "next" /\ \A v \in Walks \ {w} : walk'[v] = walk[v]
    BY <1>2, <2>1 DEF DiscoveryInv, DiscoveryTyped, WalkRecord
  <2>5. DiscoveryTyped'
    BY <1>2, <1>3, <1>4, <1>6, <2>1, <2>4 DEF DiscoveryInv, DiscoveryTyped
  <2>6. \A v \in Walks : Covered(v)'
    BY <1>4, <2>4 DEF DiscoveryInv, Covered
  <2>7. QED
    BY <2>3, <2>5, <2>6 DEF DiscoveryInv
<1>8. CASE ~IsLast(w)
  <2>1. seen' = seen /\ walk' = [walk EXCEPT ![w] = [walk[w] EXCEPT !.index = i + 1]]
    BY <1>8 DEF GetEntry, WalkGoes
  <2>2. /\ walk' \in [Walks -> WalkRecord]
        /\ walk'[w].at = "get" /\ walk'[w].peer = a /\ walk'[w].index = i + 1
        /\ \A v \in Walks \ {w} : walk'[v] = walk[v]
    BY <1>2, <2>1 DEF DiscoveryInv, DiscoveryTyped, WalkRecord, GetEntry, BlockIsHere
  <2>3. DiscoveryTyped'
    BY <1>3, <1>4, <2>1, <2>2 DEF DiscoveryInv, DiscoveryTyped
  <2>4. SeenIsReported'
    BY <1>4, <2>1 DEF DiscoveryInv, SeenIsReported
  <2>5. (i + 1) - 1 = i /\ i + 1 >= 1
    BY <1>2
  <2>6. \A v \in Walks : Covered(v)'
    BY <1>2, <1>4, <1>5, <2>2, <2>5 DEF DiscoveryInv, Covered
  <2>7. QED
    BY <2>3, <2>4, <2>6 DEF DiscoveryInv
<1>9. QED
  BY <1>7, <1>8

LEMMA WalkStep ==
  ASSUME DiscoveryInv, NEW w \in Walks, StepWalk(w)
  PROVE  DiscoveryInv'
<1>1. walk[w] \in WalkRecord /\ NoWalk \in WalkRecord
  BY DEF DiscoveryInv, DiscoveryTyped, WalkRecord, NoWalk
<1>2. CASE BeginWalk(w)
  <2>1. DEFINE to == [NoWalk EXCEPT !.at = "next"]
  <2>2. WalkGoes(w, to) /\ UNCHANGED <<seen, reported>> /\ to \in WalkRecord /\ to.at = "next"
    BY <1>2 DEF BeginWalk, WalkRecord, NoWalk
  <2>3. HIDE DEF to
  <2>4. QED
    BY <2>2, QuietStep
<1>3. ASSUME NEW a \in Peers, VisitPeer(w, a) PROVE DiscoveryInv'
  <2>1. DEFINE to == [walk[w] EXCEPT !.at = "look", !.peer = a, !.visited = @ \cup {a}]
  <2>2. WalkGoes(w, to) /\ UNCHANGED <<seen, reported>>
    BY <1>3 DEF VisitPeer
  <2>3. to \in WalkRecord /\ to.at = "look" /\ to.peer = a
    BY <1>1 DEF WalkRecord
  <2>4. HIDE DEF to
  <2>5. QED
    BY <2>2, <2>3, QuietStep
<1>4. CASE EndWalk(w) \/ EntryFails(w) \/ StrandWalk(w)
  BY <1>1, <1>4, QuietStep DEF EndWalk, EntryFails, StrandWalk, NoWalk
<1>5. CASE FeedFails(w)
  BY <1>1, <1>5 DEF FeedFails, NoWalk, DiscoveryInv, DiscoveryTyped, Covered, SeenIsReported
<1>6. QED
  BY <1>2, <1>3, <1>4, <1>5, LookStep, GetStep DEF StepWalk

LEMMA RestartStep == DiscoveryInv /\ RestartDaemon => DiscoveryInv'
BY DEF DiscoveryInv, DiscoveryTyped, WalkRecord, Covered, SeenIsReported, NoWalk, RestartDaemon

LEMMA WatcherStep == DiscoveryInv /\ [DiscoveryNext]_discoveryVars => DiscoveryInv'
<1>1. SUFFICES ASSUME DiscoveryInv, [DiscoveryNext]_discoveryVars PROVE DiscoveryInv'
  OBVIOUS
<1>2. CASE UNCHANGED discoveryVars
  BY <1>1, <1>2 DEF discoveryVars, DiscoveryInv, DiscoveryTyped, Covered, SeenIsReported
<1>3. QED
  BY <1>1, <1>2, FeedsGrow, WalkStep, RestartStep DEF DiscoveryNext

\* What counts as seen was reported, for any number of peers, entries and
\* overlapping walks (runProtocolDiscoveryWatcher).
THEOREM SeenWasReported == DiscoverySpec => []SeenIsReported
<1>1. DiscoveryInv => SeenIsReported
  BY DEF DiscoveryInv
<1>2. QED
  BY <1>1, WatcherInit, WatcherStep, PTL DEF DiscoverySpec

-----------------------------------------------------------------------------
(* Requests to the wallet.                                                  *)

Result ==
  [status : Statuses \cup {"none", "error"}, sats : Nat, unit : {"none", "sats", "msats"},
   reading : {"plain", "misread", "unnamed"}]

RequestRecord ==
  [backend : Backends, op : Calls, bill : Bills, published : {"no", "pending", "yes", "refused"},
   waiting : {"no", "open", "answered", "failed"}, taken : BOOLEAN,
   heard : Result, result : Result, window : SUBSET Statuses]

ClientTyped ==
  /\ bill \in [Bills -> [status : Statuses, msats : Msats]]
  /\ request \in [Requests -> RequestRecord]
  /\ answers \subseteq Answers

\* What ReportsAreTrue says of a result, its amount and its status.
Near(sats, unit, msats) ==
  /\ IF unit = "none" THEN sats = 0 ELSE sats * 1000 < msats + 1000 /\ msats < sats * 1000 + 1000
  /\ unit = "msats" => msats <= sats * 1000

TrueOf(result, window, msats) ==
  result.status \in Statuses =>
    /\ result.status \in window \/ result.reading # "plain"
    /\ Near(result.sats, result.unit, msats)

\* An answer that can still be heard came while its request was under way.
Answered(a) ==
  LET q == request[a.to] IN
    /\ q.taken /\ a.msats = bill[q.bill].msats
    /\ q.waiting = "open" => a.status \in q.window

\* A request that has not ended knows the invoice's present status.
Followed(r) ==
  LET q == request[r]
      msats == bill[q.bill].msats IN
    /\ q.published = "no" => ~q.taken /\ q.waiting = "no"
    /\ q.published = "refused" => ~q.taken
    /\ q.published \in {"pending", "refused"} => q.backend = "relay"
    /\ q.waiting = "open" /\ q.published # "refused" => q.result.status = "none"
    /\ q.published # "no" /\ q.result.status = "none" => bill[q.bill].status \in q.window
    /\ TrueOf(q.result, q.window, msats) /\ TrueOf(q.heard, q.window, msats)

ClientInv ==
  ClientTyped /\ (\A r \in Requests : Followed(r)) /\ \A a \in answers : Answered(a)

LEMMA UnaskedIsARequest ==
  Unasked \in RequestRecord /\ NoResult \in Result /\ Failure \in Result
BY WalletClientConstants DEF Unasked, RequestRecord, NoResult, Failure, Result, Backends, Calls

LEMMA ClientStart == ClientInit => ClientInv
<1>1. SUFFICES ASSUME ClientInit PROVE ClientInv
  OBVIOUS
<1>2. ClientTyped
  BY <1>1, UnaskedIsARequest DEF ClientInit, ClientTyped, Statuses
<1>3. /\ Unasked.published = "no" /\ Unasked.waiting = "no" /\ ~Unasked.taken
      /\ Unasked.heard.status = "none" /\ Unasked.result.status = "none"
  BY DEF Unasked, NoResult
<1>4. ASSUME NEW r \in Requests PROVE Followed(r)
  <2>1. request[r] = Unasked
    BY <1>1 DEF ClientInit
  <2>2. QED
    BY <1>3, <2>1 DEF Followed, TrueOf, Statuses
<1>5. QED
  BY <1>1, <1>2, <1>4 DEF ClientInit, ClientInv

\* What is made of an amount that is stated is right to less than a sat.
LEMMA AmountsAreNear ==
  ASSUME NEW backend \in Backends, NEW op \in Calls, NEW a \in Answers, NEW f \in Forms(backend, op, a),
         f.unit # "none"
  PROVE  /\ AmountSats(backend, f) \in Nat
         /\ AmountSats(backend, f) * 1000 < a.msats + 1000
         /\ a.msats < AmountSats(backend, f) * 1000 + 1000
         /\ InMsats(backend, f.unit) => a.msats <= AmountSats(backend, f) * 1000
<1>1. a.msats \in Nat
  BY WalletClientConstants DEF Answers
<1>2. f.amount \in AmountsOf(backend, f.unit, a.msats)
  BY DEF Forms
<1>3. CASE InMsats(backend, f.unit)
  <2>1. AmountSats(backend, f) = (a.msats + 999) \div 1000
    BY <1>2, <1>3 DEF AmountsOf, AmountSats, msatsToSats
  <2>2. QED
    BY <1>1, <2>1
<1>4. CASE ~InMsats(backend, f.unit)
  <2>1. AmountSats(backend, f) \in {a.msats \div 1000, (a.msats + 999) \div 1000}
    BY <1>2, <1>4 DEF AmountsOf, AmountSats
  <2>2. QED
    BY <1>1, <1>4, <2>1
<1>5. QED
  BY <1>3, <1>4

\* A status is that of the answer, or it is misread or unnamed.
LEMMA StatusIsTrue ==
  ASSUME NEW backend \in Backends, NEW op \in Calls, NEW a \in Answers, NEW f \in Forms(backend, op, a)
  PROVE  /\ PaymentStatus(backend, op, f) \in Statuses
         /\ PaymentStatus(backend, op, f) = a.status \/ Reading(backend, op, f) # "plain"
<1>1. f.fact \in FactsOf(a.status) /\ f.word \in WordsOf(a.status) /\ a.status \in Statuses
  BY DEF Forms, Answers
<1>2. CASE a.status = "succeeded"
  BY <1>1, <1>2 DEF FactsOf, WordsOf, PaymentStatus, Statuses, Backends, Calls, Reading
<1>3. CASE a.status = "failed"
  BY <1>1, <1>3 DEF FactsOf, WordsOf, PaymentStatus, Statuses, Backends, Calls, Reading
<1>4. CASE a.status = "pending"
  BY <1>1, <1>4 DEF FactsOf, WordsOf, PaymentStatus, Statuses, Backends, Calls, Reading
<1>5. QED
  BY <1>1, <1>2, <1>3, <1>4 DEF Statuses

\* What a request makes of an answer is so of the payment as the answer found it.
LEMMA ReportIsTrue ==
  ASSUME NEW backend \in Backends, NEW op \in Calls, NEW a \in Answers, NEW f \in Forms(backend, op, a)
  PROVE  /\ Report(backend, op, f) \in Result
         /\ TrueOf(Report(backend, op, f), {a.status}, a.msats)
<1>1. DEFINE status  == PaymentStatus(backend, op, f)
             sats    == AmountSats(backend, f)
             unit    == CASE f.unit = "none" -> "none"
                          [] InMsats(backend, f.unit) -> "msats"
                          [] OTHER -> "sats"
             reading == Reading(backend, op, f)
             h == [status |-> status, sats |-> sats, unit |-> unit, reading |-> reading]
<1>2. unit \in {"none", "sats", "msats"} /\ reading \in {"plain", "misread", "unnamed"}
  BY DEF Reading
<1>3. sats \in Nat /\ Near(sats, unit, a.msats)
  <2>1. CASE f.unit = "none"
    <3>1. sats = 0 /\ unit = "none"
      BY <2>1 DEF AmountSats, InMsats
    <3>2. HIDE DEF sats, unit
    <3>3. QED
      BY <3>1 DEF Near
  <2>2. CASE f.unit # "none"
    <3>1. /\ sats \in Nat /\ sats * 1000 < a.msats + 1000 /\ a.msats < sats * 1000 + 1000
          /\ InMsats(backend, f.unit) => a.msats <= sats * 1000
      BY <2>2, AmountsAreNear
    <3>2. unit # "none" /\ (unit = "msats" => InMsats(backend, f.unit))
      BY <2>2
    <3>3. HIDE DEF sats, unit
    <3>4. QED
      BY <3>1, <3>2 DEF Near
  <2>3. QED
    BY <2>1, <2>2
<1>4. status \in Statuses /\ (status \in {a.status} \/ reading # "plain")
  BY StatusIsTrue
<1>5. HIDE DEF status, sats, unit, reading
<1>6. h \in Result /\ TrueOf(h, {a.status}, a.msats)
  BY <1>2, <1>3, <1>4 DEF Result, TrueOf
<1>7. Failure \in Result /\ TrueOf(Failure, {a.status}, a.msats)
  BY UnaskedIsARequest DEF Failure, NoResult, TrueOf, Statuses
<1>8. Report(backend, op, f) \in {h, Failure}
  BY DEF Report, h, status, sats, unit, reading
<1>9. HIDE DEF h
<1>10. QED
  BY <1>6, <1>7, <1>8

\* A request that goes on with the same backend, invoice and window.
LEMMA GoesOn ==
  ASSUME ClientInv, NEW r \in Requests, NEW q \in RequestRecord,
         RequestGoes(r, q), UNCHANGED <<bill, answers>>,
         q.bill = request[r].bill, q.window = request[r].window,
         q.published = "no" <=> request[r].published = "no",
         request[r].taken => q.taken,
         q.waiting = "open" => request[r].waiting = "open",
         q.published = "no" => ~q.taken /\ q.waiting = "no",
         q.published = "refused" => ~q.taken,
         q.published \in {"pending", "refused"} => q.backend = "relay",
         q.waiting = "open" /\ q.published # "refused" => q.result.status = "none",
         q.result.status = "none" => request[r].result.status = "none",
         q.result.status \in Statuses => q.result \in {request[r].result, request[r].heard},
         TrueOf(q.heard, q.window, bill[q.bill].msats)
  PROVE  ClientInv'
<1>1. request'[r] = q /\ \A s \in Requests \ {r} : request'[s] = request[s]
  BY DEF ClientInv, ClientTyped, RequestGoes
<1>2. ClientTyped'
  BY DEF ClientInv, ClientTyped, RequestGoes
<1>3. ASSUME NEW s \in Requests PROVE Followed(s)'
  <2>1. CASE s = r
    <3>1. TrueOf(q.result, q.window, bill[q.bill].msats)
      BY DEF ClientInv, Followed, TrueOf
    <3>2. q.published # "no" /\ q.result.status = "none" => bill[q.bill].status \in q.window
      BY DEF ClientInv, Followed
    <3>3. QED
      BY <1>1, <2>1, <3>1, <3>2 DEF Followed
  <2>2. CASE s # r
    BY <1>1, <2>2 DEF ClientInv, Followed
  <2>3. QED
    BY <2>1, <2>2
<1>4. ASSUME NEW a \in answers PROVE Answered(a)'
  <2>1. a.to \in Requests /\ Answered(a)
    BY DEF ClientInv, ClientTyped, Answers
  <2>2. QED
    BY <1>1, <2>1 DEF Answered
<1>5. QED
  BY <1>2, <1>3, <1>4 DEF ClientInv

LEMMA AskStep ==
  ASSUME ClientInv, NEW r \in Requests, NEW backend \in Backends, NEW op \in Calls, NEW b \in Bills,
         Ask(r, backend, op, b)
  PROVE  ClientInv'
<1>1. DEFINE q == [Unasked EXCEPT !.backend = backend, !.op = op, !.bill = b, !.waiting = "open",
                       !.published = IF backend = "http" THEN "yes" ELSE "pending",
                       !.window = {bill[b].status}]
<1>2. RequestGoes(r, q) /\ UNCHANGED <<bill, answers>>
  BY DEF Ask
<1>3. bill[b].status \in Statuses
  BY DEF ClientInv, ClientTyped
<1>4. /\ q \in RequestRecord /\ q.bill = b /\ q.published \in {"yes", "pending"} /\ ~q.taken
      /\ q.heard = NoResult /\ q.result = NoResult /\ q.window = {bill[b].status}
      /\ q.published = "pending" => q.backend = "relay"
  BY <1>3, UnaskedIsARequest DEF RequestRecord, Unasked, Backends, Calls
<1>5. HIDE DEF q
<1>6. request'[r] = q /\ \A s \in Requests \ {r} : request'[s] = request[s]
  BY <1>2 DEF ClientInv, ClientTyped, RequestGoes
<1>7. ClientTyped'
  BY <1>2, <1>4 DEF ClientInv, ClientTyped, RequestGoes
<1>8. ASSUME NEW s \in Requests PROVE Followed(s)'
  <2>1. CASE s = r
    BY <1>2, <1>4, <1>6, <2>1 DEF Followed, TrueOf, NoResult, Statuses
  <2>2. CASE s # r
    BY <1>2, <1>6, <2>2 DEF ClientInv, Followed
  <2>3. QED
    BY <2>1, <2>2
<1>9. ASSUME NEW a \in answers PROVE Answered(a)'
  <2>1. a.to \in Requests /\ Answered(a) /\ a.to # r
    BY DEF ClientInv, ClientTyped, Answers, Answered, Followed, Ask, Asked
  <2>2. QED
    BY <1>2, <1>6, <2>1 DEF Answered
<1>10. QED
  BY <1>2, <1>7, <1>8, <1>9 DEF ClientInv

LEMMA HearStep ==
  ASSUME ClientInv, NEW r \in Requests, NEW a \in answers, HearAnswer(r, a)
  PROVE  ClientInv'
<1>1. PICK f \in Forms(request[r].backend, request[r].op, a) :
        RequestGoes(r, [request[r] EXCEPT !.waiting = "answered",
         !.heard = Report(request[r].backend, request[r].op, f)])
  BY DEF HearAnswer
<1>2. a \in Answers /\ a.to = r /\ request[r] \in RequestRecord /\ request[r].waiting = "open"
  BY DEF ClientInv, ClientTyped, HearAnswer, Meant
<1>3. DEFINE h == Report(request[r].backend, request[r].op, f)
             q == [request[r] EXCEPT !.waiting = "answered", !.heard = h]
<1>4. request[r].backend \in Backends /\ request[r].op \in Calls
  BY <1>2 DEF RequestRecord
<1>5. h \in Result /\ TrueOf(h, {a.status}, a.msats)
  BY <1>2, <1>4, ReportIsTrue
<1>6. HIDE DEF h
<1>7. a.status \in request[r].window /\ a.msats = bill[request[r].bill].msats
      /\ request[r].taken /\ request[r].published # "no"
  BY <1>2 DEF ClientInv, Answered, Followed
<1>8. TrueOf(h, request[r].window, bill[request[r].bill].msats)
  BY <1>5, <1>7 DEF TrueOf
<1>9. /\ q \in RequestRecord /\ q.bill = request[r].bill /\ q.window = request[r].window
       /\ q.published = request[r].published /\ q.taken = request[r].taken
       /\ q.backend = request[r].backend /\ q.waiting = "answered" /\ q.heard = h /\ q.result = request[r].result
  BY <1>2, <1>5 DEF RequestRecord
<1>10. RequestGoes(r, q) /\ UNCHANGED <<bill, answers>>
  BY <1>1 DEF HearAnswer, h
<1>11. HIDE DEF q
<1>12. /\ request[r].published = "refused" => ~request[r].taken
       /\ request[r].published \in {"pending", "refused"} => request[r].backend = "relay"
  BY DEF ClientInv, Followed
<1>13. QED
  BY <1>7, <1>8, <1>9, <1>10, <1>12, GoesOn

\* A request is taken, published, left unanswered or finished.
LEMMA OwnStep ==
  ASSUME ClientInv, NEW r \in Requests,
         TakeRequest(r) \/ PublishSettles(r) \/ WaitingFails(r) \/ Finish(r)
  PROVE  ClientInv'
<1>1. /\ request[r] \in RequestRecord /\ Followed(r) /\ UNCHANGED <<bill, answers>>
      /\ Failure \in Result /\ Failure.status = "error" /\ "error" \notin Statuses
  BY UnaskedIsARequest DEF ClientInv, ClientTyped, TakeRequest, PublishSettles, WaitingFails, Finish,
     Failure, NoResult, Statuses
<1>2. CASE TakeRequest(r)
  <2>1. DEFINE q == [request[r] EXCEPT !.taken = TRUE]
  <2>2. RequestGoes(r, q) /\ request[r].published # "no" /\ request[r].published # "refused"
    BY <1>1, <1>2 DEF TakeRequest, Followed
  <2>3. QED
    BY <1>1, <1>2, <2>2, GoesOn DEF TakeRequest, Followed, RequestRecord
<1>3. CASE PublishSettles(r)
  BY <1>1, <1>3, GoesOn DEF PublishSettles, Followed, RequestRecord
<1>4. CASE WaitingFails(r)
  BY <1>1, <1>4, GoesOn DEF WaitingFails, Followed, RequestRecord
<1>5. CASE Finish(r)
  BY <1>1, <1>5, GoesOn DEF Finish, Followed, RequestRecord, Ended
<1>6. QED
  BY <1>2, <1>3, <1>4, <1>5

LEMMA SendStep ==
  ASSUME ClientInv, NEW r \in Requests, SendAnswer(r)
  PROVE  ClientInv'
<1>1. DEFINE a == [to |-> r, status |-> bill[request[r].bill].status, msats |-> bill[request[r].bill].msats]
<1>2. answers' = answers \cup {a} /\ UNCHANGED <<bill, request>> /\ request[r].taken
  BY DEF SendAnswer
<1>3. request[r].bill \in Bills
  BY DEF ClientInv, ClientTyped, RequestRecord
<1>4. a \in Answers
  BY <1>3 DEF ClientInv, ClientTyped, Answers
<1>5. Answered(a)'
  BY <1>2 DEF ClientInv, Followed, Answered
<1>6. QED
  BY <1>2, <1>4, <1>5 DEF ClientInv, ClientTyped, Followed, Answered

LEMMA PaymentStep ==
  ASSUME ClientInv, NEW b \in Bills, NEW status \in {"succeeded", "failed"}, PaymentEnds(b, status)
  PROVE  ClientInv'
<1>1. bill' = [bill EXCEPT ![b].status = status] /\ answers' = answers
  BY DEF PaymentEnds
<1>2. /\ bill' \in [Bills -> [status : Statuses, msats : Msats]]
      /\ \A c \in Bills : bill'[c].msats = bill[c].msats /\ (c # b => bill'[c].status = bill[c].status)
      /\ bill'[b].status = status
  BY <1>1 DEF ClientInv, ClientTyped, Statuses
<1>3. \A r \in Requests : request'[r] =
        IF request[r].bill = b /\ Asked(r) /\ ~Ended(r)
          THEN [request[r] EXCEPT !.window = @ \cup {status}] ELSE request[r]
  BY DEF PaymentEnds
<1>4. ASSUME NEW r \in Requests
      PROVE  /\ request'[r] \in RequestRecord
             /\ request'[r].bill = request[r].bill /\ request'[r].published = request[r].published
             /\ request'[r].waiting = request[r].waiting /\ request'[r].taken = request[r].taken
             /\ request'[r].backend = request[r].backend
             /\ request'[r].heard = request[r].heard /\ request'[r].result = request[r].result
             /\ request[r].window \subseteq request'[r].window
             /\ request[r].bill = b /\ Asked(r) /\ ~Ended(r) => status \in request'[r].window
  <2>1. request[r] \in RequestRecord /\ status \in Statuses
    BY DEF ClientInv, ClientTyped, Statuses
  <2>2. CASE request[r].bill = b /\ Asked(r) /\ ~Ended(r)
    <3>1. request'[r] = [request[r] EXCEPT !.window = @ \cup {status}]
      BY <1>3, <2>2
    <3>2. QED
      BY <2>1, <3>1 DEF RequestRecord
  <2>3. CASE ~(request[r].bill = b /\ Asked(r) /\ ~Ended(r))
    BY <1>3, <2>1, <2>3
  <2>4. QED
    BY <2>2, <2>3
<1>5. ClientTyped'
  <2>1. request' \in [Requests -> RequestRecord]
    BY <1>4 DEF PaymentEnds
  <2>2. QED
    BY <1>1, <1>2, <2>1 DEF ClientInv, ClientTyped
<1>6. ASSUME NEW r \in Requests PROVE Followed(r)'
  <2>1. request[r].bill \in Bills
    BY DEF ClientInv, ClientTyped, RequestRecord
  <2>2. Followed(r)
    BY DEF ClientInv
  <2>3. bill'[request'[r].bill].msats = bill[request[r].bill].msats
    BY <1>2, <1>4, <2>1
  <2>4. /\ TrueOf(request'[r].result, request'[r].window, bill'[request'[r].bill].msats)
        /\ TrueOf(request'[r].heard, request'[r].window, bill'[request'[r].bill].msats)
    BY <1>4, <2>2, <2>3 DEF Followed, TrueOf
  <2>5. request'[r].published # "no" /\ request'[r].result.status = "none" =>
          bill'[request'[r].bill].status \in request'[r].window
    BY <1>2, <1>4, <2>1, <2>2 DEF Followed, Asked, Ended
  <2>6. QED
    BY <1>4, <2>2, <2>4, <2>5 DEF Followed
<1>7. ASSUME NEW a \in answers PROVE Answered(a)'
  <2>1. a.to \in Requests /\ Answered(a) /\ request[a.to].bill \in Bills
    BY DEF ClientInv, ClientTyped, Answers, RequestRecord
  <2>2. QED
    BY <1>2, <1>4, <2>1 DEF Answered
<1>8. QED
  BY <1>1, <1>5, <1>6, <1>7 DEF ClientInv

LEMMA RequestsStep == ClientInv /\ [ClientNext]_clientVars => ClientInv'
<1>1. SUFFICES ASSUME ClientInv, [ClientNext]_clientVars PROVE ClientInv'
  OBVIOUS
<1>2. CASE UNCHANGED clientVars
  BY <1>1, <1>2 DEF clientVars, ClientInv, ClientTyped, Followed, Answered
<1>3. CASE ClientNext
  BY <1>1, <1>3, AskStep, OwnStep, SendStep, HearStep, PaymentStep DEF ClientNext
<1>4. QED
  BY <1>1, <1>2, <1>3

\* A request reports a status its payment had meanwhile, and the amount stated to
\* less than a sat, or 0 when none is, for any number of requests and invoices of
\* any amounts; the two exceptions are a success that is misread and a "pending"
\* that is not named (payInvoice and getPaymentStatus of either adapter).
THEOREM ReportsHold == ClientSpec => []ReportsAreTrue
<1>1. ClientInv => ReportsAreTrue
  BY DEF ClientInv, Followed, TrueOf, Near, ReportsAreTrue
<1>2. QED
  BY <1>1, ClientStart, RequestsStep, PTL DEF ClientSpec

-----------------------------------------------------------------------------
(* Daemons and commands: the storage.                                       *)

Holding == {"opened", "unlinked", "written", "listening", "asked", "closing"}
Serving == {"listening", "asked", "closing"}
Phases == {"first", "waiting", "cleaning"}
Busy == {"proxied", "local"}

ClientRecords == [at : ClientStages, op : Ops, pid : Daemons \cup {Nobody}, phase : Phases]

\* Which commands may be where.
Proper(r) ==
  /\ r.at \in Busy => r.op = "work"
  /\ r.at = "stopped" \/ r.phase = "cleaning" => r.op = "stop"

\* The storage is with the one daemon that has it open, or with the one command.
Held ==
  /\ \A d \in Daemons : storage = d <=> daemon[d] \in Holding
  /\ \A c \in Clients : client[c].at = "local" => storage = ACommand
  /\ \A c, e \in Clients : client[c].at = "local" /\ client[e].at = "local" => c = e

\* Every command that is served waits for its one daemon.
Served ==
  /\ \A d \in Daemons : \A c \in serving[d] : client[c].at = "proxied"
  /\ \A d, e \in Daemons : \A c \in serving[d] \cap serving[e] : d = e

HoldInv ==
  /\ DaemonTypeOK /\ serving \in [Daemons -> SUBSET Clients]
  /\ \A c \in Clients : Proper(client[c])
  /\ Held /\ Served

LEMMA ProcessesDiffer ==
  /\ Nobody \notin Daemons /\ ACommand \notin Daemons /\ ACommand # Nobody
  BY DaemonConstants DEF Nobody, ACommand, Daemons

LEMMA RestIs == AtRest \in ClientRecords /\ Proper(AtRest) /\ AtRest.at = "idle" /\ AtRest.op = "start"
                /\ AtRest.phase = "first" /\ AtRest.pid = Nobody
  BY DEF AtRest, ClientRecords, Proper, ClientStages, Ops, Phases, Busy

LEMMA ThingsAre ==
  ASSUME HoldInv
  PROVE  /\ pidFile \in Daemons \cup {Nobody} /\ sockFile \in Daemons \cup {Nobody}
         /\ storage \in Daemons \cup {Nobody, ACommand}
         /\ daemon \in [Daemons -> DaemonStages] /\ client \in [Clients -> ClientRecords]
         /\ \A c \in Clients : client[c] \in ClientRecords /\ Proper(client[c])
  BY DEF HoldInv, DaemonTypeOK, ClientRecords, Phases

\* A command that neither is served nor has the storage goes on.
LEMMA ClientHolds ==
  ASSUME HoldInv, NEW c \in Clients, NEW r \in ClientRecords, Proper(r),
         client' = [client EXCEPT ![c] = r], client[c].at \notin Busy, r.at \notin Busy,
         UNCHANGED <<storage, serving>>,
         pidFile' \in Daemons \cup {Nobody}, sockFile' \in Daemons \cup {Nobody},
         daemon' \in [Daemons -> DaemonStages],
         \A d \in Daemons : daemon'[d] \in Holding <=> daemon[d] \in Holding,
         \A d \in Daemons : daemon[d] \in Serving => daemon'[d] \in Serving
  PROVE  HoldInv'
<1>1. client'[c] = r /\ \A e \in Clients : e # c => client'[e] = client[e]
  BY ThingsAre
<1>2. client' \in [Clients -> ClientRecords] /\ \A e \in Clients : Proper(client'[e])
  BY <1>1, ThingsAre
<1>3. DaemonTypeOK'
  BY <1>2 DEF HoldInv, DaemonTypeOK, ClientRecords, Phases, Serving
<1>4. Held'
  BY <1>1 DEF HoldInv, Held, Busy
<1>5. Served'
  <2>1. \A d \in Daemons : \A e \in serving[d] : e \in Clients /\ client[e].at = "proxied" /\ e # c
    BY DEF HoldInv, Served, Busy
  <2>2. QED
    BY <1>1, <2>1 DEF HoldInv, Served
<1>6. QED
  BY <1>2, <1>3, <1>4, <1>5 DEF HoldInv

\* A daemon goes on from where it is.
LEMMA DaemonHolds ==
  ASSUME HoldInv, NEW d \in Daemons, NEW to \in DaemonStages, daemon' = [daemon EXCEPT ![d] = to],
         UNCHANGED <<client, serving>>, serving[d] # {} => to \in Serving,
         pidFile' \in Daemons \cup {Nobody}, sockFile' \in Daemons \cup {Nobody},
         \/ storage' = storage /\ (to \in Holding <=> daemon[d] \in Holding)
         \/ storage = Nobody /\ storage' = d /\ to \in Holding
         \/ daemon[d] \in Holding /\ storage' = Nobody /\ to \notin Holding
  PROVE  HoldInv'
<1>1. daemon'[d] = to /\ \A e \in Daemons : e # d => daemon'[e] = daemon[e]
  BY ThingsAre
<1>2. daemon' \in [Daemons -> DaemonStages]
  BY <1>1, ThingsAre
<1>3. storage' \in Daemons \cup {Nobody, ACommand}
  BY ThingsAre
<1>4. DaemonTypeOK'
  BY <1>1, <1>2, <1>3 DEF HoldInv, DaemonTypeOK, Serving
<1>5. \A e \in Daemons : storage' = e <=> daemon'[e] \in Holding
  BY <1>1, ProcessesDiffer DEF HoldInv, Held
<1>6. \A e \in Clients : client[e].at = "local" => storage' = ACommand
  BY ProcessesDiffer DEF HoldInv, Held
<1>7. QED
  BY <1>4, <1>5, <1>6 DEF HoldInv, Held, Served

LEMMA DaemonStepsHold ==
  ASSUME HoldInv, NEW d \in Daemons,
         \/ Open(d) \/ RemoveSocket(d) \/ WritePid(d) \/ Listen(d) \/ StartFails(d)
         \/ ShutDown(d, "asked") \/ ShutDown(d, "listening") \/ Release(d) \/ RemoveOwnPid(d) \/ Exit(d)
  PROVE  HoldInv'
<1>1. Nobody \in Daemons \cup {Nobody} /\ d \in Daemons \cup {Nobody}
  OBVIOUS
<1>2. serving[d] # {} => daemon[d] \in Serving
  BY DEF HoldInv, DaemonTypeOK, Serving
<1>3. CASE Open(d)
  <2>1. CASE storage = Nobody
    <3>1. daemon[d] = "spawned" /\ daemon' = [daemon EXCEPT ![d] = "opened"] /\ storage' = d
          /\ UNCHANGED <<client, files, serving>>
      BY <1>3, <2>1 DEF Open, Process
    <3>2. QED
      BY <1>2, <2>1, <3>1, ThingsAre, DaemonHolds DEF DaemonStages, Holding, Serving, files
  <2>2. CASE storage # Nobody
    <3>1. daemon[d] = "spawned" /\ daemon' = [daemon EXCEPT ![d] = "dead"]
          /\ UNCHANGED <<client, files, serving, storage>>
      BY <1>3, <2>2 DEF Open, Process
    <3>2. QED
      BY <1>2, <3>1, ThingsAre, DaemonHolds DEF DaemonStages, Holding, Serving, files
  <2>3. QED
    BY <2>1, <2>2
<1>4. CASE RemoveSocket(d) \/ WritePid(d) \/ Listen(d) \/ StartFails(d)
  <2>1. PICK to \in {"unlinked", "written", "listening", "closing"} :
          /\ daemon[d] \in {"opened", "unlinked", "written"} /\ daemon' = [daemon EXCEPT ![d] = to]
          /\ UNCHANGED <<client, serving, storage>>
          /\ pidFile' \in {pidFile, d} /\ sockFile' \in {sockFile, d, Nobody}
    BY <1>4 DEF RemoveSocket, WritePid, Listen, StartFails, Process, files
  <2>2. to \in DaemonStages /\ to \in Holding /\ daemon[d] \in Holding /\ serving[d] = {}
    BY <1>2, <2>1 DEF DaemonStages, Holding, Serving
  <2>3. QED
    BY <2>1, <2>2, ThingsAre, DaemonHolds
<1>5. CASE ShutDown(d, "asked") \/ ShutDown(d, "listening")
  <2>1. /\ daemon[d] \in {"listening", "asked"} /\ daemon' = [daemon EXCEPT ![d] = "closing"]
        /\ UNCHANGED <<client, serving, storage, pidFile>> /\ sockFile' = Nobody
    BY <1>5 DEF ShutDown, Process
  <2>2. QED
    BY <2>1, ThingsAre, DaemonHolds DEF DaemonStages, Holding, Serving
<1>6. CASE Release(d)
  <2>1. /\ daemon[d] = "closing" /\ daemon' = [daemon EXCEPT ![d] = "released"] /\ serving[d] = {}
        /\ UNCHANGED <<client, serving, files>> /\ storage' = Nobody
    BY <1>6 DEF Release, Process
  <2>2. QED
    BY <2>1, ThingsAre, DaemonHolds DEF DaemonStages, Holding, files
<1>7. CASE RemoveOwnPid(d) \/ Exit(d)
  <2>1. PICK to \in {"unwritten", "dead"} :
          /\ daemon[d] \in {"released", "unwritten"} /\ daemon' = [daemon EXCEPT ![d] = to]
          /\ UNCHANGED <<client, serving, storage>>
          /\ pidFile' \in {pidFile, Nobody} /\ sockFile' \in {sockFile, Nobody}
    BY <1>7 DEF RemoveOwnPid, Exit, Process
  <2>2. to \in DaemonStages /\ to \notin Holding /\ daemon[d] \notin Holding /\ serving[d] = {}
    BY <1>2, <2>1 DEF DaemonStages, Holding, Serving
  <2>3. QED
    BY <2>1, <2>2, ThingsAre, DaemonHolds
<1>8. QED
  BY <1>3, <1>4, <1>5, <1>6, <1>7

\* A command is done, or its client hangs up: it is served no more.
LEMMA ServedNoMore ==
  ASSUME HoldInv, NEW d \in Daemons, NEW c \in serving[d],
         serving' = [serving EXCEPT ![d] = @ \ {c}], client' = [client EXCEPT ![c] = AtRest],
         UNCHANGED <<files, storage, daemon>>
  PROVE  HoldInv'
<1>1. c \in Clients /\ serving[d] \subseteq Clients
  BY DEF HoldInv
<1>2. client'[c] = AtRest /\ \A e \in Clients : e # c => client'[e] = client[e]
  BY <1>1, ThingsAre
<1>3. client' \in [Clients -> ClientRecords] /\ \A e \in Clients : Proper(client'[e])
  BY <1>1, <1>2, ThingsAre, RestIs
<1>4. serving' \in [Daemons -> SUBSET Clients]
  BY <1>1 DEF HoldInv
<1>5. \A e \in Daemons : serving'[e] \subseteq serving[e] /\ c \notin serving'[e]
  BY DEF HoldInv, Served
<1>6. DaemonTypeOK'
  BY <1>3, <1>4, <1>5 DEF HoldInv, DaemonTypeOK, ClientRecords, Phases, files
<1>7. Held'
  BY <1>1, <1>2, RestIs DEF HoldInv, Held
<1>8. Served'
  BY <1>2, <1>4, <1>5 DEF HoldInv, Served
<1>9. QED
  BY <1>3, <1>4, <1>6, <1>7, <1>8 DEF HoldInv

LEMMA DaemonDiesHolds ==
  ASSUME HoldInv, NEW d \in Daemons, DaemonDies(d)
  PROVE  HoldInv'
<1>1. /\ daemon' = [daemon EXCEPT ![d] = "dead"]
      /\ storage' = (IF storage = d THEN Nobody ELSE storage)
      /\ client' = [c \in Clients |-> IF c \in serving[d] THEN AtRest ELSE client[c]]
      /\ serving' = [serving EXCEPT ![d] = {}] /\ UNCHANGED files
  BY DEF DaemonDies
<1>2. daemon'[d] = "dead" /\ (\A e \in Daemons : e # d => daemon'[e] = daemon[e])
      /\ daemon' \in [Daemons -> DaemonStages]
  BY <1>1, ThingsAre DEF DaemonStages
<1>3. \A c \in Clients : client'[c] = client[c] \/ (client'[c] = AtRest /\ client[c].at = "proxied")
  BY <1>1 DEF HoldInv, Served
<1>4. client' \in [Clients -> ClientRecords] /\ \A c \in Clients : Proper(client'[c])
  BY <1>1, ThingsAre, RestIs
<1>5. serving'[d] = {} /\ (\A e \in Daemons : e # d => serving'[e] = serving[e])
      /\ serving' \in [Daemons -> SUBSET Clients]
  BY <1>1 DEF HoldInv
<1>6. storage' \in Daemons \cup {Nobody, ACommand}
  BY <1>1, ThingsAre
<1>7. DaemonTypeOK'
  BY <1>1, <1>2, <1>4, <1>5, <1>6 DEF HoldInv, DaemonTypeOK, ClientRecords, Phases, files
<1>8. Held'
  <2>1. \A e \in Daemons : storage' = e <=> daemon'[e] \in Holding
    BY <1>1, <1>2, ProcessesDiffer DEF HoldInv, Held, Holding
  <2>2. \A c \in Clients : client'[c].at = "local" => client[c].at = "local"
    BY <1>3, RestIs
  <2>3. QED
    BY <1>1, <2>1, <2>2, ProcessesDiffer DEF HoldInv, Held
<1>9. Served'
  <2>1. \A e \in Daemons : e # d => \A c \in serving[e] : c \notin serving[d]
    BY DEF HoldInv, Served
  <2>2. \A e \in Daemons : e # d => \A c \in serving[e] : client'[c] = client[c]
    BY <1>1, <2>1 DEF HoldInv
  <2>3. QED
    BY <1>5, <2>2 DEF HoldInv, Served
<1>10. QED
  BY <1>4, <1>5, <1>7, <1>8, <1>9 DEF HoldInv

\* The files, the processes and the storage stay as they are; the command ends.
LEMMA EndsHolds ==
  ASSUME HoldInv, NEW c \in Clients, client[c].at \notin Busy, Ends(c), UNCHANGED <<daemon, serving>>
  PROVE  HoldInv'
<1>1. client' = [client EXCEPT ![c] = AtRest] /\ UNCHANGED <<files, storage>>
  BY DEF Ends
<1>2. QED
  BY <1>1, RestIs, ThingsAre, ClientHolds DEF Busy, files

\* Command c, in its probe, goes on to r.
Probes(c, r) ==
  /\ client' = [client EXCEPT ![c] = r] /\ client[c].at \notin Busy
  /\ r \in ClientRecords /\ Proper(r) /\ r.at \notin Busy
  /\ UNCHANGED <<storage, daemon, serving>>
  /\ pidFile' \in {pidFile, Nobody} /\ sockFile' \in {sockFile, Nobody}

\* A step of the probe.
LEMMA ProbeHolds ==
  ASSUME HoldInv, NEW c \in Clients,
         \/ \E op \in Ops : Give(c, op)
         \/ ReadPid(c) \/ Stat(c) \/ Status(c) \/ StatusTimesOut(c) \/ Verdict(c)
         \/ RemoveStalePid(c) \/ RemoveStaleSocket(c) \/ AlreadyStopped(c) \/ SeenToStop(c) \/ ProbeAgain(c)
  PROVE  HoldInv'
<1>1. client[c] \in ClientRecords /\ Proper(client[c])
  BY ThingsAre
<1> SUFFICES \E r : Probes(c, r)
  BY ThingsAre, ClientHolds DEF Probes
<1>2. ASSUME NEW op \in Ops, Give(c, op) PROVE \E r : Probes(c, r)
  <2> DEFINE r == [AtRest EXCEPT !.op = op, !.at = "probe"]
  <2>1. r \in ClientRecords /\ Proper(r) /\ r.at \notin Busy
    BY RestIs DEF AtRest, ClientRecords, Proper, Busy, ClientStages, Phases
  <2>2. client' = [client EXCEPT ![c] = r] /\ client[c].at = "idle" /\ UNCHANGED <<files, storage, daemon, serving>>
    BY <1>2 DEF Give
  <2> HIDE DEF r
  <2>3. Probes(c, r)
    BY <2>1, <2>2 DEF files, Busy, Probes
  <2>4. QED
    BY <2>3
<1>3. CASE ReadPid(c)
  <2> DEFINE r == [client[c] EXCEPT !.pid = pidFile, !.at = IF pidFile = Nobody THEN "stat" ELSE "connect"]
  <2>1. r \in ClientRecords /\ Proper(r) /\ r.at \notin Busy
    BY <1>1, ThingsAre DEF ClientRecords, Proper, Busy, ClientStages, Phases
  <2>2. client' = [client EXCEPT ![c] = r] /\ client[c].at = "probe" /\ UNCHANGED <<files, storage, daemon, serving>>
    BY <1>3 DEF ReadPid
  <2> HIDE DEF r
  <2>3. Probes(c, r)
    BY <2>1, <2>2 DEF files, Busy, Probes
  <2>4. QED
    BY <2>3
<1>4. ASSUME NEW from \in ClientStages \ Busy, NEW to \in ClientStages \ Busy, Client(c, from, to),
             to = "stopped" => client[c].op = "stop",
             pidFile' \in {pidFile, Nobody}, sockFile' \in {sockFile, Nobody}
      PROVE  \E r : Probes(c, r)
  <2> DEFINE r == [client[c] EXCEPT !.at = to, !.pid = Nobody]
  <2>1. r \in ClientRecords /\ Proper(r) /\ r.at \notin Busy
    BY <1>1, <1>4 DEF ClientRecords, Proper, Busy
  <2>2. client' = [client EXCEPT ![c] = r] /\ client[c].at = from /\ UNCHANGED <<storage, daemon, serving>>
    BY <1>4 DEF Client
  <2> HIDE DEF r
  <2>3. Probes(c, r)
    BY <1>4, <2>1, <2>2 DEF Probes
  <2>4. QED
    BY <2>3
<1>5. ASSUME Refused(c), UNCHANGED files PROVE \E r : Probes(c, r)
  <2> DEFINE r == [client[c] EXCEPT !.at = "refused"]
  <2>1. r \in ClientRecords /\ Proper(r) /\ r.at \notin Busy
    BY <1>1 DEF ClientRecords, Proper, Busy, ClientStages
  <2>2. client' = [client EXCEPT ![c] = r] /\ client[c].at = "connect" /\ UNCHANGED <<storage, daemon, serving>>
    BY <1>5 DEF Refused
  <2> HIDE DEF r
  <2>3. Probes(c, r)
    BY <1>5, <2>1, <2>2 DEF files, Busy, Probes
  <2>4. QED
    BY <2>3
<1>6. CASE Stat(c) \/ Status(c) \/ StatusTimesOut(c) \/ Verdict(c)
  <2>1. UNCHANGED files
    BY <1>6 DEF Stat, Status, StatusTimesOut, Verdict
  <2>2. Refused(c) \/ \E from \in {"stat", "connect", "refused"}, to \in {"nothing", "connect", "found", "threw", "rmPid"} :
          Client(c, from, to)
    BY <1>6 DEF Stat, Status, StatusTimesOut, Verdict
  <2>3. QED
    BY <1>4, <1>5, <2>1, <2>2 DEF files, ClientStages, Busy
<1>7. CASE RemoveStalePid(c) \/ RemoveStaleSocket(c)
  <2>1. /\ pidFile' \in {pidFile, Nobody} /\ sockFile' \in {sockFile, Nobody}
        /\ \E from \in {"rmPid", "rmSock"}, to \in {"rmSock", "nothing", "stopped"} :
             Client(c, from, to) /\ (to = "stopped" => client[c].phase = "cleaning")
    BY <1>7 DEF RemoveStalePid, RemoveStaleSocket
  <2>2. client[c].phase = "cleaning" => client[c].op = "stop"
    BY <1>1 DEF Proper
  <2>3. QED
    BY <1>4, <2>1, <2>2 DEF ClientStages, Busy
<1>8. CASE SeenToStop(c)
  BY <1>4, <1>8 DEF SeenToStop, files, ClientStages, Busy
<1>9. CASE AlreadyStopped(c)
  <2> DEFINE r == [client[c] EXCEPT !.at = "rmPid", !.phase = "cleaning"]
  <2>1. client' = [client EXCEPT ![c] = r] /\ client[c].at = "nothing" /\ client[c].op = "stop"
        /\ UNCHANGED <<files, storage, daemon, serving>>
    BY <1>9 DEF AlreadyStopped
  <2>2. r \in ClientRecords /\ Proper(r) /\ r.at \notin Busy
    BY <1>1, <2>1 DEF ClientRecords, Proper, Busy, ClientStages, Phases
  <2> HIDE DEF r
  <2>3. Probes(c, r)
    BY <2>1, <2>2 DEF files, Busy, Probes
  <2>4. QED
    BY <2>3
<1>10. CASE ProbeAgain(c)
  <2> DEFINE r == [client[c] EXCEPT !.at = "probe", !.phase = "waiting"]
  <2>1. client' = [client EXCEPT ![c] = r] /\ client[c].at \in {"nothing", "threw", "found"}
        /\ UNCHANGED <<files, storage, daemon, serving>>
    BY <1>10 DEF ProbeAgain, Waits
  <2>2. r \in ClientRecords /\ Proper(r) /\ r.at \notin Busy
    BY <1>1, <2>1 DEF ClientRecords, Proper, Busy, ClientStages, Phases
  <2> HIDE DEF r
  <2>3. Probes(c, r)
    BY <2>1, <2>2 DEF files, Busy, Probes
  <2>4. QED
    BY <2>3
<1>11. QED
  BY <1>2, <1>3, <1>6, <1>7, <1>8, <1>9, <1>10

\* A step of what the command does after its probe.
LEMMA DoingHolds ==
  ASSUME HoldInv, NEW c \in Clients,
         \/ Spawn(c) \/ Started(c) \/ Errs(c) \/ AskToStop(c) \/ AnswerStopped(c) \/ GiveUp(c)
         \/ Proxy(c) \/ HangUp(c) \/ OpenHere(c) \/ CloseHere(c)
  PROVE  HoldInv'
<1>1. client[c] \in ClientRecords /\ Proper(client[c])
  BY ThingsAre
<1>2. CASE Started(c) \/ Errs(c) \/ AnswerStopped(c) \/ GiveUp(c)
  BY <1>2, EndsHolds DEF Started, Errs, AnswerStopped, GiveUp, Busy
<1>3. CASE Spawn(c) \/ (AskToStop(c) /\ Listening(sockFile))
  <2> DEFINE r == [client[c] EXCEPT !.at = "probe", !.phase = "waiting"]
  <2>1. /\ client' = [client EXCEPT ![c] = r] /\ client[c].at \in {"nothing", "found"}
        /\ UNCHANGED <<files, storage, serving>>
        /\ \E d \in Daemons :
             \/ daemon[d] = "none" /\ daemon' = [daemon EXCEPT ![d] = "spawned"]
             \/ daemon[d] \in {"listening", "asked"} /\ daemon' = [daemon EXCEPT ![d] = "asked"]
    BY <1>3, ThingsAre DEF Spawn, AskToStop, Waits, Listening
  <2>2. r \in ClientRecords /\ Proper(r) /\ r.at \notin Busy
    BY <1>1, <2>1 DEF ClientRecords, Proper, Busy, ClientStages, Phases
  <2> HIDE DEF r
  <2>3. PICK d \in Daemons :
             \/ daemon[d] = "none" /\ daemon' = [daemon EXCEPT ![d] = "spawned"]
             \/ daemon[d] \in {"listening", "asked"} /\ daemon' = [daemon EXCEPT ![d] = "asked"]
    BY <2>1
  <2>4. daemon' \in [Daemons -> DaemonStages] /\ daemon'[d] \in {"spawned", "asked"}
        /\ (daemon'[d] = "spawned" => daemon[d] = "none")
        /\ (daemon'[d] = "asked" => daemon[d] \in {"listening", "asked"})
        /\ \A e \in Daemons : e # d => daemon'[e] = daemon[e]
    BY <2>3, ThingsAre DEF DaemonStages
  <2>5. \A e \in Daemons : daemon'[e] \in Holding <=> daemon[e] \in Holding
    BY <2>4 DEF Holding
  <2>6. \A e \in Daemons : daemon[e] \in Serving => daemon'[e] \in Serving
    BY <2>4 DEF Serving
  <2>7. QED
    BY <2>1, <2>2, <2>4, <2>5, <2>6, ThingsAre, ClientHolds DEF files, Busy
<1>4. CASE AskToStop(c) /\ ~Listening(sockFile)
  BY <1>4, EndsHolds DEF AskToStop, Busy
<1>5. CASE Proxy(c)
  <2>1. CASE Listening(sockFile)
    <3> DEFINE d == sockFile
               r == [client[c] EXCEPT !.at = "proxied"]
    <3>1. /\ client[c].op = "work" /\ client[c].at = "found"
          /\ serving' = [serving EXCEPT ![d] = @ \cup {c}] /\ client' = [client EXCEPT ![c] = r]
          /\ UNCHANGED <<files, storage, daemon>>
      BY <1>5, <2>1 DEF Proxy
    <3>2. d \in Daemons /\ daemon[d] \in Serving
      BY <2>1, ThingsAre DEF Listening, Serving
    <3>3. r \in ClientRecords /\ Proper(r) /\ r.at = "proxied"
      BY <1>1, <3>1 DEF ClientRecords, Proper, Busy, ClientStages
    <3> HIDE DEF r
    <3>4. client'[c] = r /\ \A e \in Clients : e # c => client'[e] = client[e]
      BY <3>1, ThingsAre
    <3>5. client' \in [Clients -> ClientRecords] /\ \A e \in Clients : Proper(client'[e])
      BY <3>1, <3>3, <3>4, ThingsAre
    <3>6. serving'[d] = serving[d] \cup {c} /\ (\A e \in Daemons : e # d => serving'[e] = serving[e])
          /\ serving' \in [Daemons -> SUBSET Clients]
      BY <3>1, <3>2 DEF HoldInv
    <3>7. \A e \in Daemons : c \notin serving[e]
      BY <3>1 DEF HoldInv, Served
    <3>8. DaemonTypeOK'
      BY <3>1, <3>2, <3>5, <3>6 DEF HoldInv, DaemonTypeOK, ClientRecords, Phases, Serving, files
    <3>9. Held'
      BY <3>1, <3>3, <3>4 DEF HoldInv, Held
    <3>10. Served'
      <4>1. \A e \in Daemons : \A x \in serving'[e] : client'[x].at = "proxied"
        BY <3>3, <3>4, <3>6 DEF HoldInv, Served
      <4>2. \A e, f \in Daemons : \A x \in serving'[e] \cap serving'[f] : e = f
        BY <3>2, <3>6, <3>7 DEF HoldInv, Served
      <4>3. QED
        BY <4>1, <4>2 DEF Served
    <3>11. QED
      BY <3>5, <3>6, <3>8, <3>9, <3>10 DEF HoldInv
  <2>2. CASE ~Listening(sockFile)
    BY <1>5, <2>2, EndsHolds DEF Proxy, Busy
  <2>3. QED
    BY <2>1, <2>2
<1>6. CASE HangUp(c)
  BY <1>6, ServedNoMore DEF HangUp
<1>7. CASE OpenHere(c)
  <2>1. CASE storage = Nobody
    <3> DEFINE r == [client[c] EXCEPT !.at = "local"]
    <3>1. /\ client[c].op = "work" /\ client[c].at = "nothing" /\ storage' = ACommand
          /\ client' = [client EXCEPT ![c] = r] /\ UNCHANGED <<files, daemon, serving>>
      BY <1>7, <2>1 DEF OpenHere
    <3>2. r \in ClientRecords /\ Proper(r) /\ r.at = "local"
      BY <1>1, <3>1 DEF ClientRecords, Proper, Busy, ClientStages
    <3> HIDE DEF r
    <3>3. client'[c] = r /\ \A e \in Clients : e # c => client'[e] = client[e]
      BY <3>1, ThingsAre
    <3>4. client' \in [Clients -> ClientRecords] /\ \A e \in Clients : Proper(client'[e])
      BY <3>1, <3>2, <3>3, ThingsAre
    <3>5. DaemonTypeOK'
      BY <3>1, <3>4 DEF HoldInv, DaemonTypeOK, ClientRecords, Phases, files
    <3>6. Held'
      BY <2>1, <3>1, <3>2, <3>3, ProcessesDiffer DEF HoldInv, Held
    <3>7. \A d \in Daemons : \A e \in serving[d] : e \in Clients /\ e # c
      BY <3>1 DEF HoldInv, Served
    <3>8. Served'
      BY <3>1, <3>3, <3>7 DEF HoldInv, Served
    <3>9. QED
      BY <3>1, <3>4, <3>5, <3>6, <3>8 DEF HoldInv
  <2>2. CASE storage # Nobody
    BY <1>7, <2>2, EndsHolds DEF OpenHere, Busy
  <2>3. QED
    BY <2>1, <2>2
<1>8. CASE CloseHere(c)
  <2>1. /\ client[c].at = "local" /\ storage' = Nobody
        /\ client' = [client EXCEPT ![c] = AtRest] /\ UNCHANGED <<files, daemon, serving>>
    BY <1>8 DEF CloseHere
  <2>2. client'[c] = AtRest /\ \A e \in Clients : e # c => client'[e] = client[e]
    BY <2>1, ThingsAre
  <2>3. client' \in [Clients -> ClientRecords] /\ \A e \in Clients : Proper(client'[e])
    BY <2>1, <2>2, RestIs, ThingsAre
  <2>4. DaemonTypeOK'
    BY <2>1, <2>3 DEF HoldInv, DaemonTypeOK, ClientRecords, Phases, files
  <2>5. Held'
    BY <2>1, <2>2, RestIs, ProcessesDiffer DEF HoldInv, Held
  <2>6. \A d \in Daemons : \A e \in serving[d] : e \in Clients /\ e # c
    BY <2>1 DEF HoldInv, Served
  <2>7. Served'
    BY <2>1, <2>2, <2>6 DEF HoldInv, Served
  <2>8. QED
    BY <2>1, <2>3, <2>4, <2>5, <2>7 DEF HoldInv
<1>9. QED
  BY <1>2, <1>3, <1>4, <1>5, <1>6, <1>7, <1>8

LEMMA HoldStep == HoldInv /\ [DaemonNext]_daemonVars => HoldInv'
<1>1. ASSUME HoldInv, UNCHANGED daemonVars PROVE HoldInv'
  BY <1>1 DEF HoldInv, DaemonTypeOK, Held, Served, daemonVars, files
<1>2. ASSUME HoldInv, NEW d \in Daemons, NEW c \in Clients, CommandEnds(d, c) PROVE HoldInv'
  BY <1>2, ServedNoMore DEF CommandEnds
<1>3. QED
  BY <1>1, <1>2, DaemonStepsHold, DaemonDiesHolds, ProbeHolds, DoingHolds
  DEF DaemonNext, DaemonStep, ClientStep

LEMMA StorageHeld == DaemonSpec => []HoldInv
<1>1. ASSUME DaemonInit PROVE HoldInv
  <2>1. client \in [Clients -> ClientRecords] /\ (\A c \in Clients : client[c] = AtRest)
    BY <1>1, RestIs DEF DaemonInit
  <2>2. daemon \in [Daemons -> DaemonStages] /\ serving \in [Daemons -> SUBSET Clients]
    BY <1>1 DEF DaemonInit, DaemonStages
  <2>3. DaemonTypeOK
    BY <1>1, <2>1, <2>2 DEF DaemonInit, DaemonTypeOK, ClientRecords, Phases
  <2>4. Held /\ Served
    BY <1>1, <2>1, RestIs, ProcessesDiffer DEF DaemonInit, Held, Served, Holding
  <2>5. QED
    BY <2>1, <2>2, <2>3, <2>4, RestIs DEF HoldInv
<1>2. QED
  BY <1>1, HoldStep, PTL DEF DaemonSpec

\* The daemon of a directory and the commands that find it are in one of their states.
THEOREM DaemonTypeCorrect == DaemonSpec => []DaemonTypeOK
  BY StorageHeld, PTL DEF HoldInv

\* No daemon closes the repository under a command that somebody waits for.
THEOREM ServedHaveStorage == DaemonSpec => []CommandsFinishFirst
<1>1. HoldInv => CommandsFinishFirst
  BY DEF HoldInv, DaemonTypeOK, Held, Holding, CommandsFinishFirst
<1>2. QED
  BY <1>1, StorageHeld, PTL

-----------------------------------------------------------------------------
(* Orderly commands.                                                         *)

Starting(at, d) == at[d] \in {"spawned", "opened", "unlinked", "written"}
Taking(at, d) == at[d] \in {"listening", "asked"}
Stopping(at, d) == at[d] = "closing"

\* No daemon runs, or is about to.
Over(at) == \A d \in Daemons : ~Starting(at, d) /\ ~Taking(at, d) /\ ~Stopping(at, d)

\* A start that has spawned its daemon, and waits for it.
Patient(r) == r.op = "start" /\ r.phase = "waiting"

Awaits(r) == Patient(r) /\ r.at \notin {"idle", "found"}

\* What the files say of daemon d.
Told(at, pid, sock, d) ==
  /\ at[d] \in {"spawned", "opened", "unlinked"} => pid = Nobody
  /\ Starting(at, d) => sock = Nobody
  /\ at[d] = "written" \/ Taking(at, d) => pid = d
  /\ Taking(at, d) => sock = d

\* Daemon d is not starting, and the pid file names it while it stops.
Settled(at, pid, d) == ~Starting(at, d) /\ (Stopping(at, d) => pid = d)

\* What a command knows from its probe so far.
Knows(r, at, pid, sock) ==
  IF Patient(r)
    THEN /\ r.at = "connect" /\ r.pid = Nobody => \A d \in Daemons : ~Starting(at, d)
         /\ r.at = "refused" \/ (r.at = "connect" /\ r.pid # Nobody) =>
              \A d \in Daemons : Starting(at, d) \/ Taking(at, d) => r.pid = d
         /\ r.at \in {"rmPid", "rmSock"} => \A d \in Daemons : ~Starting(at, d) /\ ~Taking(at, d)
    ELSE /\ r.at \in {"stat", "rmPid", "rmSock", "nothing", "stopped"} => Over(at)
         /\ r.at \in {"connect", "refused"} => \A d \in Daemons : Taking(at, d) \/ Stopping(at, d) => r.pid = d
         /\ r.at \in {"stat", "rmSock", "nothing"} => pid = Nobody
         /\ r.at = "nothing" => sock = Nobody

OrderInv ==
  orderly =>
    /\ \A c, e \in Clients : client[c].at # "idle" /\ client[e].at # "idle" => c = e
    /\ \A d, e \in Daemons : Alive(d) /\ Alive(e) => d = e
    /\ \A d \in Daemons : Told(daemon, pidFile, sockFile, d)
    /\ \A d \in Daemons : (\E c \in Clients : Awaits(client[c])) \/ Settled(daemon, pidFile, d)
    /\ \A c \in Clients : Knows(client[c], daemon, pidFile, sockFile)

\* What is known while command c runs.
LEMMA Situated ==
  ASSUME HoldInv, OrderInv, orderly, NEW c \in Clients, client[c].at # "idle"
  PROVE  /\ \A e \in Clients : e # c => client[e].at = "idle"
         /\ Knows(client[c], daemon, pidFile, sockFile)
         /\ \A d \in Daemons : Told(daemon, pidFile, sockFile, d)
         /\ \A d \in Daemons : Awaits(client[c]) \/ Settled(daemon, pidFile, d)
         /\ \A d, e \in Daemons : Alive(d) /\ Alive(e) => d = e
<1>1. \A e \in Clients : e # c => client[e].at = "idle" /\ ~Awaits(client[e])
  BY DEF OrderInv, Awaits
<1>2. QED
  BY <1>1 DEF OrderInv

\* The command that runs, or begins, goes on to r.
LEMMA ClientOrdered ==
  ASSUME HoldInv, OrderInv, orderly, NEW c \in Clients, NEW r, client' = [client EXCEPT ![c] = r],
         \A e \in Clients : e # c => client[e].at = "idle",
         \A d, e \in Daemons : Alive(d)' /\ Alive(e)' => d = e,
         \A d \in Daemons : Told(daemon', pidFile', sockFile', d),
         \A d \in Daemons : Awaits(r) \/ Settled(daemon', pidFile', d),
         Knows(r, daemon', pidFile', sockFile')
  PROVE  OrderInv'
<1>1. client'[c] = r /\ \A e \in Clients : e # c => client'[e].at = "idle"
  BY ThingsAre
<1>2. \A e \in Clients : Knows(client'[e], daemon', pidFile', sockFile')
  <2>1. ASSUME NEW e \in Clients, e # c PROVE Knows(client'[e], daemon', pidFile', sockFile')
    BY <1>1, <2>1 DEF Knows
  <2>2. QED
    BY <1>1, <2>1
<1>3. (\E e \in Clients : Awaits(client'[e])) \/ ~Awaits(r)
  BY <1>1
<1>4. QED
  BY <1>1, <1>2, <1>3 DEF OrderInv

\* The same, of a step of the probe that leaves the files and the daemons alone.
LEMMA LookOrdered ==
  ASSUME HoldInv, OrderInv, orderly, NEW c \in Clients, NEW r, client' = [client EXCEPT ![c] = r],
         client[c].at # "idle", UNCHANGED <<daemon, pidFile, sockFile>>,
         Awaits(client[c]) => Awaits(r) \/ \A d \in Daemons : Settled(daemon, pidFile, d),
         Knows(r, daemon, pidFile, sockFile)
  PROVE  OrderInv'
<1>1. \A d, e \in Daemons : Alive(d)' /\ Alive(e)' => d = e
  BY Situated DEF Alive
<1>2. \A d \in Daemons : Awaits(r) \/ Settled(daemon, pidFile, d)
  BY Situated
<1>3. QED
  BY <1>1, <1>2, Situated, ClientOrdered

\* A command ends that no daemon depends on.
LEMMA EndsOrdered ==
  ASSUME HoldInv, OrderInv, NEW c \in Clients, client[c].at # "idle", ~Awaits(client[c]),
         client' = [client EXCEPT ![c] = AtRest], orderly' => orderly, UNCHANGED <<daemon, files>>
  PROVE  OrderInv'
<1>1. SUFFICES ASSUME orderly' PROVE OrderInv'
  BY DEF OrderInv
<1>2. Knows(AtRest, daemon, pidFile, sockFile)
  BY RestIs DEF Knows, Patient
<1>3. QED
  BY <1>1, <1>2, LookOrdered DEF files

\* A step of the probe that looks at the files, the processes or the socket.
LEMMA LooksOrdered ==
  ASSUME HoldInv, OrderInv, NEW c \in Clients,
         ReadPid(c) \/ Stat(c) \/ Status(c) \/ StatusTimesOut(c) \/ Verdict(c)
  PROVE  OrderInv'
<1>1. SUFFICES ASSUME orderly' PROVE OrderInv'
  BY DEF OrderInv
<1> DEFINE q == client[c]
<1>2. q \in ClientRecords /\ client \in [Clients -> ClientRecords]
  BY ThingsAre
<1>3. CASE ReadPid(c)
  <2> DEFINE r == [client[c] EXCEPT !.pid = pidFile, !.at = IF pidFile = Nobody THEN "stat" ELSE "connect"]
  <2>1. orderly /\ q.at = "probe" /\ client' = [client EXCEPT ![c] = r] /\ UNCHANGED <<daemon, pidFile, sockFile>>
    BY <1>1, <1>3 DEF ReadPid, files
  <2>2. /\ r.op = q.op /\ r.phase = q.phase /\ r.pid = pidFile
        /\ r.at = IF pidFile = Nobody THEN "stat" ELSE "connect"
    BY <1>2 DEF ClientRecords
  <2> HIDE DEF r
  <2>3. Awaits(q) <=> Patient(r)
    BY <2>1, <2>2 DEF Awaits, Patient
  <2>4. Awaits(q) => Awaits(r)
    BY <2>2, <2>3 DEF Awaits
  <2>5. /\ \A d \in Daemons : Told(daemon, pidFile, sockFile, d)
        /\ \A d \in Daemons : Awaits(q) \/ Settled(daemon, pidFile, d)
    BY <2>1, Situated
  <2>6. Knows(r, daemon, pidFile, sockFile)
    <3>1. CASE Patient(r)
      BY <2>2, <2>5, <3>1 DEF Knows, Told, Starting, Taking
    <3>2. CASE ~Patient(r)
      BY <2>2, <2>3, <2>5, <3>2, ProcessesDiffer DEF Knows, Told, Settled, Over
    <3>3. QED
      BY <3>1, <3>2
  <2>7. QED
    BY <2>1, <2>4, <2>6, LookOrdered
<1>4. ASSUME NEW from, NEW to, Client(c, from, to), UNCHANGED files, from # "idle", to # "idle",
             to = "found" => \A d \in Daemons : Settled(daemon, pidFile, d),
             ASSUME NEW r, r.at = to, r.pid = Nobody, r.op = q.op, r.phase = q.phase,
                    orderly, q.at = from
             PROVE  Knows(r, daemon, pidFile, sockFile)
      PROVE  OrderInv'
  <2> DEFINE r == [client[c] EXCEPT !.at = to, !.pid = Nobody]
  <2>1. orderly /\ q.at = from /\ client' = [client EXCEPT ![c] = r] /\ UNCHANGED <<daemon, pidFile, sockFile>>
    BY <1>1, <1>4 DEF Client, files
  <2>2. r.op = q.op /\ r.phase = q.phase /\ r.pid = Nobody /\ r.at = to
    BY <1>2 DEF ClientRecords
  <2> HIDE DEF r
  <2>3. Knows(r, daemon, pidFile, sockFile)
    BY <1>4, <2>1, <2>2
  <2>4. Awaits(q) => Awaits(r) \/ \A d \in Daemons : Settled(daemon, pidFile, d)
    BY <1>4, <2>2 DEF Awaits, Patient
  <2>5. QED
    BY <1>4, <2>1, <2>3, <2>4, LookOrdered
<1>5. CASE Stat(c)
  <2> DEFINE to == IF sockFile = Nobody THEN "nothing" ELSE "connect"
  <2>1. Client(c, "stat", to) /\ UNCHANGED files
    BY <1>5 DEF Stat
  <2>2. ASSUME NEW r, r.at = to, r.pid = Nobody, r.op = q.op, r.phase = q.phase, orderly, q.at = "stat"
        PROVE  Knows(r, daemon, pidFile, sockFile)
    <3>1. Knows(q, daemon, pidFile, sockFile) /\ \A d \in Daemons : Told(daemon, pidFile, sockFile, d)
      BY <2>2, Situated
    <3>2. Patient(r) <=> Patient(q)
      BY <2>2 DEF Patient
    <3>3. QED
      BY <2>2, <3>1, <3>2 DEF Knows, Told, Over
  <2>3. QED
    BY <1>4, <2>1, <2>2
<1>6. CASE Listening(sockFile) /\ Client(c, "connect", "found") /\ UNCHANGED files
  <2>1. orderly /\ q.at = "connect"
    BY <1>1, <1>6 DEF Client
  <2>2. \A d \in Daemons : Settled(daemon, pidFile, d)
    <3>1. sockFile \in Daemons /\ Taking(daemon, sockFile) /\ Alive(sockFile)
      BY <1>6, ThingsAre DEF Listening, Taking, Alive
    <3>2. \A d \in Daemons : Alive(d) => d = sockFile
      BY <2>1, <3>1, Situated
    <3>3. QED
      BY <3>1, <3>2 DEF Settled, Starting, Stopping, Taking, Alive
  <2>3. ASSUME NEW r, r.at = "found" PROVE Knows(r, daemon, pidFile, sockFile)
    BY <2>3 DEF Knows
  <2>4. QED
    BY <1>4, <1>6, <2>2, <2>3
<1>7. CASE ~Listening(sockFile) /\ Refused(c) /\ UNCHANGED orderly /\ UNCHANGED files
  <2> DEFINE r == [client[c] EXCEPT !.at = "refused"]
  <2>1. orderly /\ q.at = "connect" /\ client' = [client EXCEPT ![c] = r] /\ UNCHANGED <<daemon, pidFile, sockFile>>
    BY <1>1, <1>7 DEF Refused, files
  <2>2. r.op = q.op /\ r.phase = q.phase /\ r.pid = q.pid /\ r.at = "refused"
    BY <1>2 DEF ClientRecords
  <2> HIDE DEF r
  <2>3. Knows(q, daemon, pidFile, sockFile) /\ \A d \in Daemons : Told(daemon, pidFile, sockFile, d)
    BY <2>1, Situated
  <2>4. \A d \in Daemons : ~Taking(daemon, d)
    BY <1>7, <2>3, ProcessesDiffer DEF Told, Taking, Listening
  <2>5. Patient(r) <=> Patient(q)
    BY <2>2 DEF Patient
  <2>6. Knows(r, daemon, pidFile, sockFile)
    BY <2>1, <2>2, <2>3, <2>4, <2>5 DEF Knows
  <2>7. Awaits(q) => Awaits(r)
    BY <2>2, <2>5 DEF Awaits
  <2>8. QED
    BY <2>1, <2>6, <2>7, LookOrdered
<1>8. CASE Status(c)
  BY <1>6, <1>7, <1>8 DEF Status
<1>9. CASE StatusTimesOut(c)
  BY <1>1, <1>9 DEF StatusTimesOut
<1>10. CASE Verdict(c)
  <2> DEFINE to == IF q.pid # Nobody /\ Alive(q.pid) THEN "threw" ELSE "rmPid"
  <2>1. Client(c, "refused", to) /\ UNCHANGED files
    BY <1>10 DEF Verdict
  <2>2. ASSUME NEW r, r.at = to, r.pid = Nobody, r.op = q.op, r.phase = q.phase, orderly, q.at = "refused"
        PROVE  Knows(r, daemon, pidFile, sockFile)
    <3>1. Knows(q, daemon, pidFile, sockFile) /\ \A d \in Daemons : Awaits(q) \/ Settled(daemon, pidFile, d)
      BY <2>2, Situated
    <3>2. (Patient(r) <=> Patient(q)) /\ (Awaits(q) => Patient(q))
      BY <2>2 DEF Patient, Awaits
    <3>3. to = "rmPid" => \A d \in Daemons : q.pid = d => ~Alive(d)
      BY ProcessesDiffer
    <3>4. \A d \in Daemons : Starting(daemon, d) \/ Taking(daemon, d) \/ Stopping(daemon, d) => Alive(d)
      BY DEF Starting, Taking, Stopping, Alive
    <3>5. CASE to = "threw"
      BY <2>2, <3>5 DEF Knows
    <3>6. CASE to = "rmPid" /\ Patient(r)
      BY <2>2, <3>1, <3>2, <3>3, <3>4, <3>6 DEF Knows
    <3>7. CASE to = "rmPid" /\ ~Patient(r)
      <4>1. Over(daemon)
        BY <2>2, <3>1, <3>2, <3>3, <3>4, <3>7 DEF Knows, Settled, Over
      <4>2. QED
        BY <2>2, <3>7, <4>1 DEF Knows
    <3>8. QED
      BY <3>5, <3>6, <3>7
  <2>3. QED
    BY <1>4, <2>1, <2>2
<1>11. QED
  BY <1>3, <1>5, <1>8, <1>9, <1>10

\* The other steps of the probe.
LEMMA ProbeOrdered ==
  ASSUME HoldInv, OrderInv, NEW c \in Clients,
         \/ \E op \in Ops : Give(c, op)
         \/ RemoveStalePid(c) \/ RemoveStaleSocket(c) \/ AlreadyStopped(c) \/ SeenToStop(c) \/ ProbeAgain(c)
  PROVE  OrderInv'
<1>1. SUFFICES ASSUME orderly' PROVE OrderInv'
  BY DEF OrderInv
<1> DEFINE q == client[c]
<1>2. q \in ClientRecords /\ Proper(q) /\ client \in [Clients -> ClientRecords]
  BY ThingsAre
<1>3. ASSUME NEW op \in Ops, Give(c, op) PROVE OrderInv'
  <2> DEFINE r == [AtRest EXCEPT !.op = op, !.at = "probe"]
  <2>1. /\ orderly /\ (\A e \in Clients : client[e].at = "idle")
        /\ client' = [client EXCEPT ![c] = r] /\ UNCHANGED <<daemon, pidFile, sockFile>>
    BY <1>1, <1>3 DEF Give, files
  <2>2. r.at = "probe" /\ r.phase = "first"
    BY DEF AtRest
  <2> HIDE DEF r
  <2>3. /\ \A d \in Daemons : Told(daemon, pidFile, sockFile, d)
        /\ \A d \in Daemons : Settled(daemon, pidFile, d)
        /\ \A d, e \in Daemons : Alive(d) /\ Alive(e) => d = e
    BY <2>1 DEF OrderInv, Awaits
  <2>4. Knows(r, daemon, pidFile, sockFile)
    BY <2>2 DEF Knows, Patient
  <2>5. \A d, e \in Daemons : Alive(d)' /\ Alive(e)' => d = e
    BY <2>1, <2>3 DEF Alive
  <2>6. QED
    BY <2>1, <2>3, <2>4, <2>5, ClientOrdered
<1>4. CASE RemoveStalePid(c)
  <2> DEFINE r == [client[c] EXCEPT !.at = "rmSock", !.pid = Nobody]
  <2>1. /\ orderly /\ q.at = "rmPid" /\ client' = [client EXCEPT ![c] = r]
        /\ UNCHANGED <<daemon, sockFile>> /\ pidFile' = Nobody
    BY <1>1, <1>4 DEF RemoveStalePid, Client
  <2>2. r.op = q.op /\ r.phase = q.phase /\ r.at = "rmSock"
    BY <1>2 DEF ClientRecords
  <2> HIDE DEF r
  <2>3. /\ \A e \in Clients : e # c => client[e].at = "idle"
        /\ Knows(q, daemon, pidFile, sockFile)
        /\ \A d, e \in Daemons : Alive(d) /\ Alive(e) => d = e
    BY <2>1, Situated
  <2>4. Patient(r) <=> Patient(q)
    BY <2>2 DEF Patient
  <2>5. \A d \in Daemons : ~Starting(daemon, d) /\ ~Taking(daemon, d)
    BY <2>1, <2>3 DEF Knows, Over
  <2>6. \A d \in Daemons : Told(daemon', pidFile', sockFile', d)
    BY <2>1, <2>5 DEF Told, Starting, Taking
  <2>7. Knows(r, daemon', pidFile', sockFile')
    BY <2>1, <2>2, <2>3, <2>4, <2>5 DEF Knows
  <2>8. \A d \in Daemons : Awaits(r) \/ Settled(daemon', pidFile', d)
    BY <2>1, <2>2, <2>3, <2>4 DEF Awaits, Settled, Knows, Over
  <2>9. \A d, e \in Daemons : Alive(d)' /\ Alive(e)' => d = e
    BY <2>1, <2>3 DEF Alive
  <2>10. QED
    BY <2>1, <2>3, <2>6, <2>7, <2>8, <2>9, ClientOrdered
<1>5. CASE RemoveStaleSocket(c)
  <2> DEFINE to == IF q.phase = "cleaning" THEN "stopped" ELSE "nothing"
             r == [client[c] EXCEPT !.at = to, !.pid = Nobody]
  <2>1. /\ orderly /\ q.at = "rmSock" /\ client' = [client EXCEPT ![c] = r]
        /\ UNCHANGED <<daemon, pidFile>> /\ sockFile' = Nobody
    BY <1>1, <1>5 DEF RemoveStaleSocket, Client
  <2>2. r.op = q.op /\ r.phase = q.phase /\ r.at = to
    BY <1>2 DEF ClientRecords
  <2> HIDE DEF r
  <2>3. /\ \A e \in Clients : e # c => client[e].at = "idle"
        /\ Knows(q, daemon, pidFile, sockFile)
        /\ \A d, e \in Daemons : Alive(d) /\ Alive(e) => d = e
    BY <2>1, Situated
  <2>4. (Patient(r) <=> Patient(q)) /\ (Patient(q) => to = "nothing") /\ to \in {"stopped", "nothing"}
    BY <2>2 DEF Patient
  <2>5. \A d \in Daemons : ~Starting(daemon, d) /\ ~Taking(daemon, d)
    BY <2>1, <2>3 DEF Knows, Over
  <2>6. \A d \in Daemons : Told(daemon', pidFile', sockFile', d)
    BY <2>1, <2>5 DEF Told, Starting, Taking
  <2>7. Knows(r, daemon', pidFile', sockFile')
    BY <2>1, <2>2, <2>3, <2>4 DEF Knows
  <2>8. \A d \in Daemons : Awaits(r) \/ Settled(daemon', pidFile', d)
    BY <2>1, <2>2, <2>3, <2>4 DEF Awaits, Settled, Knows, Over
  <2>9. \A d, e \in Daemons : Alive(d)' /\ Alive(e)' => d = e
    BY <2>1, <2>3 DEF Alive
  <2>10. QED
    BY <2>1, <2>3, <2>6, <2>7, <2>8, <2>9, ClientOrdered
<1>6. CASE AlreadyStopped(c)
  <2> DEFINE r == [client[c] EXCEPT !.at = "rmPid", !.phase = "cleaning"]
  <2>1. /\ orderly /\ q.op = "stop" /\ q.at = "nothing" /\ client' = [client EXCEPT ![c] = r]
        /\ UNCHANGED <<daemon, pidFile, sockFile>>
    BY <1>1, <1>6 DEF AlreadyStopped, files
  <2>2. r.op = q.op /\ r.at = "rmPid"
    BY <1>2 DEF ClientRecords
  <2> HIDE DEF r
  <2>3. ~Patient(q) /\ ~Patient(r) /\ ~Awaits(q)
    BY <2>1, <2>2 DEF Patient, Awaits
  <2>4. Knows(q, daemon, pidFile, sockFile)
    BY <2>1, Situated
  <2>5. Knows(r, daemon, pidFile, sockFile)
    BY <2>1, <2>2, <2>3, <2>4 DEF Knows
  <2>6. QED
    BY <2>1, <2>3, <2>5, LookOrdered
<1>7. CASE SeenToStop(c)
  <2> DEFINE r == [client[c] EXCEPT !.at = "stopped", !.pid = Nobody]
  <2>1. /\ orderly /\ q.op = "stop" /\ q.at = "nothing" /\ client' = [client EXCEPT ![c] = r]
        /\ UNCHANGED <<daemon, pidFile, sockFile>>
    BY <1>1, <1>7 DEF SeenToStop, Client, files
  <2>2. r.op = q.op /\ r.at = "stopped"
    BY <1>2 DEF ClientRecords
  <2> HIDE DEF r
  <2>3. ~Patient(q) /\ ~Patient(r) /\ ~Awaits(q)
    BY <2>1, <2>2 DEF Patient, Awaits
  <2>4. Knows(q, daemon, pidFile, sockFile)
    BY <2>1, Situated
  <2>5. Knows(r, daemon, pidFile, sockFile)
    BY <2>1, <2>2, <2>3, <2>4 DEF Knows
  <2>6. QED
    BY <2>1, <2>3, <2>5, LookOrdered
<1>8. CASE ProbeAgain(c)
  <2> DEFINE r == [client[c] EXCEPT !.at = "probe", !.phase = "waiting"]
  <2>1. /\ orderly /\ q.phase = "waiting" /\ q.at \in {"nothing", "threw", "found"}
        /\ client' = [client EXCEPT ![c] = r] /\ UNCHANGED <<daemon, pidFile, sockFile>>
    BY <1>1, <1>8 DEF ProbeAgain, Waits, files
  <2>2. r.op = q.op /\ r.at = "probe" /\ r.phase = "waiting"
    BY <1>2 DEF ClientRecords
  <2> HIDE DEF r
  <2>3. Awaits(q) => Awaits(r)
    BY <2>1, <2>2 DEF Patient, Awaits
  <2>4. Knows(r, daemon, pidFile, sockFile)
    BY <2>2 DEF Knows
  <2>5. QED
    BY <2>1, <2>3, <2>4, LookOrdered
<1>9. QED
  BY <1>3, <1>4, <1>5, <1>6, <1>7, <1>8

\* What a command does after its probe.
LEMMA DoingOrdered ==
  ASSUME HoldInv, OrderInv, NEW c \in Clients,
         \/ Spawn(c) \/ Started(c) \/ Errs(c) \/ AskToStop(c) \/ AnswerStopped(c) \/ GiveUp(c)
         \/ Proxy(c) \/ HangUp(c) \/ OpenHere(c) \/ CloseHere(c)
  PROVE  OrderInv'
<1>1. SUFFICES ASSUME orderly' PROVE OrderInv'
  BY DEF OrderInv
<1> DEFINE q == client[c]
<1>2. q \in ClientRecords /\ Proper(q) /\ client \in [Clients -> ClientRecords]
  BY ThingsAre
<1>3. ASSUME Ends(c), UNCHANGED <<daemon, orderly>>, q.at # "idle",
             q.at = "found" \/ q.phase = "first" \/ q.op # "start"
      PROVE  OrderInv'
  BY <1>3, EndsOrdered DEF Ends, Awaits, Patient
<1>4. CASE Spawn(c)
  <2> DEFINE r == [client[c] EXCEPT !.at = "probe", !.phase = "waiting"]
  <2>1. /\ orderly /\ q.op = "start" /\ q.at = "nothing" /\ q.phase = "first"
        /\ client' = [client EXCEPT ![c] = r] /\ UNCHANGED <<pidFile, sockFile>>
        /\ \A d \in Daemons : ~Alive(d)
        /\ \E d \in Daemons : daemon' = [daemon EXCEPT ![d] = "spawned"]
    BY <1>1, <1>4 DEF Spawn, Waits, files
  <2>2. r.op = "start" /\ r.at = "probe" /\ r.phase = "waiting"
    BY <1>2, <2>1 DEF ClientRecords
  <2> HIDE DEF r
  <2>3. PICK d \in Daemons : daemon' = [daemon EXCEPT ![d] = "spawned"]
    BY <2>1
  <2>4. daemon'[d] = "spawned" /\ \A e \in Daemons : e # d => daemon'[e] = daemon[e]
    BY <2>3, ThingsAre
  <2>5. pidFile = Nobody /\ sockFile = Nobody
    BY <2>1, Situated DEF Knows, Patient
  <2>6. \A e \in Daemons : Told(daemon', pidFile', sockFile', e)
    BY <2>1, <2>4, <2>5 DEF Told, Starting, Taking, Alive
  <2>7. \A e, f \in Daemons : Alive(e)' /\ Alive(f)' => e = f
    BY <2>1, <2>4 DEF Alive
  <2>8. Awaits(r) /\ Knows(r, daemon', pidFile', sockFile')
    BY <2>2 DEF Awaits, Patient, Knows
  <2>9. QED
    BY <2>1, <2>6, <2>7, <2>8, Situated, ClientOrdered
<1>5. CASE Started(c) \/ Errs(c)
  BY <1>3, <1>5 DEF Started, Errs
<1>6. CASE AnswerStopped(c)
  BY <1>2, <1>3, <1>6 DEF AnswerStopped, Proper
<1>7. CASE AskToStop(c)
  <2>1. CASE Listening(sockFile)
    <3> DEFINE r == [client[c] EXCEPT !.at = "probe", !.phase = "waiting"]
    <3>1. /\ orderly /\ q.op = "stop" /\ q.at = "found" /\ client' = [client EXCEPT ![c] = r]
          /\ UNCHANGED <<pidFile, sockFile>> /\ daemon' = [daemon EXCEPT ![sockFile] = "asked"]
      BY <1>1, <1>7, <2>1 DEF AskToStop, Waits, files
    <3>2. r.op = "stop" /\ r.at = "probe"
      BY <1>2, <3>1 DEF ClientRecords
    <3> HIDE DEF r
    <3>3. /\ sockFile \in Daemons /\ Taking(daemon, sockFile) /\ daemon'[sockFile] = "asked"
          /\ \A e \in Daemons : e # sockFile => daemon'[e] = daemon[e]
      BY <2>1, <3>1, ThingsAre DEF Listening, Taking
    <3>4. /\ \A e \in Clients : e # c => client[e].at = "idle"
          /\ \A d \in Daemons : Told(daemon, pidFile, sockFile, d) /\ Settled(daemon, pidFile, d)
          /\ \A d, e \in Daemons : Alive(d) /\ Alive(e) => d = e
      BY <3>1, Situated DEF Awaits, Patient
    <3>5. \A d \in Daemons : Told(daemon', pidFile', sockFile', d)
      BY <3>1, <3>3, <3>4 DEF Told, Starting, Taking
    <3>6. \A d \in Daemons : Settled(daemon', pidFile', d)
      BY <3>1, <3>3, <3>4 DEF Settled, Starting, Stopping
    <3>7. \A d, e \in Daemons : Alive(d)' /\ Alive(e)' => d = e
      BY <3>3, <3>4 DEF Alive, Taking
    <3>8. Knows(r, daemon', pidFile', sockFile')
      BY <3>2 DEF Knows, Patient
    <3>9. QED
      BY <3>1, <3>4, <3>5, <3>6, <3>7, <3>8, ClientOrdered
  <2>2. CASE ~Listening(sockFile)
    BY <1>3, <1>7, <2>2 DEF AskToStop
  <2>3. QED
    BY <2>1, <2>2
<1>8. CASE GiveUp(c) \/ HangUp(c)
  BY <1>1, <1>8 DEF GiveUp, HangUp
<1>9. ASSUME NEW to, to \in Busy, q.op = "work", q.at # "idle", orderly,
             client' = [client EXCEPT ![c].at = to], UNCHANGED <<daemon, pidFile, sockFile>>
      PROVE  OrderInv'
  <2> DEFINE r == [client[c] EXCEPT !.at = to]
  <2>1. client' = [client EXCEPT ![c] = r]
    BY <1>9
  <2>2. r.op = "work" /\ r.at = to
    BY <1>2, <1>9 DEF ClientRecords
  <2> HIDE DEF r
  <2>3. Knows(r, daemon, pidFile, sockFile) /\ ~Awaits(q)
    BY <1>9, <2>2 DEF Knows, Patient, Busy, Awaits
  <2>4. QED
    BY <1>9, <2>1, <2>3, LookOrdered
<1>10. CASE Proxy(c)
  BY <1>1, <1>3, <1>9, <1>10 DEF Proxy, Busy, files
<1>11. CASE OpenHere(c)
  BY <1>1, <1>3, <1>9, <1>11 DEF OpenHere, Busy, files
<1>12. CASE CloseHere(c)
  <2>1. q.op = "work" /\ q.at = "local"
    BY <1>2, <1>12 DEF CloseHere, Proper, Busy
  <2>2. QED
    BY <1>12, <2>1, EndsOrdered DEF CloseHere, Awaits, Patient
<1>13. QED
  BY <1>4, <1>5, <1>6, <1>7, <1>8, <1>10, <1>11, <1>12

\* A daemon goes on; commands it served may end with it.
LEMMA DaemonOrdered ==
  ASSUME HoldInv, OrderInv, orderly, NEW d \in Daemons, NEW to, daemon' = [daemon EXCEPT ![d] = to],
         Alive(d),
         to \in {"opened", "unlinked", "written"} => Starting(daemon, d), to # "spawned",
         to \in {"listening", "asked"} => Starting(daemon, d) \/ Taking(daemon, d),
         to = "closing" => Starting(daemon, d) \/ (pidFile' = d /\ (Taking(daemon, d) \/ Stopping(daemon, d))),
         pidFile' \in {pidFile, Nobody} \/ Starting(daemon, d),
         sockFile' \in {sockFile, Nobody} \/ Starting(daemon, d),
         Told(daemon', pidFile', sockFile', d),
         \A c \in Clients : client'[c] = client[c] \/ (client'[c] = AtRest /\ ~Awaits(client[c]))
  PROVE  OrderInv'
<1>1. daemon'[d] = to /\ \A e \in Daemons : e # d => daemon'[e] = daemon[e]
  BY ThingsAre
<1>2. \A e \in Daemons : e # d => ~Alive(e)
  BY DEF OrderInv
<1>3. \A e \in Daemons : e # d => ~Starting(daemon', e) /\ ~Taking(daemon', e) /\ ~Stopping(daemon', e)
  BY <1>1, <1>2 DEF Alive, Starting, Taking, Stopping
<1>4. \A e \in Daemons : Told(daemon', pidFile', sockFile', e)
  BY <1>3 DEF Told, Starting, Taking
<1>5. \A e, f \in Daemons : Alive(e)' /\ Alive(f)' => e = f
  BY <1>1, <1>2 DEF Alive
<1>6. /\ Starting(daemon', d) => Starting(daemon, d)
      /\ Taking(daemon', d) => Starting(daemon, d) \/ Taking(daemon, d)
      /\ Stopping(daemon', d) => Starting(daemon, d) \/ (pidFile' = d /\ (Taking(daemon, d) \/ Stopping(daemon, d)))
  BY <1>1 DEF Starting, Taking, Stopping
<1>7. \A c, e \in Clients : client'[c].at # "idle" /\ client'[e].at # "idle" => c = e
  BY RestIs DEF OrderInv
<1>8. \A c \in Clients : Awaits(client[c]) => Awaits(client'[c])
  OBVIOUS
<1>9. (\E c \in Clients : Awaits(client'[c])) \/ \A e \in Daemons : Settled(daemon', pidFile', e)
  <2>1. CASE \E c \in Clients : Awaits(client[c])
    BY <1>8, <2>1
  <2>2. CASE ~\E c \in Clients : Awaits(client[c])
    BY <1>3, <1>6, <2>2 DEF OrderInv, Settled
  <2>3. QED
    BY <2>1, <2>2
<1>10. ASSUME NEW c \in Clients PROVE Knows(client'[c], daemon', pidFile', sockFile')
  <2> DEFINE q == client[c]
  <2>1. CASE client'[c] = AtRest
    BY <2>1, RestIs DEF Knows, Patient
  <2>2. CASE client'[c] = q /\ q.at = "idle"
    BY <2>2 DEF Knows
  <2>3. CASE client'[c] = q /\ q.at # "idle"
    <3>1. Knows(q, daemon, pidFile, sockFile) /\ (Awaits(q) \/ Settled(daemon, pidFile, d))
      BY <2>3, Situated
    <3>2. CASE Patient(q)
      BY <1>3, <1>6, <2>3, <3>1, <3>2 DEF Knows
    <3>3. CASE ~Patient(q)
      <4>1. ~Starting(daemon, d)
        BY <3>1, <3>3 DEF Awaits, Settled
      <4>2. Over(daemon) => Over(daemon')
        BY <1>3, <1>6 DEF Over
      <4>3. QED
        BY <1>3, <1>6, <2>3, <3>1, <3>3, <4>1, <4>2 DEF Knows
    <3>4. QED
      BY <3>2, <3>3
  <2>4. QED
    BY <2>1, <2>2, <2>3
<1>11. QED
  BY <1>4, <1>5, <1>7, <1>9, <1>10 DEF OrderInv

\* Every step of a daemon.
LEMMA DaemonStepsOrdered ==
  ASSUME HoldInv, OrderInv, NEW d \in Daemons,
         \/ Open(d) \/ RemoveSocket(d) \/ WritePid(d) \/ Listen(d) \/ StartFails(d)
         \/ ShutDown(d, "asked") \/ ShutDown(d, "listening") \/ Release(d) \/ RemoveOwnPid(d) \/ Exit(d)
         \/ DaemonDies(d)
  PROVE  OrderInv'
<1>1. SUFFICES ASSUME orderly' PROVE OrderInv'
  BY DEF OrderInv
<1>2. orderly /\ Alive(d)
  BY <1>1 DEF Open, RemoveSocket, WritePid, Listen, StartFails, ShutDown, Release, RemoveOwnPid, Exit,
     DaemonDies, Process, Alive
<1>3. Told(daemon, pidFile, sockFile, d)
  BY <1>2 DEF OrderInv
<1>4. \A to : daemon' = [daemon EXCEPT ![d] = to] => daemon'[d] = to
  BY ThingsAre
<1>5. CASE Open(d) \/ RemoveSocket(d) \/ WritePid(d) \/ Listen(d)
  <2>1. PICK to \in {"opened", "dead", "unlinked", "written", "listening"} :
          /\ daemon' = [daemon EXCEPT ![d] = to] /\ UNCHANGED client
          /\ Starting(daemon, d)
          /\ to = "opened" => daemon[d] = "spawned" /\ UNCHANGED files
          /\ to = "unlinked" => daemon[d] = "opened" /\ sockFile' = Nobody /\ UNCHANGED pidFile
          /\ to = "written" => daemon[d] = "unlinked" /\ pidFile' = d /\ UNCHANGED sockFile
          /\ to = "listening" => daemon[d] = "written" /\ sockFile' = d /\ UNCHANGED pidFile
    BY <1>5 DEF Open, RemoveSocket, WritePid, Listen, Process, Starting
  <2>2. Told(daemon', pidFile', sockFile', d)
    BY <1>3, <1>4, <2>1 DEF Told, Starting, Taking, files
  <2>3. QED
    BY <1>2, <2>1, <2>2, DaemonOrdered
<1>6. CASE StartFails(d) \/ ShutDown(d, "asked") \/ ShutDown(d, "listening")
  <2>1. /\ daemon' = [daemon EXCEPT ![d] = "closing"] /\ UNCHANGED <<client, pidFile>>
        /\ (Starting(daemon, d) \/ Taking(daemon, d)) /\ sockFile' \in {sockFile, Nobody}
    BY <1>6 DEF StartFails, ShutDown, Process, Starting, Taking, files
  <2>2. Told(daemon', pidFile', sockFile', d)
    BY <1>4, <2>1 DEF Told, Starting, Taking
  <2>3. Taking(daemon, d) => pidFile' = d
    BY <1>3, <2>1 DEF Told
  <2>4. QED
    BY <1>2, <2>1, <2>2, <2>3, DaemonOrdered
<1>7. CASE Release(d) \/ RemoveOwnPid(d) \/ Exit(d) \/ DaemonDies(d)
  <2>1. PICK to \in {"released", "unwritten", "dead"} :
          /\ daemon' = [daemon EXCEPT ![d] = to]
          /\ pidFile' \in {pidFile, Nobody} /\ sockFile' \in {sockFile, Nobody}
    BY <1>7 DEF Release, RemoveOwnPid, Exit, DaemonDies, Process, files
  <2>2. Told(daemon', pidFile', sockFile', d)
    BY <1>4, <2>1 DEF Told, Starting, Taking
  <2>3. ASSUME NEW c \in Clients
        PROVE  client'[c] = client[c] \/ (client'[c] = AtRest /\ ~Awaits(client[c]))
    <3>1. CASE DaemonDies(d)
      <4>1. c \in serving[d] => client[c].op = "work"
        BY ThingsAre DEF HoldInv, Served, Proper, Busy
      <4>2. QED
        BY <3>1, <4>1 DEF DaemonDies, Awaits, Patient
    <3>2. CASE ~DaemonDies(d)
      BY <1>7, <3>2 DEF Release, RemoveOwnPid, Exit, Process
    <3>3. QED
      BY <3>1, <3>2
  <2>4. QED
    BY <1>2, <2>1, <2>2, <2>3, DaemonOrdered
<1>8. QED
  BY <1>5, <1>6, <1>7

LEMMA OrderStep == HoldInv /\ OrderInv /\ [DaemonNext]_daemonVars => OrderInv'
<1>1. ASSUME OrderInv, UNCHANGED daemonVars PROVE OrderInv'
  BY <1>1 DEF OrderInv, Alive, daemonVars, files
<1>2. ASSUME HoldInv, OrderInv, NEW d \in Daemons, NEW c \in Clients, CommandEnds(d, c) PROVE OrderInv'
  <2>1. client[c].at = "proxied" /\ client[c].op = "work"
    BY <1>2, ThingsAre DEF CommandEnds, HoldInv, Served, Proper, Busy
  <2>2. QED
    BY <1>2, <2>1, EndsOrdered DEF CommandEnds, Awaits, Patient
<1>3. QED
  BY <1>1, <1>2, DaemonStepsOrdered, LooksOrdered, ProbeOrdered, DoingOrdered
  DEF DaemonNext, DaemonStep, ClientStep

LEMMA CommandsInOrder == DaemonSpec => [](HoldInv /\ OrderInv)
<1>1. ASSUME DaemonInit PROVE OrderInv
  <2>1. \A c \in Clients : client[c] = AtRest
    BY <1>1 DEF DaemonInit
  <2>2. \A d \in Daemons : daemon[d] = "none"
    BY <1>1 DEF DaemonInit
  <2>3. \A d \in Daemons : Told(daemon, pidFile, sockFile, d) /\ Settled(daemon, pidFile, d)
    BY <2>2 DEF Told, Settled, Starting, Taking, Stopping
  <2>4. Knows(AtRest, daemon, pidFile, sockFile)
    BY RestIs DEF Knows, Patient
  <2>5. QED
    BY <2>1, <2>2, <2>3, <2>4, RestIs DEF OrderInv, Alive
<1>2. DaemonInit => OrderInv
  BY <1>1
<1>3. QED
  BY <1>2, OrderStep, StorageHeld, PTL DEF DaemonSpec

\* "stopped" is true, to those who give their commands in order.
THEOREM StoppedIsStopped == DaemonSpec => []StopMeansStopped
<1>1. ASSUME HoldInv, OrderInv PROVE StopMeansStopped
  <2>1. SUFFICES ASSUME orderly, NEW c \in Clients, client[c].at = "stopped", NEW d \in Daemons
                 PROVE  daemon[d] \in {"none", "released", "unwritten", "dead"}
    BY DEF StopMeansStopped
  <2>2. Over(daemon)
    BY <1>1, <2>1, ThingsAre DEF OrderInv, Knows, Patient, Proper
  <2>3. daemon[d] \in DaemonStages
    BY <1>1, ThingsAre
  <2>4. QED
    BY <2>2, <2>3 DEF Over, Starting, Taking, Stopping, DaemonStages
<1>2. QED
  BY <1>1, CommandsInOrder, PTL

\* A daemon that listens is named by the pid file, under the same condition.
THEOREM ListenersAreNamed == DaemonSpec => []ListenersAreKnown
<1>1. ASSUME OrderInv PROVE ListenersAreKnown
  BY <1>1 DEF OrderInv, Told, Taking, Listening, ListenersAreKnown
<1>2. QED
  BY <1>1, CommandsInOrder, PTL
=============================================================================
