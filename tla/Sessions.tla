------------------------------ MODULE Sessions ------------------------------
(***************************************************************************)
(* Sockets and peer sessions of one AgentTransport (transport.ts,          *)
(* handshake.ts): a socket is shaken hands on, its hello checked, the      *)
(* feeds it offers opened, and then the storage replicates over it and the *)
(* session table names it until it closes.  Each of these waits, and       *)
(* meanwhile sockets come and close and the transport is stopped.          *)
(*                                                                         *)
(* A DID document names one Noise key and one control feed (did.ts); here  *)
(* both are called by the agent whose they are.                            *)
(***************************************************************************)
EXTENDS Naturals

CONSTANTS
  Sockets,  \* connections, each made once
  Agents,   \* the agents at the other end
  Unknown   \* no agent, no socket

ASSUME SessionConstants == Unknown \notin Agents \cup Sockets

VARIABLES
  stage,     \* stage[s]: where handleSocket is with socket s
  key,       \* key[s]: the agent whose Noise key the socket has
  open,      \* open[s]: the socket has not closed
  written,   \* written[s]: the own hello has left the write buffer
  heard,     \* heard[s]: the hello of the other end, or how reading it ended
  session,   \* activePeerSessions: the socket whose session each DID has
  running,   \* "started", steps of stop, "stopped", or "died"
  closedEarly,  \* sockets that closed before their session began (history)
  shared     \* agents that have had two sockets at once            (history)

sessionVars == <<stage, key, open, written, heard, session, running, closedEarly, shared>>

Hellos == [did : Agents, feed : Agents]

Unheard == [did |-> Unknown, feed |-> Unknown]

HandlerStages == {"none", "handshake", "validate", "track", "session", "rejected"}
RunStages == {"started", "sockets", "swarm", "store", "stopped", "died"}

SessionsInit ==
  /\ stage = [s \in Sockets |-> "none"]
  /\ key = [s \in Sockets |-> Unknown]
  /\ open = [s \in Sockets |-> FALSE]
  /\ written = [s \in Sockets |-> FALSE]
  /\ heard = [s \in Sockets |-> [state |-> "waiting", hello |-> Unheard]]
  /\ session = [a \in Agents |-> Unknown]
  /\ running = "started"
  /\ closedEarly = {} /\ shared = {}

Up == running # "died"

\* The swarm takes connections until stop has destroyed it.
Accepting == running \in {"started", "sockets", "swarm"}

Stage(s, from, to) ==
  /\ Up
  /\ stage[s] = from
  /\ stage' = [stage EXCEPT ![s] = to]

\* A connection of agent a; the hello goes out at once if the buffer has room.
Connect(s, a) ==
  /\ Accepting
  /\ Stage(s, "none", "handshake")
  /\ key' = [key EXCEPT ![s] = a]
  /\ open' = [open EXCEPT ![s] = TRUE]
  /\ written' \in {[written EXCEPT ![s] = room] : room \in BOOLEAN}
  /\ shared' = IF \E e \in Sockets : open[e] /\ key[e] = a THEN shared \cup {a} ELSE shared
  /\ UNCHANGED <<heard, session, running, closedEarly>>

-----------------------------------------------------------------------------
(* The handshake: the hello is written while the other one is read.          *)

\* The other end reads, and the write buffer drains.
Drain(s) ==
  /\ Up /\ open[s] /\ ~written[s]
  /\ written' = [written EXCEPT ![s] = TRUE]
  /\ UNCHANGED <<stage, key, open, heard, session, running, closedEarly, shared>>

ReadEnds(s, result) ==
  /\ Up
  /\ stage[s] = "handshake" /\ heard[s].state = "waiting"
  /\ heard' = [heard EXCEPT ![s] = result]
  /\ UNCHANGED <<stage, key, open, written, session, closedEarly, shared>>

Hear(s, hello) ==
  /\ open[s]
  /\ ReadEnds(s, [state |-> "hello", hello |-> hello])
  /\ UNCHANGED running

\* The socket has closed, the frame is no hello, or the time is over.  Nobody
\* waits for the read while the hello is being written: its rejection goes
\* unhandled, and that ends the process.
ReadFails(s) ==
  /\ ReadEnds(s, [state |-> "failed", hello |-> Unheard])
  /\ running' = IF written[s] THEN running ELSE "died"

ShakenHands(s) ==
  /\ written[s] /\ heard[s].state = "hello"
  /\ Stage(s, "handshake", "validate")
  /\ UNCHANGED <<key, open, written, heard, session, running, closedEarly, shared>>

\* handleSocket's catch: the socket is destroyed.
Reject(s, from) ==
  /\ Stage(s, from, "rejected")
  /\ open' = [open EXCEPT ![s] = FALSE]
  /\ UNCHANGED <<key, written, heard, session, running, closedEarly, shared>>

\* Faulty variant: the failure of the handshake is only logged.
HandshakeFails_Logged(s) ==
  /\ written[s] /\ heard[s].state = "failed"
  /\ Stage(s, "handshake", "rejected")
  /\ UNCHANGED <<key, open, written, heard, session, running, closedEarly, shared>>

HandshakeFails(s) == written[s] /\ heard[s].state = "failed" /\ Reject(s, "handshake")

\* Faulty variant: the DID need not be that of the socket's key.
Genuine_AnyKey(s) == heard[s].hello.did = heard[s].hello.feed

\* validateRemoteHello: the DID's document has the socket's key and the
\* control feed the hello advertises.
Genuine(s) == heard[s].hello.did = key[s] /\ heard[s].hello.did = heard[s].hello.feed

Validate(s) ==
  \/ /\ Genuine(s)
     /\ Stage(s, "validate", "track")
     /\ UNCHANGED <<key, open, written, heard, session, running, closedEarly, shared>>
  \/ ~Genuine(s) /\ Reject(s, "validate")

\* trackRemoteDescriptors is done: replication starts and the session is listed,
\* whatever has become of the socket.
BeginSession(s) ==
  /\ running \notin {"store", "stopped"}
  /\ Stage(s, "track", "session")
  /\ session' = [session EXCEPT ![heard[s].hello.did] = s]
  /\ UNCHANGED <<key, open, written, heard, running, closedEarly, shared>>

\* A feed cannot be opened, as when the store is closed.
TrackFails(s) == Reject(s, "track")

\* Faulty variant: the session stays in the table.
Forget_Never(s, table) == table

\* The close listener of a session takes the DID's session out of the table.
Forget(s, table) ==
  IF stage[s] = "session" THEN [table EXCEPT ![heard[s].hello.did] = Unknown] ELSE table

\* The other end or the network closes the socket.
Close(s) ==
  /\ Up /\ open[s]
  /\ open' = [open EXCEPT ![s] = FALSE]
  /\ session' = Forget(s, session)
  /\ closedEarly' = IF stage[s] = "session" THEN closedEarly ELSE closedEarly \cup {s}
  /\ UNCHANGED <<stage, key, written, heard, running, shared>>

-----------------------------------------------------------------------------
(* stop.                                                                     *)

\* The sockets in ss are destroyed.
CloseAll(ss) ==
  /\ open' = [s \in Sockets |-> open[s] /\ s \notin ss]
  /\ session' = [a \in Agents |->
       IF \E s \in ss : open[s] /\ stage[s] = "session" /\ heard[s].hello.did = a
         THEN Unknown ELSE session[a]]
  /\ closedEarly' = closedEarly \cup {s \in ss : open[s] /\ stage[s] # "session"}
  /\ UNCHANGED <<stage, key, written, heard, shared>>

\* Topics are left one by one, with awaits; then the sockets are destroyed.
StopBegins ==
  /\ running = "started"
  /\ running' = "sockets"
  /\ UNCHANGED <<stage, key, open, written, heard, session, closedEarly, shared>>

StopSockets ==
  /\ running = "sockets"
  /\ running' = "swarm"
  /\ CloseAll({s \in Sockets : open[s]})

\* Faulty variant: the swarm is left to close its connections in its own time.
StopSwarm_LeavesSockets ==
  /\ running = "swarm"
  /\ running' = "store"
  /\ CloseAll({})

\* swarm.destroy closes what has connected in the meantime.
StopSwarm ==
  /\ running = "swarm"
  /\ running' = "store"
  /\ CloseAll({s \in Sockets : open[s]})

StopStore ==
  /\ running = "store"
  /\ running' = "stopped"
  /\ UNCHANGED <<stage, key, open, written, heard, session, closedEarly, shared>>

\* What the process itself does with a socket.
Handle(s) ==
  \/ ReadFails(s) \/ ShakenHands(s) \/ HandshakeFails(s) \/ Validate(s) \/ BeginSession(s)
  \/ TrackFails(s)

SessionsNext ==
  \/ \E s \in Sockets :
       \/ \E a \in Agents : Connect(s, a)
       \/ \E h \in Hellos : Hear(s, h)
       \/ Drain(s) \/ Handle(s) \/ Close(s)
  \/ StopBegins \/ StopSockets \/ StopSwarm \/ StopStore

\* Timers fire, and feeds are opened or fail to.
SessionsFairness == \A s \in Sockets : WF_sessionVars(Handle(s))

SessionsSpec == SessionsInit /\ [][SessionsNext]_sessionVars /\ SessionsFairness

-----------------------------------------------------------------------------
(* Properties.                                                               *)

\* Every socket is at one place in handleSocket, and the table names sockets.
SessionsTypeOK ==
  /\ stage \in [Sockets -> HandlerStages]
  /\ key \in [Sockets -> Agents \cup {Unknown}]
  /\ open \in [Sockets -> BOOLEAN] /\ written \in [Sockets -> BOOLEAN]
  /\ session \in [Agents -> Sockets \cup {Unknown}]
  /\ running \in RunStages

\* A session listed under a DID is over a socket of that agent's own key, and
\* has that agent's control feed.
SessionsAreAuthentic ==
  \A a \in Agents : session[a] # Unknown =>
    key[session[a]] = a /\ heard[session[a]].hello.feed = a

\* The table tells who is connected.  A listed session is over an open socket,
\* unless that closed while the handshake still had steps to go; and an open
\* session is listed, unless the agent has had two sockets at once.  (These are
\* the two cases in which the code gets the table wrong.)
TableFollowsSockets ==
  /\ \A a \in Agents : session[a] # Unknown =>
       open[session[a]] \/ session[a] \in closedEarly
  /\ \A s \in Sockets : open[s] /\ stage[s] = "session" =>
       session[key[s]] # Unknown \/ key[s] \in shared

\* A stopped transport has closed every socket, those that came in while it was
\* stopping too.
StopClosesAll == running = "stopped" => \A s \in Sockets : ~open[s]

\* No open socket waits for ever: once the own hello is written it becomes a
\* session or is closed, whatever the other end does, unless the process dies
\* first.  (Nothing bounds the writing itself.)
HandshakesEnd ==
  []<>(running = "died" \/
       \A s \in Sockets : open[s] /\ written[s] => stage[s] = "session")
=============================================================================
