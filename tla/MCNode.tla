------------------------------- MODULE MCNode -------------------------------
(***************************************************************************)
(* A node's processes and its connections, checked together by TLC: the    *)
(* daemons and commands of one data directory, the sockets of one daemon,  *)
(* its discovery watcher, and its requests to the wallet.  Each module has *)
(* in full what it uses of the others (that sessions come and go, that the *)
(* daemon stops), so that a behaviour follows one of them.                 *)
(***************************************************************************)
EXTENDS Daemon, Sessions, Discovery, WalletClient

VARIABLE family  \* the module the behaviour follows

nodeVars == <<family, daemonVars, sessionVars, discoveryVars, clientVars>>

Families == {"daemon", "sessions", "discovery", "client"}

\* What a behaviour does not follow begins in one way only.
Init ==
  /\ DaemonInit /\ SessionsInit /\ DiscoveryInit /\ ClientInit
  /\ family \in Families
  /\ family # "client" => \A b \in Bills : bill[b].msats = CHOOSE m \in Msats : TRUE

\* Bound of the instance: only one peer fills its feed.
OneLongFeed ==
  \A a \in Peers \ {CHOOSE b \in Peers : TRUE} : feed[a].there < MaxLength

Next ==
  \/ /\ family = "daemon" /\ DaemonNext
     /\ UNCHANGED <<family, sessionVars, discoveryVars, clientVars>>
  \/ /\ family = "sessions" /\ SessionsNext
     /\ UNCHANGED <<family, daemonVars, discoveryVars, clientVars>>
  \/ /\ family = "discovery" /\ DiscoveryNext /\ OneLongFeed'
     /\ UNCHANGED <<family, daemonVars, sessionVars, clientVars>>
  \/ /\ family = "client" /\ ClientNext
     /\ UNCHANGED <<family, daemonVars, sessionVars, discoveryVars>>

\* In a behaviour of another module there are no daemons, sockets and requests
\* that could do a step, and the watcher's walks are not asked for one.
Fairness ==
  /\ DaemonFairness /\ SessionsFairness /\ ClientFairness
  /\ \A w \in Walks : WF_discoveryVars(family = "discovery" /\ StepWalk(w))

Spec == Init /\ [][Next]_nodeVars /\ Fairness

\* Processes, files, commands, sockets, walks and requests are in one of their
\* states.
NodeTypeOK ==
  CASE family = "daemon" -> DaemonTypeOK
    [] family = "sessions" -> SessionsTypeOK
    [] family = "discovery" -> DiscoveryTypeOK
    [] family = "client" -> ClientTypeOK
=============================================================================
