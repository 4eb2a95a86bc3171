------------------------------- MODULE Daemon -------------------------------
(***************************************************************************)
(* The daemons of one data directory and the commands of the CLI that find *)
(* them: daemon.ts and the daemon commands of cli.ts.                      *)
(*                                                                         *)
(* A running daemon holds the storage of the directory, and leaves two     *)
(* files there: its pid and its socket.  Every command first probes: it    *)
(* reads the pid, asks for a status over the socket, and when that fails   *)
(* looks whether the process lives; if not, it removes both files.  The    *)
(* files, the socket and the process are looked at one after the other     *)
(* while daemons come and go.                                              *)
(***************************************************************************)
EXTENDS Naturals

CONSTANTS
  MaxClients,            \* commands that can be running at the same time
  MaxDaemons,            \* daemon processes
  MaxGiven, MaxFailures   \* bounds of the model

ASSUME DaemonConstants ==
  /\ MaxClients \in Nat /\ MaxDaemons \in Nat
  /\ MaxGiven \in Nat /\ MaxFailures \in Nat

Daemons == 1..MaxDaemons  \* numbered in the order they are started in
Clients == 1..MaxClients  \* a command takes the first place that is free
Nobody  == 0
ACommand == MaxDaemons + 1  \* who has the storage open when no daemon does

VARIABLES
  pidFile, sockFile,  \* the daemon each file names, or Nobody
  storage,            \* the process that has the storage open
  daemon,             \* daemon[d]: how far process d is
  serving,            \* serving[d]: the connected clients d runs a command for
  client,             \* what each command is doing
  orderly,            \* commands came one by one, none timed out, and each
                      \* daemon was started after the one before had exited (history)
  given, failures

files == <<pidFile, sockFile>>
daemonVars == <<files, storage, daemon, serving, client, orderly, given, failures>>

Ops == {"start", "stop", "work"}

DaemonStages ==
  {"none", "spawned", "opened", "unlinked", "written", "listening", "asked", "closing",
   "released", "unwritten", "dead"}

ClientStages ==
  {"idle", "probe", "stat", "connect", "refused", "rmPid", "rmSock", "nothing", "found", "threw",
   "proxied", "local", "stopped"}

AtRest == [at |-> "idle", op |-> "start", pid |-> Nobody, phase |-> "first"]

DaemonInit ==
  /\ pidFile = Nobody /\ sockFile = Nobody /\ storage = Nobody
  /\ daemon = [d \in Daemons |-> "none"]
  /\ serving = [d \in Daemons |-> {}]
  /\ client = [c \in Clients |-> AtRest]
  /\ orderly = TRUE
  /\ given = 0 /\ failures = 0

Alive(d) == daemon[d] \notin {"none", "dead"}

Listening(d) == d # Nobody /\ daemon[d] \in {"listening", "asked"}

-----------------------------------------------------------------------------
(* A daemon process: handleDaemonRun and AgentDaemon.                        *)

Process(d, from, to) ==
  /\ daemon[d] = from
  /\ daemon' = [daemon EXCEPT ![d] = to]
  /\ UNCHANGED <<client, orderly, given, failures>>

\* The storage is locked for one process; a second daemon ends here, before
\* it touches any file.
Open(d) ==
  /\ IF storage = Nobody THEN Process(d, "spawned", "opened") /\ storage' = d
                         ELSE Process(d, "spawned", "dead") /\ UNCHANGED storage
  /\ UNCHANGED <<files, serving>>

\* start: remove an old socket, write the pid, listen.
RemoveSocket(d) ==
  /\ Process(d, "opened", "unlinked")
  /\ sockFile' = Nobody
  /\ UNCHANGED <<pidFile, storage, serving>>

WritePid(d) ==
  /\ Process(d, "unlinked", "written")
  /\ pidFile' = d
  /\ UNCHANGED <<sockFile, storage, serving>>

Listen(d) ==
  /\ Process(d, "written", "listening")
  /\ sockFile' = d
  /\ UNCHANGED <<pidFile, storage, serving>>

\* A step of start fails (a directory, a file, the address): the daemon stops.
StartFails(d) ==
  /\ daemon[d] \in {"opened", "unlinked", "written"}
  /\ failures < MaxFailures
  /\ failures' = failures + 1
  /\ daemon' = [daemon EXCEPT ![d] = "closing"]
  /\ UNCHANGED <<files, storage, serving, client, orderly, given>>

\* A signal, or a stop request: stop closes the server, which unlinks its path.
ShutDown(d, from) ==
  /\ Process(d, from, "closing")
  /\ sockFile' = Nobody
  /\ UNCHANGED <<pidFile, storage, serving>>

\* Faulty variant: the connection stays open after the answer.
CommandEnds_KeepsOpen(d, c) ==
  /\ c \in serving[d]
  /\ client[c].at = "proxied"
  /\ client' = [client EXCEPT ![c] = AtRest]
  /\ UNCHANGED <<files, storage, daemon, serving, orderly, given, failures>>

\* A command runs to its end, and its client has the answer.
CommandEnds(d, c) ==
  /\ c \in serving[d]
  /\ serving' = [serving EXCEPT ![d] = @ \ {c}]
  /\ client' = [client EXCEPT ![c] = AtRest]
  /\ UNCHANGED <<files, storage, daemon, orderly, given, failures>>

\* Faulty variant: the repository is closed without waiting for the server.
Release_AtOnce(d) ==
  /\ Process(d, "closing", "released")
  /\ storage' = Nobody
  /\ UNCHANGED <<files, serving>>

\* The server is closed once no client is connected; onShutdown closes the
\* repository, the wallet and the transport.
Release(d) ==
  /\ serving[d] = {}
  /\ Process(d, "closing", "released")
  /\ storage' = Nobody
  /\ UNCHANGED <<files, serving>>

\* cleanupStaleDaemonArtifacts, whosever files they are by now.
RemoveOwnPid(d) ==
  /\ Process(d, "released", "unwritten")
  /\ pidFile' = Nobody
  /\ UNCHANGED <<sockFile, storage, serving>>

Exit(d) ==
  /\ Process(d, "unwritten", "dead")
  /\ sockFile' = Nobody
  /\ UNCHANGED <<pidFile, storage, serving>>

\* A daemon dies: its files stay, and its clients get an error.
DaemonDies(d) ==
  /\ Alive(d)
  /\ failures < MaxFailures
  /\ failures' = failures + 1
  /\ daemon' = [daemon EXCEPT ![d] = "dead"]
  /\ storage' = IF storage = d THEN Nobody ELSE storage
  /\ client' = [c \in Clients |-> IF c \in serving[d] THEN AtRest ELSE client[c]]
  /\ serving' = [serving EXCEPT ![d] = {}]
  /\ UNCHANGED <<files, orderly, given>>

-----------------------------------------------------------------------------
(* A command of the CLI: the probe.                                          *)

Client(c, from, to) ==
  /\ client[c].at = from
  /\ client' = [client EXCEPT ![c].at = to, ![c].pid = Nobody]
  /\ UNCHANGED <<storage, daemon, serving, orderly, given, failures>>

Give(c, op) ==
  /\ client[c].at = "idle" /\ \A e \in 1..(c - 1) : client[e].at # "idle"
  /\ given < MaxGiven
  /\ given' = given + 1
  /\ orderly' = (orderly /\ \A e \in Clients : client[e].at = "idle")
  /\ client' = [client EXCEPT ![c] = [AtRest EXCEPT !.op = op, !.at = "probe"]]
  /\ UNCHANGED <<files, storage, daemon, serving, failures>>

ReadPid(c) ==
  /\ client[c].at = "probe"
  /\ client' = [client EXCEPT ![c].pid = pidFile,
                              ![c].at = IF pidFile = Nobody THEN "stat" ELSE "connect"]
  /\ UNCHANGED <<files, storage, daemon, serving, orderly, given, failures>>

Stat(c) == Client(c, "stat", IF sockFile = Nobody THEN "nothing" ELSE "connect") /\ UNCHANGED files

Refused(c) ==
  /\ client[c].at = "connect"
  /\ client' = [client EXCEPT ![c].at = "refused"]
  /\ UNCHANGED <<storage, daemon, serving, given, failures>>

\* The status request is answered, or nobody listens, or it times out.
Status(c) ==
  /\ \/ Listening(sockFile) /\ Client(c, "connect", "found")
     \/ ~Listening(sockFile) /\ Refused(c) /\ UNCHANGED orderly
  /\ UNCHANGED files

StatusTimesOut(c) ==
  /\ Listening(sockFile)
  /\ Refused(c)
  /\ orderly' = FALSE
  /\ UNCHANGED files

\* Faulty variant: a daemon that does not answer is taken for dead.
Verdict_AnyRefusal(c) == Client(c, "refused", "rmPid") /\ UNCHANGED files

\* No answer: "running but not responding" while the pid read is of a living
\* process, otherwise the files are stale.
Verdict(c) ==
  /\ Client(c, "refused",
       IF client[c].pid # Nobody /\ Alive(client[c].pid) THEN "threw" ELSE "rmPid")
  /\ UNCHANGED files

RemoveStalePid(c) ==
  /\ Client(c, "rmPid", "rmSock")
  /\ pidFile' = Nobody
  /\ UNCHANGED sockFile

RemoveStaleSocket(c) ==
  /\ Client(c, "rmSock", IF client[c].phase = "cleaning" THEN "stopped" ELSE "nothing")
  /\ sockFile' = Nobody
  /\ UNCHANGED pidFile

-----------------------------------------------------------------------------
(* What the command does with what the probe found.                          *)

Ends(c) ==
  /\ client' = [client EXCEPT ![c] = AtRest]
  /\ UNCHANGED <<files, storage, given, failures>>

\* The command waits for a daemon to come up, or to go: it probes again.
Waits(c) == client' = [client EXCEPT ![c].at = "probe", ![c].phase = "waiting"]

\* daemon start: nothing there, so a daemon is spawned and waited for.
Spawn(c) ==
  /\ client[c].op = "start" /\ client[c].at = "nothing" /\ client[c].phase = "first"
  /\ \E d \in Daemons :
       /\ daemon[d] = "none" /\ \A e \in 1..(d - 1) : daemon[e] # "none"
       /\ daemon' = [daemon EXCEPT ![d] = "spawned"]
  /\ orderly' = (orderly /\ \A d \in Daemons : ~Alive(d))
  /\ Waits(c)
  /\ UNCHANGED <<files, storage, serving, given, failures>>

\* daemon start is done; a first probe that throws ends any command.
Started(c) ==
  /\ client[c].op = "start" /\ client[c].at = "found"
  /\ Ends(c)
  /\ UNCHANGED <<daemon, serving, orderly>>

Errs(c) ==
  /\ client[c].at = "threw" /\ client[c].phase = "first"
  /\ Ends(c)
  /\ UNCHANGED <<daemon, serving, orderly>>

\* daemon stop: nothing there, so the files are removed once more.
AlreadyStopped(c) ==
  /\ client[c].op = "stop" /\ client[c].phase = "first" /\ client[c].at = "nothing"
  /\ client' = [client EXCEPT ![c].at = "rmPid", ![c].phase = "cleaning"]
  /\ UNCHANGED <<files, storage, daemon, serving, orderly, given, failures>>

\* A daemon was there: it is asked to stop, answers, and is waited for.
AskToStop(c) ==
  /\ client[c].op = "stop" /\ client[c].phase = "first" /\ client[c].at = "found"
  /\ \/ /\ Listening(sockFile)
        /\ daemon' = [daemon EXCEPT ![sockFile] = "asked"]
        /\ Waits(c)
        /\ UNCHANGED <<files, storage, serving, orderly, given, failures>>
     \/ /\ ~Listening(sockFile)
        /\ Ends(c)
        /\ UNCHANGED <<daemon, serving, orderly>>

\* Faulty variant: an error while waiting is taken for the end of the daemon.
SeenToStop_OrThrew(c) ==
  /\ client[c].op = "stop" /\ client[c].phase = "waiting"
  /\ Client(c, "nothing", "stopped") \/ Client(c, "threw", "stopped")
  /\ UNCHANGED files

SeenToStop(c) ==
  /\ client[c].op = "stop" /\ client[c].phase = "waiting"
  /\ Client(c, "nothing", "stopped")
  /\ UNCHANGED files

\* It answers "stopped".
AnswerStopped(c) ==
  /\ client[c].at = "stopped"
  /\ Ends(c)
  /\ UNCHANGED <<daemon, serving, orderly>>

ProbeAgain(c) ==
  /\ client[c].phase = "waiting"
  /\ client[c].at \in (IF client[c].op = "start" THEN {"nothing", "threw"} ELSE {"found", "threw"})
  /\ Waits(c)
  /\ UNCHANGED <<files, storage, daemon, serving, orderly, given, failures>>

\* Until its deadline.
GiveUp(c) ==
  /\ client[c].phase = "waiting" /\ client[c].at = "probe"
  /\ Ends(c)
  /\ orderly' = FALSE
  /\ UNCHANGED <<daemon, serving>>

\* Any other command: the daemon runs it, or without one the client itself does.
Proxy(c) ==
  /\ client[c].op = "work" /\ client[c].at = "found"
  /\ \/ /\ Listening(sockFile)
        /\ serving' = [serving EXCEPT ![sockFile] = @ \cup {c}]
        /\ client' = [client EXCEPT ![c].at = "proxied"]
        /\ UNCHANGED <<files, storage, daemon, orderly, given, failures>>
     \/ /\ ~Listening(sockFile)
        /\ Ends(c)
        /\ UNCHANGED <<daemon, serving, orderly>>

\* The client's timeout: it hangs up.  The command runs on, but no connection
\* keeps the daemon from stopping under it.
HangUp(c) ==
  \E d \in Daemons :
    /\ c \in serving[d]
    /\ serving' = [serving EXCEPT ![d] = @ \ {c}]
    /\ client' = [client EXCEPT ![c] = AtRest]
    /\ orderly' = FALSE
    /\ UNCHANGED <<files, storage, daemon, given, failures>>

OpenHere(c) ==
  /\ client[c].op = "work" /\ client[c].at = "nothing"
  /\ \/ /\ storage = Nobody
        /\ storage' = ACommand
        /\ client' = [client EXCEPT ![c].at = "local"]
        /\ UNCHANGED <<files, daemon, serving, orderly, given, failures>>
     \/ /\ storage # Nobody
        /\ Ends(c)
        /\ UNCHANGED <<daemon, serving, orderly>>

CloseHere(c) ==
  /\ client[c].at = "local"
  /\ storage' = Nobody
  /\ client' = [client EXCEPT ![c] = AtRest]
  /\ UNCHANGED <<files, daemon, serving, orderly, given, failures>>

DaemonStep(d) ==
  \/ Open(d) \/ RemoveSocket(d) \/ WritePid(d) \/ Listen(d) \/ ShutDown(d, "asked")
  \/ Release(d) \/ RemoveOwnPid(d) \/ Exit(d)
  \/ \E c \in Clients : CommandEnds(d, c)

ClientStep(c) ==
  \/ \E op \in Ops : Give(c, op)
  \/ ReadPid(c) \/ Stat(c) \/ Status(c) \/ StatusTimesOut(c) \/ Verdict(c)
  \/ RemoveStalePid(c) \/ RemoveStaleSocket(c) \/ Spawn(c) \/ Started(c) \/ Errs(c) \/ AlreadyStopped(c)
  \/ AskToStop(c) \/ SeenToStop(c) \/ AnswerStopped(c) \/ ProbeAgain(c) \/ GiveUp(c)
  \/ Proxy(c) \/ HangUp(c) \/ OpenHere(c) \/ CloseHere(c)

DaemonNext ==
  \/ \E d \in Daemons : DaemonStep(d) \/ StartFails(d) \/ ShutDown(d, "listening") \/ DaemonDies(d)
  \/ \E c \in Clients : ClientStep(c)

\* A daemon goes on with what it has begun, and the commands it runs end
\* (module Repository, CommandsEnd; the wallet's requests have a timeout).
DaemonFairness == \A d \in Daemons : WF_daemonVars(DaemonStep(d))

DaemonSpec == DaemonInit /\ [][DaemonNext]_daemonVars /\ DaemonFairness

-----------------------------------------------------------------------------
(* Properties.                                                               *)

\* Files, processes and commands are in one of their states, and a command is
\* served only by a daemon that takes or finishes commands.
DaemonTypeOK ==
  /\ pidFile \in Daemons \cup {Nobody} /\ sockFile \in Daemons \cup {Nobody}
  /\ storage \in Daemons \cup {Nobody, ACommand}
  /\ daemon \in [Daemons -> DaemonStages]
  /\ client \in [Clients -> [at : ClientStages, op : Ops, pid : Daemons \cup {Nobody},
                             phase : {"first", "waiting", "cleaning"}]]
  /\ \A d \in Daemons :
       /\ serving[d] \subseteq Clients
       /\ serving[d] # {} => daemon[d] \in {"listening", "asked", "closing"}

\* A command somebody still waits for has the storage until its end: a daemon
\* that is told to stop, by request or signal and in whatever it is doing, does
\* not close the repository under it.  (A command whose client has hung up has
\* no such promise.)
CommandsFinishFirst == \A d \in Daemons : serving[d] # {} => storage = d

\* "stopped" is true: when daemon stop says so, no daemon runs or is about to,
\* though daemons may have crashed and left their files, or been signalled.
\* It is promised only to those who give commands one at a time, lose none to a
\* timeout, and start no daemon while another still removes its files: a probe
\* that overlaps with a starting daemon, or finds it too slow, may remove its
\* files, and so may the last step of its predecessor.
StopMeansStopped ==
  orderly => \A c \in Clients : client[c].at = "stopped" =>
    \A d \in Daemons : daemon[d] \in {"none", "released", "unwritten", "dead"}

\* Under the same condition a daemon that listens can be seen: the pid file
\* names it, so that no command takes its files for stale or opens the storage.
ListenersAreKnown ==
  orderly => \A d \in Daemons : Listening(d) => pidFile = d

\* A daemon that has begun to stop gives the storage back: it is never for ever
\* that one is stopping.
ShutdownEnds == []<>(\A d \in Daemons : daemon[d] \notin {"asked", "closing"})
=============================================================================
