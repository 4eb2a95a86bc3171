----------------------------- MODULE Repository -----------------------------
(***************************************************************************)
(* The protocol repository (protocol/repository.ts) of one data directory  *)
(* and the commands that write to it (appendEnvelope of cli.ts).           *)
(*                                                                         *)
(* Each protocol object has an append-only log (a Hypercore).  Seven       *)
(* Hyperbee indexes and one in-memory snapshot are projections of it.  A   *)
(* command reads the state index, signs an event that names the latest     *)
(* event, applies it to the snapshot, and only then makes it durable: log, *)
(* catalog, state, the five views, one await after another.  The daemon    *)
(* runs many commands at once over one repository, so their awaits         *)
(* interleave; any of them can reject, and the process can die at any one. *)
(*                                                                         *)
(* An event stands for the state it produces: the reducers are functions   *)
(* of the previous state and the event.  Of the state the model keeps what *)
(* the repository looks at, whether its status is one the market shows.    *)
(***************************************************************************)
EXTENDS Naturals, Sequences, FiniteSets

CONSTANTS
  Objects,       \* protocol objects, each with a log of its own
  Commands,      \* commands that can be running at the same time
  Scope,         \* Scope[v]: the objects whose state belongs in view v
  Companies,     \* the objects of kind "company"
  Messages,      \* the objects of kind "message" (closed: deleted)
  Origin,        \* Origin[o]: the objects o's creation event refers to
  OriginStatus,  \* OriginStatus[o]: the status that event requires of them
  CatalogRank,   \* position of an object's "kind:id" key in the catalog
  Faults,        \* what may go wrong: subset of {"io", "crash"}
  MaxEvents, MaxFaults, MaxRebuilds  \* bounds of the model

Status == {"open", "closed"}

\* The indexes in the order one append writes them, and the views among them.
Views   == {"control", "market", "company", "contract", "space"}
Indexes == {"catalog", "state"} \cup Views

ASSUME ConstantsOK ==
  /\ Objects # {}
  /\ MaxEvents \in Nat /\ MaxFaults \in Nat /\ MaxRebuilds \in Nat
  /\ Faults \subseteq {"io", "crash"}
  /\ Scope \in [Views -> SUBSET Objects]
  /\ Companies \subseteq Objects /\ Messages \subseteq Objects
  /\ Origin \in [Objects -> SUBSET Objects]
  /\ OriginStatus \in [Objects -> SUBSET Status]
  /\ CatalogRank \in [Objects -> Nat]

Event   == [id : 1..MaxEvents, prev : 0..MaxEvents, status : Status]
NoEvent == [id |-> 0, prev |-> 0, status |-> "closed"]
Entry   == Event \cup {NoEvent}

EmptyView == [o \in Objects |-> NoEvent]

VARIABLES
  log,        \* log[o]: the Hypercore of object o                   (durable)
  index,      \* index[x][o]: the event behind o's entry in index x  (durable)
  snapshot,   \* snapshot[o]: the in-memory state of o
  cmd,        \* cmd[c]: the command c, at the await it has reached
  announced,  \* announcements appended to the control feed          (durable)
  phase,      \* where rebuildFromLogs is
  shadow,     \* the snapshot a rebuild is replaying into
  replayed,   \* replayed[o]: how many events of o the rebuild has replayed
  outcome,    \* how the last rebuild ended
  nextId,     \* the id the next event gets (an event id is a content hash)
  faults,     \* faults so far
  rebuilds    \* rebuilds so far

rebuildVars == <<phase, shadow, replayed, outcome, rebuilds>>
vars == <<log, index, snapshot, cmd, announced, nextId, faults, rebuildVars>>

-----------------------------------------------------------------------------
(* The append pipeline.                                                     *)

\* Faulty variants: the catalog put before the log, the state put forgotten, the
\* announcement made first.
NextStage_CatalogBeforeLog ==
  [verify |-> "catalog", catalog |-> "log", log |-> "state", state |-> "control",
   control |-> "market", market |-> "company", company |-> "contract",
   contract |-> "space", space |-> "announce", announce |-> "idle"]

NextStage_NoState ==
  [verify |-> "log", log |-> "catalog", catalog |-> "control", state |-> "control",
   control |-> "market", market |-> "company", company |-> "contract",
   contract |-> "space", space |-> "announce", announce |-> "idle"]

NextStage_AnnouncedFirst ==
  [verify |-> "announce", announce |-> "log", log |-> "catalog", catalog |-> "state",
   state |-> "control", control |-> "market", market |-> "company",
   company |-> "contract", contract |-> "space", space |-> "idle"]

\* NextStage[s]: the await that follows stage s of an append.
NextStage ==
  [verify |-> "log", log |-> "catalog", catalog |-> "state", state |-> "control",
   control |-> "market", market |-> "company", company |-> "contract",
   contract |-> "space", space |-> "announce", announce |-> "idle"]

Stages == DOMAIN NextStage \cup {"idle"}

\* The stages a command reaches only after its event is in the log.
Logged == Stages \ {"idle", "verify", "log"}

Idle == [stage |-> "idle", obj |-> CHOOSE o \in Objects : TRUE, event |-> NoEvent]

\* The reducers as the repository uses them: an event extends the state it
\* names, and the first one needs the objects it refers to in the view it is
\* applied to.  Which later events a kind takes is left open here.
ExtendsLatest(view, o, e) == e.prev = view[o].id

OriginHolds(view, o) ==
  \A p \in Origin[o] : view[p].id # 0 /\ view[p].status \in OriginStatus[o]

Accepts(view, o, e) ==
  /\ ExtendsLatest(view, o, e)
  /\ view[o].id = 0 => OriginHolds(view, o)

\* An index lists an object in its scope; the market only while it is shown.
Lists(x, o, e) ==
  /\ x \in Views => o \in Scope[x]
  /\ x = "market" => e.status = "open"

\* What index x holds for o once event e of o has been put (or deleted) there.
EntryFor(x, o, e) == IF Lists(x, o, e) THEN e ELSE NoEvent

\* Writers of one Hypercore or Hyperbee queue on its lock in arrival order, and
\* a later event of an object arrives after an earlier one.
InTurn(c) ==
  \A d \in Commands :
    (cmd[d].stage = cmd[c].stage /\ cmd[d].obj = cmd[c].obj)
      => cmd[c].event.id <= cmd[d].event.id

Init ==
  /\ log = [o \in Objects |-> <<>>]
  /\ index = [x \in Indexes |-> EmptyView]
  /\ snapshot = EmptyView
  /\ cmd = [c \in Commands |-> Idle]
  /\ announced = {}
  /\ phase = "none" /\ shadow = EmptyView
  /\ replayed = [o \in Objects |-> 0]
  /\ outcome = "none"
  /\ nextId = 1 /\ faults = 0 /\ rebuilds = 0

\* cli.ts appendEnvelope up to repository.appendEnvelope: read the state index,
\* sign an event that names the latest event there.
ReadAndSign(c, o, status) ==
  /\ cmd[c].stage = "idle"
  /\ phase = "none"
  /\ nextId <= MaxEvents
  /\ cmd' = [cmd EXCEPT ![c] =
       [stage |-> "verify", obj |-> o,
        event |-> [id |-> nextId, prev |-> index["state"][o].id, status |-> status]]]
  /\ nextId' = nextId + 1
  /\ UNCHANGED <<log, index, snapshot, announced, faults, rebuildVars>>

\* The signature verified, the reducer accepts: the snapshot changes at once,
\* before anything is durable.
Apply(c) ==
  LET o == cmd[c].obj
      e == cmd[c].event
  IN /\ cmd[c].stage = "verify"
     /\ Accepts(snapshot, o, e)
     /\ snapshot' = [snapshot EXCEPT ![o] = e]
     /\ cmd' = [cmd EXCEPT ![c].stage = NextStage["verify"]]
     /\ UNCHANGED <<log, index, announced, nextId, faults, rebuildVars>>

\* Faulty variant: a rejected event is tried again as it is.
Conflict_Retried(c) ==
  /\ cmd[c].stage = "verify"
  /\ ~Accepts(snapshot, cmd[c].obj, cmd[c].event)
  /\ UNCHANGED vars

\* The reducer throws: the command ends with an error and has changed nothing.
Conflict(c) ==
  /\ cmd[c].stage = "verify"
  /\ ~Accepts(snapshot, cmd[c].obj, cmd[c].event)
  /\ cmd' = [cmd EXCEPT ![c] = Idle]
  /\ UNCHANGED <<log, index, snapshot, announced, nextId, faults, rebuildVars>>

\* feed.append on the object's log.
AppendToLog(c) ==
  LET o == cmd[c].obj
  IN /\ cmd[c].stage = "log"
     /\ InTurn(c)
     /\ log' = [log EXCEPT ![o] = Append(@, cmd[c].event)]
     /\ cmd' = [cmd EXCEPT ![c].stage = NextStage["log"]]
     /\ UNCHANGED <<index, snapshot, announced, nextId, faults, rebuildVars>>

\* Faulty variant: what leaves a view is not deleted from it.
PutIndex_NeverDeletes(c) ==
  LET o == cmd[c].obj
      x == cmd[c].stage
  IN /\ x \in Indexes
     /\ InTurn(c)
     /\ index' = [index EXCEPT ![x][o] = IF Lists(x, o, cmd[c].event) THEN cmd[c].event ELSE @]
     /\ cmd' = [cmd EXCEPT ![c].stage = NextStage[x]]
     /\ UNCHANGED <<log, snapshot, announced, nextId, faults, rebuildVars>>

\* One put (or del) on one index; a view the object is not in is skipped.
PutIndex(c) ==
  LET o == cmd[c].obj
      x == cmd[c].stage
  IN /\ x \in Indexes
     /\ InTurn(c)
     /\ index' = [index EXCEPT ![x][o] = EntryFor(x, o, cmd[c].event)]
     /\ cmd' = [cmd EXCEPT ![c].stage = NextStage[x]]
     /\ UNCHANGED <<log, snapshot, announced, nextId, faults, rebuildVars>>

\* The command reads the state back, announces the event with that state on the
\* control feed, and returns.
Announce(c) ==
  LET o == cmd[c].obj
  IN /\ cmd[c].stage = "announce"
     /\ announced' = announced \cup
          {[obj |-> o, id |-> cmd[c].event.id, state |-> index["state"][o].id]}
     /\ cmd' = [cmd EXCEPT ![c] = Idle]
     /\ UNCHANGED <<log, index, snapshot, nextId, faults, rebuildVars>>

-----------------------------------------------------------------------------
(* What can go wrong.                                                       *)

Fault(kind) ==
  /\ kind \in Faults
  /\ faults < MaxFaults
  /\ faults' = faults + 1

\* An await of a running append rejects (a write error): the command ends there.
\* Nothing that was done before it is taken back.
IoFailure(c) ==
  /\ cmd[c].stage \notin {"idle", "verify"}
  /\ Fault("io")
  /\ cmd' = [cmd EXCEPT ![c] = Idle]
  /\ UNCHANGED <<log, index, snapshot, announced, nextId, rebuildVars>>

\* The process dies and is started again: running commands and a running rebuild
\* are gone, and create() hydrates the snapshot from the state index.
CrashAndRestart ==
  /\ Fault("crash")
  /\ cmd' = [c \in Commands |-> Idle]
  /\ snapshot' = index["state"]
  /\ phase' = "none"
  /\ UNCHANGED <<log, index, announced, shadow, replayed, outcome, nextId, rebuilds>>

-----------------------------------------------------------------------------
(* rebuildFromLogs.  Its caller has no command running and starts none       *)
(* before it returns.                                                        *)

\* The index cleared after index x, and what follows the last one.
NextCleared ==
  [state |-> "market", market |-> "company", company |-> "contract",
   contract |-> "space", space |-> "control", control |-> "replay"]

Phases == {"none", "replay"} \cup DOMAIN NextCleared

RebuildBegin ==
  /\ phase = "none"
  /\ \A c \in Commands : cmd[c].stage = "idle"
  /\ rebuilds < MaxRebuilds
  /\ rebuilds' = rebuilds + 1
  /\ phase' = "state"
  /\ snapshot' = EmptyView
  /\ shadow' = EmptyView
  /\ replayed' = [o \in Objects |-> 0]
  /\ outcome' = "none"
  /\ UNCHANGED <<log, index, cmd, announced, nextId, faults>>

RebuildClear ==
  /\ phase \in DOMAIN NextCleared
  /\ index' = [index EXCEPT ![phase] = EmptyView]
  /\ phase' = NextCleared[phase]
  /\ UNCHANGED <<log, snapshot, cmd, announced, shadow, replayed, outcome,
                 nextId, faults, rebuilds>>

\* Cataloged objects with events still to replay; the one the catalog scan is at.
Pending == {o \in Objects : index["catalog"][o].id # 0 /\ replayed[o] < Len(log[o])}

Scanned(o) == o \in Pending /\ \A p \in Pending : CatalogRank[o] <= CatalogRank[p]

NextReplayed(o) == log[o][replayed[o] + 1]

\* The next event goes through the reducer and into the state index.
RebuildReplay(o) ==
  /\ phase = "replay"
  /\ Scanned(o)
  /\ Accepts(shadow, o, NextReplayed(o))
  /\ shadow' = [shadow EXCEPT ![o] = NextReplayed(o)]
  /\ index' = [index EXCEPT !["state"][o] = NextReplayed(o)]
  /\ replayed' = [replayed EXCEPT ![o] = @ + 1]
  /\ UNCHANGED <<log, snapshot, cmd, announced, phase, outcome, nextId, faults, rebuilds>>

\* A reducer throws during the replay: rebuildFromLogs throws, and the snapshot
\* stays as empty as it was made at the start.
RebuildThrows(o) ==
  /\ phase = "replay"
  /\ Scanned(o)
  /\ ~Accepts(shadow, o, NextReplayed(o))
  /\ phase' = "none"
  /\ outcome' = "failed"
  /\ UNCHANGED <<log, index, snapshot, cmd, announced, shadow, replayed,
                 nextId, faults, rebuilds>>

\* The objects the last part of the rebuild puts back into index x: the control
\* view gets nothing, the company view the companies alone, the space view no
\* deleted message.
Refilled(x) ==
  CASE x = "control" -> {}
    [] x = "company" -> Companies
    [] x = "space"   -> {o \in Scope[x] \ {m \in Messages : shadow[m].status = "closed"} :
                           shadow[o].id # 0}
    [] OTHER         -> {o \in Scope[x] : shadow[o].id # 0 /\ Lists(x, o, shadow[o])}

\* Objects the replay found whose state is not back in the snapshot yet.
Unfilled == {o \in Objects : shadow[o].id # 0 /\ snapshot[o].id = 0}

\* The whole catalog replayed, each object goes back into the snapshot and into
\* the views; a crash may come between any two of them.
RebuildFill(o) ==
  /\ phase = "replay" /\ Pending = {}
  /\ o \in Unfilled
  /\ snapshot' = [snapshot EXCEPT ![o] = shadow[o]]
  /\ index' = [x \in Indexes |->
       IF x \in Views /\ o \in Refilled(x) THEN [index[x] EXCEPT ![o] = shadow[o]] ELSE index[x]]
  /\ UNCHANGED <<log, cmd, announced, phase, shadow, replayed, outcome, nextId, faults, rebuilds>>

RebuildEnd ==
  /\ phase = "replay" /\ Pending = {} /\ Unfilled = {}
  /\ phase' = "none"
  /\ outcome' = "ok"
  /\ UNCHANGED <<log, index, snapshot, cmd, announced, shadow, replayed, nextId, faults, rebuilds>>

-----------------------------------------------------------------------------

CommandStep(c) ==
  Apply(c) \/ Conflict(c) \/ AppendToLog(c) \/ PutIndex(c) \/ Announce(c)

Rebuild ==
  \/ RebuildBegin
  \/ RebuildClear
  \/ \E o \in Objects : RebuildReplay(o) \/ RebuildThrows(o) \/ RebuildFill(o)
  \/ RebuildEnd

Next ==
  \/ \E c \in Commands, o \in Objects, s \in Status : ReadAndSign(c, o, s)
  \/ \E c \in Commands : CommandStep(c)
  \/ \E c \in Commands : IoFailure(c)
  \/ CrashAndRestart
  \/ Rebuild

Spec == Init /\ [][Next]_vars

\* An await of a running command settles: the event loop serves every promise.
Fairness == \A c \in Commands : WF_vars(CommandStep(c))

FairSpec == Spec /\ Fairness

-----------------------------------------------------------------------------
(* Properties.                                                              *)

TypeOK ==
  /\ log \in [Objects -> Seq(Event)]
  /\ index \in [Indexes -> [Objects -> Entry]]
  /\ snapshot \in [Objects -> Entry]
  /\ cmd \in [Commands -> [stage : Stages, obj : Objects, event : Entry]]
  /\ announced \subseteq [obj : Objects, id : 1..MaxEvents, state : 0..MaxEvents]
  /\ phase \in Phases
  /\ shadow \in [Objects -> Entry]
  /\ replayed \in [Objects -> Nat]
  /\ outcome \in {"none", "ok", "failed"}
  /\ nextId \in 1..(MaxEvents + 1)
  /\ faults \in 0..MaxFaults
  /\ rebuilds \in 0..MaxRebuilds

InLog(o, e) == \E i \in DOMAIN log[o] : log[o][i] = e

LastOf(o) == IF log[o] = <<>> THEN NoEvent ELSE log[o][Len(log[o])]

Settled(o) == \A c \in Commands : cmd[c].stage # "idle" => cmd[c].obj # o

\* The log is written first: whatever an index or an announcement refers to is
\* an event of the object's durable log, also after write errors and crashes at
\* any await of appendEnvelope (repository.ts).
WriteAhead ==
  /\ \A x \in Indexes, o \in Objects : index[x][o] = NoEvent \/ InLog(o, index[x][o])
  /\ \A a \in announced : \E i \in DOMAIN log[a.obj] : log[a.obj][i].id = a.id

\* What a command announced is never lost: its event was already part of the
\* state it announced, and is part of every state read afterwards, across write
\* errors of other commands and restarts that hydrate from the state index, as
\* long as no rebuild starts.
AnnouncedSurvives ==
  rebuilds = 0 => \A a \in announced : a.id <= a.state /\ a.state <= index["state"][a.obj].id

\* Once no command is writing an object, the snapshot and all seven indexes show
\* its latest event, whatever order the awaits of concurrent commands took; and
\* rebuildFromLogs puts the snapshot, the state index and the market back so.
ProjectionsAgree ==
  phase = "none" =>
    \A o \in Objects : Settled(o) /\ log[o] # <<>> =>
      /\ snapshot[o] = LastOf(o)
      /\ \A x \in IF rebuilds = 0 THEN Indexes ELSE {"catalog", "state", "market"} :
           index[x][o] = EntryFor(x, o, LastOf(o))

\* Replaying the object logs through the reducers that accepted them succeeds.
RebuildSucceeds == outcome # "failed"

\* A command that started ends, with a result or an error: no command waits
\* forever on another one's place in a write queue.
CommandsEnd == \A c \in Commands : cmd[c].stage # "idle" ~> cmd[c].stage = "idle"

\* Without faults the repository implements the object log: an event joins the
\* history when it is appended to the Hypercore, and is acknowledged when it is
\* announced.
Abstract == INSTANCE ObjectLog WITH
  history      <- log,
  acknowledged <- {<<a.obj, a.id>> : a \in announced}

ImplementsObjectLog == Abstract!Spec
=============================================================================
