-------------------------- MODULE RepositoryProofs --------------------------
(***************************************************************************)
(* What is proved of the repository (appendEnvelope and rebuildFromLogs of *)
(* protocol/repository.ts), for any number of objects and commands.        *)
(*                                                                         *)
(* Under any write errors, crashes and rebuilds: IInv, the log is written  *)
(* ahead of everything else; SurviveInv, events are signed, applied and    *)
(* put in the order of their numbers until a rebuild begins, so that what  *)
(* was announced is kept.                                                  *)
(*                                                                         *)
(* As long as nothing fails: AgreeInv, the projections of a log follow it  *)
(* (Follows, while commands run) and a rebuild puts back what it cleared   *)
(* (Rebuilding, while it runs), and the repository implements ObjectLog.   *)
(* That a rebuild never rejects an event follows from Chained, if every    *)
(* object comes after its origins in the catalog.                          *)
(***************************************************************************)
EXTENDS Repository, TLAPS

USE ConstantsOK

\* The idle command refers to some object; it carries no event.
LEMMA IdleTyped == Idle \in [stage : Stages, obj : Objects, event : Entry]
<1>1. (CHOOSE o \in Objects : TRUE) \in Objects
  OBVIOUS
<1>2. QED
  BY <1>1 DEF Idle, Stages, Entry

\* The next await of a pipeline stage is a stage again.
LEMMA StagesClosed == \A s \in DOMAIN NextStage : NextStage[s] \in Stages
BY DEF NextStage, Stages

\* An index entry for a state is that state or nothing.
LEMMA EntryForTyped ==
  ASSUME NEW x, NEW o, NEW e \in Entry
  PROVE  EntryFor(x, o, e) \in {e, NoEvent} /\ EntryFor(x, o, e) \in Entry
BY DEF EntryFor, Entry

-----------------------------------------------------------------------------

\* The part of type correctness that the argument below rests on.
Typed ==
  /\ log \in [Objects -> Seq(Event)]
  /\ index \in [Indexes -> [Objects -> Entry]]
  /\ cmd \in [Commands -> [stage : Stages, obj : Objects, event : Entry]]
  /\ shadow \in [Objects -> Entry]
  /\ nextId \in Nat \ {0}

\* A command past its log append carries an event of its object's log.
LoggedCommands ==
  \A c \in Commands : cmd[c].stage \in Logged => InLog(cmd[c].obj, cmd[c].event)

IndexesFromLog ==
  \A x \in Indexes, o \in Objects : index[x][o] = NoEvent \/ InLog(o, index[x][o])

ShadowFromLog == \A o \in Objects : shadow[o] = NoEvent \/ InLog(o, shadow[o])

AnnouncedFromLog ==
  \A a \in announced : /\ a.obj \in Objects
                       /\ \E i \in DOMAIN log[a.obj] : log[a.obj][i].id = a.id

\* A command that is about to append, or further, carries a real event.
RealEvents ==
  \A c \in Commands : cmd[c].stage # "idle" => cmd[c].event \in Event

\* The inductive invariant: WriteAhead needs to know which commands may put what
\* into an index (those whose event is logged) and what a rebuild replays.
IInv ==
  /\ Typed /\ RealEvents
  /\ LoggedCommands
  /\ IndexesFromLog
  /\ ShadowFromLog
  /\ AnnouncedFromLog

\* Logs only grow: what is in a log stays there in every step.
LEMMA LogsGrow ==
  ASSUME Typed, RealEvents, [Next]_vars, NEW o \in Objects
  PROVE  \A i \in DOMAIN log[o] : i \in DOMAIN log'[o] /\ log'[o][i] = log[o][i]
<1>1. ASSUME NEW c \in Commands, AppendToLog(c)
      PROVE  \A i \in DOMAIN log[o] : i \in DOMAIN log'[o] /\ log'[o][i] = log[o][i]
  <2>1. cmd[c].event \in Event /\ log[o] \in Seq(Event)
    BY <1>1 DEF Typed, RealEvents, AppendToLog
  <2>2. log'[o] = log[o] \/ log'[o] = Append(log[o], cmd[c].event)
    BY <1>1 DEF Typed, AppendToLog
  <2>3. QED
    BY <2>1, <2>2
<1>2. CASE UNCHANGED log
  BY <1>2
<1>3. ASSUME NEW c \in Commands, CommandStep(c), ~AppendToLog(c)
      PROVE  UNCHANGED log
  BY <1>3 DEF CommandStep, Apply, Conflict, PutIndex, Announce
<1>4. CASE Rebuild
  BY <1>2, <1>4 DEF Rebuild, RebuildBegin, RebuildClear, RebuildReplay, RebuildThrows, RebuildFill, RebuildEnd
<1>5. QED
  BY <1>1, <1>2, <1>3, <1>4 DEF Next, vars, ReadAndSign, IoFailure, CrashAndRestart

\* So an event once in a log is in it ever after.
LEMMA InLogStable ==
  ASSUME Typed, RealEvents, [Next]_vars, NEW o \in Objects, NEW e, InLog(o, e)
  PROVE  InLog(o, e)'
BY LogsGrow DEF InLog

-----------------------------------------------------------------------------
(* The steps of a command, of a fault and of a rebuild keep the state typed   *)
(* and every reference inside the logs.                                       *)

\* A step that leaves log, indexes and announcements alone need only account for
\* the commands and the shadow snapshot.
LEMMA QuietStep ==
  ASSUME IInv, UNCHANGED <<log, index, announced>>,
         Typed', RealEvents', LoggedCommands', ShadowFromLog'
  PROVE  IInv'
BY DEF IInv, IndexesFromLog, AnnouncedFromLog, InLog

LEMMA ReadAndSignStep ==
  ASSUME IInv, NEW c \in Commands, NEW o \in Objects, NEW s \in Status, ReadAndSign(c, o, s)
  PROVE  IInv'
<1> DEFINE e == [id |-> nextId, prev |-> index["state"][o].id, status |-> s]
<1>1. e \in Event /\ e \in Entry
  BY DEF IInv, Typed, ReadAndSign, Event, Entry, NoEvent, Indexes, Status
<1>2. "verify" \in Stages /\ "verify" \notin Logged
  BY DEF Stages, NextStage, Logged
<1>3. cmd' = [cmd EXCEPT ![c] = [stage |-> "verify", obj |-> o, event |-> e]]
  BY DEF ReadAndSign
<1> HIDE DEF e
<1>4. Typed' /\ RealEvents'
  BY <1>1, <1>2, <1>3 DEF IInv, Typed, RealEvents, ReadAndSign, rebuildVars
<1>5. LoggedCommands'
  BY <1>2, <1>3 DEF IInv, Typed, LoggedCommands, ReadAndSign, InLog
<1>6. QED
  BY <1>4, <1>5, QuietStep DEF IInv, ShadowFromLog, ReadAndSign, InLog, rebuildVars

\* A command that moves to another stage keeps its object and its event.
LEMMA MovedCommand ==
  ASSUME Typed, NEW c \in Commands, NEW s \in Stages, cmd' = [cmd EXCEPT ![c].stage = s]
  PROVE  /\ cmd' \in [Commands -> [stage : Stages, obj : Objects, event : Entry]]
         /\ \A d \in Commands : /\ cmd'[d].obj = cmd[d].obj
                                /\ cmd'[d].event = cmd[d].event
                                /\ cmd'[d].stage = IF d = c THEN s ELSE cmd[d].stage
<1>1. cmd \in [Commands -> [stage : Stages, obj : Objects, event : Entry]]
  BY DEF Typed
<1>2. \A d \in Commands : cmd'[d] = IF d = c THEN [cmd[d] EXCEPT !.stage = s] ELSE cmd[d]
  BY <1>1
<1>3. DOMAIN cmd' = Commands
  BY <1>1
<1>4. QED
  BY <1>1, <1>2, <1>3

\* Apply, Conflict and IoFailure move one command to a stage that asks nothing
\* of the log: "log" itself, or idle.
LEMMA MoveStep ==
  ASSUME IInv, NEW c \in Commands,
         UNCHANGED <<log, index, announced, nextId, shadow>>,
         \/ cmd' = [cmd EXCEPT ![c] = Idle]
         \/ cmd' = [cmd EXCEPT ![c].stage = "log"] /\ cmd[c].stage = "verify"
  PROVE  IInv'
<1>1. "log" \in Stages /\ "log" \notin Logged /\ "idle" \notin Logged
  BY DEF Stages, NextStage, Logged
<1>2. CASE cmd' = [cmd EXCEPT ![c] = Idle]
  <2>1. Idle.stage = "idle" /\ Idle \in [stage : Stages, obj : Objects, event : Entry]
    BY IdleTyped DEF Idle
  <2>2. Typed'
    BY <1>2, <2>1 DEF IInv, Typed
  <2>3. RealEvents' /\ LoggedCommands'
    BY <1>1, <1>2, <2>1 DEF IInv, Typed, RealEvents, LoggedCommands, InLog
  <2>4. QED
    BY <2>2, <2>3, QuietStep DEF IInv, ShadowFromLog, InLog
<1>3. CASE cmd' = [cmd EXCEPT ![c].stage = "log"] /\ cmd[c].stage = "verify"
  <2>1. Typed'
    BY <1>1, <1>3, MovedCommand DEF IInv, Typed
  <2>2. RealEvents'
    BY <1>1, <1>3, MovedCommand DEF IInv, RealEvents
  <2>3. LoggedCommands'
    <3>1. SUFFICES ASSUME NEW d \in Commands, cmd'[d].stage \in Logged
                   PROVE  InLog(cmd[d].obj, cmd[d].event)'
      BY DEF LoggedCommands, Logged, Stages
    <3>2. cmd'[d].obj = cmd[d].obj /\ cmd'[d].event = cmd[d].event /\ cmd[d].stage \in Logged
      BY <1>1, <1>3, <3>1, MovedCommand DEF IInv
    <3>3. QED
      BY <3>2 DEF IInv, LoggedCommands, InLog
  <2>4. QED
    BY <2>1, <2>2, <2>3, QuietStep DEF IInv, ShadowFromLog, InLog
<1>4. QED
  BY <1>2, <1>3

LEMMA AppendStep ==
  ASSUME IInv, NEW c \in Commands, AppendToLog(c)
  PROVE  IInv'
<1>1. PICK o \in Objects : o = cmd[c].obj
  BY DEF IInv, Typed
<1>2. PICK e \in Event : e = cmd[c].event
  BY DEF IInv, RealEvents, AppendToLog
<1>3. log[o] \in Seq(Event) /\ log' = [log EXCEPT ![o] = Append(log[o], e)]
  BY <1>1, <1>2 DEF AppendToLog, IInv, Typed
<1>4. "catalog" \in Stages /\ cmd' = [cmd EXCEPT ![c].stage = "catalog"] /\ cmd[c].stage = "log"
  BY DEF AppendToLog, NextStage, Stages
<1>5. Typed'
  <2>1. Append(log[o], e) \in Seq(Event)
    BY <1>3
  <2>2. log' \in [Objects -> Seq(Event)]
    BY <1>3, <2>1 DEF IInv, Typed
  <2>3. QED
    BY <1>4, <2>2, MovedCommand DEF IInv, Typed, AppendToLog, rebuildVars
<1>6. RealEvents'
  BY <1>4, MovedCommand DEF IInv, RealEvents
<1>7. [Next]_vars
  BY DEF Next, CommandStep
<1>8. InLog(o, e)'
  <2>1. log'[o] = Append(log[o], e)
    BY <1>3 DEF IInv, Typed
  <2>2. Len(log[o]) + 1 \in DOMAIN log'[o] /\ log'[o][Len(log[o]) + 1] = e
    BY <1>2, <1>3, <2>1
  <2>3. QED
    BY <2>2 DEF InLog
<1>9. \A p \in Objects : \A f : InLog(p, f) => InLog(p, f)'
  BY <1>7, InLogStable DEF IInv
<1>10. LoggedCommands'
  <2>1. SUFFICES ASSUME NEW d \in Commands, cmd'[d].stage \in Logged
                 PROVE  InLog(cmd[d].obj, cmd[d].event)'
    BY DEF LoggedCommands, Logged, Stages
  <2>2. cmd'[d].obj = cmd[d].obj /\ cmd'[d].event = cmd[d].event /\ cmd[d].obj \in Objects
    BY <1>4, MovedCommand DEF IInv, Typed
  <2>3. CASE d = c
    BY <1>1, <1>2, <1>8, <2>2, <2>3 DEF InLog
  <2>4. CASE d # c
    <3>1. InLog(cmd[d].obj, cmd[d].event)
      BY <1>4, <2>1, <2>4, MovedCommand DEF IInv, LoggedCommands
    <3>2. QED
      BY <1>9, <2>2, <3>1 DEF InLog
  <2>5. QED
    BY <2>3, <2>4
<1>11. AnnouncedFromLog'
  <2>1. SUFFICES ASSUME NEW a \in announced
                 PROVE  a.obj \in Objects /\ \E i \in DOMAIN log'[a.obj] : log'[a.obj][i].id = a.id
    BY DEF AnnouncedFromLog, AppendToLog
  <2>2. a.obj \in Objects
    BY DEF IInv, AnnouncedFromLog
  <2>3. PICK i \in DOMAIN log[a.obj] : log[a.obj][i].id = a.id
    BY DEF IInv, AnnouncedFromLog
  <2>4. QED
    BY <1>7, <2>2, <2>3, LogsGrow DEF IInv
<1>12. IndexesFromLog' /\ ShadowFromLog'
  BY <1>9 DEF IInv, IndexesFromLog, ShadowFromLog, AppendToLog, rebuildVars
<1>13. QED
  BY <1>5, <1>6, <1>10, <1>11, <1>12 DEF IInv

\* One entry of one index replaced keeps the indexes typed and inside the logs.
LEMMA EntryReplaced ==
  ASSUME Typed, IndexesFromLog, UNCHANGED log,
         NEW x \in Indexes, NEW o \in Objects, NEW f \in Entry,
         f = NoEvent \/ InLog(o, f),
         index' = [index EXCEPT ![x][o] = f]
  PROVE  index' \in [Indexes -> [Objects -> Entry]] /\ IndexesFromLog'
<1>1. index \in [Indexes -> [Objects -> Entry]]
  BY DEF Typed
<1>2. index'[x] = [index[x] EXCEPT ![o] = f] /\ \A y \in Indexes \ {x} : index'[y] = index[y]
  BY <1>1
<1>3. index'[x] \in [Objects -> Entry]
  BY <1>1, <1>2
<1>4. index' \in [Indexes -> [Objects -> Entry]]
  BY <1>1, <1>2, <1>3
<1>5. \A y \in Indexes, p \in Objects :
        (index'[y][p] = f /\ y = x /\ p = o) \/ index'[y][p] = index[y][p]
  BY <1>1, <1>2
<1>6. QED
  BY <1>4, <1>5 DEF IndexesFromLog, InLog

LEMMA PutIndexStep ==
  ASSUME IInv, NEW c \in Commands, PutIndex(c)
  PROVE  IInv'
<1>1. PICK o \in Objects : o = cmd[c].obj
  BY DEF IInv, Typed
<1>2. PICK e \in Entry : e = cmd[c].event
  BY DEF IInv, Typed
<1>3. PICK x \in Indexes : x = cmd[c].stage
  BY DEF PutIndex
<1>4. x \in Logged /\ NextStage[x] \in Logged
  BY DEF Indexes, Views, NextStage, Logged, Stages
<1>5. PICK f \in Entry : f = EntryFor(x, o, e)
  BY EntryForTyped
<1>6. /\ index' = [index EXCEPT ![x][o] = f]
      /\ cmd' = [cmd EXCEPT ![c].stage = NextStage[x]]
  BY <1>1, <1>2, <1>3, <1>5 DEF PutIndex
<1>7. f = NoEvent \/ InLog(o, f)
  BY <1>1, <1>2, <1>3, <1>4, <1>5, EntryForTyped DEF IInv, LoggedCommands
<1>8. index' \in [Indexes -> [Objects -> Entry]] /\ IndexesFromLog'
  BY <1>6, <1>7, EntryReplaced DEF IInv, PutIndex
<1>9. NextStage[x] \in Stages
  BY <1>4 DEF Logged
<1>10. Typed'
  BY <1>6, <1>8, <1>9, MovedCommand DEF IInv, Typed, PutIndex, rebuildVars
<1>11. cmd[c].stage \in Logged /\ cmd[c].stage # "idle"
  BY <1>3, <1>4 DEF Logged
<1>12. RealEvents' /\ LoggedCommands'
  <2>1. \A d \in Commands : /\ cmd'[d].obj = cmd[d].obj
                            /\ cmd'[d].event = cmd[d].event
                            /\ cmd'[d].stage = IF d = c THEN NextStage[x] ELSE cmd[d].stage
    BY <1>6, <1>9, MovedCommand DEF IInv
  <2>2. log' = log
    BY DEF PutIndex
  <2>3. RealEvents'
    BY <1>11, <2>1 DEF IInv, RealEvents
  <2>4. SUFFICES ASSUME NEW d \in Commands, cmd'[d].stage \in Logged
                 PROVE  InLog(cmd[d].obj, cmd[d].event)'
    BY <2>3 DEF LoggedCommands, Logged, Stages
  <2>5. cmd[d].stage \in Logged
    BY <1>11, <2>1, <2>4
  <2>6. InLog(cmd[d].obj, cmd[d].event)
    BY <2>5 DEF IInv, LoggedCommands
  <2>7. QED
    BY <2>1, <2>2, <2>6 DEF InLog
<1>13. QED
  BY <1>8, <1>10, <1>12
     DEF IInv, ShadowFromLog, AnnouncedFromLog, PutIndex, InLog, rebuildVars

LEMMA AnnounceStep ==
  ASSUME IInv, NEW c \in Commands, Announce(c)
  PROVE  IInv'
<1> DEFINE o == cmd[c].obj
           a == [obj |-> o, id |-> cmd[c].event.id, state |-> index["state"][o].id]
<1>1. o \in Objects /\ InLog(o, cmd[c].event)
  BY DEF IInv, Typed, LoggedCommands, Announce, Logged, Stages, NextStage
<1>2. announced' = announced \cup {a}
  BY DEF Announce
<1>3. AnnouncedFromLog'
  BY <1>1, <1>2 DEF IInv, AnnouncedFromLog, Announce, InLog
<1>4. Idle.stage = "idle" /\ Idle \in [stage : Stages, obj : Objects, event : Entry]
  BY IdleTyped DEF Idle
<1>5. Typed' /\ RealEvents' /\ LoggedCommands'
  BY <1>4 DEF IInv, Typed, RealEvents, LoggedCommands, Logged, Announce, InLog, rebuildVars
<1>6. QED
  BY <1>3, <1>5 DEF IInv, IndexesFromLog, ShadowFromLog, Announce, InLog, rebuildVars

LEMMA CrashStep ==
  ASSUME IInv, CrashAndRestart
  PROVE  IInv'
<1>1. Idle.stage = "idle" /\ Idle \in [stage : Stages, obj : Objects, event : Entry]
  BY IdleTyped DEF Idle
<1>2. Typed' /\ RealEvents' /\ LoggedCommands'
  BY <1>1 DEF IInv, Typed, RealEvents, LoggedCommands, Logged, CrashAndRestart
<1>3. QED
  BY <1>2, QuietStep DEF IInv, ShadowFromLog, CrashAndRestart, InLog

\* The event a rebuild replays next is an event of the log it reads.
LEMMA ReplayedInLog ==
  ASSUME IInv, NEW o \in Objects, Scanned(o), replayed[o] \in Nat
  PROVE  NextReplayed(o) \in Event /\ InLog(o, NextReplayed(o))
<1>1. log[o] \in Seq(Event) /\ replayed[o] < Len(log[o])
  BY DEF IInv, Typed, Scanned, Pending
<1>2. replayed[o] + 1 \in DOMAIN log[o]
  BY <1>1
<1>3. QED
  BY <1>1, <1>2 DEF NextReplayed, InLog

LEMMA ReplayStep ==
  ASSUME IInv, NEW o \in Objects, replayed[o] \in Nat, RebuildReplay(o)
  PROVE  IInv'
<1>1. PICK e \in Event : e = NextReplayed(o) /\ InLog(o, e)
  BY ReplayedInLog DEF RebuildReplay
<1>2. /\ index' = [index EXCEPT !["state"][o] = e]
      /\ shadow' = [shadow EXCEPT ![o] = e]
  BY <1>1 DEF RebuildReplay
<1>3. "state" \in Indexes /\ e \in Entry
  BY DEF Indexes, Entry
<1>4. index' \in [Indexes -> [Objects -> Entry]] /\ IndexesFromLog'
  BY <1>1, <1>2, <1>3, EntryReplaced DEF IInv, RebuildReplay
<1>5. shadow' \in [Objects -> Entry] /\ ShadowFromLog'
  BY <1>1, <1>2, <1>3 DEF IInv, Typed, ShadowFromLog, InLog, RebuildReplay
<1>6. Typed'
  BY <1>4, <1>5 DEF IInv, Typed, RebuildReplay
<1>7. QED
  BY <1>4, <1>5, <1>6
     DEF IInv, RealEvents, LoggedCommands, AnnouncedFromLog, RebuildReplay, InLog

LEMMA FillStep ==
  ASSUME IInv, NEW p \in Objects, RebuildFill(p)
  PROVE  IInv'
<1>1. /\ index \in [Indexes -> [Objects -> Entry]] /\ shadow[p] \in Entry
      /\ index' = [x \in Indexes |-> IF x \in Views /\ p \in Refilled(x)
                                     THEN [index[x] EXCEPT ![p] = shadow[p]] ELSE index[x]]
  BY DEF RebuildFill, IInv, Typed
<1>2. index' \in [Indexes -> [Objects -> Entry]]
  <2>1. ASSUME NEW x \in Indexes
        PROVE  index'[x] \in [Objects -> Entry]
    <3>1. index[x] \in [Objects -> Entry] /\ [index[x] EXCEPT ![p] = shadow[p]] \in [Objects -> Entry]
      BY <1>1
    <3>2. index'[x] = index[x] \/ index'[x] = [index[x] EXCEPT ![p] = shadow[p]]
      BY <1>1, Zenon
    <3>3. QED
      BY <3>1, <3>2
  <2>2. index' = [x \in Indexes |-> index'[x]]
    BY <1>1, Zenon
  <2>3. QED
    BY <2>1, <2>2, Zenon
<1>3. ASSUME NEW x \in Indexes, NEW o \in Objects
      PROVE  index'[x][o] \in {shadow[o], index[x][o]}
  <2>1. index[x] \in [Objects -> Entry]
    BY <1>1
  <2>2. index'[x] = index[x] \/ index'[x] = [index[x] EXCEPT ![p] = shadow[p]]
    BY <1>1, Zenon
  <2>3. QED
    BY <2>1, <2>2
<1>4. IndexesFromLog'
  BY <1>3 DEF IInv, IndexesFromLog, ShadowFromLog, InLog, RebuildFill
<1>5. Typed'
  BY <1>2 DEF IInv, Typed, RebuildFill
<1>6. QED
  BY <1>4, <1>5
     DEF IInv, RealEvents, LoggedCommands, ShadowFromLog, AnnouncedFromLog, RebuildFill, InLog

\* Clearing an index and starting over leave less to account for.
LEMMA ClearStep ==
  ASSUME IInv, RebuildBegin \/ RebuildClear
  PROVE  IInv'
<1>1. EmptyView \in [Objects -> Entry] /\ \A o \in Objects : EmptyView[o] = NoEvent
  BY DEF EmptyView, Entry
<1>2. CASE RebuildBegin
  <2>1. Typed' /\ ShadowFromLog'
    BY <1>1, <1>2 DEF IInv, Typed, ShadowFromLog, RebuildBegin
  <2>2. QED
    BY <1>2, <2>1, QuietStep DEF IInv, RealEvents, LoggedCommands, RebuildBegin, InLog
<1>3. CASE RebuildClear
  <2>1. PICK x \in Indexes : index' = [index EXCEPT ![x] = EmptyView]
    BY <1>3 DEF RebuildClear, NextCleared, Indexes, Views
  <2>2. index' \in [Indexes -> [Objects -> Entry]]
    BY <1>1, <2>1 DEF IInv, Typed
  <2>3. \A y \in Indexes, o \in Objects : index'[y][o] \in {NoEvent, index[y][o]}
    BY <1>1, <2>1 DEF IInv, Typed
  <2>4. IndexesFromLog'
    BY <1>3, <2>3 DEF IInv, IndexesFromLog, RebuildClear, InLog
  <2>5. QED
    BY <1>3, <2>2, <2>4
       DEF IInv, Typed, RealEvents, LoggedCommands, ShadowFromLog, AnnouncedFromLog,
           RebuildClear, InLog
<1>4. QED
  BY <1>2, <1>3

-----------------------------------------------------------------------------

\* How far a rebuild has come in each log is a number.
LEMMA ReplayedTyped == Spec => [](replayed \in [Objects -> Nat])
<1>1. Init => replayed \in [Objects -> Nat]
  BY DEF Init
<1>2. replayed \in [Objects -> Nat] /\ [Next]_vars => (replayed \in [Objects -> Nat])'
  <2>1. SUFFICES ASSUME replayed \in [Objects -> Nat], [Next]_vars
                 PROVE  replayed' \in [Objects -> Nat]
    OBVIOUS
  <2>2. CASE RebuildBegin
    BY <2>2 DEF RebuildBegin
  <2>3. ASSUME NEW o \in Objects, RebuildReplay(o)
        PROVE  replayed' \in [Objects -> Nat]
    <3>1. replayed[o] + 1 \in Nat
      BY <2>1
    <3>2. QED
      BY <2>1, <2>3, <3>1 DEF RebuildReplay
  <2>4. CASE replayed' = replayed
    BY <2>1, <2>4
  <2>5. QED
    BY <2>1, <2>2, <2>3, <2>4
       DEF Next, vars, rebuildVars, ReadAndSign, CommandStep, Apply, Conflict, AppendToLog,
           PutIndex, Announce, IoFailure, CrashAndRestart, Rebuild, RebuildClear,
           RebuildThrows, RebuildFill, RebuildEnd
<1>3. QED
  BY <1>1, <1>2, PTL DEF Spec

LEMMA InvariantStep == IInv /\ replayed \in [Objects -> Nat] /\ [Next]_vars => IInv'
<1>1. SUFFICES ASSUME IInv, replayed \in [Objects -> Nat], [Next]_vars
               PROVE  IInv'
  OBVIOUS
<1>2. ASSUME NEW c \in Commands, NEW o \in Objects, NEW s \in Status, ReadAndSign(c, o, s)
      PROVE  IInv'
  BY <1>1, <1>2, ReadAndSignStep
<1>3. ASSUME NEW c \in Commands, CommandStep(c)
      PROVE  IInv'
  <2>1. CASE Apply(c)
    <3>1. cmd' = [cmd EXCEPT ![c].stage = "log"] /\ cmd[c].stage = "verify"
      BY <2>1 DEF Apply, NextStage
    <3>2. QED
      BY <1>1, <2>1, <3>1, MoveStep DEF Apply, rebuildVars
  <2>2. CASE Conflict(c)
    BY <1>1, <2>2, MoveStep DEF Conflict, rebuildVars
  <2>3. QED
    BY <1>1, <1>3, <2>1, <2>2, AppendStep, PutIndexStep, AnnounceStep DEF CommandStep
<1>4. ASSUME NEW c \in Commands, IoFailure(c)
      PROVE  IInv'
  BY <1>1, <1>4, MoveStep DEF IoFailure, rebuildVars
<1>5. CASE CrashAndRestart
  BY <1>1, <1>5, CrashStep
<1>6. CASE Rebuild
  <2>1. ASSUME NEW o \in Objects, RebuildThrows(o)
        PROVE  IInv'
    BY <1>1, <2>1, QuietStep
       DEF IInv, Typed, RealEvents, LoggedCommands, ShadowFromLog, RebuildThrows, InLog
  <2>2. CASE RebuildEnd
    BY <1>1, <2>2, QuietStep
       DEF IInv, Typed, RealEvents, LoggedCommands, ShadowFromLog, RebuildEnd, InLog
  <2>3. QED
    BY <1>1, <1>6, <2>1, <2>2, ReplayStep, FillStep, ClearStep DEF Rebuild
<1>7. CASE UNCHANGED vars
  BY <1>1, <1>7, QuietStep
     DEF IInv, Typed, RealEvents, LoggedCommands, ShadowFromLog, vars, rebuildVars, InLog
<1>8. QED
  BY <1>1, <1>2, <1>3, <1>4, <1>5, <1>6, <1>7 DEF Next

LEMMA InitHolds == Init => IInv
<1>1. ASSUME Init
      PROVE  Typed /\ IndexesFromLog /\ ShadowFromLog
  BY <1>1, IdleTyped DEF Init, Typed, IndexesFromLog, ShadowFromLog, EmptyView, Entry
<1>2. ASSUME Init
      PROVE  RealEvents /\ LoggedCommands /\ AnnouncedFromLog
  BY <1>2 DEF Init, RealEvents, LoggedCommands, AnnouncedFromLog, Idle, Logged
<1>3. QED
  BY <1>1, <1>2 DEF IInv

\* In every run, with any faults at any await and any rebuilds, each entry of each
\* index and each announcement refers to an event of the object's durable log.
THEOREM LogIsAheadOfIndexes == Spec => []WriteAhead
<1>1. IInv => WriteAhead
  BY DEF IInv, IndexesFromLog, AnnouncedFromLog, WriteAhead
<1>2. QED
  BY <1>1, InitHolds, InvariantStep, ReplayedTyped, PTL DEF Spec

-----------------------------------------------------------------------------

\* What TypeOK says beyond Typed.
RestTyped ==
  /\ snapshot \in [Objects -> Entry]
  /\ announced \subseteq [obj : Objects, id : 1..MaxEvents, state : 0..MaxEvents]
  /\ phase \in Phases
  /\ replayed \in [Objects -> Nat]
  /\ outcome \in {"none", "ok", "failed"}
  /\ nextId \in 1..(MaxEvents + 1)
  /\ faults \in 0..MaxFaults
  /\ rebuilds \in 0..MaxRebuilds

LEMMA RestTypedByCommand ==
  ASSUME IInv, RestTyped, NEW c \in Commands, CommandStep(c)
  PROVE  RestTyped'
<1>1. cmd[c] \in [stage : Stages, obj : Objects, event : Entry]
  BY DEF IInv, Typed
<1>2. CASE Apply(c)
  <2>1. snapshot' = [snapshot EXCEPT ![cmd[c].obj] = cmd[c].event]
    BY <1>2 DEF Apply
  <2>2. snapshot' \in [Objects -> Entry]
    BY <1>1, <2>1 DEF RestTyped
  <2>3. QED
    BY <1>2, <2>2 DEF RestTyped, Apply, rebuildVars
<1>3. CASE Announce(c)
  <2>1. cmd[c].event \in Event /\ cmd[c].obj \in Objects
    BY <1>1, <1>3 DEF IInv, RealEvents, Announce
  <2>2. cmd[c].event.id \in 1..MaxEvents
    BY <2>1 DEF Event
  <2>3. index["state"] \in [Objects -> Entry]
    BY DEF IInv, Typed, Indexes
  <2>4. index["state"][cmd[c].obj].id \in 0..MaxEvents
    BY <2>1, <2>3 DEF Entry, Event, NoEvent
  <2>5. announced' \subseteq [obj : Objects, id : 1..MaxEvents, state : 0..MaxEvents]
    BY <1>3, <2>1, <2>2, <2>4 DEF RestTyped, Announce
  <2>6. QED
    BY <1>3, <2>5 DEF RestTyped, Announce, rebuildVars
<1>4. QED
  BY <1>2, <1>3 DEF CommandStep, Conflict, AppendToLog, PutIndex, RestTyped, rebuildVars

LEMMA RestTypedByRebuild ==
  ASSUME IInv, RestTyped, Rebuild
  PROVE  RestTyped'
<1>1. CASE RebuildBegin
  <2>1. EmptyView \in [Objects -> Entry]
    BY DEF EmptyView, Entry
  <2>2. "state" \in Phases
    BY DEF Phases, NextCleared
  <2>3. QED
    BY <1>1, <2>1, <2>2 DEF RestTyped, RebuildBegin
<1>2. CASE RebuildClear
  <2>1. NextCleared[phase] \in Phases
    BY <1>2 DEF RebuildClear, NextCleared, Phases
  <2>2. QED
    BY <1>2, <2>1 DEF RestTyped, RebuildClear
<1>3. ASSUME NEW o \in Objects, RebuildReplay(o)
      PROVE  RestTyped'
  <2>1. replayed' = [replayed EXCEPT ![o] = @ + 1]
    BY <1>3 DEF RebuildReplay
  <2>2. replayed' \in [Objects -> Nat]
    BY <2>1 DEF RestTyped
  <2>3. QED
    BY <1>3, <2>2 DEF RestTyped, RebuildReplay
<1>4. ASSUME NEW o \in Objects, RebuildFill(o)
      PROVE  RestTyped'
  <2>1. snapshot' = [snapshot EXCEPT ![o] = shadow[o]] /\ shadow[o] \in Entry
    BY <1>4 DEF RebuildFill, IInv, Typed
  <2>2. snapshot' \in [Objects -> Entry]
    BY <2>1 DEF RestTyped
  <2>3. QED
    BY <1>4, <2>2 DEF RestTyped, RebuildFill
<1>5. "none" \in Phases
  BY DEF Phases
<1>6. ASSUME RebuildEnd \/ \E o \in Objects : RebuildThrows(o)
      PROVE  RestTyped'
  BY <1>5, <1>6 DEF RestTyped, RebuildEnd, RebuildThrows
<1>7. QED
  BY <1>1, <1>2, <1>3, <1>4, <1>6 DEF Rebuild

LEMMA RestTypedStep == IInv /\ RestTyped /\ [Next]_vars => RestTyped'
<1>1. SUFFICES ASSUME IInv, RestTyped, [Next]_vars
               PROVE  RestTyped'
  OBVIOUS
<1>2. ASSUME NEW c \in Commands, NEW o \in Objects, NEW s \in Status, ReadAndSign(c, o, s)
      PROVE  RestTyped'
  BY <1>1, <1>2 DEF RestTyped, ReadAndSign, rebuildVars
<1>3. ASSUME NEW c \in Commands, IoFailure(c)
      PROVE  RestTyped'
  BY <1>1, <1>3 DEF RestTyped, IoFailure, Fault, rebuildVars
<1>4. CASE CrashAndRestart
  <2>1. snapshot' \in [Objects -> Entry]
    BY <1>1, <1>4 DEF CrashAndRestart, IInv, Typed, Indexes
  <2>2. "none" \in Phases
    BY DEF Phases
  <2>3. QED
    BY <1>1, <1>4, <2>1, <2>2 DEF RestTyped, CrashAndRestart, Fault
<1>5. CASE UNCHANGED vars
  BY <1>1, <1>5 DEF RestTyped, vars, rebuildVars
<1>6. QED
  BY <1>1, <1>2, <1>3, <1>4, <1>5, RestTypedByCommand, RestTypedByRebuild DEF Next

\* Every variable of the repository keeps its type.
THEOREM TypeCorrect == Spec => []TypeOK
<1>1. Init => RestTyped
  <2>1. EmptyView \in [Objects -> Entry] /\ "none" \in Phases
    BY DEF EmptyView, Entry, Phases
  <2>2. QED
    BY <2>1 DEF Init, RestTyped
<1>2. IInv /\ RestTyped => TypeOK
  BY DEF IInv, Typed, RestTyped, TypeOK
<1>3. RestTyped => replayed \in [Objects -> Nat]
  BY DEF RestTyped
<1>4. QED
  BY <1>1, <1>2, <1>3, InitHolds, InvariantStep, RestTypedStep, PTL DEF Spec

-----------------------------------------------------------------------------
(* Events are sequenced: which event a command signs, applies and puts, while *)
(* other commands do the same.                                                *)

\* The stages between the change of the snapshot and the put in the state index.
Early == {"log", "catalog", "state"}

Running == [stage : Stages, obj : Objects, event : Entry]

\* What is known of command q, when the state index is st and the snapshot snap:
\* its event follows one that is in the state index, and is the latest of the
\* snapshot until it is in the state index itself.
Commanded(q, st, snap, next) ==
  /\ q.stage # "idle" => /\ q.event.prev < q.event.id /\ q.event.id < next
                         /\ q.event.prev <= st[q.obj].id
  /\ q.stage \in Early => snap[q.obj] = q.event /\ st[q.obj].id < q.event.id
  /\ q.stage \in Logged \ Early => q.event.id <= st[q.obj].id

\* The commands, the state index and the snapshot are in the order of the numbers.
Sequenced ==
  /\ \A c \in Commands : Commanded(cmd[c], index["state"], snapshot, nextId)
  /\ \A c, d \in Commands :
       cmd[c].stage # "idle" /\ cmd[d].stage # "idle" /\ cmd[c].event.id = cmd[d].event.id => c = d
  /\ \A o \in Objects : index["state"][o].id <= snapshot[o].id /\ snapshot[o].id < nextId

\* Until a rebuild begins, the state index of an object never goes back.
SurviveInv ==
  rebuilds = 0 =>
    /\ phase = "none"
    /\ Sequenced
    /\ \A a \in announced : a.id <= a.state /\ a.state <= index["state"][a.obj].id

Base == IInv /\ RestTyped

\* The types that the arguments about event numbers rest on.
LEMMA NumbersAre ==
  ASSUME Base
  PROVE  /\ nextId \in Nat /\ "state" \in Indexes /\ index["state"] \in [Objects -> Entry]
         /\ \A o \in Objects : /\ index["state"][o].id \in Nat /\ snapshot[o].id \in Nat
                               /\ index["state"][o] \in Entry /\ snapshot[o] \in Entry
         /\ snapshot \in [Objects -> Entry] /\ cmd \in [Commands -> Running]
         /\ \A c \in Commands : /\ cmd[c] \in Running /\ cmd[c].obj \in Objects
                                /\ cmd[c].event.id \in Nat /\ cmd[c].event.prev \in Nat
<1>1. \A e \in Entry : e.id \in Nat /\ e.prev \in Nat
  BY DEF Entry, Event, NoEvent
<1>2. "state" \in Indexes
  BY DEF Indexes
<1>3. cmd \in [Commands -> Running] /\ index["state"] \in [Objects -> Entry] /\ snapshot \in [Objects -> Entry]
  BY <1>2 DEF Base, IInv, Typed, RestTyped, Running
<1>4. QED
  BY <1>1, <1>2, <1>3 DEF Base, IInv, Typed, Running

\* Only the stage of an idle command says anything.
LEMMA IdleKnown ==
  Idle \in Running /\ Idle.stage = "idle" /\ \A st, snap, next : Commanded(Idle, st, snap, next)
  BY IdleTyped DEF Idle, Running, Commanded, Early, Logged

\* One command, which keeps its event or is done, goes on.
LEMMA OneGoesOn ==
  ASSUME Base, Sequenced, NEW c \in Commands, NEW q, cmd' = [cmd EXCEPT ![c] = q],
         q.stage # "idle" => cmd[c].stage # "idle" /\ q.event = cmd[c].event,
         \A d \in Commands : d # c => Commanded(cmd[d], index'["state"], snapshot', nextId'),
         Commanded(q, index'["state"], snapshot', nextId'),
         \A o \in Objects : index'["state"][o].id <= snapshot'[o].id /\ snapshot'[o].id < nextId'
  PROVE  Sequenced'
<1>1. cmd'[c] = q /\ \A d \in Commands : d # c => cmd'[d] = cmd[d]
  BY NumbersAre
<1>2. \A d, e \in Commands : cmd'[d].stage # "idle" /\ cmd'[e].stage # "idle" /\ cmd'[d].event.id = cmd'[e].event.id
        => d = e
  BY <1>1 DEF Sequenced
<1>3. QED
  BY <1>1, <1>2 DEF Sequenced

\* A command signs a new number on top of what it reads.
LEMMA SignSequenced ==
  ASSUME Base, Sequenced, NEW c \in Commands, NEW o \in Objects, NEW s \in Status, ReadAndSign(c, o, s)
  PROVE  Sequenced'
<1> DEFINE e == [id |-> nextId, prev |-> index["state"][o].id, status |-> s]
           q == [stage |-> "verify", obj |-> o, event |-> e]
<1>1. cmd' = [cmd EXCEPT ![c] = q] /\ nextId' = nextId + 1 /\ UNCHANGED <<index, snapshot>>
  BY DEF ReadAndSign
<1>2. q.stage = "verify" /\ q.obj = o /\ q.event.id = nextId /\ q.event.prev = index["state"][o].id
  OBVIOUS
<1>3. "verify" \notin Logged /\ "verify" \notin Early
  BY DEF Logged, Early
<1> HIDE DEF q
<1>4. cmd'[c] = q /\ \A d \in Commands : d # c => cmd'[d] = cmd[d]
  BY <1>1, NumbersAre
<1>5. \A p \in Objects : index["state"][p].id <= snapshot[p].id /\ snapshot[p].id < nextId + 1 /\ snapshot[p].id < nextId
  BY NumbersAre DEF Sequenced
<1>6. Commanded(q, index["state"], snapshot, nextId + 1)
  BY <1>2, <1>3, <1>5, NumbersAre DEF Commanded
<1>7. \A d \in Commands : Commanded(cmd[d], index["state"], snapshot, nextId + 1)
  BY NumbersAre DEF Sequenced, Commanded
<1>8. \A d \in Commands : cmd[d].stage # "idle" => cmd[d].event.id # nextId
  BY NumbersAre DEF Sequenced, Commanded
<1>9. \A d, f \in Commands : cmd'[d].stage # "idle" /\ cmd'[f].stage # "idle" /\ cmd'[d].event.id = cmd'[f].event.id
        => d = f
  BY <1>2, <1>4, <1>8 DEF Sequenced
<1>10. QED
  BY <1>1, <1>4, <1>5, <1>6, <1>7, <1>9 DEF Sequenced

\* A command that ends leaves the others in sequence.
LEMMA EndSequenced ==
  ASSUME Base, Sequenced, NEW c \in Commands, cmd' = [cmd EXCEPT ![c] = Idle],
         UNCHANGED <<index, snapshot, nextId>>
  PROVE  Sequenced'
  BY IdleKnown, OneGoesOn DEF Sequenced

\* An event that is accepted is of the object no other command has in hand.
LEMMA ApplyAlone ==
  ASSUME Base, Sequenced, NEW c \in Commands, Apply(c), NEW d \in Commands, cmd[d].stage \in Early
  PROVE  cmd[d].obj # cmd[c].obj
<1>1. SUFFICES ASSUME cmd[d].obj = cmd[c].obj PROVE FALSE
  OBVIOUS
<1> DEFINE o == cmd[c].obj
<1>2. cmd[c].event.prev = snapshot[o].id /\ cmd[c].stage = "verify"
  BY DEF Apply, Accepts, ExtendsLatest
<1>3. cmd[c].event.prev <= index["state"][o].id
  BY <1>2 DEF Sequenced, Commanded
<1>4. snapshot[o] = cmd[d].event /\ index["state"][o].id < cmd[d].event.id
  BY <1>1 DEF Sequenced, Commanded
<1>5. QED
  BY <1>2, <1>3, <1>4, NumbersAre

\* An accepted event is newer than all that the snapshot and the state index hold.
LEMMA ApplySequenced ==
  ASSUME Base, Sequenced, NEW c \in Commands, Apply(c)
  PROVE  Sequenced'
<1> DEFINE o == cmd[c].obj
           e == cmd[c].event
           q == [cmd[c] EXCEPT !.stage = "log"]
<1>1. /\ cmd' = [cmd EXCEPT ![c] = q] /\ cmd[c].stage = "verify" /\ e.prev = snapshot[o].id
      /\ snapshot' = [snapshot EXCEPT ![o] = e] /\ UNCHANGED <<index, nextId>>
  BY DEF Apply, Accepts, ExtendsLatest, NextStage
<1>2. q.stage = "log" /\ q.obj = o /\ q.event = e
  BY NumbersAre DEF Running
<1> HIDE DEF q
<1>3. /\ o \in Objects /\ e.id \in Nat /\ e.prev \in Nat
      /\ snapshot'[o] = e /\ \A p \in Objects : p # o => snapshot'[p] = snapshot[p]
  BY <1>1, NumbersAre
<1>4. e.prev < e.id /\ e.id < nextId /\ e.prev <= index["state"][o].id /\ index["state"][o].id <= e.prev
  BY <1>1, <1>3 DEF Sequenced, Commanded
<1>5. index["state"][o].id < e.id /\ index["state"][o].id <= e.id
  BY <1>3, <1>4, NumbersAre
<1>6. Commanded(q, index["state"], snapshot', nextId)
  BY <1>2, <1>3, <1>4, <1>5 DEF Commanded, Early, Logged
<1>7. \A d \in Commands : d # c => Commanded(cmd[d], index["state"], snapshot', nextId)
  BY <1>3, ApplyAlone, NumbersAre DEF Sequenced, Commanded
<1>8. \A p \in Objects : index["state"][p].id <= snapshot'[p].id /\ snapshot'[p].id < nextId
  BY <1>3, <1>4, <1>5 DEF Sequenced
<1>9. QED
  BY <1>1, <1>2, <1>6, <1>7, <1>8, OneGoesOn

\* An append changes nothing but the log, which Sequenced is not about.
LEMMA AppendSequenced ==
  ASSUME Base, Sequenced, NEW c \in Commands, AppendToLog(c)
  PROVE  Sequenced'
<1> DEFINE q == [cmd[c] EXCEPT !.stage = "catalog"]
<1>1. cmd' = [cmd EXCEPT ![c] = q] /\ cmd[c].stage = "log" /\ UNCHANGED <<index, snapshot, nextId>>
  BY DEF AppendToLog, NextStage
<1>2. q.stage = "catalog" /\ q.obj = cmd[c].obj /\ q.event = cmd[c].event
  BY NumbersAre DEF Running
<1> HIDE DEF q
<1>3. Commanded(q, index["state"], snapshot, nextId)
  BY <1>1, <1>2 DEF Sequenced, Commanded, Early
<1>4. QED
  BY <1>1, <1>2, <1>3, OneGoesOn DEF Sequenced

\* Two commands do not have an event of one object in hand.
LEMMA EarlyAlone ==
  ASSUME Base, Sequenced, NEW c \in Commands, NEW d \in Commands,
         cmd[c].stage \in Early, cmd[d].stage \in Early, cmd[c].obj = cmd[d].obj
  PROVE  c = d
<1>1. cmd[c].event = cmd[d].event
  BY DEF Sequenced, Commanded
<1>2. QED
  BY <1>1 DEF Sequenced, Early

\* What a put does to the indexes.
LEMMA PutChanges ==
  ASSUME Base, NEW c \in Commands, PutIndex(c)
  PROVE  LET x == cmd[c].stage
             o == cmd[c].obj
         IN /\ x \in Indexes /\ x \in Logged /\ x # "idle"
            /\ index'[x][o] = EntryFor(x, o, cmd[c].event)
            /\ \A y \in Indexes, p \in Objects : y # x \/ p # o => index'[y][p] = index[y][p]
            /\ cmd' = [cmd EXCEPT ![c] = [cmd[c] EXCEPT !.stage = NextStage[x]]]
            /\ UNCHANGED <<log, snapshot, announced, nextId, phase, rebuilds>>
<1> DEFINE x == cmd[c].stage
           o == cmd[c].obj
           f == EntryFor(x, o, cmd[c].event)
<1>1. /\ x \in Indexes /\ index' = [index EXCEPT ![x][o] = f]
      /\ cmd' = [cmd EXCEPT ![c].stage = NextStage[x]]
      /\ UNCHANGED <<log, snapshot, announced, nextId, phase, rebuilds>>
  BY DEF PutIndex, rebuildVars
<1>2. x \in Logged /\ x # "idle"
  BY <1>1 DEF Indexes, Views, Logged, Stages, NextStage
<1>3. index \in [Indexes -> [Objects -> Entry]] /\ o \in Objects
  BY NumbersAre DEF Base, IInv, Typed
<1> HIDE DEF f
<1>4. index'[x] = [index[x] EXCEPT ![o] = f] /\ \A y \in Indexes : y # x => index'[y] = index[y]
  BY <1>1, <1>3
<1>5. QED
  BY <1>1, <1>2, <1>3, <1>4 DEF f

\* The state index goes forward: what is put in it is newer than what it holds.
LEMMA PutSequenced ==
  ASSUME Base, Sequenced, NEW c \in Commands, PutIndex(c)
  PROVE  Sequenced' /\ \A o \in Objects : index["state"][o].id <= index'["state"][o].id
<1> DEFINE x == cmd[c].stage
           o == cmd[c].obj
           e == cmd[c].event
           q == [cmd[c] EXCEPT !.stage = NextStage[x]]
<1>1. /\ x \in Indexes /\ x \in Logged /\ x # "idle" /\ cmd' = [cmd EXCEPT ![c] = q]
      /\ UNCHANGED <<snapshot, nextId>> /\ o \in Objects /\ e.id \in Nat
      /\ index'[x][o] = EntryFor(x, o, e)
      /\ \A y \in Indexes, p \in Objects : y # x \/ p # o => index'[y][p] = index[y][p]
  BY PutChanges, NumbersAre
<1>2. q.stage = NextStage[x] /\ q.obj = o /\ q.event = e
  BY NumbersAre DEF Running
<1> HIDE DEF q
<1>3. CASE x = "state"
  <2>1. NextStage[x] = "control" /\ index'["state"][o] = e
    BY <1>1, <1>3 DEF NextStage, EntryFor, Lists, Views
  <2>2. \A p \in Objects : p # o => index'["state"][p] = index["state"][p]
    BY <1>1, <1>3
  <2>3. snapshot[o] = e /\ index["state"][o].id < e.id /\ e.prev < e.id /\ e.id < nextId /\ e.prev \in Nat
    BY <1>3, NumbersAre DEF Sequenced, Commanded, Early
  <2>4. \A p \in Objects : index["state"][p].id <= index'["state"][p].id
    BY <2>1, <2>2, <2>3, <1>1, NumbersAre
  <2>5. \A p \in Objects : index'["state"][p].id <= snapshot[p].id /\ snapshot[p].id < nextId
    BY <2>1, <2>2, <2>3, <1>1 DEF Sequenced
  <2>6. Commanded(q, index'["state"], snapshot, nextId)
    BY <1>1, <1>2, <2>1, <2>3 DEF Commanded, Early, Logged, Stages
  <2>7. ASSUME NEW d \in Commands, d # c
        PROVE  Commanded(cmd[d], index'["state"], snapshot, nextId)
    <3>1. Commanded(cmd[d], index["state"], snapshot, nextId) /\ cmd[d].obj \in Objects
          /\ cmd[d].event.id \in Nat /\ cmd[d].event.prev \in Nat
      BY NumbersAre DEF Sequenced
    <3>2. cmd[d].stage \in Early => cmd[d].obj # o
      BY <1>3, <2>7, EarlyAlone DEF Early
    <3> DEFINE m == index["state"][cmd[d].obj].id
               n == index'["state"][cmd[d].obj].id
    <3>3. m \in Nat /\ n \in Nat /\ m <= n /\ (cmd[d].stage \in Early => n = m)
      BY <1>1, <2>1, <2>2, <2>4, <3>1, <3>2, NumbersAre
    <3> HIDE DEF m, n
    <3>4. \A i \in Nat : i <= m => i <= n
      BY <3>3
    <3>5. QED
      BY <3>1, <3>3, <3>4 DEF Commanded, m, n
  <2>8. Sequenced'
    BY <1>1, <1>2, <2>5, <2>6, <2>7, OneGoesOn
  <2>9. QED
    BY <2>4, <2>8
<1>4. CASE x # "state"
  <2>1. \A p \in Objects : index'["state"][p] = index["state"][p]
    BY <1>1, <1>4, NumbersAre
  <2>2. \A r \in Running : Commanded(r, index["state"], snapshot, nextId)
                           => Commanded(r, index'["state"], snapshot, nextId)
    BY <2>1 DEF Commanded, Running
  <2>3. (x \in Early <=> NextStage[x] \in Early) /\ NextStage[x] \in Logged
    BY <1>1, <1>4 DEF Indexes, Views, NextStage, Early, Logged, Stages
  <2>4. Commanded(q, index["state"], snapshot, nextId)
    BY <1>1, <1>2, <2>3 DEF Sequenced, Commanded
  <2>5. q \in Running
    BY <2>3, NumbersAre DEF q, Running, Logged
  <2>6. \A d \in Commands : Commanded(cmd[d], index'["state"], snapshot, nextId)
    BY <2>2, NumbersAre DEF Sequenced
  <2>7. \A p \in Objects : index'["state"][p].id <= snapshot[p].id /\ snapshot[p].id < nextId
    BY <2>1 DEF Sequenced
  <2>8. Sequenced'
    BY <1>1, <1>2, <2>2, <2>4, <2>5, <2>6, <2>7, OneGoesOn
  <2>9. QED
    BY <2>1, <2>8, NumbersAre
<1>5. QED
  BY <1>3, <1>4

\* After a restart no command runs and the snapshot is the state index.
LEMMA CrashSequenced ==
  ASSUME Base, Sequenced, CrashAndRestart
  PROVE  Sequenced'
<1>1. /\ \A c \in Commands : cmd'[c] = Idle
      /\ snapshot' = index["state"] /\ UNCHANGED <<index, nextId>>
  BY DEF CrashAndRestart
<1>2. \A o \in Objects : index["state"][o].id <= index["state"][o].id /\ index["state"][o].id < nextId
  BY NumbersAre DEF Sequenced
<1>3. QED
  BY <1>1, <1>2, IdleKnown DEF Sequenced

LEMMA SurviveStep == Base /\ SurviveInv /\ [Next]_vars => SurviveInv'
<1>1. SUFFICES ASSUME Base, SurviveInv, [Next]_vars, rebuilds' = 0 PROVE SurviveInv'
  BY DEF SurviveInv
<1>2. rebuilds = 0 /\ ~Rebuild
  <2>1. CASE rebuilds # 0
    <3>1. UNCHANGED rebuilds \/ RebuildBegin
      BY <1>1 DEF Next, CommandStep, ReadAndSign, Apply, Conflict, AppendToLog, PutIndex, Announce, IoFailure,
         CrashAndRestart, Rebuild, RebuildClear, RebuildReplay, RebuildThrows, RebuildFill, RebuildEnd, vars,
         rebuildVars
    <3>2. QED
      BY <1>1, <2>1, <3>1 DEF RebuildBegin, Base, RestTyped
  <2>2. CASE rebuilds = 0 /\ Rebuild
    <3>1. phase = "none"
      BY <1>1, <2>2 DEF SurviveInv
    <3>2. RebuildBegin
      BY <2>2, <3>1 DEF Rebuild, RebuildClear, NextCleared, RebuildReplay, RebuildThrows, RebuildFill, RebuildEnd
    <3>3. QED
      BY <1>1, <2>2, <3>2 DEF RebuildBegin
  <2>3. QED
    BY <2>1, <2>2
<1>3. /\ phase = "none" /\ Sequenced
      /\ \A a \in announced : a.id <= a.state /\ a.state <= index["state"][a.obj].id
  BY <1>1, <1>2 DEF SurviveInv
<1>4. \A a \in announced : a.obj \in Objects /\ a.state \in Nat /\ a.id \in Nat
  BY <1>1 DEF Base, RestTyped
<1>5. ASSUME phase' = "none", Sequenced', UNCHANGED announced,
             \A o \in Objects : index["state"][o].id <= index'["state"][o].id, \A o \in Objects : index'["state"][o].id \in Nat
      PROVE  SurviveInv'
  <2>1. \A a \in announced : a.state <= index'["state"][a.obj].id
    BY <1>1, <1>3, <1>4, <1>5, NumbersAre
  <2>2. QED
    BY <1>3, <1>5, <2>1 DEF SurviveInv
<1>6. ASSUME phase' = "none", Sequenced', UNCHANGED <<announced, index>> PROVE SurviveInv'
  BY <1>3, <1>6 DEF SurviveInv
<1>7. ASSUME NEW c \in Commands, NEW o \in Objects, NEW s \in Status, ReadAndSign(c, o, s) PROVE SurviveInv'
  BY <1>1, <1>3, <1>6, <1>7, SignSequenced DEF ReadAndSign, rebuildVars
<1>8. ASSUME NEW c \in Commands, CommandStep(c) PROVE SurviveInv'
  <2>1. CASE Apply(c)
    BY <1>1, <1>3, <1>6, <2>1, ApplySequenced DEF Apply, rebuildVars
  <2>2. CASE Conflict(c)
    BY <1>1, <1>3, <1>6, <2>2, EndSequenced DEF Conflict, rebuildVars
  <2>3. CASE AppendToLog(c)
    BY <1>1, <1>3, <1>6, <2>3, AppendSequenced DEF AppendToLog, rebuildVars
  <2>4. CASE PutIndex(c)
    <3>1. phase' = "none" /\ UNCHANGED announced
      BY <1>3, <2>4 DEF PutIndex, rebuildVars
    <3>2. Base'
      BY <1>1, InvariantStep, RestTypedStep DEF Base, RestTyped
    <3>3. \A o \in Objects : index'["state"][o].id \in Nat
      BY <3>2 DEF Base, IInv, Typed, Indexes, Entry, Event, NoEvent
    <3>4. QED
      BY <1>1, <1>3, <1>5, <2>4, <3>1, <3>3, PutSequenced
  <2>5. CASE Announce(c)
    <3> DEFINE b == [obj |-> cmd[c].obj, id |-> cmd[c].event.id, state |-> index["state"][cmd[c].obj].id]
    <3>1. /\ cmd[c].stage = "announce" /\ announced' = announced \cup {b} /\ cmd' = [cmd EXCEPT ![c] = Idle]
          /\ UNCHANGED <<index, snapshot, nextId, phase>>
      BY <2>5 DEF Announce, rebuildVars
    <3>2. Sequenced'
      BY <1>1, <1>3, <3>1, EndSequenced
    <3>3. b.id <= b.state /\ b.state <= index["state"][b.obj].id
      BY <1>1, <1>3, <3>1, NumbersAre DEF Sequenced, Commanded, Early, Logged, Stages, NextStage
    <3> HIDE DEF b
    <3>4. QED
      BY <1>3, <3>1, <3>2, <3>3 DEF SurviveInv
  <2>6. QED
    BY <1>8, <2>1, <2>2, <2>3, <2>4, <2>5 DEF CommandStep
<1>9. ASSUME NEW c \in Commands, IoFailure(c) PROVE SurviveInv'
  BY <1>1, <1>3, <1>6, <1>9, EndSequenced DEF IoFailure, rebuildVars
<1>10. CASE CrashAndRestart
  BY <1>1, <1>3, <1>6, <1>10, CrashSequenced DEF CrashAndRestart
<1>11. CASE UNCHANGED vars
  BY <1>3, <1>6, <1>11 DEF vars, rebuildVars, Sequenced
<1>12. QED
  BY <1>1, <1>2, <1>7, <1>8, <1>9, <1>10, <1>11 DEF Next

\* Write-ahead and types hold of every behavior.
LEMMA BaseHolds == Spec => []Base
<1>1. Init => IInv /\ RestTyped
  <2>1. EmptyView \in [Objects -> Entry] /\ "none" \in Phases
    BY DEF EmptyView, Entry, Phases
  <2>2. QED
    BY <2>1, InitHolds DEF Init, RestTyped
<1>2. RestTyped => replayed \in [Objects -> Nat]
  BY DEF RestTyped
<1>3. QED
  BY <1>1, <1>2, InvariantStep, RestTypedStep, PTL DEF Spec, Base

LEMMA InitSequenced == Init => Sequenced /\ SurviveInv
<1>1. SUFFICES ASSUME Init PROVE Sequenced /\ SurviveInv
  OBVIOUS
<1>2. /\ \A c \in Commands : cmd[c] = Idle
      /\ \A o \in Objects : index["state"][o] = NoEvent /\ snapshot[o] = NoEvent
      /\ nextId = 1 /\ announced = {} /\ phase = "none"
  BY <1>1 DEF Init, EmptyView, Indexes
<1>3. Sequenced
  BY <1>2, IdleKnown DEF Sequenced, NoEvent
<1>4. QED
  BY <1>2, <1>3 DEF SurviveInv

\* What a command announced stays in the state that is read, across write errors
\* and restarts.
THEOREM AnnouncedStays == Spec => []AnnouncedSurvives
<1>1. SurviveInv => AnnouncedSurvives
  BY DEF SurviveInv, AnnouncedSurvives
<1>2. Init => SurviveInv
  BY InitSequenced
<1>3. QED
  BY <1>1, <1>2, BaseHolds, SurviveStep, PTL DEF Spec

-----------------------------------------------------------------------------
(* Without faults, the projections follow the log.                            *)

\* The last event of a log, if it has one.
EndOf(l) == IF l = <<>> THEN NoEvent ELSE l[Len(l)]

\* How far an append has come among the indexes.
Pos == [catalog |-> 1, state |-> 2, control |-> 3, market |-> 4, company |-> 5, contract |-> 6,
        space |-> 7, announce |-> 8]

\* The indexes that appends and rebuilds keep.
Kept == IF rebuilds = 0 THEN Indexes ELSE {"catalog", "state", "market"}

\* Command q has yet to put index x of object o.
Waits(q, o, x) == q.obj = o /\ q.stage \in Indexes /\ Pos[q.stage] <= Pos[x]

\* Command r puts the last event of the log, behind q or beside it.
Leads(r, q, l) ==
  r.obj = q.obj /\ r.event = EndOf(l[q.obj]) /\ r.stage \in Indexes /\ Pos[r.stage] <= Pos[q.stage]

\* Where the projections of each log are while commands run.
Follows ==
  /\ \A o \in Objects :
       snapshot[o] = EndOf(log[o]) \/ \E c \in Commands : cmd[c].stage = "log" /\ cmd[c].obj = o
  /\ \A c \in Commands : cmd[c].stage = "log" => EndOf(log[cmd[c].obj]).id = cmd[c].event.prev
  /\ \A c \in Commands : cmd[c].stage \in Indexes /\ cmd[c].event # EndOf(log[cmd[c].obj]) =>
       cmd[c].event.id < EndOf(log[cmd[c].obj]).id /\ \E d \in Commands : Leads(cmd[d], cmd[c], log)
  /\ \A o \in Objects : \A x \in Kept :
       log[o] # <<>> /\ (\A c \in Commands : ~Waits(cmd[c], o, x)) => index[x][o] = EntryFor(x, o, EndOf(log[o]))

\* Where they are while a rebuild runs.
Rebuilt(o) ==
  /\ replayed[o] <= Len(log[o])
  /\ shadow[o] = IF replayed[o] = 0 THEN NoEvent ELSE log[o][replayed[o]]
  /\ log[o] # <<>> => index["catalog"][o] = EndOf(log[o])
  /\ phase # "replay" => replayed[o] = 0
  /\ phase # "state" => index["state"][o] = shadow[o]
  /\ phase \notin {"state", "market"} =>
       index["market"][o] = IF snapshot[o].id = 0 THEN NoEvent ELSE EntryFor("market", o, shadow[o])
  /\ snapshot[o] = NoEvent \/ (phase = "replay" /\ snapshot[o] = shadow[o] /\ Pending = {})

\* No command runs during a rebuild, which has come as far as Rebuilt says.
Rebuilding ==
  /\ rebuilds # 0
  /\ \A c \in Commands : cmd[c].stage = "idle"
  /\ \A o \in Objects : Rebuilt(o)

\* An event joins one log once.
Fresh ==
  /\ \A o \in Objects : \A i \in DOMAIN log[o] : log[o][i].id < nextId
  /\ \A c \in Commands : cmd[c].stage \in {"verify", "log"} =>
       \A o \in Objects : \A i \in DOMAIN log[o] : log[o][i].id # cmd[c].event.id

\* The inductive invariant of ProjectionsAgree.
AgreeInv ==
  /\ Fresh
  /\ phase = "none" => Sequenced /\ Follows
  /\ phase # "none" => Rebuilding

\* Where a put and its next stage are in the order of the indexes.
LEMMA Positions ==
  /\ Indexes = {"catalog", "state", "control", "market", "company", "contract", "space"}
  /\ \A x \in Indexes : /\ Pos[x] \in 1..7 /\ Pos[NextStage[x]] = Pos[x] + 1
                        /\ NextStage[x] \in Indexes <=> Pos[x] < 7
                        /\ NextStage[x] \notin {"log", "verify", "idle"}
  /\ \A x, y \in Indexes : Pos[x] = Pos[y] => x = y
  /\ "log" \notin Indexes /\ "verify" \notin Indexes /\ "idle" \notin Indexes /\ "announce" \notin Indexes
  /\ Pos["catalog"] = 1 /\ Kept \subseteq Indexes
<1>1. Indexes = {"catalog", "state", "control", "market", "company", "contract", "space"}
  BY DEF Indexes, Views
<1>2. \A x \in Indexes : Pos[x] \in 1..7 /\ Pos[NextStage[x]] = Pos[x] + 1
  BY <1>1 DEF Pos, NextStage
<1>3. \A x \in Indexes : /\ NextStage[x] \in Indexes <=> Pos[x] < 7
                         /\ NextStage[x] \notin {"log", "verify", "idle"}
  BY <1>1 DEF Pos, NextStage
<1>4. \A x, y \in Indexes : Pos[x] = Pos[y] => x = y
  BY <1>1 DEF Pos
<1>5. QED
  BY <1>1, <1>2, <1>3, <1>4 DEF Kept, Pos

\* The end of a log is an event of it.
LEMMA EndsAre ==
  ASSUME Base
  PROVE  /\ \A o \in Objects : log[o] \in Seq(Event) /\ EndOf(log[o]) \in Entry
                               /\ EndOf(log[o]).id \in Nat /\ EndOf(log[o]) = LastOf(o)
         /\ \A o \in Objects : log[o] # <<>> => EndOf(log[o]).id # 0
<1>1. ASSUME NEW l \in Seq(Event) PROVE EndOf(l) \in Entry /\ (l # <<>> => EndOf(l) \in Event)
  <2>1. l # <<>> => Len(l) \in 1..Len(l) /\ l[Len(l)] \in Event
    OBVIOUS
  <2>2. QED
    BY <2>1 DEF EndOf, Entry
<1>2. \A e \in Entry : e.id \in Nat /\ (e \in Event => e.id # 0)
  BY DEF Entry, Event, NoEvent
<1>3. \A o \in Objects : log[o] \in Seq(Event)
  BY DEF Base, IInv, Typed
<1>4. \A o \in Objects : EndOf(log[o]) = LastOf(o)
  BY DEF EndOf, LastOf
<1>5. ASSUME NEW o \in Objects
      PROVE  EndOf(log[o]) \in Entry /\ EndOf(log[o]).id \in Nat /\ (log[o] # <<>> => EndOf(log[o]).id # 0)
  <2>1. EndOf(log[o]) \in Entry /\ (log[o] # <<>> => EndOf(log[o]) \in Event)
    BY <1>1, <1>3
  <2>2. QED
    BY <1>2, <2>1
<1>6. QED
  BY <1>3, <1>4, <1>5

\* The end of a log that grew is what was appended.
LEMMA EndAppended ==
  ASSUME NEW l \in Seq(Event), NEW e \in Event
  PROVE  Append(l, e) # <<>> /\ EndOf(Append(l, e)) = e
<1>1. Len(Append(l, e)) = Len(l) + 1 /\ Append(l, e)[Len(l) + 1] = e /\ Len(l) + 1 # 0
  OBVIOUS
<1>2. Append(l, e) # <<>>
  BY <1>1
<1>3. QED
  BY <1>1, <1>2 DEF EndOf

\* A command begins, is rejected or returns: it has nothing to put.
LEMMA NoneToPut ==
  ASSUME Base, Follows, NEW c \in Commands, NEW q, cmd' = [cmd EXCEPT ![c] = q],
         UNCHANGED <<log, index, snapshot, rebuilds>>,
         cmd[c].stage \notin Indexes, q.stage \notin Indexes, cmd[c].stage # "log", q.stage # "log"
  PROVE  Follows'
<1>1. cmd'[c] = q /\ \A d \in Commands : d # c => cmd'[d] = cmd[d]
  BY NumbersAre
<1>2. \A o \in Objects : \A x \in Kept : ~Waits(cmd[c], o, x) /\ ~Waits(q, o, x)
  BY DEF Waits
<1>3. \A d \in Commands : Leads(cmd[d], cmd[d], log) => d # c
  BY DEF Leads
<1>4. \A d, f \in Commands : Leads(cmd[d], cmd[f], log) => d # c
  BY DEF Leads
<1>5. \A o \in Objects :
        snapshot[o] = EndOf(log[o]) \/ \E d \in Commands : cmd'[d].stage = "log" /\ cmd'[d].obj = o
  BY <1>1 DEF Follows
<1>6. \A d \in Commands : cmd'[d].stage = "log" => EndOf(log[cmd'[d].obj]).id = cmd'[d].event.prev
  BY <1>1 DEF Follows
<1>7. ASSUME NEW d \in Commands, cmd'[d].stage \in Indexes, cmd'[d].event # EndOf(log[cmd'[d].obj])
      PROVE  cmd'[d].event.id < EndOf(log[cmd'[d].obj]).id /\ \E f \in Commands : Leads(cmd'[f], cmd'[d], log)
  <2>1. cmd'[d] = cmd[d]
    BY <1>1, <1>7
  <2>2. cmd[d].event.id < EndOf(log[cmd[d].obj]).id /\ \E f \in Commands : Leads(cmd[f], cmd[d], log)
    BY <1>7, <2>1 DEF Follows
  <2>3. QED
    BY <1>1, <1>4, <2>1, <2>2
<1>8. \A o \in Objects : \A x \in Kept :
        log[o] # <<>> /\ (\A d \in Commands : ~Waits(cmd'[d], o, x)) => index[x][o] = EntryFor(x, o, EndOf(log[o]))
  <2>1. \A o \in Objects : \A x \in Kept : \A d \in Commands : Waits(cmd[d], o, x) => Waits(cmd'[d], o, x)
    BY <1>1, <1>2
  <2>2. QED
    BY <2>1 DEF Follows
<1>9. Kept' = Kept
  BY DEF Kept
<1>10. QED
  BY <1>5, <1>6, <1>7, <1>8, <1>9 DEF Follows

\* What is applied is not in the log yet, and follows its end.
LEMMA ApplyFollows ==
  ASSUME Base, Sequenced, Follows, NEW c \in Commands, Apply(c)
  PROVE  Follows'
<1> DEFINE o == cmd[c].obj
           e == cmd[c].event
           q == [cmd[c] EXCEPT !.stage = "log"]
<1>1. /\ cmd' = [cmd EXCEPT ![c] = q] /\ cmd[c].stage = "verify" /\ e.prev = snapshot[o].id
      /\ snapshot' = [snapshot EXCEPT ![o] = e] /\ UNCHANGED <<log, index, rebuilds>>
  BY DEF Apply, Accepts, ExtendsLatest, NextStage, rebuildVars
<1>2. q.stage = "log" /\ q.obj = o /\ q.event = e /\ o \in Objects
  BY NumbersAre DEF Running
<1> HIDE DEF q
<1>3. cmd'[c] = q /\ (\A d \in Commands : d # c => cmd'[d] = cmd[d])
      /\ snapshot'[o] = e /\ \A p \in Objects : p # o => snapshot'[p] = snapshot[p]
  BY <1>1, <1>2, NumbersAre
<1>4. snapshot[o] = EndOf(log[o])
  BY <1>2, ApplyAlone DEF Follows, Early
<1>5. \A p \in Objects :
        snapshot'[p] = EndOf(log[p]) \/ \E d \in Commands : cmd'[d].stage = "log" /\ cmd'[d].obj = p
  <2>1. ASSUME NEW p \in Objects, p # o, NEW d \in Commands, cmd[d].stage = "log" /\ cmd[d].obj = p
        PROVE  cmd'[d].stage = "log" /\ cmd'[d].obj = p
    BY <1>3, <2>1
  <2>2. cmd'[c].stage = "log" /\ cmd'[c].obj = o
    BY <1>2, <1>3
  <2>3. QED
    BY <1>3, <2>1, <2>2 DEF Follows
<1>6. \A d \in Commands : cmd'[d].stage = "log" => EndOf(log[cmd'[d].obj]).id = cmd'[d].event.prev
  BY <1>1, <1>2, <1>3, <1>4 DEF Follows
<1>7. ASSUME NEW d \in Commands, cmd'[d].stage \in Indexes, cmd'[d].event # EndOf(log[cmd'[d].obj])
      PROVE  cmd'[d].event.id < EndOf(log[cmd'[d].obj]).id /\ \E f \in Commands : Leads(cmd'[f], cmd'[d], log)
  <2>1. d # c /\ cmd'[d] = cmd[d]
    BY <1>2, <1>3, <1>7, Positions
  <2>2. cmd[d].event.id < EndOf(log[cmd[d].obj]).id /\ \E f \in Commands : Leads(cmd[f], cmd[d], log)
    BY <1>7, <2>1 DEF Follows
  <2>3. \A f \in Commands : Leads(cmd[f], cmd[d], log) => f # c
    BY <1>1, Positions DEF Leads
  <2>4. QED
    BY <1>3, <2>1, <2>2, <2>3
<1>8. \A p \in Objects : \A x \in Kept :
        log[p] # <<>> /\ (\A d \in Commands : ~Waits(cmd'[d], p, x)) => index[x][p] = EntryFor(x, p, EndOf(log[p]))
  <2>1. \A p \in Objects : \A x \in Kept : ~Waits(cmd[c], p, x)
    BY <1>1, Positions DEF Waits
  <2>2. QED
    BY <1>3, <2>1 DEF Follows
<1>9. Kept' = Kept
  BY <1>1 DEF Kept
<1>10. QED
  BY <1>1, <1>5, <1>6, <1>7, <1>8, <1>9 DEF Follows

\* What is appended is now the end, and all indexes wait for it.
LEMMA AppendFollows ==
  ASSUME Base, Sequenced, Follows, NEW c \in Commands, AppendToLog(c)
  PROVE  Follows'
<1> DEFINE o == cmd[c].obj
           e == cmd[c].event
           q == [cmd[c] EXCEPT !.stage = "catalog"]
<1>1. /\ cmd' = [cmd EXCEPT ![c] = q] /\ cmd[c].stage = "log" /\ e \in Event /\ o \in Objects
      /\ log' = [log EXCEPT ![o] = Append(log[o], e)] /\ UNCHANGED <<index, snapshot, rebuilds>>
  BY NumbersAre DEF AppendToLog, NextStage, rebuildVars, Base, IInv, RealEvents
<1>2. q.stage = "catalog" /\ q.obj = o /\ q.event = e /\ "catalog" \in Indexes
  BY NumbersAre, Positions DEF Running
<1> HIDE DEF q
<1>3. cmd'[c] = q /\ \A d \in Commands : d # c => cmd'[d] = cmd[d]
  BY <1>1, NumbersAre
<1>4. /\ log'[o] = Append(log[o], e) /\ EndOf(log'[o]) = e
      /\ \A p \in Objects : p # o => log'[p] = log[p]
  BY <1>1, EndAppended DEF Base, IInv, Typed
<1>5. /\ EndOf(log[o]).id = e.prev /\ e.prev < e.id /\ e.prev \in Nat /\ e.id \in Nat
      /\ snapshot[o] = e
  BY <1>1, NumbersAre DEF Follows, Sequenced, Commanded, Early
<1>6. \A d \in Commands : d # c /\ cmd[d].stage = "log" => cmd[d].obj # o
  BY <1>1, EarlyAlone DEF Early
<1>7. \A p \in Objects :
        snapshot[p] = EndOf(log'[p]) \/ \E d \in Commands : cmd'[d].stage = "log" /\ cmd'[d].obj = p
  <2>1. ASSUME NEW p \in Objects, p # o, NEW d \in Commands, cmd[d].stage = "log" /\ cmd[d].obj = p
        PROVE  cmd'[d].stage = "log" /\ cmd'[d].obj = p
    BY <1>3, <2>1
  <2>2. QED
    BY <1>4, <1>5, <2>1 DEF Follows
<1>8. \A d \in Commands : cmd'[d].stage = "log" => EndOf(log'[cmd'[d].obj]).id = cmd'[d].event.prev
  <2>1. ASSUME NEW d \in Commands, cmd'[d].stage = "log"
        PROVE  EndOf(log'[cmd'[d].obj]).id = cmd'[d].event.prev
    <3>1. d # c /\ cmd'[d] = cmd[d]
      BY <1>2, <1>3, <2>1
    <3>2. log'[cmd[d].obj] = log[cmd[d].obj]
      BY <1>4, <1>6, <2>1, <3>1, NumbersAre
    <3>3. QED
      BY <2>1, <3>1, <3>2 DEF Follows
  <2>2. QED
    BY <2>1
<1>9. ASSUME NEW d \in Commands, cmd'[d].stage \in Indexes, cmd'[d].event # EndOf(log'[cmd'[d].obj])
      PROVE  cmd'[d].event.id < EndOf(log'[cmd'[d].obj]).id /\ \E f \in Commands : Leads(cmd'[f], cmd'[d], log')
  <2>1. d # c /\ cmd'[d] = cmd[d] /\ cmd[d].obj \in Objects /\ cmd[d].event.id \in Nat
    BY <1>2, <1>3, <1>4, <1>9, NumbersAre
  <2>2. CASE cmd[d].obj = o
    <3>1. cmd[d].event # EndOf(log[o]) => cmd[d].event.id < EndOf(log[o]).id
      BY <1>9, <2>1, <2>2 DEF Follows
    <3>2. cmd[d].event.id < e.id
      <4>1. cmd[d].event.id = e.prev \/ cmd[d].event.id < e.prev
        BY <1>5, <3>1
      <4>2. QED
        BY <1>5, <2>1, <4>1
    <3>3. cmd[d].stage \in Indexes /\ Pos["catalog"] <= Pos[cmd[d].stage]
      BY <1>9, <2>1, Positions
    <3>4. Leads(q, cmd[d], log')
      BY <1>2, <1>4, <2>2, <3>3 DEF Leads
    <3>5. QED
      BY <1>3, <1>4, <2>1, <2>2, <3>2, <3>4
  <2>3. CASE cmd[d].obj # o
    <3>1. PICK f \in Commands : cmd[d].event.id < EndOf(log[cmd[d].obj]).id /\ Leads(cmd[f], cmd[d], log)
      BY <1>4, <1>9, <2>1, <2>3 DEF Follows
    <3>2. f # c
      BY <2>3, <3>1 DEF Leads
    <3>3. Leads(cmd'[f], cmd'[d], log')
      BY <1>3, <1>4, <2>1, <2>3, <3>1, <3>2 DEF Leads
    <3>4. QED
      BY <1>4, <2>1, <2>3, <3>1, <3>3
  <2>4. QED
    BY <2>2, <2>3
<1>10. ASSUME NEW p \in Objects, NEW x \in Kept, log'[p] # <<>>, \A d \in Commands : ~Waits(cmd'[d], p, x)
       PROVE  index[x][p] = EntryFor(x, p, EndOf(log'[p]))
  <2>1. p # o
    <3>1. x \in Indexes /\ Pos[x] \in 1..7
      BY Positions
    <3>2. p = o => Waits(cmd'[c], p, x)
      BY <1>2, <1>3, <3>1, Positions DEF Waits
    <3>3. QED
      BY <1>10, <3>2
  <2>2. \A d \in Commands : ~Waits(cmd[d], p, x)
    BY <1>3, <1>10, <2>1 DEF Waits
  <2>3. QED
    BY <1>4, <1>10, <2>1, <2>2 DEF Follows
<1>11. Kept' = Kept
  BY <1>1 DEF Kept
<1>12. QED
  BY <1>1, <1>7, <1>8, <1>9, <1>10, <1>11 DEF Follows

\* A put leaves the end of the log in its index, or a later command will.
LEMMA PutFollows ==
  ASSUME Base, Sequenced, Follows, NEW c \in Commands, PutIndex(c)
  PROVE  Follows'
<1> DEFINE x == cmd[c].stage
           o == cmd[c].obj
           e == cmd[c].event
           q == [cmd[c] EXCEPT !.stage = NextStage[x]]
<1>1. /\ x \in Indexes /\ cmd' = [cmd EXCEPT ![c] = q]
      /\ UNCHANGED <<log, snapshot, rebuilds>> /\ o \in Objects /\ e.id \in Nat
      /\ index'[x][o] = EntryFor(x, o, e)
      /\ \A y \in Indexes, p \in Objects : y # x \/ p # o => index'[y][p] = index[y][p]
  BY PutChanges, NumbersAre
<1>2. q.stage = NextStage[x] /\ q.obj = o /\ q.event = e
  BY NumbersAre DEF Running
<1> HIDE DEF q
<1>3. cmd'[c] = q /\ \A d \in Commands : d # c => cmd'[d] = cmd[d]
  BY <1>1, NumbersAre
<1>4. /\ Pos[x] \in 1..7 /\ Pos[NextStage[x]] = Pos[x] + 1 /\ NextStage[x] # "log"
      /\ NextStage[x] \in Indexes <=> Pos[x] < 7
  BY <1>1, Positions
<1>5. \A d \in Commands : cmd[d].stage = x /\ cmd[d].obj = o => e.id <= cmd[d].event.id
  BY DEF PutIndex, InTurn
<1>6. \A p \in Objects :
        snapshot[p] = EndOf(log[p]) \/ \E d \in Commands : cmd'[d].stage = "log" /\ cmd'[d].obj = p
  <2>1. \A d \in Commands : cmd[d].stage = "log" => cmd'[d] = cmd[d]
    BY <1>1, <1>3, Positions
  <2>2. QED
    BY <2>1 DEF Follows
<1>7. \A d \in Commands : cmd'[d].stage = "log" => EndOf(log[cmd'[d].obj]).id = cmd'[d].event.prev
  BY <1>2, <1>3, <1>4 DEF Follows
<1>8. ASSUME NEW d \in Commands, cmd'[d].stage \in Indexes, cmd'[d].event # EndOf(log[cmd'[d].obj])
      PROVE  cmd'[d].event.id < EndOf(log[cmd'[d].obj]).id /\ \E f \in Commands : Leads(cmd'[f], cmd'[d], log)
  <2>1. /\ cmd'[d].obj = cmd[d].obj /\ cmd'[d].event = cmd[d].event /\ cmd[d].stage \in Indexes
        /\ Pos[cmd[d].stage] \in 1..7 /\ Pos[cmd'[d].stage] \in 1..7 /\ Pos[cmd[d].stage] <= Pos[cmd'[d].stage]
        /\ (d = c => Pos[cmd'[d].stage] = Pos[x] + 1)
    BY <1>1, <1>2, <1>3, <1>4, <1>8, Positions
  <2>2. PICK f \in Commands : cmd[d].event.id < EndOf(log[cmd[d].obj]).id /\ Leads(cmd[f], cmd[d], log)
    BY <1>8, <2>1 DEF Follows
  <2>3. cmd[f].stage \in Indexes /\ Pos[cmd[f].stage] \in 1..7 /\ Pos[cmd[f].stage] <= Pos[cmd[d].stage]
        /\ cmd[f].obj = cmd[d].obj /\ cmd[f].event = EndOf(log[cmd[d].obj])
    BY <2>2, Positions DEF Leads
  <2>4. CASE f # c
    <3>1. Leads(cmd'[f], cmd'[d], log)
      BY <1>3, <2>1, <2>3, <2>4 DEF Leads
    <3>2. QED
      BY <2>1, <2>2, <3>1
  <2>5. CASE f = c
    <3>1. d # c /\ cmd'[d] = cmd[d]
      BY <1>3, <1>8, <2>1, <2>3, <2>5
    <3>2. cmd[d].stage # x
      <4>1. cmd[d].event.id < e.id /\ cmd[d].obj = o /\ cmd[d].event.id \in Nat
        BY <2>2, <2>3, <2>5, NumbersAre
      <4>2. QED
        BY <1>1, <1>5, <4>1
    <3>3. Pos[x] < Pos[cmd[d].stage]
      BY <1>1, <1>4, <2>1, <2>3, <2>5, <3>2, Positions
    <3>4. NextStage[x] \in Indexes /\ Pos[NextStage[x]] <= Pos[cmd[d].stage]
      BY <1>4, <2>1, <3>3
    <3>5. Leads(cmd'[c], cmd'[d], log)
      BY <1>2, <1>3, <2>3, <2>5, <3>1, <3>4 DEF Leads
    <3>6. QED
      BY <2>1, <2>2, <3>5
  <2>6. QED
    BY <2>4, <2>5
<1>9. ASSUME NEW p \in Objects, NEW y \in Kept, log[p] # <<>>, \A d \in Commands : ~Waits(cmd'[d], p, y)
      PROVE  index'[y][p] = EntryFor(y, p, EndOf(log[p]))
  <2>1. y \in Indexes /\ Pos[y] \in 1..7
    BY Positions
  <2>2. \A d \in Commands : d # c => ~Waits(cmd[d], p, y)
    BY <1>3, <1>9
  <2>3. CASE Waits(cmd[c], p, y)
    <3>1. p = o /\ Pos[x] <= Pos[y]
      BY <2>3 DEF Waits
    <3>2. ~(Pos[x] < Pos[y])
      BY <1>2, <1>3, <1>4, <1>9, <2>1, <3>1 DEF Waits
    <3>3. y = x
      BY <1>1, <1>4, <2>1, <3>1, <3>2, Positions
    <3>4. e = EndOf(log[o])
      <4>1. SUFFICES ASSUME e # EndOf(log[o]) PROVE FALSE
        OBVIOUS
      <4>2. PICK f \in Commands : e.id < EndOf(log[o]).id /\ Leads(cmd[f], cmd[c], log)
        BY <1>1, <4>1 DEF Follows
      <4>3. f # c
        BY <4>1, <4>2 DEF Leads
      <4>4. Waits(cmd[f], p, y)
        BY <3>1, <3>3, <4>2 DEF Leads, Waits
      <4>5. QED
        BY <2>2, <4>3, <4>4
    <3>5. QED
      BY <1>1, <3>1, <3>3, <3>4
  <2>4. CASE ~Waits(cmd[c], p, y)
    <3>1. index[y][p] = EntryFor(y, p, EndOf(log[p]))
      BY <1>9, <2>2, <2>4 DEF Follows
    <3>2. y # x \/ p # o
      BY <1>1, <1>4, <2>4 DEF Waits
    <3>3. QED
      BY <1>1, <2>1, <3>1, <3>2
  <2>5. QED
    BY <2>3, <2>4
<1>10. Kept' = Kept
  BY <1>1 DEF Kept
<1>11. QED
  BY <1>1, <1>6, <1>7, <1>8, <1>9, <1>10 DEF Follows

-----------------------------------------------------------------------------
(* A rebuild puts them back.                                                  *)

\* No write has failed, the process has not died, and no replay was rejected.
Undisturbed == faults = 0 /\ RebuildSucceeds

\* The types that the arguments about rebuilds rest on.
LEMMA RebuildTyped ==
  ASSUME Base
  PROVE  /\ index \in [Indexes -> [Objects -> Entry]] /\ shadow \in [Objects -> Entry]
         /\ snapshot \in [Objects -> Entry] /\ replayed \in [Objects -> Nat]
         /\ \A o \in Objects : log[o] \in Seq(Event) /\ replayed[o] \in Nat /\ Len(log[o]) \in Nat
         /\ NoEvent.id = 0 /\ rebuilds \in Nat /\ nextId \in Nat \ {0}
         /\ \A o \in Objects : EmptyView[o] = NoEvent
  BY DEF Base, IInv, Typed, RestTyped, EmptyView, NoEvent

\* A rebuild begins with every projection in place.
LEMMA BeginRebuilds ==
  ASSUME Base, AgreeInv, RebuildBegin
  PROVE  Rebuilding'
<1>1. /\ phase = "none" /\ (\A c \in Commands : cmd[c].stage = "idle") /\ rebuilds' = rebuilds + 1
      /\ phase' = "state" /\ snapshot' = EmptyView /\ shadow' = EmptyView
      /\ replayed' = [o \in Objects |-> 0] /\ UNCHANGED <<log, index, cmd>>
  BY DEF RebuildBegin
<1>2. Follows /\ rebuilds' # 0
  BY <1>1, RebuildTyped DEF AgreeInv
<1>3. ASSUME NEW o \in Objects PROVE Rebuilt(o)'
  <2>1. log[o] # <<>> => index["catalog"][o] = EndOf(log[o])
    <3>1. "catalog" \in Kept /\ \A c \in Commands : ~Waits(cmd[c], o, "catalog")
      BY <1>1, Positions DEF Kept, Waits
    <3>2. \A e : EntryFor("catalog", o, e) = e
      BY DEF EntryFor, Lists, Views
    <3>3. QED
      BY <1>2, <3>1, <3>2 DEF Follows
  <2>2. replayed'[o] = 0 /\ shadow'[o] = NoEvent /\ snapshot'[o] = NoEvent /\ 0 <= Len(log[o])
    BY <1>1, RebuildTyped
  <2>3. QED
    BY <1>1, <2>1, <2>2 DEF Rebuilt
<1>4. QED
  BY <1>1, <1>2, <1>3 DEF Rebuilding

\* What is cleared is put back from the shadow snapshot later.
LEMMA ClearRebuilds ==
  ASSUME Base, Rebuilding, RebuildClear
  PROVE  Rebuilding'
<1>1. /\ phase \in DOMAIN NextCleared /\ index' = [index EXCEPT ![phase] = EmptyView]
      /\ phase' = NextCleared[phase] /\ UNCHANGED <<log, snapshot, cmd, shadow, replayed, rebuilds>>
  BY DEF RebuildClear
<1>2. phase \in {"state", "market", "company", "contract", "space", "control"}
  BY <1>1 DEF NextCleared
<1>3. /\ "catalog" \in Indexes /\ "state" \in Indexes /\ "market" \in Indexes /\ phase \in Indexes
  BY <1>2 DEF Indexes, Views
<1>4. /\ index'[phase] = EmptyView
      /\ \A x \in Indexes : x # phase => index'[x] = index[x]
  BY <1>1, <1>3, RebuildTyped
<1>5. phase = "state" => phase' = "market"
  BY <1>1 DEF NextCleared
<1>6. phase' # "state"
  BY <1>1, <1>2 DEF NextCleared
<1>7. ASSUME NEW o \in Objects PROVE Rebuilt(o)'
  <2>1. Rebuilt(o) /\ phase # "replay" /\ replayed[o] = 0 /\ shadow[o] = NoEvent /\ snapshot[o] = NoEvent
    BY <1>2 DEF Rebuilding, Rebuilt
  <2>2. index'["catalog"][o] = index["catalog"][o]
    BY <1>2, <1>3, <1>4
  <2>3. index'["state"][o] = NoEvent
    BY <1>2, <1>3, <1>4, <2>1, RebuildTyped DEF Rebuilt
  <2>4. phase' \notin {"state", "market"} => index'["market"][o] = NoEvent
    BY <1>2, <1>3, <1>4, <1>5, <2>1, RebuildTyped DEF Rebuilt
  <2>5. QED
    BY <1>1, <2>1, <2>2, <2>3, <2>4, RebuildTyped DEF Rebuilt
<1>8. QED
  BY <1>1, <1>7 DEF Rebuilding

\* The shadow snapshot is the log up to what was replayed.
LEMMA ReplayRebuilds ==
  ASSUME Base, Rebuilding, NEW o \in Objects, RebuildReplay(o)
  PROVE  Rebuilding'
<1> DEFINE e == NextReplayed(o)
<1>1. /\ phase = "replay" /\ o \in Pending /\ shadow' = [shadow EXCEPT ![o] = e]
      /\ index' = [index EXCEPT !["state"][o] = e] /\ replayed' = [replayed EXCEPT ![o] = @ + 1]
      /\ UNCHANGED <<log, snapshot, cmd, phase, rebuilds>>
  BY DEF RebuildReplay, Scanned
<1>2. replayed[o] < Len(log[o]) /\ e = log[o][replayed[o] + 1]
  BY <1>1 DEF Pending, NextReplayed
<1>3. "catalog" \in Indexes /\ "state" \in Indexes /\ "market" \in Indexes
  BY DEF Indexes, Views
<1> HIDE DEF e
<1>4. /\ index'["state"] = [index["state"] EXCEPT ![o] = e]
      /\ \A x \in Indexes : x # "state" => index'[x] = index[x]
  BY <1>1, <1>3, RebuildTyped
<1>5. /\ index'["state"][o] = e /\ \A p \in Objects : p # o => index'["state"][p] = index["state"][p]
      /\ index'["catalog"] = index["catalog"] /\ index'["market"] = index["market"]
  BY <1>3, <1>4, RebuildTyped
<1>6. /\ shadow'[o] = e /\ \A p \in Objects : p # o => shadow'[p] = shadow[p]
      /\ replayed'[o] = replayed[o] + 1 /\ \A p \in Objects : p # o => replayed'[p] = replayed[p]
  BY <1>1, RebuildTyped
<1>7. ASSUME NEW p \in Objects PROVE Rebuilt(p)'
  <2>1. Rebuilt(p) /\ snapshot[p] = NoEvent
    <3>1. Rebuilt(p) /\ Pending # {}
      BY <1>1 DEF Rebuilding
    <3>2. QED
      BY <3>1 DEF Rebuilt
  <2>2. replayed'[p] <= Len(log[p])
    <3>1. replayed[o] + 1 <= Len(log[o])
      BY <1>2, RebuildTyped
    <3>2. QED
      BY <1>6, <2>1, <3>1 DEF Rebuilt
  <2>3. shadow'[p] = IF replayed'[p] = 0 THEN NoEvent ELSE log[p][replayed'[p]]
    <3>1. replayed[o] + 1 # 0
      BY RebuildTyped
    <3>2. QED
      BY <1>2, <1>6, <2>1, <3>1 DEF Rebuilt
  <2>4. index'["state"][p] = shadow'[p]
    BY <1>1, <1>5, <1>6, <2>1 DEF Rebuilt
  <2>5. index'["market"][p] = NoEvent /\ (log[p] # <<>> => index'["catalog"][p] = EndOf(log[p]))
    BY <1>1, <1>5, <2>1, RebuildTyped DEF Rebuilt
  <2>6. QED
    BY <1>1, <2>1, <2>2, <2>3, <2>4, <2>5, RebuildTyped DEF Rebuilt
<1>8. QED
  BY <1>1, <1>7 DEF Rebuilding

\* What is filled in is the end of the log.
LEMMA FillRebuilds ==
  ASSUME Base, Rebuilding, NEW o \in Objects, RebuildFill(o)
  PROVE  Rebuilding'
<1>1. /\ phase = "replay" /\ Pending = {} /\ shadow[o].id # 0 /\ snapshot[o].id = 0
      /\ snapshot' = [snapshot EXCEPT ![o] = shadow[o]]
      /\ index' = [x \in Indexes |-> IF x \in Views /\ o \in Refilled(x)
                                     THEN [index[x] EXCEPT ![o] = shadow[o]] ELSE index[x]]
      /\ UNCHANGED <<log, cmd, phase, shadow, replayed, rebuilds>>
  BY DEF RebuildFill, Unfilled
<1>2. /\ "catalog" \in Indexes \ Views /\ "state" \in Indexes \ Views /\ "market" \in Indexes /\ "market" \in Views
  BY DEF Indexes, Views
<1>3. index'["catalog"] = index["catalog"] /\ index'["state"] = index["state"]
  BY <1>1, <1>2
<1>4. index'["market"] = IF o \in Refilled("market") THEN [index["market"] EXCEPT ![o] = shadow[o]] ELSE index["market"]
  BY <1>1, <1>2
<1>5. o \in Refilled("market") <=> Lists("market", o, shadow[o])
  BY <1>1, <1>2 DEF Refilled, Lists
<1>6. snapshot'[o] = shadow[o] /\ \A p \in Objects : p # o => snapshot'[p] = snapshot[p]
  BY <1>1, RebuildTyped
<1>7. Pending' = Pending
  BY <1>1, <1>3 DEF Pending
<1>8. ASSUME NEW p \in Objects PROVE Rebuilt(p)'
  <2>1. Rebuilt(p)
    BY DEF Rebuilding
  <2>2. index'["market"][p] = IF snapshot'[p].id = 0 THEN NoEvent ELSE EntryFor("market", p, shadow[p])
    <3>1. index["market"] \in [Objects -> Entry]
      BY <1>2, RebuildTyped
    <3>2. CASE p = o
      BY <1>1, <1>4, <1>5, <1>6, <2>1, <3>1, <3>2 DEF Rebuilt, EntryFor
    <3>3. CASE p # o
      BY <1>1, <1>4, <1>6, <2>1, <3>1, <3>3 DEF Rebuilt
    <3>4. QED
      BY <3>2, <3>3
  <2>3. snapshot'[p] = NoEvent \/ snapshot'[p] = shadow[p]
    BY <1>6, <2>1 DEF Rebuilt
  <2>4. QED
    BY <1>1, <1>3, <1>7, <2>1, <2>2, <2>3 DEF Rebuilt
<1>9. QED
  BY <1>1, <1>8 DEF Rebuilding

\* When all is replayed and filled, the projections agree again.
LEMMA EndRebuilds ==
  ASSUME Base, Fresh, Rebuilding, RebuildEnd
  PROVE  Sequenced' /\ Follows'
<1>1. /\ phase = "replay" /\ Pending = {} /\ Unfilled = {} /\ rebuilds # 0
      /\ \A c \in Commands : cmd[c].stage = "idle"
      /\ UNCHANGED <<log, index, snapshot, cmd, nextId, rebuilds>>
  BY DEF RebuildEnd, Rebuilding
<1>2. ASSUME NEW o \in Objects
      PROVE  /\ snapshot[o] = EndOf(log[o]) /\ index["state"][o] = EndOf(log[o])
             /\ EndOf(log[o]).id < nextId /\ EndOf(log[o]).id \in Nat
             /\ log[o] # <<>> => /\ index["catalog"][o] = EndOf(log[o])
                                 /\ index["market"][o] = EntryFor("market", o, EndOf(log[o]))
  <2>1. Rebuilt(o) /\ index["state"][o] = shadow[o]
    BY <1>1 DEF Rebuilding, Rebuilt
  <2>2. log[o] \in Seq(Event) /\ replayed[o] \in Nat /\ replayed[o] <= Len(log[o]) /\ Len(log[o]) \in Nat
    BY <2>1, RebuildTyped DEF Rebuilt
  <2>3. CASE log[o] = <<>>
    <3>1. replayed[o] = 0
      BY <2>2, <2>3
    <3>2. EndOf(log[o]) = NoEvent /\ shadow[o] = NoEvent /\ snapshot[o] = NoEvent
      BY <2>1, <2>3, <3>1 DEF Rebuilt, EndOf
    <3>3. QED
      BY <2>1, <2>3, <3>2, RebuildTyped
  <2>4. CASE log[o] # <<>>
    <3>1. EndOf(log[o]) = log[o][Len(log[o])] /\ Len(log[o]) \in DOMAIN log[o] /\ Len(log[o]) # 0
      BY <2>2, <2>4 DEF EndOf
    <3>2. EndOf(log[o]).id # 0 /\ index["catalog"][o] = EndOf(log[o])
      BY <2>1, <2>4, EndsAre DEF Rebuilt
    <3>3. replayed[o] = Len(log[o])
      BY <1>1, <2>2, <3>2 DEF Pending
    <3>4. shadow[o] = EndOf(log[o])
      BY <2>1, <3>1, <3>3 DEF Rebuilt
    <3>5. snapshot[o].id # 0
      BY <1>1, <3>2, <3>4 DEF Unfilled
    <3>6. snapshot[o] = shadow[o] /\ index["market"][o] = EntryFor("market", o, shadow[o])
      BY <1>1, <2>1, <3>5, RebuildTyped DEF Rebuilt
    <3>7. EndOf(log[o]).id < nextId /\ EndOf(log[o]).id \in Nat
      BY <3>1, EndsAre DEF Fresh
    <3>8. QED
      BY <2>1, <3>2, <3>4, <3>6, <3>7
  <2>5. QED
    BY <2>3, <2>4
<1>3. Sequenced'
  <2>1. \A c \in Commands : Commanded(cmd[c], index["state"], snapshot, nextId)
    BY <1>1 DEF Commanded, Early, Logged
  <2>2. \A o \in Objects : index["state"][o].id <= snapshot[o].id /\ snapshot[o].id < nextId
    BY <1>2
  <2>3. QED
    BY <1>1, <2>1, <2>2 DEF Sequenced
<1>4. Follows'
  <2>1. \A o \in Objects : \A x \in {"catalog", "state", "market"} :
          log[o] # <<>> => index[x][o] = EntryFor(x, o, EndOf(log[o]))
    BY <1>2 DEF EntryFor, Lists, Views
  <2>2. Kept = {"catalog", "state", "market"}
    BY <1>1 DEF Kept
  <2>3. Follows
    BY <1>1, <1>2, <2>1, <2>2, Positions DEF Follows
  <2>4. Kept' = Kept
    BY <1>1 DEF Kept
  <2>5. QED
    BY <1>1, <2>3, <2>4 DEF Follows
<1>5. QED
  BY <1>3, <1>4

\* A number is signed once, so that its event joins one log once.
LEMMA FreshStep ==
  ASSUME Base, AgreeInv, Next, faults' = 0
  PROVE  Fresh'
<1>1. \A c \in Commands : cmd[c].stage # "idle" => Sequenced
  BY DEF AgreeInv, Rebuilding
<1>2. ASSUME UNCHANGED <<log, nextId>>,
             \A c \in Commands : cmd'[c].stage \in {"verify", "log"} =>
               cmd[c].stage \in {"verify", "log"} /\ cmd'[c].event = cmd[c].event
      PROVE  Fresh'
  BY <1>2 DEF AgreeInv, Fresh
<1>3. Idle.stage = "idle"
  BY DEF Idle
<1>4. ASSUME NEW c \in Commands, NEW o \in Objects, NEW s \in Status, ReadAndSign(c, o, s) PROVE Fresh'
  <2> DEFINE e == [id |-> nextId, prev |-> index["state"][o].id, status |-> s]
             q == [stage |-> "verify", obj |-> o, event |-> e]
  <2>1. cmd' = [cmd EXCEPT ![c] = q] /\ nextId' = nextId + 1 /\ UNCHANGED log /\ q.event.id = nextId
    BY <1>4 DEF ReadAndSign
  <2> HIDE DEF q
  <2>2. cmd'[c] = q /\ \A d \in Commands : d # c => cmd'[d] = cmd[d]
    BY <2>1, NumbersAre
  <2>3. \A p \in Objects : \A i \in DOMAIN log[p] : log[p][i].id \in Nat
    <3>1. \A p \in Objects : \A i \in DOMAIN log[p] : log[p][i] \in Event
      BY RebuildTyped
    <3>2. QED
      BY <3>1 DEF Event
  <2>4. \A p \in Objects : \A i \in DOMAIN log[p] : log[p][i].id < nextId /\ log[p][i].id < nextId + 1
                                                    /\ log[p][i].id # nextId
    BY <2>3, NumbersAre DEF AgreeInv, Fresh
  <2>5. QED
    BY <2>1, <2>2, <2>4 DEF AgreeInv, Fresh
<1>5. ASSUME NEW c \in Commands, AppendToLog(c) PROVE Fresh'
  <2> DEFINE o == cmd[c].obj
             e == cmd[c].event
             q == [cmd[c] EXCEPT !.stage = "catalog"]
  <2>1. /\ cmd' = [cmd EXCEPT ![c] = q] /\ cmd[c].stage = "log" /\ e \in Event /\ o \in Objects
        /\ log' = [log EXCEPT ![o] = Append(log[o], e)] /\ UNCHANGED nextId
    BY <1>5, NumbersAre DEF AppendToLog, NextStage, rebuildVars, Base, IInv, RealEvents
  <2>2. q.stage = "catalog"
    BY NumbersAre DEF Running
  <2> HIDE DEF q
  <2>3. cmd'[c] = q /\ \A d \in Commands : d # c => cmd'[d] = cmd[d]
    <3>1. cmd' = [cmd EXCEPT ![c] = q] /\ cmd \in [Commands -> Running]
      BY <2>1, NumbersAre
    <3>2. QED
      BY <3>1
  <2>4. \A p \in Objects : \A i \in DOMAIN log'[p] : (i \in DOMAIN log[p] /\ log'[p][i] = log[p][i]) \/ log'[p][i] = e
    <3>1. log[o] \in Seq(Event) /\ log'[o] = Append(log[o], e) /\ \A p \in Objects : p # o => log'[p] = log[p]
      BY <2>1 DEF Base, IInv, Typed
    <3>2. \A i \in DOMAIN log'[o] : (i \in DOMAIN log[o] /\ log'[o][i] = log[o][i]) \/ log'[o][i] = e
      BY <2>1, <3>1
    <3>3. QED
      BY <3>1, <3>2
  <2>5. e.id < nextId /\ \A d \in Commands : d # c /\ cmd[d].stage # "idle" => cmd[d].event.id # e.id
    BY <1>1, <2>1 DEF Sequenced, Commanded
  <2>6. \A p \in Objects : \A i \in DOMAIN log'[p] : log'[p][i].id < nextId
    BY <2>4, <2>5 DEF AgreeInv, Fresh
  <2>7. \A d \in Commands : cmd'[d].stage \in {"verify", "log"} =>
          \A p \in Objects : \A i \in DOMAIN log'[p] : log'[p][i].id # cmd'[d].event.id
    BY <2>2, <2>3, <2>4, <2>5 DEF AgreeInv, Fresh
  <2>8. QED
    BY <2>1, <2>6, <2>7 DEF Fresh
<1>6. ASSUME NEW c \in Commands, Apply(c) \/ PutIndex(c) PROVE Fresh'
  <2>1. /\ cmd[c].stage = "verify" \/ cmd[c].stage \in Indexes
        /\ cmd' = [cmd EXCEPT ![c] = [cmd[c] EXCEPT !.stage = NextStage[cmd[c].stage]]] /\ UNCHANGED <<log, nextId>>
    BY <1>6 DEF Apply, PutIndex
  <2>2. \A d \in Commands : d # c => cmd'[d] = cmd[d]
    BY <2>1, NumbersAre
  <2>3. cmd'[c].event = cmd[c].event /\ cmd'[c].stage = NextStage[cmd[c].stage]
    BY <2>1, NumbersAre DEF Running
  <2>4. cmd[c].stage \in Indexes => NextStage[cmd[c].stage] \notin {"log", "verify"}
    BY Positions
  <2>5. QED
    BY <1>2, <2>1, <2>2, <2>3, <2>4
<1>7. ASSUME NEW c \in Commands, Conflict(c) \/ Announce(c) PROVE Fresh'
  <2>1. cmd' = [cmd EXCEPT ![c] = Idle] /\ UNCHANGED <<log, nextId>>
    BY <1>7 DEF Conflict, Announce
  <2>2. cmd'[c] = Idle /\ \A d \in Commands : d # c => cmd'[d] = cmd[d]
    BY <2>1, NumbersAre
  <2>3. QED
    BY <1>2, <1>3, <2>1, <2>2
<1>8. CASE Rebuild
  BY <1>2, <1>8 DEF Rebuild, RebuildBegin, RebuildClear, RebuildReplay, RebuildThrows, RebuildFill, RebuildEnd
<1>9. ~CrashAndRestart /\ \A c \in Commands : ~IoFailure(c)
  BY DEF CrashAndRestart, IoFailure, Fault, Base, RestTyped
<1>10. QED
  BY <1>4, <1>5, <1>6, <1>7, <1>8, <1>9 DEF Next, CommandStep

\* The projections follow the log in every step.
LEMMA AgreeStep == Base /\ AgreeInv /\ [Next]_vars /\ Undisturbed' => AgreeInv'
<1>1. SUFFICES ASSUME Base, AgreeInv, [Next]_vars, faults' = 0, outcome' # "failed" PROVE AgreeInv'
  BY DEF Undisturbed, RebuildSucceeds
<1>2. CASE UNCHANGED vars
  BY <1>1, <1>2 DEF AgreeInv, Fresh, Sequenced, Follows, Kept, Rebuilding, Rebuilt, Pending, vars, rebuildVars
<1>3. CASE Next
  <2>1. Fresh'
    BY <1>1, <1>3, FreshStep
  <2>2. ASSUME NEW c \in Commands, CommandStep(c) PROVE AgreeInv'
    <3>1. phase = "none" /\ phase' = "none"
      <4>1. cmd[c].stage # "idle"
        BY <2>2, Positions DEF CommandStep, Apply, Conflict, AppendToLog, PutIndex, Announce
      <4>2. phase' = phase
        BY <2>2 DEF CommandStep, Apply, Conflict, AppendToLog, PutIndex, Announce, rebuildVars
      <4>3. QED
        BY <1>1, <4>1, <4>2 DEF AgreeInv, Rebuilding
    <3>2. Sequenced /\ Follows
      BY <1>1, <3>1 DEF AgreeInv
    <3>3. CASE Conflict(c) \/ Announce(c)
      <4>1. cmd' = [cmd EXCEPT ![c] = Idle] /\ UNCHANGED <<log, index, snapshot, nextId, rebuilds>>
            /\ cmd[c].stage \notin Indexes /\ cmd[c].stage # "log"
        BY <3>3, Positions DEF Conflict, Announce, rebuildVars
      <4>2. Idle.stage \notin Indexes /\ Idle.stage # "log"
        BY Positions, IdleKnown
      <4>3. QED
        BY <1>1, <2>1, <3>1, <3>2, <4>1, <4>2, NoneToPut, EndSequenced DEF AgreeInv
    <3>4. CASE Apply(c)
      BY <1>1, <2>1, <3>1, <3>2, <3>4, ApplySequenced, ApplyFollows DEF AgreeInv
    <3>5. CASE AppendToLog(c)
      BY <1>1, <2>1, <3>1, <3>2, <3>5, AppendSequenced, AppendFollows DEF AgreeInv
    <3>6. CASE PutIndex(c)
      BY <1>1, <2>1, <3>1, <3>2, <3>6, PutSequenced, PutFollows DEF AgreeInv
    <3>7. QED
      BY <2>2, <3>3, <3>4, <3>5, <3>6 DEF CommandStep
  <2>3. ASSUME NEW c \in Commands, NEW o \in Objects, NEW s \in Status, ReadAndSign(c, o, s) PROVE AgreeInv'
    <3> DEFINE q == [stage |-> "verify", obj |-> o,
                     event |-> [id |-> nextId, prev |-> index["state"][o].id, status |-> s]]
    <3>1. /\ phase = "none" /\ phase' = "none" /\ cmd[c].stage = "idle" /\ cmd' = [cmd EXCEPT ![c] = q]
          /\ UNCHANGED <<log, index, snapshot, rebuilds>> /\ q.stage = "verify"
      BY <2>3 DEF ReadAndSign, rebuildVars
    <3> HIDE DEF q
    <3>2. Sequenced /\ Follows
      BY <1>1, <3>1 DEF AgreeInv
    <3>3. Follows'
      BY <1>1, <3>1, <3>2, Positions, NoneToPut
    <3>4. Sequenced'
      BY <1>1, <2>3, <3>2, SignSequenced
    <3>5. QED
      BY <2>1, <3>1, <3>3, <3>4 DEF AgreeInv
  <2>4. CASE Rebuild
    <3>1. CASE RebuildBegin
      BY <1>1, <2>1, <3>1, BeginRebuilds DEF AgreeInv, RebuildBegin
    <3>2. CASE RebuildClear
      <4>1. phase # "none" /\ phase' # "none"
        BY <3>2 DEF RebuildClear, NextCleared
      <4>2. QED
        BY <1>1, <2>1, <3>2, <4>1, ClearRebuilds DEF AgreeInv
    <3>3. ASSUME NEW o \in Objects, RebuildReplay(o) PROVE AgreeInv'
      <4>1. phase = "replay" /\ phase' = "replay"
        BY <3>3 DEF RebuildReplay
      <4>2. QED
        BY <1>1, <2>1, <3>3, <4>1, ReplayRebuilds DEF AgreeInv
    <3>4. ASSUME NEW o \in Objects, RebuildFill(o) PROVE AgreeInv'
      <4>1. phase = "replay" /\ phase' = "replay"
        BY <3>4 DEF RebuildFill
      <4>2. QED
        BY <1>1, <2>1, <3>4, <4>1, FillRebuilds DEF AgreeInv
    <3>5. CASE RebuildEnd
      <4>1. phase = "replay" /\ phase' = "none"
        BY <3>5 DEF RebuildEnd
      <4>2. QED
        BY <1>1, <2>1, <3>5, <4>1, EndRebuilds DEF AgreeInv
    <3>6. \A o \in Objects : ~RebuildThrows(o)
      BY <1>1 DEF RebuildThrows
    <3>7. QED
      BY <2>4, <3>1, <3>2, <3>3, <3>4, <3>5, <3>6 DEF Rebuild
  <2>5. ~CrashAndRestart /\ \A c \in Commands : ~IoFailure(c)
    BY <1>1 DEF CrashAndRestart, IoFailure, Fault, Base, RestTyped
  <2>6. QED
    BY <1>3, <2>2, <2>3, <2>4, <2>5 DEF Next
<1>4. QED
  BY <1>1, <1>2, <1>3

\* Nothing is logged and nothing is projected at first.
LEMMA InitAgrees == Init => AgreeInv
<1>1. SUFFICES ASSUME Init PROVE AgreeInv
  OBVIOUS
<1>2. /\ \A c \in Commands : cmd[c] = Idle
      /\ \A o \in Objects : snapshot[o] = NoEvent /\ log[o] = <<>>
      /\ phase = "none"
  BY <1>1 DEF Init, EmptyView
<1>3. Follows
  BY <1>2, IdleKnown, Positions DEF Follows, EndOf
<1>4. Fresh
  BY <1>2, IdleKnown DEF Fresh
<1>5. QED
  BY <1>1, <1>2, <1>3, <1>4, InitSequenced DEF AgreeInv

\* As long as nothing fails, every write finds its way into every projection, in
\* whatever order commands run, and a rebuild puts back what it cleared.
THEOREM ProjectionsFollow == Spec /\ []Undisturbed => []ProjectionsAgree
<1>1. ASSUME Base, AgreeInv PROVE ProjectionsAgree
  <2>1. SUFFICES ASSUME phase = "none", NEW o \in Objects, Settled(o), log[o] # <<>>
                 PROVE  /\ snapshot[o] = LastOf(o)
                        /\ \A x \in Kept : index[x][o] = EntryFor(x, o, LastOf(o))
    BY DEF ProjectionsAgree, Kept
  <2>2. Follows /\ EndOf(log[o]) = LastOf(o)
    BY <1>1, <2>1, EndsAre DEF AgreeInv
  <2>3. \A c \in Commands : cmd[c].obj = o => cmd[c].stage = "idle"
    BY <2>1 DEF Settled
  <2>4. \A x \in Kept : \A c \in Commands : ~Waits(cmd[c], o, x)
    BY <2>3, Positions DEF Waits
  <2>5. QED
    BY <2>1, <2>2, <2>3, <2>4 DEF Follows
<1>2. QED
  BY <1>1, InitAgrees, BaseHolds, AgreeStep, PTL DEF Spec

-----------------------------------------------------------------------------
(* The repository implements the object log.                                  *)

\* An append of the repository is one of the object log, and so is what is announced.
LEMMA StepImplements ==
  ASSUME Base, AgreeInv, [Next]_vars, faults' = 0
  PROVE  [Abstract!Next]_(Abstract!vars)
<1> DEFINE ack == {<<a.obj, a.id>> : a \in announced}
<1>1. ASSUME NEW c \in Commands, AppendToLog(c) PROVE Abstract!Next
  <2> DEFINE o == cmd[c].obj
             e == cmd[c].event
  <2>1. /\ cmd[c].stage = "log" /\ e \in Event /\ o \in Objects /\ UNCHANGED announced
        /\ log' = [log EXCEPT ![o] = Append(log[o], e)]
    BY <1>1, NumbersAre DEF AppendToLog, Base, IInv, RealEvents
  <2>2. Follows /\ Fresh
    BY <2>1 DEF AgreeInv, Rebuilding
  <2>3. EndOf(log[o]).id = e.prev
    BY <2>1, <2>2 DEF Follows
  <2>4. e.prev = Abstract!HeadOf(o)
    BY <2>3 DEF EndOf, Abstract!HeadOf, NoEvent
  <2>5. \A p \in Objects : ~Abstract!Contains(p, e.id)
    BY <2>1, <2>2 DEF Fresh, Abstract!Contains
  <2>6. ack' = ack
    BY <2>1
  <2>7. Abstract!Write(o, e)
    BY <2>1, <2>4, <2>5, <2>6 DEF Abstract!Write
  <2>8. e \in Abstract!Event
    BY <2>1 DEF Event, Abstract!Event
  <2>9. QED
    BY <2>1, <2>7, <2>8 DEF Abstract!Next
<1>2. ASSUME NEW c \in Commands, Announce(c) PROVE Abstract!Next
  <2>1. /\ cmd[c].stage = "announce" /\ UNCHANGED log
        /\ announced' = announced \cup
             {[obj |-> cmd[c].obj, id |-> cmd[c].event.id, state |-> index["state"][cmd[c].obj].id]}
    BY <1>2 DEF Announce
  <2>2. cmd[c].obj \in Objects /\ InLog(cmd[c].obj, cmd[c].event) /\ cmd[c].event \in Event
    BY <2>1, NumbersAre DEF Base, IInv, LoggedCommands, RealEvents, Logged, Stages, NextStage
  <2>3. PICK o \in Objects, e \in Event : o = cmd[c].obj /\ e = cmd[c].event
    BY <2>2
  <2> DEFINE n == e.id
             b == [obj |-> o, id |-> n, state |-> index["state"][o].id]
  <2>4. n \in 1..MaxEvents /\ Abstract!Contains(o, n)
    BY <2>2, <2>3 DEF Event, InLog, Abstract!Contains
  <2>5. b.obj = o /\ b.id = n /\ announced' = announced \cup {b}
    BY <2>1, <2>3
  <2> HIDE DEF b
  <2>6. ack' = ack \cup {<<o, n>>}
    BY <2>5
  <2>7. Abstract!Acknowledge(o, n)
    BY <2>1, <2>4, <2>6 DEF Abstract!Acknowledge
  <2>8. QED
    BY <2>4, <2>7 DEF Abstract!Next
<1>3. ASSUME UNCHANGED <<log, announced>> PROVE UNCHANGED Abstract!vars
  BY <1>3 DEF Abstract!vars
<1>4. ASSUME NEW c \in Commands, Apply(c) \/ Conflict(c) \/ PutIndex(c) PROVE UNCHANGED <<log, announced>>
  BY <1>4 DEF Apply, Conflict, PutIndex
<1>5. CASE Rebuild
  BY <1>3, <1>5 DEF Rebuild, RebuildBegin, RebuildClear, RebuildReplay, RebuildThrows, RebuildFill, RebuildEnd
<1>6. ~CrashAndRestart /\ \A c \in Commands : ~IoFailure(c)
  BY DEF CrashAndRestart, IoFailure, Fault, Base, RestTyped
<1>7. ASSUME NEW c \in Commands, NEW o \in Objects, NEW s \in Status, ReadAndSign(c, o, s)
      PROVE  UNCHANGED <<log, announced>>
  BY <1>7 DEF ReadAndSign
<1>8. CASE UNCHANGED vars
  BY <1>3, <1>8 DEF vars
<1>9. QED
  BY <1>1, <1>2, <1>3, <1>4, <1>5, <1>6, <1>7, <1>8 DEF Next, CommandStep

\* As long as nothing fails, the repository is an append-only log of each object:
\* every append names the event before it, and is there before its writer is told.
THEOREM RepositoryImplements == Spec /\ []Undisturbed => ImplementsObjectLog
<1>1. Init => Abstract!Init
  BY DEF Init, Abstract!Init
<1>2. Base /\ AgreeInv /\ [Next]_vars /\ Undisturbed' => [Abstract!Next]_(Abstract!vars)
  BY StepImplements DEF Undisturbed
<1>3. QED
  BY <1>1, <1>2, InitAgrees, BaseHolds, AgreeStep, PTL DEF Spec, ImplementsObjectLog, Abstract!Spec

-----------------------------------------------------------------------------
(* When a rebuild succeeds.                                                   *)

\* Every object comes after its origins in the catalog, and they may be in any state.
OriginsFirst ==
  \A o \in Objects : \A p \in Origin[o] : CatalogRank[p] < CatalogRank[o] /\ OriginStatus[o] = Status

\* The first event of o is in its log, or on its way there.
Begun(o) == log[o] # <<>> \/ \E c \in Commands : cmd[c].stage = "log" /\ cmd[c].obj = o

\* Each log is a chain, and no object begins before its origins.
Chained ==
  /\ \A o \in Objects : \A i \in DOMAIN log[o] : log[o][i].prev = IF i = 1 THEN 0 ELSE log[o][i - 1].id
  /\ \A o \in Objects : Begun(o) => \A p \in Origin[o] : Begun(p)

\* The reducer that accepted an event accepts it again when it is replayed.
LEMMA ReplayAccepted ==
  ASSUME Base, Rebuilding, Chained, OriginsFirst, NEW o \in Objects, phase = "replay", Scanned(o)
  PROVE  Accepts(shadow, o, NextReplayed(o))
<1> DEFINE i == replayed[o]
           e == log[o][i + 1]
<1>1. /\ i \in Nat /\ log[o] \in Seq(Event) /\ i < Len(log[o]) /\ log[o] # <<>>
      /\ i + 1 \in DOMAIN log[o] /\ (i # 0 => i \in DOMAIN log[o])
  BY RebuildTyped DEF Scanned, Pending
<1>2. shadow[o] = IF i = 0 THEN NoEvent ELSE log[o][i]
  BY DEF Rebuilding, Rebuilt
<1>3. e.prev = IF i = 0 THEN 0 ELSE log[o][i].id
  <2>1. e.prev = IF i + 1 = 1 THEN 0 ELSE log[o][(i + 1) - 1].id
    BY <1>1 DEF Chained
  <2>2. (i + 1 = 1 <=> i = 0) /\ (i + 1) - 1 = i
    BY <1>1
  <2>3. QED
    BY <2>1, <2>2
<1>4. ExtendsLatest(shadow, o, e)
  BY <1>2, <1>3, RebuildTyped DEF ExtendsLatest
<1>5. ASSUME NEW p \in Origin[o] PROVE shadow[p].id # 0 /\ shadow[p].status \in OriginStatus[o]
  <2>1. p \in Objects /\ CatalogRank[p] < CatalogRank[o] /\ OriginStatus[o] = Status
    BY DEF OriginsFirst, ConstantsOK
  <2>2. log[p] # <<>>
    BY <1>1, <2>1 DEF Chained, Begun, Rebuilding
  <2>3. index["catalog"][p].id # 0
    BY <2>1, <2>2, EndsAre DEF Rebuilding, Rebuilt
  <2>4. p \notin Pending
    <3>1. CatalogRank[p] \in Nat /\ CatalogRank[o] \in Nat
      BY <2>1 DEF ConstantsOK
    <3>2. QED
      BY <2>1, <3>1 DEF Scanned
  <2>5. log[p] \in Seq(Event) /\ replayed[p] \in Nat /\ replayed[p] <= Len(log[p]) /\ Len(log[p]) # 0
    BY <2>1, <2>2, RebuildTyped DEF Rebuilding, Rebuilt
  <2>6. replayed[p] \in DOMAIN log[p] /\ replayed[p] # 0
    BY <2>1, <2>3, <2>4, <2>5 DEF Pending
  <2>7. shadow[p] = log[p][replayed[p]] /\ log[p][replayed[p]] \in Event
    BY <2>1, <2>5, <2>6 DEF Rebuilding, Rebuilt
  <2>8. QED
    BY <2>1, <2>7 DEF Event
<1>6. QED
  BY <1>4, <1>5 DEF Accepts, OriginHolds, NextReplayed

\* What has begun stays so, while nothing fails.
LEMMA StaysBegun ==
  ASSUME Base, [Next]_vars, faults' = 0, NEW o \in Objects, Begun(o)
  PROVE  Begun(o)'
<1>1. ~CrashAndRestart /\ \A c \in Commands : ~IoFailure(c)
  BY DEF CrashAndRestart, IoFailure, Fault, Base, RestTyped
<1>2. ASSUME NEW c \in Commands, NEW q, cmd' = [cmd EXCEPT ![c] = q], cmd[c].stage # "log", UNCHANGED log
      PROVE  Begun(o)'
  <2>1. \A d \in Commands : d # c => cmd'[d] = cmd[d]
    BY <1>2, NumbersAre
  <2>2. QED
    BY <1>2, <2>1 DEF Begun
<1>3. ASSUME NEW c \in Commands, CommandStep(c) PROVE Begun(o)'
  <2>1. CASE Apply(c)
    BY <1>2, <2>1 DEF Apply
  <2>2. CASE Conflict(c)
    BY <1>2, <2>2 DEF Conflict
  <2>3. CASE PutIndex(c)
    BY <1>2, <2>3, Positions DEF PutIndex
  <2>4. CASE Announce(c)
    BY <1>2, <2>4 DEF Announce
  <2>5. CASE AppendToLog(c)
    <3> DEFINE q == [cmd[c] EXCEPT !.stage = "catalog"]
    <3>1. cmd' = [cmd EXCEPT ![c] = q] /\ log' = [log EXCEPT ![cmd[c].obj] = Append(@, cmd[c].event)]
          /\ cmd[c].stage = "log" /\ cmd[c].event \in Event
      BY <2>5 DEF AppendToLog, NextStage, Base, IInv, RealEvents
    <3> HIDE DEF q
    <3>2. \A d \in Commands : d # c => cmd'[d] = cmd[d]
      BY <3>1, NumbersAre
    <3>3. log'[cmd[c].obj] # <<>> /\ \A p \in Objects : p # cmd[c].obj => log'[p] = log[p]
      BY <3>1, NumbersAre, EndAppended DEF Base, IInv, Typed
    <3>4. QED
      BY <3>2, <3>3 DEF Begun
  <2>6. QED
    BY <1>3, <2>1, <2>2, <2>3, <2>4, <2>5 DEF CommandStep
<1>4. ASSUME NEW c \in Commands, NEW p \in Objects, NEW s \in Status, ReadAndSign(c, p, s) PROVE Begun(o)'
  BY <1>2, <1>4 DEF ReadAndSign
<1>5. CASE Rebuild \/ UNCHANGED vars
  BY <1>5 DEF Rebuild, RebuildBegin, RebuildClear, RebuildReplay, RebuildThrows, RebuildFill, RebuildEnd, vars,
     Begun
<1>6. QED
  BY <1>1, <1>3, <1>4, <1>5 DEF Next

\* Only Apply begins an object.
LEMMA BegunBy ==
  ASSUME Base, [Next]_vars, faults' = 0, NEW o \in Objects, ~Begun(o), Begun(o)'
  PROVE  \E c \in Commands : Apply(c) /\ cmd[c].obj = o
<1>1. ~CrashAndRestart /\ \A c \in Commands : ~IoFailure(c)
  BY DEF CrashAndRestart, IoFailure, Fault, Base, RestTyped
<1>2. ASSUME NEW c \in Commands, NEW q, cmd' = [cmd EXCEPT ![c] = q], q.stage # "log", UNCHANGED log
      PROVE  FALSE
  <2>1. cmd'[c] = q /\ \A d \in Commands : d # c => cmd'[d] = cmd[d]
    BY <1>2, NumbersAre
  <2>2. QED
    BY <1>2, <2>1 DEF Begun
<1>3. ASSUME NEW c \in Commands, CommandStep(c) PROVE Apply(c) /\ cmd[c].obj = o
  <2>1. CASE Apply(c)
    <3> DEFINE q == [cmd[c] EXCEPT !.stage = "log"]
    <3>1. cmd' = [cmd EXCEPT ![c] = q] /\ UNCHANGED log
      BY <2>1 DEF Apply, NextStage
    <3>2. q.obj = cmd[c].obj
      BY NumbersAre DEF Running
    <3> HIDE DEF q
    <3>3. cmd'[c] = q /\ \A d \in Commands : d # c => cmd'[d] = cmd[d]
      BY <3>1, NumbersAre
    <3>4. QED
      BY <2>1, <3>1, <3>2, <3>3 DEF Begun
  <2>2. CASE Conflict(c) \/ Announce(c)
    BY <1>2, <2>2, IdleKnown DEF Conflict, Announce
  <2>3. CASE PutIndex(c)
    <3> DEFINE q == [cmd[c] EXCEPT !.stage = NextStage[cmd[c].stage]]
    <3>1. cmd' = [cmd EXCEPT ![c] = q] /\ UNCHANGED log /\ cmd[c].stage \in Indexes
      BY <2>3 DEF PutIndex
    <3>2. q.stage # "log"
      BY <3>1, NumbersAre, Positions DEF Running
    <3> HIDE DEF q
    <3>3. QED
      BY <1>2, <3>1, <3>2
  <2>4. CASE AppendToLog(c)
    <3> DEFINE q == [cmd[c] EXCEPT !.stage = "catalog"]
    <3>1. cmd' = [cmd EXCEPT ![c] = q] /\ log' = [log EXCEPT ![cmd[c].obj] = Append(@, cmd[c].event)]
          /\ cmd[c].stage = "log"
      BY <2>4 DEF AppendToLog, NextStage
    <3>2. q.stage = "catalog"
      BY NumbersAre DEF Running
    <3> HIDE DEF q
    <3>3. cmd'[c] = q /\ \A d \in Commands : d # c => cmd'[d] = cmd[d]
      BY <3>1, NumbersAre
    <3>4. cmd[c].obj # o
      BY <3>1 DEF Begun
    <3>5. log'[o] = log[o]
      BY <3>1, <3>4, NumbersAre DEF Base, IInv, Typed
    <3>6. QED
      BY <3>2, <3>3, <3>5 DEF Begun
  <2>5. QED
    BY <1>3, <2>1, <2>2, <2>3, <2>4 DEF CommandStep
<1>4. ASSUME NEW c \in Commands, NEW p \in Objects, NEW s \in Status, ReadAndSign(c, p, s) PROVE FALSE
  <2> DEFINE q == [stage |-> "verify", obj |-> p, event |-> [id |-> nextId, prev |-> index["state"][p].id, status |-> s]]
  <2>1. cmd' = [cmd EXCEPT ![c] = q] /\ UNCHANGED log
    BY <1>4 DEF ReadAndSign
  <2>2. q.stage # "log"
    OBVIOUS
  <2> HIDE DEF q
  <2>3. QED
    BY <1>2, <2>1, <2>2
<1>5. CASE Rebuild \/ UNCHANGED vars
  BY <1>5 DEF Rebuild, RebuildBegin, RebuildClear, RebuildReplay, RebuildThrows, RebuildFill, RebuildEnd, vars,
     Begun
<1>6. QED
  BY <1>1, <1>3, <1>4, <1>5 DEF Next

\* A log grows by an event that follows its end, after the origins began theirs.
LEMMA ChainStep ==
  ASSUME Base, AgreeInv, Chained, [Next]_vars, faults' = 0
  PROVE  Chained'
<1>1. ASSUME NEW o \in Objects, Begun(o)', NEW p \in Origin[o] PROVE Begun(p)'
  <2>1. p \in Objects
    BY DEF ConstantsOK
  <2>2. CASE Begun(o)
    BY <2>1, <2>2, StaysBegun DEF Chained
  <2>3. CASE ~Begun(o)
    <3>1. PICK c \in Commands : Apply(c) /\ cmd[c].obj = o
      BY <1>1, <2>3, BegunBy
    <3>2. Follows /\ cmd[c].stage = "verify"
      BY <3>1 DEF AgreeInv, Rebuilding, Apply
    <3>3. snapshot[o] = NoEvent
      BY <2>3, <3>2 DEF Follows, Begun, EndOf
    <3>4. snapshot[p].id # 0
      BY <3>1, <3>3, RebuildTyped DEF Apply, Accepts, OriginHolds
    <3>5. Begun(p)
      BY <2>1, <3>2, <3>4, RebuildTyped DEF Follows, Begun, EndOf
    <3>6. QED
      BY <2>1, <3>5, StaysBegun
  <2>4. QED
    BY <2>2, <2>3
<1>2. ASSUME NEW c \in Commands, AppendToLog(c), NEW o \in Objects, NEW i \in DOMAIN log'[o]
      PROVE  log'[o][i].prev = IF i = 1 THEN 0 ELSE log'[o][i - 1].id
  <2> DEFINE e == cmd[c].event
             l == log[o]
  <2>1. /\ cmd[c].stage = "log" /\ e \in Event /\ log' = [log EXCEPT ![cmd[c].obj] = Append(log[cmd[c].obj], e)]
        /\ l \in Seq(Event)
    BY <1>2, RebuildTyped DEF AppendToLog, Base, IInv, RealEvents
  <2>2. CASE cmd[c].obj # o
    <3>1. log'[o] = log[o]
      BY <2>1, <2>2, NumbersAre DEF Base, IInv, Typed
    <3>2. QED
      BY <3>1 DEF Chained
  <2>3. CASE cmd[c].obj = o
    <3>1. log'[o] = Append(l, e)
      BY <2>1, <2>3 DEF Base, IInv, Typed
    <3>2. EndOf(l).id = e.prev
      BY <2>1, <2>3 DEF AgreeInv, Rebuilding, Follows
    <3>3. CASE i \in DOMAIN l
      <4>1. log'[o][i] = l[i] /\ (i # 1 => i - 1 \in DOMAIN l /\ log'[o][i - 1] = l[i - 1])
        BY <2>1, <3>1, <3>3
      <4>2. QED
        BY <3>3, <4>1 DEF Chained
    <3>4. CASE i \notin DOMAIN l
      <4>1. i = Len(l) + 1 /\ log'[o][i] = e /\ Len(l) \in Nat
        BY <2>1, <3>1, <3>4
      <4>2. CASE l = <<>>
        BY <3>2, <4>1, <4>2, RebuildTyped DEF EndOf
      <4>3. CASE l # <<>>
        <5>1. i # 1 /\ i - 1 = Len(l) /\ Len(l) \in DOMAIN l
          BY <2>1, <4>1, <4>3
        <5>2. log'[o][i - 1] = EndOf(l)
          BY <2>1, <3>1, <4>3, <5>1 DEF EndOf
        <5>3. QED
          BY <3>2, <4>1, <5>1, <5>2
      <4>4. QED
        BY <4>2, <4>3
    <3>5. QED
      BY <3>3, <3>4
  <2>4. QED
    BY <2>2, <2>3
<1>3. (\E c \in Commands : AppendToLog(c)) \/ UNCHANGED log
  BY DEF Next, CommandStep, ReadAndSign, Apply, Conflict, PutIndex, Announce, IoFailure, CrashAndRestart, Rebuild,
     RebuildBegin, RebuildClear, RebuildReplay, RebuildThrows, RebuildFill, RebuildEnd, vars
<1>4. \A o \in Objects : \A i \in DOMAIN log'[o] : log'[o][i].prev = IF i = 1 THEN 0 ELSE log'[o][i - 1].id
  BY <1>2, <1>3 DEF Chained
<1>5. QED
  BY <1>1, <1>4 DEF Chained

\* No replay is rejected, so no rebuild fails.
LEMMA NoReplayFails ==
  ASSUME Base, AgreeInv, Chained, OriginsFirst, outcome # "failed", [Next]_vars, faults' = 0
  PROVE  outcome' # "failed"
<1>1. ASSUME NEW o \in Objects, RebuildThrows(o) PROVE FALSE
  <2>1. phase = "replay" /\ Scanned(o) /\ ~Accepts(shadow, o, NextReplayed(o))
    BY <1>1 DEF RebuildThrows
  <2>2. Rebuilding
    BY <2>1 DEF AgreeInv
  <2>3. QED
    BY <2>1, <2>2, ReplayAccepted
<1>2. QED
  BY <1>1 DEF Next, CommandStep, ReadAndSign, Apply, Conflict, AppendToLog, PutIndex, Announce, IoFailure,
     CrashAndRestart, Rebuild, RebuildBegin, RebuildClear, RebuildReplay, RebuildFill, RebuildEnd, vars, rebuildVars

\* No write has failed, and the process has not died.
NoFaults == faults = 0

\* When every object comes after what it refers to in the catalog, and its reducer
\* does not ask for a status that its origins leave again, a rebuild succeeds.
THEOREM RebuildsSucceed ==
  ASSUME OriginsFirst
  PROVE  Spec /\ []NoFaults => []RebuildSucceeds
<1> DEFINE Good == AgreeInv /\ Chained /\ RebuildSucceeds
<1>1. Init => Good
  <2>1. ASSUME Init PROVE Chained /\ RebuildSucceeds
    <3>1. \A o \in Objects : log[o] = <<>>
      BY <2>1 DEF Init
    <3>2. \A c \in Commands : cmd[c].stage # "log"
      BY <2>1 DEF Init, Idle
    <3>3. outcome # "failed"
      BY <2>1 DEF Init
    <3>4. QED
      BY <3>1, <3>2, <3>3 DEF Chained, Begun, RebuildSucceeds
  <2>2. QED
    BY <2>1, InitAgrees
<1>2. Base /\ Good /\ [Next]_vars /\ NoFaults' => Good'
  <2>1. SUFFICES ASSUME Base, Good, [Next]_vars, NoFaults' PROVE Good'
    OBVIOUS
  <2>2. RebuildSucceeds'
    BY <2>1, NoReplayFails DEF NoFaults, RebuildSucceeds
  <2>3. Chained'
    BY <2>1, ChainStep DEF NoFaults
  <2>4. AgreeInv'
    BY <2>1, <2>2, AgreeStep DEF NoFaults, Undisturbed
  <2>5. QED
    BY <2>2, <2>3, <2>4
<1>3. QED
  BY <1>1, <1>2, BaseHolds, PTL DEF Spec

\* With the objects in such an order, nothing but a fault sets a projection apart
\* from its log.
THEOREM ProjectionsFollowReplays ==
  ASSUME OriginsFirst
  PROVE  Spec /\ []NoFaults => []ProjectionsAgree
<1>1. NoFaults /\ RebuildSucceeds => Undisturbed
  BY DEF NoFaults, Undisturbed
<1>2. QED
  BY <1>1, RebuildsSucceed, ProjectionsFollow, PTL
=============================================================================
