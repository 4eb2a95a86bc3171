----------------------------- MODULE ObjectLog -----------------------------
(***************************************************************************)
(* What the protocol repository promises its users, without any of the     *)
(* machinery: every protocol object has one append-only log, each event    *)
(* of a log names the event before it, and a writer that is told its event *)
(* was appended can rely on it.                                            *)
(***************************************************************************)
EXTENDS Naturals, Sequences

CONSTANTS Objects, MaxEvents, Status

VARIABLES
  history,      \* history[o]: the events appended to object o, oldest first
  acknowledged  \* <<object, event id>> pairs whose writer was told "appended"

vars == <<history, acknowledged>>

Event == [id : 1..MaxEvents, prev : 0..MaxEvents, status : Status]

\* Events a writer was told about are in the history of their object.
Contains(o, id) == \E i \in DOMAIN history[o] : history[o][i].id = id

HeadOf(o) == IF history[o] = <<>> THEN 0 ELSE history[o][Len(history[o])].id

TypeOK ==
  /\ history \in [Objects -> Seq(Event)]
  /\ acknowledged \subseteq Objects \X (1..MaxEvents)

Init ==
  /\ history = [o \in Objects |-> <<>>]
  /\ acknowledged = {}

\* One event joins the end of one log, and names the end it was written against.
Write(o, e) ==
  /\ e.prev = HeadOf(o)
  /\ \A p \in Objects : ~Contains(p, e.id)
  /\ history' = [history EXCEPT ![o] = Append(@, e)]
  /\ UNCHANGED acknowledged

\* A writer learns that its event is in the log.
Acknowledge(o, id) ==
  /\ Contains(o, id)
  /\ acknowledged' = acknowledged \cup {<<o, id>>}
  /\ UNCHANGED history

Next ==
  \/ \E o \in Objects, e \in Event : Write(o, e)
  \/ \E o \in Objects, id \in 1..MaxEvents : Acknowledge(o, id)

Spec == Init /\ [][Next]_vars
=============================================================================
