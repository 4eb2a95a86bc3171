----------------------------- MODULE Discovery -----------------------------
(***************************************************************************)
(* The daemon's discovery watcher (runProtocolDiscoveryWatcher and its     *)
(* interval in cli.ts): every two seconds it walks over the peer sessions  *)
(* and reports what the control feed of each has gained.  Nothing keeps    *)
(* two walks apart, every step of one waits, and reading a block waits     *)
(* until the peer has sent it.  What cannot be read ends the walk.         *)
(*                                                                         *)
(* Feeds are external: entries are numbered from 1, a connected peer tells *)
(* how long its feed is and sends the blocks in order, if it does.  An     *)
(* entry is an announcement, or a block that is not JSON; what else a feed *)
(* may hold the watcher skips.                                             *)
(***************************************************************************)
EXTENDS Naturals, Sequences

CONSTANTS
  Peers,
  Walks,       \* walks that may be under way at once
  NoPeer,
  MaxLength,   \* bound on the entries of a feed
  MaxLosses    \* bound on lost connections, restarts, failures to read and entries
               \* that are not JSON

ASSUME DiscoveryConstants == NoPeer \notin Peers /\ {MaxLength, MaxLosses} \subseteq Nat

VARIABLES
  feed,      \* feed[a]: the length of the feed at the peer, as known here, blocks
             \* here; bad is the first entry that is not JSON, or 0
  linked,    \* the peers with a session, as the table lists them
  seen,      \* seenControlLengths
  reported,  \* reported[a]: the entries written to the daemon's output
  walk,      \* walk[w]: where a walk is
  losses

discoveryVars == <<feed, linked, seen, reported, walk, losses>>

Linked(a) == \E i \in DOMAIN linked : linked[i] = a

NoWalk == [at |-> "off", peer |-> NoPeer, index |-> 0, visited |-> {}]

DiscoveryInit ==
  /\ feed = [a \in Peers |-> [there |-> 0, known |-> 0, here |-> 0, bad |-> 0]]
  /\ linked = <<>>
  /\ seen = [a \in Peers |-> 0]
  /\ reported = [a \in Peers |-> {}]
  /\ walk = [w \in Walks |-> NoWalk]
  /\ losses = 0

-----------------------------------------------------------------------------
(* Peers and their feeds.                                                    *)

FeedGoes(a, part) ==
  /\ feed' = [feed EXCEPT ![a][part] = @ + 1]
  /\ UNCHANGED <<linked, seen, reported, walk, losses>>

\* The peer's command path announces an object's new head.
AnnounceHead(a) == feed[a].there < MaxLength /\ FeedGoes(a, "there")

\* The peer appends something that is not JSON.
AppendOther(a) ==
  /\ feed[a].there < MaxLength /\ feed[a].bad = 0 /\ losses < MaxLosses
  /\ feed' = [feed EXCEPT ![a].there = @ + 1, ![a].bad = feed[a].there + 1]
  /\ losses' = losses + 1
  /\ UNCHANGED <<linked, seen, reported, walk>>

\* A connected peer tells of one more entry, and sends one more block.
Extend(a) == Linked(a) /\ feed[a].known < feed[a].there /\ FeedGoes(a, "known")
SendBlock(a) == Linked(a) /\ feed[a].here < feed[a].known /\ FeedGoes(a, "here")

\* A session comes to the end of the table.
Link(a) ==
  /\ ~Linked(a)
  /\ linked' = Append(linked, a)
  /\ UNCHANGED <<feed, seen, reported, walk, losses>>

\* A session that comes back later is a new one to the walks under way.
Unlink(a) ==
  /\ Linked(a) /\ losses < MaxLosses
  /\ linked' = SelectSeq(linked, LAMBDA b : b # a)
  /\ walk' = [w \in Walks |-> [walk[w] EXCEPT !.visited = @ \ {a}]]
  /\ losses' = losses + 1
  /\ UNCHANGED <<feed, seen, reported>>

\* The daemon is started anew: what it had seen it has forgotten.
RestartDaemon ==
  /\ losses < MaxLosses
  /\ losses' = losses + 1
  /\ linked' = <<>>
  /\ seen' = [a \in Peers |-> 0]
  /\ walk' = [w \in Walks |-> NoWalk]
  /\ UNCHANGED <<feed, reported>>

-----------------------------------------------------------------------------
(* A walk.                                                                   *)

WalkGoes(w, state) ==
  /\ walk' = [walk EXCEPT ![w] = state]
  /\ UNCHANGED <<feed, linked, losses>>

BeginWalk(w) ==
  /\ walk[w].at = "off"
  /\ WalkGoes(w, [NoWalk EXCEPT !.at = "next"])
  /\ UNCHANGED <<seen, reported>>

\* The sessions in the order of the table; the iterator is live and comes to
\* those that are added meanwhile.  The walk waits for an update of the feed.
VisitPeer(w, a) ==
  /\ walk[w].at = "next"
  /\ \E i \in DOMAIN linked :
       /\ linked[i] = a /\ a \notin walk[w].visited
       /\ \A j \in 1..(i - 1) : linked[j] \in walk[w].visited
  /\ WalkGoes(w, [walk[w] EXCEPT !.at = "look", !.peer = a, !.visited = @ \cup {a}])
  /\ UNCHANGED <<seen, reported>>

\* Faulty variant: one entry more does not count as news.
News_OffByOne(a) == feed[a].known > seen[a] + 1

News(a) == feed[a].known > seen[a]

Look(w) ==
  /\ walk[w].at = "look"
  /\ WalkGoes(w, IF News(walk[w].peer)
       THEN [walk[w] EXCEPT !.at = "get", !.index = seen[walk[w].peer] + 1]
       ELSE [walk[w] EXCEPT !.at = "next", !.peer = NoPeer])
  /\ UNCHANGED <<seen, reported>>

\* Faulty variant: the loop ends where the feed ended when it began.
IsLast_AtStart(w) == walk[w].index >= seen[walk[w].peer] + 1

\* The loop looks at the feed's length every time it comes around.
IsLast(w) == walk[w].index >= feed[walk[w].peer].known

\* The entry that the loop waits for has come.
BlockIsHere(w) == walk[w].at = "get" /\ walk[w].index <= feed[walk[w].peer].here

\* It is reported; after the last one the length is noted.
GetEntry(w) ==
  /\ BlockIsHere(w) /\ walk[w].index # feed[walk[w].peer].bad
  /\ LET a == walk[w].peer IN
     /\ reported' = [reported EXCEPT ![a] = @ \cup {walk[w].index}]
     /\ IF IsLast(w)
          THEN /\ seen' = [seen EXCEPT ![a] = feed[a].known]
               /\ WalkGoes(w, [walk[w] EXCEPT !.at = "next", !.peer = NoPeer, !.index = 0])
          ELSE /\ WalkGoes(w, [walk[w] EXCEPT !.index = @ + 1])
               /\ UNCHANGED seen

EndWalk(w) ==
  /\ walk[w].at = "next" /\ \A i \in DOMAIN linked : linked[i] \in walk[w].visited
  /\ WalkGoes(w, NoWalk)
  /\ UNCHANGED <<seen, reported>>

\* The entry cannot be decoded: the walk ends in the catch of the interval, with
\* nothing noted of this peer and nothing looked at of those after it.
EntryFails(w) ==
  /\ BlockIsHere(w) /\ walk[w].index = feed[walk[w].peer].bad
  /\ WalkGoes(w, NoWalk)
  /\ UNCHANGED <<seen, reported>>

\* update or get fails for a reason of its own, and the walk ends likewise.
FeedFails(w) ==
  /\ walk[w].at \in {"look", "get"} /\ losses < MaxLosses
  /\ walk' = [walk EXCEPT ![w] = NoWalk]
  /\ losses' = losses + 1
  /\ UNCHANGED <<feed, linked, seen, reported>>

\* A walk waits for a block that has not come.  It may do so for ever, and new
\* walks begin beside it: the model may follow it no longer.
StrandWalk(w) ==
  /\ walk[w].at = "get" /\ ~BlockIsHere(w)
  /\ WalkGoes(w, NoWalk)
  /\ UNCHANGED <<seen, reported>>

StepWalk(w) ==
  \/ BeginWalk(w) \/ (\E a \in Peers : VisitPeer(w, a)) \/ Look(w) \/ GetEntry(w)
  \/ EndWalk(w) \/ EntryFails(w) \/ FeedFails(w) \/ StrandWalk(w)

DiscoveryNext ==
  \/ \E a \in Peers :
       \/ AnnounceHead(a) \/ AppendOther(a) \/ Extend(a) \/ SendBlock(a)
       \/ Link(a) \/ Unlink(a)
  \/ \E w \in Walks : StepWalk(w)
  \/ RestartDaemon

\* The interval fires and what a walk waits for here comes.  Nothing is assumed
\* of the peers.
DiscoveryFairness == \A w \in Walks : WF_discoveryVars(StepWalk(w))

DiscoverySpec == DiscoveryInit /\ [][DiscoveryNext]_discoveryVars /\ DiscoveryFairness

-----------------------------------------------------------------------------
(* Properties.                                                               *)

\* A feed is known here only as far as it goes, and so on.
DiscoveryTypeOK ==
  /\ \A a \in Peers :
       /\ feed[a].here <= feed[a].known /\ feed[a].known <= feed[a].there
       /\ feed[a].bad <= feed[a].there /\ seen[a] <= feed[a].known
       /\ reported[a] \subseteq 1..feed[a].here
  /\ \A i, j \in DOMAIN linked : linked[i] \in Peers /\ (linked[i] = linked[j] => i = j)
  /\ \A w \in Walks : walk[w].at \in {"off", "next", "look", "get"}

\* What counts as seen was reported: no order of overlapping walks, entries
\* that arrive during one, lost connections and restarts passes an entry over.
SeenIsReported == \A a \in Peers : 1..seen[a] \subseteq reported[a]

\* Nothing holds up a walk at a or before it comes to a: a keeps its session, and
\* it and whoever the table lists before it have sent what they have, all of it
\* JSON.
Unhindered(a) ==
  \E i \in DOMAIN linked :
    /\ linked[i] = a
    /\ \A j \in 1..i : LET f == feed[linked[j]] IN f.here = f.there /\ f.bad = 0

\* Whatever a peer announces is reported in the end, if it stays unhindered:
\* whatever the peers after it in the table do, whichever walks overlap, fail or
\* wait for ever.  Those after a peer that is silent or sends no JSON wait with it.
AllIsReported ==
  \A a \in Peers : <>[]Unhindered(a) => []<>(reported[a] = 1..feed[a].there)
=============================================================================
