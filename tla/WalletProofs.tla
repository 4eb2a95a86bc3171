---------------------------- MODULE WalletProofs ----------------------------
(***************************************************************************)
(* The wallet's ledger (wallet/service.ts, wallet/ledger.ts) and those who *)
(* use it, proved for any candidates, commands, requests and crashes: what *)
(* the ledger file says was dealt with is not paid again, what is recorded *)
(* as settled has its payment in the ledger, and without crashes nothing   *)
(* is paid twice.                                                          *)
(*                                                                         *)
(* The invariant is stated of a ledger, of the requests and of the record  *)
(* of a process, so that what another process may do to the ledger under   *)
(* its feet is said once (ProcStays).                                      *)
(***************************************************************************)
EXTENDS WalletSettlement, FiniteSetTheorems, TLAPS

Requests == Seq([from : Candidates \cup {Manual}, fate : Fates])

ProcRecords ==
  [at : {"idle", "open", "write", "dial", "sent", "pick", "check", "record", "ask"},
   cand : Candidates \cup {Manual}, req : {0} \cup Ids,
   doc : Ledgers, next : {"idle", "pick", "record", "ask"}]

Files == [ledger : Ledgers, state : {"ok", "empty", "torn"}]

From(reqs, k) == {r \in DOMAIN reqs : reqs[r].from = k}

\* The ledger l has a payment for the pair k.
HasPayment(l, reqs, k) == \E r \in Ids : r \in From(reqs, k) /\ l.entries[r] # "none"

\* A ledger has entries for requests that were made, and a payment for every pair
\* settled with success.
Sound(l, reqs) ==
  /\ l \in Ledgers
  /\ \A r \in Ids : l.entries[r] # "none" => r \in DOMAIN reqs
  /\ \A k \in Candidates : l.settled[k] = "succeeded" => HasPayment(l, reqs, k)

\* What the ledger l has dealt with, m has.
Follows(l, m) == \A k \in Candidates : l.settled[k] # "none" => m.settled[k] # "none"

\* The auto-settle loop has had its answer, and the settlement is not in the ledger.
Recording(q) == q.at = "record" \/ (q.at \in {"open", "write"} /\ q.next = "record")

\* What the stage of a process says of the ledger l and the requests.
Consistent(p, q, l, reqs) ==
  /\ q \in ProcRecords
  /\ Sound(q.doc, reqs)
  /\ Follows(q.doc, l)
  /\ q.at = "sent" => q.req \in DOMAIN reqs /\ reqs[q.req].from = q.cand
  /\ p # "settler" => q.cand = Manual
  /\ p = "settler" =>
       /\ q.at \notin {"idle", "pick", "ask"} => q.cand \in Candidates
       /\ q.at = "dial" => l.settled[q.cand] = "none"
       /\ Recording(q) => HasPayment(l, reqs, q.cand)

WalletInv ==
  /\ requests \in Requests /\ Len(requests) <= MaxRequests
  /\ asking \subseteq DOMAIN requests
  /\ Sound(ledger, requests)
  /\ file \in Files /\ Sound(file.ledger, requests)
  /\ up => Follows(file.ledger, ledger)
  /\ ~up => proc = [p \in Procs |-> Resting]
  /\ proc \in [Procs -> ProcRecords]
  /\ \A p \in Procs : Consistent(p, proc[p], ledger, requests)

-----------------------------------------------------------------------------
(* What a step may do to the ledger and the requests under a process.        *)

\* The wallet gets requests and deals with them, and forgets none.
Grows(reqs, more) ==
  DOMAIN reqs \subseteq DOMAIN more /\ \A r \in DOMAIN reqs : more[r].from = reqs[r].from

\* Entries are added and change their status, and pairs are settled once.
Builds(l, m) ==
  /\ \A r \in Ids : l.entries[r] # "none" => m.entries[r] # "none"
  /\ Follows(l, m)

LEMMA PaymentStays ==
  ASSUME NEW reqs, NEW more, Grows(reqs, more), NEW l, NEW m, Builds(l, m), NEW k,
         HasPayment(l, reqs, k)
  PROVE  HasPayment(m, more, k)
BY DEF HasPayment, From, Grows, Builds

LEMMA BuildsNothing == ASSUME NEW l PROVE Builds(l, l)
BY DEF Builds, Follows

LEMMA SoundStays ==
  ASSUME NEW reqs, NEW more, Grows(reqs, more), NEW l, Sound(l, reqs)
  PROVE  Sound(l, more)
BY PaymentStays, BuildsNothing DEF Sound, Grows

\* What a process knows stays true when others add to the ledger, unless it is the
\* auto-settle loop and somebody else settles.
LEMMA ProcStays ==
  ASSUME NEW p, NEW q, NEW l \in Ledgers, NEW m \in Ledgers, NEW reqs, NEW more,
         Consistent(p, q, l, reqs), Grows(reqs, more), Builds(l, m),
         p = "settler" => m.settled = l.settled
  PROVE  Consistent(p, q, m, more)
<1>1. q \in ProcRecords /\ q.doc \in Ledgers
  BY DEF Consistent, ProcRecords
<1>2. Sound(q.doc, more)
  BY SoundStays DEF Consistent
<1>3. Follows(q.doc, m)
  BY DEF Consistent, Builds, Follows
<1>4. q.at = "sent" => q.req \in DOMAIN more /\ more[q.req].from = q.cand
  BY DEF Consistent, Grows
<1>5. ASSUME p = "settler", Recording(q) PROVE HasPayment(m, more, q.cand)
  BY <1>5, PaymentStays DEF Consistent
<1>6. QED
  BY <1>1, <1>2, <1>3, <1>4, <1>5 DEF Consistent

\* Every step of a process: its record becomes q, consistent with what it makes of
\* the ledger, the file and the requests.
LEMMA ProcGoes ==
  ASSUME WalletInv, up, up' = up, NEW p \in Procs, NEW q,
         proc' = [proc EXCEPT ![p] = q], Consistent(p, q, ledger', requests'),
         requests' \in Requests, Len(requests') <= MaxRequests, Grows(requests, requests'),
         Sound(ledger', requests'), Builds(ledger, ledger'),
         p # "settler" => ledger'.settled = ledger.settled,
         file' \in Files, Sound(file'.ledger, requests'), Follows(file'.ledger, ledger'),
         asking' \subseteq DOMAIN requests'
  PROVE  WalletInv'
<1>2. q \in ProcRecords
  BY DEF Consistent
<1>3. proc' \in [Procs -> ProcRecords]
  BY <1>2 DEF WalletInv
<1>4. ledger \in Ledgers /\ ledger' \in Ledgers
  BY DEF WalletInv, Sound
<1>5. ASSUME NEW o \in Procs PROVE Consistent(o, proc'[o], ledger', requests')
  <2>1. CASE o = p
    BY <2>1 DEF WalletInv
  <2>2. CASE o # p
    <3>1. proc'[o] = proc[o]
      BY <2>2 DEF WalletInv
    <3>2. o = "settler" => ledger'.settled = ledger.settled
      BY <2>2
    <3>3. QED
      BY <1>4, <3>1, <3>2, ProcStays DEF WalletInv
  <2>3. QED
    BY <2>1, <2>2
<1>6. QED
  BY <1>3, <1>5 DEF WalletInv

\* What the wallet or the outside does, or a process that stays where it is.
LEMMA NobodyMoves ==
  ASSUME WalletInv, UNCHANGED <<ledger, file, proc, up>>, asking' \subseteq DOMAIN requests',
         requests' \in Requests, Len(requests') <= MaxRequests, Grows(requests, requests')
  PROVE  WalletInv'
<1>2. Sound(ledger, requests') /\ Sound(file.ledger, requests')
  BY SoundStays DEF WalletInv
<1>3. Builds(ledger, ledger)
  BY DEF Builds, Follows
<1>4. ASSUME NEW p \in Procs PROVE Consistent(p, proc[p], ledger, requests')
  BY <1>2, <1>3, ProcStays DEF WalletInv, Sound
<1>5. QED
  BY <1>2, <1>4 DEF WalletInv

-----------------------------------------------------------------------------
(* What may be done to the ledger.                                           *)

LEMMA SettleWorks ==
  ASSUME NEW reqs, NEW l, Sound(l, reqs), NEW k \in Candidates, NEW result \in Results \ {"none"},
         result = "succeeded" => HasPayment(l, reqs, k)
  PROVE  /\ Sound(Settle(l, k, result), reqs)
         /\ Builds(l, Settle(l, k, result))
         /\ Settle(l, k, result).entries = l.entries
         /\ Settle(l, k, result).settled[k] # "none"
<1>1. CASE l.settled[k] # "none"
  BY <1>1, BuildsNothing DEF Settle
<1>2. CASE l.settled[k] = "none"
  <2> DEFINE m == [l EXCEPT !.settled[k] = result]
  <2>1. l \in Ledgers
    BY DEF Sound
  <2>2. /\ m \in Ledgers /\ m.entries = l.entries
        /\ m.settled[k] = result
        /\ \A c \in Candidates \ {k} : m.settled[c] = l.settled[c]
    BY <2>1 DEF Ledgers
  <2>3. Settle(l, k, result) = m
    BY <1>2 DEF Settle
  <2> HIDE DEF m
  <2>4. Sound(m, reqs)
    <3>1. \A c : HasPayment(l, reqs, c) => HasPayment(m, reqs, c)
      BY <2>2 DEF HasPayment
    <3>2. QED
      BY <2>2, <3>1 DEF Sound
  <2>5. Builds(l, m)
    BY <2>2 DEF Builds, Follows
  <2>6. QED
    BY <2>2, <2>3, <2>4, <2>5
<1>3. QED
  BY <1>1, <1>2

LEMMA EntryWorks ==
  ASSUME NEW reqs, NEW l, Sound(l, reqs), NEW r \in Ids, r \in DOMAIN reqs,
         NEW status \in EntryStatuses \ {"none"}
  PROVE  LET m == [l EXCEPT !.entries[r] = status]
         IN  Sound(m, reqs) /\ Builds(l, m) /\ m.settled = l.settled /\ m.entries[r] # "none"
<1> DEFINE m == [l EXCEPT !.entries[r] = status]
<1>1. l \in Ledgers
  BY DEF Sound
<1>2. /\ m \in Ledgers /\ m.settled = l.settled
      /\ m.entries[r] = status
      /\ \A i \in Ids \ {r} : m.entries[i] = l.entries[i]
  BY <1>1 DEF Ledgers
<1> HIDE DEF m
<1>3. \A i \in Ids : l.entries[i] # "none" => m.entries[i] # "none"
  BY <1>2
<1>4. ASSUME NEW k \in Candidates, l.settled[k] = "succeeded" PROVE HasPayment(m, reqs, k)
  BY <1>3, <1>4 DEF Sound, HasPayment
<1>5. Sound(m, reqs)
  BY <1>2, <1>4 DEF Sound
<1>6. Builds(l, m)
  BY <1>2, <1>3 DEF Builds, Follows
<1>7. QED
  BY <1>2, <1>5, <1>6 DEF m

\* The wallet's verdict is a status.
LEMMA StatusIsSome == ASSUME NEW fate \in Fates PROVE StatusOf[fate] \in EntryStatuses \ {"none"}
BY DEF Fates, StatusOf, EntryStatuses

-----------------------------------------------------------------------------
(* The steps of a process.                                                   *)

\* A step that leaves the ledger, the file and the requests alone.
LEMMA Moves ==
  ASSUME WalletInv, up, UNCHANGED <<requests, ledger, file, up>>, asking' \subseteq DOMAIN requests,
         NEW p \in Procs, NEW q, proc' = [proc EXCEPT ![p] = q], Consistent(p, q, ledger, requests)
  PROVE  WalletInv'
<1>1. Grows(requests, requests)
  BY DEF Grows
<1>2. QED
  BY <1>1, BuildsNothing, ProcGoes DEF WalletInv

\* A ledger change, on its way to the file.
LEMMA Persists ==
  ASSUME WalletInv, up, UNCHANGED <<requests, file, up>>, asking' \subseteq asking,
         NEW p \in Procs, NEW l, NEW next \in {"idle", "pick", "record", "ask"}, Persist(p, l, next),
         Sound(l, requests), Builds(ledger, l),
         IF p = "settler"
         THEN /\ proc[p].cand \in Candidates
              /\ next = "record" => HasPayment(l, requests, proc[p].cand)
         ELSE l.settled = ledger.settled
  PROVE  WalletInv'
<1> DEFINE q == [proc[p] EXCEPT !.at = "open", !.doc = l, !.next = next]
<1>1. proc[p] \in ProcRecords /\ Consistent(p, proc[p], ledger, requests)
  BY DEF WalletInv
<1>2. l \in Ledgers
  BY DEF Sound
<1>3. /\ q \in ProcRecords
      /\ q.at = "open" /\ q.doc = l /\ q.next = next /\ q.cand = proc[p].cand
  BY <1>1, <1>2 DEF ProcRecords
<1>4. proc' = [proc EXCEPT ![p] = q] /\ ledger' = l
  BY DEF Persist
<1> HIDE DEF q
<1>5. Follows(l, l)
  BY DEF Follows
<1>6. Consistent(p, q, l, requests)
  BY <1>1, <1>3, <1>5 DEF Consistent, Recording
<1>7. Follows(file.ledger, l)
  BY DEF WalletInv, Builds, Follows
<1>8. Grows(requests, requests)
  BY DEF Grows
<1>9. QED
  BY <1>4, <1>6, <1>7, <1>8, ProcGoes DEF WalletInv

\* The record of a process that starts something new from where it rests.
LEMMA RestingIsConsistent ==
  ASSUME NEW p \in Procs, NEW l, NEW reqs
  PROVE  Resting \in ProcRecords /\ Consistent(p, Resting, l, reqs)
<1>1. EmptyLedger \in Ledgers
  BY DEF EmptyLedger, Ledgers, EntryStatuses, Results
<1>2. /\ Resting.at = "idle" /\ Resting.cand = Manual /\ Resting.doc = EmptyLedger
      /\ Resting \in ProcRecords
  BY <1>1 DEF Resting, ProcRecords
<1>3. Sound(EmptyLedger, reqs) /\ Follows(EmptyLedger, l)
  BY <1>1 DEF Sound, Follows, EmptyLedger
<1>4. QED
  BY <1>2, <1>3 DEF Consistent, Recording

\* A process goes to a stage that asks nothing of it.
LEMMA GoesOn ==
  ASSUME WalletInv, NEW p \in Procs, NEW stage \in {"idle", "pick", "ask"}
  PROVE  Consistent(p, [proc[p] EXCEPT !.at = stage], ledger, requests)
<1> DEFINE q == [proc[p] EXCEPT !.at = stage]
<1>1. proc[p] \in ProcRecords /\ Consistent(p, proc[p], ledger, requests)
  BY DEF WalletInv
<1>2. q \in ProcRecords /\ q.at = stage /\ q.doc = proc[p].doc /\ q.cand = proc[p].cand
  BY <1>1 DEF ProcRecords
<1> HIDE DEF q
<1>3. Consistent(p, q, ledger, requests)
  BY <1>1, <1>2 DEF Consistent, Recording
<1>4. QED
  BY <1>3 DEF q

LEMMA FileStep ==
  ASSUME WalletInv, NEW p \in Procs, PersistOpen(p) \/ PersistWrite(p)
  PROVE  WalletInv'
<1>1. /\ proc[p] \in ProcRecords /\ Consistent(p, proc[p], ledger, requests)
      /\ up /\ UNCHANGED <<up, requests, ledger, asking>>
  BY DEF WalletInv, PersistOpen, PersistWrite, At, loopVars
<1>2. Grows(requests, requests) /\ Builds(ledger, ledger)
  BY BuildsNothing DEF Grows
<1>3. CASE PersistOpen(p)
  <2> DEFINE q == [proc[p] EXCEPT !.at = "write"]
  <2>1. q \in ProcRecords /\ q.at = "write" /\ q.doc = proc[p].doc /\ q.cand = proc[p].cand
        /\ q.next = proc[p].next
    BY <1>1 DEF ProcRecords
  <2>2. proc[p].at = "open" /\ proc' = [proc EXCEPT ![p] = q]
    BY <1>3 DEF PersistOpen, At, Goes
  <2> HIDE DEF q
  <2>3. Consistent(p, q, ledger, requests)
    BY <1>1, <2>1, <2>2 DEF Consistent, Recording
  <2>4. Sound(EmptyLedger, requests) /\ Follows(EmptyLedger, ledger)
    BY RestingIsConsistent DEF Consistent, Resting
  <2>5. file' \in Files /\ Sound(file'.ledger, requests) /\ Follows(file'.ledger, ledger)
    BY <1>3, <2>4 DEF PersistOpen, Files, Sound
  <2>6. QED
    BY <1>1, <1>2, <2>2, <2>3, <2>5, ProcGoes DEF WalletInv
<1>4. CASE PersistWrite(p)
  <2> DEFINE q == [proc[p] EXCEPT !.at = proc[p].next, !.doc = EmptyLedger]
             to == IF proc[p].next = "idle" THEN Resting ELSE q
  <2>1. Consistent(p, Resting, ledger, requests) /\ Resting.doc = EmptyLedger
    BY RestingIsConsistent DEF Resting
  <2>2. EmptyLedger \in Ledgers /\ Sound(EmptyLedger, requests) /\ Follows(EmptyLedger, ledger)
    BY <2>1 DEF Consistent, Sound
  <2>3. q \in ProcRecords /\ q.at = proc[p].next /\ q.doc = EmptyLedger /\ q.cand = proc[p].cand
        /\ q.next = proc[p].next
    BY <1>1, <2>2 DEF ProcRecords
  <2>4. proc[p].at = "write" /\ proc' = [proc EXCEPT ![p] = to]
    BY <1>4 DEF PersistWrite, At
  <2> HIDE DEF q
  <2>5. proc[p].next \in {"idle", "pick", "record", "ask"}
    BY <1>1 DEF ProcRecords
  <2>6. Consistent(p, q, ledger, requests)
    BY <1>1, <2>2, <2>3, <2>4, <2>5 DEF Consistent, Recording
  <2>7. Consistent(p, to, ledger, requests)
    BY <2>1, <2>6
  <2> HIDE DEF to
  <2>8. file' \in Files /\ (file'.ledger = file.ledger \/ file'.ledger = proc[p].doc)
    BY <1>1, <1>4 DEF PersistWrite, WalletInv, Files, ProcRecords
  <2>9. Sound(file'.ledger, requests) /\ Follows(file'.ledger, ledger)
    BY <1>1, <2>8 DEF Consistent, WalletInv
  <2>10. QED
    BY <1>1, <1>2, <2>4, <2>7, <2>8, <2>9, ProcGoes DEF WalletInv
<1>5. QED
  BY <1>3, <1>4

LEMMA SendStep ==
  ASSUME WalletInv, NEW p \in Procs, Send(p)
  PROVE  WalletInv'
<1> DEFINE n == Len(requests)
           q == [proc[p] EXCEPT !.at = "sent", !.req = n + 1]
           new == [from |-> proc[p].cand, fate |-> "pending"]
<1>1. /\ proc[p] \in ProcRecords /\ Consistent(p, proc[p], ledger, requests)
      /\ up /\ UNCHANGED <<up, ledger, file, asking>> /\ proc[p].at = "dial"
      /\ requests' = Append(requests, new) /\ proc' = [proc EXCEPT ![p] = q]
      /\ n < MaxRequests
  BY DEF WalletInv, Send, At, loopVars
<1>2. new \in [from : Candidates \cup {Manual}, fate : Fates]
  BY <1>1 DEF ProcRecords, Fates
<1>3. requests \in Requests /\ n \in Nat /\ DOMAIN requests = 1..n
  BY DEF WalletInv, Requests
<1>4. /\ requests' \in Requests /\ Len(requests') = n + 1
      /\ DOMAIN requests' = 1..(n + 1)
      /\ \A r \in DOMAIN requests : requests'[r] = requests[r]
      /\ requests'[n + 1] = new
  BY <1>1, <1>2, <1>3 DEF Requests
<1>5. n + 1 \in Ids /\ n + 1 <= MaxRequests
  BY <1>1, <1>3, WalletConstants DEF Ids
<1>6. /\ q \in ProcRecords /\ q.at = "sent" /\ q.req = n + 1 /\ q.doc = proc[p].doc
      /\ q.cand = proc[p].cand
  BY <1>1, <1>5 DEF ProcRecords
<1>7. Grows(requests, requests') /\ n + 1 \in DOMAIN requests'
  BY <1>3, <1>4 DEF Grows
<1>8. new.from = proc[p].cand
  OBVIOUS
<1> HIDE DEF q, new
<1>9. Sound(q.doc, requests')
  BY <1>1, <1>6, <1>7, SoundStays DEF Consistent
<1>10. Consistent(p, q, ledger, requests')
  BY <1>1, <1>4, <1>6, <1>7, <1>8, <1>9 DEF Consistent, Recording
<1>11. Sound(ledger, requests') /\ Sound(file.ledger, requests')
  BY <1>7, SoundStays DEF WalletInv
<1>12. asking' \subseteq DOMAIN requests'
  BY <1>1, <1>7 DEF WalletInv, Grows
<1>13. QED
  BY <1>1, <1>4, <1>5, <1>7, <1>10, <1>11, <1>12, BuildsNothing, ProcGoes DEF WalletInv

\* An error: of the auto-settle loop, it is recorded; a command ends.
LEMMA FailStep ==
  ASSUME WalletInv, NEW p \in Procs, At(p, "dial") \/ At(p, "sent") \/ At(p, "check"), Fails(p),
         UNCHANGED <<requests, file, asking, up>>
  PROVE  WalletInv'
<1>1. proc[p] \in ProcRecords /\ Consistent(p, proc[p], ledger, requests) /\ up
  BY DEF WalletInv, At
<1>2. CASE p = "settler"
  <2> DEFINE k == proc[p].cand
             l == Settle(ledger, k, "failed")
  <2>1. k \in Candidates
    BY <1>1, <1>2 DEF Consistent, At
  <2>2. "failed" \in Results \ {"none"}
    BY DEF Results
  <2>3. Sound(l, requests) /\ Builds(ledger, l)
    BY <2>1, <2>2, SettleWorks DEF WalletInv
  <2>4. Persist(p, l, "pick")
    BY <1>2 DEF Fails
  <2> HIDE DEF l
  <2>5. QED
    BY <1>1, <1>2, <2>1, <2>3, <2>4, Persists
<1>3. CASE p # "settler"
  <2>1. proc' = [proc EXCEPT ![p] = Resting] /\ UNCHANGED ledger
    BY <1>3 DEF Fails
  <2>2. QED
    BY <1>1, <2>1, RestingIsConsistent, Moves DEF WalletInv
<1>4. QED
  BY <1>2, <1>3

LEMMA RequestTyped ==
  ASSUME requests \in Requests, Len(requests) <= MaxRequests, NEW r \in DOMAIN requests
  PROVE  r \in Ids /\ requests[r].fate \in Fates
<1> DEFINE S == [from : Candidates \cup {Manual}, fate : Fates]
<1>1. ASSUME NEW s \in Seq(S), NEW i \in DOMAIN s PROVE s[i] \in S /\ i \in 1..Len(s) /\ Len(s) \in Nat
  <2> HIDE DEF S
  <2>1. QED
    OBVIOUS
<1>2. requests[r] \in S /\ r \in 1..Len(requests) /\ Len(requests) \in Nat
  BY <1>1 DEF Requests
<1>3. QED
  BY <1>2, WalletConstants DEF Ids

LEMMA AnswerStep ==
  ASSUME WalletInv, NEW p \in Procs, Answer(p)
  PROVE  WalletInv'
<1> DEFINE r == proc[p].req
           l == [ledger EXCEPT !.entries[r] = StatusOf[requests[r].fate]]
           next == IF p = "settler" THEN "record" ELSE "idle"
<1>1. /\ proc[p] \in ProcRecords /\ Consistent(p, proc[p], ledger, requests)
      /\ proc[p].at = "sent" /\ up /\ UNCHANGED <<requests, file, asking, up>>
      /\ Persist(p, l, next)
  BY DEF WalletInv, Answer, At, loopVars
<1>2. r \in DOMAIN requests /\ requests[r].from = proc[p].cand
  BY <1>1 DEF Consistent
<1>3. r \in Ids /\ requests[r].fate \in Fates
  BY <1>2, RequestTyped DEF WalletInv
<1>4. /\ Sound(l, requests) /\ Builds(ledger, l)
      /\ l.settled = ledger.settled /\ l.entries[r] # "none"
  <2> DEFINE s == StatusOf[requests[r].fate]
  <2>1. s \in EntryStatuses \ {"none"} /\ Sound(ledger, requests)
    BY <1>3, StatusIsSome DEF WalletInv
  <2> HIDE DEF s
  <2>2. LET m == [ledger EXCEPT !.entries[r] = s]
        IN  Sound(m, requests) /\ Builds(ledger, m) /\ m.settled = ledger.settled /\ m.entries[r] # "none"
    BY <1>2, <1>3, <2>1, EntryWorks
  <2>3. QED
    BY <2>2 DEF s
<1> HIDE DEF l
<1>5. HasPayment(l, requests, proc[p].cand)
  BY <1>2, <1>3, <1>4 DEF HasPayment, From
<1>6. p = "settler" => proc[p].cand \in Candidates
  BY <1>1 DEF Consistent
<1>7. next \in {"idle", "pick", "record", "ask"}
  OBVIOUS
<1> HIDE DEF next
<1>8. QED
  BY <1>1, <1>4, <1>5, <1>6, <1>7, Persists

LEMMA ProceedStep ==
  ASSUME WalletInv, NEW p \in Procs, Proceed(p)
  PROVE  WalletInv'
<1>1. CASE DialFails(p)
  BY <1>1, FailStep DEF DialFails, loopVars
<1>2. CASE NoAnswer(p)
  BY <1>2, FailStep DEF NoAnswer, loopVars
<1>3. QED
  BY <1>1, <1>2, FileStep, SendStep, AnswerStep DEF Proceed

LEMMA SettlerStep ==
  ASSUME WalletInv, Settler
  PROVE  WalletInv'
<1> DEFINE q == proc["settler"]
           k == q.cand
<1>1. "settler" \in Procs /\ q \in ProcRecords /\ Consistent("settler", q, ledger, requests)
  BY DEF WalletInv, Procs
<1>2. CASE SettlerTick
  BY <1>1, <1>2, GoesOn, Moves DEF SettlerTick, At, Goes, WalletInv
<1>3. ASSUME NEW c \in Candidates, SettlerStatus(c)
      PROVE  WalletInv'
  <2>1. up /\ UNCHANGED <<requests, ledger, file, asking, up>>
    BY <1>3 DEF SettlerStatus, At
  <2>2. CASE Ready
    <3> DEFINE to == [q EXCEPT !.at = "check", !.cand = c]
    <3>1. to \in ProcRecords /\ to.at = "check" /\ to.cand = c /\ to.doc = q.doc
      BY <1>1 DEF ProcRecords
    <3>2. proc' = [proc EXCEPT !["settler"] = to]
      BY <1>3, <2>2 DEF SettlerStatus
    <3> HIDE DEF to
    <3>3. Consistent("settler", to, ledger, requests)
      BY <1>1, <3>1 DEF Consistent, Recording
    <3>4. QED
      BY <1>1, <2>1, <3>2, <3>3, Moves DEF WalletInv
  <2>3. CASE ~Ready
    <3>1. UNCHANGED proc
      BY <1>3, <2>3 DEF SettlerStatus
    <3>2. Grows(requests, requests)
      BY DEF Grows
    <3>3. QED
      BY <2>1, <3>1, <3>2, NobodyMoves DEF WalletInv
  <2>4. QED
    BY <2>2, <2>3
<1>4. CASE SettlerCheck
  <2>1. q.at = "check" /\ up /\ UNCHANGED <<requests, file, asking, up>>
    BY <1>4 DEF SettlerCheck, At, loopVars
  <2>2. k \in Candidates
    BY <1>1, <2>1 DEF Consistent
  <2>3. CASE Goes("settler", "pick") /\ UNCHANGED ledger
    BY <1>1, <2>1, <2>3, GoesOn, Moves DEF Goes, WalletInv
  <2>4. CASE Persist("settler", Settle(ledger, k, "skipped"), "pick")
    <3> DEFINE l == Settle(ledger, k, "skipped")
    <3>1. "skipped" \in Results \ {"none"}
      BY DEF Results
    <3>2. Sound(l, requests) /\ Builds(ledger, l)
      BY <2>2, <3>1, SettleWorks DEF WalletInv
    <3>3. Persist("settler", l, "pick")
      BY <2>4
    <3> HIDE DEF l
    <3>4. QED
      BY <1>1, <2>1, <2>2, <3>2, <3>3, Persists
  <2>5. CASE ~Dealt(k) /\ Goes("settler", "dial") /\ UNCHANGED ledger
    <3> DEFINE to == [q EXCEPT !.at = "dial"]
    <3>1. to \in ProcRecords /\ to.at = "dial" /\ to.cand = k /\ to.doc = q.doc
      BY <1>1 DEF ProcRecords
    <3>2. proc' = [proc EXCEPT !["settler"] = to] /\ ledger.settled[k] = "none"
      BY <2>5 DEF Goes, Dealt
    <3> HIDE DEF to
    <3>3. Consistent("settler", to, ledger, requests)
      BY <1>1, <2>2, <3>1, <3>2 DEF Consistent, Recording
    <3>4. QED
      BY <1>1, <2>1, <2>5, <3>2, <3>3, Moves DEF WalletInv
  <2>6. CASE Fails("settler")
    BY <1>1, <2>1, <2>6, FailStep DEF At
  <2>7. QED
    BY <1>4, <2>3, <2>4, <2>5, <2>6 DEF SettlerCheck
<1>5. CASE SettlerRecord
  <2> DEFINE l == Settle(ledger, k, "succeeded")
  <2>1. q.at = "record" /\ up /\ UNCHANGED <<requests, file, asking, up>>
        /\ Persist("settler", l, "pick")
    BY <1>5 DEF SettlerRecord, At, loopVars
  <2>2. k \in Candidates /\ HasPayment(ledger, requests, k)
    BY <1>1, <2>1 DEF Consistent, Recording
  <2>3. "succeeded" \in Results \ {"none"}
    BY DEF Results
  <2>4. Sound(l, requests) /\ Builds(ledger, l)
    BY <2>2, <2>3, SettleWorks DEF WalletInv
  <2> HIDE DEF l
  <2>5. QED
    BY <1>1, <2>1, <2>2, <2>4, Persists
<1>6. CASE SettlerDone
  BY <1>1, <1>6, RestingIsConsistent, Moves DEF SettlerDone, At, loopVars, WalletInv
<1>7. QED
  BY <1>2, <1>3, <1>4, <1>5, <1>6 DEF Settler

LEMMA PollerStep ==
  ASSUME WalletInv, Poller
  PROVE  WalletInv'
<1>1. /\ "poller" \in Procs /\ "poller" # "settler"
      /\ Consistent("poller", proc["poller"], ledger, requests)
  BY DEF WalletInv, Procs
<1>2. CASE PollTick
  <2>1. asking' \subseteq DOMAIN requests
    BY <1>2 DEF PollTick, WalletInv, Sound
  <2>2. QED
    BY <1>1, <1>2, <2>1, GoesOn, Moves DEF PollTick, At, Goes
<1>3. ASSUME NEW r \in Ids, PollAsk(r) PROVE WalletInv'
  <2> DEFINE s == StatusOf[requests[r].fate]
             l == [ledger EXCEPT !.entries[r] = s]
  <2>1. /\ up /\ UNCHANGED <<requests, file, up>> /\ asking' \subseteq asking
        /\ r \in DOMAIN requests
    BY <1>3 DEF PollAsk, At, WalletInv
  <2>2. Persist("poller", l, "ask") \/ UNCHANGED <<ledger, proc>>
    BY <1>3 DEF PollAsk
  <2>3. s \in EntryStatuses \ {"none"} /\ Sound(ledger, requests)
    BY <2>1, RequestTyped, StatusIsSome DEF WalletInv
  <2> HIDE DEF s
  <2>4. Sound(l, requests) /\ Builds(ledger, l) /\ l.settled = ledger.settled
    BY <2>1, <2>3, EntryWorks
  <2> HIDE DEF l
  <2>5. Grows(requests, requests)
    BY DEF Grows
  <2>6. CASE Persist("poller", l, "ask")
    BY <1>1, <2>1, <2>4, <2>6, Persists
  <2>7. CASE UNCHANGED <<ledger, proc>>
    BY <2>1, <2>5, <2>7, NobodyMoves DEF WalletInv
  <2>8. QED
    BY <2>2, <2>6, <2>7
<1>4. ASSUME NEW r \in Ids, PollFails(r) PROVE WalletInv'
  <2>1. Grows(requests, requests)
    BY DEF Grows
  <2>2. QED
    BY <1>4, <2>1, NobodyMoves DEF PollFails, WalletInv
<1>5. CASE PollDone
  BY <1>1, <1>5, RestingIsConsistent, Moves DEF PollDone, At, loopVars, WalletInv
<1>6. QED
  BY <1>2, <1>3, <1>4, <1>5 DEF Poller

LEMMA EnvironmentStep ==
  ASSUME WalletInv, Environment
  PROVE  WalletInv'
<1>1. Grows(requests, requests)
  BY DEF Grows
<1>2. ASSUME NEW c \in Commands, NEW withKey \in BOOLEAN, CommandStart(c, withKey)
      PROVE  WalletInv'
  <2> DEFINE q == [Resting EXCEPT !.at = "dial"]
  <2>1. c \in Procs /\ c # "settler"
    BY WalletConstants DEF Procs
  <2>2. Resting \in ProcRecords /\ Consistent(c, Resting, ledger, requests)
    BY <2>1, RestingIsConsistent
  <2>3. /\ q \in ProcRecords /\ q.at = "dial" /\ q.doc = Resting.doc /\ q.cand = Resting.cand
    BY <2>2 DEF ProcRecords
  <2>4. up /\ UNCHANGED <<requests, ledger, file, asking, up>> /\ proc' = [proc EXCEPT ![c] = q]
    BY <1>2 DEF CommandStart, At, loopVars
  <2> HIDE DEF q
  <2>5. Consistent(c, q, ledger, requests)
    BY <2>1, <2>2, <2>3 DEF Consistent
  <2>6. QED
    BY <2>1, <2>4, <2>5, Moves DEF WalletInv
<1>3. CASE Lock \/ Unlock \/ Connect \/ Disconnect
  BY <1>1, <1>3, NobodyMoves DEF Lock, Unlock, Connect, Disconnect, loopVars, WalletInv
<1>4. ASSUME NEW k \in Candidates, Accept(k) \/ AcceptLogged(k) \/ Withdraw(k)
      PROVE  WalletInv'
  BY <1>1, <1>4, NobodyMoves DEF Accept, AcceptLogged, Withdraw, loopVars, WalletInv
<1>5. ASSUME NEW r \in Ids, WalletResolves(r)
      PROVE  WalletInv'
  <2>1. PICK fate \in {"paid", "refused"} : requests' = [requests EXCEPT ![r].fate = fate]
    BY <1>5 DEF WalletResolves
  <2> DEFINE S == [from : Candidates \cup {Manual}, fate : Fates]
  <2>2. \A x \in S : [x EXCEPT !.fate = fate] \in S /\ [x EXCEPT !.fate = fate].from = x.from
    BY DEF Fates
  <2>3. ASSUME NEW s \in Seq(S), NEW i \in DOMAIN s, NEW t, t = [s EXCEPT ![i].fate = fate]
        PROVE  t \in Seq(S) /\ Len(t) = Len(s) /\ Grows(s, t)
    <3>1. s[i] \in S /\ t = [s EXCEPT ![i] = [s[i] EXCEPT !.fate = fate]]
      <4> HIDE DEF S
      <4>1. QED
        BY <2>3
    <3> DEFINE x == [s[i] EXCEPT !.fate = fate]
    <3>2. x \in S /\ x.from = s[i].from
      BY <2>2, <3>1
    <3> HIDE DEF x, S
    <3>3. QED
      BY <3>1, <3>2 DEF x, Grows
  <2>4. r \in DOMAIN requests
    BY <1>5 DEF WalletResolves
  <2>5. requests' \in Requests /\ Len(requests') = Len(requests) /\ Grows(requests, requests')
    BY <2>1, <2>3, <2>4 DEF WalletInv, Requests
  <2>6. UNCHANGED <<ledger, file, proc, asking, up>>
    BY <1>5 DEF WalletResolves, loopVars
  <2>7. QED
    BY <2>5, <2>6, NobodyMoves DEF WalletInv, Grows
<1>6. CASE Crash
  <2>1. EmptyLedger \in Ledgers /\ Sound(EmptyLedger, requests)
    BY RestingIsConsistent DEF EmptyLedger, Sound, Ledgers, EntryStatuses, Results
  <2>2. /\ proc' = [p \in Procs |-> Resting] /\ ledger' = EmptyLedger /\ asking' = {} /\ ~up'
        /\ UNCHANGED <<requests, file>>
    BY <1>6 DEF Crash
  <2>3. \A p \in Procs : Consistent(p, proc'[p], ledger', requests)
    BY <2>2, RestingIsConsistent
  <2>4. proc' \in [Procs -> ProcRecords]
    BY <2>2, RestingIsConsistent
  <2>5. QED
    BY <2>1, <2>2, <2>3, <2>4 DEF WalletInv
<1>7. CASE Restart
  <2>1. /\ proc = [p \in Procs |-> Resting] /\ ledger' = file.ledger
        /\ UNCHANGED <<requests, file, asking, proc>>
    BY <1>7 DEF Restart, WalletInv, loopVars
  <2>2. \A p \in Procs : Consistent(p, proc[p], ledger', requests)
    BY <2>1, RestingIsConsistent
  <2>3. Follows(file.ledger, ledger')
    BY <2>1 DEF Follows
  <2>4. QED
    BY <2>1, <2>2, <2>3, <1>7 DEF WalletInv, Restart
<1>8. QED
  BY <1>2, <1>3, <1>4, <1>5, <1>6, <1>7 DEF Environment

LEMMA WalletStep == WalletInv /\ [Next]_vars => WalletInv'
<1>1. SUFFICES ASSUME WalletInv, [Next]_vars PROVE WalletInv'
  OBVIOUS
<1>2. CASE UNCHANGED vars
  <2>1. UNCHANGED <<requests, asking, ledger, file, up, proc>>
    BY <1>2 DEF vars, loopVars
  <2>2. QED
    BY <1>1, <2>1 DEF WalletInv
<1>3. QED
  BY <1>1, <1>2, ProceedStep, SettlerStep, PollerStep, EnvironmentStep DEF Next

\* The inductive invariant: where each loop and command is decides what it has
\* made of the requests and the ledger.
THEOREM Correct == Spec => []WalletInv
<1>1. Init => WalletInv
  <2>1. SUFFICES ASSUME Init PROVE WalletInv
    OBVIOUS
  <2>2. /\ proc = [p \in Procs |-> Resting] /\ ledger = EmptyLedger /\ requests = <<>>
        /\ file = [ledger |-> EmptyLedger, state |-> "ok"] /\ asking = {} /\ up = TRUE
    BY <2>1 DEF Init
  <2>3. EmptyLedger \in Ledgers /\ Sound(EmptyLedger, requests)
    BY DEF EmptyLedger, Sound, Ledgers, EntryStatuses, Results
  <2>4. \A p \in Procs : Consistent(p, proc[p], ledger, requests) /\ Resting \in ProcRecords
    BY <2>2, RestingIsConsistent
  <2>5. requests \in Requests /\ Len(requests) <= MaxRequests /\ Follows(EmptyLedger, EmptyLedger)
    BY <2>2, WalletConstants DEF Requests, Follows
  <2>6. QED
    BY <2>2, <2>3, <2>4, <2>5 DEF WalletInv, Files
<1>2. QED
  BY <1>1, WalletStep, PTL DEF Spec

\* A pair recorded as settled has a payment in the ledger, in memory as in the
\* file, for any loops, commands, overlapping writes, crashes and restarts.
THEOREM SettledWasPaid == Spec => []SettledHasPayment
<1>1. WalletInv => SettledHasPayment
  BY DEF WalletInv, Sound, HasPayment, From, SettledHasPayment, RequestsFrom
<1>2. QED
  BY <1>1, Correct, PTL

\* The type of the variables that are not in WalletInv.
Simple ==
  /\ eligible \subseteq Candidates /\ logged \subseteq Candidates /\ todo \subseteq Candidates
  /\ runtimeKey \in BOOLEAN /\ configured \in BOOLEAN /\ up \in BOOLEAN
  /\ inputs \in 0..MaxInputs /\ crashes \in 0..MaxCrashes

LEMMA SimpleStep == Simple /\ [Next]_vars => Simple'
<1>1. SUFFICES ASSUME Simple, [Next]_vars PROVE Simple'
  OBVIOUS
<1>2. ASSUME NEW p \in Procs, Proceed(p) PROVE Simple'
  BY <1>1, <1>2 DEF Proceed, PersistOpen, PersistWrite, Send, DialFails, Answer, NoAnswer, Simple,
                    userVars, loopVars
<1>3. CASE Settler
  BY <1>1, <1>3 DEF Settler, SettlerTick, SettlerStatus, SettlerCheck, SettlerRecord, SettlerDone,
                    Simple, userVars, loopVars
<1>4. CASE Poller
  BY <1>1, <1>4 DEF Poller, PollTick, PollAsk, PollFails, PollDone, Simple, userVars, loopVars
<1>5. CASE Environment
  <2>1. Input => inputs' \in 0..MaxInputs
    BY <1>1, WalletConstants DEF Input, Simple
  <2>2. ASSUME NEW c \in Commands, NEW withKey \in BOOLEAN, CommandStart(c, withKey) PROVE Simple'
    BY <1>1, <2>1, <2>2 DEF CommandStart, Simple, loopVars
  <2>3. CASE Lock \/ Unlock \/ Connect \/ Disconnect
    BY <1>1, <2>1, <2>3 DEF Lock, Unlock, Connect, Disconnect, Simple, loopVars
  <2>4. ASSUME NEW k \in Candidates, Accept(k) \/ AcceptLogged(k) \/ Withdraw(k) PROVE Simple'
    BY <1>1, <2>4 DEF Accept, AcceptLogged, Withdraw, Simple, userVars, loopVars
  <2>5. ASSUME NEW r \in Ids, WalletResolves(r) PROVE Simple'
    BY <1>1, <2>5 DEF WalletResolves, Simple, userVars, loopVars
  <2>6. CASE Crash
    <3>1. crashes' \in 0..MaxCrashes
      BY <1>1, <2>6, WalletConstants DEF Crash, Simple
    <3>2. QED
      BY <1>1, <2>6, <3>1, WalletConstants DEF Crash, Simple
  <2>7. CASE Restart
    BY <1>1, <2>7 DEF Restart, Simple, userVars, loopVars
  <2>8. QED
    BY <1>5, <2>2, <2>3, <2>4, <2>5, <2>6, <2>7 DEF Environment
<1>6. CASE UNCHANGED vars
  BY <1>1, <1>6 DEF vars, Simple, userVars, loopVars
<1>7. QED
  BY <1>1, <1>2, <1>3, <1>4, <1>5, <1>6 DEF Next

\* The variables of the wallet runtime keep their types.
THEOREM TypeCorrect == Spec => []TypeOK
<1>1. Init => Simple
  BY WalletConstants DEF Init, Simple
<1>2. WalletInv /\ Simple => TypeOK
  <2>1. SUFFICES ASSUME WalletInv, Simple PROVE TypeOK
    OBVIOUS
  <2>2. Len(requests) \in Nat /\ DOMAIN requests = 1..Len(requests)
    BY <2>1 DEF WalletInv, Requests
  <2>3. asking \subseteq Ids
    BY <2>1, <2>2, WalletConstants DEF WalletInv, Ids
  <2>4. QED
    BY <2>1, <2>3 DEF WalletInv, Simple, Requests, Sound, Files, ProcRecords, TypeOK
<1>3. QED
  BY <1>1, <1>2, SimpleStep, Correct, PTL DEF Spec

-----------------------------------------------------------------------------
(* Who pays, and how often.                                                  *)

\* Only the auto-settle loop asks the wallet to pay a candidate, the one it has
\* seen to be undealt with.
LEMMA OnlySettlerPays ==
  ASSUME WalletInv, [Next]_vars, NEW k \in Candidates
  PROVE  \/ From(requests', k) = From(requests, k)
         \/ Send("settler") /\ proc["settler"].cand = k
<1>1. ASSUME NEW p \in Procs, Send(p), p # "settler" \/ proc[p].cand # k
      PROVE  From(requests', k) = From(requests, k)
  <2> DEFINE new == [from |-> proc[p].cand, fate |-> "pending"]
  <2>1. new.from # k
    BY <1>1, WalletConstants DEF WalletInv, Consistent
  <2>2. requests' = Append(requests, new) /\ requests \in Requests
    BY <1>1 DEF Send, WalletInv
  <2> HIDE DEF new
  <2>3. /\ Len(requests) \in Nat
        /\ DOMAIN requests = 1..Len(requests) /\ DOMAIN requests' = 1..(Len(requests) + 1)
        /\ requests'[Len(requests) + 1] = new
        /\ \A r \in DOMAIN requests : requests'[r] = requests[r]
    BY <2>2 DEF Requests
  <2>4. QED
    BY <2>1, <2>3 DEF From
<1>2. ASSUME NEW p \in Procs, Proceed(p), ~Send(p)
      PROVE  UNCHANGED requests
  BY <1>2 DEF Proceed, PersistOpen, PersistWrite, DialFails, Answer, NoAnswer
<1>3. Settler \/ Poller => UNCHANGED requests
  BY DEF Settler, SettlerTick, SettlerStatus, SettlerCheck, SettlerRecord, SettlerDone,
         Poller, PollTick, PollAsk, PollFails, PollDone
<1>4. ASSUME Environment, ~\E r \in Ids : WalletResolves(r) PROVE UNCHANGED requests
  BY <1>4 DEF Environment, CommandStart, Lock, Unlock, Connect, Disconnect, Accept, AcceptLogged,
              Withdraw, Crash, Restart
<1>5. ASSUME NEW r \in Ids, WalletResolves(r) PROVE From(requests', k) = From(requests, k)
  <2>1. PICK fate \in {"paid", "refused"} : requests' = [requests EXCEPT ![r].fate = fate]
    BY <1>5 DEF WalletResolves
  <2> DEFINE S == [from : Candidates \cup {Manual}, fate : Fates]
  <2>2. r \in DOMAIN requests /\ requests \in Seq(S)
    BY <1>5 DEF WalletResolves, WalletInv, Requests
  <2>3. requests[r] \in S
    <3> HIDE DEF S
    <3>1. QED
      BY <2>2
  <2>4. [requests[r] EXCEPT !.fate = fate].from = requests[r].from
    BY <2>3
  <2>5. DOMAIN requests' = DOMAIN requests /\ \A i \in DOMAIN requests : requests'[i].from = requests[i].from
    BY <2>1, <2>2, <2>4
  <2>6. QED
    BY <2>5 DEF From
<1>6. UNCHANGED vars => UNCHANGED requests
  BY DEF vars
<1>7. QED
  BY <1>1, <1>2, <1>3, <1>4, <1>5, <1>6 DEF Next

\* What the ledger file says was dealt with is never paid again, for any commands,
\* overlapping writes, crashes and restarts.
THEOREM DedupeIsDurable == Spec => DurableDedupe
<1> DEFINE Kept ==
      \A k \in Candidates :
        (file.state = "ok" /\ file.ledger.settled[k] # "none")
          => {r \in DOMAIN requests' : requests'[r].from = k} = RequestsFrom(k)
<1>1. WalletInv /\ [Next]_vars => Kept
  <2>1. SUFFICES ASSUME WalletInv, [Next]_vars, NEW k \in Candidates, file.ledger.settled[k] # "none"
                 PROVE  From(requests', k) = From(requests, k)
    BY DEF From, RequestsFrom
  <2>2. ASSUME Send("settler"), proc["settler"].cand = k PROVE FALSE
    <3>1. Consistent("settler", proc["settler"], ledger, requests) /\ Follows(file.ledger, ledger)
      BY <2>1, <2>2 DEF WalletInv, Procs, Send, At
    <3>2. ledger.settled[k] = "none"
      BY <2>2, <3>1 DEF Consistent, Send, At
    <3>3. QED
      BY <2>1, <3>1, <3>2 DEF Follows
  <2>3. QED
    BY <2>1, <2>2, OnlySettlerPays
<1>2. QED
  BY <1>1, Correct, PTL DEF Spec, DurableDedupe

\* The auto-settle loop is between the request for k and its record in the ledger.
Paying(q, k) == q.cand = k /\ (q.at = "sent" \/ Recording(q))

\* The pair k has been dealt with, or is being paid.
Handled(k) == ledger.settled[k] # "none" \/ Paying(proc["settler"], k)

\* Unless the daemon has died, what was sent to the wallet is known: once per pair.
OnceInv ==
  /\ crashes \in Nat
  /\ crashes = 0 =>
       /\ up
       /\ \A k \in Candidates :
            From(requests, k) # {} => Handled(k) /\ \E r : From(requests, k) = {r}

LEMMA HandledStaysUnlessOthers ==
  ASSUME NEW k \in Candidates, Handled(k), UNCHANGED proc["settler"], ledger'.settled = ledger.settled
  PROVE  Handled(k)'
BY DEF Handled

\* An error of the auto-settle loop is recorded.
LEMMA HandledThroughFailure ==
  ASSUME WalletInv, NEW p \in Procs, Fails(p), UNCHANGED requests,
         At(p, "dial") \/ At(p, "sent") \/ At(p, "check"), NEW k \in Candidates, Handled(k)
  PROVE  Handled(k)'
<1>1. "settler" \in DOMAIN proc /\ Consistent("settler", proc["settler"], ledger, requests)
  BY DEF WalletInv, Procs
<1>2. CASE p = "settler"
  <2> DEFINE c == proc["settler"].cand
             l == Settle(ledger, c, "failed")
  <2>1. c \in Candidates /\ ledger' = l /\ "failed" \in Results \ {"none"}
    BY <1>1, <1>2 DEF Fails, Persist, Results, Consistent, At
  <2>2. l.settled[c] # "none" /\ Follows(ledger, l)
    BY <2>1, SettleWorks DEF WalletInv, Builds
  <2> HIDE DEF l
  <2>3. QED
    BY <2>1, <2>2 DEF Handled, Paying, Follows
<1>3. CASE p # "settler"
  BY <1>1, <1>3, HandledStaysUnlessOthers DEF Fails
<1>4. QED
  BY <1>2, <1>3

LEMMA HandledThroughProceed ==
  ASSUME WalletInv, NEW p \in Procs, Proceed(p), NEW k \in Candidates, Handled(k)
  PROVE  Handled(k)'
<1>1. /\ "settler" \in DOMAIN proc /\ proc["settler"] \in ProcRecords /\ ledger \in Ledgers
      /\ proc \in [Procs -> ProcRecords]
  BY DEF WalletInv, Procs, Sound
<1>2. CASE PersistOpen(p)
  <2>1. CASE p = "settler"
    BY <1>1, <1>2, <2>1 DEF PersistOpen, At, Goes, Handled, Paying, Recording, ProcRecords
  <2>2. QED
    BY <1>1, <1>2, <2>1, HandledStaysUnlessOthers DEF PersistOpen, Goes
<1>3. CASE PersistWrite(p)
  <2>1. CASE p = "settler"
    <3> DEFINE q == [proc[p] EXCEPT !.at = proc[p].next, !.doc = EmptyLedger]
               to == IF proc[p].next = "idle" THEN Resting ELSE q
    <3>1. proc'["settler"] = to /\ proc[p].at = "write" /\ UNCHANGED ledger
      BY <1>1, <1>3, <2>1 DEF PersistWrite, At
    <3>2. q.at = proc[p].next /\ q.cand = proc[p].cand
      BY <1>1, <2>1 DEF ProcRecords
    <3> HIDE DEF q
    <3>3. Paying(proc["settler"], k) => Paying(to, k)
      BY <2>1, <3>1, <3>2 DEF Paying, Recording
    <3>4. QED
      BY <3>1, <3>3 DEF Handled
  <2>2. QED
    BY <1>1, <1>3, <2>1, HandledStaysUnlessOthers DEF PersistWrite
<1>4. CASE Send(p)
  <2>1. CASE p = "settler"
    BY <1>1, <1>4, <2>1 DEF Send, At, Handled, Paying, Recording
  <2>2. QED
    BY <1>1, <1>4, <2>1, HandledStaysUnlessOthers DEF Send
<1>5. CASE Answer(p)
  <2> DEFINE r == proc[p].req
             s == StatusOf[requests[r].fate]
             l == [ledger EXCEPT !.entries[r] = s]
             next == IF p = "settler" THEN "record" ELSE "idle"
             q == [proc[p] EXCEPT !.at = "open", !.doc = l, !.next = next]
  <2>1. ledger' = l /\ proc' = [proc EXCEPT ![p] = q]
    BY <1>5 DEF Answer, Persist
  <2>2. l.settled = ledger.settled
    <3> HIDE DEF s
    <3>1. QED
      BY <1>1 DEF Ledgers
  <2>3. q.at = "open" /\ q.next = next /\ q.cand = proc[p].cand
    <3> HIDE DEF l, next
    <3>1. QED
      BY <1>1 DEF ProcRecords
  <2> HIDE DEF l, q
  <2>4. CASE p = "settler"
    BY <1>1, <2>1, <2>2, <2>3, <2>4 DEF Handled, Paying, Recording
  <2>5. QED
    BY <1>1, <2>1, <2>2, <2>4, HandledStaysUnlessOthers
<1>6. CASE DialFails(p) \/ NoAnswer(p)
  BY <1>6, HandledThroughFailure DEF DialFails, NoAnswer
<1>7. QED
  BY <1>2, <1>3, <1>4, <1>5, <1>6 DEF Proceed

LEMMA HandledThroughSettler ==
  ASSUME WalletInv, Settler, NEW k \in Candidates, Handled(k)
  PROVE  Handled(k)'
<1> DEFINE c == proc["settler"].cand
<1>1. /\ "settler" \in DOMAIN proc /\ "settler" \in Procs /\ Sound(ledger, requests)
      /\ Consistent("settler", proc["settler"], ledger, requests)
  BY DEF WalletInv, Procs
<1>2. ASSUME ~Paying(proc["settler"], k), UNCHANGED ledger PROVE Handled(k)'
  BY <1>2 DEF Handled
<1>3. ASSUME NEW result \in Results \ {"none"}, c \in Candidates,
             ledger' = Settle(ledger, c, result), result = "succeeded" => HasPayment(ledger, requests, c)
      PROVE  Handled(k)'
  <2> DEFINE l == Settle(ledger, c, result)
  <2>1. l.settled[c] # "none" /\ Follows(ledger, l)
    BY <1>1, <1>3, SettleWorks DEF Builds
  <2>2. ledger' = l
    BY <1>3
  <2> HIDE DEF l
  <2>3. QED
    BY <2>1, <2>2 DEF Handled, Paying, Follows
<1>4. SettlerTick \/ SettlerDone \/ (\E x \in Candidates : SettlerStatus(x)) => Handled(k)'
  BY <1>2 DEF SettlerTick, SettlerDone, SettlerStatus, At, Paying, Recording
<1>5. CASE SettlerCheck
  <2>1. c \in Candidates /\ ~Paying(proc["settler"], k)
    BY <1>1, <1>5 DEF SettlerCheck, At, Consistent, Paying, Recording
  <2>2. "skipped" \in Results \ {"none"}
    BY DEF Results
  <2>3. CASE UNCHANGED ledger
    BY <1>2, <2>1, <2>3
  <2>4. CASE ledger' = Settle(ledger, c, "skipped")
    BY <1>3, <2>1, <2>2, <2>4
  <2>5. CASE Fails("settler")
    BY <1>1, <1>5, <2>5, HandledThroughFailure DEF SettlerCheck
  <2>6. QED
    BY <1>5, <2>3, <2>4, <2>5 DEF SettlerCheck, Persist
<1>6. CASE SettlerRecord
  <2>1. c \in Candidates /\ HasPayment(ledger, requests, c)
    BY <1>1, <1>6 DEF SettlerRecord, At, Consistent, Recording
  <2>2. "succeeded" \in Results \ {"none"}
    BY DEF Results
  <2>3. QED
    BY <1>3, <1>6, <2>1, <2>2 DEF SettlerRecord, Persist
<1>7. QED
  BY <1>4, <1>5, <1>6 DEF Settler

LEMMA HandledThroughOthers ==
  ASSUME WalletInv, Poller \/ (Environment /\ up') \/ UNCHANGED vars, up,
         NEW k \in Candidates, Handled(k)
  PROVE  Handled(k)'
<1>1. "settler" \in DOMAIN proc /\ ledger \in Ledgers
  BY DEF WalletInv, Procs, Sound
<1>2. ASSUME NEW r \in Ids, PollAsk(r)
      PROVE  UNCHANGED proc["settler"] /\ ledger'.settled = ledger.settled
  <2> DEFINE s == StatusOf[requests[r].fate]
             l == [ledger EXCEPT !.entries[r] = s]
  <2>1. Persist("poller", l, "ask") \/ UNCHANGED <<ledger, proc>>
    BY <1>2 DEF PollAsk
  <2> HIDE DEF s
  <2>2. l.settled = ledger.settled
    BY <1>1 DEF Ledgers
  <2> HIDE DEF l
  <2>3. QED
    BY <1>1, <2>1, <2>2 DEF Persist
<1>3. PollTick \/ PollDone \/ (\E r \in Ids : PollFails(r))
        => UNCHANGED proc["settler"] /\ ledger'.settled = ledger.settled
  BY <1>1 DEF PollTick, PollDone, PollFails, Goes
<1>4. ASSUME NEW c \in Commands, NEW withKey \in BOOLEAN, CommandStart(c, withKey)
      PROVE  UNCHANGED proc["settler"] /\ ledger'.settled = ledger.settled
  BY <1>1, <1>4, WalletConstants DEF CommandStart
<1>5. ASSUME NEW r \in Ids, WalletResolves(r)
      PROVE  UNCHANGED proc["settler"] /\ ledger'.settled = ledger.settled
  BY <1>5 DEF WalletResolves
<1>6. ASSUME NEW x \in Candidates, Accept(x) \/ AcceptLogged(x) \/ Withdraw(x)
      PROVE  UNCHANGED proc["settler"] /\ ledger'.settled = ledger.settled
  BY <1>6 DEF Accept, AcceptLogged, Withdraw
<1>7. Lock \/ Unlock \/ Connect \/ Disconnect \/ UNCHANGED vars
        => UNCHANGED proc["settler"] /\ ledger'.settled = ledger.settled
  BY DEF Lock, Unlock, Connect, Disconnect, vars
<1>8. up' => ~Crash /\ (up => ~Restart)
  BY DEF Crash, Restart
<1>9. UNCHANGED proc["settler"] /\ ledger'.settled = ledger.settled
  BY <1>2, <1>3, <1>4, <1>5, <1>6, <1>7, <1>8 DEF Poller, Environment
<1>10. QED
  BY <1>9, HandledStaysUnlessOthers

\* Only a crash, which is counted, takes the daemon down.
LEMMA UpUnlessCrash == [Next]_vars /\ up => Crash \/ (UNCHANGED crashes /\ up')
<1>1. SUFFICES ASSUME [Next]_vars, up, ~Crash PROVE UNCHANGED crashes /\ up'
  OBVIOUS
<1>2. ASSUME NEW p \in Procs, Proceed(p) PROVE UNCHANGED <<crashes, up>>
  BY <1>2 DEF Proceed, PersistOpen, PersistWrite, Send, DialFails, Answer, NoAnswer
<1>3. Settler \/ Poller => UNCHANGED <<crashes, up>>
  BY DEF Settler, SettlerTick, SettlerStatus, SettlerCheck, SettlerRecord, SettlerDone,
         Poller, PollTick, PollAsk, PollFails, PollDone
<1>4. Environment => UNCHANGED <<crashes, up>>
  BY <1>1 DEF Environment, CommandStart, Lock, Unlock, Connect, Disconnect, Accept, AcceptLogged,
              Withdraw, WalletResolves, Restart
<1>5. UNCHANGED vars => UNCHANGED <<crashes, up>>
  BY DEF vars
<1>6. QED
  BY <1>1, <1>2, <1>3, <1>4, <1>5 DEF Next

LEMMA OnceStep == WalletInv /\ OnceInv /\ [Next]_vars => OnceInv'
<1>1. SUFFICES ASSUME WalletInv, OnceInv, [Next]_vars PROVE OnceInv'
  OBVIOUS
<1>2. crashes' \in Nat /\ (crashes' = 0 => crashes = 0)
  <2>1. Crash => crashes' = crashes + 1
    BY DEF Crash
  <2>2. Restart => UNCHANGED crashes
    BY DEF Restart
  <2>3. ~up => UNCHANGED crashes
    BY <1>1 DEF Next, Proceed, PersistOpen, PersistWrite, Send, DialFails, Answer, NoAnswer,
                Settler, SettlerTick, SettlerStatus, SettlerCheck, SettlerRecord, SettlerDone,
                Poller, PollTick, PollAsk, PollFails, PollDone,
                Environment, CommandStart, Lock, Unlock, Connect, Disconnect, Input, Accept,
                AcceptLogged, Withdraw, WalletResolves, Crash, Restart, At, vars
  <2>4. QED
    BY <1>1, <2>1, <2>3, UpUnlessCrash DEF OnceInv
<1>3. SUFFICES ASSUME crashes' = 0
               PROVE  /\ up'
                      /\ \A k \in Candidates : From(requests', k) # {} =>
                           Handled(k)' /\ \E r : From(requests', k) = {r}
  BY <1>2 DEF OnceInv
<1>4. up /\ up'
  <2>1. up /\ ~Crash
    BY <1>1, <1>2, <1>3 DEF OnceInv, Crash
  <2>2. QED
    BY <1>1, <2>1, UpUnlessCrash
<1>5. ASSUME NEW k \in Candidates, Handled(k) PROVE Handled(k)'
  BY <1>1, <1>4, <1>5, HandledThroughProceed, HandledThroughSettler, HandledThroughOthers DEF Next
<1>6. ASSUME NEW k \in Candidates, From(requests', k) # {}
      PROVE  Handled(k)' /\ \E r : From(requests', k) = {r}
  <2>1. CASE From(requests', k) = From(requests, k)
    BY <1>1, <1>2, <1>3, <1>5, <1>6, <2>1 DEF OnceInv
  <2>2. CASE Send("settler") /\ proc["settler"].cand = k
    <3> DEFINE new == [from |-> k, fate |-> "pending"]
               n == Len(requests) + 1
    <3>1. Consistent("settler", proc["settler"], ledger, requests) /\ "settler" \in DOMAIN proc
          /\ proc["settler"] \in ProcRecords
      BY <1>1 DEF WalletInv, Procs
    <3>2. ~Handled(k)
      BY <2>2, <3>1 DEF Handled, Paying, Recording, Consistent, Send, At
    <3>3. From(requests, k) = {}
      BY <1>1, <1>2, <1>3, <3>2 DEF OnceInv
    <3>4. requests' = Append(requests, new) /\ requests \in Requests
      BY <1>1, <2>2 DEF Send, WalletInv
    <3>5. new.from = k
      OBVIOUS
    <3> HIDE DEF new
    <3>6. /\ Len(requests) \in Nat
          /\ DOMAIN requests = 1..Len(requests) /\ DOMAIN requests' = 1..(Len(requests) + 1)
          /\ requests'[Len(requests) + 1] = new
          /\ \A r \in DOMAIN requests : requests'[r] = requests[r]
      BY <3>4 DEF Requests
    <3>7. From(requests', k) = {n}
      BY <3>3, <3>5, <3>6 DEF From
    <3>8. Handled(k)'
      BY <2>2, <3>1 DEF Handled, Paying, Send, ProcRecords
    <3>9. QED
      BY <3>7, <3>8
  <2>3. QED
    BY <1>1, <2>1, <2>2, OnlySettlerPays
<1>7. QED
  BY <1>4, <1>6

\* As long as the daemon has not died, the auto-settle loop has sent at most one
\* payment for a pair, whatever commands lock, disconnect or use the wallet while it
\* runs and whatever the wallet answers.
THEOREM PaysOnce == Spec => [](crashes = 0 => OneAttempt)
<1>1. Init => OnceInv
  BY DEF Init, OnceInv, From
<1>2. OnceInv => (crashes = 0 => OneAttempt)
  <2>1. SUFFICES ASSUME OnceInv, crashes = 0, NEW k \in Candidates
                 PROVE  Cardinality(RequestsFrom(k)) <= 1
    BY DEF OneAttempt
  <2>2. RequestsFrom(k) = {} \/ \E r : RequestsFrom(k) = {r}
    BY <2>1 DEF OnceInv, From, RequestsFrom
  <2>3. Cardinality(RequestsFrom(k)) = 0 \/ Cardinality(RequestsFrom(k)) = 1
    BY <2>2, FS_EmptySet, FS_Singleton, Zenon
  <2>4. QED
    BY <2>3
<1>3. QED
  BY <1>1, <1>2, OnceStep, Correct, PTL DEF Spec
=============================================================================
