-------------------------- MODULE WalletSettlement --------------------------
(***************************************************************************)
(* The wallet runtime of one daemon: WalletService and its ledger          *)
(* (wallet/service.ts, wallet/ledger.ts), the key and the connection it    *)
(* needs (wallet/config-store.ts), and those who use it at the same time:  *)
(* the auto-settle loop and the poll loop of the daemon (handleDaemonRun   *)
(* of cli.ts) and the wallet and settlement commands.                      *)
(*                                                                         *)
(* The auto-settle loop pays every Lightning reference of an accepted      *)
(* offer or bid or an active agreement once, and remembers in the ledger   *)
(* which <event, reference> pairs it has dealt with.  The ledger lives in  *)
(* memory; every change rewrites its whole file.  The wallet is remote: it *)
(* carries out a request whether or not its answer arrives.                *)
(*                                                                         *)
(* Payments and created invoices go through the same steps (request,       *)
(* answer, ledger entry, polling).  A command's request may be either; an  *)
(* invoice's "created", "paid" and "expired" or "canceled" are called      *)
(* "pending", "succeeded" and "failed" like the statuses of a payment.     *)
(***************************************************************************)
EXTENDS Naturals, Sequences, FiniteSets

CONSTANTS
  Candidates,  \* <event, Lightning reference> pairs that may become payable
  Payable,     \* the candidates whose reference is a bolt11 on bitcoin
  Commands,    \* commands that can be running at the same time
  Manual,      \* where a command's request comes from, not a candidate
  EnvKey,      \* whether the daemon's environment holds the wallet key
  MaxRequests, MaxInputs, MaxCrashes  \* bounds of the model

ASSUME WalletConstants ==
  /\ Manual \notin Candidates
  /\ Payable \subseteq Candidates
  /\ EnvKey \in BOOLEAN
  /\ "settler" \notin Commands /\ "poller" \notin Commands
  /\ MaxRequests \in Nat /\ MaxInputs \in Nat /\ MaxCrashes \in Nat

Procs   == {"settler", "poller"} \cup Commands
Fates   == {"pending", "paid", "refused"}
Results == {"none", "succeeded", "failed", "skipped"}
Ids     == 1..MaxRequests

\* What the ledger calls a request the wallet has dealt with in this way.
StatusOf == [pending |-> "pending", paid |-> "succeeded", refused |-> "failed"]

EntryStatuses == {"none", "pending", "succeeded", "failed"}

Ledgers == [entries : [Ids -> EntryStatuses], settled : [Candidates -> Results]]

EmptyLedger ==
  [entries |-> [r \in Ids |-> "none"], settled |-> [k \in Candidates |-> "none"]]

Size(l) ==
  Cardinality({r \in Ids : l.entries[r] # "none"})
    + Cardinality({k \in Candidates : l.settled[k] # "none"})

VARIABLES
  eligible,    \* candidates the repository's snapshot shows as payable
  logged,      \* the candidates whose event has become durable
  runtimeKey,  \* the daemon holds a key set at runtime
  configured,  \* a wallet connection is stored
  requests,    \* the requests the wallet received, with what it did   (remote)
  ledger,      \* the ledger in memory
  file,        \* the ledger file                                      (durable)
  proc,        \* where each loop and command is
  todo,        \* candidates the running auto-settle round has not tried yet
  asking,      \* entries the running poll round has not asked about yet
  up,          \* the daemon is running
  inputs, crashes  \* commands given and crashes so far

userVars == <<runtimeKey, configured>>
loopVars == <<todo, asking>>
vars == <<eligible, logged, userVars, requests, ledger, file, proc, loopVars, up,
          inputs, crashes>>

Resting == [at |-> "idle", cand |-> Manual, req |-> 0, doc |-> EmptyLedger, next |-> "idle"]

Init ==
  /\ eligible = {} /\ logged = {}
  /\ runtimeKey = EnvKey
  /\ configured \in BOOLEAN
  /\ requests = <<>>
  /\ ledger = EmptyLedger
  /\ file = [ledger |-> EmptyLedger, state |-> "ok"]
  /\ proc = [p \in Procs |-> Resting]
  /\ todo = {} /\ asking = {}
  /\ up = TRUE
  /\ inputs = 0 /\ crashes = 0

\* getWalletKey finds a key: the runtime key, or else the one in the environment.
HasKey == runtimeKey \/ EnvKey

\* status(): connected and not locked.
Ready == configured /\ HasKey

At(p, stage) == up /\ proc[p].at = stage

Goes(p, stage) == proc' = [proc EXCEPT ![p].at = stage]

\* A ledger change: made in memory at once, and then the file is rewritten.
Persist(p, l, next) ==
  /\ ledger' = l
  /\ proc' = [proc EXCEPT ![p] = [@ EXCEPT !.at = "open", !.doc = l, !.next = next]]

Settle(l, k, result) ==
  IF l.settled[k] = "none" THEN [l EXCEPT !.settled[k] = result] ELSE l

-----------------------------------------------------------------------------
(* Writing the ledger file: writeFile truncates it, then writes.  Writers do *)
(* not wait for each other.                                                  *)

PersistOpen(p) ==
  /\ At(p, "open")
  /\ file' = [ledger |-> EmptyLedger, state |-> "empty"]
  /\ Goes(p, "write")
  /\ UNCHANGED <<eligible, logged, userVars, requests, ledger, loopVars, up, inputs, crashes>>

\* Writing over what another writer has put there since leaves its tail behind
\* when that was longer.
PersistWrite(p) ==
  LET doc == proc[p].doc
      old == file.ledger
  IN /\ At(p, "write")
     /\ \/ /\ file.state = "empty" \/ doc = old \/ Size(doc) >= Size(old)
           /\ file' = [ledger |-> doc, state |-> "ok"]
        \/ /\ file.state # "empty" /\ doc # old /\ Size(doc) <= Size(old)
           /\ file' = [file EXCEPT !.state = "torn"]
     /\ proc' = [proc EXCEPT ![p] =
          IF proc[p].next = "idle" THEN Resting ELSE [@ EXCEPT !.at = proc[p].next, !.doc = EmptyLedger]]
     /\ UNCHANGED <<eligible, logged, userVars, requests, ledger, loopVars, up, inputs, crashes>>

-----------------------------------------------------------------------------
(* payInvoice and createInvoice.                                             *)

\* getUnlockedAdapter has the key and has read the connection: the request goes
\* to the wallet, which deals with it in its own time.
Send(p) ==
  /\ At(p, "dial")
  /\ configured
  /\ Len(requests) < MaxRequests
  /\ requests' = Append(requests, [from |-> proc[p].cand, fate |-> "pending"])
  /\ proc' = [proc EXCEPT ![p] = [@ EXCEPT !.at = "sent", !.req = Len(requests) + 1]]
  /\ UNCHANGED <<eligible, logged, userVars, ledger, file, loopVars, up, inputs, crashes>>

\* An error ends a command; the auto-settle loop records it and goes on.
Fails(p) ==
  IF p = "settler"
  THEN Persist(p, Settle(ledger, proc[p].cand, "failed"), "pick")
  ELSE /\ proc' = [proc EXCEPT ![p] = Resting]
       /\ UNCHANGED ledger

DialFails(p) ==
  /\ At(p, "dial")
  /\ ~configured
  /\ Fails(p)
  /\ UNCHANGED <<eligible, logged, userVars, requests, file, loopVars, up, inputs, crashes>>

\* Faulty variant: the answer is not added to the ledger.
Answer_NotAdded(p) ==
  /\ At(p, "sent")
  /\ Persist(p, ledger, IF p = "settler" THEN "record" ELSE "idle")
  /\ UNCHANGED <<eligible, logged, userVars, requests, file, loopVars, up, inputs, crashes>>

\* The wallet's answer arrives and becomes a ledger entry.
Answer(p) ==
  LET r == proc[p].req
  IN /\ At(p, "sent")
     /\ Persist(p, [ledger EXCEPT !.entries[r] = StatusOf[requests[r].fate]],
                IF p = "settler" THEN "record" ELSE "idle")
     /\ UNCHANGED <<eligible, logged, userVars, requests, file, loopVars, up, inputs, crashes>>

\* Or the call throws: the wallet refused (the HTTP adapter), or the request
\* timed out, whatever the wallet did with it.  No entry is made.
NoAnswer(p) ==
  /\ At(p, "sent")
  /\ Fails(p)
  /\ UNCHANGED <<eligible, logged, userVars, requests, file, loopVars, up, inputs, crashes>>

-----------------------------------------------------------------------------
(* The auto-settle loop: collectAutoSettleCandidates and attemptAutoSettle.  *)

\* The interval fires and no round is running.
SettlerTick ==
  /\ At("settler", "idle")
  /\ Goes("settler", "pick")
  /\ todo' = eligible
  /\ UNCHANGED <<eligible, logged, userVars, requests, ledger, file, asking, up, inputs, crashes>>

\* The next candidate: status() looks whether the wallet can be used.
SettlerStatus(k) ==
  /\ At("settler", "pick")
  /\ k \in todo
  /\ todo' = todo \ {k}
  /\ IF Ready
     THEN proc' = [proc EXCEPT !["settler"] = [@ EXCEPT !.at = "check", !.cand = k]]
     ELSE UNCHANGED proc
  /\ UNCHANGED <<eligible, logged, userVars, requests, ledger, file, asking, up, inputs, crashes>>

\* Faulty variant: what failed is tried again.
Dealt_SucceededOnly(k) == ledger.settled[k] = "succeeded"

\* hasAutoSettle: this pair was dealt with.
Dealt(k) == ledger.settled[k] # "none"

\* Then, status() having answered: skip what was dealt with, record what cannot
\* be paid, and start paying the rest, if the key is still there.
SettlerCheck ==
  LET k == proc["settler"].cand
  IN /\ At("settler", "check")
     /\ \/ /\ Dealt(k)
           /\ Goes("settler", "pick")
           /\ UNCHANGED ledger
        \/ /\ ~Dealt(k) /\ k \notin Payable
           /\ Persist("settler", Settle(ledger, k, "skipped"), "pick")
        \/ /\ ~Dealt(k) /\ k \in Payable /\ HasKey
           /\ Goes("settler", "dial")
           /\ UNCHANGED ledger
        \/ /\ ~Dealt(k) /\ k \in Payable /\ ~HasKey
           /\ Fails("settler")
     /\ UNCHANGED <<eligible, logged, userVars, requests, file, loopVars, up, inputs, crashes>>

\* addAutoSettle after a payment.
SettlerRecord ==
  /\ At("settler", "record")
  /\ Persist("settler", Settle(ledger, proc["settler"].cand, "succeeded"), "pick")
  /\ UNCHANGED <<eligible, logged, userVars, requests, file, loopVars, up, inputs, crashes>>

\* Faulty variant: the round ends and leaves the guard of the interval set.
SettlerDone_GuardKept ==
  /\ At("settler", "pick")
  /\ todo = {}
  /\ UNCHANGED vars

\* The round is over: the next interval may start another.
SettlerDone ==
  /\ At("settler", "pick")
  /\ todo = {}
  /\ proc' = [proc EXCEPT !["settler"] = Resting]
  /\ UNCHANGED <<eligible, logged, userVars, requests, ledger, file, loopVars, up, inputs, crashes>>

-----------------------------------------------------------------------------
(* The poll loop: pollUpdates.                                               *)

PollTick ==
  /\ At("poller", "idle")
  /\ Ready
  /\ Goes("poller", "ask")
  /\ asking' = {r \in Ids : ledger.entries[r] = "pending"}
  /\ UNCHANGED <<eligible, logged, userVars, requests, ledger, file, todo, up, inputs, crashes>>

\* canTransitionPayment, canTransitionInvoice.
CanTransition(current, next) ==
  current = next \/ (current = "pending" /\ next \in {"succeeded", "failed"})

\* The ledger is written when the status changed, and also when it did not but
\* the wallet named a fee or a reason.
PollAsk(r) ==
  LET status == StatusOf[requests[r].fate]
  IN /\ At("poller", "ask")
     /\ r \in asking
     /\ asking' = asking \ {r}
     /\ \/ /\ CanTransition(ledger.entries[r], status)
           /\ Persist("poller", [ledger EXCEPT !.entries[r] = status], "ask")
        \/ /\ ledger.entries[r] = status \/ ~CanTransition(ledger.entries[r], status)
           /\ UNCHANGED <<ledger, proc>>
     /\ UNCHANGED <<eligible, logged, userVars, requests, file, todo, up, inputs, crashes>>

\* The wallet does not answer: a warning, and on to the next entry.
PollFails(r) ==
  /\ At("poller", "ask")
  /\ r \in asking
  /\ asking' = asking \ {r}
  /\ UNCHANGED <<eligible, logged, userVars, requests, ledger, file, proc, todo, up, inputs, crashes>>

PollDone ==
  /\ At("poller", "ask")
  /\ asking = {}
  /\ proc' = [proc EXCEPT !["poller"] = Resting]
  /\ UNCHANGED <<eligible, logged, userVars, requests, ledger, file, loopVars, up, inputs, crashes>>

-----------------------------------------------------------------------------
(* The outside.                                                              *)

\* A user gives the running daemon one more command.
Input ==
  /\ up
  /\ inputs < MaxInputs
  /\ inputs' = inputs + 1

\* wallet pay, wallet invoice create, settlement pay, settlement invoice create.
\* A client with a key in its environment sends it along, which unlocks the wallet.
CommandStart(c, withKey) ==
  /\ At(c, "idle")
  /\ Input
  /\ withKey \/ HasKey
  /\ runtimeKey' = (runtimeKey \/ withKey)
  /\ proc' = [proc EXCEPT ![c] = [Resting EXCEPT !.at = "dial"]]
  /\ UNCHANGED <<eligible, logged, configured, requests, ledger, file, loopVars, up, crashes>>

Lock ==
  /\ Input
  /\ runtimeKey' = FALSE
  /\ UNCHANGED <<eligible, logged, configured, requests, ledger, file, proc, loopVars, up, crashes>>

Unlock ==
  /\ Input
  /\ runtimeKey' = TRUE
  /\ UNCHANGED <<eligible, logged, configured, requests, ledger, file, proc, loopVars, up, crashes>>

Connect ==
  /\ Input
  /\ HasKey
  /\ configured' = TRUE
  /\ UNCHANGED <<eligible, logged, runtimeKey, requests, ledger, file, proc, loopVars,
                 up, crashes>>

Disconnect ==
  /\ Input
  /\ configured' = FALSE
  /\ UNCHANGED <<eligible, logged, runtimeKey, requests, ledger, file, proc, loopVars,
                 up, crashes>>

\* An acceptance is applied to the snapshot, and later appended to the log.
Accept(k) ==
  /\ up
  /\ k \notin eligible \cup logged
  /\ eligible' = eligible \cup {k}
  /\ UNCHANGED <<logged, userVars, requests, ledger, file, proc, loopVars, up, inputs, crashes>>

AcceptLogged(k) ==
  /\ up
  /\ k \in eligible \ logged
  /\ logged' = logged \cup {k}
  /\ UNCHANGED <<eligible, userVars, requests, ledger, file, proc, loopVars, up, inputs, crashes>>

\* The agreement ends, or the offer is submitted anew: nothing to pay any more.
Withdraw(k) ==
  /\ up
  /\ k \in eligible \cap logged
  /\ eligible' = eligible \ {k}
  /\ UNCHANGED <<logged, userVars, requests, ledger, file, proc, loopVars, up, inputs, crashes>>

\* A payment or an invoice that was pending is settled or fails.
WalletResolves(r) ==
  /\ r \in DOMAIN requests
  /\ requests[r].fate = "pending"
  /\ \E fate \in {"paid", "refused"} : requests' = [requests EXCEPT ![r].fate = fate]
  /\ UNCHANGED <<eligible, logged, userVars, ledger, file, proc, loopVars, up, inputs, crashes>>

\* The daemon dies at any await, or is stopped: stopping waits for no loop.
Crash ==
  /\ up
  /\ crashes < MaxCrashes
  /\ crashes' = crashes + 1
  /\ up' = FALSE
  /\ proc' = [p \in Procs |-> Resting]
  /\ todo' = {} /\ asking' = {}
  /\ ledger' = EmptyLedger
  /\ eligible' = eligible \cap logged
  /\ runtimeKey' = EnvKey
  /\ UNCHANGED <<logged, configured, requests, file, inputs>>

\* Faulty variant: the dedupe index is not rebuilt from the file.
Restart_NoIndex ==
  /\ ~up
  /\ file.state = "ok"
  /\ up' = TRUE
  /\ ledger' = [file.ledger EXCEPT !.settled = EmptyLedger.settled]
  /\ UNCHANGED <<eligible, logged, userVars, requests, file, proc, loopVars, inputs, crashes>>

\* It is started again, and loads the ledger file; with a file it cannot parse it
\* does not start.
Restart ==
  /\ ~up
  /\ file.state = "ok"
  /\ up' = TRUE
  /\ ledger' = file.ledger
  /\ UNCHANGED <<eligible, logged, userVars, requests, file, proc, loopVars, inputs, crashes>>

-----------------------------------------------------------------------------

\* A process goes on from the await it is at.
Proceed(p) ==
  PersistOpen(p) \/ PersistWrite(p) \/ Send(p) \/ DialFails(p) \/ Answer(p) \/ NoAnswer(p)

Settler ==
  \/ SettlerTick
  \/ \E k \in Candidates : SettlerStatus(k)
  \/ SettlerCheck
  \/ SettlerRecord
  \/ SettlerDone

Poller ==
  \/ PollTick
  \/ \E r \in Ids : PollAsk(r) \/ PollFails(r)
  \/ PollDone

Environment ==
  \/ \E c \in Commands, withKey \in BOOLEAN : CommandStart(c, withKey)
  \/ Lock \/ Unlock \/ Connect \/ Disconnect
  \/ \E k \in Candidates : Accept(k) \/ AcceptLogged(k) \/ Withdraw(k)
  \/ \E r \in Ids : WalletResolves(r)
  \/ Crash \/ Restart

Next ==
  \/ \E p \in Procs : Proceed(p)
  \/ Settler
  \/ Poller
  \/ Environment

Spec == Init /\ [][Next]_vars

\* The intervals keep firing, and every call of a running round returns: file
\* operations end, and the adapters give up on the wallet after a timeout.
Fairness == WF_vars(Settler) /\ \A p \in Procs : WF_vars(Proceed(p))

FairSpec == Spec /\ Fairness

-----------------------------------------------------------------------------
(* Properties.                                                               *)

TypeOK ==
  /\ eligible \subseteq Candidates /\ logged \subseteq Candidates
  /\ runtimeKey \in BOOLEAN /\ configured \in BOOLEAN
  /\ requests \in Seq([from : Candidates \cup {Manual}, fate : Fates])
  /\ ledger \in Ledgers
  /\ file \in [ledger : Ledgers, state : {"ok", "empty", "torn"}]
  /\ proc \in [Procs ->
       [at : {"idle", "open", "write", "dial", "sent", "pick", "check", "record", "ask"},
        cand : Candidates \cup {Manual}, req : {0} \cup Ids,
        doc : Ledgers, next : {"idle", "pick", "record", "ask"}]]
  /\ todo \subseteq Candidates /\ asking \subseteq Ids
  /\ up \in BOOLEAN
  /\ inputs \in 0..MaxInputs /\ crashes \in 0..MaxCrashes

RequestsFrom(k) == {r \in DOMAIN requests : requests[r].from = k}

\* The auto-settle loop sends at most one payment for an <event, reference> pair,
\* whatever commands lock, disconnect or use the wallet while it runs.
OneAttempt == \A k \in Candidates : Cardinality(RequestsFrom(k)) <= 1

\* What the ledger file says was dealt with is never paid again, through any
\* crashes and restarts.
DurableDedupe ==
  [][\A k \in Candidates :
       (file.state = "ok" /\ file.ledger.settled[k] # "none")
         => {r \in DOMAIN requests' : requests'[r].from = k} = RequestsFrom(k)]_vars

\* A pair recorded as settled has a payment in the ledger, in memory as in the
\* file, however writes overlap and wherever the daemon dies.
SettledHasPayment ==
  \A k \in Candidates : \A l \in {ledger} \cup {file.ledger} :
    l.settled[k] = "succeeded" => \E r \in RequestsFrom(k) : l.entries[r] # "none"

\* An opportunity that stays is settled, given up or skipped, once the wallet
\* stays connected and unlocked: no error leaves the loop's guard set.
Settles ==
  \A k \in Candidates :
    <>[](k \in eligible /\ Ready /\ up) => <>(ledger.settled[k] # "none")

\* Between writes the file holds the ledger.
LedgerPersisted ==
  (up /\ \A p \in Procs : proc[p].at \notin {"open", "write"})
    => file = [ledger |-> ledger, state |-> "ok"]
=============================================================================
