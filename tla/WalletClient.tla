---------------------------- MODULE WalletClient ----------------------------
(***************************************************************************)
(* One wallet's adapters at work: the requests of wallet/nwc-adapter.ts    *)
(* over HTTP, and those of wallet/nostr-nwc-adapter.ts over relays, where  *)
(* a request is published, an answer comes as an event of its own or does  *)
(* not, and timers end the waiting.  The statuses and amounts of an answer *)
(* are normalised as the adapters do it; the wallet is external.           *)
(*                                                                         *)
(* A request pays an invoice or looks a payment up; what payments do to    *)
(* the ledger is WalletSettlement's.                                       *)
(***************************************************************************)
EXTENDS Naturals

CONSTANTS
  Requests,  \* each made once
  Bills,     \* invoices
  Msats      \* amounts an invoice may have, in thousandths of a sat

ASSUME WalletClientConstants == Msats \subseteq Nat /\ Msats # {} /\ Bills # {}

VARIABLES
  bill,     \* bill[b]: what the wallet knows of invoice b
  request,  \* request[r]: how far the client is with request r
  answers,  \* the answers the wallet has sent
  died      \* a rejection that nobody waits for has ended the process

clientVars == <<bill, request, answers, died>>

Backends == {"relay", "http"}
Calls == {"pay", "lookup"}  \* payInvoice, getPaymentStatus
Statuses == {"pending", "succeeded", "failed"}

-----------------------------------------------------------------------------
(* What a wallet may send of a payment, and what the adapters make of it.    *)

\* An answer holds what the wallet knows of the payment when it answers.
Answers == [to : Requests, status : Statuses, msats : Msats]

msatsToSats(msats) == (msats + 999) \div 1000

\* NIP-47's plain amount is in thousandths, that of the HTTP backend in sats.
InMsats(backend, unit) == unit = "msats" \/ (unit = "plain" /\ backend = "relay")

\* What is not stated counts as nothing.
AmountSats(backend, f) ==
  CASE f.unit = "none" -> 0
    [] InMsats(backend, f.unit) -> msatsToSats(f.amount)
    [] OTHER -> f.amount

\* normalizePaymentStatus of either adapter.  That of the relays looks for the
\* fact, whatever it holds, and then for "paid" or "complete" anywhere in the
\* word, which "unpaid" and "incomplete" have too.  That of HTTP compares the
\* word; payInvoice takes a preimage instead when there is none.
PaymentStatus(backend, op, f) ==
  CASE backend = "relay" /\ f.fact # "absent" -> "succeeded"
    [] backend = "http" /\ op = "pay" /\ f.word = "absent" /\ f.fact = "set" -> "succeeded"
    [] f.word = "failed" -> "failed"
    [] f.word = "settled" \/ (backend = "relay" /\ f.word = "unpaid") -> "succeeded"
    [] OTHER -> "pending"

\* How a status was got.  The relays' adapter may take something else for a
\* settlement: a fact that is null, or a word like "unpaid".  And a payment is
\* pending when the answer has no word for its state or one the adapter does not
\* know.
Reading(backend, op, f) ==
  LET status == PaymentStatus(backend, op, f) IN
  CASE status = "succeeded" /\ (f.fact = "null" \/ (f.fact = "absent" /\ f.word = "unpaid")) -> "misread"
    [] status = "pending" /\ f.word \in {"absent", "foreign"} -> "unnamed"
    [] OTHER -> "plain"

\* The fact is the preimage or the time of settlement: a wallet may state it
\* when the payment has settled, and states null or nothing before.
FactsOf(status) == IF status = "succeeded" THEN {"set", "absent"} ELSE {"absent", "null"}

WordsOf(status) ==
  CASE status = "failed" -> {"failed", "foreign", "absent"}
    [] status = "succeeded" -> {"settled", "foreign", "absent"}
    [] status = "pending" -> {"pending", "unpaid", "foreign", "absent"}

\* In sats an amount is rounded one way or the other.
AmountsOf(backend, unit, msats) ==
  CASE unit = "none" -> {0}
    [] InMsats(backend, unit) -> {msats}
    [] OTHER -> {msats \div 1000, (msats + 999) \div 1000}

\* The field an amount may be in; a payment's answer need not have one, and
\* a lookup does not ask for it.
UnitsOf(backend, op) ==
  {"none"} \cup CASE op = "lookup" -> {}
                  [] backend = "relay" -> {"sats", "msats", "plain"}
                  [] backend = "http" -> {"sats", "plain"}

\* The forms an answer may have.  word: the name of the state.
Forms(backend, op, a) ==
  UNION {[fact : FactsOf(a.status), word : WordsOf(a.status),
          unit : {u}, amount : AmountsOf(backend, u, a.msats)] : u \in UnitsOf(backend, op)}

-----------------------------------------------------------------------------

\* unit is what the amount was given in, and reading how the status was got.
NoResult == [status |-> "none", sats |-> 0, unit |-> "none", reading |-> "plain"]
Failure == [NoResult EXCEPT !.status = "error"]

\* What a request makes of an answer; a payment that failed is an error over HTTP.
Report(backend, op, f) ==
  IF backend = "http" /\ op = "pay" /\ PaymentStatus(backend, op, f) = "failed" THEN Failure
  ELSE [status  |-> PaymentStatus(backend, op, f),
        sats    |-> AmountSats(backend, f),
        unit    |-> CASE f.unit = "none" -> "none"
                      [] InMsats(backend, f.unit) -> "msats"
                      [] OTHER -> "sats",
        reading |-> Reading(backend, op, f)]

\* window holds the statuses the invoice had during the request (history).
Unasked ==
  [backend |-> "relay", op |-> "pay", bill |-> CHOOSE b \in Bills : TRUE, published |-> "no",
   waiting |-> "no", taken |-> FALSE, heard |-> NoResult, result |-> NoResult, window |-> {}]

ClientInit ==
  /\ bill \in [Bills -> [status : {"pending"}, msats : Msats]]
  /\ request = [r \in Requests |-> Unasked]
  /\ answers = {}
  /\ died = FALSE

Asked(r) == request[r].published # "no"
Ended(r) == request[r].result.status # "none"

RequestGoes(r, state) ==
  /\ ~died
  /\ request' = [request EXCEPT ![r] = state]

\* The subscription is there before the request is published.  Over HTTP the
\* request and its answer are one exchange.
Ask(r, backend, op, b) ==
  /\ ~Asked(r)
  /\ RequestGoes(r, [Unasked EXCEPT !.backend = backend, !.op = op, !.bill = b, !.waiting = "open",
                       !.published = IF backend = "http" THEN "yes" ELSE "pending",
                       !.window = {bill[b].status}])
  /\ UNCHANGED <<bill, answers, died>>

\* A relay accepts the request, or the server does, and the wallet has it.
TakeRequest(r) ==
  /\ ~request[r].taken
  /\ \/ request[r].published = "pending"
     \/ request[r].backend = "http" /\ request[r].waiting = "open"
  /\ RequestGoes(r, [request[r] EXCEPT !.taken = TRUE])
  /\ UNCHANGED <<bill, answers, died>>

\* publishRequest: every relay has accepted or refused.  When all refuse, the
\* request fails, and the answer is waited for by nobody.
PublishSettles(r) ==
  /\ request[r].published = "pending"
  /\ RequestGoes(r, IF request[r].taken THEN [request[r] EXCEPT !.published = "yes"]
                    ELSE [request[r] EXCEPT !.published = "refused", !.result = Failure])
  /\ UNCHANGED <<bill, answers, died>>

\* The payment makes progress at the wallet.
PaymentEnds(b, status) ==
  /\ bill[b].status = "pending"
  /\ bill' = [bill EXCEPT ![b].status = status]
  /\ request' = [r \in Requests |->
       IF request[r].bill = b /\ Asked(r) /\ ~Ended(r)
         THEN [request[r] EXCEPT !.window = @ \cup {status}] ELSE request[r]]
  /\ UNCHANGED <<answers, died>>

\* The wallet answers a request once, if it does.
SendAnswer(r) ==
  /\ request[r].taken
  /\ \A a \in answers : a.to # r
  /\ answers' = answers \cup
       {[to |-> r, status |-> bill[request[r].bill].status, msats |-> bill[request[r].bill].msats]}
  /\ UNCHANGED <<bill, request, died>>

\* Faulty variant: the subscription takes every answer of the wallet.
Meant_ForAnybody(r, a) == TRUE

\* The subscription is for the answers to the very request.
Meant(r, a) == a.to = r

\* onevent, finish: of two answers only the first counts.
HearAnswer(r, a) ==
  /\ request[r].waiting = "open"
  /\ IF request[r].backend = "relay" THEN Meant(r, a) ELSE a.to = r
  /\ \E f \in Forms(request[r].backend, request[r].op, a) :
       RequestGoes(r, [request[r] EXCEPT !.waiting = "answered",
         !.heard = Report(request[r].backend, request[r].op, f)])
  /\ UNCHANGED <<bill, answers, died>>

\* The timer has run out, the relays have closed the subscription, or the
\* answer is an error or cannot be decoded; over HTTP the request is aborted or
\* fails.  As long as request waits for its publishing, or has given up, the
\* rejection goes unhandled, and that ends the process.
WaitingFails(r) ==
  /\ request[r].waiting = "open"
  /\ RequestGoes(r, [request[r] EXCEPT !.waiting = "failed"])
  /\ died' = (request[r].published \in {"pending", "refused"})
  /\ UNCHANGED <<bill, answers>>

\* Faulty variant: a request that was not answered is left as it is.
Finish_Answered(r) ==
  /\ request[r].published = "yes" /\ ~Ended(r)
  /\ request[r].waiting = "answered"
  /\ RequestGoes(r, [request[r] EXCEPT !.result = request[r].heard])
  /\ UNCHANGED <<bill, answers, died>>

\* The request was published, and its answer is there or will not come.
Finish(r) ==
  /\ request[r].published = "yes" /\ ~Ended(r)
  /\ request[r].waiting \in {"answered", "failed"}
  /\ RequestGoes(r, [request[r] EXCEPT !.result =
       IF request[r].waiting = "answered" THEN request[r].heard ELSE Failure])
  /\ UNCHANGED <<bill, answers, died>>

ClientNext ==
  \/ \E r \in Requests :
       \/ \E backend \in Backends, op \in Calls, b \in Bills : Ask(r, backend, op, b)
       \/ TakeRequest(r) \/ PublishSettles(r) \/ WaitingFails(r) \/ Finish(r)
       \/ SendAnswer(r)
       \/ \E a \in answers : HearAnswer(r, a)
  \/ \E b \in Bills, status \in {"succeeded", "failed"} : PaymentEnds(b, status)

\* Timers fire; a relay accepts or refuses, if only by a timeout of the library.
ClientFairness ==
  \A r \in Requests : WF_clientVars(PublishSettles(r) \/ WaitingFails(r) \/ Finish(r))

ClientSpec == ClientInit /\ [][ClientNext]_clientVars /\ ClientFairness

-----------------------------------------------------------------------------
(* Properties.                                                               *)

\* Every request is somewhere, and answers are answers.
ClientTypeOK ==
  /\ bill \in [Bills -> [status : Statuses, msats : Msats]]
  /\ answers \subseteq Answers
  /\ \A r \in Requests :
       /\ request[r].published \in {"no", "pending", "yes", "refused"}
       /\ request[r].waiting \in {"no", "open", "answered", "failed"}
       /\ request[r].result.status \in Statuses \cup {"none", "error"}

\* What an adapter says of a payment is so: a request reports a status that this
\* payment had while the request was under way, and the amount the answer states
\* to less than a sat, never understating what a wallet gave in thousandths; for
\* an amount that is not stated it reports 0.  Answers that are late, doubled or
\* meant for another request make no difference.  Two statuses may be untrue: a
\* success the relays' adapter misreads, and a "pending" for an answer that does
\* not name the state in a word the adapter knows.
ReportsAreTrue ==
  \A r \in Requests : request[r].result.status \in Statuses =>
    LET result == request[r].result
        msats == bill[request[r].bill].msats IN
    /\ result.status \in request[r].window \/ result.reading # "plain"
    /\ IF result.unit = "none" THEN result.sats = 0
       ELSE result.sats * 1000 < msats + 1000 /\ msats < result.sats * 1000 + 1000
    /\ result.unit = "msats" => msats <= result.sats * 1000

\* Every request ends, with a report or an error, whatever wallet and relays do,
\* unless the process dies first.
RequestsEnd == []<>(died \/ \A r \in Requests : Asked(r) => Ended(r))
=============================================================================
