------------------------------- MODULE Deals -------------------------------
(***************************************************************************)
(* The deal commands: deal, proof and settlement of cli.ts over DealsStore *)
(* (experience/deals-store.ts).  A deal record follows an engagement from  *)
(* a request or listing to its payment.  What happens is in the protocol   *)
(* objects and in the wallet; the record is a summary kept in one file.    *)
(*                                                                         *)
(* A command reads the whole file into a copy of its own, checks the copy, *)
(* makes its protocol and wallet calls one after the other, changes its    *)
(* copy and writes it over the file.  The daemon runs commands as they     *)
(* arrive, so they overlap.  A protocol call is one step here (module      *)
(* Repository takes it apart).                                             *)
(***************************************************************************)
EXTENDS Naturals

CONSTANTS
  DealIds, Roots, Proposals, Contracts,  \* ids to name objects with
  Commands,                   \* commands that can be running at the same time
  None,                       \* an absent id
  MaxCommands, MaxCrashes     \* bounds of the model

ASSUME DealConstants ==
  /\ None \notin DealIds \cup Roots \cup Proposals \cup Contracts
  /\ MaxCommands \in Nat /\ MaxCrashes \in Nat

VARIABLES
  roots,      \* published requests and listings
  proposal,   \* proposal[o]: status of an offer or bid
  contract,   \* contract[c]: how far an engagement has come
  payments,   \* payments the wallet took on for settlement commands
  file,       \* the deals file                                  (durable)
  cmd,        \* what each running command is doing
  issued,     \* deal ids given to a record so far
  waived,     \* deals that were given --allow-early-settlement  (history)
  told,       \* told[d]: the record the last answer about d gave (history)
  alone,      \* no two commands have overlapped, none has died  (history)
  commands, crashes  \* commands given and crashes so far

objects == <<roots, proposal, contract, payments>>
vars == <<objects, file, cmd, issued, waived, told, alone, commands, crashes>>

StageOrder ==
  [none |-> 0, negotiating |-> 1, agreed |-> 2, in_progress |-> 3, proof_submitted |-> 4,
   proof_accepted |-> 5, settlement_pending |-> 6, settled |-> 7]

StageAtLeast(rec, stage) == StageOrder[rec.stage] >= StageOrder[stage]

DealRecord ==
  [stage : DOMAIN StageOrder, root : Roots \cup {None}, proposal : Proposals \cup {None},
   contract : Contracts \cup {None}]

NoRecord == [stage |-> "none", root |-> None, proposal |-> None, contract |-> None]
NoDeals  == [d \in DealIds |-> NoRecord]

\* The stage a command leaves its deal in.
StageAfter ==
  [open |-> "negotiating", propose |-> "negotiating", accept |-> "agreed",
   start |-> "in_progress", submit |-> "proof_submitted", approve |-> "proof_accepted",
   invoice |-> "settlement_pending", pay |-> "settled"]

\* The steps of each command, by the step they follow.
FirstStep ==
  [open |-> "publish", propose |-> "propose", accept |-> "accept", start |-> "agree",
   submit |-> "submit", approve |-> "approve", invoice |-> "invoice", pay |-> "pay"]

NextStep == [s \in {"publish", "propose", "accept", "agree", "contract", "milestone", "submit",
                    "approve", "invoice", "pay"} |->
               CASE s = "agree" -> "contract" [] s = "contract" -> "milestone" [] OTHER -> "record"]

Stages == {"idle", "write"} \cup {"record"} \cup DOMAIN NextStep

Resting == [at |-> "idle", op |-> "open", deal |-> None, root |-> None, proposal |-> None,
            contract |-> None, copy |-> NoDeals]

\* The deal commands may begin on a repository that others have filled.
Init ==
  /\ roots \in SUBSET Roots
  /\ proposal \in [Proposals -> {"none", "open", "accepted"}]
  /\ contract = [c \in Contracts |-> [status |-> "none", proof |-> FALSE]]
  /\ payments = {}
  /\ file = [deals |-> NoDeals, state |-> "ok"]
  /\ cmd = [p \in Commands |-> Resting]
  /\ issued = {} /\ waived = {}
  /\ told = NoDeals
  /\ alone = TRUE
  /\ commands = 0 /\ crashes = 0

-----------------------------------------------------------------------------
(* A command begins: it loads the file and checks what it loaded.            *)

\* load: a file that cannot be read or parsed counts as having no deals.
Loaded == IF file.state = "ok" THEN file.deals ELSE NoDeals

Begin(p, args) ==
  /\ cmd[p].at = "idle"
  /\ commands < MaxCommands
  /\ commands' = commands + 1
  /\ alone' = (alone /\ \A q \in Commands : cmd[q].at = "idle")
  /\ cmd' = [cmd EXCEPT ![p] = [args EXCEPT !.at = FirstStep[args.op], !.copy = Loaded]]
  /\ UNCHANGED <<objects, file, told, crashes>>

\* deal open: the id is the user's or a random one.
BeginOpen(p, d) ==
  /\ Loaded[d] = NoRecord
  /\ Begin(p, [Resting EXCEPT !.op = "open", !.deal = d])
  /\ issued' = issued \cup {d}
  /\ UNCHANGED waived

\* deal propose, on a published root.
BeginPropose(p, r, o) ==
  /\ r \in roots
  /\ Begin(p, [Resting EXCEPT !.op = "propose", !.root = r, !.proposal = o])
  /\ UNCHANGED <<issued, waived>>

BeginAccept(p, o) ==
  /\ Begin(p, [Resting EXCEPT !.op = "accept", !.proposal = o])
  /\ UNCHANGED <<issued, waived>>

\* deal start, on an accepted proposal.
BeginStart(p, o) ==
  /\ proposal[o] = "accepted"
  /\ Begin(p, [Resting EXCEPT !.op = "start", !.proposal = o])
  /\ UNCHANGED <<issued, waived>>

\* proof submit and proof accept, on a deal that has come far enough.
BeginProof(p, d, op) ==
  /\ Loaded[d].contract # None
  /\ StageAtLeast(Loaded[d], IF op = "submit" THEN "in_progress" ELSE "proof_submitted")
  /\ Begin(p, [Resting EXCEPT !.op = op, !.deal = d, !.contract = Loaded[d].contract])
  /\ UNCHANGED <<issued, waived>>

\* Faulty variant: a proof that was only submitted opens the gate.
Gate_Submitted(rec, early) == early \/ StageAtLeast(rec, "proof_submitted")

\* The proof gate of the settlement commands.
Gate(rec, early) == early \/ StageAtLeast(rec, "proof_accepted")

\* settlement invoice create and settlement pay.
BeginSettlement(p, d, op, early) ==
  /\ Loaded[d] # NoRecord
  /\ Gate(Loaded[d], early)
  /\ Begin(p, [Resting EXCEPT !.op = op, !.deal = d, !.contract = Loaded[d].contract])
  /\ waived' = IF early THEN waived \cup {d} ELSE waived
  /\ UNCHANGED issued

-----------------------------------------------------------------------------
(* Its calls.  One that the protocol refuses ends the command (Fail).        *)

Goes(p, args) == cmd' = [cmd EXCEPT ![p] = [args EXCEPT !.at = NextStep[cmd[p].at]]]

Called(p, step) ==
  /\ cmd[p].at = step
  /\ UNCHANGED <<file, issued, waived, told, alone, commands, crashes>>

Publish(p) ==
  \E r \in Roots \ roots :
    /\ Called(p, "publish")
    /\ roots' = roots \cup {r}
    /\ Goes(p, [cmd[p] EXCEPT !.root = r])
    /\ UNCHANGED <<proposal, contract, payments>>

\* The submission event starts a proposal over when there is one by that id.
Propose(p) ==
  /\ Called(p, "propose")
  /\ proposal' = [proposal EXCEPT ![cmd[p].proposal] = "open"]
  /\ Goes(p, cmd[p])
  /\ UNCHANGED <<roots, contract, payments>>

AcceptProposal(p) ==
  /\ Called(p, "accept")
  /\ proposal[cmd[p].proposal] = "open"
  /\ proposal' = [proposal EXCEPT ![cmd[p].proposal] = "accepted"]
  /\ Goes(p, cmd[p])
  /\ UNCHANGED <<roots, contract, payments>>

ContractGoes(p, c, status, proof) ==
  /\ contract' = [contract EXCEPT ![c] = [status |-> status, proof |-> proof]]
  /\ Goes(p, [cmd[p] EXCEPT !.contract = c])
  /\ UNCHANGED <<roots, proposal, payments>>

\* The agreement of an engagement, its contract, and its milestone opened.
CreateAgreement(p) ==
  \E c \in Contracts :
    /\ Called(p, "agree")
    /\ contract[c].status = "none"
    /\ proposal[cmd[p].proposal] = "accepted"
    /\ ContractGoes(p, c, "agreement", FALSE)

CreateContract(p) ==
  /\ Called(p, "contract")
  /\ ContractGoes(p, cmd[p].contract, "contract", FALSE)

OpenMilestone(p) ==
  /\ Called(p, "milestone")
  /\ ContractGoes(p, cmd[p].contract, "open", FALSE)

\* The evidence is recorded, then the milestone submitted with it.
SubmitProof(p) ==
  /\ Called(p, "submit")
  /\ contract[cmd[p].contract].status \in {"open", "rejected"}
  /\ ContractGoes(p, cmd[p].contract, "submitted", TRUE)

\* Faulty variant: a refused acceptance is not noticed.
AcceptProof_Unnoticed(p) ==
  LET c == cmd[p].contract IN
  /\ Called(p, "approve")
  /\ IF contract[c].status \in {"submitted", "open"} /\ contract[c].proof
       THEN ContractGoes(p, c, "accepted", TRUE)
       ELSE ContractGoes(p, c, contract[c].status, contract[c].proof)

AcceptProof(p) ==
  LET c == cmd[p].contract IN
  /\ Called(p, "approve")
  /\ contract[c].status \in {"submitted", "open"}
  /\ contract[c].proof
  /\ ContractGoes(p, c, "accepted", TRUE)

CreateInvoice(p) ==
  /\ Called(p, "invoice")
  /\ Goes(p, cmd[p])
  /\ UNCHANGED objects

\* The wallet may report the payment as made, as pending, or (over relays) as
\* failed: the command goes on without a look at that.  paid: it was made.
PayInvoice(p) ==
  /\ Called(p, "pay")
  /\ \E paid \in BOOLEAN :
       payments' = payments \cup
         {[deal |-> cmd[p].deal, contract |-> cmd[p].contract, paid |-> paid]}
  /\ Goes(p, cmd[p])
  /\ UNCHANGED <<roots, proposal, contract>>

\* A call fails or is refused: the command ends, and what it has done stays.
Fail(p) ==
  /\ cmd[p].at \in DOMAIN NextStep
  /\ cmd' = [cmd EXCEPT ![p] = Resting]
  /\ UNCHANGED <<objects, file, issued, waived, told, alone, commands, crashes>>

-----------------------------------------------------------------------------
(* The command changes its copy and writes it over the file.                 *)

\* The record in the command's copy that it is about, or a new one.
Target(p, d) ==
  LET c == cmd[p]
      match == CASE c.op = "propose" -> {e \in DealIds : c.copy[e].root = c.root}
                 [] c.op \in {"accept", "start"} ->
                      {e \in DealIds : c.copy[e].proposal = c.proposal}
                 [] OTHER -> {c.deal}
  IN IF match = {} THEN d \notin issued ELSE d \in match

Revised(c, rec) ==
  [stage    |-> StageAfter[c.op],
   root     |-> IF c.root # None THEN c.root ELSE rec.root,
   proposal |-> IF c.proposal # None THEN c.proposal ELSE rec.proposal,
   contract |-> IF c.op = "start" THEN c.contract ELSE rec.contract]

\* Faulty variant: the file is written with the one record only.
Save_OneRecord(c, d) == [NoDeals EXCEPT ![d] = Revised(c, c.copy[d])]

\* save and update: one record changes, all are written.
Save(c, d) == [c.copy EXCEPT ![d] = Revised(c, @)]

\* writeFile truncates the file, then writes.
Record(p) ==
  \E d \in DealIds :
    /\ cmd[p].at = "record"
    /\ Target(p, d)
    /\ issued' = issued \cup {d}
    /\ file' = [deals |-> NoDeals, state |-> "empty"]
    /\ cmd' = [cmd EXCEPT ![p] = [@ EXCEPT !.at = "write", !.deal = d, !.copy = Save(cmd[p], d)]]
    /\ UNCHANGED <<objects, waived, told, alone, commands, crashes>>

\* Written over a longer document of another command, the tail of that stays.
\* Then the command answers.
Write(p) ==
  LET c == cmd[p] IN
  /\ c.at = "write"
  /\ \/ file' = [deals |-> c.copy, state |-> "ok"]
     \/ /\ file.state # "empty" /\ file.deals # c.copy
        /\ file' = [file EXCEPT !.state = "torn"]
  /\ told' = [told EXCEPT ![c.deal] = c.copy[c.deal]]
  /\ cmd' = [cmd EXCEPT ![p] = Resting]
  /\ UNCHANGED <<objects, issued, waived, alone, commands, crashes>>

-----------------------------------------------------------------------------
(* Around the commands.                                                      *)

\* contract reject-milestone and contract open-milestone, given directly.
RejectMilestone(c) ==
  /\ contract[c].status \in {"submitted", "open"}
  /\ contract' = [contract EXCEPT ![c].status = "rejected"]
  /\ UNCHANGED <<roots, proposal, payments, file, cmd, issued, waived, told, alone, commands,
                 crashes>>

ReopenMilestone(c) ==
  /\ contract[c].status = "rejected"
  /\ contract' = [contract EXCEPT ![c].status = "open"]
  /\ UNCHANGED <<roots, proposal, payments, file, cmd, issued, waived, told, alone, commands,
                 crashes>>

\* The daemon dies with the commands it runs, and is started again.
Crash ==
  /\ crashes < MaxCrashes
  /\ \E p \in Commands : cmd[p].at # "idle"
  /\ crashes' = crashes + 1
  /\ cmd' = [p \in Commands |-> Resting]
  /\ alone' = FALSE
  /\ UNCHANGED <<objects, file, issued, waived, told, commands>>

Next ==
  \/ \E p \in Commands :
       \/ \E d \in DealIds : BeginOpen(p, d)
       \/ \E r \in Roots, o \in Proposals : BeginPropose(p, r, o)
       \/ \E o \in Proposals : BeginAccept(p, o) \/ BeginStart(p, o)
       \/ \E d \in DealIds, op \in {"submit", "approve"} : BeginProof(p, d, op)
       \/ \E d \in DealIds, op \in {"invoice", "pay"}, early \in BOOLEAN :
            BeginSettlement(p, d, op, early)
       \/ Publish(p) \/ Propose(p) \/ AcceptProposal(p)
       \/ CreateAgreement(p) \/ CreateContract(p) \/ OpenMilestone(p)
       \/ SubmitProof(p) \/ AcceptProof(p) \/ CreateInvoice(p) \/ PayInvoice(p)
       \/ Fail(p) \/ Record(p) \/ Write(p)
  \/ \E c \in Contracts : RejectMilestone(c) \/ ReopenMilestone(c)
  \/ Crash

Spec == Init /\ [][Next]_vars

-----------------------------------------------------------------------------
(* Properties.                                                               *)

\* The deals file holds a record of the right shape for every deal, also when
\* several commands write it.
TypeOK ==
  /\ roots \subseteq Roots
  /\ proposal \in [Proposals -> {"none", "open", "accepted"}]
  /\ contract \in [Contracts -> [status : {"none", "agreement", "contract", "open", "submitted",
                                           "accepted", "rejected"}, proof : BOOLEAN]]
  /\ payments \subseteq [deal : DealIds, contract : Contracts \cup {None}, paid : BOOLEAN]
  /\ file \in [deals : [DealIds -> DealRecord], state : {"ok", "empty", "torn"}]
  /\ told \in [DealIds -> DealRecord]
  /\ \A p \in Commands :
       /\ cmd[p].at \in Stages
       /\ cmd[p].copy \in [DealIds -> DealRecord]

Opened(c)   == c # None /\ contract[c].status \notin {"none", "agreement", "contract"}
Proven(c)   == c # None /\ contract[c].proof
Honoured(c) == c # None /\ contract[c].status = "accepted"

\* The payment of deal d under contract c was made; it was asked for, and the
\* wallet's report said that it is pending or has failed.
Paid(d, c)        == [deal |-> d, contract |-> c, paid |-> TRUE] \in payments
Unconfirmed(d, c) == [deal |-> d, contract |-> c, paid |-> FALSE] \in payments

\* What a record says of deal d has happened: "settled" is that its payment was
\* asked for, whatever the wallet reported of it.
BackedBy(d, rec) ==
  /\ rec.contract # None => Opened(rec.contract)
  /\ rec.stage = "in_progress" => Opened(rec.contract)
  /\ rec.stage = "proof_submitted" => Proven(rec.contract)
  /\ rec.stage = "proof_accepted" => Honoured(rec.contract)
  /\ rec.stage \in {"settlement_pending", "settled"} => Honoured(rec.contract) \/ d \in waived
  /\ rec.stage = "settled" => Paid(d, rec.contract) \/ Unconfirmed(d, rec.contract)

\* The record of a deal never runs ahead of the steps taken for it: a record may
\* be behind, or lost to another command's write, but no order of overlapping,
\* failing or dying commands puts a stage into the file, or into an answer to
\* the user, whose step did not happen, on this very deal and its contract.
\* It does not say that money has moved: a settled record stands for a payment
\* the wallet took on, which may be pending or have failed.
RecordsAreBacked == \A d \in DealIds : BackedBy(d, file.deals[d]) /\ BackedBy(d, told[d])

\* Settlement is proof-gated: the wallet is asked to pay for a deal only after
\* the milestone of the deal's contract was accepted, unless the user has waived
\* the gate for this deal.
ProofGatesPayment == \A b \in payments : Honoured(b.contract) \/ b.deal \in waived

\* As long as commands come one after the other and none dies, the file holds
\* what the last answer about every deal said.
AnswersAreKept ==
  alone /\ (\A p \in Commands : cmd[p].at # "write") =>
    \A d \in DealIds : file.deals[d] = told[d]
=============================================================================
