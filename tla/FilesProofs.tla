----------------------------- MODULE FilesProofs -----------------------------
(***************************************************************************)
(* What commands keep in files of a data directory is backed by what was   *)
(* done, whatever they overlap with and wherever they are killed: the      *)
(* records of deals, the connection of the wallet, the identity and the    *)
(* named contexts, for any commands, deals, connections, keys and          *)
(* directories.                                                            *)
(*                                                                         *)
(* Deals: the steps a record tells of were taken (Holds), as were those    *)
(* that a command has found out and not written yet (Fits).  While         *)
(* commands come one by one the one that runs has read what was told.      *)
(*                                                                         *)
(* Wallet: what is in the two files follows from where the one writer is   *)
(* that is alone (Wrote); a rotation reads and writes one connection while *)
(* the files are sound (Rotates).  What a use saw covers what is in force. *)
(*                                                                         *)
(* Identity: until a seed is in the file nobody has a feed; after that     *)
(* every process, the identity file and all DIDs are of that seed (Agrees, *)
(* AgreesWith), and while first starts do not overlap one process draws.   *)
(*                                                                         *)
(* Contexts: a command that is alone writes what its task makes of the     *)
(* contexts so far, which are in the file unless it is being written.      *)
(***************************************************************************)
EXTENDS Deals, WalletConfig, Identity, Contexts, TLAPS

-----------------------------------------------------------------------------
(* Deals.  What a record says is stated of the contracts, the payments and   *)
(* the waived deals it is judged by, so that it is said once which changes   *)
(* of these leave it true (HoldsStays).                                      *)

StageNames ==
  {"none", "negotiating", "agreed", "in_progress", "proof_submitted", "proof_accepted",
   "settlement_pending", "settled"}

DealOps == {"open", "propose", "accept", "start", "submit", "approve", "invoice", "pay"}
ContractStates ==
  [status : {"none", "agreement", "contract", "open", "submitted", "accepted", "rejected"},
   proof : BOOLEAN]

Deeds == [DealIds -> DealRecord]

CommandRecords ==
  [at : Stages, op : DealOps, deal : DealIds \cup {None}, root : Roots \cup {None},
   proposal : Proposals \cup {None}, contract : Contracts \cup {None}, copy : Deeds]

\* Opened, Proven and Honoured, of the contracts con.
OpenedIn(con, c)   == c # None /\ con[c].status \notin {"none", "agreement", "contract"}
ProvenIn(con, c)   == c # None /\ con[c].proof
HonouredIn(con, c) == c # None /\ con[c].status = "accepted"

\* The payment was asked for, of the payments pay.
AskedIn(pay, d, c) == \E paid \in BOOLEAN : [deal |-> d, contract |-> c, paid |-> paid] \in pay

\* BackedBy, of the contracts con, the payments pay and the waived deals wai.
Holds(d, rec, con, pay, wai) ==
  /\ rec.contract # None => OpenedIn(con, rec.contract)
  /\ rec.stage = "in_progress" => OpenedIn(con, rec.contract)
  /\ rec.stage = "proof_submitted" => ProvenIn(con, rec.contract)
  /\ rec.stage = "proof_accepted" => HonouredIn(con, rec.contract)
  /\ rec.stage \in {"settlement_pending", "settled"} => HonouredIn(con, rec.contract) \/ d \in wai
  /\ rec.stage = "settled" => AskedIn(pay, d, rec.contract)

\* What only grows: an opened milestone stays open, a proof and an acceptance stay,
\* payments and waivers are added.
Advances(con, pay, wai, con2, pay2, wai2) ==
  /\ \A c \in Contracts :
       /\ OpenedIn(con, c) => OpenedIn(con2, c)
       /\ ProvenIn(con, c) => ProvenIn(con2, c)
       /\ HonouredIn(con, c) => HonouredIn(con2, c)
  /\ pay \subseteq pay2 /\ wai \subseteq wai2

\* The calls of each command.
CallOf(c) ==
  /\ c.at = "publish" => c.op = "open"
  /\ c.at = "propose" => c.op = "propose"
  /\ c.at = "accept" => c.op = "accept"
  /\ c.at \in {"agree", "contract", "milestone"} => c.op = "start"
  /\ c.at = "submit" => c.op = "submit"
  /\ c.at = "approve" => c.op = "approve"
  /\ c.at = "invoice" => c.op = "invoice"
  /\ c.at = "pay" => c.op = "pay"

\* What a command knows of the deal it is about, from its copy.
KnowsDeal(c, con, wai) ==
  /\ c.op \in {"submit", "approve", "invoice", "pay"} =>
       c.deal \in DealIds /\ c.contract = c.copy[c.deal].contract
  /\ c.op \in {"submit", "approve"} => c.contract # None
  /\ c.op \in {"invoice", "pay"} => HonouredIn(con, c.contract) \/ c.deal \in wai

\* What has been achieved when a command comes to its record.
Achieved(c, con, pay) ==
  /\ c.op = "start" => OpenedIn(con, c.contract)
  /\ c.op = "submit" => ProvenIn(con, c.contract)
  /\ c.op = "approve" => HonouredIn(con, c.contract)
  /\ c.op = "pay" => AskedIn(pay, c.deal, c.contract)

Fits(c, con, pay, wai) ==
  /\ c \in CommandRecords
  /\ \A d \in DealIds : Holds(d, c.copy[d], con, pay, wai)
  /\ CallOf(c)
  /\ c.at \notin {"idle", "write"} => KnowsDeal(c, con, wai)
  /\ c.at = "record" => Achieved(c, con, pay)
  /\ c.at = "write" => c.deal \in DealIds

\* An engagement being set up belongs to one command.
Drafting(c) == c.at \in {"contract", "milestone"}

Drafts ==
  /\ \A p \in Commands :
       /\ Drafting(cmd[p]) => cmd[p].contract \in Contracts
       /\ cmd[p].at = "contract" => contract[cmd[p].contract].status = "agreement"
       /\ cmd[p].at = "milestone" => contract[cmd[p].contract].status = "contract"
  /\ \A p, q \in Commands :
       Drafting(cmd[p]) /\ Drafting(cmd[q]) /\ cmd[p].contract = cmd[q].contract => p = q

DealsInv ==
  /\ contract \in [Contracts -> ContractStates]
  /\ \A c \in Contracts : ProvenIn(contract, c) => OpenedIn(contract, c)
  /\ \A b \in payments : HonouredIn(contract, b.contract) \/ b.deal \in waived
  /\ \A b \in payments : b.contract \in Contracts \cup {None}
  /\ file \in [deals : Deeds, state : {"ok", "empty", "torn"}]
  /\ told \in Deeds
  /\ \A d \in DealIds :
       Holds(d, file.deals[d], contract, payments, waived) /\ Holds(d, told[d], contract, payments, waived)
  /\ cmd \in [Commands -> CommandRecords]
  /\ \A p \in Commands : Fits(cmd[p], contract, payments, waived)
  /\ Drafts

-----------------------------------------------------------------------------

LEMMA HoldsStays ==
  ASSUME NEW con, NEW pay, NEW wai, NEW con2, NEW pay2, NEW wai2,
         Advances(con, pay, wai, con2, pay2, wai2),
         NEW d, NEW rec \in DealRecord, Holds(d, rec, con, pay, wai)
  PROVE  Holds(d, rec, con2, pay2, wai2)
<1>1. rec.contract \in Contracts \cup {None}
  BY DEF DealRecord
<1>2. /\ OpenedIn(con, rec.contract) => OpenedIn(con2, rec.contract)
      /\ ProvenIn(con, rec.contract) => ProvenIn(con2, rec.contract)
      /\ HonouredIn(con, rec.contract) => HonouredIn(con2, rec.contract)
      /\ pay \subseteq pay2 /\ wai \subseteq wai2
  BY <1>1 DEF Advances, OpenedIn, ProvenIn, HonouredIn
<1>3. AskedIn(pay, d, rec.contract) => AskedIn(pay2, d, rec.contract)
  BY <1>2 DEF AskedIn
<1>4. QED
  BY <1>2, <1>3 DEF Holds

LEMMA FitsStays ==
  ASSUME NEW con, NEW pay, NEW wai, NEW con2, NEW pay2, NEW wai2,
         Advances(con, pay, wai, con2, pay2, wai2),
         NEW c, Fits(c, con, pay, wai)
  PROVE  Fits(c, con2, pay2, wai2)
<1>1. c.contract \in Contracts \cup {None} /\ c.copy \in Deeds /\ c \in CommandRecords
  BY DEF Fits, CommandRecords
<1>2. /\ OpenedIn(con, c.contract) => OpenedIn(con2, c.contract)
      /\ ProvenIn(con, c.contract) => ProvenIn(con2, c.contract)
      /\ HonouredIn(con, c.contract) => HonouredIn(con2, c.contract)
      /\ pay \subseteq pay2 /\ wai \subseteq wai2
  BY <1>1 DEF Advances, OpenedIn, ProvenIn, HonouredIn
<1>3. ASSUME NEW d \in DealIds PROVE Holds(d, c.copy[d], con2, pay2, wai2)
  <2> DEFINE rec == c.copy[d]
  <2>1. rec \in DealRecord /\ Holds(d, rec, con, pay, wai)
    BY <1>1 DEF Fits, Deeds
  <2> HIDE DEF rec
  <2>2. Holds(d, rec, con2, pay2, wai2)
    BY <2>1, HoldsStays
  <2>3. QED
    BY <2>2 DEF rec
<1>4. c.at \notin {"idle", "write"} => KnowsDeal(c, con2, wai2)
  BY <1>2 DEF Fits, KnowsDeal
<1>5. AskedIn(pay, c.deal, c.contract) => AskedIn(pay2, c.deal, c.contract)
  BY <1>2 DEF AskedIn
<1>6. c.at = "record" => Achieved(c, con2, pay2)
  BY <1>2, <1>5 DEF Fits, Achieved
<1>7. QED
  BY <1>1, <1>3, <1>4, <1>6 DEF Fits

LEMMA RecordsHold ==
  ASSUME DealsInv, NEW con2, NEW pay2, NEW wai2,
         Advances(contract, payments, waived, con2, pay2, wai2), NEW d \in DealIds
  PROVE  Holds(d, file.deals[d], con2, pay2, wai2) /\ Holds(d, told[d], con2, pay2, wai2)
<1>1. ASSUME NEW rec \in DealRecord, Holds(d, rec, contract, payments, waived)
      PROVE  Holds(d, rec, con2, pay2, wai2)
  BY <1>1, HoldsStays
<1>2. file.deals[d] \in DealRecord /\ told[d] \in DealRecord
  BY DEF DealsInv, Deeds
<1>3. QED
  BY <1>1, <1>2 DEF DealsInv

\* A command's record becomes c; contracts, payments and waivers advance.
LEMMA CommandGoes ==
  ASSUME DealsInv, NEW p \in Commands, NEW c, cmd' = [cmd EXCEPT ![p] = c],
         Advances(contract, payments, waived, contract', payments', waived'),
         Fits(c, contract', payments', waived'),
         contract' \in [Contracts -> ContractStates],
         \A x \in Contracts : ProvenIn(contract', x) => OpenedIn(contract', x),
         \A b \in payments' \ payments :
           /\ b.contract \in Contracts \cup {None}
           /\ HonouredIn(contract', b.contract) \/ b.deal \in waived',
         file' \in [deals : Deeds, state : {"ok", "empty", "torn"}], told' \in Deeds,
         \A d \in DealIds :
           /\ Holds(d, file'.deals[d], contract', payments', waived')
           /\ Holds(d, told'[d], contract', payments', waived'),
         Drafts'
  PROVE  DealsInv'
<1>1. c \in CommandRecords
  BY DEF Fits
<1>2. cmd' \in [Commands -> CommandRecords]
  BY <1>1 DEF DealsInv
<1>3. ASSUME NEW o \in Commands PROVE Fits(cmd'[o], contract', payments', waived')
  <2>1. CASE o = p
    BY <2>1 DEF DealsInv
  <2>2. CASE o # p
    <3>1. cmd'[o] = cmd[o]
      BY <2>2 DEF DealsInv
    <3>2. QED
      BY <3>1, FitsStays DEF DealsInv
  <2>3. QED
    BY <2>1, <2>2
<1>4. \A b \in payments' : /\ b.contract \in Contracts \cup {None}
                           /\ HonouredIn(contract', b.contract) \/ b.deal \in waived'
  BY DEF DealsInv, Advances, HonouredIn
<1>5. QED
  BY <1>2, <1>3, <1>4 DEF DealsInv

\* A step of a command that leaves what records are judged by alone.
LEMMA CommandMoves ==
  ASSUME DealsInv, NEW p \in Commands, NEW c, cmd' = [cmd EXCEPT ![p] = c],
         UNCHANGED <<contract, payments, file, told>>, waived \subseteq waived',
         Fits(c, contract, payments, waived'), ~Drafting(c)
  PROVE  DealsInv'
<1>1. Advances(contract, payments, waived, contract, payments, waived')
  BY DEF Advances
<1>2. \A o \in Commands : o # p => cmd'[o] = cmd[o]
  BY DEF DealsInv
<1>3. cmd'[p] = c
  BY DEF DealsInv
<1>4. Drafts'
  BY <1>2, <1>3 DEF DealsInv, Drafts, Drafting
<1>5. \A d \in DealIds :
           /\ Holds(d, file.deals[d], contract, payments, waived')
           /\ Holds(d, told[d], contract, payments, waived')
  BY <1>1, RecordsHold
<1>6. QED
  BY <1>1, <1>4, <1>5, CommandGoes DEF DealsInv

-----------------------------------------------------------------------------
(* A command begins.                                                         *)

LEMMA StepNames ==
  /\ DOMAIN NextStep = {"publish", "propose", "accept", "agree", "contract", "milestone", "submit",
                        "approve", "invoice", "pay"}
  /\ \A s \in DOMAIN NextStep :
       NextStep[s] = IF s = "agree" THEN "contract" ELSE IF s = "contract" THEN "milestone" ELSE "record"
  /\ Stages = {"idle", "write", "record"} \cup DOMAIN NextStep
BY DEF NextStep, Stages

LEMMA FirstSteps ==
  /\ FirstStep["open"] = "publish" /\ FirstStep["propose"] = "propose"
  /\ FirstStep["accept"] = "accept" /\ FirstStep["start"] = "agree"
  /\ FirstStep["submit"] = "submit" /\ FirstStep["approve"] = "approve"
  /\ FirstStep["invoice"] = "invoice" /\ FirstStep["pay"] = "pay"
BY DEF FirstStep

LEMMA EmptyRecords ==
  /\ NoDeals \in Deeds /\ NoRecord \in DealRecord /\ Resting \in CommandRecords
  /\ \A d, con, pay, wai : Holds(d, NoRecord, con, pay, wai)
  /\ \A con, pay, wai : Fits(Resting, con, pay, wai)
<1>1. NoRecord \in DealRecord
  BY DEF NoRecord, DealRecord, StageOrder
<1>2. NoDeals \in Deeds
  BY <1>1 DEF NoDeals, Deeds
<1>3. /\ Resting \in CommandRecords
      /\ Resting.at = "idle" /\ Resting.copy = NoDeals
  BY <1>2, StepNames DEF Resting, CommandRecords, DealOps
<1>4. \A d, con, pay, wai : Holds(d, NoRecord, con, pay, wai)
  BY DEF NoRecord, Holds
<1>5. ASSUME NEW con, NEW pay, NEW wai PROVE Fits(Resting, con, pay, wai)
  <2>1. \A d \in DealIds : Holds(d, NoDeals[d], con, pay, wai)
    BY <1>4 DEF NoDeals
  <2>2. QED
    BY <1>3, <2>1 DEF Fits, CallOf
<1>6. QED
  BY <1>1, <1>2, <1>3, <1>4, <1>5

LEMMA LoadedHolds ==
  ASSUME DealsInv
  PROVE  Loaded \in Deeds /\ \A d \in DealIds : Holds(d, Loaded[d], contract, payments, waived)
<1>1. CASE file.state = "ok"
  BY <1>1 DEF DealsInv, Loaded
<1>2. CASE file.state # "ok"
  BY <1>2, EmptyRecords DEF Loaded, NoDeals
<1>3. QED
  BY <1>1, <1>2

LEMMA BeginStep ==
  ASSUME DealsInv, NEW p \in Commands, NEW args \in CommandRecords, Begin(p, args),
         waived \subseteq waived',
         args.op \in {"submit", "approve", "invoice", "pay"} =>
           args.deal \in DealIds /\ args.contract = Loaded[args.deal].contract,
         args.op \in {"submit", "approve"} => args.contract # None,
         args.op \in {"invoice", "pay"} => HonouredIn(contract, args.contract) \/ args.deal \in waived'
  PROVE  DealsInv'
<1> DEFINE c == [args EXCEPT !.at = FirstStep[args.op], !.copy = Loaded]
<1>1. Loaded \in Deeds /\ \A d \in DealIds : Holds(d, Loaded[d], contract, payments, waived)
  BY LoadedHolds
<1>2. args.op \in DealOps
  BY DEF CommandRecords
<1>3. FirstStep[args.op] \in Stages \ {"idle", "write", "record", "contract", "milestone"}
  BY <1>2, FirstSteps, StepNames DEF DealOps
<1>4. /\ c \in CommandRecords /\ c.at = FirstStep[args.op] /\ c.copy = Loaded
      /\ c.op = args.op /\ c.deal = args.deal /\ c.contract = args.contract
  BY <1>1, <1>3 DEF CommandRecords
<1>5. cmd' = [cmd EXCEPT ![p] = c] /\ UNCHANGED <<contract, payments, file, told>>
  BY DEF Begin, objects
<1> HIDE DEF c
<1>6. CallOf(c)
  BY <1>2, <1>4, FirstSteps DEF CallOf, DealOps
<1>7. KnowsDeal(c, contract, waived')
  BY <1>4 DEF KnowsDeal
<1>8. Advances(contract, payments, waived, contract, payments, waived')
  BY DEF Advances
<1>9. ASSUME NEW d \in DealIds PROVE Holds(d, c.copy[d], contract, payments, waived')
  BY <1>1, <1>4, <1>8, HoldsStays DEF Deeds
<1>10. Fits(c, contract, payments, waived') /\ ~Drafting(c)
  BY <1>3, <1>4, <1>6, <1>7, <1>9 DEF Fits, Drafting
<1>11. QED
  BY <1>5, <1>10, CommandMoves

LEMMA StageGates ==
  ASSUME NEW rec \in DealRecord, StageAtLeast(rec, "proof_accepted")
  PROVE  rec.stage \in {"proof_accepted", "settlement_pending", "settled"}
<1>1. rec.stage \in StageNames
  BY DEF DealRecord, StageOrder, StageNames
<1>2. /\ StageOrder["none"] = 0 /\ StageOrder["negotiating"] = 1 /\ StageOrder["agreed"] = 2
      /\ StageOrder["in_progress"] = 3 /\ StageOrder["proof_submitted"] = 4
      /\ StageOrder["proof_accepted"] = 5
  BY DEF StageOrder
<1>3. QED
  BY <1>1, <1>2 DEF StageAtLeast, StageNames

LEMMA BeginsKeep ==
  ASSUME DealsInv, NEW p \in Commands,
         \/ \E d \in DealIds : BeginOpen(p, d)
         \/ \E r \in Roots, o \in Proposals : BeginPropose(p, r, o)
         \/ \E o \in Proposals : BeginAccept(p, o) \/ BeginStart(p, o)
         \/ \E d \in DealIds, op \in {"submit", "approve"} : BeginProof(p, d, op)
         \/ \E d \in DealIds, op \in {"invoice", "pay"}, early \in BOOLEAN :
              BeginSettlement(p, d, op, early)
  PROVE  DealsInv'
<1>1. Resting \in CommandRecords
  BY EmptyRecords
<1>2. ASSUME NEW d \in DealIds, BeginOpen(p, d) PROVE DealsInv'
  <2> DEFINE args == [Resting EXCEPT !.op = "open", !.deal = d]
  <2>1. args \in CommandRecords /\ args.op = "open"
    BY <1>1 DEF CommandRecords, DealOps
  <2>2. Begin(p, args) /\ UNCHANGED waived
    BY <1>2 DEF BeginOpen
  <2> HIDE DEF args
  <2>3. QED
    BY <2>1, <2>2, BeginStep
<1>3. ASSUME NEW r \in Roots, NEW o \in Proposals, BeginPropose(p, r, o) PROVE DealsInv'
  <2> DEFINE args == [Resting EXCEPT !.op = "propose", !.root = r, !.proposal = o]
  <2>1. args \in CommandRecords /\ args.op = "propose"
    BY <1>1 DEF CommandRecords, DealOps
  <2>2. Begin(p, args) /\ UNCHANGED waived
    BY <1>3 DEF BeginPropose
  <2> HIDE DEF args
  <2>3. QED
    BY <2>1, <2>2, BeginStep
<1>4. ASSUME NEW o \in Proposals, NEW op \in {"accept", "start"},
             Begin(p, [Resting EXCEPT !.op = op, !.proposal = o]), UNCHANGED waived
      PROVE  DealsInv'
  <2> DEFINE args == [Resting EXCEPT !.op = op, !.proposal = o]
  <2>1. args \in CommandRecords /\ args.op = op
    BY <1>1 DEF CommandRecords, DealOps
  <2>2. Begin(p, args)
    BY <1>4
  <2> HIDE DEF args
  <2>3. QED
    BY <1>4, <2>1, <2>2, BeginStep
<1>5. ASSUME NEW d \in DealIds, NEW op \in {"submit", "approve", "invoice", "pay"},
             Begin(p, [Resting EXCEPT !.op = op, !.deal = d, !.contract = Loaded[d].contract]),
             waived \subseteq waived',
             op \in {"submit", "approve"} => Loaded[d].contract # None,
             op \in {"invoice", "pay"} => HonouredIn(contract, Loaded[d].contract) \/ d \in waived'
      PROVE  DealsInv'
  <2> DEFINE x == Loaded[d].contract
             args == [Resting EXCEPT !.op = op, !.deal = d, !.contract = x]
  <2>1. x \in Contracts \cup {None}
    BY LoadedHolds DEF Deeds, DealRecord
  <2>2. Begin(p, args) /\ x = Loaded[d].contract
    BY <1>5
  <2> HIDE DEF x
  <2>3. args \in CommandRecords /\ args.op = op /\ args.deal = d /\ args.contract = x
    BY <1>1, <2>1 DEF CommandRecords, DealOps
  <2> HIDE DEF args
  <2>4. QED
    BY <1>5, <2>2, <2>3, BeginStep
<1>6. ASSUME NEW d \in DealIds, NEW op \in {"submit", "approve"}, BeginProof(p, d, op) PROVE DealsInv'
  BY <1>5, <1>6 DEF BeginProof
<1>7. ASSUME NEW d \in DealIds, NEW op \in {"invoice", "pay"}, NEW early \in BOOLEAN,
             BeginSettlement(p, d, op, early)
      PROVE  DealsInv'
  <2>1. waived \subseteq waived' /\ (early => d \in waived')
    BY <1>7 DEF BeginSettlement
  <2>2. ASSUME ~early PROVE HonouredIn(contract, Loaded[d].contract) \/ d \in waived'
    <3>1. Loaded[d] \in DealRecord /\ Holds(d, Loaded[d], contract, payments, waived)
      BY LoadedHolds DEF Deeds
    <3>2. StageAtLeast(Loaded[d], "proof_accepted")
      BY <1>7, <2>2 DEF BeginSettlement, Gate
    <3>3. Loaded[d].stage \in {"proof_accepted", "settlement_pending", "settled"}
      BY <3>1, <3>2, StageGates
    <3>4. QED
      BY <2>1, <3>1, <3>3 DEF Holds
  <2>3. HonouredIn(contract, Loaded[d].contract) \/ d \in waived'
    BY <2>1, <2>2
  <2>4. Begin(p, [Resting EXCEPT !.op = op, !.deal = d, !.contract = Loaded[d].contract])
    BY <1>7 DEF BeginSettlement
  <2>5. QED
    BY <1>5, <2>1, <2>3, <2>4
<1>8. QED
  BY <1>2, <1>3, <1>4, <1>6, <1>7 DEF BeginAccept, BeginStart

-----------------------------------------------------------------------------
(* Its calls.                                                                *)

\* What a command that made a call knows.
LEMMA FitsNext ==
  ASSUME NEW con, NEW pay, NEW wai, NEW con2, NEW pay2, Advances(con, pay, wai, con2, pay2, wai),
         NEW c, Fits(c, con, pay, wai), c.at \in DOMAIN NextStep,
         NEW q \in CommandRecords, q.at = NextStep[c.at], q.op = c.op, q.deal = c.deal, q.copy = c.copy,
         q.contract = c.contract \/ c.op = "start", q.at = "record" => Achieved(q, con2, pay2)
  PROVE  Fits(q, con2, pay2, wai)
<1>1. Fits(c, con2, pay2, wai)
  BY FitsStays
<1>2. CallOf(q)
  BY StepNames DEF Fits, CallOf
<1>3. KnowsDeal(q, con2, wai)
  BY <1>1, StepNames DEF Fits, KnowsDeal
<1>4. q.at \notin {"idle", "write"}
  BY StepNames
<1>5. QED
  BY <1>1, <1>2, <1>3, <1>4 DEF Fits

\* A call that leaves the contracts alone.
LEMMA PlainCall ==
  ASSUME DealsInv, NEW p \in Commands, NEW step \in DOMAIN NextStep, Called(p, step),
         UNCHANGED contract, payments \subseteq payments',
         \A b \in payments' \ payments :
           /\ b.contract \in Contracts \cup {None}
           /\ HonouredIn(contract, b.contract) \/ b.deal \in waived,
         NEW args \in CommandRecords, Goes(p, args), step \notin {"agree", "contract", "milestone"},
         args.op = cmd[p].op, args.deal = cmd[p].deal, args.copy = cmd[p].copy,
         args.contract = cmd[p].contract,
         Achieved(args, contract, payments')
  PROVE  DealsInv'
<1> DEFINE q == [args EXCEPT !.at = NextStep[cmd[p].at]]
<1>1. cmd[p].at = step /\ UNCHANGED <<file, waived, told>>
  BY DEF Called
<1>2. NextStep[step] = "record"
  BY StepNames
<1>3. /\ q \in CommandRecords /\ q.at = "record" /\ q.op = args.op /\ q.deal = args.deal
      /\ q.copy = args.copy /\ q.contract = args.contract
  BY <1>1, <1>2, StepNames DEF CommandRecords
<1>4. cmd' = [cmd EXCEPT ![p] = q]
  BY DEF Goes
<1> HIDE DEF q
<1>5. Advances(contract, payments, waived, contract, payments', waived)
  BY DEF Advances
<1>6. Achieved(q, contract, payments')
  BY <1>3 DEF Achieved
<1>7. Fits(cmd[p], contract, payments, waived)
  BY DEF DealsInv
<1>8. Fits(q, contract, payments', waived)
  BY <1>1, <1>2, <1>3, <1>5, <1>6, <1>7, FitsNext
<1>9. cmd'[p] = q /\ \A o \in Commands : o # p => cmd'[o] = cmd[o]
  BY <1>4 DEF DealsInv
<1>10. Drafts'
  BY <1>3, <1>9 DEF DealsInv, Drafts, Drafting
<1>11. \A d \in DealIds :
           /\ Holds(d, file.deals[d], contract, payments', waived)
           /\ Holds(d, told[d], contract, payments', waived)
  BY <1>5, RecordsHold
<1>12. QED
  BY <1>1, <1>4, <1>5, <1>8, <1>10, <1>11, CommandGoes DEF DealsInv

\* A contract moves on: what it had shown stays shown.
LEMMA ContractMovesOn ==
  ASSUME DealsInv, NEW c \in Contracts, NEW s \in ContractStates,
         contract' = [contract EXCEPT ![c] = s],
         contract[c].status # "accepted",
         OpenedIn(contract, c) => s.status \notin {"none", "agreement", "contract"},
         contract[c].proof => s.proof,
         s.proof => s.status \notin {"none", "agreement", "contract"}
  PROVE  /\ contract' \in [Contracts -> ContractStates]
         /\ Advances(contract, payments, waived, contract', payments, waived)
         /\ \A x \in Contracts : ProvenIn(contract', x) => OpenedIn(contract', x)
         /\ \A d \in DealIds :
              /\ Holds(d, file.deals[d], contract', payments, waived)
              /\ Holds(d, told[d], contract', payments, waived)
<1>1. contract' \in [Contracts -> ContractStates]
  BY DEF DealsInv
<1>2. contract'[c] = s /\ \A x \in Contracts \ {c} : contract'[x] = contract[x]
  BY DEF DealsInv
<1>3. Advances(contract, payments, waived, contract', payments, waived)
  BY <1>2 DEF Advances, OpenedIn, ProvenIn, HonouredIn
<1>4. \A x \in Contracts : ProvenIn(contract', x) => OpenedIn(contract', x)
  BY <1>2 DEF DealsInv, ProvenIn, OpenedIn
<1>5. QED
  BY <1>1, <1>3, <1>4, RecordsHold

\* A call that changes the contract of the command, one that is there already or
\* one that is being set up by this command.
LEMMA ContractCall ==
  ASSUME DealsInv, NEW p \in Commands, NEW step \in DOMAIN NextStep, Called(p, step),
         NEW c \in Contracts, NEW status, NEW proof \in BOOLEAN, ContractGoes(p, c, status, proof),
         [status |-> status, proof |-> proof] \in ContractStates,
         contract[c].status # "accepted",
         OpenedIn(contract, c) => status \notin {"none", "agreement", "contract"},
         contract[c].proof => proof,
         proof => status \notin {"none", "agreement", "contract"},
         contract[c].status \in {"agreement", "contract"} =>
           Drafting(cmd[p]) /\ cmd[p].contract = c,
         step = "agree" => status = "agreement",
         step = "contract" => status = "contract",
         cmd[p].op = "start" \/ cmd[p].contract = c,
         step = "milestone" => status = "open",
         step = "submit" => proof,
         step = "approve" => status = "accepted",
         step \in {"agree", "contract", "milestone", "submit", "approve"}
  PROVE  DealsInv'
<1> DEFINE s == [status |-> status, proof |-> proof]
           args == [cmd[p] EXCEPT !.contract = c]
           q == [args EXCEPT !.at = NextStep[cmd[p].at]]
<1>1. cmd[p].at = step /\ UNCHANGED <<file, waived, told, payments>>
  BY DEF Called, ContractGoes
<1>2. contract' = [contract EXCEPT ![c] = s] /\ cmd' = [cmd EXCEPT ![p] = q]
  BY DEF ContractGoes, Goes
<1>3. s.status = status /\ s.proof = proof /\ s \in ContractStates
  OBVIOUS
<1>4. /\ cmd[p] \in CommandRecords /\ Fits(cmd[p], contract, payments, waived)
  BY DEF DealsInv
<1>5. NextStep[step] \in {"contract", "milestone", "record"}
  BY StepNames
<1>6. /\ q \in CommandRecords /\ q.at = NextStep[step] /\ q.op = cmd[p].op /\ q.deal = cmd[p].deal
      /\ q.copy = cmd[p].copy /\ q.contract = c
  BY <1>1, <1>4, <1>5, StepNames DEF CommandRecords
<1> HIDE DEF s, args, q
<1>7. /\ contract' \in [Contracts -> ContractStates]
      /\ Advances(contract, payments, waived, contract', payments, waived)
      /\ \A x \in Contracts : ProvenIn(contract', x) => OpenedIn(contract', x)
      /\ \A d \in DealIds :
           /\ Holds(d, file.deals[d], contract', payments, waived)
           /\ Holds(d, told[d], contract', payments, waived)
  BY <1>2, <1>3, ContractMovesOn
<1>8. contract'[c] = s /\ c # None /\ \A x \in Contracts \ {c} : contract'[x] = contract[x]
  BY <1>2, DealConstants DEF DealsInv
<1>9. Achieved(q, contract', payments) \/ q.at # "record"
  <2>1. CASE step \in {"agree", "contract"}
    BY <1>6, <2>1, StepNames
  <2>2. CASE step = "milestone"
    BY <1>1, <1>3, <1>4, <1>6, <1>8, <2>2 DEF Achieved, OpenedIn, Fits, CallOf
  <2>3. CASE step = "submit"
    BY <1>1, <1>3, <1>4, <1>6, <1>8, <2>3 DEF Achieved, ProvenIn, Fits, CallOf
  <2>4. CASE step = "approve"
    BY <1>1, <1>3, <1>4, <1>6, <1>8, <2>4 DEF Achieved, HonouredIn, Fits, CallOf
  <2>5. QED
    BY <2>1, <2>2, <2>3, <2>4
<1>10. Fits(q, contract', payments, waived)
  <2>1. q.contract = cmd[p].contract \/ cmd[p].op = "start"
    BY <1>6
  <2>2. q.at = "record" => Achieved(q, contract', payments)
    BY <1>9
  <2>3. q.at = NextStep[cmd[p].at] /\ cmd[p].at \in DOMAIN NextStep
    BY <1>1, <1>6
  <2>4. QED
    BY <1>4, <1>6, <1>7, <2>1, <2>2, <2>3, FitsNext
<1>11. Drafts'
  <2>1. cmd'[p] = q /\ \A o \in Commands : o # p => cmd'[o] = cmd[o]
    BY <1>2 DEF DealsInv
  <2>2. \A o \in Commands : o # p /\ Drafting(cmd[o]) => cmd[o].contract # c
    BY DEF DealsInv, Drafts, Drafting
  <2>3. /\ q.at = "contract" => status = "agreement"
        /\ q.at = "milestone" => status = "contract"
    BY <1>6, StepNames
  <2>4. \A o \in Commands : o # p /\ Drafting(cmd[o]) =>
          cmd[o].contract \in Contracts /\ contract'[cmd[o].contract] = contract[cmd[o].contract]
    BY <1>8, <2>2 DEF DealsInv, Drafts
  <2>5. QED
    BY <1>3, <1>6, <1>8, <2>1, <2>2, <2>3, <2>4 DEF DealsInv, Drafts, Drafting
<1>12. QED
  BY <1>1, <1>2, <1>7, <1>10, <1>11, CommandGoes DEF DealsInv

LEMMA CallsKeep ==
  ASSUME DealsInv, NEW p \in Commands,
         \/ Publish(p) \/ Propose(p) \/ AcceptProposal(p)
         \/ CreateAgreement(p) \/ CreateContract(p) \/ OpenMilestone(p)
         \/ SubmitProof(p) \/ AcceptProof(p) \/ CreateInvoice(p) \/ PayInvoice(p)
  PROVE  DealsInv'
<1> DEFINE c == cmd[p]
<1>1. /\ c \in CommandRecords /\ Fits(c, contract, payments, waived)
  BY DEF DealsInv
<1>2. c.at \in DOMAIN NextStep => KnowsDeal(c, contract, waived) /\ CallOf(c)
  BY <1>1, StepNames DEF Fits
<1>3. CASE Publish(p)
  <2>1. PICK r \in Roots : Called(p, "publish") /\ Goes(p, [c EXCEPT !.root = r])
                           /\ UNCHANGED <<contract, payments>>
    BY <1>3 DEF Publish
  <2> DEFINE args == [c EXCEPT !.root = r]
  <2>2. args \in CommandRecords /\ args.op = c.op /\ args.deal = c.deal /\ args.copy = c.copy
        /\ args.contract = c.contract
    BY <1>1 DEF CommandRecords
  <2>3. Goes(p, args)
    BY <2>1
  <2> HIDE DEF args
  <2>4. Achieved(args, contract, payments')
    BY <1>2, <2>1, <2>2, StepNames DEF Achieved, CallOf, Called
  <2>5. QED
    BY <2>1, <2>2, <2>3, <2>4, PlainCall, StepNames
<1>4. CASE Propose(p) \/ AcceptProposal(p) \/ CreateInvoice(p)
  <2>1. PICK step \in {"propose", "accept", "invoice"} : Called(p, step)
    BY <1>4 DEF Propose, AcceptProposal, CreateInvoice
  <2>2. Goes(p, c) /\ UNCHANGED <<contract, payments>>
    BY <1>4 DEF Propose, AcceptProposal, CreateInvoice, objects
  <2>3. Achieved(c, contract, payments)
    BY <1>2, <2>1, StepNames DEF Achieved, CallOf, Called
  <2>4. QED
    BY <1>1, <2>1, <2>2, <2>3, PlainCall, StepNames
<1>5. CASE PayInvoice(p)
  <2>1. PICK paid \in BOOLEAN :
          payments' = payments \cup {[deal |-> c.deal, contract |-> c.contract, paid |-> paid]}
    BY <1>5 DEF PayInvoice
  <2> DEFINE b == [deal |-> c.deal, contract |-> c.contract, paid |-> paid]
  <2>2. Called(p, "pay") /\ Goes(p, c) /\ UNCHANGED contract /\ payments' = payments \cup {b}
    BY <1>5, <2>1 DEF PayInvoice
  <2>3. c.op = "pay" /\ (HonouredIn(contract, c.contract) \/ c.deal \in waived)
    BY <1>2, <2>2, StepNames DEF CallOf, KnowsDeal, Called
  <2>4. b.deal = c.deal /\ b.contract = c.contract /\ c.contract \in Contracts \cup {None}
    BY <1>1 DEF CommandRecords
  <2>5. AskedIn(payments', c.deal, c.contract)
    BY <2>2 DEF AskedIn
  <2> HIDE DEF b
  <2>6. Achieved(c, contract, payments')
    BY <2>3, <2>5 DEF Achieved
  <2>7. QED
    BY <1>1, <2>2, <2>3, <2>4, <2>6, PlainCall, StepNames
<1>6. CASE CreateAgreement(p)
  <2>1. PICK x \in Contracts : /\ Called(p, "agree") /\ contract[x].status = "none"
                               /\ ContractGoes(p, x, "agreement", FALSE)
    BY <1>6 DEF CreateAgreement
  <2>2. c.op = "start" /\ ~contract[x].proof
    BY <1>2, <2>1, StepNames, DealConstants
      DEF CallOf, Called, DealsInv, ProvenIn, OpenedIn, ContractStates
  <2>3. [status |-> "agreement", proof |-> FALSE] \in ContractStates
    BY DEF ContractStates
  <2>4. ~OpenedIn(contract, x)
    BY <2>1 DEF OpenedIn
  <2>5. QED
    BY <2>1, <2>2, <2>3, <2>4, ContractCall, StepNames
<1>7. CASE CreateContract(p) \/ OpenMilestone(p)
  <2> DEFINE x == c.contract
  <2>1. PICK step \in {"contract", "milestone"} :
          Called(p, step) /\ ContractGoes(p, x, IF step = "contract" THEN "contract" ELSE "open", FALSE)
    BY <1>7 DEF CreateContract, OpenMilestone
  <2>2. /\ c.at = step /\ Drafting(c) /\ x \in Contracts
        /\ contract[x].status \in {"agreement", "contract"}
    BY <2>1 DEF Called, DealsInv, Drafts, Drafting
  <2>3. c.op = "start" /\ ~contract[x].proof /\ ~OpenedIn(contract, x)
    BY <1>2, <2>2, StepNames, DealConstants
      DEF CallOf, DealsInv, ProvenIn, OpenedIn, ContractStates
  <2>4. \A s \in {"contract", "open"} : [status |-> s, proof |-> FALSE] \in ContractStates
    BY DEF ContractStates
  <2>5. CASE step = "contract"
    BY <2>1, <2>2, <2>3, <2>4, <2>5, ContractCall, StepNames
  <2>6. CASE step = "milestone"
    BY <2>1, <2>2, <2>3, <2>4, <2>6, ContractCall, StepNames
  <2>7. QED
    BY <2>5, <2>6
<1>8. CASE SubmitProof(p)
  <2> DEFINE x == c.contract
  <2>1. Called(p, "submit") /\ contract[x].status \in {"open", "rejected"}
        /\ ContractGoes(p, x, "submitted", TRUE)
    BY <1>8 DEF SubmitProof
  <2>2. x \in Contracts
    BY <1>1, <1>2, <2>1, StepNames DEF KnowsDeal, CallOf, Called, CommandRecords
  <2>3. [status |-> "submitted", proof |-> TRUE] \in ContractStates
    BY DEF ContractStates
  <2>4. cmd[p].contract = x /\ "submit" \in DOMAIN NextStep
        /\ contract[x].status \notin {"accepted", "agreement", "contract"}
    BY <2>1, StepNames
  <2> HIDE DEF x
  <2>5. QED
    BY <2>1, <2>2, <2>3, <2>4, ContractCall
<1>9. CASE AcceptProof(p)
  <2> DEFINE x == c.contract
  <2>1. Called(p, "approve") /\ contract[x].status \in {"submitted", "open"}
        /\ ContractGoes(p, x, "accepted", TRUE)
    BY <1>9 DEF AcceptProof
  <2>2. x \in Contracts
    BY <1>1, <1>2, <2>1, StepNames DEF KnowsDeal, CallOf, Called, CommandRecords
  <2>3. [status |-> "accepted", proof |-> TRUE] \in ContractStates
    BY DEF ContractStates
  <2>4. cmd[p].contract = x /\ "approve" \in DOMAIN NextStep
        /\ contract[x].status \notin {"accepted", "agreement", "contract"}
    BY <2>1, StepNames
  <2> HIDE DEF x
  <2>5. QED
    BY <2>1, <2>2, <2>3, <2>4, ContractCall
<1>10. QED
  BY <1>3, <1>4, <1>5, <1>6, <1>7, <1>8, <1>9

LEMMA FailKeeps ==
  ASSUME DealsInv, NEW p \in Commands, Fail(p)
  PROVE  DealsInv'
<1>1. cmd' = [cmd EXCEPT ![p] = Resting] /\ UNCHANGED <<contract, payments, file, told, waived>>
  BY DEF Fail, objects
<1>2. Fits(Resting, contract, payments, waived') /\ ~Drafting(Resting)
  BY EmptyRecords DEF Drafting, Resting
<1>3. QED
  BY <1>1, <1>2, CommandMoves

-----------------------------------------------------------------------------
(* The command records what it has done.                                     *)

\* The record that a command makes of its deal says what the command has achieved.
LEMMA RevisedHolds ==
  ASSUME NEW con, NEW pay, NEW wai, NEW c, Fits(c, con, pay, wai), c.at = "record",
         NEW d \in DealIds, c.op \in {"submit", "approve", "invoice", "pay"} => d = c.deal
  PROVE  Revised(c, c.copy[d]) \in DealRecord /\ Holds(d, Revised(c, c.copy[d]), con, pay, wai)
<1> DEFINE rec == c.copy[d]
           new == Revised(c, rec)
<1>1. /\ c \in CommandRecords /\ rec \in DealRecord /\ Holds(d, rec, con, pay, wai)
      /\ KnowsDeal(c, con, wai) /\ Achieved(c, con, pay)
  BY DEF Fits, CommandRecords, Deeds
<1>2. /\ StageAfter["open"] = "negotiating" /\ StageAfter["propose"] = "negotiating"
      /\ StageAfter["accept"] = "agreed" /\ StageAfter["start"] = "in_progress"
      /\ StageAfter["submit"] = "proof_submitted" /\ StageAfter["approve"] = "proof_accepted"
      /\ StageAfter["invoice"] = "settlement_pending" /\ StageAfter["pay"] = "settled"
  BY DEF StageAfter
<1>3. c.op \in DealOps
  BY <1>1 DEF CommandRecords
<1>4. DOMAIN StageOrder = StageNames
  BY DEF StageOrder, StageNames
<1>5. StageAfter[c.op] \in StageNames
  BY <1>2, <1>3 DEF DealOps, StageNames
<1>6. /\ new.stage = StageAfter[c.op]
      /\ new.contract = IF c.op = "start" THEN c.contract ELSE rec.contract
  BY DEF Revised
<1>7. new \in DealRecord
  BY <1>1, <1>4, <1>5 DEF Revised, DealRecord, CommandRecords
<1> HIDE DEF new
<1>8. ASSUME c.op \in {"open", "propose", "accept"} PROVE Holds(d, new, con, pay, wai)
  BY <1>1, <1>2, <1>6, <1>8 DEF Holds
<1>9. ASSUME c.op = "start" PROVE Holds(d, new, con, pay, wai)
  BY <1>1, <1>2, <1>6, <1>9 DEF Holds, Achieved
<1>10. ASSUME c.op \in {"submit", "approve", "invoice", "pay"} PROVE Holds(d, new, con, pay, wai)
  <2>1. d = c.deal /\ new.contract = rec.contract /\ rec.contract = c.contract
    BY <1>1, <1>6, <1>10 DEF KnowsDeal
  <2> HIDE DEF rec
  <2>2. QED
    BY <1>1, <1>2, <1>6, <1>10, <2>1 DEF Holds, Achieved, KnowsDeal
<1>11. QED
  BY <1>3, <1>7, <1>8, <1>9, <1>10 DEF DealOps, new

LEMMA RecordKeeps ==
  ASSUME DealsInv, NEW p \in Commands, Record(p)
  PROVE  DealsInv'
<1> DEFINE c == cmd[p]
<1>1. PICK d \in DealIds :
        /\ c.at = "record" /\ Target(p, d)
        /\ file' = [deals |-> NoDeals, state |-> "empty"]
        /\ cmd' = [cmd EXCEPT ![p] = [c EXCEPT !.at = "write", !.deal = d, !.copy = Save(c, d)]]
        /\ UNCHANGED <<contract, payments, waived, told>>
  BY DEF Record, objects
<1> DEFINE copy == Save(c, d)
           q == [c EXCEPT !.at = "write", !.deal = d, !.copy = copy]
<1>2. c \in CommandRecords /\ Fits(c, contract, payments, waived)
  BY DEF DealsInv
<1>3. c.op \in {"submit", "approve", "invoice", "pay"} => d = c.deal
  BY <1>1 DEF Target
<1>4. Revised(c, c.copy[d]) \in DealRecord /\ Holds(d, Revised(c, c.copy[d]), contract, payments, waived)
  BY <1>1, <1>2, <1>3, RevisedHolds
<1>5. copy = [c.copy EXCEPT ![d] = Revised(c, c.copy[d])] /\ c.copy \in Deeds
  BY <1>2 DEF Save, CommandRecords
<1>6. copy \in Deeds /\ \A e \in DealIds : Holds(e, copy[e], contract, payments, waived)
  BY <1>2, <1>4, <1>5 DEF Deeds, Fits
<1>7. cmd' = [cmd EXCEPT ![p] = q]
  BY <1>1
<1> HIDE DEF copy
<1>8. q \in CommandRecords /\ q.at = "write" /\ q.deal = d /\ q.copy = copy
  BY <1>2, <1>6, StepNames DEF CommandRecords
<1> HIDE DEF q
<1>9. Fits(q, contract, payments, waived) /\ ~Drafting(q)
  BY <1>6, <1>8 DEF Fits, CallOf, Drafting
<1>10. cmd'[p] = q /\ \A o \in Commands : o # p => cmd'[o] = cmd[o]
  BY <1>7 DEF DealsInv
<1>11. Drafts'
  BY <1>1, <1>9, <1>10 DEF DealsInv, Drafts, Drafting
<1>12. /\ file' \in [deals : Deeds, state : {"ok", "empty", "torn"}]
       /\ \A e \in DealIds : Holds(e, file'.deals[e], contract, payments, waived)
  BY <1>1, EmptyRecords DEF NoDeals
<1>13. Advances(contract, payments, waived, contract, payments, waived)
  BY DEF Advances
<1>14. QED
  BY <1>1, <1>7, <1>9, <1>11, <1>12, <1>13, CommandGoes DEF DealsInv

LEMMA WriteKeeps ==
  ASSUME DealsInv, NEW p \in Commands, Write(p)
  PROVE  DealsInv'
<1> DEFINE c == cmd[p]
<1>1. /\ c.at = "write"
      /\ \/ file' = [deals |-> c.copy, state |-> "ok"]
         \/ file' = [file EXCEPT !.state = "torn"]
      /\ told' = [told EXCEPT ![c.deal] = c.copy[c.deal]]
      /\ cmd' = [cmd EXCEPT ![p] = Resting]
      /\ UNCHANGED <<contract, payments, waived>>
  BY DEF Write, objects
<1>2. /\ c \in CommandRecords /\ c.copy \in Deeds /\ c.deal \in DealIds
      /\ \A d \in DealIds : Holds(d, c.copy[d], contract, payments, waived)
  BY <1>1 DEF DealsInv, Fits, CommandRecords
<1>3. Fits(Resting, contract, payments, waived) /\ ~Drafting(Resting)
  BY EmptyRecords DEF Drafting, Resting
<1>4. /\ file' \in [deals : Deeds, state : {"ok", "empty", "torn"}]
      /\ file'.deals = c.copy \/ file'.deals = file.deals
  BY <1>1, <1>2 DEF DealsInv
<1>5. told' \in Deeds /\ \A d \in DealIds : told'[d] = told[d] \/ told'[d] = c.copy[d]
  BY <1>1, <1>2 DEF DealsInv, Deeds
<1>6. \A d \in DealIds :
           /\ Holds(d, file'.deals[d], contract, payments, waived)
           /\ Holds(d, told'[d], contract, payments, waived)
  BY <1>2, <1>4, <1>5 DEF DealsInv
<1>7. cmd'[p] = Resting /\ \A o \in Commands : o # p => cmd'[o] = cmd[o]
  BY <1>1 DEF DealsInv
<1>8. Drafts'
  BY <1>1, <1>3, <1>7 DEF DealsInv, Drafts, Drafting
<1>9. Advances(contract, payments, waived, contract, payments, waived)
  BY DEF Advances
<1>10. QED
  BY <1>1, <1>3, <1>4, <1>5, <1>6, <1>8, <1>9, CommandGoes DEF DealsInv

-----------------------------------------------------------------------------
(* Around the commands, and the conclusions.                                 *)

LEMMA MilestonesKeep ==
  ASSUME DealsInv, NEW c \in Contracts, RejectMilestone(c) \/ ReopenMilestone(c)
  PROVE  DealsInv'
<1>1. PICK status \in {"open", "rejected"} : contract' = [contract EXCEPT ![c].status = status]
  BY DEF RejectMilestone, ReopenMilestone
<1> DEFINE s == [contract[c] EXCEPT !.status = status]
<1>2. contract[c] \in ContractStates /\ contract[c].status \in {"submitted", "open", "rejected"}
  BY DEF DealsInv, RejectMilestone, ReopenMilestone
<1>3. s \in ContractStates /\ s.status = status /\ s.proof = contract[c].proof
  BY <1>2 DEF ContractStates
<1>4. contract' = [contract EXCEPT ![c] = s]
  BY <1>1
<1> HIDE DEF s
<1>5. UNCHANGED <<payments, file, cmd, waived, told>>
  BY DEF RejectMilestone, ReopenMilestone
<1>6. /\ contract' \in [Contracts -> ContractStates]
      /\ Advances(contract, payments, waived, contract', payments, waived)
      /\ \A x \in Contracts : ProvenIn(contract', x) => OpenedIn(contract', x)
      /\ \A d \in DealIds :
           /\ Holds(d, file.deals[d], contract', payments, waived)
           /\ Holds(d, told[d], contract', payments, waived)
  BY <1>2, <1>3, <1>4, ContractMovesOn
<1>7. \A p \in Commands : Fits(cmd[p], contract', payments, waived)
  BY <1>6, FitsStays DEF DealsInv
<1>8. Drafts'
  <2>1. \A x \in Contracts \ {c} : contract'[x] = contract[x]
    BY <1>4 DEF DealsInv
  <2>2. \A p \in Commands : Drafting(cmd[p]) => cmd[p].contract \in Contracts \ {c}
    BY <1>2 DEF DealsInv, Drafts, Drafting
  <2>3. QED
    BY <1>5, <2>1, <2>2 DEF DealsInv, Drafts, Drafting
<1>9. \A b \in payments : HonouredIn(contract', b.contract) \/ b.deal \in waived
  BY <1>6 DEF DealsInv, Advances, HonouredIn
<1>10. QED
  BY <1>5, <1>6, <1>7, <1>8, <1>9 DEF DealsInv

LEMMA CrashKeeps ==
  ASSUME DealsInv, Crash
  PROVE  DealsInv'
<1>1. cmd' = [p \in Commands |-> Resting] /\ UNCHANGED <<contract, payments, file, told, waived>>
  BY DEF Crash, objects
<1>2. Resting \in CommandRecords /\ Fits(Resting, contract, payments, waived) /\ ~Drafting(Resting)
  BY EmptyRecords DEF Drafting, Resting
<1>3. Drafts'
  BY <1>1, <1>2 DEF Drafts, Drafting
<1>4. QED
  BY <1>1, <1>2, <1>3 DEF DealsInv

LEMMA DealsStep == DealsInv /\ [Next]_vars => DealsInv'
<1>1. SUFFICES ASSUME DealsInv, [Next]_vars PROVE DealsInv'
  OBVIOUS
<1>2. CASE UNCHANGED vars
  <2>1. UNCHANGED <<contract, payments, file, told, waived, cmd>>
    BY <1>2 DEF vars, objects
  <2>2. QED
    BY <1>1, <2>1 DEF DealsInv, Drafts
<1>3. QED
  BY <1>1, <1>2, BeginsKeep, CallsKeep, FailKeeps, RecordKeeps, WriteKeeps, MilestonesKeep, CrashKeeps
    DEF Next

\* The inductive invariant: what each command holds, the file holds or an answer
\* said was made by the calls that came before.
THEOREM DealsCorrect == Spec => []DealsInv
<1>1. Init => DealsInv
  <2>1. SUFFICES ASSUME Init PROVE DealsInv
    OBVIOUS
  <2>2. /\ contract \in [Contracts -> ContractStates] /\ payments = {}
        /\ \A c \in Contracts : ~ProvenIn(contract, c)
    BY <2>1 DEF Init, ContractStates, ProvenIn
  <2>3. cmd = [p \in Commands |-> Resting] /\ file = [deals |-> NoDeals, state |-> "ok"] /\ told = NoDeals
    BY <2>1 DEF Init
  <2>4. \A d \in DealIds : Holds(d, NoDeals[d], contract, payments, waived)
    BY EmptyRecords DEF NoDeals
  <2>5. Resting \in CommandRecords /\ Fits(Resting, contract, payments, waived) /\ ~Drafting(Resting)
    BY EmptyRecords DEF Drafting, Resting
  <2>6. Drafts
    BY <2>3, <2>5 DEF Drafts, Drafting
  <2>7. QED
    BY <2>2, <2>3, <2>4, <2>5, <2>6, EmptyRecords DEF DealsInv
<1>2. QED
  BY <1>1, DealsStep, PTL DEF Spec

\* No record of a deal, in the file or in an answer, runs ahead of the steps taken
\* for the deal and its contract; a settled one stands for a payment that the wallet
\* took on, whatever it reported of it (deals-store.ts and the deal, proof and
\* settlement commands).
THEOREM RecordsStayBacked == Spec => []RecordsAreBacked
<1>1. DealsInv => RecordsAreBacked
  BY DEF DealsInv, RecordsAreBacked, BackedBy, Paid, Unconfirmed, AskedIn, Holds, Opened, Proven, Honoured, OpenedIn, ProvenIn, HonouredIn
<1>2. QED
  BY <1>1, DealsCorrect, PTL

\* The wallet pays for a deal only after its milestone was accepted.
THEOREM ProofComesFirst == Spec => []ProofGatesPayment
<1>1. DealsInv => ProofGatesPayment
  BY DEF DealsInv, ProofGatesPayment, Honoured, HonouredIn
<1>2. QED
  BY <1>1, DealsCorrect, PTL

\* While commands come one after the other, the one that runs works on what was told.
AloneInv ==
  alone =>
    /\ \A p, q \in Commands : cmd[p].at # "idle" /\ cmd[q].at # "idle" => p = q
    /\ (\A p \in Commands : cmd[p].at # "write") => file = [deals |-> told, state |-> "ok"]
    /\ \A p \in Commands :
         /\ cmd[p].at \notin {"idle", "write"} => cmd[p].copy = told
         /\ cmd[p].at = "write" =>
              /\ file = [deals |-> NoDeals, state |-> "empty"]
              /\ cmd[p].copy = [told EXCEPT ![cmd[p].deal] = cmd[p].copy[cmd[p].deal]]

LEMMA OnlyOneRuns ==
  ASSUME DealsInv, AloneInv, NEW p \in Commands, NEW q, cmd' = [cmd EXCEPT ![p] = q],
         alone' => alone /\ (cmd[p].at = "idle" => \A o \in Commands : cmd[o].at = "idle"),
         alone' /\ q.at # "write" => file' = [deals |-> told', state |-> "ok"],
         alone' /\ q.at \notin {"idle", "write"} => q.copy = told',
         alone' /\ q.at = "write" =>
           /\ file' = [deals |-> NoDeals, state |-> "empty"]
           /\ q.copy = [told' EXCEPT ![q.deal] = q.copy[q.deal]]
  PROVE  AloneInv'
<1>1. SUFFICES ASSUME alone' PROVE AloneInv'
  BY DEF AloneInv
<1>2. cmd'[p] = q /\ \A o \in Commands : o # p => cmd'[o] = cmd[o]
  BY DEF DealsInv
<1>3. \A o \in Commands : o # p => cmd'[o].at = "idle"
  BY <1>1, <1>2 DEF AloneInv
<1>4. \A o, r \in Commands : cmd'[o].at # "idle" /\ cmd'[r].at # "idle" => o = r
  BY <1>3
<1>5. (\A o \in Commands : cmd'[o].at # "write") => file' = [deals |-> told', state |-> "ok"]
  BY <1>1, <1>2
<1>6. ASSUME NEW o \in Commands, cmd'[o].at # "idle"
      PROVE  /\ cmd'[o].at \notin {"idle", "write"} => cmd'[o].copy = told'
             /\ cmd'[o].at = "write" =>
                  /\ file' = [deals |-> NoDeals, state |-> "empty"]
                  /\ cmd'[o].copy = [told' EXCEPT ![cmd'[o].deal] = cmd'[o].copy[cmd'[o].deal]]
  BY <1>1, <1>2, <1>3, <1>6
<1>7. QED
  BY <1>4, <1>5, <1>6 DEF AloneInv

\* Before it writes, a command that runs alone finds in the file what was told.
LEMMA FileIsTold ==
  ASSUME DealsInv, AloneInv, alone, NEW p \in Commands, cmd[p].at # "write",
         cmd[p].at = "idle" => \A o \in Commands : cmd[o].at = "idle"
  PROVE  file = [deals |-> told, state |-> "ok"]
<1>1. \A o \in Commands : cmd[o].at # "write"
  BY DEF AloneInv
<1>2. QED
  BY <1>1 DEF AloneInv

LEMMA AloneBegins ==
  ASSUME DealsInv, AloneInv, NEW p \in Commands, NEW args \in CommandRecords, Begin(p, args)
  PROVE  AloneInv'
<1> DEFINE q == [args EXCEPT !.at = FirstStep[args.op], !.copy = Loaded]
<1>1. FirstStep[args.op] \notin {"idle", "write"}
  BY FirstSteps DEF CommandRecords, DealOps
<1>2. q.at = FirstStep[args.op] /\ q.copy = Loaded
  BY DEF CommandRecords
<1>3. /\ cmd' = [cmd EXCEPT ![p] = q] /\ UNCHANGED <<file, told>> /\ cmd[p].at = "idle"
      /\ alone' => alone /\ \A o \in Commands : cmd[o].at = "idle"
  BY DEF Begin
<1> HIDE DEF q
<1>4. alone' => file = [deals |-> told, state |-> "ok"]
  BY <1>3, FileIsTold
<1>5. alone' => Loaded = told
  BY <1>4 DEF Loaded
<1>6. QED
  BY <1>1, <1>2, <1>3, <1>4, <1>5, OnlyOneRuns

LEMMA AloneCalls ==
  ASSUME DealsInv, AloneInv, NEW p \in Commands, NEW step \in DOMAIN NextStep, Called(p, step),
         NEW args \in CommandRecords, Goes(p, args), args.copy = cmd[p].copy
  PROVE  AloneInv'
<1> DEFINE q == [args EXCEPT !.at = NextStep[cmd[p].at]]
<1>1. cmd[p].at = step /\ UNCHANGED <<file, told, alone>>
  BY DEF Called
<1>2. q.at = NextStep[step] /\ q.copy = cmd[p].copy
  BY <1>1 DEF CommandRecords
<1>3. cmd' = [cmd EXCEPT ![p] = q] /\ NextStep[step] \notin {"idle", "write"} /\ step \notin {"idle", "write"}
  BY StepNames DEF Goes
<1> HIDE DEF q
<1>4. alone => file = [deals |-> told, state |-> "ok"]
  BY <1>1, <1>3, FileIsTold
<1>5. alone => cmd[p].copy = told
  BY <1>1, <1>3 DEF AloneInv
<1>6. QED
  BY <1>1, <1>2, <1>3, <1>4, <1>5, OnlyOneRuns

\* While it writes, its copy is what was told but for the deal it changed.
LEMMA CopyOfTold ==
  ASSUME AloneInv, alone, NEW p \in Commands, cmd[p].at = "write"
  PROVE  /\ file.state = "empty"
         /\ cmd[p].copy = [told EXCEPT ![cmd[p].deal] = cmd[p].copy[cmd[p].deal]]
<1>1. file = [deals |-> NoDeals, state |-> "empty"]
  BY DEF AloneInv
<1>2. file.state = "empty"
  BY <1>1
<1>3. QED
  BY <1>2, Zenon DEF AloneInv

LEMMA AloneEnds ==
  ASSUME DealsInv, AloneInv, NEW p \in Commands, Fail(p) \/ Record(p) \/ Write(p)
  PROVE  AloneInv'
<1> DEFINE c == cmd[p]
<1>1. c \in CommandRecords /\ Fits(c, contract, payments, waived) /\ told \in Deeds
  BY DEF DealsInv
<1>2. CASE Fail(p)
  <2>1. /\ cmd' = [cmd EXCEPT ![p] = Resting] /\ UNCHANGED <<file, told, alone>>
        /\ c.at \notin {"idle", "write"}
    BY <1>2, StepNames DEF Fail
  <2>2. alone => file = [deals |-> told, state |-> "ok"]
    BY <2>1, FileIsTold
  <2>3. QED
    BY <2>1, <2>2, OnlyOneRuns DEF Resting
<1>3. CASE Record(p)
  <2>1. PICK d \in DealIds :
          /\ c.at = "record"
          /\ file' = [deals |-> NoDeals, state |-> "empty"]
          /\ cmd' = [cmd EXCEPT ![p] = [c EXCEPT !.at = "write", !.deal = d, !.copy = Save(c, d)]]
          /\ UNCHANGED <<told, alone>>
    BY <1>3 DEF Record
  <2> DEFINE copy == Save(c, d)
             q == [c EXCEPT !.at = "write", !.deal = d, !.copy = copy]
  <2>2. cmd' = [cmd EXCEPT ![p] = q]
    BY <2>1
  <2>3. alone => c.copy = told
    BY <2>1 DEF AloneInv
  <2>4. alone => copy = [told EXCEPT ![d] = copy[d]]
    BY <1>1, <2>3 DEF Save, Deeds
  <2> HIDE DEF copy
  <2>5. q.at = "write" /\ q.deal = d /\ q.copy = copy
    BY <1>1 DEF CommandRecords
  <2> HIDE DEF q
  <2>6. QED
    BY <2>1, <2>2, <2>4, <2>5, OnlyOneRuns
<1>4. CASE Write(p)
  <2>1. /\ c.at = "write"
        /\ \/ file' = [deals |-> c.copy, state |-> "ok"]
           \/ file.state # "empty"
        /\ told' = [told EXCEPT ![c.deal] = c.copy[c.deal]]
        /\ cmd' = [cmd EXCEPT ![p] = Resting]
        /\ UNCHANGED alone
    BY <1>4 DEF Write
  <2>2. alone => file.state = "empty" /\ c.copy = [told EXCEPT ![c.deal] = c.copy[c.deal]]
    BY <2>1, CopyOfTold
  <2>3. alone => file' = [deals |-> told', state |-> "ok"]
    BY <2>1, <2>2
  <2>4. QED
    BY <2>1, <2>3, OnlyOneRuns DEF Resting
<1>5. QED
  BY <1>2, <1>3, <1>4

LEMMA AloneStep == DealsInv /\ AloneInv /\ [Next]_vars => AloneInv'
<1>1. SUFFICES ASSUME DealsInv, AloneInv, [Next]_vars PROVE AloneInv'
  OBVIOUS
<1>2. Resting \in CommandRecords /\ \A p \in Commands : cmd[p] \in CommandRecords
  BY <1>1, EmptyRecords DEF DealsInv
<1>3. ASSUME NEW p \in Commands,
             \/ \E d \in DealIds : BeginOpen(p, d)
             \/ \E r \in Roots, o \in Proposals : BeginPropose(p, r, o)
             \/ \E o \in Proposals : BeginAccept(p, o) \/ BeginStart(p, o)
             \/ \E d \in DealIds, op \in {"submit", "approve"} : BeginProof(p, d, op)
             \/ \E d \in DealIds, op \in {"invoice", "pay"}, early \in BOOLEAN :
                  BeginSettlement(p, d, op, early)
      PROVE  \E args \in CommandRecords : Begin(p, args)
  <2>1. ASSUME NEW d \in DealIds, BeginOpen(p, d) PROVE \E args \in CommandRecords : Begin(p, args)
    <3>1. [Resting EXCEPT !.op = "open", !.deal = d] \in CommandRecords
      BY <1>2 DEF CommandRecords, DealOps
    <3>2. QED
      BY <2>1, <3>1 DEF BeginOpen
  <2>2. ASSUME NEW r \in Roots, NEW o \in Proposals, BeginPropose(p, r, o)
        PROVE  \E args \in CommandRecords : Begin(p, args)
    <3>1. [Resting EXCEPT !.op = "propose", !.root = r, !.proposal = o] \in CommandRecords
      BY <1>2 DEF CommandRecords, DealOps
    <3>2. QED
      BY <2>2, <3>1 DEF BeginPropose
  <2>3. ASSUME NEW o \in Proposals, BeginAccept(p, o) \/ BeginStart(p, o)
        PROVE  \E args \in CommandRecords : Begin(p, args)
    <3>1. \A op \in {"accept", "start"} : [Resting EXCEPT !.op = op, !.proposal = o] \in CommandRecords
      BY <1>2 DEF CommandRecords, DealOps
    <3>2. QED
      BY <2>3, <3>1 DEF BeginAccept, BeginStart
  <2>4. ASSUME NEW d \in DealIds, NEW op \in {"submit", "approve", "invoice", "pay"},
               Begin(p, [Resting EXCEPT !.op = op, !.deal = d, !.contract = Loaded[d].contract])
        PROVE  \E args \in CommandRecords : Begin(p, args)
    <3>1. Loaded[d].contract \in Contracts \cup {None}
      BY <1>1, LoadedHolds DEF Deeds, DealRecord
    <3>2. [Resting EXCEPT !.op = op, !.deal = d, !.contract = Loaded[d].contract] \in CommandRecords
      BY <1>2, <3>1 DEF CommandRecords, DealOps
    <3>3. QED
      BY <2>4, <3>2
  <2>5. ASSUME NEW d \in DealIds, NEW op \in {"submit", "approve"}, BeginProof(p, d, op)
        PROVE  \E args \in CommandRecords : Begin(p, args)
    BY <2>4, <2>5 DEF BeginProof
  <2>6. ASSUME NEW d \in DealIds, NEW op \in {"invoice", "pay"}, NEW early \in BOOLEAN,
               BeginSettlement(p, d, op, early)
        PROVE  \E args \in CommandRecords : Begin(p, args)
    BY <2>4, <2>6 DEF BeginSettlement
  <2>7. QED
    BY <1>3, <2>1, <2>2, <2>3, <2>5, <2>6
<1>4. ASSUME NEW p \in Commands,
             \/ Publish(p) \/ Propose(p) \/ AcceptProposal(p)
             \/ CreateAgreement(p) \/ CreateContract(p) \/ OpenMilestone(p)
             \/ SubmitProof(p) \/ AcceptProof(p) \/ CreateInvoice(p) \/ PayInvoice(p)
      PROVE  AloneInv'
  <2>1. ASSUME NEW step \in DOMAIN NextStep, Called(p, step), NEW c \in Contracts \cup {None},
               NEW status, NEW proof, ContractGoes(p, c, status, proof)
        PROVE  AloneInv'
    <3>1. /\ [cmd[p] EXCEPT !.contract = c] \in CommandRecords
          /\ [cmd[p] EXCEPT !.contract = c].copy = cmd[p].copy
      BY <1>2 DEF CommandRecords
    <3>2. QED
      BY <1>1, <2>1, <3>1, AloneCalls DEF ContractGoes
  <2>2. cmd[p].contract \in Contracts \cup {None}
    BY <1>2 DEF CommandRecords
  <2>3. CASE Publish(p)
    <3>1. PICK r \in Roots : Called(p, "publish") /\ Goes(p, [cmd[p] EXCEPT !.root = r])
      BY <2>3 DEF Publish
    <3>2. /\ [cmd[p] EXCEPT !.root = r] \in CommandRecords
          /\ [cmd[p] EXCEPT !.root = r].copy = cmd[p].copy
      BY <1>2 DEF CommandRecords
    <3>3. QED
      BY <1>1, <3>1, <3>2, AloneCalls, StepNames
  <2>4. CASE Propose(p) \/ AcceptProposal(p) \/ CreateInvoice(p) \/ PayInvoice(p)
    BY <1>1, <1>2, <2>4, AloneCalls, StepNames DEF Propose, AcceptProposal, CreateInvoice, PayInvoice
  <2>5. CASE CreateAgreement(p)
    BY <2>1, <2>5, StepNames DEF CreateAgreement
  <2>6. CASE CreateContract(p) \/ OpenMilestone(p) \/ SubmitProof(p) \/ AcceptProof(p)
    BY <2>1, <2>2, <2>6, StepNames DEF CreateContract, OpenMilestone, SubmitProof, AcceptProof
  <2>7. QED
    BY <1>4, <2>3, <2>4, <2>5, <2>6
<1>5. ASSUME UNCHANGED <<cmd, file, told, alone>> PROVE AloneInv'
  BY <1>1, <1>5 DEF AloneInv
<1>6. ASSUME NEW c \in Contracts, RejectMilestone(c) \/ ReopenMilestone(c) PROVE AloneInv'
  BY <1>5, <1>6 DEF RejectMilestone, ReopenMilestone
<1>7. CASE Crash
  BY <1>7 DEF Crash, AloneInv
<1>8. CASE UNCHANGED vars
  BY <1>5, <1>8 DEF vars
<1>9. QED
  BY <1>1, <1>3, <1>4, <1>6, <1>7, <1>8, AloneBegins, AloneEnds DEF Next

\* While commands come one after the other, the file holds what the last answer said.
THEOREM AnswersStay == Spec => []AnswersAreKept
<1>1. Init => AloneInv
  BY DEF Init, AloneInv, Resting
<1>2. AloneInv => AnswersAreKept
  <2>1. SUFFICES ASSUME AloneInv, alone, \A p \in Commands : cmd[p].at # "write", NEW d \in DealIds
                 PROVE  file.deals[d] = told[d]
    BY DEF AnswersAreKept
  <2>2. file = [deals |-> told, state |-> "ok"]
    BY <2>1 DEF AloneInv
  <2>3. QED
    BY <2>2
<1>3. QED
  BY <1>1, <1>2, AloneStep, DealsCorrect, PTL DEF Spec

-----------------------------------------------------------------------------
(* The connection of the wallet.                                             *)

CallRecords ==
  [work : Works, at : Points, key : KeyOrNone, next : KeyOrNone, endpoint : UriOrNone,
   uri : UriOrNone, seen : SUBSET UriOrNone, barred : BOOLEAN, quiet : BOOLEAN, alone : BOOLEAN]

Copying == {"openMeta", "fillMeta", "openSecret", "fillSecret"}
Reading == {"readMeta", "readSecret"}

\* Where a command may be, and what it has by then.
CallShaped(r) ==
  /\ r.work = "connect" => r.at \in Copying \cup {"drop"} /\ r.uri \in Uris /\ r.endpoint = r.uri
  /\ r.work = "rotate" => r.at \in Copying \cup Reading
  /\ r.work = "disconnect" => r.at \in {"drop", "removeBoth", "removeMeta", "removeSecret"}
  /\ r.work = "use" => r.at \in Reading \cup {"off", "swap", "using"}

Writes(r) == r.at # "off" /\ r.work # "use"

Output(r) == [uri |-> r.uri, key |-> r.next]

\* What the files hold while r writes alone.
Wrote(r, m, s) ==
  /\ r.at = "fillMeta" => m = Torn
  /\ r.at \in {"openSecret", "fillSecret"} => m = r.endpoint
  /\ r.at = "fillSecret" => s = TornSecret
  /\ r.at = "drop" /\ r.work = "connect" => m = r.endpoint /\ s = Output(r)
  /\ r.at = "removeSecret" => m = Absent
  /\ r.at = "removeMeta" => s = NoSecret

\* A rotation of a connection that is whole goes on with that connection.
Rotates(r, m, s, whole) ==
  r.work = "rotate" =>
    /\ r.at \in Reading => m = whole.uri /\ s = whole
    /\ r.at = "readSecret" => r.endpoint = whole.uri
    /\ r.at \in Copying => r.endpoint = whole.uri /\ r.uri = whole.uri

WriterInv ==
  /\ sound => \A c \in Writers : call[c].alone
  /\ \A c \in Writers : call[c].alone =>
       /\ \A d \in Writers : d = c
       /\ Wrote(call[c], meta, secret)
       /\ sound => Rotates(call[c], meta, secret, stored)
  /\ sound /\ (\A c \in Calls : ~Writes(call[c])) => meta = stored.uri /\ secret = stored

\* The connection u is stored, or one that connects is about to store it.
InForce(u) == u = stored.uri \/ \E d \in Calls : Writes(call[d]) /\ call[d].work = "connect" /\ call[d].uri = u

UseInv ==
  /\ sound /\ secret.uri \in Uris => InForce(secret.uri)
  /\ \A c \in Calls :
       /\ call[c].quiet => sound /\ \A u \in Uris : InForce(u) => u \in call[c].seen
       /\ call[c].quiet /\ call[c].at \in {"swap", "using"} => call[c].uri \in call[c].seen
       /\ call[c].at \in {"swap", "using"} => call[c].uri \in Uris
       /\ ~call[c].barred
       /\ Writes(call[c]) => ~call[c].quiet
  /\ locked => runtimeKey = Absent

ConfigInv ==
  /\ ConfigTypeOK
  /\ \A c \in Calls : CallShaped(call[c])
  /\ WriterInv /\ UseInv

LEMMA WritersWrite == Writers = {c \in Calls : Writes(call[c])}
  BY DEF Writers, Writes, Running

LEMMA NoneApart ==
  /\ Absent \notin Uris /\ Torn \notin Uris /\ Absent \notin Keys /\ Torn \notin Keys /\ Absent # Torn
  /\ TornSecret # NoSecret /\ NoSecret \in Secrets
  BY WalletConfigConstants DEF TornSecret, NoSecret, Secrets, UriOrNone, KeyOrNone

LEMMA RestingCall == NoCall \in CallRecords /\ CallShaped(NoCall) /\ ~Writes(NoCall)
                     /\ NoCall.at = "off" /\ ~NoCall.quiet /\ ~NoCall.barred
  BY DEF NoCall, CallRecords, Works, Points, CallShaped, Writes, KeyOrNone, UriOrNone

LEMMA CallIs ==
  ASSUME ConfigInv, NEW c \in Calls
  PROVE  call[c] \in CallRecords /\ CallShaped(call[c]) /\ ~call[c].barred
         /\ (Writes(call[c]) => ~call[c].quiet /\ c \in Writers)
  BY WritersWrite DEF ConfigInv, ConfigTypeOK, CallRecords, UseInv

\* Command c goes from where it is to r.
LEMMA CallGoes ==
  ASSUME ConfigInv, NEW c \in Calls, NEW r \in CallRecords, CallShaped(r),
         call' = [call EXCEPT ![c] = r]
  PROVE  /\ call' \in [Calls -> CallRecords] /\ \A d \in Calls : CallShaped(call'[d])
         /\ call'[c] = r /\ \A d \in Calls : d # c => call'[d] = call[d]
  BY DEF ConfigInv, ConfigTypeOK, CallRecords

\* A writer goes on, and leaves the files as one that writes alone does.
LEMMA WriterGoes ==
  ASSUME ConfigInv, NEW c \in Calls, Writes(call[c]), NEW r \in CallRecords, CallShaped(r), Writes(r),
         call' = [call EXCEPT ![c] = r],
         r.work = call[c].work, r.alone = call[c].alone, ~r.quiet, ~r.barred,
         r.work = "connect" => r.uri = call[c].uri,
         UNCHANGED <<stored, sound, locked, runtimeKey, envKey>>, adapter' \in UriOrNone,
         meta' \in UriOrNone \cup {Torn}, secret' \in Secrets \cup {TornSecret},
         r.alone => Wrote(r, meta', secret'),
         r.alone /\ sound => Rotates(r, meta', secret', stored),
         r.alone /\ sound /\ secret'.uri \in Uris => InForce(secret'.uri)
  PROVE  ConfigInv'
<1>1. /\ call' \in [Calls -> CallRecords] /\ \A d \in Calls : CallShaped(call'[d])
      /\ call'[c] = r /\ \A d \in Calls : d # c => call'[d] = call[d]
  BY CallGoes
<1>2. ConfigTypeOK'
  BY <1>1 DEF ConfigInv, ConfigTypeOK, CallRecords
<1>3. \A d \in Calls : Writes(call'[d]) <=> Writes(call[d])
  BY <1>1
<1>4. \A u : InForce(u)' <=> InForce(u)
  BY <1>1, <1>3 DEF InForce
<1>5. \A d \in Calls : Writes(call[d]) /\ call[d].alone /\ d # c => FALSE
  BY WritersWrite DEF ConfigInv, WriterInv
<1>6. sound => r.alone
  BY WritersWrite DEF ConfigInv, WriterInv
<1>7. WriterInv'
  <2>1. \A d \in Calls : d \in Writers' <=> Writes(call[d])
    BY <1>3, WritersWrite DEF Writers, Running, Writes
  <2>2. ASSUME sound', NEW d \in Calls, Writes(call[d]) PROVE call'[d].alone
    BY <1>1, <1>6, <2>2, WritersWrite DEF ConfigInv, WriterInv
  <2>3. ASSUME NEW d \in Calls, Writes(call[d]), call'[d].alone
        PROVE  /\ \A e \in Calls : Writes(call[e]) => e = d
               /\ Wrote(call'[d], meta', secret')
               /\ sound' => Rotates(call'[d], meta', secret', stored')
    <3>1. d = c
      BY <1>1, <1>5, <2>3
    <3>2. \A e \in Calls : Writes(call[e]) => e = c
      BY <1>1, <2>3, <3>1, WritersWrite DEF ConfigInv, WriterInv
    <3>3. QED
      BY <1>1, <2>3, <3>1, <3>2
  <2>4. QED
    BY <1>1, <1>3, <2>1, <2>2, <2>3 DEF WriterInv, Writers
<1>8. UseInv'
  <2>1. (sound /\ secret.uri \in Uris => InForce(secret.uri))'
    BY <1>4, <1>6
  <2>2. ASSUME NEW d \in Calls
        PROVE  /\ call'[d].quiet => sound' /\ \A u \in Uris : InForce(u)' => u \in call'[d].seen
               /\ call'[d].quiet /\ call'[d].at \in {"swap", "using"} => call'[d].uri \in call'[d].seen
               /\ call'[d].at \in {"swap", "using"} => call'[d].uri \in Uris
               /\ ~call'[d].barred
               /\ Writes(call'[d]) => ~call'[d].quiet
    <3>1. CASE d = c
      BY <1>1, <3>1 DEF CallShaped, Writes, CallRecords, Works, Copying, Reading
    <3>2. CASE d # c
      BY <1>1, <1>4, <3>2 DEF ConfigInv, UseInv
    <3>3. QED
      BY <3>1, <3>2
  <2>3. QED
    BY <2>1, <2>2 DEF ConfigInv, UseInv
<1>9. QED
  BY <1>1, <1>2, <1>7, <1>8 DEF ConfigInv

\* A writer ends and has stored s, which is in the files when it wrote alone.
LEMMA WriterEnds ==
  ASSUME ConfigInv, NEW c \in Calls, Writes(call[c]), NEW s \in Secrets, Stored(c, s),
         UNCHANGED <<locked, runtimeKey, envKey>>, adapter' \in UriOrNone,
         meta' \in UriOrNone \cup {Torn}, secret' \in Secrets \cup {TornSecret},
         call[c].alone /\ (sound \/ call[c].work \in {"connect", "disconnect"}) =>
           meta' = s.uri /\ secret' = s,
         sound /\ s.uri \in Uris => InForce(s.uri)
  PROVE  ConfigInv'
<1>1. /\ call' \in [Calls -> CallRecords] /\ \A d \in Calls : CallShaped(call'[d])
      /\ call'[c] = NoCall /\ \A d \in Calls : d # c => call'[d] = call[d]
  BY RestingCall, CallGoes DEF Stored
<1>2. /\ sound' = (sound \/ (call[c].alone /\ call[c].work \in {"connect", "disconnect"}))
      /\ stored' = IF sound' THEN s ELSE NoSecret
  BY DEF Stored
<1>3. sound' \in BOOLEAN /\ stored' \in Secrets
  BY <1>2, NoneApart DEF ConfigInv, ConfigTypeOK
<1>4. ConfigTypeOK'
  BY <1>1, <1>3 DEF ConfigInv, ConfigTypeOK, CallRecords
<1>5. sound' => call[c].alone
  BY <1>2, WritersWrite DEF ConfigInv, WriterInv
<1>6. \A d \in Calls : Writes(call'[d]) <=> Writes(call[d]) /\ d # c
  BY <1>1, RestingCall
<1>7. call[c].alone => \A d \in Calls : ~Writes(call'[d])
  BY <1>6, WritersWrite DEF ConfigInv, WriterInv
<1>8. sound' => meta' = s.uri /\ secret' = s /\ stored' = s
  BY <1>2, <1>5
<1>9. WriterInv'
  <2>1. \A d \in Calls : d \in Writers' <=> Writes(call'[d])
    BY DEF Writers, Running, Writes
  <2>2. ASSUME NEW d \in Calls, Writes(call'[d]) PROVE ~call'[d].alone /\ ~sound'
    BY <1>1, <1>5, <1>6, <1>7, <2>2, WritersWrite DEF ConfigInv, WriterInv
  <2>3. \A d \in Writers' : d \in Calls
    BY DEF Writers
  <2>4. QED
    BY <1>8, <2>1, <2>2, <2>3 DEF WriterInv
<1>10. UseInv'
  <2>1. (sound /\ secret.uri \in Uris => InForce(secret.uri))'
    BY <1>8 DEF InForce
  <2>2. ASSUME NEW u \in Uris, sound, InForce(u)' PROVE InForce(u)
    BY <1>1, <1>2, <1>6, <2>2 DEF InForce
  <2>3. ASSUME NEW d \in Calls
        PROVE  /\ call'[d].quiet => sound' /\ \A u \in Uris : InForce(u)' => u \in call'[d].seen
               /\ call'[d].quiet /\ call'[d].at \in {"swap", "using"} => call'[d].uri \in call'[d].seen
               /\ call'[d].at \in {"swap", "using"} => call'[d].uri \in Uris
               /\ ~call'[d].barred
               /\ Writes(call'[d]) => ~call'[d].quiet
    <3>1. CASE d = c
      BY <1>1, <3>1, RestingCall
    <3>2. CASE d # c
      BY <1>1, <1>2, <2>2, <3>2 DEF ConfigInv, UseInv
    <3>3. QED
      BY <3>1, <3>2
  <2>4. QED
    BY <2>1, <2>3 DEF ConfigInv, UseInv
<1>11. QED
  BY <1>1, <1>4, <1>9, <1>10 DEF ConfigInv

\* A command that does not write, or gives up before it does, goes on.
LEMMA UserGoes ==
  ASSUME ConfigInv, NEW c \in Calls, NEW r \in CallRecords, CallShaped(r), ~Writes(r),
         call' = [call EXCEPT ![c] = r], Writes(call[c]) => call[c].at \in Reading, ~r.barred,
         r.quiet => sound /\ \A u \in Uris : InForce(u) => u \in r.seen,
         r.at \in {"swap", "using"} => r.uri \in Uris /\ (r.quiet => r.uri \in r.seen),
         UNCHANGED <<meta, secret, stored, sound, locked, runtimeKey, envKey>>, adapter' \in UriOrNone
  PROVE  ConfigInv'
<1>1. /\ call' \in [Calls -> CallRecords] /\ \A d \in Calls : CallShaped(call'[d])
      /\ call'[c] = r /\ \A d \in Calls : d # c => call'[d] = call[d]
  BY CallGoes
<1>2. ConfigTypeOK'
  BY <1>1 DEF ConfigInv, ConfigTypeOK, CallRecords
<1>3. \A d \in Calls : Writes(call'[d]) => Writes(call[d]) /\ d # c
  BY <1>1
<1>4. Writes(call[c]) => call[c].work = "rotate"
  BY CallIs DEF CallShaped, Writes, Copying, Reading, CallRecords, Works
<1>5. \A u : InForce(u)' <=> InForce(u)
  BY <1>1, <1>3, <1>4 DEF InForce
<1>6. WriterInv'
  <2>1. \A d \in Calls : d \in Writers' <=> Writes(call'[d])
    BY DEF Writers, Running, Writes
  <2>2. \A d \in Writers' : d \in Calls /\ d \in Writers /\ d # c /\ call'[d] = call[d]
    BY <1>1, <1>3, <2>1, WritersWrite DEF Writers
  <2>3. ASSUME sound, \A d \in Calls : ~Writes(call'[d]) PROVE meta = stored.uri /\ secret = stored
    <3>1. CASE Writes(call[c])
      <4>1. call[c].alone /\ c \in Writers
        BY <2>3, <3>1, WritersWrite DEF ConfigInv, WriterInv
      <4>2. Rotates(call[c], meta, secret, stored)
        BY <2>3, <4>1 DEF ConfigInv, WriterInv
      <4>3. QED
        BY <1>4, <3>1, <4>2 DEF Rotates
    <3>2. CASE ~Writes(call[c])
      BY <1>1, <2>3, <3>2 DEF ConfigInv, WriterInv
    <3>3. QED
      BY <3>1, <3>2
  <2>4. QED
    BY <2>2, <2>3 DEF ConfigInv, WriterInv
<1>7. UseInv'
  <2>1. ASSUME NEW d \in Calls
        PROVE  /\ call'[d].quiet => sound' /\ \A u \in Uris : InForce(u)' => u \in call'[d].seen
               /\ call'[d].quiet /\ call'[d].at \in {"swap", "using"} => call'[d].uri \in call'[d].seen
               /\ call'[d].at \in {"swap", "using"} => call'[d].uri \in Uris
               /\ ~call'[d].barred
               /\ Writes(call'[d]) => ~call'[d].quiet
    <3>1. CASE d = c
      BY <1>1, <1>5, <3>1
    <3>2. CASE d # c
      BY <1>1, <1>5, <3>2 DEF ConfigInv, UseInv
    <3>3. QED
      BY <3>1, <3>2
  <2>2. QED
    BY <1>5, <2>1 DEF ConfigInv, UseInv
<1>8. QED
  BY <1>1, <1>2, <1>6, <1>7 DEF ConfigInv

\* What a writer that is alone, or the only one since the files were sound, knows.
LEMMA WriterIs ==
  ASSUME ConfigInv, NEW c \in Calls, Writes(call[c])
  PROVE  /\ sound => call[c].alone
         /\ call[c].alone => Wrote(call[c], meta, secret)
         /\ call[c].alone /\ sound => Rotates(call[c], meta, secret, stored)
         /\ sound /\ secret.uri \in Uris => InForce(secret.uri)
         /\ call[c].work = "connect" => InForce(call[c].uri)
         /\ InForce(stored.uri)
  BY WritersWrite DEF ConfigInv, WriterInv, UseInv, InForce

LEMMA FilesAre ==
  ASSUME ConfigInv
  PROVE  /\ meta \in UriOrNone \cup {Torn} /\ secret \in Secrets \cup {TornSecret}
         /\ adapter \in UriOrNone /\ stored \in Secrets
         /\ runtimeKey \in KeyOrNone /\ envKey \in KeyOrNone
  BY DEF ConfigInv, ConfigTypeOK

LEMMA BeginWriteKeeps ==
  ASSUME ConfigInv, NEW c \in Calls, NEW new \in CallRecords, CallShaped(new), Writes(new),
         ~new.quiet, ~new.barred, new.at \notin (Copying \ {"openMeta"}) \cup {"removeMeta", "removeSecret"},
         new.at = "drop" => new.work = "disconnect",
         new.work = "rotate" => new.at = "readMeta", BeginWrite(c, new)
  PROVE  ConfigInv'
<1> DEFINE nobody == \A d \in Calls : ~Writes(call[d])
           uris == IF new.work = "connect" THEN {new.uri} ELSE {}
           r == [new EXCEPT !.alone = Writers = {}]
           b(d) == [call[d] EXCEPT !.alone = FALSE, !.quiet = @ /\ Writers = {},
                                   !.seen = IF call[d].quiet /\ Writers = {} THEN @ \cup uris ELSE {}]
<1>1. Writers = {} <=> nobody
  BY WritersWrite
<1>2. /\ ~Writes(call[c]) /\ sound' = (sound /\ Writers = {})
      /\ stored' = (IF sound' THEN stored ELSE NoSecret)
      /\ UNCHANGED <<meta, secret, runtimeKey, envKey, adapter, locked>>
  BY DEF BeginWrite, Running, Writes
<1>3. call' = [[d \in Calls |-> b(d)] EXCEPT ![c] = r]
  BY DEF BeginWrite, Beside
<1>4. call'[c] = r /\ (\A d \in Calls : d # c => call'[d] = b(d)) /\ DOMAIN call' = Calls
  BY <1>3
<1>5. r \in CallRecords /\ CallShaped(r) /\ Writes(r) /\ ~r.quiet /\ ~r.barred /\ r.alone = nobody
      /\ r.work = new.work /\ r.at = new.at /\ r.uri = new.uri
  BY <1>1 DEF CallRecords, CallShaped, Writes
<1>6. uris \subseteq Uris
  BY DEF CallShaped
<1>7. ASSUME NEW d \in Calls
      PROVE  /\ b(d) \in CallRecords /\ CallShaped(b(d)) /\ ~b(d).barred /\ ~b(d).alone
             /\ b(d).at = call[d].at /\ b(d).work = call[d].work /\ b(d).uri = call[d].uri
             /\ b(d).quiet = (call[d].quiet /\ nobody)
             /\ b(d).quiet => b(d).seen = call[d].seen \cup uris
  <2>1. call[d] \in CallRecords /\ CallShaped(call[d]) /\ ~call[d].barred
    BY CallIs
  <2>2. uris \subseteq UriOrNone
    BY <1>6 DEF UriOrNone
  <2> HIDE DEF uris
  <2>3. QED
    BY <1>1, <2>1, <2>2 DEF CallRecords, CallShaped
<1> HIDE DEF b, r
<1>8. /\ call' \in [Calls -> CallRecords]
      /\ \A d \in Calls : CallShaped(call'[d]) /\ (Writes(call'[d]) <=> Writes(call[d]) \/ d = c)
  <2>1. \A d \in Calls : Writes(b(d)) <=> Writes(call[d])
    BY <1>7 DEF Writes
  <2>2. call' = [d \in Calls |-> IF d = c THEN r ELSE b(d)]
    BY <1>3
  <2>3. QED
    BY <1>4, <1>5, <1>7, <2>1, <2>2
<1>9. sound' \in BOOLEAN /\ stored' \in Secrets
  BY <1>2, NoneApart DEF ConfigInv, ConfigTypeOK
<1>10. ConfigTypeOK'
  BY <1>2, <1>8, <1>9 DEF ConfigInv, ConfigTypeOK, CallRecords
<1>11. sound' => nobody /\ sound /\ meta = stored.uri /\ secret = stored /\ stored' = stored
  BY <1>1, <1>2 DEF ConfigInv, WriterInv
<1>12. WriterInv'
  <2>1. \A d \in Calls : d \in Writers' <=> Writes(call'[d])
    BY DEF Writers, Running, Writes
  <2>2. \A d \in Writers' : d \in Calls
    BY DEF Writers
  <2>3. \A d \in Calls : call'[d].alone => d = c /\ nobody
    BY <1>4, <1>5, <1>7
  <2>4. Wrote(r, meta, secret)
    BY <1>5 DEF Wrote, Copying
  <2>5. sound' => Rotates(r, meta, secret, stored)
    BY <1>5, <1>11 DEF Rotates, Copying, Reading
  <2>6. sound' => \A d \in Writers' : call'[d].alone
    BY <1>4, <1>5, <1>8, <1>11, <2>1, <2>2
  <2>7. \A d \in Writers' : call'[d].alone =>
          /\ \A e \in Writers' : e = d
          /\ Wrote(call'[d], meta', secret')
          /\ sound' => Rotates(call'[d], meta', secret', stored')
    BY <1>2, <1>4, <1>8, <1>11, <2>1, <2>2, <2>3, <2>4, <2>5
  <2>8. QED
    BY <1>8, <2>6, <2>7 DEF WriterInv
<1>13. UseInv'
  <2>1. ASSUME NEW u \in Uris, sound', InForce(u)' PROVE InForce(u) \/ u \in uris
    BY <1>4, <1>5, <1>7, <1>8, <1>11, <2>1 DEF InForce
  <2>2. (sound /\ secret.uri \in Uris => InForce(secret.uri))'
    BY <1>2, <1>11 DEF InForce
  <2>3. ASSUME NEW d \in Calls, d # c
        PROVE  /\ call'[d].quiet => sound' /\ \A u \in Uris : InForce(u)' => u \in call'[d].seen
               /\ call'[d].quiet /\ call'[d].at \in {"swap", "using"} => call'[d].uri \in call'[d].seen
               /\ call'[d].at \in {"swap", "using"} => call'[d].uri \in Uris
               /\ ~call'[d].barred
               /\ Writes(call'[d]) => ~call'[d].quiet
    <3>1. call'[d] = b(d)
      BY <1>4, <2>3
    <3>2. b(d).quiet => sound'
      BY <1>1, <1>2, <1>7 DEF ConfigInv, UseInv
    <3>3. b(d).quiet => \A u \in Uris : InForce(u)' => u \in b(d).seen
      BY <1>7, <2>1, <3>2 DEF ConfigInv, UseInv
    <3>4. QED
      BY <1>7, <1>8, <2>3, <3>1, <3>2, <3>3 DEF ConfigInv, UseInv
  <2>4. /\ ~call'[c].quiet /\ ~call'[c].barred /\ call'[c].at \notin {"swap", "using"}
    BY <1>4, <1>5 DEF CallShaped, Writes, CallRecords, Works, Copying, Reading
  <2>5. QED
    BY <1>2, <2>2, <2>3, <2>4 DEF ConfigInv, UseInv
<1>14. QED
  BY <1>8, <1>10, <1>12, <1>13 DEF ConfigInv

LEMMA WalletKeyIs == ConfigInv => WalletKey \in KeyOrNone
  BY FilesAre DEF WalletKey

LEMMA WritersBegin ==
  ASSUME ConfigInv, NEW c \in Calls,
         \/ \E u \in Uris : Connect(c, u)
         \/ \E next \in Keys : Rotate(c, next)
         \/ Disconnect(c)
  PROVE  ConfigInv'
<1>1. ASSUME NEW u \in Uris, Connect(c, u) PROVE ConfigInv'
  <2> DEFINE new == [NoCall EXCEPT !.work = "connect", !.at = "openMeta", !.next = WalletKey,
                                   !.uri = u, !.endpoint = u]
  <2>1. new \in CallRecords /\ CallShaped(new) /\ Writes(new) /\ ~new.quiet /\ ~new.barred
        /\ new.at = "openMeta" /\ new.work = "connect"
    BY RestingCall, WalletKeyIs
    DEF NoCall, CallRecords, CallShaped, Writes, Works, Points, UriOrNone, KeyOrNone, Copying, Reading
  <2>2. BeginWrite(c, new)
    BY <1>1 DEF Connect
  <2> HIDE DEF new
  <2>3. QED
    BY <2>1, <2>2, BeginWriteKeeps
<1>2. ASSUME NEW next \in Keys, Rotate(c, next) PROVE ConfigInv'
  <2> DEFINE new == [NoCall EXCEPT !.work = "rotate", !.at = "readMeta", !.key = WalletKey,
                                   !.next = next]
  <2>1. new \in CallRecords /\ CallShaped(new) /\ Writes(new) /\ ~new.quiet /\ ~new.barred
        /\ new.at = "readMeta" /\ new.work = "rotate"
    BY RestingCall, WalletKeyIs
    DEF NoCall, CallRecords, CallShaped, Writes, Works, Points, UriOrNone, KeyOrNone, Copying, Reading
  <2>2. BeginWrite(c, new)
    BY <1>2 DEF Rotate
  <2> HIDE DEF new
  <2>3. QED
    BY <2>1, <2>2, BeginWriteKeeps DEF Copying
<1>3. ASSUME Disconnect(c) PROVE ConfigInv'
  <2> DEFINE new == [NoCall EXCEPT !.work = "disconnect",
                                   !.at = IF adapter = Absent THEN "removeBoth" ELSE "drop"]
  <2>1. new \in CallRecords /\ CallShaped(new) /\ Writes(new) /\ ~new.quiet /\ ~new.barred
        /\ new.at \in {"removeBoth", "drop"} /\ new.work = "disconnect"
    BY RestingCall
    DEF NoCall, CallRecords, CallShaped, Writes, Works, Points, UriOrNone, KeyOrNone, Copying, Reading
  <2>2. BeginWrite(c, new)
    BY <1>3 DEF Disconnect
  <2> HIDE DEF new
  <2>3. QED
    BY <2>1, <2>2, BeginWriteKeeps DEF Copying
<1>4. QED
  BY <1>1, <1>2, <1>3

\* A use begins: the wallet cannot be locked, since there is a key.
LEMMA UseWalletKeeps ==
  ASSUME ConfigInv, NEW c \in Calls, UseWallet(c)
  PROVE  ConfigInv'
<1> DEFINE seen == IF sound THEN {stored.uri} \cup InTheMaking ELSE {}
           barred == locked /\ envKey = Absent
           r == [[NoCall EXCEPT !.quiet = sound, !.seen = seen, !.barred = barred]
                   EXCEPT !.at = "readMeta", !.key = WalletKey]
<1>1. ~Writes(call[c]) /\ WalletKey # Absent
      /\ UNCHANGED <<meta, secret, runtimeKey, envKey, adapter, stored, sound, locked>>
  BY DEF UseWallet, Running, Writes
<1>2. call' = [call EXCEPT ![c] = r]
  BY DEF UseWallet, NewUse
<1>3. barred = FALSE
  BY <1>1 DEF WalletKey, ConfigInv, UseInv
<1>4. seen \subseteq UriOrNone
  <2>1. \A d \in Calls : call[d].uri \in UriOrNone
    BY CallIs DEF CallRecords
  <2>2. stored.uri \in UriOrNone
    BY FilesAre DEF Secrets
  <2>3. QED
    BY <2>1, <2>2 DEF InTheMaking, Writers
<1>5. \A u \in Uris : sound /\ InForce(u) => u \in seen
  BY WritersWrite DEF InForce, InTheMaking
<1> HIDE DEF seen, barred
<1>6. WalletKey \in KeyOrNone /\ sound \in BOOLEAN
  BY WalletKeyIs DEF ConfigInv, ConfigTypeOK
<1>7. seen \in SUBSET UriOrNone /\ barred \in BOOLEAN
  BY <1>3, <1>4
<1>8. r \in CallRecords /\ r.at = "readMeta" /\ r.quiet = sound /\ r.seen = seen /\ r.barred = barred
      /\ r.work = NoCall.work
  BY <1>6, <1>7, RestingCall DEF CallRecords, Points
<1>9. NoCall.work = "use"
  BY DEF NoCall
<1> HIDE DEF r
<1>10. CallShaped(r) /\ ~Writes(r)
  BY <1>8, <1>9 DEF CallShaped, Writes, Reading
<1>11. QED
  BY <1>1, <1>2, <1>3, <1>5, <1>8, <1>10, FilesAre, UserGoes

\* Command c fails, or a use ends.
LEMMA FailsKeeps ==
  ASSUME ConfigInv, NEW c \in Calls, Fails(c), Writes(call[c]) => call[c].at \in Reading
  PROVE  ConfigInv'
  BY RestingCall, FilesAre, UserGoes DEF Fails

LEMMA ReadMetaKeeps ==
  ASSUME ConfigInv, NEW c \in Calls, ReadMeta(c)
  PROVE  ConfigInv'
<1>1. CASE Fails(c)
  BY <1>1, FailsKeeps DEF ReadMeta, Reading
<1>2. CASE ~Fails(c)
  <2> DEFINE r == [call[c] EXCEPT !.at = "readSecret",
                                  !.endpoint = IF call[c].work = "rotate" THEN meta ELSE Absent]
  <2>1. /\ meta \in Uris /\ call[c].at = "readMeta" /\ call' = [call EXCEPT ![c] = r]
        /\ UNCHANGED <<meta, secret, runtimeKey, envKey, adapter, stored, sound, locked>>
    BY <1>2 DEF ReadMeta
  <2>2. /\ r \in CallRecords /\ r.at = "readSecret" /\ r.work = call[c].work /\ r.alone = call[c].alone
        /\ r.quiet = call[c].quiet /\ r.seen = call[c].seen /\ ~r.barred /\ r.uri = call[c].uri
        /\ r.work = "rotate" => r.endpoint = meta
    BY <2>1, CallIs DEF CallRecords, Points, UriOrNone
  <2> HIDE DEF r
  <2>3. call[c].work \in {"rotate", "use"} /\ call[c].work \in Works
    BY <2>1, CallIs DEF CallShaped, CallRecords, Works, Copying, Reading
  <2>4. CallShaped(r)
    BY <2>2, <2>3 DEF CallShaped, Reading
  <2>5. CASE call[c].work = "rotate"
    <3>1. Writes(call[c]) /\ Writes(r)
      BY <2>1, <2>2, <2>5 DEF Writes
    <3>2. Wrote(r, meta, secret)
      BY <2>2 DEF Wrote
    <3>3. call[c].alone /\ sound => Rotates(r, meta, secret, stored)
      BY <2>1, <2>2, <3>1, WriterIs DEF Rotates, Reading, Copying
    <3>4. QED
      BY <2>1, <2>2, <2>4, <2>5, <3>1, <3>2, <3>3, CallIs, WriterIs, FilesAre, WriterGoes
  <2>6. CASE call[c].work = "use"
    <3>1. ~Writes(call[c]) /\ ~Writes(r)
      BY <2>2, <2>6 DEF Writes
    <3>2. r.quiet => sound /\ \A u \in Uris : InForce(u) => u \in r.seen
      BY <2>2 DEF ConfigInv, UseInv
    <3>3. QED
      BY <2>1, <2>2, <2>4, <3>1, <3>2, FilesAre, UserGoes
  <2>7. QED
    BY <2>3, <2>5, <2>6
<1>3. QED
  BY <1>1, <1>2

LEMMA ReadSecretKeeps ==
  ASSUME ConfigInv, NEW c \in Calls, ReadSecret(c)
  PROVE  ConfigInv'
<1>1. CASE Fails(c)
  BY <1>1, FailsKeeps DEF ReadSecret, Reading
<1>2. CASE ~Fails(c)
  <2> DEFINE at == AfterSecret(c)
             r == [call[c] EXCEPT !.at = at, !.uri = secret.uri, !.key = Absent]
  <2>1. /\ secret.uri \in Uris /\ call[c].at = "readSecret" /\ call' = [call EXCEPT ![c] = r]
        /\ adapter' \in {secret.uri, adapter}
        /\ UNCHANGED <<meta, secret, runtimeKey, envKey, stored, sound, locked>>
    BY <1>2 DEF ReadSecret, Readable
  <2>2. at = IF call[c].work = "rotate" THEN "openMeta"
             ELSE IF adapter \in {Absent, secret.uri} THEN "using" ELSE "swap"
    BY DEF AfterSecret
  <2> HIDE DEF at
  <2>3. /\ r \in CallRecords /\ r.at = at /\ r.work = call[c].work /\ r.alone = call[c].alone
        /\ r.quiet = call[c].quiet /\ r.seen = call[c].seen /\ ~r.barred /\ r.uri = secret.uri
        /\ r.endpoint = call[c].endpoint
    BY <2>1, <2>2, CallIs DEF CallRecords, Points, UriOrNone, KeyOrNone
  <2> HIDE DEF r
  <2>4. call[c].work \in {"rotate", "use"} /\ call[c].work \in Works
    BY <2>1, CallIs DEF CallShaped, CallRecords, Works, Copying, Reading
  <2>5. CallShaped(r)
    BY <2>2, <2>3, <2>4 DEF CallShaped, Reading, Copying
  <2>6. adapter' \in UriOrNone
    BY <2>1, FilesAre DEF UriOrNone
  <2>7. CASE call[c].work = "rotate"
    <3>1. Writes(call[c]) /\ Writes(r) /\ r.at = "openMeta"
      BY <2>1, <2>2, <2>3, <2>7 DEF Writes
    <3>2. Wrote(r, meta, secret)
      BY <3>1 DEF Wrote
    <3>3. call[c].alone /\ sound => Rotates(r, meta, secret, stored)
      BY <2>1, <2>3, <2>7, <3>1, WriterIs DEF Rotates, Reading, Copying
    <3>4. QED
      BY <2>1, <2>3, <2>5, <2>6, <2>7, <3>1, <3>2, <3>3, CallIs, WriterIs, FilesAre, WriterGoes
  <2>8. CASE call[c].work = "use"
    <3>1. ~Writes(call[c]) /\ ~Writes(r)
      BY <2>3, <2>8 DEF Writes
    <3>2. r.quiet => sound /\ \A u \in Uris : InForce(u) => u \in r.seen
      BY <2>3 DEF ConfigInv, UseInv
    <3>3. r.quiet => r.uri \in r.seen
      BY <2>1, <2>3, <3>2 DEF ConfigInv, UseInv
    <3>4. QED
      BY <2>1, <2>3, <2>5, <2>6, <3>1, <3>2, <3>3, FilesAre, UserGoes
  <2>9. QED
    BY <2>4, <2>7, <2>8
<1>3. QED
  BY <1>1, <1>2

LEMMA SwapKeeps ==
  ASSUME ConfigInv, NEW c \in Calls, Swap(c)
  PROVE  ConfigInv'
<1> DEFINE r == [call[c] EXCEPT !.at = "using"]
<1>1. /\ call[c].at = "swap" /\ call' = [call EXCEPT ![c] = r] /\ adapter' = call[c].uri
      /\ UNCHANGED <<meta, secret, runtimeKey, envKey, stored, sound, locked>>
  BY DEF Swap, Moves
<1>2. /\ r \in CallRecords /\ r.at = "using" /\ r.work = call[c].work
      /\ r.quiet = call[c].quiet /\ r.seen = call[c].seen /\ ~r.barred /\ r.uri = call[c].uri
  BY CallIs DEF CallRecords, Points
<1>3. call[c].work = "use"
  BY <1>1, CallIs DEF CallShaped, CallRecords, Works, Copying, Reading
<1> HIDE DEF r
<1>4. CallShaped(r) /\ ~Writes(r) /\ ~Writes(call[c])
  BY <1>2, <1>3 DEF CallShaped, Writes
<1>5. adapter' \in UriOrNone
  BY <1>1, CallIs DEF CallRecords
<1>6. /\ r.quiet => sound /\ \A u \in Uris : InForce(u) => u \in r.seen
      /\ r.uri \in Uris /\ (r.quiet => r.uri \in r.seen)
  BY <1>1, <1>2 DEF ConfigInv, UseInv
<1>7. QED
  BY <1>1, <1>2, <1>4, <1>5, <1>6, UserGoes

LEMMA FinishUseKeeps ==
  ASSUME ConfigInv, NEW c \in Calls, FinishUse(c)
  PROVE  ConfigInv'
<1>1. ~Writes(call[c])
  BY CallIs DEF FinishUse, CallShaped, Writes, CallRecords, Works, Copying, Reading
<1>2. QED
  BY <1>1, FailsKeeps DEF FinishUse

-----------------------------------------------------------------------------
(* Steps of a writer.                                                        *)

\* A writer r that was s and has only gone on to where it is.
Moved(r, s, to) ==
  /\ r.at = to /\ r.work = s.work /\ r.alone = s.alone /\ r.quiet = s.quiet /\ ~r.barred
  /\ r.uri = s.uri /\ r.endpoint = s.endpoint /\ r.next = s.next

LEMMA MoveIs ==
  ASSUME ConfigInv, NEW c \in Calls, NEW from, NEW to \in Points, Moves(c, from, to),
         CallShaped([call[c] EXCEPT !.at = to])
  PROVE  \E r \in CallRecords :
           call' = [call EXCEPT ![c] = r] /\ CallShaped(r) /\ Moved(r, call[c], to)
<1> DEFINE r == [call[c] EXCEPT !.at = to]
<1>1. call[c] \in CallRecords /\ ~call[c].barred
  BY CallIs
<1>2. r \in CallRecords /\ Moved(r, call[c], to)
  BY <1>1 DEF CallRecords, Moved
<1>3. call' = [call EXCEPT ![c] = r]
  BY DEF Moves
<1>4. QED
  BY <1>2, <1>3

LEMMA OpenMetaKeeps ==
  ASSUME ConfigInv, NEW c \in Calls, OpenMeta(c)
  PROVE  ConfigInv'
<1>1. call[c].at = "openMeta" /\ Writes(call[c])
  BY CallIs DEF OpenMeta, Moves, CallShaped, Writes, Reading
<1>2. CallShaped([call[c] EXCEPT !.at = "fillMeta"])
  BY <1>1, CallIs DEF CallShaped, CallRecords, Copying, Reading
<1>3. PICK r \in CallRecords :
        call' = [call EXCEPT ![c] = r] /\ CallShaped(r) /\ Moved(r, call[c], "fillMeta")
  BY <1>2, MoveIs DEF OpenMeta, Points
<1>4. meta' = Torn /\ UNCHANGED <<secret, runtimeKey, envKey, adapter, stored, sound, locked>>
  BY DEF OpenMeta
<1>5. Writes(r) /\ ~r.quiet
  BY <1>1, <1>3, CallIs DEF Writes, Moved
<1>6. r.alone => Wrote(r, meta', secret)
  BY <1>3, <1>4 DEF Wrote, Moved
<1>7. r.alone /\ sound => Rotates(r, meta', secret, stored)
  BY <1>1, <1>3, WriterIs DEF Rotates, Reading, Copying, Moved
<1>8. QED
  BY <1>1, <1>3, <1>4, <1>5, <1>6, <1>7, WriterIs, FilesAre, WriterGoes DEF Moved

\* What fills a file, as it was opened, removed or filled by another.
LEMMA FillsIs ==
  ASSUME NEW old, NEW torn, NEW none, NEW value, NEW x \in Fills(old, torn, none, value), torn # none
  PROVE  x \in {value, none, torn} /\ (old = torn => x = value)
<1>1. CASE old = torn
  BY <1>1, Fills(old, torn, none, value) = {value} DEF Fills
<1>2. CASE old # torn /\ old = none
  BY <1>2, Fills(old, torn, none, value) = {none} DEF Fills
<1>3. CASE old # torn /\ old # none
  BY <1>3, Fills(old, torn, none, value) = {value, torn} DEF Fills
<1>4. QED
  BY <1>1, <1>2, <1>3

LEMMA FillMetaKeeps ==
  ASSUME ConfigInv, NEW c \in Calls, FillMeta(c)
  PROVE  ConfigInv'
<1>1. call[c].at = "fillMeta" /\ Writes(call[c])
  BY CallIs DEF FillMeta, Moves, CallShaped, Writes, Reading
<1>2. CallShaped([call[c] EXCEPT !.at = "openSecret"])
  BY <1>1, CallIs DEF CallShaped, CallRecords, Copying, Reading
<1>3. PICK r \in CallRecords :
        call' = [call EXCEPT ![c] = r] /\ CallShaped(r) /\ Moved(r, call[c], "openSecret")
  BY <1>2, MoveIs DEF FillMeta, Points
<1>4. /\ meta' \in Fills(meta, Torn, Absent, call[c].endpoint)
      /\ UNCHANGED <<secret, runtimeKey, envKey, adapter, stored, sound, locked>>
  BY DEF FillMeta
<1>5. Writes(r) /\ ~r.quiet
  BY <1>1, <1>3, CallIs DEF Writes, Moved
<1>6. meta' \in UriOrNone \cup {Torn} /\ (meta = Torn => meta' = call[c].endpoint)
  <2>1. call[c].endpoint \in UriOrNone /\ Absent \in UriOrNone
    BY CallIs DEF CallRecords, UriOrNone
  <2>2. meta' \in {call[c].endpoint, Absent, Torn} /\ (meta = Torn => meta' = call[c].endpoint)
    BY <1>4, NoneApart, FillsIs
  <2>3. QED
    BY <2>1, <2>2
<1>7. r.alone => Wrote(r, meta', secret)
  BY <1>1, <1>3, <1>6, WriterIs DEF Wrote, Moved
<1>8. r.alone /\ sound => Rotates(r, meta', secret, stored)
  BY <1>1, <1>3, WriterIs DEF Rotates, Reading, Copying, Moved
<1>9. QED
  BY <1>1, <1>3, <1>4, <1>5, <1>6, <1>7, <1>8, WriterIs, FilesAre, WriterGoes DEF Moved

LEMMA OpenSecretKeeps ==
  ASSUME ConfigInv, NEW c \in Calls, OpenSecret(c)
  PROVE  ConfigInv'
<1>1. call[c].at = "openSecret" /\ Writes(call[c])
  BY CallIs DEF OpenSecret, Moves, CallShaped, Writes, Reading
<1>2. CallShaped([call[c] EXCEPT !.at = "fillSecret"])
  BY <1>1, CallIs DEF CallShaped, CallRecords, Copying, Reading
<1>3. PICK r \in CallRecords :
        call' = [call EXCEPT ![c] = r] /\ CallShaped(r) /\ Moved(r, call[c], "fillSecret")
  BY <1>2, MoveIs DEF OpenSecret, Points
<1>4. secret' = TornSecret /\ UNCHANGED <<meta, runtimeKey, envKey, adapter, stored, sound, locked>>
  BY DEF OpenSecret
<1>5. Writes(r) /\ ~r.quiet
  BY <1>1, <1>3, CallIs DEF Writes, Moved
<1>6. secret'.uri \notin Uris
  BY <1>4, NoneApart DEF TornSecret
<1>7. r.alone => Wrote(r, meta, secret')
  BY <1>1, <1>3, <1>4, WriterIs DEF Wrote, Moved
<1>8. r.alone /\ sound => Rotates(r, meta, secret', stored)
  BY <1>1, <1>3, WriterIs DEF Rotates, Reading, Copying, Moved
<1>9. QED
  BY <1>1, <1>3, <1>4, <1>5, <1>6, <1>7, <1>8, FilesAre, WriterGoes DEF Moved

\* What a writer has put into the secret file is a connection in force.
LEMMA OutputIs ==
  ASSUME ConfigInv, NEW c \in Calls, Writes(call[c]), call[c].at \in {"fillSecret", "drop"},
         call[c].at = "drop" => call[c].work = "connect"
  PROVE  /\ Written(c) = Output(call[c]) /\ Written(c) \in Secrets
         /\ Written(c).uri = call[c].uri
         /\ sound => InForce(Written(c).uri) /\ call[c].endpoint = call[c].uri
         /\ call[c].work \in {"connect", "rotate"}
         /\ call[c].work = "connect" => call[c].endpoint = call[c].uri
<1>1. Written(c) = Output(call[c]) /\ Written(c).uri = call[c].uri
  BY DEF Written, Output
<1>2. Written(c) \in Secrets
  BY <1>1, CallIs DEF Output, Secrets, CallRecords
<1>3. call[c].work \in {"connect", "rotate"} /\ (call[c].work = "connect" => call[c].endpoint = call[c].uri)
  BY CallIs DEF CallShaped, Writes, CallRecords, Works, Reading, Copying
<1>4. CASE call[c].work = "connect"
  BY <1>1, <1>2, <1>3, <1>4, WriterIs
<1>5. CASE call[c].work = "rotate"
  <2>1. sound => call[c].uri = stored.uri /\ call[c].endpoint = stored.uri
    BY <1>5, WriterIs DEF Rotates, Copying
  <2>2. QED
    BY <1>1, <1>2, <1>3, <1>5, <2>1, WriterIs
<1>6. QED
  BY <1>3, <1>4, <1>5

LEMMA FillSecretKeeps ==
  ASSUME ConfigInv, NEW c \in Calls, FillSecret(c)
  PROVE  ConfigInv'
<1>1. call[c].at = "fillSecret" /\ Writes(call[c])
  BY CallIs DEF FillSecret, CallShaped, Writes, Reading
<1>2. /\ secret' \in Fills(secret, TornSecret, NoSecret, Written(c))
      /\ UNCHANGED <<meta, runtimeKey, envKey, adapter, locked>>
  BY DEF FillSecret
<1>3. /\ secret' \in Secrets \cup {TornSecret}
      /\ secret = TornSecret => secret' = Written(c)
      /\ secret'.uri \in Uris => secret' = Written(c)
  BY <1>1, <1>2, OutputIs, NoneApart DEF Fills, TornSecret, NoSecret
<1>4. call[c].alone => secret' = Written(c) /\ meta = call[c].endpoint
  BY <1>1, <1>3, WriterIs DEF Wrote, Moved
<1>5. CASE Moves(c, "fillSecret", "drop") /\ call[c].work = "connect" /\ UNCHANGED <<stored, sound>>
  <2>1. CallShaped([call[c] EXCEPT !.at = "drop"])
    BY <1>5, CallIs DEF CallShaped, CallRecords, Copying, Reading
  <2>2. PICK r \in CallRecords :
          call' = [call EXCEPT ![c] = r] /\ CallShaped(r) /\ Moved(r, call[c], "drop")
    BY <1>5, <2>1, MoveIs DEF Points
  <2>3. Writes(r) /\ ~r.quiet
    BY <1>1, <2>2, CallIs DEF Writes, Moved
  <2>4. r.alone => Wrote(r, meta, secret')
    BY <1>1, <1>4, <2>2, OutputIs DEF Wrote, Output, Moved
  <2>5. Rotates(r, meta, secret', stored)
    BY <1>5, <2>2 DEF Rotates, Moved
  <2>6. sound /\ secret'.uri \in Uris => InForce(secret'.uri)
    BY <1>1, <1>3, OutputIs
  <2>7. QED
    BY <1>1, <1>2, <1>3, <1>5, <2>2, <2>3, <2>4, <2>5, <2>6, FilesAre, WriterGoes DEF Moved
<1>6. CASE Stored(c, Written(c))
  <2>1. call[c].alone /\ (sound \/ call[c].work \in {"connect", "disconnect"}) =>
          meta' = Written(c).uri /\ secret' = Written(c)
    BY <1>1, <1>2, <1>4, OutputIs
  <2>2. QED
    BY <1>1, <1>2, <1>3, <1>6, <2>1, OutputIs, FilesAre, WriterEnds
<1>7. QED
  BY <1>5, <1>6 DEF FillSecret

LEMMA DropKeeps ==
  ASSUME ConfigInv, NEW c \in Calls, Drop(c)
  PROVE  ConfigInv'
<1>1. call[c].at = "drop" /\ Writes(call[c]) /\ adapter' \in UriOrNone
      /\ UNCHANGED <<meta, secret, runtimeKey, envKey, locked>>
  BY CallIs DEF Drop, CallShaped, Writes, Reading, UriOrNone
<1>2. CASE call[c].work = "connect"
  <2>1. Stored(c, Written(c))
    BY <1>2 DEF Drop
  <2>2. call[c].alone => meta' = Written(c).uri /\ secret' = Written(c)
    BY <1>1, <1>2, OutputIs, WriterIs DEF Wrote, Moved
  <2>3. QED
    BY <1>1, <1>2, <2>1, <2>2, OutputIs, FilesAre, WriterEnds
<1>3. CASE call[c].work # "connect"
  <2>1. Moves(c, "drop", "removeBoth") /\ UNCHANGED <<stored, sound>>
    BY <1>3 DEF Drop
  <2>2. call[c].work = "disconnect"
    BY <1>1, <1>3, CallIs DEF CallShaped, Writes, CallRecords, Works, Reading, Copying
  <2>3. CallShaped([call[c] EXCEPT !.at = "removeBoth"])
    BY <2>2, CallIs DEF CallShaped, CallRecords
  <2>4. PICK r \in CallRecords :
          call' = [call EXCEPT ![c] = r] /\ CallShaped(r) /\ Moved(r, call[c], "removeBoth")
    BY <2>1, <2>3, MoveIs DEF Points
  <2>5. Writes(r) /\ ~r.quiet
    BY <1>1, <2>4, CallIs DEF Writes, Moved
  <2>6. Wrote(r, meta, secret) /\ Rotates(r, meta, secret, stored)
    BY <2>2, <2>4 DEF Wrote, Rotates, Moved
  <2>7. QED
    BY <1>1, <2>1, <2>2, <2>4, <2>5, <2>6, WriterIs, FilesAre, WriterGoes DEF Moved
<1>4. QED
  BY <1>2, <1>3

LEMMA RemoveFirstKeeps ==
  ASSUME ConfigInv, NEW c \in Calls, RemoveFirst(c)
  PROVE  ConfigInv'
<1>1. PICK to \in {"removeSecret", "removeMeta"} :
        /\ Moves(c, "removeBoth", to)
        /\ to = "removeSecret" => meta' = Absent /\ secret' = secret
        /\ to = "removeMeta" => secret' = NoSecret /\ meta' = meta
        /\ UNCHANGED <<runtimeKey, envKey, adapter, stored, sound, locked>>
  BY DEF RemoveFirst
<1>2. call[c].at = "removeBoth" /\ call[c].work = "disconnect"
  BY <1>1, CallIs DEF Moves, CallShaped, CallRecords, Works, Reading, Copying
<1>3. CallShaped([call[c] EXCEPT !.at = to])
  BY <1>2, CallIs DEF CallShaped, CallRecords
<1>4. PICK r \in CallRecords :
        call' = [call EXCEPT ![c] = r] /\ CallShaped(r) /\ Moved(r, call[c], to)
  <2>1. to \in Points
    BY DEF Points
  <2>2. QED
    BY <1>1, <1>3, <2>1, MoveIs
<1>5. Writes(call[c]) /\ Writes(r) /\ ~r.quiet
  BY <1>2, <1>4, CallIs DEF Writes, Moved
<1>6. Wrote(r, meta', secret') /\ Rotates(r, meta', secret', stored)
  BY <1>1, <1>2, <1>4 DEF Wrote, Rotates, Moved
<1>7. meta' \in UriOrNone \cup {Torn} /\ secret' \in Secrets \cup {TornSecret}
  BY <1>1, FilesAre, NoneApart DEF UriOrNone
<1>8. sound /\ secret'.uri \in Uris => InForce(secret'.uri)
  BY <1>1, <1>5, WriterIs, NoneApart DEF NoSecret
<1>9. QED
  BY <1>1, <1>2, <1>4, <1>5, <1>6, <1>7, <1>8, FilesAre, WriterGoes DEF Moved

LEMMA RemoveLastKeeps ==
  ASSUME ConfigInv, NEW c \in Calls, RemoveLast(c)
  PROVE  ConfigInv'
<1>1. /\ call[c].at \in {"removeMeta", "removeSecret"} /\ Stored(c, NoSecret)
      /\ meta' = (IF call[c].at = "removeMeta" THEN Absent ELSE meta)
      /\ secret' = (IF call[c].at = "removeSecret" THEN NoSecret ELSE secret)
      /\ UNCHANGED <<runtimeKey, envKey, adapter, locked>>
  BY DEF RemoveLast
<1>2. Writes(call[c])
  BY <1>1, CallIs DEF CallShaped, Writes, Reading
<1>3. NoSecret.uri = Absent /\ NoSecret.uri \notin Uris
  BY NoneApart DEF NoSecret
<1>4. call[c].alone => meta' = NoSecret.uri /\ secret' = NoSecret
  BY <1>1, <1>2, <1>3, WriterIs DEF Wrote, Moved
<1>5. meta' \in UriOrNone \cup {Torn} /\ secret' \in Secrets \cup {TornSecret}
  BY <1>1, FilesAre, NoneApart DEF UriOrNone
<1>6. QED
  BY <1>1, <1>2, <1>3, <1>4, <1>5, FilesAre, NoneApart, WriterEnds

-----------------------------------------------------------------------------
(* The runtime key, and the process.                                         *)

\* Only the runtime key, and what was said of it last, change.
LEMMA KeyKeeps ==
  ASSUME ConfigInv, runtimeKey' \in KeyOrNone, locked' \in BOOLEAN, locked' => runtimeKey' = Absent,
         UNCHANGED <<meta, secret, envKey, adapter, call, stored, sound>>
  PROVE  ConfigInv'
<1>1. ConfigTypeOK'
  BY DEF ConfigInv, ConfigTypeOK
<1>2. WriterInv'
  BY DEF ConfigInv, WriterInv, Writers, Running
<1>3. UseInv'
  BY DEF ConfigInv, UseInv, InForce
<1>4. QED
  BY <1>1, <1>2, <1>3 DEF ConfigInv

LEMMA RestartKeeps ==
  ASSUME ConfigInv, NEW k \in EnvKeys \cup {Absent}, Restart(k)
  PROVE  ConfigInv'
<1>1. /\ envKey' = k /\ runtimeKey' = k /\ adapter' = Absent /\ locked' = FALSE
      /\ sound' = (sound /\ Writers = {}) /\ stored' = (IF sound' THEN stored ELSE NoSecret)
      /\ call' = [c \in Calls |-> NoCall] /\ UNCHANGED <<meta, secret>>
  BY DEF Restart
<1>2. k \in KeyOrNone /\ Absent \in UriOrNone
  BY WalletConfigConstants DEF KeyOrNone, UriOrNone
<1>3. \A c \in Calls : call'[c] = NoCall
  BY <1>1
<1>4. call' \in [Calls -> CallRecords]
  BY <1>1, RestingCall
<1>5. stored' \in Secrets /\ sound' \in BOOLEAN
  BY <1>1, FilesAre, NoneApart DEF ConfigInv, ConfigTypeOK
<1>6. ConfigTypeOK'
  BY <1>1, <1>2, <1>4, <1>5 DEF ConfigInv, ConfigTypeOK, CallRecords
<1>7. sound' => meta' = stored'.uri /\ secret' = stored'
  BY <1>1, WritersWrite DEF ConfigInv, WriterInv
<1>8. WriterInv'
  <2>1. \A c \in Calls : c \notin Writers'
    BY <1>3, RestingCall DEF Writers, Running
  <2>2. \A c \in Writers' : c \in Calls
    BY DEF Writers
  <2>3. QED
    BY <1>7, <2>1, <2>2 DEF WriterInv
<1>9. UseInv'
  BY <1>1, <1>3, <1>7, RestingCall DEF UseInv, InForce
<1>10. QED
  BY <1>3, <1>6, <1>8, <1>9, RestingCall DEF ConfigInv

LEMMA ConfigStep == ConfigInv /\ [ConfigNext]_configVars => ConfigInv'
<1>1. ASSUME ConfigInv, UNCHANGED configVars PROVE ConfigInv'
  BY <1>1, KeyKeeps, FilesAre DEF configVars, ConfigInv, ConfigTypeOK, UseInv
<1>2. ASSUME ConfigInv, NEW k \in Keys, Unlock(k) PROVE ConfigInv'
  BY <1>2, KeyKeeps DEF Unlock, KeyOrNone
<1>3. ASSUME ConfigInv, LockWallet PROVE ConfigInv'
  BY <1>3, KeyKeeps DEF LockWallet, KeyOrNone
<1>4. ASSUME ConfigInv, ConfigNext PROVE ConfigInv'
  BY <1>2, <1>3, <1>4, RestartKeeps, WritersBegin, UseWalletKeeps, OpenMetaKeeps, FillMetaKeeps,
     OpenSecretKeeps, FillSecretKeeps, DropKeeps, RemoveFirstKeeps, RemoveLastKeeps, ReadMetaKeeps,
     ReadSecretKeeps, SwapKeeps, FinishUseKeeps
  DEF ConfigNext
<1>5. QED
  BY <1>1, <1>4

LEMMA ConfigCorrect == ConfigSpec => []ConfigInv
<1>1. ASSUME ConfigInit PROVE ConfigInv
  <2>1. \A c \in Calls : call[c] = NoCall
    BY <1>1 DEF ConfigInit
  <2>2. call \in [Calls -> CallRecords]
    BY <1>1, RestingCall DEF ConfigInit
  <2>3. envKey \in KeyOrNone
    BY <1>1, WalletConfigConstants DEF ConfigInit, KeyOrNone
  <2>4. ConfigTypeOK
    BY <1>1, <2>2, <2>3, NoneApart DEF ConfigInit, ConfigTypeOK, CallRecords, UriOrNone
  <2>5. WriterInv
    BY <1>1, <2>1, RestingCall DEF ConfigInit, WriterInv, Writers, Running, NoSecret
  <2>6. UseInv
    BY <1>1, <2>1, RestingCall DEF ConfigInit, UseInv, InForce
  <2>7. QED
    BY <2>1, <2>4, <2>5, <2>6, RestingCall DEF ConfigInv
<1>2. QED
  BY <1>1, ConfigStep, PTL DEF ConfigSpec

\* Files, keys and commands of a wallet are in one of their states.
THEOREM ConfigTypeCorrect == ConfigSpec => []ConfigTypeOK
  BY ConfigCorrect, PTL DEF ConfigInv

\* When nobody writes, the two files are the connection that was stored last.
THEOREM ConnectionStays == ConfigSpec => []ConnectionKept
<1>1. ConfigInv => ConnectionKept
  BY WritersWrite DEF ConfigInv, WriterInv, ConnectionKept
<1>2. QED
  BY <1>1, ConfigCorrect, PTL

\* A command pays from a connection that was in force while it ran, and never
\* from a wallet that was locked when it began.
THEOREM NoneLeftIsUsed == ConfigSpec => []UsesCurrent
<1>1. ConfigInv => UsesCurrent
  BY DEF ConfigInv, UseInv, UsesCurrent
<1>2. QED
  BY <1>1, ConfigCorrect, PTL

-----------------------------------------------------------------------------
(* The identity.                                                             *)

Starter ==
  [at : Places, daemon : BOOLEAN, seed : Seeds \cup {Missing}, feed : Seeds \cup {Provisional}]

\* What a process that is at s.at has put together.
StarterShaped(s) ==
  /\ s.at \in {"off", "id", "seed"} <=> s.seed = Missing
  /\ s.at \in {"off", "id", "store"} => s.feed = Provisional
  /\ s.at \in {"seedAgain", "persist", "persisting", "serve", "up"} => s.feed \in Seeds

Draws(s) == s.at \in {"create", "fill"}

\* What process s works with agrees with the file of the seed.
Agrees(s, found) ==
  IF found \in Seeds
    THEN ~Draws(s) /\ s.feed \in {Provisional, found} /\ s.seed \in {Missing, found}
    ELSE /\ s.feed = Provisional
         /\ s.at \in {"off", "id", "seed", IF found = Missing THEN "create" ELSE "fill"}

\* So do the other file and the DIDs that were worked under.
AgreesWith(found, id, dids) ==
  IF found \in Seeds
    THEN id \in {Missing, Cut, found} /\ dids \subseteq {[noise |-> found, feed |-> found]}
    ELSE id = Missing /\ dids = {}

OneSeed ==
  ~rivals =>
    /\ \A p, q \in Starters : Draws(starter[p]) /\ Draws(starter[q]) => p = q
    /\ \A p \in Starters : Agrees(starter[p], seedFile)
    /\ AgreesWith(seedFile, idFile, workedAs)

IdentityInv == IdentityTypeOK /\ (\A p \in Starters : StarterShaped(starter[p])) /\ OneSeed

LEMMA SeedsAreNumbers == Seeds \subseteq Nat \ {0} /\ Missing \notin Seeds /\ Cut \notin Seeds /\ Provisional \notin Seeds
  BY IdentityConstants DEF Seeds, Missing, Cut, Provisional

\* A process goes from where it is to s, and neither draws a seed nor writes one.
LEMMA StarterGoes ==
  ASSUME IdentityInv, NEW p \in Starters, NEW s \in Starter, StarterShaped(s), ~Draws(s),
         starter' = [starter EXCEPT ![p] = s], UNCHANGED <<seedFile, drawn, rivals>>,
         idFile' \in Seeds \cup {Missing, Cut}, holder' \in Starters \cup {Nobody},
         workedAs' \subseteq [noise : Seeds, feed : Seeds],
         ~rivals => Agrees(s, seedFile) /\ AgreesWith(seedFile, idFile', workedAs')
  PROVE  IdentityInv'
<1>1. starter'[p] = s /\ \A q \in Starters : q # p => starter'[q] = starter[q]
  BY DEF IdentityInv, IdentityTypeOK
<1>2. IdentityTypeOK'
  BY DEF IdentityInv, IdentityTypeOK, Starter
<1>3. \A q \in Starters : StarterShaped(starter'[q])
  BY <1>1 DEF IdentityInv
<1>4. ASSUME ~rivals' PROVE OneSeed'
  <2>1. \A q \in Starters : Draws(starter'[q]) => q # p
    BY <1>1
  <2>2. \A q, r \in Starters : Draws(starter'[q]) /\ Draws(starter'[r]) => q = r
    BY <1>1, <1>4, <2>1 DEF IdentityInv, OneSeed
  <2>3. \A q \in Starters : Agrees(starter'[q], seedFile')
    BY <1>1, <1>4 DEF IdentityInv, OneSeed
  <2>4. QED
    BY <1>4, <2>2, <2>3 DEF OneSeed
<1>5. QED
  BY <1>2, <1>3, <1>4 DEF IdentityInv, OneSeed

\* What every process is, in the words the steps below need.
LEMMA StarterIs ==
  ASSUME IdentityInv, NEW p \in Starters
  PROVE  /\ starter[p] \in Starter /\ StarterShaped(starter[p])
         /\ ~rivals => Agrees(starter[p], seedFile) /\ AgreesWith(seedFile, idFile, workedAs)
         /\ seedFile \in Seeds \cup {Missing, Cut} /\ idFile \in Seeds \cup {Missing, Cut}
         /\ holder \in Starters \cup {Nobody} /\ workedAs \subseteq [noise : Seeds, feed : Seeds]
  BY DEF IdentityInv, IdentityTypeOK, OneSeed, Starter

LEMMA EndsKeeps ==
  ASSUME IdentityInv, NEW p \in Starters, Ends(p)
  PROVE  IdentityInv'
<1>1. Off \in Starter /\ StarterShaped(Off) /\ ~Draws(Off) /\ Agrees(Off, seedFile)
  BY StarterIs, SeedsAreNumbers DEF Off, Starter, StarterShaped, Draws, Agrees, Places
<1>2. QED
  BY <1>1, StarterIs, StarterGoes DEF Ends

LEMMA StartKeeps ==
  ASSUME IdentityInv, NEW p \in Starters, NEW daemon \in BOOLEAN, Start(p, daemon)
  PROVE  IdentityInv'
<1> DEFINE s == [Off EXCEPT !.at = IF daemon THEN "seed" ELSE "id", !.daemon = daemon]
<1>1. s \in Starter /\ StarterShaped(s) /\ ~Draws(s) /\ Agrees(s, seedFile)
  BY StarterIs, SeedsAreNumbers DEF Off, Starter, StarterShaped, Draws, Agrees, Places
<1>2. starter' = [starter EXCEPT ![p] = s]
      /\ UNCHANGED <<seedFile, idFile, holder, drawn, workedAs, rivals>>
  BY DEF Start
<1> HIDE DEF s
<1>3. QED
  BY <1>1, <1>2, StarterIs, StarterGoes

LEMMA ReadIdKeeps ==
  ASSUME IdentityInv, NEW p \in Starters, ReadId(p)
  PROVE  IdentityInv'
<1>1. CASE idFile = Cut /\ Ends(p)
  BY <1>1, EndsKeeps
<1>2. CASE ~(idFile = Cut /\ Ends(p))
  <2> DEFINE s == [starter[p] EXCEPT !.at = "seed",
                                     !.feed = IF idFile = Missing THEN Provisional ELSE idFile]
  <2>1. /\ starter' = [starter EXCEPT ![p] = s] /\ starter[p].at = "id" /\ idFile # Cut
        /\ UNCHANGED <<seedFile, idFile, holder, drawn, workedAs, rivals>>
    BY <1>2 DEF ReadId
  <2>2. s \in Starter /\ StarterShaped(s) /\ ~Draws(s)
    BY <2>1, StarterIs, SeedsAreNumbers DEF Starter, StarterShaped, Draws, Places
  <2>3. ~rivals => Agrees(s, seedFile)
    BY <2>1, StarterIs, SeedsAreNumbers DEF Starter, StarterShaped, Draws, Agrees, AgreesWith
  <2> HIDE DEF s
  <2>4. QED
    BY <2>1, <2>2, <2>3, StarterIs, StarterGoes
<1>3. QED
  BY <1>1, <1>2

LEMMA DrawSeedKeeps ==
  ASSUME IdentityInv, NEW p \in Starters, starter[p].at = "seed", seedFile = Missing, DrawSeed(p)
  PROVE  IdentityInv'
<1> DEFINE s == [starter[p] EXCEPT !.at = "create", !.seed = drawn + 1]
<1>1. /\ starter' = [starter EXCEPT ![p] = s] /\ drawn < MaxSeeds /\ drawn' = drawn + 1
      /\ rivals' = (rivals \/ \E q \in Starters \ {p} : starter[q].at = "create")
      /\ UNCHANGED <<seedFile, idFile, holder, workedAs>>
  BY DEF DrawSeed
<1>2. drawn' \in 0..MaxSeeds /\ drawn + 1 \in Seeds
  BY <1>1, IdentityConstants DEF Seeds, IdentityInv, IdentityTypeOK
<1>3. s \in Starter /\ StarterShaped(s) /\ s.at = "create" /\ s.feed = starter[p].feed
  BY <1>2, StarterIs, SeedsAreNumbers DEF Starter, StarterShaped, Places
<1> HIDE DEF s
<1>4. starter'[p] = s /\ \A q \in Starters : q # p => starter'[q] = starter[q]
  BY <1>1 DEF IdentityInv, IdentityTypeOK
<1>5. IdentityTypeOK'
  BY <1>1, <1>2, <1>3 DEF IdentityInv, IdentityTypeOK, Starter
<1>6. ASSUME ~rivals' PROVE OneSeed'
  <2>1. ~rivals /\ \A q \in Starters \ {p} : starter[q].at # "create"
    BY <1>1, <1>6
  <2>2. seedFile \notin Seeds
    BY SeedsAreNumbers
  <2>3. \A q \in Starters : Agrees(starter[q], seedFile)
    BY <2>1 DEF IdentityInv, OneSeed
  <2>4. \A q \in Starters : q # p => ~Draws(starter'[q])
    BY <1>4, <2>1, <2>2, <2>3 DEF Agrees, Draws
  <2>5. Agrees(s, seedFile)
    BY <1>3, <2>2, <2>3 DEF Agrees
  <2>6. QED
    BY <1>1, <1>4, <2>1, <2>3, <2>4, <2>5 DEF OneSeed, IdentityInv
<1>7. QED
  BY <1>3, <1>4, <1>5, <1>6 DEF IdentityInv, OneSeed

LEMMA ReadSeedKeeps ==
  ASSUME IdentityInv, NEW p \in Starters, ReadSeed(p)
  PROVE  IdentityInv'
<1>1. CASE seedFile = Missing /\ DrawSeed(p)
  BY <1>1, DrawSeedKeeps DEF ReadSeed
<1>2. CASE Ends(p)
  BY <1>2, EndsKeeps
<1>3. CASE seedFile \in Seeds /\ ~Ends(p)
  <2> DEFINE s == [starter[p] EXCEPT !.at = AfterSeed(p), !.seed = seedFile]
  <2>1. /\ starter' = [starter EXCEPT ![p] = s] /\ starter[p].at = "seed"
        /\ UNCHANGED <<seedFile, idFile, holder, drawn, workedAs, rivals>>
    BY <1>3, SeedsAreNumbers DEF ReadSeed
  <2>2. s \in Starter /\ StarterShaped(s) /\ ~Draws(s)
    BY <1>3, StarterIs, SeedsAreNumbers DEF Starter, StarterShaped, Draws, Places, AfterSeed
  <2>3. ~rivals => Agrees(s, seedFile)
    BY <1>3, <2>2, StarterIs DEF Starter, Agrees
  <2> HIDE DEF s
  <2>4. QED
    BY <2>1, <2>2, <2>3, StarterIs, StarterGoes
<1>4. QED
  BY <1>1, <1>2, <1>3 DEF ReadSeed

LEMMA CreateSeedFileKeeps ==
  ASSUME IdentityInv, NEW p \in Starters, CreateSeedFile(p)
  PROVE  IdentityInv'
<1> DEFINE s == [starter[p] EXCEPT !.at = "fill"]
<1>1. /\ starter' = [starter EXCEPT ![p] = s] /\ starter[p].at = "create" /\ seedFile' = Cut
      /\ UNCHANGED <<idFile, holder, drawn, workedAs, rivals>>
  BY DEF CreateSeedFile, GoesOn
<1>2. s \in Starter /\ StarterShaped(s) /\ s.at = "fill" /\ s.feed = starter[p].feed
  BY <1>1, StarterIs DEF Starter, StarterShaped, Places
<1> HIDE DEF s
<1>3. starter'[p] = s /\ \A q \in Starters : q # p => starter'[q] = starter[q]
  BY <1>1 DEF IdentityInv, IdentityTypeOK
<1>4. IdentityTypeOK'
  BY <1>1, <1>2 DEF IdentityInv, IdentityTypeOK, Starter
<1>5. ASSUME ~rivals PROVE OneSeed'
  <2>1. seedFile \notin Seeds /\ starter[p].feed = Provisional /\ Cut \notin Seeds /\ Cut # Missing
    BY <1>1, <1>5, StarterIs, SeedsAreNumbers DEF Agrees, Draws, Cut, Missing
  <2>2. \A q \in Starters : q # p => ~Draws(starter[q]) /\ Agrees(starter[q], seedFile)
    BY <1>1, <1>5 DEF IdentityInv, OneSeed, Draws
  <2>3. \A q \in Starters : q # p => Agrees(starter[q], Cut)
    BY <2>1, <2>2 DEF Agrees, Draws
  <2>4. Agrees(s, Cut) /\ AgreesWith(Cut, idFile, workedAs)
    BY <1>2, <1>5, <2>1, StarterIs DEF Agrees, AgreesWith
  <2>5. \A q, r \in Starters : Draws(starter'[q]) /\ Draws(starter'[r]) => q = r
    BY <1>3, <2>2
  <2>6. QED
    BY <1>1, <1>3, <2>3, <2>4, <2>5 DEF OneSeed
<1>6. QED
  BY <1>1, <1>2, <1>3, <1>4, <1>5 DEF IdentityInv, OneSeed

LEMMA FillSeedFileKeeps ==
  ASSUME IdentityInv, NEW p \in Starters, FillSeedFile(p)
  PROVE  IdentityInv'
<1> DEFINE s == [starter[p] EXCEPT !.at = AfterSeed(p)]
<1>1. /\ starter' = [starter EXCEPT ![p] = s] /\ starter[p].at = "fill" /\ seedFile' = starter[p].seed
      /\ UNCHANGED <<idFile, holder, drawn, workedAs, rivals>>
  BY DEF FillSeedFile, GoesOn
<1>2. seedFile' \in Seeds
  BY <1>1, StarterIs DEF Starter, StarterShaped
<1>3. s \in Starter /\ StarterShaped(s) /\ ~Draws(s) /\ s.feed = starter[p].feed /\ s.seed = seedFile'
  BY <1>1, StarterIs DEF Starter, StarterShaped, Draws, AfterSeed, Places
<1> HIDE DEF s
<1>4. starter'[p] = s /\ \A q \in Starters : q # p => starter'[q] = starter[q]
  BY <1>1 DEF IdentityInv, IdentityTypeOK
<1>5. IdentityTypeOK'
  BY <1>1, <1>2, <1>3 DEF IdentityInv, IdentityTypeOK, Starter
<1>6. ASSUME ~rivals PROVE OneSeed'
  <2>1. seedFile \notin Seeds /\ starter[p].feed = Provisional
    BY <1>1, <1>6, StarterIs DEF Agrees, Draws
  <2>2. \A q \in Starters : q # p => ~Draws(starter[q]) /\ Agrees(starter[q], seedFile) /\ StarterShaped(starter[q])
    BY <1>1, <1>6 DEF IdentityInv, OneSeed, Draws
  <2>3. \A q \in Starters : q # p => Agrees(starter[q], seedFile')
    BY <1>2, <2>1, <2>2 DEF Agrees, Draws, StarterShaped
  <2>4. Agrees(s, seedFile') /\ AgreesWith(seedFile', idFile, workedAs)
    BY <1>2, <1>3, <1>6, <2>1, StarterIs DEF Agrees, AgreesWith
  <2>5. QED
    BY <1>1, <1>3, <1>4, <2>2, <2>3, <2>4 DEF OneSeed
<1>7. QED
  BY <1>1, <1>3, <1>4, <1>5, <1>6 DEF IdentityInv, OneSeed

LEMMA OpenStoreKeeps ==
  ASSUME IdentityInv, NEW p \in Starters, OpenStore(p)
  PROVE  IdentityInv'
<1>1. CASE Ends(p)
  BY <1>1, EndsKeeps
<1>2. CASE ~Ends(p)
  <2> DEFINE s == [starter[p] EXCEPT !.at = "seedAgain", !.feed = starter[p].seed]
  <2>1. /\ starter' = [starter EXCEPT ![p] = s] /\ starter[p].at = "store" /\ holder' = p
        /\ UNCHANGED <<seedFile, idFile, drawn, workedAs, rivals>>
    BY <1>2 DEF OpenStore
  <2>2. s \in Starter /\ StarterShaped(s) /\ ~Draws(s)
    BY <2>1, StarterIs DEF Starter, StarterShaped, Draws, Places
  <2>3. ~rivals => Agrees(s, seedFile)
    BY <2>1, <2>2, StarterIs DEF Starter, Agrees, StarterShaped
  <2> HIDE DEF s
  <2>4. QED
    BY <2>1, <2>2, <2>3, StarterIs, StarterGoes
<1>3. QED
  BY <1>1, <1>2

LEMMA ReadSeedAgainKeeps ==
  ASSUME IdentityInv, NEW p \in Starters, ReadSeedAgain(p)
  PROVE  IdentityInv'
<1>1. CASE Ends(p)
  BY <1>1, EndsKeeps
<1>2. CASE ~Ends(p)
  <2> DEFINE s == [starter[p] EXCEPT !.at = "persist", !.seed = seedFile]
  <2>1. /\ starter' = [starter EXCEPT ![p] = s] /\ starter[p].at = "seedAgain" /\ seedFile \in Seeds
        /\ UNCHANGED <<seedFile, idFile, holder, drawn, workedAs, rivals>>
    BY <1>2 DEF ReadSeedAgain
  <2>2. s \in Starter /\ StarterShaped(s) /\ ~Draws(s)
    BY <2>1, StarterIs, SeedsAreNumbers DEF Starter, StarterShaped, Draws, Places
  <2>3. ~rivals => Agrees(s, seedFile)
    BY <2>1, <2>2, StarterIs DEF Starter, Agrees
  <2> HIDE DEF s
  <2>4. QED
    BY <2>1, <2>2, <2>3, StarterIs, StarterGoes
<1>3. QED
  BY <1>1, <1>2

LEMMA OpenIdFileKeeps ==
  ASSUME IdentityInv, NEW p \in Starters, OpenIdFile(p)
  PROVE  IdentityInv'
<1> DEFINE s == [starter[p] EXCEPT !.at = "persisting"]
<1>1. /\ starter' = [starter EXCEPT ![p] = s] /\ starter[p].at = "persist" /\ idFile' = Cut
      /\ UNCHANGED <<seedFile, holder, drawn, workedAs, rivals>>
  BY DEF OpenIdFile, GoesOn
<1>2. s \in Starter /\ StarterShaped(s) /\ ~Draws(s)
  BY <1>1, StarterIs DEF Starter, StarterShaped, Draws, Places
<1>3. ~rivals => Agrees(s, seedFile) /\ AgreesWith(seedFile, Cut, workedAs)
  BY <1>1, <1>2, StarterIs DEF Starter, Agrees, AgreesWith
<1> HIDE DEF s
<1>4. QED
  BY <1>1, <1>2, <1>3, StarterIs, StarterGoes

\* A process that has its seed and its feed has the one seed for both.
LEMMA DidIsOne ==
  ASSUME IdentityInv, NEW p \in Starters, starter[p].at \in {"persisting", "serve"}
  PROVE  /\ Did(p) \in [noise : Seeds, feed : Seeds]
         /\ ~rivals => /\ seedFile \in Seeds /\ starter[p].feed = seedFile
                       /\ AgreesWith(seedFile, idFile, workedAs \cup {Did(p)})
                       /\ AgreesWith(seedFile, seedFile, workedAs \cup {Did(p)})
                       /\ AgreesWith(seedFile, seedFile, workedAs)
<1>1. starter[p].seed \in Seeds /\ starter[p].feed \in Seeds
  BY StarterIs DEF Starter, StarterShaped
<1>2. ~rivals => seedFile \in Seeds
  BY StarterIs DEF Agrees
<1>3. ~rivals => starter[p].seed = seedFile /\ starter[p].feed = seedFile
  BY <1>1, <1>2, StarterIs, SeedsAreNumbers DEF Agrees
<1>4. QED
  BY <1>1, <1>2, <1>3, StarterIs DEF AgreesWith, Did

LEMMA FillIdFileKeeps ==
  ASSUME IdentityInv, NEW p \in Starters, FillIdFile(p)
  PROVE  IdentityInv'
<1> DEFINE s == [starter[p] EXCEPT !.at = IF starter[p].daemon THEN "up" ELSE "serve"]
<1>1. /\ starter' = [starter EXCEPT ![p] = s] /\ starter[p].at = "persisting"
      /\ idFile' = starter[p].feed /\ holder' \in {p, Nobody}
      /\ workedAs' \in {workedAs, workedAs \cup {Did(p)}}
      /\ UNCHANGED <<seedFile, drawn, rivals>>
  BY DEF FillIdFile, GoesOn
<1>2. s \in Starter /\ StarterShaped(s) /\ ~Draws(s)
  BY <1>1, StarterIs DEF Starter, StarterShaped, Draws, Places
<1>3. ~rivals => Agrees(s, seedFile)
  BY <1>1, <1>2, DidIsOne, StarterIs DEF Starter, Agrees
<1>4. starter[p].feed \in Seeds
  BY <1>1, StarterIs DEF StarterShaped
<1> HIDE DEF s
<1>5. ~rivals => AgreesWith(seedFile, idFile', workedAs')
  BY <1>1, DidIsOne
<1>6. workedAs' \subseteq [noise : Seeds, feed : Seeds]
  BY <1>1, DidIsOne, StarterIs
<1>7. QED
  BY <1>1, <1>2, <1>3, <1>4, <1>5, <1>6, StarterIs, StarterGoes

LEMMA ServeKeeps ==
  ASSUME IdentityInv, NEW p \in Starters, Serve(p)
  PROVE  IdentityInv'
<1>1. CASE Ends(p)
  BY <1>1, EndsKeeps
<1>2. CASE ~Ends(p)
  <2> DEFINE s == [starter[p] EXCEPT !.at = "up"]
  <2>1. /\ starter' = [starter EXCEPT ![p] = s] /\ starter[p].at = "serve" /\ holder' = p
        /\ workedAs' = workedAs \cup {Did(p)} /\ UNCHANGED <<seedFile, idFile, drawn, rivals>>
    BY <1>2 DEF Serve
  <2>2. s \in Starter /\ StarterShaped(s) /\ ~Draws(s)
    BY <2>1, StarterIs DEF Starter, StarterShaped, Draws, Places
  <2>3. ~rivals => Agrees(s, seedFile)
    BY <2>1, <2>2, DidIsOne, StarterIs DEF Starter, Agrees
  <2> HIDE DEF s
  <2>4. ~rivals => AgreesWith(seedFile, idFile', workedAs')
    BY <2>1, DidIsOne
  <2>5. workedAs' \subseteq [noise : Seeds, feed : Seeds]
    BY <2>1, DidIsOne, StarterIs
  <2>6. QED
    BY <2>1, <2>2, <2>3, <2>4, <2>5, StarterIs, StarterGoes
<1>3. QED
  BY <1>1, <1>2

LEMMA IdentityStep == IdentityInv /\ [IdentityNext]_identityVars => IdentityInv'
<1>1. ASSUME IdentityInv, UNCHANGED identityVars PROVE IdentityInv'
  BY <1>1 DEF IdentityInv, IdentityTypeOK, OneSeed, identityVars
<1>2. ASSUME IdentityInv, IdentityNext PROVE IdentityInv'
  <2>1. PICK p \in Starters :
          \/ \E daemon \in BOOLEAN : Start(p, daemon)
          \/ ReadId(p) \/ ReadSeed(p) \/ CreateSeedFile(p) \/ FillSeedFile(p) \/ OpenStore(p)
          \/ ReadSeedAgain(p) \/ OpenIdFile(p) \/ FillIdFile(p) \/ Serve(p) \/ Leave(p)
    BY <1>2 DEF IdentityNext
  <2>2. QED
    BY <1>2, <2>1, StartKeeps, ReadIdKeeps, ReadSeedKeeps, CreateSeedFileKeeps, FillSeedFileKeeps,
       OpenStoreKeeps, ReadSeedAgainKeeps, OpenIdFileKeeps, FillIdFileKeeps, ServeKeeps, EndsKeeps
    DEF Leave
<1>3. QED
  BY <1>1, <1>2

LEMMA IdentityCorrect == IdentitySpec => []IdentityInv
<1>1. ASSUME IdentityInit PROVE IdentityInv
  <2>1. Off \in Starter /\ StarterShaped(Off) /\ ~Draws(Off) /\ Agrees(Off, Missing) /\ Missing \notin Seeds
    BY SeedsAreNumbers DEF Off, Starter, StarterShaped, Draws, Agrees, Places
  <2>2. drawn \in 0..MaxSeeds
    BY <1>1, IdentityConstants DEF IdentityInit
  <2>3. starter \in [Starters -> Starter]
    BY <1>1, <2>1 DEF IdentityInit
  <2>4. IdentityTypeOK
    BY <1>1, <2>2, <2>3 DEF IdentityInit, IdentityTypeOK, Starter
  <2>5. QED
    BY <1>1, <2>1, <2>4 DEF IdentityInit, IdentityInv, OneSeed, AgreesWith
<1>2. QED
  BY <1>1, IdentityStep, PTL DEF IdentitySpec

\* Files, processes and DIDs only ever name seeds that were drawn.
THEOREM IdentityTypeCorrect == IdentitySpec => []IdentityTypeOK
  BY IdentityCorrect, PTL DEF IdentityInv

\* Whatever is killed where, a data directory has one DID, unless two first starts overlap.
THEOREM DidIsPersistent == IdentitySpec => []PersistentDid
<1>1. IdentityInv => PersistentDid
  BY DEF IdentityInv, OneSeed, AgreesWith, PersistentDid
<1>2. QED
  BY <1>1, IdentityCorrect, PTL

-----------------------------------------------------------------------------
(* Named contexts.                                                           *)

\* The active one of the contexts f is one of them.
Grounded(f) == f \in ContextFile /\ (f.active # Nothing => f.dir[f.active] # Nothing)

ShellRecords ==
  {s \in {Gone} \cup [at : {"open", "fill"}, copy : ContextFile, task : Tasks] : Grounded(s.copy)}

\* While all is calm one command runs; it writes what its task makes of the
\* contexts so far, which the file holds unless it is being written.
CalmInv ==
  calm =>
    /\ \A p, q \in Shells : shell[p].at # "gone" /\ shell[q].at # "gone" => p = q
    /\ (\A p \in Shells : shell[p].at # "fill") => contextsFile = kept
    /\ \A p \in Shells :
         /\ shell[p].at # "gone" => shell[p].copy = Changed(kept, shell[p].task)
         /\ shell[p].at = "fill" => contextsFile = NoContexts

ContextsInv == Grounded(contextsFile) /\ shell \in [Shells -> ShellRecords] /\ CalmInv

\* A task that is possible leaves the active context one of those there are.
LEMMA ChangeKeepsGround ==
  ASSUME NEW f, Grounded(f), NEW t \in Tasks, Possible(f, t)
  PROVE  Grounded(Changed(f, t))
<1>1. f.active \in Names \cup {Nothing} /\ f.dir \in [Names -> Dirs \cup {Nothing}]
      /\ t.name \in Names /\ Nothing \notin Names \cup Dirs
      /\ f = [active |-> f.active, dir |-> f.dir]
  BY ContextsConstants DEF Grounded, ContextFile, Tasks
<1>2. CASE t.task = "add"
  <2>1. t.dir \in Dirs
    BY <1>2 DEF Tasks
  <2>2. Changed(f, t) =
          [active |-> IF t.makeActive \/ f.active = Nothing THEN t.name ELSE f.active,
           dir |-> [f.dir EXCEPT ![t.name] = t.dir]]
    BY <1>2 DEF Changed
  <2>3. QED
    BY <1>1, <2>1, <2>2 DEF Grounded, ContextFile
<1>3. CASE t.task = "remove"
  <2>1. Changed(f, t) =
          [active |-> IF f.active = t.name THEN Nothing ELSE f.active,
           dir |-> [f.dir EXCEPT ![t.name] = Nothing]]
    BY <1>3 DEF Changed
  <2>2. QED
    BY <1>1, <2>1 DEF Grounded, ContextFile
<1>4. CASE t.task = "use"
  <2>1. Changed(f, t) = [f EXCEPT !.active = t.name] /\ f.dir[t.name] # Nothing
    BY <1>4 DEF Changed, Possible
  <2>2. QED
    BY <1>1, <2>1 DEF Grounded, ContextFile
<1>5. QED
  BY <1>2, <1>3, <1>4 DEF Tasks

LEMMA NoneGrounded == Grounded(NoContexts) /\ Gone \in ShellRecords
  BY DEF Grounded, NoContexts, ContextFile, Gone, ShellRecords

LEMMA RunTaskKeeps ==
  ASSUME ContextsInv, NEW p \in Shells, NEW t \in Tasks, RunTask(p, t)
  PROVE  ContextsInv'
<1> DEFINE copy == Changed(contextsFile, t)
           s == [at |-> "open", copy |-> copy, task |-> t]
<1>1. /\ shell' = [shell EXCEPT ![p] = s] /\ contextsFile' = contextsFile
      /\ shell[p].at = "gone" /\ Possible(contextsFile, t)
      /\ calm' = (calm /\ Others(p) = {}) /\ (calm' => kept' = kept)
  BY DEF RunTask, Loaded_Contexts, Calm
<1>2. Grounded(copy)
  BY <1>1, ChangeKeepsGround DEF ContextsInv
<1>3. s.at = "open" /\ s.copy = copy /\ s.task = t /\ s \in ShellRecords
  BY <1>2 DEF ShellRecords, Grounded
<1>4. ASSUME calm' PROVE CalmInv'
  <2>1. calm /\ kept' = kept /\ \A q \in Shells : shell[q].at = "gone"
    BY <1>1, <1>4 DEF Others
  <2>2. contextsFile = kept
    BY <2>1 DEF ContextsInv, CalmInv
  <2> HIDE DEF s
  <2>3. shell'[p] = s /\ \A q \in Shells : q # p => shell'[q].at = "gone"
    BY <1>1, <2>1 DEF ContextsInv
  <2>4. QED
    BY <1>1, <1>3, <2>1, <2>2, <2>3 DEF CalmInv
<1> HIDE DEF s, copy
<1>5. shell' \in [Shells -> ShellRecords]
  BY <1>1, <1>3 DEF ContextsInv
<1>6. QED
  BY <1>1, <1>4, <1>5 DEF ContextsInv, CalmInv

LEMMA OpenKeeps ==
  ASSUME ContextsInv, NEW p \in Shells, OpenContexts(p)
  PROVE  ContextsInv'
<1> DEFINE s == [shell[p] EXCEPT !.at = "fill"]
<1>1. /\ shell' = [shell EXCEPT ![p] = s] /\ shell[p].at = "open"
      /\ contextsFile' = NoContexts /\ UNCHANGED <<kept, calm>>
  BY DEF OpenContexts
<1>2. shell[p] \in [at : {"open", "fill"}, copy : ContextFile, task : Tasks] /\ Grounded(shell[p].copy)
  BY <1>1 DEF ContextsInv, ShellRecords, Gone
<1>3. s.at = "fill" /\ s.copy = shell[p].copy /\ s.task = shell[p].task /\ s \in ShellRecords
  BY <1>2 DEF ShellRecords
<1> HIDE DEF s
<1>4. shell' \in [Shells -> ShellRecords]
  BY <1>1, <1>3 DEF ContextsInv
<1>5. ASSUME calm' PROVE CalmInv'
  <2>1. shell'[p] = s /\ \A q \in Shells : q # p => shell'[q].at = "gone"
    BY <1>1, <1>5 DEF ContextsInv, CalmInv
  <2>2. shell[p].copy = Changed(kept, shell[p].task)
    BY <1>1, <1>5 DEF ContextsInv, CalmInv
  <2>3. QED
    BY <1>1, <1>3, <2>1, <2>2 DEF CalmInv
<1>6. QED
  BY <1>1, <1>4, <1>5, NoneGrounded DEF ContextsInv, CalmInv

LEMMA FillKeeps ==
  ASSUME ContextsInv, NEW p \in Shells, FillContexts(p)
  PROVE  ContextsInv'
<1>1. /\ shell[p].at = "fill" /\ shell' = [shell EXCEPT ![p] = Gone] /\ calm' = calm
      /\ contextsFile' \in {shell[p].copy, NoContexts}
      /\ contextsFile = NoContexts => contextsFile' = shell[p].copy
      /\ calm => kept' = Changed(kept, shell[p].task)
  BY DEF FillContexts
<1>2. Grounded(contextsFile') /\ shell' \in [Shells -> ShellRecords]
  BY <1>1, NoneGrounded DEF ContextsInv, ShellRecords
<1>3. ASSUME calm' PROVE CalmInv'
  <2>1. \A q \in Shells : shell'[q].at = "gone"
    BY <1>1, <1>3 DEF ContextsInv, CalmInv, Gone
  <2>2. contextsFile' = kept'
    BY <1>1, <1>3 DEF ContextsInv, CalmInv
  <2>3. QED
    BY <2>1, <2>2 DEF CalmInv
<1>4. QED
  BY <1>2, <1>3 DEF ContextsInv, CalmInv

LEMMA KillKeeps ==
  ASSUME ContextsInv, NEW p \in Shells, Kill(p)
  PROVE  ContextsInv'
<1>1. /\ shell[p].at # "gone" /\ shell' = [shell EXCEPT ![p] = Gone] /\ contextsFile' = contextsFile
      /\ calm' = (calm /\ shell[p].at # "fill") /\ (calm' => kept' = kept)
  BY DEF Kill, Calm
<1>2. shell' \in [Shells -> ShellRecords]
  BY <1>1, NoneGrounded DEF ContextsInv
<1>3. ASSUME calm' PROVE CalmInv'
  <2>1. \A q \in Shells : shell'[q].at = "gone" /\ shell[q].at # "fill"
    BY <1>1, <1>3 DEF ContextsInv, CalmInv, Gone
  <2>2. contextsFile' = kept'
    BY <1>1, <1>3, <2>1 DEF ContextsInv, CalmInv
  <2>3. QED
    BY <2>1, <2>2 DEF CalmInv
<1>4. QED
  BY <1>1, <1>2, <1>3 DEF ContextsInv, CalmInv

LEMMA ContextsStep == ContextsInv /\ [ContextsNext]_contextVars => ContextsInv'
<1>1. ASSUME ContextsInv, UNCHANGED contextVars PROVE ContextsInv'
  BY <1>1 DEF ContextsInv, CalmInv, contextVars
<1>2. QED
  BY <1>1, RunTaskKeeps, OpenKeeps, FillKeeps, KillKeeps DEF ContextsNext

LEMMA ContextsCorrect == ContextsSpec => []ContextsInv
<1>1. ContextsInit => ContextsInv
  BY NoneGrounded DEF ContextsInit, ContextsInv, CalmInv, Gone
<1>2. QED
  BY <1>1, ContextsStep, PTL DEF ContextsSpec

\* The file of the contexts never makes a context active that it does not hold.
THEOREM ContextsGrounded == ContextsSpec => []ContextsTypeOK
<1>1. ContextsInv => ContextsTypeOK
  BY DEF ContextsInv, ContextsTypeOK, ShellRecords, Grounded, Gone, NoContexts
<1>2. QED
  BY <1>1, ContextsCorrect, PTL

\* A command works in the directory its context was given last, or in none.
THEOREM DirectoryIsRight == ContextsSpec => []ResolvesRight
<1>1. ASSUME ContextsInv, calm, NEW n \in Names \cup {Nothing}
      PROVE  \/ Resolved(contextsFile, n) = Resolved(kept, n)
             \/ Resolved(contextsFile, n) = Nothing /\ \E p \in Shells : shell[p].at = "fill"
  <2>1. Resolved(NoContexts, n) = Nothing
    BY ContextsConstants DEF Resolved, NoContexts
  <2>2. QED
    BY <1>1, <2>1 DEF ContextsInv, CalmInv
<1>2. ContextsInv => ResolvesRight
  BY <1>1 DEF ResolvesRight
<1>3. QED
  BY <1>2, ContextsCorrect, PTL
=============================================================================
