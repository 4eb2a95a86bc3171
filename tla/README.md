# Emporion: a TLA+ verification project

Emporion is a peer-to-peer protocol and command line for agent commerce: agents
publish products and requests, negotiate offers and bids, found companies, agree
contracts, prove and accept milestones, settle over Lightning, and replicate what
they recorded to each other. This directory holds TLA+ models of its core, the
TLC configurations that check them on small instances, and theorems proved with
TLAPS. Paths below are relative to the repository (`src/...` is its source
directory, `docs/...` its documentation).

- [Running](#running)
- [Inventory of the system](#inventory-of-the-system)
- [Modules and the code they model](#modules-and-the-code-they-model)
- [Runs](#runs)
- [Fairness](#fairness)
- [Proofs](#proofs)
- [Where code and documentation disagree](#where-code-and-documentation-disagree)
- [What is not modelled](#what-is-not-modelled)
- [Plan](#plan)

## Running

    tlc -workers 2 -config RepoFaults.cfg MCRepository    # one run; see the table below
    tlapm RepositoryProofs.tla                             # and each other *Proofs.tla

`PROJECT.json` is the index: components, runs, the source lines each definition
stands for ("map"), the hazards and the properties that answer them, for each
property a faulty variant of a definition that violates it ("mutants"), and the
theorems. The faulty variants stand in the modules above the definition they
vary, marked `Faulty variant`, and are used by nothing else.

Deadlock is not reported in any run (`CHECK_DEADLOCK FALSE`): every model has
bounded inputs and legitimately stops when they are used up. What must not stop
is stated as a liveness property instead.

## Inventory of the system

One data directory belongs to one agent. At most one process, the daemon, has its
storage open for long; CLI commands talk to it over a local socket, or open the
storage themselves when no daemon runs.

| Component (source) | State | Operations | Talks to |
| --- | --- | --- | --- |
| Protocol repository (`src/protocol/repository.ts`) | a Hypercore per object, seven Hyperbee indexes, an in-memory snapshot | `create` (hydration), `appendEnvelope`, reads, `rebuildFromLogs` | reducers (call), storage (await) |
| Reducers (`src/protocol/{contracts,market,company,messaging,resolution,...}.ts`) | the state of each object | `apply...Event`, one per event kind | snapshot of other objects (read) |
| CLI command path (`src/cli.ts`) | none of its own | read the latest event, sign, append, announce | repository, transport |
| Deals (`src/experience/deals-store.ts`, `src/cli.ts`) | one JSON file of deal records | `deal`, `proof` and `settlement` commands | repository and wallet (calls), file |
| Wallet service (`src/wallet/service.ts`) | the active adapter | pay, invoice, poll, auto-settle | adapter (remote), ledger |
| Wallet ledger (`src/wallet/ledger.ts`) | entries and the settlement dedupe table, in memory and in one file | upsert, transition, record settlement | file |
| Wallet configuration (`src/wallet/config-store.ts`) | connection and encrypted key files, a runtime key | connect, disconnect, lock, unlock, rotate | file |
| Daemon (`src/daemon.ts`, `src/cli.ts`) | pid file, unix socket, running commands, the intervals | start, probe, proxy, stop | everything above (owns them) |
| Transport (`src/transport.ts`, `src/handshake.ts`) | sockets, topics, the session table | join, leave, connect, handshake, stop | remote peers (messages), storage replication |
| Discovery watcher (`src/cli.ts`) | how far it has seen each peer's control feed | a walk over the sessions, every two seconds | transport (sessions), remote feeds (await) |
| Wallet adapters (`src/wallet/nwc-adapter.ts`, `nostr-nwc-adapter.ts`) | requests under way | request, publish, wait, normalise | wallets over HTTP and relays |
| Agent commands (`src/cli.ts`, `src/protocol/identity.ts`, `credential-reference.ts`) | a profile, credential references | init, add and remove endpoints, attestations, feedback | repository (two appends per feedback command) |
| Space and message commands (`src/cli.ts`, `src/protocol/messaging.ts`) | none of their own | create a space, seal and append, edit | repository, key agreement (await per recipient) |
| Envelope (`src/protocol/envelope.ts`, `versioning.ts`, `shared.ts`) | none | make, canonicalise, sign, verify, dispatch | pure functions |
| Agent identity (`src/identity.ts`, `src/persistent-agent.ts`) | a seed file, an identity file | load or create, persist | files, the storage (lock) |
| DIDs and topics (`src/did.ts`, `src/topics.ts`) | none | encode, derive | pure functions |
| Context store (`src/context-store.ts`) | a file of named data directories, one of them active | add, use, remove, resolve | file |

**How they interact.** Within the daemon everything shares one event loop, so
that no two pieces of code run at once, but every `await` lets another command,
interval or socket callback in. The repository is shared by all commands; the
ledger by the commands, the poll interval and the auto-settle interval; the deals
file and the ledger file by whoever writes last. Different processes meet at the
pid file, the socket, the storage lock, and the identity and context files. Different agents meet only through
sockets, and through events that are signed, replicated and checked by the same
reducers.

**What is hard.** (1) Checks and effects separated by awaits, in the repository,
the deals commands, the probe of the daemon and the handshake. (2) Several durable
writes that belong together: log, catalog, state and views; a payment and its
ledger entry; the protocol calls of `deal start`; the two appends of a feedback
command; the two files of the daemon, of the wallet connection and of the identity. (3) Remote
effects whose answer is late or lost: wallet requests, proxied commands, hellos.
(4) Long sequences of individually legal events by parties who do not cooperate.
(5) Derived data rebuilt in another order than it was made. Every place we know of
is in `PROJECT.json`, "hazards", at its line.

**What makes each part correct.**

- Repository: nothing is indexed before it is logged, indexes
  agree with the logs when writers are done and after a rebuild, what was announced
  survives, commands end.
- Reducers: completion means proof, acceptance is final, roles are never left
  without an owner, only members speak, who is silenced stays silenced, rulings rest on what the
  case's mode demands, agreements keep their terms.
- Wallet: a pair is paid at most once, settled pairs have payments, opportunities
  get dealt with.
- Deals: records never run ahead of the steps taken, payment waits for accepted proof,
  answers are kept.
- Daemon: running commands keep their storage, "stopped" is true, a listening
  daemon can be found, shutting down ends.
- Sessions: a session is with whom it says, the table tells who is connected,
  stopping closes everything, handshakes end.
- Watcher: what counts as seen was reported, and what peers announce that nobody
  holds up is reported in the end.
- Adapters: what an answer states of the payment asked about is what is reported;
  every request ends.
- Wallet configuration: the two files are one connection, the one in use is current.
- Identity: one data directory, one DID. Contexts: a name means its directory.
- Agent commands: the profile lists exactly the active credentials.
- Messages are sealed for the members there are. Envelopes verify exactly if they
  are what was signed.

## Modules and the code they model

### ObjectLog, Repository, MCRepository

`Repository` is `ProtocolRepository` and the part of the CLI that drives it. Its
durable state is `log` (the Hypercore of each object) and `index` (the Hyperbees:
catalog, state, and the control, market, company, contract and space views); its
memory is `snapshot` and, per command, `cmd`. A command is `ReadAndSign` (look up
the latest event, sign one that names it), `Apply` or `Conflict` (the synchronous
part of `appendEnvelope`: the check that the event extends the latest one, the
reducer, the snapshot), then one action per await: `AppendToLog`, `PutIndex` once
per index in the code's order, `Announce`. `IoFailure` rejects any of the awaits,
`CrashAndRestart` loses the memory and hydrates it from the state index. The
rebuild is `RebuildBegin`, `RebuildClear` per index, `RebuildReplay` per event (or
`RebuildThrows`, when the reducer refuses), `RebuildFill`, `RebuildEnd`, with
`shadow` for the state it builds up. The rebuild begins with no command running and
none begins before it ends: `rebuildFromLogs` has no guard of its own, and the one
place that calls it (`test/protocol.test.ts:490`) runs nothing beside it. The process
may die in it; its own writes do not fail in the model.

An event stands for the state it leads to: an index entry *is* the event it was
computed from. Objects carry the relations the reducers look at (which object an
event's origin must be, and in which status), given by MCRepository from the kinds
of objects: evidence refers to a contract, contracts and agreements to an accepted
offer, messages and memberships to a space. The catalog's scan order of
`kind:id` keys is `CatalogRank`.

`ObjectLog` is the abstract specification: a history per object that only grows by
chained events, and the set of acknowledged events that are part of it.
`Repository!ImplementsObjectLog` maps history to the Hypercores and acknowledgement
to the announcement.

### Contract, Market, Company, Messaging, Resolution, MCResolution

One module per file of reducers, one action per event kind, the actor a parameter:
the reducer is all that stands between parties that may send anything. State is
the record the reducer keeps, without texts and times. `Contract` has the contract
status and the milestones; `Market` products, adverts (listings and requests),
proposals (offers and bids) and agreements, in several marketplaces; `Company` its
members' roles, its market profile and treasury records; `Messaging` spaces,
memberships and messages, with several memberships of one person, told apart as in
the code by their order in a map; `Resolution` evidence bundles, attestations and
dispute cases under the four resolution modes. Since a reducer changes only its own
object and events on one object are totally ordered (that is what Repository
shows), one event is one step. A ruling may name any verifier,
one the contract authorises (`Trusted`) or another; `ModeAllows` is what the contract's
resolution mode lets through.

### Mailing, Profile, Envelope, MCReducers

`Mailing` extends Messaging with the commands that do more than append. `mail` is
the command under way: `BeginSend` and `BeginEdit` list the members, what happens
until `AppendMessage` (sealing, one await per recipient) is `OthersGo`, the events
of other commands: spaces that are created or archived, memberships, messages that are
sent, edited and deleted, the one at hand among them. `mail.to` is whom the body is
sealed for, `mail.moved` who came or went meanwhile. `space create` is `AppendSpace`,
then `AppendOwner`; `MailFails` ends any of them anywhere.

`Profile` has the two reducers `applyAgentProfileEvent` and that of credential
references, and the agent commands over them: `BeginAgent`, a look at the profile or
the reference (`LookAtProfile`, `LookUpRef`), then per append a `ReadLatest` and the
append itself, which is refused if somebody else has appended since. `cut` remembers
the credentials that commands left half way.

`Envelope` follows one envelope: `CreateUnsigned` with its defaults and normalised
version, `SignEnvelope`, `Carry` (keys reordered, or one part damaged), `Verify`.
Hashes and signatures are ideal: a hash is the record it was made of.

MCReducers checks these modules and the reducers in one run; a behaviour follows
the objects of one module (`family`).

### WalletSettlement

`WalletService`, `WalletLedger`, the daemon's two wallet intervals and the commands
beside them. `ledger` is the document in memory, `file` the one on disk, `requests`
the remote wallet's view of what it was asked, `proc` where each of settler, poller
and commands is. A persist is `PersistOpen` (the file is truncated) and
`PersistWrite`; overlapping persists leave an older or torn document. A payment is
`Send`, then the wallet's resolution and the answer in any order (`WalletResolves`,
`Answer`, `NoAnswer`). `SettlerTick`, `SettlerStatus`, `SettlerCheck`,
`SettlerRecord`, `SettlerDone` are `runAutoSettle`, `Poll...` is `pollUpdates`.
The user locks, unlocks, connects and disconnects; the acceptances that make a
pair payable come (`Accept`, before they are logged: `AcceptLogged`) and go
(`Withdraw`). `PollTick` takes the pending invoices and payments together.

### WalletClient

The adapters, for payments (`pay`) and lookups. A request over relays is published
(`TakeRequest` by a relay, `PublishSettles` when all have answered) while the
subscription and the timer are there already; `SendAnswer`, `HearAnswer`,
`WaitingFails` (timer, closed subscription, error) come in any order, and `Finish`
joins the two. Over HTTP request and answer are one exchange. `Forms` are the ways a
wallet may write down what it knows: an amount in sats, in thousandths or none at all
(an ordinary answer to a NIP-47 payment has none), a state in a word the adapters know, in another or in
none, a preimage or time of settlement that is set, null or absent. `PaymentStatus`
and `AmountSats` are what the adapters make of it, with 0 sats for an amount that is
not stated, and `Report` makes an error of a payment that failed over HTTP. `Reading`
tells how a status was got: `misread` is a null or a word like "unpaid" that the relay
adapter takes for a settlement, `unnamed` a "pending" for want of a known word. `died`
stands for a rejection without a handler. The wallet and the relays are external.

### Deals, WalletConfig, Identity, Contexts, MCFiles

The deal, proof and settlement commands. Each `Begin...` loads the file into the
command's own copy and makes the checks of the handler; then follow its protocol
and wallet calls, one action each in the code's order (`Publish`, `Propose`,
`AcceptProposal`, `CreateAgreement`, `CreateContract`, `OpenMilestone`,
`SubmitProof`, `AcceptProof`, `CreateInvoice`, `PayInvoice`), any of which may
`Fail`; `Record` truncates the file and changes the copy, `Write` writes the whole
copy. A file that is read while it is empty or torn counts as no deals, as in the
code. The wallet may return from `PayInvoice` with the payment made or not (`paid`):
`settlement pay` does not look, and goes on to "settled" in either case. `Crash` kills whatever runs. Three history variables state promises: `told`
(the last answer about a deal), `waived` (deals for which
`--allow-early-settlement` was given), `alone` (so far no commands overlapped and
none died). A protocol call is one step, which Repository justifies. What is promised
of records is therefore about steps taken (`RecordsAreBacked`): "settled" stands for a
payment the wallet took on, pending or failed ones (`Unconfirmed`) among them.

`WalletConfig` has the two files of a connection (`meta`, `secret`), the key in
memory and in the environment, and the cached adapter. `Connect`, `Rotate` and
`Disconnect` write or remove the files one step at a time (`OpenMeta`, `FillMeta`,
`OpenSecret`, `FillSecret`, `RemoveFirst`, `RemoveLast`), a use of the wallet reads
them (`ReadMeta`, `ReadSecret`) and swaps the adapter. `stored` and `sound` say which
connection was promised, and whether a second writer or a death has spoilt that.

`Identity` is `openCliContext` and `AgentTransport.create` on a data directory, new
or not: the identity file, the seed (drawn and written if there is none), the
storage with its lock, the seed once more, the identity file. `workedAs` collects the
DIDs that commands and daemons got out of it.

`Contexts` are the processes that load the contexts file once, change their copy
and write it back, and `Resolved`, the directory a command finds.

MCFiles checks the four in one run, under the same two commands at a time.

### Daemon, Sessions, Discovery, MCNode

`Daemon` has the daemons of one data directory and the commands that look for
them. A daemon goes `Open` (the storage lock), `RemoveSocket`, `WritePid`,
`Listen`; on a stop request or signal `ShutDown`, then `Release`, `RemoveOwnPid`,
`Exit`. A command probes in the code's separate steps: `ReadPid`, `Stat`, `Status`
(or it times out), `Verdict`, and, when it takes the files for stale,
`RemoveStalePid`, `RemoveStaleSocket`. Then it spawns, waits, stops, proxies or
opens the storage itself. That only one process has the storage open is the
storage library's lock, which the model assumes. `orderly` is a history variable:
commands came one at a time, none timed out, and each daemon was started after its
predecessor had exited.

`Sessions` has the sockets of one transport: `Connect`, the own hello leaving
(`Drain`), the other's arriving (`Hear`) or not (`ReadFails`), `ShakenHands`,
`Validate`, `BeginSession` or `TrackFails`, `Close` at any time, and `stop` as
`StopBegins`, `StopSockets`, `StopSwarm`, `StopStore`. A read that fails while the
own hello is still being written rejects a promise nobody handles, which ends the
process: `running = "died"`. A DID names one Noise key and one control feed, so the
three are called by the agent they belong to; a hello may claim any of them.

`Discovery` is the watcher: a walk begins at every interval whatever the last one
does, visits the sessions in the order of the table, as the live iterator of the map
gives them (`VisitPeer`), compares lengths (`Look`), reads and reports (`GetEntry`,
which waits for the block), and notes the length after the last entry. A block that is
not JSON (`EntryFails`) and an `update` or `get` that rejects for another reason
(`FeedFails`) end the walk, with nothing noted of this peer and nothing looked at of
those after it. A walk that waits for a block may wait for ever, and be followed no
longer (`StrandWalk`). Feeds are external: they grow, and a connected peer tells of its
entries and sends them, if it does. Peers come and go, the daemon restarts.

MCNode checks the three and WalletClient in one run: each has in full what it needs
of the others, and a behaviour follows one of them.

## Runs

| Run | Module | Bounds | Distinct states | Shows |
| --- | --- | --- | --- | --- |
| RepoConcurrent | MCRepository | 3 objects, 2 commands, 3 events, 1 rebuild, no faults | 190,584 | concurrent commands and a rebuild: agreement of all projections, the refinement, termination |
| RepoFaults | MCRepository | 1 object, 2 commands, 4 events, 2 faults of 2 kinds, 1 rebuild | 956,706 | write errors and crashes at every await |
| Reducers | MCReducers | see below | 434,149 | every sequence of events on the objects of each reducer; agent and message commands that overlap; envelopes |
| WalletLive | WalletSettlement | 2 candidates, 2 requests, 2 user inputs | 270,782 | no double payment; settlement is never stuck |
| WalletRestart | WalletSettlement | 1 candidate, 1 command, 2 requests, 1 input, 1 crash | 2,198,526 | the ledger file across overlap, crash and restart |
| Files | MCFiles | deals: 2 deals, 2 commands at a time, 5 in all, 1 crash; connection: 2 URIs, 2 keys, 2 calls; identity: 2 processes, 3 seeds; contexts: 2 names, 2 directories, 2 processes | 1,634,110 | the files that commands share: deal records and the proof gate, connections, the DID, contexts |
| Node | MCNode | 2 commands at a time, 3 in all, 2 daemons, 1 failure; 2 sockets, 2 agents; 2 peers, 2 walks, 2 entries of one and 1 of the other, 1 loss, failure or bad entry; 2 requests for one invoice, 1 amount | 696,179 | daemon lifecycle; sessions; discovery; requests to the wallet |
| RepoRebuildOrder | MCRepository | a contract, its offer, 1 command | violation | the rebuild throws |
| MarketResubmitted | Market | 1 object of each kind | violation | accepted terms are replaced |
| DisputeRuledTwice | MCResolution | 1 dispute | violation | a ruling is replaced |
| WalletCrashPay | WalletSettlement | 1 candidate, 1 crash | violation | a pair is paid twice |
| WalletLostRecord | WalletSettlement | 1 candidate, 1 command | violation | the file loses a payment |

**Why these bounds are enough.** Interference in the repository is between a
command that holds a stale read and one that has overtaken it: two commands on one
object meet in every order, and three objects give an origin, an object that
depends on it and a bystander. Two faults let a fault hit what an earlier fault left
behind. In the reducers two parties and an outsider, two milestones (one that needs
proof references and one that takes a counterparty's word), two memberships of one
person and one dispute per mode are the smallest objects on which the rules differ;
the depth is not bounded, TLC visits every reachable state. Two wallet requests are
one more than a pair may have. Five deal commands are the shortest path from an
accepted proposal to a payment with nothing left out (accept, start, submit,
approve, pay), so that each step of it can be interfered with. Two calls on
the wallet, two processes on a new directory and two on the contexts file are the
least that overlap; crashes there are not bounded, a third seed lets a third start
draw one. Two
daemons are a predecessor and a successor; three commands let one start, one
disturb and one stop. Two sockets of two agents give both two sockets of one agent
and two of different ones. Two walks can overlap, over a feed that grows twice, so
that the second entry arrives during a walk for the first, beside a peer with one
entry that comes before it in the table or after it; two requests for one
invoice can get each other's answer, and its amount is one that is not whole in sats,
so that rounding shows. Two agent commands on one entry are the interference there is;
a message has a space with two memberships and two persons around it. With that one
space a message cannot be sent anew to another while it is edited; the theorem
`SealedRight` is for any number. Of the two verifiers one is trusted and one is not.
Three bounds stand in the MC modules: where commands work on a space its policy names
one owner at most (`OneOwnerByPolicy`; the reducers alone are checked with any), a
ruling names approvers in the mode that reads them (`ApproversWhereRead`), and one
peer's feed is shorter (`OneLongFeed`). `MCFiles` begins with no proposals unless there
is a root they can be to. The theorems do without all of these.

A type invariant stands in every module (`TypeOK`, `SessionsTypeOK`, ...). TLC has
checked them; the configurations leave them out, for they say little and cost time,
and where a proof needs one it is proved.

## Fairness

- `Repository!Fairness`: weak fairness of each command's own next step. Every await
  is a storage operation that resolves or rejects, and the event loop continues a
  resolved await. Users are not fair: nobody has to give a command. Rebuilds are not
  fair either; `CommandsEnd` does not depend on them.
- `WalletSettlement!Fairness`: weak fairness of the settler (a repeating interval,
  `setInterval`) and of each process that is in the middle of a call. File
  operations end, and the adapters have a timeout of their own, so that a call
  returns though the wallet does not answer. The wallet resolving a request, user
  inputs and restarts are not fair. `Settles` assumes, in its statement, that the
  pair stays payable and the wallet stays connected and unlocked.
- `DaemonFairness`: a daemon continues what it has begun and the commands it runs
  end (the two properties above). Clients are not fair: one may never give up.
- `DiscoveryFairness`: walks go on (`setInterval`, and awaits on the local store).
  Nothing is assumed of the peers: `AllIsReported` says, as its hypothesis, of whom it
  speaks. From some time on the peer is connected, its blocks are here as far as its
  feed goes and can be decoded, and so it is for every peer before it in the table
  (`Unhindered`). A peer that does not send, or an entry that is not JSON, holds up
  those after it.
- `ClientFairness`: the timer of a request fires, a relay accepts or refuses, if only
  by the timeout of the relay library, and settled promises are continued. The wallet
  need not answer.
- `SessionsFairness`: the process handles what a socket has brought it, and the
  handshake timer fires. Nothing is assumed of the other end, and nothing of the
  network that takes the own hello; `HandshakesEnd` speaks of sockets whose hello
  has been written.

## Proofs

Every safety property that a passing run checks is also a theorem, for any values of
the constants: any number of objects, agents, commands, requests, crashes. The
assumptions are the named `ASSUME`s at the top of the modules; TLC evaluates them in
every run that extends the module. Two theorems have hypotheses of their own, named
below (`Undisturbed`, `OriginsFirst`).

| Module | Theorems |
| --- | --- |
| RepositoryProofs | `LogIsAheadOfIndexes`, `TypeCorrect`, `AnnouncedStays`, `ProjectionsFollow`, `RepositoryImplements`, `RebuildsSucceed`, `ProjectionsFollowReplays` |
| ContractProofs | `TypeCorrect`, `CompletionIsProven`, `AttributionIsRight`, `AcceptedForever`, `ProofOnlyGrows`, `NoWayBackToSettlement`, `OnlyAdvances` |
| ReducerProofs | companies `CompanyTypeCorrect`, `NeverOrphaned`; market `MarketTypeCorrect`, `AgreementsStand`, `EndedStay`, `OnlyMovesOn`; messaging `SilenceLasts`, `VoicesHaveRecord`, `MessagingTypeCorrect`; commands `MailingIsMessaging`, `SealedRight`; disputes `RulingsStandUp` |
| ProfileProofs | `ListedIsActive` |
| EnvelopeProofs | `AcceptedWasSigned` |
| WalletProofs | `TypeCorrect`, `SettledWasPaid`, `DedupeIsDurable`, `PaysOnce` |
| FilesProofs | deals `RecordsStayBacked`, `ProofComesFirst`, `AnswersStay`; connection `ConfigTypeCorrect`, `ConnectionStays`, `NoneLeftIsUsed`; identity `IdentityTypeCorrect`, `DidIsPersistent`; contexts `ContextsGrounded`, `DirectoryIsRight` |
| NodeProofs | sessions `Authentic`, `TableFollows`, `StopCloses`; watcher `SeenWasReported`; adapters `ReportsHold`; daemon `DaemonTypeCorrect`, `ServedHaveStorage`, `StoppedIsStopped`, `ListenersAreNamed` |

### Repository

`LogIsAheadOfIndexes` (`WriteAhead`): every index entry and every announcement refers
to an event that is durable in its object's log. Alone it is not inductive: a command
in the middle of its index writes will put its event into the next index, and a
rebuild will put what it replayed. The inductive invariant `IInv` adds that commands
past the log append carry an event of that log (`LoggedCommands`), that commands past
the read carry an event at all (`RealEvents`), that what the rebuild holds is from the
logs (`ShadowFromLog`), and the types this needs (`Typed`). `LogsGrow` and
`InLogStable` say that what is logged stays logged; each action then has a lemma for
the conjuncts it can disturb.

`AnnouncedStays` (`AnnouncedSurvives`) needs the order of events. `Sequenced` says of
each command which numbers are below its own: its event follows one that is in the
state index, no other command has the same, it is the latest of the snapshot until it
is put in the state index, and the state index is behind the snapshot. Hence a put
never takes the state index back. It survives write errors and restarts; a rebuild
breaks it, by clearing the state index.

`ProjectionsFollow` (`ProjectionsAgree`) says that once nobody writes an object, all
projections show the end of its log. While commands run (`Follows`), an index that
does not show the end has a command that is still to put it, and a command that will
put something older has one at its heels or ahead of it with the end (`Leads`): writes
overtake nobody. During a rebuild (`Rebuilding`) the shadow snapshot is the log up to
what was replayed, and what was cleared waits for its turn (`Rebuilt`). The hypothesis
is `[]Undisturbed`: no write failed, the process did not die, no replay was rejected.
With faults the property is false (a crash between the log append and the state put
leaves the state behind the log), and a rejected replay leaves the indexes cleared
(`RepoRebuildOrder`). `RepositoryImplements` (`ImplementsObjectLog`), the refinement, is
under the same hypothesis: an append is the abstract append since the end of the log is
the predecessor the event names, an announcement is the abstract acknowledgement, and
every other step stutters. `Fresh`, that no event is in a log twice, completes it.

`RebuildsSucceed` says when the last part of the hypothesis may be dropped: if every
object comes after its origins in the catalog and its reducer takes them in any state
(`OriginsFirst`), no replay is rejected. Each log is a chain, and an object is begun
after its origins (`Chained`); when an event is replayed its predecessor has been
replayed just before, and its origins completely. Contracts
and their evidence are in such an order. Offers and contracts are not, as the run
`RepoRebuildOrder` shows, nor are spaces and what is in them ("message" and
"space-membership" sort before "space"). `ProjectionsFollowReplays` joins the two.

### Reducers and the commands over them

Most of the contract's theorems are inductive with the type invariant;
`CompletionIsProven` rests on the lemma that an accepted milestone is untouched by every
event (`AcceptedUntouched`) and on the one that only `Complete` leads to a completed
contract (`CompletionStep`). `OnlyAdvances` joins `AcceptedForever`, `ProofOnlyGrows`
and `NoWayBackToSettlement` to the property that the run checks.

- `NeverOrphaned`: a company always has an owner. Inductive with the type invariant;
  the interesting event is the revocation of one's own ownership.
- `AgreementsStand` and `EndedStay`: agreements, answered proposals and ended adverts
  stay as they were until made anew. Per event, which objects it can touch at all
  (`OthersLeaveAgreements`, `AdvertStep`, `ProposalStep`). `OnlyMovesOn` joins the two.
- `SilenceLasts`: a muted or removed membership is never active again, whoever manages
  the space.
- `VoicesHaveRecord`: whoever wrote or reacted is on record as a member. The invariant
  (`VoiceInv`) adds that the map the reducer searches holds memberships on record only,
  whichever order it is in.
- `MailingIsMessaging`: the space and message commands, with all that happens between
  their awaits, implement `MessagingSpec`, so that the two above hold of them.
  `SealedRight`: the list a command seals for stays the list of those in the space, but
  for those whose coming or going the step itself records (`MailKnown`).
- `RulingsStandUp`: rulings obey the mode and cite what is in the case.
  `OneCaseChanges` reduces every event to the one case it changes, `CaseGrows` says that
  more evidence breaks nothing.
- `ListedIsActive` (`ProfileMatchesRefs`), for any number of overlapping agent commands,
  cut short anywhere. By itself it is not inductive: a command in the middle of its two
  appends has changed one object and not the other. The invariant adds that a credential
  is recorded once, so that at most one command is about to list it and until then it is
  not listed (`OneLists`), and that one about to unlist it has revoked it
  (`UnlistsRevoked`); whoever comes last then leaves both in agreement or marks the
  credential (`Agrees`).
- `AcceptedWasSigned` (`VerifiesWhatWasSigned`): the signed value contains record and
  event id, and carrying leaves it alone or damages it (`Carried`); so what verification
  finds right for the envelope at hand is right for the one issued.

### Wallet

`WalletInv` says what the stage of each loop and command implies of the requests, the
ledger and the file: a document that is about to be written is behind the ledger
(`Follows`), as the file is; the auto-settle loop dials for a pair the ledger has not
dealt with, and records only what was paid (`Consistent`). `SettledWasPaid` and
`DedupeIsDurable` follow for any overlapping writes, crashes and restarts. `PaysOnce`
has `crashes = 0` in its statement: the run `WalletCrashPay` shows two payments after a
crash. Its argument is that a pair with a request is in the ledger or in the hands of
the one settler.

### Files

- Deals: the steps a record tells of were taken (`Holds`), and so does
  what a command has found out and not written yet (`Fits`), both stated of what they are
  judged by, so that one lemma says which changes leave them true (`HoldsStays`).
  `AnswersStay` adds that while commands come one by one, the one that runs has read what
  was told (`AloneInv`).
- Connection: what is in the two files follows from where a writer is that is alone
  (`Wrote`), a rotation reads and writes one connection while the files are sound
  (`Rotates`), and what a use has seen covers what is in force (`UseInv`).
- Identity: until a seed is in the file nobody has a feed; afterwards every process, the
  identity file and all DIDs are of that seed (`Agrees`, `AgreesWith`), and while first
  starts do not overlap one process draws (`OneSeed`).
- Contexts: a command that is alone writes what its task makes of the contexts so far,
  which the file holds unless it is being written (`CalmInv`).

### Node

- Sessions: the invariant says for each stage of a socket what it has established: past
  validation key and hello agree (`Checked`), the table names only sockets in session
  under their own agent (`Named`), a socket that goes on though it is closed closed early
  (`Lost`), and two open sockets of one agent make it shared (`Doubled`). With these, an
  entry that the close listener takes out is missed by nobody else (`Tabled`). No socket
  is accepted after they are destroyed, hence `Closed`.
- Watcher: a walk has reported all that comes before the entry it waits for
  (`Covered`), and notes the length only when it has come to it.
- Adapters: an answer that can still be heard states what its payment was while the
  request was under way (`Answered`); `StatusIsTrue` and `AmountsAreNear` say what is made
  of its fields, whichever of them it has, and `ReportIsTrue` joins them. An amount that is
  not stated is reported as 0, and the two readings `misread` and `unnamed` are excepted, in
  the property as well.
- Daemon: the storage is with the one daemon that has it open (`Held`), and a command
  that is served waits for one daemon (`Served`), which gives `ServedHaveStorage` without
  any condition. The other two hold of commands in order: one command runs and one daemon
  lives, the files tell of it as far as it has come (`Told`), only the start that waits
  for a daemon runs while one comes up (`Settled`), and each stage of a probe carries what
  was learnt so far (`Knows`).

### Only model-checked

Everything about liveness, which is out of the prover's reach: `CommandsEnd`, `Settles`,
`ShutdownEnds`, `HandshakesEnd`, `AllIsReported`, `RequestsEnd`. The properties of the
five runs that find a violation are false, and no theorem states them without a
condition that excludes the violation. Type invariants are proved where an argument
needs them, as theorems or as parts of an inductive invariant; the others were checked
by TLC.

## Where code and documentation disagree

Shown by a run:

- `RepoRebuildOrder`: the rebuild replays the objects in catalog order, contracts
  before the offers they come from, and throws after it has cleared the indexes
  (`docs/protocol-v1.md:191`).
- `MarketResubmitted`: submitting an existing offer or bid again reopens it with new
  terms, accepted or not (`src/protocol/market.ts:278`, against `:301`).
- `DisputeRuledTwice`: a ruled or closed dispute can be ruled or opened again
  (`src/protocol/resolution.ts:399`).
- `WalletCrashPay`: a crash between payment and ledger pays a pair again
  (`docs/architecture/07-testing-and-operational-notes.md:41`).
- `WalletLostRecord`: overlapping ledger writes lose a payment record
  (`docs/cli.md:564`).

Seen while modelling, and part of the models' behaviour without a run of their own:

- A crash between the log append and the state put leaves the state behind the log;
  the next event then forks the log, and a rebuild fails. A write error of the log
  leaves a state in the snapshot that no log has (`src/protocol/repository.ts:278`).
- A rebuild does not restore the control index, and restores the company index only
  in part (`src/protocol/repository.ts:376`, `docs/architecture/06...:13`).
- A retired product can be published again by unpublishing it first
  (`src/protocol/market.ts:164`); an agreement may name the same counterparty twice
  (`:367`), or rest on a withdrawn listing (`:384`).
- A milestone that was never submitted can be accepted, and by its own submitter
  (`src/protocol/contracts.ts:499`, `:281`).
- A quorum counts an attestation that is listed twice as two
  (`src/protocol/resolution.ts:303`); evidence can be added to a closed dispute.
- A removed member can be muted, and counts as a member again; a deleted message can
  be edited; anybody can archive a space or create it anew
  (`src/protocol/messaging.ts:303`, `:381`, `:215`).
- An invoice named by two events is paid once for each (`src/wallet/ledger.ts:173`);
  a payment that timed out is recorded as failed though the wallet may still pay it
  (`src/wallet/service.ts:391`); locking the wallet has no effect while the key is in
  the environment (`:469`); an acceptance can be paid before it is logged.
- A death in `wallet connect` or `rotate` leaves the old connection's name with the
  new one's secret, or a torn file; one in `disconnect` leaves one of the two files
  (`src/wallet/config-store.ts:162`). A rotate that overlaps a disconnect brings the
  connection back. After a rotate through the daemon the old key is still the
  runtime key, and the wallet fails until it is unlocked with the new one
  (`src/wallet/service.ts:152`).
- A request that fails while it is still being published, or after every relay has
  refused it, rejects a promise that nobody awaits
  (`src/wallet/nostr-nwc-adapter.ts:372`).
- Over relays a `settled_at` or `preimage` that is null, and a state like "unpaid" or
  "incomplete", count as a payment that succeeded (`src/wallet/nostr-nwc-adapter.ts:283`,
  `:291`); a payment whose state an adapter does not know counts as pending. An answer
  without an amount is taken for one of 0 sats (`:217`, `src/wallet/nwc-adapter.ts:192`),
  and so it stands in the ledger.
- `settlement pay` records "settled" whatever the wallet reports of the payment
  (`src/cli.ts:2950`): a pending one, or over relays a failed one, is settled too, and
  nothing corrects the record later.
- A ruling in the hybrid mode may come from a verifier nobody authorised
  (`src/protocol/resolution.ts:309`; the deterministic mode refuses it, `:293`).
- A seed file torn by a death stays an error for good; a torn identity file stops
  every command, until a daemon is started, which does not read it but writes it anew
  (`src/identity.ts:45`). Of two first starts at once one can work under a seed that
  is not the one on disk.
- A feedback command that is cut short between its two appends leaves the profile and
  the credential in disagreement; so does a removal that had looked for the
  credential before another command recorded it (`src/cli.ts:836`).
- A message is sealed for the members listed before it; who joined or left until it
  is appended is not taken into account, and a removed sender can still edit
  (`src/cli.ts:2088`). A `space create` that fails half way leaves a space without
  members.
- A walk of the watcher that waits for a block that does not come waits for ever, and
  one that meets an entry that is not JSON ends (`src/cli.ts:3508`, `:3564`); neither
  comes to the peers after it. As nothing is noted of that peer, every later walk stops
  there too, as long as it stays connected.
- Overlapping deal commands lose records; an early invoice lets a later plain
  payment pass the gate; a deal can be paid twice; a `deal start` that fails half way
  leaves an agreement and a contract without a deal.
- Probes that overlap with a daemon that is starting, or that time out on a slow
  one, remove its files; so does the last step of its predecessor. The daemon then
  runs unseen.
- An agent that connects twice disappears from the session table when its older
  socket closes; a socket that closes while its feeds are opened stays in it for
  good; a hello that is not read while the own one is still being written ends the
  process.

The properties over these parts say exactly which cases they leave out
(`alone`, `orderly`, `sound`, `calm`, `rivals`, `cut`, `moved`, `closedEarly`,
`shared`), so that they show what does hold.

## What is not modelled

- Pure functions of one value: hashing, signatures, DID and topic derivation, key
  encryption, the record that is announced (`src/protocol/dissemination.ts`). The
  models use what they provide: event ids are unique, a signature fits one record and
  key, a DID determines a key, a box opens for whom it was made.
- The Holepunch libraries: Hypercore, Hyperbee, Hyperswarm and their replication,
  beyond awaits that can fail, the storage lock, and `destroy` closing sockets.
- Remote Lightning wallets and relays, beyond carrying out a request whether or not
  the answer arrives.
- Write errors of the ledger file and of the deals file, and of a rebuild (crashes are
  modelled). Commands beside a rebuild: nothing calls it while any run.
- The fees of a payment, and what becomes of a pending one after `settlement pay`.
- Commands whose client has hung up, after the hang-up (Daemon).
- Topics: the daemon joins them one after the other when it starts and leaves them
  when it stops, so that two joins never overlap in this program; `suspend` and
  `resume` are called by nothing. `src/storage.ts` beyond the awaits that can fail: it
  is a cache of open feeds.
- The adapters' requests for invoices, which go the way of payments, and the reading
  of URIs and of the many names a wallet may give its fields.
- Several wallet commands in processes of their own on one data directory without a
  daemon: each would have a ledger and a runtime key for itself.
- An object that is created anew in another marketplace, in the repository's indexes.
- The size of a hello, which lists every local feed and has a limit of 256 KiB
  (`src/handshake.ts:176`).
- Argument parsing, help, output, logging, the demo script.

## Plan

In order of importance; 1 to 8 and 10 are done.

1. `ObjectLog`, `Repository`, `MCRepository`, `RepositoryProofs`: what everything
   else rests on.
2. `Contract`, then `Market`, `Company`, `Messaging`, `Resolution`, composed by
   `MCReducers`; `ContractProofs`, `ReducerProofs`.
3. `WalletSettlement`: money.
4. `Deals`: composes protocol calls and payments.
5. `Daemon`, `Sessions`, composed by `MCNode`.
6. `WalletConfig`, `Identity`, `Contexts`, with `Deals` in `MCFiles`; `Discovery` and
   `WalletClient` in `MCNode`.
7. `Profile`, `Envelope`, `Mailing` in `MCReducers`.
8. `ProfileProofs`, `NodeProofs`, `EnvelopeProofs`.
9. Objects that move between marketplaces in `Repository`; requests for invoices in
   `WalletClient`.
10. Proofs: the refinement of `ObjectLog` and what the projections show
   (`RepositoryProofs`), `WalletProofs`, `FilesProofs`, the daemon in `NodeProofs`, voices
   and sealed messages in `ReducerProofs`.
11. Proofs: how far a rebuild goes when a replay is rejected, and what write errors leave
   of `Follows`; the wallet's `OneAttempt` across crashes that fall outside of a payment.
