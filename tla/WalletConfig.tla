---------------------------- MODULE WalletConfig ----------------------------
(***************************************************************************)
(* The connection of a wallet (wallet/config-store.ts, and connect,        *)
(* disconnect, rotateKey, lock, unlock and getUnlockedAdapter of           *)
(* wallet/service.ts): metadata in one file, the connection's URI          *)
(* encrypted under the wallet key in another, the key in the daemon's      *)
(* memory or environment, an adapter for the connection last used.  The    *)
(* commands of one process overlap at every await, and the process dies    *)
(* and starts again.                                                       *)
(***************************************************************************)
CONSTANTS
  Uris,    \* connections; each has an endpoint of its own
  Keys,    \* wallet keys
  EnvKeys, \* wallet keys a process may have in its environment
  Calls,   \* commands and polls that may run at once
  Absent,  \* no file, no key, no adapter, no connection
  Torn     \* a file opened for writing and not written yet

ASSUME WalletConfigConstants == EnvKeys \subseteq Keys /\ Absent # Torn /\ {Absent, Torn} \cap (Uris \cup Keys) = {}

VARIABLES
  meta, secret,     \* the two files
  runtimeKey,       \* runtimeWalletKey
  envKey,           \* EMPORION_WALLET_KEY of the process
  adapter,          \* adapterCache: the connection it is for
  call,             \* call[c]: where command c is, and what it works with
  stored,           \* the connection commands were told is stored     (history)
  sound,            \* no writer has been disturbed since              (history)
  locked            \* the last word on the runtime key was lock       (history)

configVars ==
  <<meta, secret, runtimeKey, envKey, adapter, call, stored, sound, locked>>

KeyOrNone == Keys \cup {Absent}
UriOrNone == Uris \cup {Absent}

Secrets == [uri : UriOrNone, key : KeyOrNone]
NoSecret == [uri |-> Absent, key |-> Absent]
TornSecret == [uri |-> Torn, key |-> Torn]

Works == {"connect", "disconnect", "rotate", "use"}
Points == {"off", "openMeta", "fillMeta", "openSecret", "fillSecret", "readMeta", "readSecret",
           "drop", "removeBoth", "removeMeta", "removeSecret", "swap", "using"}

\* A command decrypts with key and encrypts with next.  For a use, seen are the
\* connections in force while it runs (history), quiet says that no writer was
\* disturbed meanwhile, barred that the wallet was locked when it began; for a
\* writer, alone says that no other one ran meanwhile.
NoCall ==
  [work |-> "use", at |-> "off", key |-> Absent, next |-> Absent, endpoint |-> Absent,
   uri |-> Absent, seen |-> {}, barred |-> FALSE, quiet |-> FALSE, alone |-> FALSE]

ConfigInit ==
  /\ meta = Absent /\ secret = NoSecret
  /\ envKey \in EnvKeys \cup {Absent} /\ runtimeKey = envKey
  /\ adapter = Absent
  /\ call = [c \in Calls |-> NoCall]
  /\ stored = NoSecret /\ sound = TRUE /\ locked = FALSE

Running(c) == call[c].at # "off"
Writers == {c \in Calls : Running(c) /\ call[c].work # "use"}

\* getWalletKey.
WalletKey == IF runtimeKey # Absent THEN runtimeKey ELSE envKey

-----------------------------------------------------------------------------
(* Commands begin.                                                           *)

\* Unlocking; and a key given with any other command is made the runtime key
\* just before that begins.
Unlock(k) ==
  /\ runtimeKey' = k
  /\ locked' = FALSE
  /\ UNCHANGED <<meta, secret, envKey, adapter, call, stored, sound>>

LockWallet ==
  /\ runtimeKey' = Absent
  /\ locked' = TRUE
  /\ UNCHANGED <<meta, secret, envKey, adapter, call, stored, sound>>

\* The other calls, now that a writer begins; next to another it is disturbed.
Beside(uris) ==
  [d \in Calls |->
    [call[d] EXCEPT !.alone = FALSE,
                    !.quiet = @ /\ Writers = {},
                    !.seen = IF call[d].quiet /\ Writers = {} THEN @ \cup uris ELSE {}]]

\* The connections being made.
InTheMaking == {call[d].uri : d \in {e \in Writers : call[e].work = "connect"}}

BeginWrite(c, new) ==
  /\ ~Running(c)
  /\ sound' = (sound /\ Writers = {})
  /\ stored' = IF sound' THEN stored ELSE NoSecret
  /\ call' = [Beside(IF new.work = "connect" THEN {new.uri} ELSE {}) EXCEPT ![c] =
       [new EXCEPT !.alone = Writers = {}]]
  /\ UNCHANGED <<meta, secret, runtimeKey, envKey, adapter, locked>>

\* Without a key these fail.
Connect(c, uri) ==
  /\ WalletKey # Absent
  /\ BeginWrite(c, [NoCall EXCEPT !.work = "connect", !.at = "openMeta", !.next = WalletKey,
                                 !.uri = uri, !.endpoint = uri])

Rotate(c, next) ==
  /\ WalletKey # Absent
  /\ BeginWrite(c, [NoCall EXCEPT !.work = "rotate", !.at = "readMeta", !.key = WalletKey,
                                 !.next = next])

Disconnect(c) ==
  BeginWrite(c, [NoCall EXCEPT !.work = "disconnect",
                               !.at = IF adapter = Absent THEN "removeBoth" ELSE "drop"])

\* What the history has to say of a use that begins now.
NewUse ==
  [NoCall EXCEPT !.quiet = sound, !.seen = IF sound THEN {stored.uri} \cup InTheMaking ELSE {},
                 !.barred = locked /\ envKey = Absent]

\* Faulty variant: an adapter once made is used without a look at key and files.
UseWallet_Cached(c) ==
  /\ ~Running(c)
  /\ WalletKey # Absent \/ adapter # Absent
  /\ call' = [call EXCEPT ![c] =
       IF adapter # Absent THEN [NewUse EXCEPT !.at = "using", !.uri = adapter]
                           ELSE [NewUse EXCEPT !.at = "readMeta", !.key = WalletKey]]
  /\ UNCHANGED <<meta, secret, runtimeKey, envKey, adapter, stored, sound, locked>>

\* A payment, an invoice, or one of the daemon's loops.
UseWallet(c) ==
  /\ ~Running(c) /\ WalletKey # Absent
  /\ call' = [call EXCEPT ![c] = [NewUse EXCEPT !.at = "readMeta", !.key = WalletKey]]
  /\ UNCHANGED <<meta, secret, runtimeKey, envKey, adapter, stored, sound, locked>>

-----------------------------------------------------------------------------
(* writeConnection, clearConnection, and what follows.                       *)

Moves(c, from, to) == call[c].at = from /\ call' = [call EXCEPT ![c].at = to]

\* Command c ends and has stored s.  Connecting or disconnecting with no other
\* writer about makes the files sound again.
Stored(c, s) ==
  /\ call' = [call EXCEPT ![c] = NoCall]
  /\ sound' = (sound \/ (call[c].alone /\ call[c].work \in {"connect", "disconnect"}))
  /\ stored' = IF sound' THEN s ELSE NoSecret

\* A writer finds the file as it opened it, or removed, or filled by another.
Fills(file, torn, none, value) ==
  CASE file = torn -> {value} [] file = none -> {none} [] OTHER -> {value, torn}

OpenMeta(c) ==
  /\ Moves(c, "openMeta", "fillMeta")
  /\ meta' = Torn
  /\ UNCHANGED <<secret, runtimeKey, envKey, adapter, stored, sound, locked>>

FillMeta(c) ==
  /\ Moves(c, "fillMeta", "openSecret")
  /\ meta' \in Fills(meta, Torn, Absent, call[c].endpoint)
  /\ UNCHANGED <<secret, runtimeKey, envKey, adapter, stored, sound, locked>>

OpenSecret(c) ==
  /\ Moves(c, "openSecret", "fillSecret")
  /\ secret' = TornSecret
  /\ UNCHANGED <<meta, runtimeKey, envKey, adapter, stored, sound, locked>>

Written(c) == [uri |-> call[c].uri, key |-> call[c].next]

\* connect has an adapter to disconnect, if there is one; rotateKey leaves it,
\* and the runtime key, as they are.
FillSecret(c) ==
  /\ call[c].at = "fillSecret"
  /\ secret' \in Fills(secret, TornSecret, NoSecret, Written(c))
  /\ IF call[c].work = "connect" /\ adapter # Absent
       THEN Moves(c, "fillSecret", "drop") /\ UNCHANGED <<stored, sound>>
       ELSE Stored(c, Written(c))
  /\ UNCHANGED <<meta, runtimeKey, envKey, adapter, locked>>

\* The adapter has disconnected, whichever is in the cache by now.
Drop(c) ==
  /\ call[c].at = "drop"
  /\ adapter' = Absent
  /\ IF call[c].work = "connect" THEN Stored(c, Written(c))
                                 ELSE Moves(c, "drop", "removeBoth") /\ UNCHANGED <<stored, sound>>
  /\ UNCHANGED <<meta, secret, runtimeKey, envKey, locked>>

\* Both files are removed at once, in either order.
RemoveFirst(c) ==
  /\ \/ meta' = Absent /\ UNCHANGED secret /\ Moves(c, "removeBoth", "removeSecret")
     \/ secret' = NoSecret /\ UNCHANGED meta /\ Moves(c, "removeBoth", "removeMeta")
  /\ UNCHANGED <<runtimeKey, envKey, adapter, stored, sound, locked>>

\* Faulty variant: the secret is left where it is.
RemoveLast_KeepsSecret(c) ==
  /\ call[c].at \in {"removeMeta", "removeSecret"}
  /\ meta' = Absent /\ secret' = secret
  /\ Stored(c, NoSecret)
  /\ UNCHANGED <<runtimeKey, envKey, adapter, locked>>

RemoveLast(c) ==
  /\ call[c].at \in {"removeMeta", "removeSecret"}
  /\ meta' = IF call[c].at = "removeMeta" THEN Absent ELSE meta
  /\ secret' = IF call[c].at = "removeSecret" THEN NoSecret ELSE secret
  /\ Stored(c, NoSecret)
  /\ UNCHANGED <<runtimeKey, envKey, adapter, locked>>

-----------------------------------------------------------------------------
(* readConnection, for getUnlockedAdapter and rotateKey.                     *)

Fails(c) ==
  /\ call' = [call EXCEPT ![c] = NoCall]
  /\ UNCHANGED <<meta, secret, runtimeKey, envKey, adapter, stored, sound, locked>>

ReadMeta(c) ==
  /\ call[c].at = "readMeta"
  /\ \/ meta \notin Uris /\ Fails(c)
     \/ /\ meta \in Uris
        /\ call' = [call EXCEPT ![c].at = "readSecret",
                                ![c].endpoint = IF call[c].work = "rotate" THEN meta ELSE Absent]
        /\ UNCHANGED <<meta, secret, runtimeKey, envKey, adapter, stored, sound, locked>>

Readable(c) == secret.uri \in Uris /\ secret.key = call[c].key

\* The adapter of another connection is disconnected first.
AfterSecret(c) ==
  IF call[c].work = "rotate" THEN "openMeta"
  ELSE IF adapter \in {Absent, secret.uri} THEN "using" ELSE "swap"

ReadSecret(c) ==
  /\ call[c].at = "readSecret"
  /\ \/ ~Readable(c) /\ Fails(c)
     \/ /\ Readable(c)
        /\ call' = [call EXCEPT ![c].at = AfterSecret(c), ![c].uri = secret.uri, ![c].key = Absent]
        /\ adapter' = IF AfterSecret(c) = "using" THEN secret.uri ELSE adapter
        /\ UNCHANGED <<meta, secret, runtimeKey, envKey, stored, sound, locked>>

Swap(c) ==
  /\ Moves(c, "swap", "using")
  /\ adapter' = call[c].uri
  /\ UNCHANGED <<meta, secret, runtimeKey, envKey, stored, sound, locked>>

FinishUse(c) == call[c].at = "using" /\ Fails(c)

\* The process dies, and one with key k in its environment takes its place.
Restart(k) ==
  /\ envKey' = k /\ runtimeKey' = k
  /\ adapter' = Absent
  /\ sound' = (sound /\ Writers = {})
  /\ call' = [c \in Calls |-> NoCall]
  /\ stored' = IF sound' THEN stored ELSE NoSecret
  /\ locked' = FALSE
  /\ UNCHANGED <<meta, secret>>

ConfigNext ==
  \/ \E c \in Calls :
       \/ \E u \in Uris : Connect(c, u)
       \/ \E next \in Keys : Rotate(c, next)
       \/ UseWallet(c) \/ Disconnect(c)
       \/ OpenMeta(c) \/ FillMeta(c) \/ OpenSecret(c) \/ FillSecret(c) \/ Drop(c)
       \/ RemoveFirst(c) \/ RemoveLast(c)
       \/ ReadMeta(c) \/ ReadSecret(c) \/ Swap(c) \/ FinishUse(c)
  \/ \E k \in Keys : Unlock(k)
  \/ \E k \in EnvKeys \cup {Absent} : Restart(k)
  \/ LockWallet

ConfigSpec == ConfigInit /\ [][ConfigNext]_configVars

-----------------------------------------------------------------------------
(* Properties.                                                               *)

\* Files, keys and commands are in one of their states.
ConfigTypeOK ==
  /\ meta \in UriOrNone \cup {Torn}
  /\ secret \in Secrets \cup {TornSecret}
  /\ {runtimeKey, envKey} \subseteq KeyOrNone
  /\ adapter \in UriOrNone
  /\ call \in [Calls ->
       [work : Works, at : Points, key : KeyOrNone, next : KeyOrNone, endpoint : UriOrNone,
        uri : UriOrNone, seen : SUBSET UriOrNone, barred : BOOLEAN, quiet : BOOLEAN,
        alone : BOOLEAN]]
  /\ stored \in Secrets /\ sound \in BOOLEAN /\ locked \in BOOLEAN

\* The two files are one connection: when nobody writes, they hold what the
\* last connect, disconnect or rotate said it stored, under the key it said,
\* whatever reads and restarts there were.  Two writers at once, or a death
\* while one writes, can mix them, until somebody connects or disconnects alone.
ConnectionKept ==
  sound /\ Writers = {} => meta = stored.uri /\ secret = stored

\* Nobody pays from a wallet that was left: a command works with the adapter of
\* a connection that was in force, or being made, at some moment of its run,
\* and with none if it began while the wallet was locked and no key was in the
\* environment.
UsesCurrent ==
  \A c \in Calls : call[c].at = "using" =>
    (call[c].quiet => call[c].uri \in call[c].seen) /\ ~call[c].barred
=============================================================================
