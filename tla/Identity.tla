------------------------------ MODULE Identity ------------------------------
(***************************************************************************)
(* The identity of one data directory (identity.ts, persistent-agent.ts,   *)
(* AgentTransport.create, openCliContext): a file with the root seed, from *)
(* which the Noise key and the storage's primary key are derived, and a    *)
(* file with the public identity, of which the commands of the CLI use the *)
(* control feed's key only.  Processes start while others run, and die     *)
(* anywhere; a file being written is torn until it is.                     *)
(*                                                                         *)
(* A seed is the number of its drawing.  A DID names a Noise key and a     *)
(* control feed, each called by the seed it derives from.                  *)
(***************************************************************************)
EXTENDS Integers

CONSTANTS
  Starters,  \* processes: commands, and the daemon
  Nobody,    \* no process
  MaxSeeds   \* bound on the seeds drawn

ASSUME IdentityConstants == Nobody \notin Starters /\ MaxSeeds \in Nat

VARIABLES
  seedFile, idFile,  \* root-seed.bin; the feed agent-identity.json names
  holder,            \* the process that has the store open
  starter,           \* starter[p]: where process p is, and what it works with
  drawn,             \* seeds drawn so far
  workedAs,              \* the DIDs processes have worked under         (history)
  rivals             \* two first starts overlapped                  (history)

identityVars == <<seedFile, idFile, holder, starter, drawn, workedAs, rivals>>

Seeds == 1..MaxSeeds

\* No file; a file cut short; PROVISIONAL_CONTROL_FEED_KEY.
Missing == 0
Cut == -1
Provisional == -2

Places == {"off", "id", "seed", "create", "fill", "store", "seedAgain", "persist", "persisting", "serve", "up"}

Off == [at |-> "off", daemon |-> FALSE, seed |-> Missing, feed |-> Provisional]

IdentityInit ==
  /\ seedFile = Missing /\ idFile = Missing
  /\ holder = Nobody
  /\ starter = [p \in Starters |-> Off]
  /\ drawn = 0 /\ workedAs = {} /\ rivals = FALSE

GoesOn(p, from, to) == starter[p].at = from /\ starter' = [starter EXCEPT ![p].at = to]

\* Process p ends, by an error, by itself or killed; the store's lock goes with it.
Ends(p) ==
  /\ starter' = [starter EXCEPT ![p] = Off]
  /\ holder' = IF holder = p THEN Nobody ELSE holder
  /\ UNCHANGED <<seedFile, idFile, drawn, workedAs, rivals>>

\* A command looks at the identity file first, the daemon's transport does not.
Start(p, daemon) ==
  /\ starter[p].at = "off"
  /\ starter' = [starter EXCEPT ![p] =
       [Off EXCEPT !.at = IF daemon THEN "seed" ELSE "id", !.daemon = daemon]]
  /\ UNCHANGED <<seedFile, idFile, holder, drawn, workedAs, rivals>>

\* readPersistedAgentIdentity.
ReadId(p) ==
  /\ starter[p].at = "id"
  /\ \/ idFile = Cut /\ Ends(p)
     \/ /\ idFile # Cut
        /\ starter' = [starter EXCEPT ![p].at = "seed",
             ![p].feed = IF idFile = Missing THEN Provisional ELSE idFile]
        /\ UNCHANGED <<seedFile, idFile, holder, drawn, workedAs, rivals>>

\* Once the seed is there, a known feed makes the identity complete.
AfterSeed(p) == IF starter[p].feed = Provisional THEN "store" ELSE "serve"

DrawSeed(p) ==
  /\ drawn < MaxSeeds
  /\ drawn' = drawn + 1
  /\ starter' = [starter EXCEPT ![p].at = "create", ![p].seed = drawn + 1]
  /\ rivals' = (rivals \/ \E q \in Starters \ {p} : starter[q].at = "create")
  /\ UNCHANGED <<seedFile, idFile, holder, workedAs>>

\* Faulty variant: a seed of the wrong length is replaced.
ReadSeed_Redraws(p) ==
  /\ starter[p].at = "seed"
  /\ \/ seedFile \in {Missing, Cut} /\ DrawSeed(p)
     \/ /\ seedFile \in Seeds
        /\ starter' = [starter EXCEPT ![p].at = AfterSeed(p), ![p].seed = seedFile]
        /\ UNCHANGED <<seedFile, idFile, holder, drawn, workedAs, rivals>>

\* loadOrCreateRootSeed: a seed of the wrong length is an error for good.
ReadSeed(p) ==
  /\ starter[p].at = "seed"
  /\ \/ seedFile = Missing /\ DrawSeed(p)
     \/ seedFile = Cut /\ Ends(p)
     \/ /\ seedFile \in Seeds
        /\ starter' = [starter EXCEPT ![p].at = AfterSeed(p), ![p].seed = seedFile]
        /\ UNCHANGED <<seedFile, idFile, holder, drawn, workedAs, rivals>>

CreateSeedFile(p) ==
  /\ GoesOn(p, "create", "fill")
  /\ seedFile' = Cut
  /\ UNCHANGED <<idFile, holder, drawn, workedAs, rivals>>

FillSeedFile(p) ==
  /\ GoesOn(p, "fill", AfterSeed(p))
  /\ seedFile' = starter[p].seed
  /\ UNCHANGED <<idFile, holder, drawn, workedAs, rivals>>

\* The store has a lock; its control feed derives from the seed in memory.
OpenStore(p) ==
  /\ starter[p].at = "store"
  /\ \/ holder # Nobody /\ Ends(p)
     \/ /\ holder = Nobody
        /\ holder' = p
        /\ starter' = [starter EXCEPT ![p].at = "seedAgain", ![p].feed = starter[p].seed]
        /\ UNCHANGED <<seedFile, idFile, drawn, workedAs, rivals>>

\* The second loadIdentityMaterial, with the feed's key, reads the seed again.
ReadSeedAgain(p) ==
  /\ starter[p].at = "seedAgain"
  /\ \/ seedFile = Cut /\ Ends(p)
     \/ /\ seedFile \in Seeds
        /\ starter' = [starter EXCEPT ![p].at = "persist", ![p].seed = seedFile]
        /\ UNCHANGED <<seedFile, idFile, holder, drawn, workedAs, rivals>>

OpenIdFile(p) ==
  /\ GoesOn(p, "persist", "persisting")
  /\ idFile' = Cut
  /\ UNCHANGED <<seedFile, holder, drawn, workedAs, rivals>>

Did(p) == [noise |-> starter[p].seed, feed |-> starter[p].feed]

\* A command closes the store, to open it once more; the daemon keeps it.
FillIdFile(p) ==
  /\ GoesOn(p, "persisting", IF starter[p].daemon THEN "up" ELSE "serve")
  /\ idFile' = starter[p].feed
  /\ holder' = IF starter[p].daemon THEN p ELSE Nobody
  /\ workedAs' = IF starter[p].daemon THEN workedAs \cup {Did(p)} ELSE workedAs
  /\ UNCHANGED <<seedFile, drawn, rivals>>

\* openCliContext: the command works under the DID it has put together.
Serve(p) ==
  /\ starter[p].at = "serve"
  /\ \/ holder # Nobody /\ Ends(p)
     \/ /\ holder = Nobody
        /\ holder' = p
        /\ starter' = [starter EXCEPT ![p].at = "up"]
        /\ workedAs' = workedAs \cup {Did(p)}
        /\ UNCHANGED <<seedFile, idFile, drawn, rivals>>

Leave(p) == starter[p].at # "off" /\ Ends(p)

IdentityNext ==
  \E p \in Starters :
    \/ \E daemon \in BOOLEAN : Start(p, daemon)
    \/ ReadId(p) \/ ReadSeed(p) \/ CreateSeedFile(p) \/ FillSeedFile(p) \/ OpenStore(p)
    \/ ReadSeedAgain(p) \/ OpenIdFile(p) \/ FillIdFile(p) \/ Serve(p) \/ Leave(p)

IdentitySpec == IdentityInit /\ [][IdentityNext]_identityVars

-----------------------------------------------------------------------------
(* Properties.                                                               *)

\* Files, processes and DIDs name seeds that were drawn.
IdentityTypeOK ==
  /\ drawn \in 0..MaxSeeds
  /\ seedFile \in Seeds \cup {Missing, Cut} /\ idFile \in Seeds \cup {Missing, Cut}
  /\ holder \in Starters \cup {Nobody}
  /\ starter \in [Starters ->
       [at : Places, daemon : BOOLEAN, seed : Seeds \cup {Missing},
        feed : Seeds \cup {Provisional}]]
  /\ workedAs \subseteq [noise : Seeds, feed : Seeds]
  /\ rivals \in BOOLEAN

\* The DID of a data directory is persistent: whatever was killed where, and
\* however many processes start at once, they all work under one DID, that of
\* the seed on disk and of the control feed that seed has.  The exception is
\* two first starts of which neither has seen the other's seed file.
PersistentDid ==
  rivals \/ \A d \in workedAs : d.noise = d.feed /\ d.noise = seedFile
=============================================================================
