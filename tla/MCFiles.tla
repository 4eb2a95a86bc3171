------------------------------ MODULE MCFiles ------------------------------
(***************************************************************************)
(* The files that commands share without a lock, checked together by TLC:  *)
(* the deals, the connection of the wallet, the identity, the contexts.    *)
(* A command touches each of them for itself, so that a behaviour follows  *)
(* one of them.                                                            *)
(*                                                                         *)
(* Commands are interchangeable, and so are deal ids: no definition names  *)
(* or orders them.                                                         *)
(***************************************************************************)
EXTENDS Deals, WalletConfig, Identity, Contexts, TLC

VARIABLE family  \* the file the behaviour follows

filesVars == <<family, vars, configVars, identityVars, contextVars>>

Families == {"deals", "config", "identity", "contexts"}

\* What a behaviour does not follow begins in one way only.  A proposal that others
\* have made is one to a root they have published.
FilesInit ==
  /\ Init /\ ConfigInit /\ IdentityInit /\ ContextsInit
  /\ family \in Families
  /\ family # "deals" => roots = {} /\ \A o \in Proposals : proposal[o] = "none"
  /\ family = "deals" => (roots = {} <=> \A o \in Proposals : proposal[o] = "none")
  /\ family # "config" => envKey = Absent

FilesNext ==
  \/ family = "deals" /\ Next /\ UNCHANGED <<family, configVars, identityVars, contextVars>>
  \/ family = "config" /\ ConfigNext /\ UNCHANGED <<family, vars, identityVars, contextVars>>
  \/ family = "identity" /\ IdentityNext /\ UNCHANGED <<family, vars, configVars, contextVars>>
  \/ family = "contexts" /\ ContextsNext /\ UNCHANGED <<family, vars, configVars, identityVars>>

FilesSpec == FilesInit /\ [][FilesNext]_filesVars

\* Files, and the commands that work on them, are in one of their states.
FilesTypeOK ==
  CASE family = "deals" -> TypeOK
    [] family = "config" -> ConfigTypeOK
    [] family = "identity" -> IdentityTypeOK
    [] family = "contexts" -> ContextsTypeOK

Symmetry == Permutations(DealIds) \cup Permutations(Commands)
=============================================================================
