---------------------------- MODULE MCRepository ----------------------------
(***************************************************************************)
(* Small repositories for TLC.  An object is named by its kind; each group *)
(* of definitions gives some objects the relations the source has between  *)
(* their kinds.                                                            *)
(***************************************************************************)
EXTENDS Repository, TLC

CommandSymmetry == Permutations(Commands)

\* The catalog scans its "kind:id" keys in bytewise order ("-" before ":").
KindOrder ==
  <<"agreement", "company", "contract", "evidence-bundle", "message", "offer",
    "product", "space-membership", "space">>
RankByKind == [o \in Objects |-> CHOOSE i \in DOMAIN KindOrder : KindOrder[i] = o]

\* The views an object of each kind is in, besides the control view.
ScopeByKind ==
  [control  |-> Objects,
   market   |-> Objects \cap {"agreement", "offer", "product"},
   company  |-> Objects \cap {"company", "product"},
   contract |-> Objects \cap {"contract", "evidence-bundle"},
   space    |-> Objects \cap {"message", "space", "space-membership"}]

CompaniesByKind == Objects \cap {"company"}
MessagesByKind  == Objects \cap {"message"}

\* What a first event refers to: evidence its contract, a contract or an
\* agreement an accepted offer, a message or a membership its space.
OriginByKind ==
  [o \in Objects |-> Objects \cap
    CASE o = "evidence-bundle" -> {"contract"}
      [] o \in {"agreement", "contract"} -> {"offer"}
      [] o \in {"message", "space-membership"} -> {"space"}
      [] OTHER -> {}]

OriginStatusByKind ==
  [o \in Objects |->
    CASE o \in {"agreement", "contract"} -> {"closed"}
      [] o = "message" -> {"open"}
      [] OTHER -> Status]
=============================================================================
