---------------------------- MODULE MCResolution ----------------------------
(***************************************************************************)
(* Small instances of module Resolution for TLC: one contract for each     *)
(* mode of resolution, named by its mode.                                  *)
(***************************************************************************)
EXTENDS Resolution

ModeByName == [c \in Cases |-> c]
=============================================================================
