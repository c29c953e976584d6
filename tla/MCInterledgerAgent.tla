------------------------- MODULE MCInterledgerAgent -------------------------
(***************************************************************************)
(* Instances of InterledgerAgent: its constants are numbers and sets that  *)
(* the configurations give directly.                                       *)
(***************************************************************************)
EXTENDS InterledgerAgent
=============================================================================
