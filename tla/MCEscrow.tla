------------------------------ MODULE MCEscrow ------------------------------
(***************************************************************************)
(* An instance of Escrow: offers 0 .. MaxOffers, each for any two accounts *)
(* and any amount.                                                         *)
(***************************************************************************)
EXTENDS Escrow, TLC

Symmetry == Permutations(Account)
=============================================================================
