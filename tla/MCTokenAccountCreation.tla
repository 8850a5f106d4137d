----------------------- MODULE MCTokenAccountCreation -----------------------
(***************************************************************************)
(* An instance of TokenAccountCreation for TLC: two wallets, each with an  *)
(* address without a seed and one with a seed.                             *)
(***************************************************************************)
EXTENDS TokenAccountCreation

=============================================================================
