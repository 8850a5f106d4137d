--------------------------- MODULE MCGlobalConfig ---------------------------
(***************************************************************************)
(* An instance of GlobalConfig for TLC: three keys compete for two slots.  *)
(***************************************************************************)
EXTENDS GlobalConfig, TLC

CONSTANTS deployer, ann, ben, none

MCSymmetry == Permutations({ann, ben})

=============================================================================
