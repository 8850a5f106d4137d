--------------------------- MODULE MCBumpAllocator ---------------------------
(***************************************************************************)
(* An instance of BumpAllocator for TLC: a heap of 12 bytes behind an      *)
(* address that is not aligned to everything, with an address space that   *)
(* ends soon after it, so that sums saturate.                              *)
(***************************************************************************)
EXTENDS BumpAllocator

=============================================================================
