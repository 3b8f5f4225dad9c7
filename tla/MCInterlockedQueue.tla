------------------------- MODULE MCInterlockedQueue -------------------------
(***************************************************************************)
(* InterlockedQueue for TLC.  Memory addresses are compared for equality   *)
(* only, so nodes may be permuted; so may threads that only pop.           *)
(***************************************************************************)
EXTENDS InterlockedQueue, TLC

Symmetric == Permutations(Nodes) \cup Permutations(Poppers \ Pushers)
=============================================================================
