-------------------------------- MODULE MCSmr --------------------------------
(***************************************************************************)
(* Smr for TLC.  Threads and nodes may be permuted.                        *)
(***************************************************************************)
EXTENDS Smr, TLC

CONSTANTS p, q, n1, n2, n3

Symmetric == Permutations(Threads) \cup Permutations(Nodes)
=============================================================================
