---- MODULE MCKvList ----
EXTENDS KvList, TLC
CONSTANTS p, q, n1, n2, n3
Symmetric == Permutations(Threads) \cup Permutations(Nodes)
====
