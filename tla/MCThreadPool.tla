---------------------------- MODULE MCThreadPool ----------------------------
(***************************************************************************)
(* Small instances of the thread pool: one pool, at most two workers.      *)
(***************************************************************************)
EXTENDS ThreadPool, TLC

CONSTANTS w1, w2, p1, c1, c2, j1, j2, j3

MCOnePoolOf == [w \in Workers |-> p1]

Symmetry == Permutations(Workers) \cup Permutations(Jobs) \cup Permutations(Clients)
=============================================================================
