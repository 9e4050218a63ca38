---------------------------- MODULE MCHashTable ----------------------------
(***************************************************************************)
(* The hash table with a few threads and keys that collide before a growth *)
(* and are apart after it.                                                 *)
(***************************************************************************)
EXTENDS HashTable, TLC

CONSTANTS t1, t2

Symmetry == Permutations(Threads)
KeyItself == [k \in Keys |-> k]
PresetKeys == {<< >>, <<0>>, <<0, 1>>}
=============================================================================
