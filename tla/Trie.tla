-------------------------------- MODULE Trie --------------------------------
(***************************************************************************)
(* The trie (trie.c).  A node is the path that leads to it, so the nodes   *)
(* are a prefix-closed set of strings; a node without a value carries      *)
(* NULL.  Strings consist of characters below 128 and are not empty, since *)
(* the code indexes its children with a char and never removes the root.   *)
(***************************************************************************)
EXTENDS Integers, Sequences, FiniteSets, SequencesExt

CONSTANTS NULL, TrieKeys, TrieVals

VARIABLES trie,  \* value of every node, node_count (nothing reads count)
          ret    \* the value found or taken out, or NULL

Nodes == DOMAIN trie.value
Root == << >>
Prefixed(p) == {n \in Nodes : IsPrefix(p, n)}
Children(p) == {n \in Nodes : Len(n) = Len(p) + 1 /\ IsPrefix(p, n)}

trie_create == trie = [value |-> (Root :> NULL), node_count |-> 0] /\ ret = NULL

trie_find(key) == IF key \in Nodes THEN trie.value[key] ELSE NULL

\* trie_insert into x: the nodes still missing on the way are created.
Inserted(x, key, v) ==
  LET old == DOMAIN x.value
      new == {SubSeq(key, 1, i) : i \in 1 .. Len(key)} \ old
  IN  [value |-> [n \in old \cup new |-> IF n = key THEN v ELSE IF n \in new THEN NULL ELSE x.value[n]],
       node_count |-> x.node_count + Cardinality(new)]

trie_insert(key, v) == trie' = Inserted(trie, key, v) /\ ret' = trie_find(key)

\* A node that is there gets the value, otherwise the key is inserted.
trie_find_and_insert(key, v) ==
  /\ trie' = IF key \in Nodes THEN [trie EXCEPT !.value[key] = v] ELSE Inserted(trie, key, v)
  /\ ret' = trie_find(key)

\* Nothing is inserted when there is a node, with a value or without.
trie_find_or_insert(key, v) ==
  /\ IF key \in Nodes THEN UNCHANGED trie ELSE trie' = Inserted(trie, key, v)
  /\ ret' = trie_find(key)

\* Variant: ancestors stay.
Emptied_None(key) == {}

\* The ancestors that go with a node: from the parent up, as long as they have
\* no value and no other child.
Emptied(key) ==
  {SubSeq(key, 1, i) : i \in {j \in 1 .. Len(key) - 1 :
     \A l \in j .. Len(key) - 1 : LET a == SubSeq(key, 1, l)
                                  IN  trie.value[a] = NULL /\ Cardinality(Children(a)) <= 1}}

\* trie_node_destroy takes the whole subtree along.
trie_remove(key) ==
  LET gone == Prefixed(key) \cup Emptied(key)
  IN  /\ trie' = IF key \notin Nodes THEN trie
                 ELSE [value |-> [n \in Nodes \ gone |-> trie.value[n]],
                       node_count |-> trie.node_count - Cardinality(gone)]
      /\ ret' = trie_find(key)

\* The nodes for which the iterations call back.  The strings they are given
\* are left out.  trie_iter_prefix calls back for the prefix twice.
trie_iter_all == {n \in Nodes : trie.value[n] # NULL}
trie_iter_prefix(p) ==
  [n \in {m \in Prefixed(p) : trie.value[m] # NULL} |-> IF n = p THEN 2 ELSE 1]
=============================================================================
