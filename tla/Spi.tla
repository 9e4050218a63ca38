-------------------------------- MODULE Spi --------------------------------
(***************************************************************************)
(* The index interface (spi.c and the files beside it): string and number  *)
(* indexes kept in the container that an environment variable names.  The  *)
(* string indexes in a hash table or a red-black tree are left out: their  *)
(* affix searches read past the end of keys stored without a terminator.   *)
(***************************************************************************)
EXTENDS Integers, Sequences, SequencesExt

CONSTANTS NULL,
  DANGLING,    \* the address of a parameter whose call is over
  MAX_PREFIX_LEN, Capacity, ShrinkAt, Strings, NumLayers, Numbers,
  SPA_SIZE_MIN, Data

VARIABLES idx,   \* what the caller's pointer to the index leads to
          ret    \* what the container's call returned or replaced

art == INSTANCE Art WITH t <- idx, Keys <- Strings, Vals <- Data
tri == INSTANCE Trie WITH trie <- idx, TrieKeys <- Strings, TrieVals <- Data
rb == INSTANCE RbTree WITH rbt <- idx, RbKeys <- Numbers, RbVals <- Data
skip == INSTANCE SkipList WITH skl <- idx, SklKeys <- Numbers, SklVals <- Data
sparse == INSTANCE SparseArray WITH spa <- idx, InitialSize <- 0, MaxSize <- 0, Positions <- Numbers

-----------------------------------------------------------------------------
(* Strings.  Anything but the names of the other containers means ART.       *)

create_trie == tri!trie_create
create_art == art!art_tree_init
create_string_index(s) == IF s = "TRIE" THEN create_trie ELSE create_art

\* The key is stored with the address of the parameter data, not with data.
insert_string_to_trie(x, key, data) ==
  tri!Inserted(tri!Inserted(x, key, DANGLING), Reverse(key), data)

insert_string_to_art(x, key, data) == art!Inserted(x, key, data).tree

insert_string(s, key, data) ==
  /\ \/ s = "TRIE" /\ idx' = insert_string_to_trie(insert_string_to_trie(idx, key, data), Reverse(key), data)
     \/ s # "TRIE" /\ idx' = insert_string_to_art(insert_string_to_art(idx, key, data), Reverse(key), data)
  /\ ret' = 0

\* The pointer handed out; past is what art_search reads behind the key.
search_string_in_trie(key) == tri!trie_find(key)
search_string_in_art(key, past) == art!art_search(key, past)
search_string(s, key, past) == IF s = "TRIE" THEN search_string_in_trie(key) ELSE search_string_in_art(key, past)

contains(str, tok) == \E i \in 0 .. Len(str) - Len(tok) : SubSeq(str, i + 1, i + Len(tok)) = tok

\* Whether the walk of the trie reaches node m before node n.
Before(m, n) ==
  \/ IsStrictPrefix(m, n)
  \/ \E i \in 1 .. Len(m) : /\ i <= Len(n) /\ m[i] < n[i]
                            /\ SubSeq(m, 1, i - 1) = SubSeq(n, 1, i - 1)

\* The string that trie_node_iterate passes with node n: behind its characters
\* those of nodes visited earlier are still in the buffer.
visited(n) ==
  LET earlier == {m \in tri!Nodes : Before(m, n) /\ Len(m) > Len(n)}
      last(j) == CHOOSE m \in earlier : /\ Len(m) >= j
                                       /\ \A l \in earlier : Len(l) >= j => l = m \/ Before(l, m)
      filled == {j \in 1 .. Max({0} \cup {Len(m) : m \in tri!Nodes}) :
                   j <= Len(n) \/ \E m \in earlier : Len(m) >= j}
  IN  [j \in filled |-> IF j <= Len(n) THEN n[j] ELSE last(j)[j]]

trie_iter_infix(infix) == {n \in tri!trie_iter_all : contains(visited(n), infix)}

search_affix_in_trie(type, affix) ==
  CASE type = "MIDDLE" -> [n \in trie_iter_infix(affix) |-> idx.value[n]]
    [] type = "PREFIX" -> [n \in DOMAIN tri!trie_iter_prefix(affix) |-> idx.value[n]]
    [] type = "SUFFIX" -> [n \in DOMAIN tri!trie_iter_prefix(Reverse(affix)) |-> idx.value[n]]
    [] OTHER -> [n \in {affix} |-> search_string_in_trie(affix)]

\* The callback for an infix gets no infix and pushes nothing, and the affix is
\* not reversed for a suffix.
search_affix_in_art(type, affix, past) ==
  LET leaves == art!art_iter_prefix(affix, past)
  IN  CASE type = "MIDDLE" -> << >>
        [] type \in {"PREFIX", "SUFFIX"} ->
             [n \in {l.key : l \in ToSet(leaves)} |-> (CHOOSE l \in ToSet(leaves) : l.key = n).val]
        [] OTHER -> [n \in {affix} |-> search_string_in_art(affix, past)]

\* The values pushed on the result list, by the entry they come from.
search_affix(s, type, affix, past) ==
  IF s = "TRIE" THEN search_affix_in_trie(type, affix) ELSE search_affix_in_art(type, affix, past)

-----------------------------------------------------------------------------
(* Numbers.  Without the name of a container the index is one for tsearch,   *)
(* whose root no call ever stores in the caller's pointer.                   *)

create_sparse_array_index == sparse!create_sparse_array
create_rbtree_number_index == rb!rbt_create
create_skiplist_index == skip!skiplist_create
create_tsearch_index == idx = NULL /\ ret = 0

create_number_index(s) ==
  \/ s = "SPARSEARRAY" /\ create_sparse_array_index
  \/ s = "SBST" /\ create_rbtree_number_index
  \/ s = "SKIPLIST" /\ create_skiplist_index
  \/ s = "" /\ create_tsearch_index

insert_number_to_sparse_array(key, data) == sparse!set_element_to_sparse_array(key, data)
insert_number_to_rbtree(key, data) == rb!rbt_add(key, data)
insert_number_to_skiplist(key, data) == skip!skiplist_insert(key, data)
insert_number_to_tsearch_index(key, data) == idx = NULL /\ UNCHANGED idx /\ ret' = -1

insert_number(s, key, data) ==
  \/ s = "SPARSEARRAY" /\ insert_number_to_sparse_array(key, data)
  \/ s = "SBST" /\ insert_number_to_rbtree(key, data)
  \/ s = "SKIPLIST" /\ insert_number_to_skiplist(key, data)
  \/ s = "" /\ insert_number_to_tsearch_index(key, data)

search_number_from_sparse_array(key) == sparse!get_element_in_sparse_array(key)
search_number_from_rbtree(key) == rb!rbt_find(key)
search_number_from_skiplist(key) == skip!skiplist_search(key)

search_number(s, key) ==
  CASE s = "SPARSEARRAY" -> search_number_from_sparse_array(key)
    [] s = "SBST" -> search_number_from_rbtree(key)
    [] s = "SKIPLIST" -> search_number_from_skiplist(key)

\* The entries whose values are pushed on the result list.
search_numeric_range_from_sparse_array(a, b) == sparse!spa_foreach_elements(a, b)
search_numeric_range_from_rbtree(a, b) == {n.key : n \in ToSet(rb!rbt_range_walk(a, b))}
search_numeric_range_from_skiplist(a, b) == ToSet(skip!skiplist_range_search(a, b))

search_numeric_range(s, a, b) ==
  CASE s = "SPARSEARRAY" -> search_numeric_range_from_sparse_array(a, b)
    [] s = "SBST" -> search_numeric_range_from_rbtree(a, b)
    [] s = "SKIPLIST" -> search_numeric_range_from_skiplist(a, b)
=============================================================================
