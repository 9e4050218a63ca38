--------------------------- MODULE ContainerMaps ---------------------------
(***************************************************************************)
(* The sequential maps, each beside the dictionary ref it stands for.      *)
(***************************************************************************)
EXTENDS Containers

CONSTANTS DANGLING, MAX_PREFIX_LEN, Capacity4, Capacity16, Capacity48,
          MaxTreeKey, MaxAvlNodes, NumLayers, MaxSklKey, MaxElements, MaxArray

\* Strings: one is a prefix of five others, five pairs of them differ in one
\* byte only, one byte is above 127, and three share a path longer than what a
\* node stores.
ArtKeys == {<<1>>, <<1, 2>>, <<1, 3>>, <<1, 4>>, <<1, 200>>, <<1, 5>>,
            <<1, 2, 3, 4, 5, 6>>, <<1, 2, 3, 4, 5, 7>>, <<1, 2, 3, 8>>}
Absent == {<<2>>, <<1, 2, 3>>, <<1, 2, 9, 4, 5>>, <<1, 2, 3, 4, 5, 6, 6>>}
TreeKeys == 1 .. MaxTreeKey
SklKeys == 1 .. MaxSklKey
TrieKeys == {<<1>>, <<1, 1>>, <<1, 1, 1>>, <<1, 2>>, <<2, 1>>, <<2, 2, 1>>}
Positions == {0, 1, 2, 3, 5}
\* Two of the strings are each other's reverse, two are their own.
Strings == {<<1>>, <<1, 2>>, <<2, 1>>, <<1, 1, 2>>, <<1, 2, 1>>, <<2, 1, 3>>}
Letters == 0 .. 3
Affixes == UNION {{SubSeq(k, i, j) : i \in 1 .. Len(k), j \in 1 .. Len(k)} : k \in Strings} \ {<< >>}

\* Nodes of the radix tree hold fewer children than in the code, in the same
\* order: a node that shrinks fits, and does not grow again at once.
Capacity == <<Capacity4, Capacity16, Capacity48>>
ShrinkAt == [i \in 1 .. 3 |-> Capacity[i] - 1]
ASSUME MapsAssumption ==
  /\ MAX_PREFIX_LEN > 0 /\ NumLayers > 0
  /\ \A i \in 1 .. 3 : 1 < ShrinkAt[i] /\ (i < 3 => Capacity[i] < Capacity[i + 1])

art == INSTANCE Art WITH t <- s, Keys <- ArtKeys, Vals <- {1}
rb == INSTANCE RbTree WITH rbt <- s, RbKeys <- TreeKeys, RbVals <- {1, 2}
avl == INSTANCE AvlTree WITH tree <- s, AvlKeys <- TreeKeys
skip == INSTANCE SkipList WITH skl <- s, SklVals <- {1, 2}
tri == INSTANCE Trie WITH trie <- s, TrieVals <- {1, 2}
\* A sparse array with a largest size; the index of numbers has none.
sparse == INSTANCE SparseArray WITH spa <- s, SPA_SIZE_MIN <- 2, InitialSize <- 1,
            MaxSize <- MaxArray, Data <- {1, 2}
spi == INSTANCE Spi WITH idx <- s, Numbers <- Positions, SPA_SIZE_MIN <- 2, Data <- {1, 2}
\* The name of the container of an index.
Backend == [sart |-> "ART", strie |-> "TRIE", rbt |-> "SBST", skl |-> "SKIPLIST",
            spa |-> "SPARSEARRAY", tsearch |-> ""][which]
D == INSTANCE Dictionary WITH None <- NULL, dict <- ref

MapsInit ==
  /\ \/ which = "art" /\ art!art_tree_init
     \/ which \in {"rbt", "skl", "spa", "tsearch"} /\ spi!create_number_index(Backend)
     \/ which \in {"sart", "strie"} /\ spi!create_string_index(Backend)
     \/ which = "avl" /\ avl!avlt_create
     \/ which = "trie" /\ tri!trie_create
     \/ which = "array" /\ sparse!create_sparse_array
  /\ ref = << >> /\ out = ret

Art ==
  /\ which = "art"
  /\ \E k \in ArtKeys : \/ art!art_insert(k, 1) /\ D!Insert(k, 1)
                        \/ art!art_delete(k) /\ D!Delete(k)

\* One key is added with two values, so that an update replaces something.
Rbt ==
  /\ which = "rbt"
  /\ \E k \in TreeKeys, v \in {1, 2} : (v = 2 => k = 2) /\ spi!insert_number(Backend, k, v) /\ D!Insert(k, v)

\* avlt_add puts the key above a subtree that has keys on both sides of it, or
\* the key itself, and moves that subtree as a whole or not at all.
Splits(k) ==
  LET d == avl!Descend(s, k, << >>)
      inner == avl!At(s, Append(d.p, avl!Other(avl!Side(d.p))))
      keys == {x.key : x \in ToSet(avl!InOrder(inner))}
  IN  s # NULL /\ d.act = "swap" /\ ~(\A x \in keys : x < k) /\ ~(\A x \in keys : x > k)

\* There is no dictionary any more once a subtree was split: keys can be out of
\* order then, and in the tree twice.
Avl ==
  /\ which = "avl"
  /\ \E k \in TreeKeys :
       \/ /\ avl!avlt_add(k) /\ Len(avl!avlt_walk) < MaxAvlNodes
          /\ IF ref = NULL \/ Splits(k) THEN ref' = NULL /\ out' = NULL ELSE D!Insert(k, 1)
       \/ /\ avl!avlt_remove(k)
          /\ IF ref = NULL THEN UNCHANGED <<ref, out>> ELSE D!Delete(k)

\* No key below the smallest one is inserted: it would go to the tail.  Nothing
\* is said of a list whose calls wrote to freed memory.
Skl ==
  /\ which = "skl" /\ ~s.wild
  /\ \E k \in SklKeys :
       \/ skip!skiplist_remove(k) /\ D!Delete(k)
       \/ /\ ref = << >> \/ \E j \in DOMAIN ref : j <= k
          /\ \E v \in {1, 2} : (v = 2 => k = 2) /\ spi!insert_number(Backend, k, v) /\ D!Insert(k, v)

\* A key is only removed while no longer one begins with it, since they would
\* leave with it, and trie_find_or_insert is only called for a key that is there
\* or begins no other, since it inserts nothing where there is a node.
Tri ==
  /\ which = "trie"
  /\ \E k \in TrieKeys :
       \/ D!WithPrefix(k) \subseteq {k} /\ tri!trie_remove(k) /\ D!Delete(k)
       \/ \E v \in {1, 2} :
            /\ v = 2 => k = <<1>>
            /\ \/ (tri!trie_insert(k, v) \/ tri!trie_find_and_insert(k, v)) /\ D!Insert(k, v)
               \/ /\ k \in DOMAIN ref \/ D!WithPrefix(k) = {}
                  /\ tri!trie_find_or_insert(k, v)
                  /\ IF k \in DOMAIN ref THEN ref' = ref /\ out' = ref[k] ELSE D!Insert(k, v)

\* An array takes no position from its largest size on.
Spa ==
  /\ which \in {"spa", "array"} /\ s.count < MaxElements
  /\ \E p \in Positions, d \in {1, 2} :
       LET over == which = "array" /\ p >= MaxArray
       IN  /\ \/ which = "spa" /\ spi!insert_number(Backend, p, d)
              \/ which = "array" /\ sparse!set_element_to_sparse_array(p, d)
           /\ ref' = IF over THEN ref ELSE (p :> Append(IF p \in DOMAIN ref THEN ref[p] ELSE << >>, d)) @@ ref
           /\ out' = IF over THEN -1 ELSE 0

\* An index of strings, and one of numbers that keeps nothing.
Strs ==
  \/ /\ which \in {"sart", "strie"}
     /\ \E k \in Strings, v \in {1, 2} :
          (v = 2 => k = <<1, 2>>) /\ spi!insert_string(Backend, k, v) /\ D!Insert(k, v)
  \/ which = "tsearch" /\ spi!insert_number(Backend, 1, 1) /\ UNCHANGED <<ref, out>>

-----------------------------------------------------------------------------

\* An index of strings loses a key when its reverse is inserted after it: both
\* are entries of the same container.
Undisturbed == {k \in DOMAIN ref : Reverse(k) \notin DOMAIN ref \ {k}}

\* Every lookup of every key that is there or not gives what the dictionary
\* has, and every call returned what it would return: radix tree (whatever it
\* reads past the end of a key), red-black tree, skip list, trie, sparse array,
\* and the indexes built on them.  The calls are those that Skl and Tri allow,
\* and a skip list counts until it wrote to freed memory.
LookupsAgree ==
  /\ which \in {"art", "rbt", "skl", "trie", "spa", "array"} => ret = out
  /\ which = "art" => \A k \in ArtKeys \cup Absent, b \in art!Bytes : art!art_search(k, b) = D!Lookup(k)
  /\ which = "rbt" => \A k \in TreeKeys : spi!search_number(Backend, k) = D!Lookup(k)
  /\ which = "skl" /\ ~s.wild => \A k \in SklKeys : spi!search_number(Backend, k) = D!Lookup(k)
  /\ which = "trie" => \A k \in TrieKeys : tri!trie_find(k) = D!Lookup(k)
  /\ which = "spa" => \A p \in 0 .. 6 : spi!search_number(Backend, p) = D!Lookup(p)
  /\ which = "array" => \A p \in 0 .. 6 : sparse!get_element_in_sparse_array(p) = D!Lookup(p)
  /\ which \in {"sart", "strie"} => \A k \in Undisturbed, b \in Letters :
       spi!search_string(Backend, k, b) = ref[k]

Increasing(q) == \A i \in 1 .. Len(q) - 1 : q[i] < q[i + 1]
KeysOf(q) == [i \in DOMAIN q |-> q[i].key]

\* A walk visits the entries that it has to and no others, and a sorted walk in
\* increasing order; a walk over a range or a prefix visits what lies in it.
\* The walks of the radix tree and of the AVL tree visit each entry once; the
\* prefix walk of a trie reports a key equal to the prefix twice, and only the
\* set is compared.  The prefix is one that some key has, and the range of a
\* sparse array lies within it.  A search for an affix in a trie finds all keys
\* that have it, and maybe others; in a radix tree only one for a prefix does.
\* The values found by a suffix or an infix are not compared: the trie keeps the
\* address of a parameter under one of the two directions of a string.
\* The AVL tree counts until an insertion split a subtree.
WalksExact ==
  /\ which = "art" =>
       /\ Len(art!art_iter) = Cardinality(DOMAIN ref) /\ ToSet(KeysOf(art!art_iter)) = DOMAIN ref
       /\ \A k \in DOMAIN ref : \A n \in 0 .. Len(k) :
            LET p == SubSeq(k, 1, n)
            IN  ToSet(KeysOf(art!art_iter_prefix(p, 0))) = D!WithPrefix(p)
  /\ which = "rbt" =>
       /\ ToSet(KeysOf(rb!rbt_walk)) = DOMAIN ref /\ Increasing(KeysOf(rb!rbt_walk_sorted))
       /\ \A a, b \in TreeKeys :
            /\ spi!search_numeric_range(Backend, a, b) = D!Between(a, b)
            /\ ToSet(KeysOf(rb!rbt_range_walk_sorted(a, b))) = D!Between(a, b)
  /\ which = "avl" /\ ref # NULL => \A w \in {avl!avlt_walk, avl!avlt_walk_sorted} :
       /\ Len(w) = Cardinality(DOMAIN ref) /\ ToSet(KeysOf(w)) = DOMAIN ref
       /\ Increasing(KeysOf(avl!avlt_walk_sorted))
  /\ which = "skl" /\ ~s.wild => \A a, b \in SklKeys :
       /\ Increasing(skip!skiplist_range_search(a, b))
       /\ spi!search_numeric_range(Backend, a, b) = D!Between(a, b)
  /\ which = "trie" =>
       /\ tri!trie_iter_all = DOMAIN ref
       /\ \A k \in DOMAIN ref : DOMAIN tri!trie_iter_prefix(k) = D!WithPrefix(k)
  /\ which = "spa" => \A a, b \in 0 .. s.size - 1 :
       a < b => spi!search_numeric_range(Backend, a, b) = D!Between(a, b)
  /\ which \in {"sart", "strie"} => \A k \in Undisturbed, b \in Letters, a \in Affixes :
       LET found(type) == spi!search_affix(Backend, type, a, b)
       IN  /\ IsPrefix(a, k) => k \in DOMAIN found("PREFIX") /\ found("PREFIX")[k] = ref[k]
           /\ found("EXACT")[a] = spi!search_string(Backend, a, b)
           /\ which = "strie" => /\ IsSuffix(a, k) => Reverse(k) \in DOMAIN found("SUFFIX")
                                 /\ spi!contains(k, a) => k \in DOMAIN found("MIDDLE")

\* The size of the radix tree, the count of the skip list and of the elements of
\* a sparse array, and the number of nodes of the trie stay true through
\* replacements, failed removals and the pruning of nodes.  (Not so the size of
\* a red-black tree: rbt_add returns before it counts under a black parent.)
CountersExact ==
  /\ which = "art" => s.size = Cardinality(DOMAIN ref)
  /\ which = "skl" /\ ~s.wild => s.count = Cardinality(DOMAIN ref)
  /\ which = "trie" => s.node_count = Cardinality(DOMAIN s.value) - 1
  /\ which \in {"spa", "array"} => s.count = MapThenSumSet(LAMBDA p : Len(ref[p]), DOMAIN ref)

RECURSIVE BlackHeights(_)
BlackHeights(n) ==
  IF n = NULL THEN {0}
  ELSE {h + (IF rb!IS_BLACK(n) THEN 1 ELSE 0) : h \in BlackHeights(n.c[1]) \cup BlackHeights(n.c[2])}

\* rbt_add leaves a red-black tree: no red node has a red child, and all ways
\* down have the same number of black nodes, so that lookups stay short.
RedBlack ==
  which = "rbt" =>
    /\ rb!IS_BLACK(s.root)
    /\ \A n \in ToSet(rb!rbt_walk) : rb!IS_RED(n) => rb!IS_BLACK(n.c[1]) /\ rb!IS_BLACK(n.c[2])
    /\ Cardinality(BlackHeights(s.root)) = 1

\* The heights recorded in the nodes of the AVL tree are the true ones and
\* differ by at most one, whatever was added and removed, so that every way down
\* stays short even where an insertion lost the order of the keys.
AvlBalanced ==
  which = "avl" => \A n \in ToSet(avl!avlt_walk) :
    n.h = <<avl!Height(n.c[1]), avl!Height(n.c[2])>> /\ n.h[1] - n.h[2] \in -1 .. 1

RECURSIVE Inner(_)
Inner(n) ==
  IF n = NULL \/ art!IS_LEAF(n) THEN {} ELSE {n} \cup UNION {Inner(n.kids[i].node) : i \in DOMAIN n.kids}

\* Nodes stay as small as their contents allow: an inner node of the radix
\* tree branches, is of a type that fits its children and starts with the
\* bytes its leaves share; a trie has no dead branches.
NoWaste ==
  /\ which = "art" => \A n \in Inner(s.root) :
       /\ Len(n.kids) > 1 /\ (n.type < 4 => Len(n.kids) <= Capacity[n.type])
       /\ n.type > 1 => Len(n.kids) > ShrinkAt[n.type - 1]
       /\ Len(n.partial) = art!Lesser(MAX_PREFIX_LEN, n.plen)
  /\ which = "trie" => \A n \in tri!Nodes \ {tri!Root} : tri!Children(n) = {} => s.value[n] # NULL
=============================================================================
