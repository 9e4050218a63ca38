----------------------------- MODULE IndexData ------------------------------
(***************************************************************************)
(* The leaves of the name tree (attr_tree_leaf_content_t) and the keys of  *)
(* their value trees, as values.  A leaf holds a red-black tree for        *)
(* numbers and a radix tree for strings; both lead to lists of postings.   *)
(***************************************************************************)
EXTENDS PathList

CONSTANTS
  Ints,          \* values of C type int, close enough that no difference overflows
  Halves         \* values of C type double, counted in halves

Leaf(kind) ==
  [rbt |-> kind, isFloat |-> kind = "double", isNumeric |-> TRUE,
   num |-> <<>>, hasArt |-> FALSE, str |-> <<>>]

\* A key of a number tree is a pair <<size, value>>: the size in bytes is part
\* of every comparison.
Trunc(halves) == IF halves < 0 THEN -((-halves) \div 2) ELSE halves \div 2

\* LIBHL_CMP_KEYS_TYPE: the difference of two doubles is returned as an int.
cmp_keys(kind, k1, k2) ==
  LET width == IF kind = "int" THEN 4 ELSE 8 IN
  IF k1[1] < width \/ k2[1] < width \/ k1[1] # k2[1] THEN k1[1] - k2[1]
  ELSE IF kind = "int" THEN k1[2] - k2[2]
  ELSE Trunc(k1[2] - k2[2])

\* The nodes a search for key may end at.  At most one when the keys are of
\* one size and differ by whole numbers; otherwise the shape decides.
Matching(leaf, key) == {k \in DOMAIN leaf.num : cmp_keys(leaf.rbt, k, key) = 0}

\* The key indexing_numeric takes from position j of the value array.  An
\* array of the other type is read through a pointer of the leaf's type.
KeysRead(leaf, a, j) ==
  IF leaf.isFloat
    THEN IF a.type = "float" THEN {<<8, a.values[j]>>} ELSE {<<8, h>> : h \in Halves}
    ELSE IF a.type = "integer" THEN {<<4, a.values[j]>>} ELSE {<<4, n>> : n \in Ints}

With(f, k, v) == [x \in DOMAIN f \cup {k} |-> IF x = k THEN v ELSE f[x]]
Without(f, ks) == [x \in DOMAIN f \ ks |-> f[x]]
=============================================================================
