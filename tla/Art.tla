-------------------------------- MODULE Art --------------------------------
(***************************************************************************)
(* The adaptive radix tree (art.c): inner nodes of four sizes that grow    *)
(* and shrink, and compressed paths of which only MAX_PREFIX_LEN bytes are *)
(* stored.  A key is a sequence of bytes without zero, as the index passes *)
(* strings; the byte after the last one is zero, in the caller's string as *)
(* in the padding of a leaf.                                               *)
(*                                                                         *)
(* The children of a node are a sequence of [byte, node] pairs in the      *)
(* order in which the code iterates over them.                             *)
(***************************************************************************)
EXTENDS Integers, Sequences, FiniteSets, SequencesExt

CONSTANTS NULL, MAX_PREFIX_LEN,
  Capacity,      \* of the types NODE4, NODE16, NODE48 (4, 16, 48)
  ShrinkAt,      \* children left when NODE16, 48, 256 shrink (3, 12, 37)
  Keys, Vals

VARIABLES t,     \* the art_tree
          ret    \* what the last call returned

NODE4 == 1
NODE16 == 2
NODE48 == 3
NODE256 == 4

Byte(key, d) == IF d < Len(key) THEN key[d + 1] ELSE 0
Bytes == {0} \cup UNION {ToSet(k) : k \in Keys}
Lesser(a, b) == IF a < b THEN a ELSE b
First(n, s) == SubSeq(s, 1, Lesser(n, Len(s)))
\* The outcome of  for (idx = from; idx < m; idx++) if (!same(idx)) return idx;
Scan(from, m, same(_)) ==
  LET bad == {i \in from .. m - 1 : ~same(i)}
  IN  IF bad # {} THEN CHOOSE i \in bad : \A j \in bad : i <= j
      ELSE IF m > from THEN m ELSE from
Bytewise(key, from, n) == [i \in 1 .. n |-> Byte(key, from + i - 1)]

make_leaf(k, v) == [key |-> k, val |-> v]
Node(type, plen, partial, kids) ==
  [type |-> type, plen |-> plen, partial |-> partial, kids |-> kids]
IS_LEAF(n) == "key" \in DOMAIN n

\* The index of the child for byte c, or 0.
find_child(n, c) ==
  IF \E i \in DOMAIN n.kids : n.kids[i].byte = c
  THEN CHOOSE i \in DOMAIN n.kids : n.kids[i].byte = c
  ELSE 0

Stored(n, key, d) == Lesser(Lesser(n.plen, MAX_PREFIX_LEN), Len(key) - d)

\* How many of the stored prefix bytes agree with the key.
check_prefix(n, key, d) ==
  Scan(0, Stored(n, key, d), LAMBDA i : n.partial[i + 1] = Byte(key, d + i))

\* art_search.  With a prefix longer than what is stored the walk can step
\* past the end of the key; past is the byte it reads there.
RECURSIVE search(_, _, _, _)
search(n, key, d, past) ==
  IF n = NULL THEN NULL
  ELSE IF IS_LEAF(n) THEN IF n.key = key THEN n ELSE NULL
  ELSE IF n.plen > 0 /\ check_prefix(n, key, d) # Lesser(MAX_PREFIX_LEN, n.plen) THEN NULL
  ELSE LET e == d + n.plen
           i == find_child(n, IF e > Len(key) THEN past ELSE Byte(key, e))
       IN  IF i = 0 THEN NULL ELSE search(n.kids[i].node, key, e + 1, past)

art_search(key, past) ==
  LET l == search(t.root, key, 0, past) IN IF l = NULL THEN NULL ELSE l.val

RECURSIVE minimum(_)
minimum(n) == IF n = NULL \/ IS_LEAF(n) THEN n ELSE minimum(n.kids[1].node)

RECURSIVE maximum(_)
maximum(n) == IF n = NULL \/ IS_LEAF(n) THEN n ELSE maximum(Last(n.kids).node)

longest_common_prefix(k, l, d) ==
  Scan(0, Lesser(Len(k), Len(l)) - d, LAMBDA i : Byte(k, d + i) = Byte(l, d + i))

-----------------------------------------------------------------------------
(* Children.                                                                 *)

\* add_child16 compares with SSE instructions, on signed bytes.
Signed(c) == IF c < 128 THEN c ELSE c - 256

\* Where a new child goes: before the first greater one.  NODE48 and NODE256
\* are tables by byte.
Slot(n, c) ==
  LET less(b) == IF n.type = NODE16 THEN Signed(c) < Signed(b) ELSE c < b
      after == {i \in DOMAIN n.kids : less(n.kids[i].byte)}
  IN  IF after = {} THEN Len(n.kids) + 1 ELSE CHOOSE i \in after : \A j \in after : i <= j

\* The table of a NODE48 or NODE256 has its children in the order of the bytes.
ByByte(kids) == SetToSortSeq(ToSet(kids), LAMBDA a, b : a.byte < b.byte)

Retyped(n, type) ==
  [n EXCEPT !.type = type,
            !.kids = IF {n.type, type} \subseteq {NODE4, NODE16} THEN @ ELSE ByByte(@)]

\* add_child4, 16, 48 and 256: a full node is replaced by the next larger one.
add_child(n, c, child) ==
  LET full == n.type # NODE256 /\ Len(n.kids) = Capacity[n.type]
      m == IF full THEN Retyped(n, n.type + 1) ELSE n
  IN  [m EXCEPT !.kids = InsertAt(@, Slot(m, c), [byte |-> c, node |-> child])]

\* Variant: the byte that led to the child is forgotten.
Collapse_ByteLost(n) ==
  LET child == n.kids[1].node
  IN  IF IS_LEAF(child) THEN child
      ELSE [child EXCEPT !.partial = First(MAX_PREFIX_LEN, n.partial \o @), !.plen = @ + n.plen]

\* remove_child4: the last child takes the place of the node and inherits its
\* prefix, as many bytes of it as fit.
Collapse(n) ==
  LET only == n.kids[1]
      child == only.node
  IN  IF IS_LEAF(child) THEN child
      ELSE [child EXCEPT !.partial = First(MAX_PREFIX_LEN, n.partial \o <<only.byte>> \o @),
                         !.plen = @ + n.plen + 1]

\* remove_child4, 16, 48 and 256.
remove_child(n, i) ==
  LET m == [n EXCEPT !.kids = RemoveAt(@, i)]
      left == Len(m.kids)
  IN  IF n.type = NODE4 THEN IF left = 1 THEN Collapse(m) ELSE m
      ELSE IF left = ShrinkAt[n.type - 1] THEN Retyped(m, n.type - 1) ELSE m

-----------------------------------------------------------------------------
(* Insertion and deletion.                                                   *)

\* The first byte of the compressed path that differs; past the stored bytes
\* the path is read from a leaf below.
prefix_mismatch(n, key, d) ==
  LET idx == check_prefix(n, key, d)
      l == minimum(n).key
  IN  IF idx < Stored(n, key, d) \/ n.plen <= MAX_PREFIX_LEN THEN idx
      ELSE Scan(idx, Lesser(Len(l), Len(key)) - d, LAMBDA i : Byte(l, d + i) = Byte(key, d + i))

\* A leaf that is in the way becomes a NODE4 with both leaves.
SplitLeaf(l, l2, d) ==
  LET p == longest_common_prefix(l.key, l2.key, d)
      n == Node(NODE4, p, Bytewise(l2.key, d, Lesser(MAX_PREFIX_LEN, p)), << >>)
  IN  add_child(add_child(n, Byte(l.key, d + p), l), Byte(l2.key, d + p), l2)

\* A node whose path differs from the key after diff bytes gets a NODE4 above.
SplitPath(n, l, d, diff) ==
  LET some == minimum(n).key
      short == n.plen <= MAX_PREFIX_LEN
      c == IF short THEN n.partial[diff + 1] ELSE Byte(some, d + diff)
      rest == n.plen - (diff + 1)
      below == [n EXCEPT !.plen = rest,
                         !.partial = IF short THEN SubSeq(@, diff + 2, Len(@))
                                     ELSE Bytewise(some, d + diff + 1, Lesser(MAX_PREFIX_LEN, rest))]
      above == Node(NODE4, diff, First(diff, n.partial), << >>)
  IN  add_child(add_child(above, c, below), Byte(l.key, d + diff), l)

\* What a call hands back: the new subtree, and the leaf it found for the key.
Did(n, old) == [node |-> n, old |-> old]
Below(n, i, r) == Did([n EXCEPT !.kids[i].node = r.node], r.old)

RECURSIVE recursive_insert(_, _, _, _)
recursive_insert(n, key, v, d) ==
  LET l == make_leaf(key, v)
      diff == IF n.plen > 0 THEN prefix_mismatch(n, key, d) ELSE 0
      e == d + n.plen
      i == find_child(n, Byte(key, e))
  IN  IF n = NULL THEN Did(l, NULL)
      ELSE IF IS_LEAF(n)
      THEN IF n.key = key THEN Did(l, n) ELSE Did(SplitLeaf(n, l, d), NULL)
      ELSE IF diff < n.plen THEN Did(SplitPath(n, l, d, diff), NULL)
      ELSE IF i = 0 THEN Did(add_child(n, Byte(key, e), l), NULL)
      ELSE Below(n, i, recursive_insert(n.kids[i].node, key, v, e + 1))

RECURSIVE recursive_delete(_, _, _, _)
recursive_delete(n, key, d, past) ==
  LET e == d + n.plen
      i == find_child(n, IF e > Len(key) THEN past ELSE Byte(key, e))
      child == n.kids[i].node
  IN  IF n = NULL THEN Did(n, NULL)
      ELSE IF IS_LEAF(n) THEN IF n.key = key THEN Did(NULL, n) ELSE Did(n, NULL)
      ELSE IF n.plen > 0 /\ check_prefix(n, key, d) # Lesser(MAX_PREFIX_LEN, n.plen)
      THEN Did(n, NULL)
      ELSE IF i = 0 THEN Did(n, NULL)
      ELSE IF ~IS_LEAF(child) THEN Below(n, i, recursive_delete(child, key, e + 1, past))
      ELSE IF child.key = key THEN Did(remove_child(n, i), child) ELSE Did(n, NULL)

art_tree_init == t = [root |-> NULL, size |-> 0] /\ ret = NULL

Value(leaf) == IF leaf = NULL THEN NULL ELSE leaf.val

\* The tree x after an insertion, and the leaf that was replaced.
Inserted(x, key, v) ==
  LET r == recursive_insert(x.root, key, v, 0)
  IN  [tree |-> [root |-> r.node, size |-> IF r.old = NULL THEN x.size + 1 ELSE x.size], old |-> r.old]

art_insert(key, v) ==
  LET i == Inserted(t, key, v) IN t' = i.tree /\ ret' = Value(i.old)

\* Variant: the size is left alone.
art_delete_Uncounted(key) ==
  \E past \in Bytes :
    LET r == recursive_delete(t.root, key, 0, past)
    IN  t' = [t EXCEPT !.root = r.node] /\ ret' = Value(r.old)

art_delete(key) ==
  \E past \in Bytes :
    LET r == recursive_delete(t.root, key, 0, past)
    IN  /\ t' = [root |-> r.node, size |-> IF r.old = NULL THEN t.size ELSE t.size - 1]
        /\ ret' = Value(r.old)

-----------------------------------------------------------------------------
(* Iteration.                                                                *)

\* The leaves in the order of the callbacks.
RECURSIVE recursive_iter(_)
recursive_iter(n) ==
  IF n = NULL THEN << >>
  ELSE IF IS_LEAF(n) THEN << n >>
  ELSE FlattenSeq([i \in DOMAIN n.kids |-> recursive_iter(n.kids[i].node)])

art_iter == recursive_iter(t.root)

RECURSIVE iter_prefix(_, _, _, _)
iter_prefix(n, p, d, past) ==
  LET m == Lesser(prefix_mismatch(n, p, d), n.plen)
      e == d + n.plen
      i == find_child(n, IF e > Len(p) THEN past ELSE Byte(p, e))
  IN  IF n = NULL THEN << >>
      ELSE IF IS_LEAF(n) THEN IF IsPrefix(p, n.key) THEN << n >> ELSE << >>
      ELSE IF d = Len(p) THEN IF IsPrefix(p, minimum(n).key) THEN recursive_iter(n) ELSE << >>
      ELSE IF n.plen > 0 /\ m = 0 THEN << >>
      ELSE IF n.plen > 0 /\ d + m = Len(p) THEN recursive_iter(n)
      ELSE IF i = 0 THEN << >>
      ELSE iter_prefix(n.kids[i].node, p, e + 1, past)

art_iter_prefix(p, past) == iter_prefix(t.root, p, 0, past)
=============================================================================
