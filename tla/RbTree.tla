------------------------------- MODULE RbTree -------------------------------
(***************************************************************************)
(* The red-black tree (rbtree.c) with integer keys: rbt_add, which repairs *)
(* the tree by adding the grandparent once more, the lookup and the walks. *)
(* rbt_remove is not here: nothing in the repository calls it.             *)
(***************************************************************************)
EXTENDS BinaryTree, FiniteSets

CONSTANTS RbKeys, RbVals

VARIABLES rbt,   \* the struct: root and size
          ret    \* what the last call returned

RED == "red"
BLACK == "black"
IS_BLACK(n) == n = NULL \/ n.color = BLACK
IS_RED(n) == ~IS_BLACK(n)
Paint(T, p, color) ==
  IF At(T, p) = NULL THEN T ELSE Put(T, p, [At(T, p) EXCEPT !.color = color])

RbNode(k, v) == [color |-> RED, key |-> k, val |-> v, c |-> <<NULL, NULL>>]

\* rbt_add_internal: the new node takes the place of the one with its key,
\* with its colour and children, or becomes a leaf.
rbt_add_internal(T, k, v) ==
  LET p == PathTo(T, k)
  IN  Put(T, p, IF At(T, p) = NULL THEN RbNode(k, v) ELSE [At(T, p) EXCEPT !.val = v])

\* rbt_rotate_left and rbt_rotate_right at p: the child of side s goes up.
rbt_rotate(T, p, s) == Put(T, p, Turn(At(T, p), s))

rbt_uncle(p) == Append(Parent(Parent(p)), Other(Side(Parent(p))))

\* Variant: the rotation of case 4 is left out.
Rotated_NoCase4(T, p) ==
  LET g == Parent(Parent(p))
      s == Side(Parent(p))
  IN  rbt_rotate(Paint(Paint(T, Append(g, s), BLACK), g, RED), g, s)

\* Cases 4 and 5: a node between its parent and grandparent is first turned
\* out, then the grandparent is turned down.
Rotated(T, p) ==
  LET g == Parent(Parent(p))
      s == Side(Parent(p))
      T4 == IF Side(p) # s THEN rbt_rotate(T, Parent(p), Side(p)) ELSE T
      T5 == Paint(Paint(T4, Append(g, s), BLACK), g, RED)
  IN  rbt_rotate(T5, g, s)

\* What a call of rbt_add makes of the tree; counted says whether it ends at
\* the statement that increments the size.
RECURSIVE Add(_, _, _)
Add(T, k, v) ==
  LET p == PathTo(T, k)
      new == At(T, p) = NULL
      T1 == rbt_add_internal(T, k, v)
      g == At(T1, Parent(Parent(p)))
      T3 == Paint(Paint(Paint(T1, Parent(p), BLACK), rbt_uncle(p), BLACK), Parent(Parent(p)), RED)
  IN  IF T = NULL THEN [root |-> Paint(T1, p, BLACK), counted |-> TRUE, rc |-> 0]
      ELSE IF IS_BLACK(At(T1, p)) THEN [root |-> T1, counted |-> FALSE, rc |-> 1]
      ELSE IF p = << >> THEN [root |-> Paint(T1, p, BLACK), counted |-> new, rc |-> IF new THEN 0 ELSE 1]
      ELSE IF IS_BLACK(At(T1, Parent(p)))
      THEN [root |-> T1, counted |-> FALSE, rc |-> IF new THEN 0 ELSE 1]
      ELSE [root |-> IF IS_RED(At(T1, rbt_uncle(p))) THEN Add(T3, g.key, g.val).root ELSE Rotated(T1, p),
            counted |-> new, rc |-> IF new THEN 0 ELSE 1]

rbt_create == rbt = [root |-> NULL, size |-> 0] /\ ret = NULL

rbt_add(k, v) ==
  LET a == Add(rbt.root, k, v)
      \* an update frees the old value; the caller learns only that there was one
      old == At(rbt.root, PathTo(rbt.root, k))
  IN  /\ rbt' = [root |-> a.root, size |-> IF a.counted THEN rbt.size + 1 ELSE rbt.size]
      /\ ret' = IF a.rc = 0 THEN NULL ELSE old.val

-----------------------------------------------------------------------------

rbt_find(k) ==
  LET n == At(rbt.root, PathTo(rbt.root, k)) IN IF n = NULL THEN NULL ELSE n.val

\* The nodes for which a walk calls back, when every callback continues.
rbt_walk == PreOrder(rbt.root)
rbt_walk_sorted == InOrder(rbt.root)

\* The range walks visit every node and call back for begin <= key < end.

rbt_range_walk(a, b) == IF a >= b THEN << >> ELSE SelectSeq(rbt_walk, LAMBDA n : n.key = a \/ (n.key > a /\ n.key < b))
rbt_range_walk_sorted(a, b) == IF a >= b THEN << >> ELSE SelectSeq(rbt_walk_sorted, LAMBDA n : n.key = a \/ (n.key > a /\ n.key < b))
=============================================================================
