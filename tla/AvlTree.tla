------------------------------ MODULE AvlTree ------------------------------
(***************************************************************************)
(* The AVL tree (avltree.c) with integer keys.  A node records the heights *)
(* of its subtrees, h[Left] and h[Right] (hl, hr).  avlt_add may insert a  *)
(* node in the middle of the tree, above a child that lies between.        *)
(***************************************************************************)
EXTENDS BinaryTree, FiniteSets

CONSTANT AvlKeys

VARIABLES tree,   \* the root
          ret     \* the return code of the last call

Max2(a, b) == IF a > b THEN a ELSE b
Height(n) == IF n = NULL THEN 0 ELSE Max2(n.h[Left], n.h[Right]) + 1
avlt_node_create(k) == [key |-> k, c |-> <<NULL, NULL>>, h |-> <<0, 0>>]

\* avlt_rotate_left and avlt_rotate_right: the child of side s goes up.
avlt_rotate(n, s) ==
  LET up == n.c[s]
      down == [n EXCEPT !.c[s] = up.c[Other(s)], !.h[s] = Height(up.c[Other(s)])]
  IN  IF up = NULL THEN n
      ELSE [up EXCEPT !.c[Other(s)] = down, !.h[Other(s)] = Height(down)]

\* The body of the loop of avlt_balance at an unbalanced node, heavy on side s.
Rebalanced(n, s) ==
  LET heavy == n.c[s]
      turned == heavy.h[Other(s)] - heavy.h[s] = 1
  IN  avlt_rotate([n EXCEPT !.c[s] = IF turned THEN avlt_rotate(heavy, Other(s)) ELSE heavy], s)

\* avlt_balance from the node at p up to the root.
RECURSIVE avlt_balance(_, _)
avlt_balance(T, p) ==
  LET n == At(T, p)
      m == [n EXCEPT !.h = <<Height(n.c[Left]), Height(n.c[Right])>>]
      s == IF m.h[Right] > m.h[Left] THEN Right ELSE Left
      U == Put(T, p, Rebalanced(m, s))
      \* where the node is now: below the child that went up
      q == Append(p, Other(s))
      d == At(U, q).h[Left] - At(U, q).h[Right]
  IN  IF m.h[s] - m.h[Other(s)] < 2
      THEN IF p = << >> THEN m ELSE avlt_balance(Put(T, p, m), Parent(p))
      ELSE avlt_balance(U, IF d \in -1 .. 1 THEN p ELSE q)

\* The descent of avlt_add: where it stops, and what it does there.
RECURSIVE Descend(_, _, _)
Descend(T, k, p) ==
  LET cur == At(T, p)
      s == SideOf(k, cur.key)
      child == cur.c[s]
      inner == child.c[Other(s)]
  IN  IF cur.key = k THEN [act |-> "exists", p |-> p]
      ELSE IF child = NULL THEN [act |-> "leaf", p |-> Append(p, s)]
      ELSE IF Beyond(s, k, child.key) THEN Descend(T, k, Append(p, s))
      ELSE IF child.key # k /\ (inner = NULL \/ inner.key # k) THEN [act |-> "swap", p |-> Append(p, s)]
      ELSE [act |-> "exists", p |-> p]

\* The new node takes the place of the child at p, which goes below it; the
\* child's inner subtree moves to the other side of the new node as a whole if
\* its root lies there.
Swapped(T, k, p) ==
  LET s == Side(p)
      child == At(T, p)
      inner == child.c[Other(s)]
      moves == inner # NULL /\ Beyond(Other(s), inner.key, k)
      below == IF moves THEN [child EXCEPT !.c[Other(s)] = NULL, !.h[Other(s)] = 0] ELSE child
      new == [avlt_node_create(k) EXCEPT !.c[s] = below, !.h[s] = Height(child),
                                         !.c[Other(s)] = IF moves THEN inner ELSE NULL,
                                         !.h[Other(s)] = IF moves THEN Height(inner) ELSE 0]
  IN  Put(T, p, new)

avlt_create == tree = NULL /\ ret = 0

avlt_add(k) ==
  LET d == Descend(tree, k, << >>)
  IN  IF tree = NULL THEN tree' = avlt_node_create(k) /\ ret' = 0
      ELSE /\ tree' = CASE d.act = "exists" -> tree
                        [] d.act = "leaf" -> avlt_balance(Put(tree, d.p, avlt_node_create(k)), Parent(d.p))
                        [] d.act = "swap" -> avlt_balance(Swapped(tree, k, d.p), Append(d.p, Side(d.p)))
           /\ ret' = IF d.act = "exists" THEN -1 ELSE 0

\* Variant: the tree is left as it is above the node that went.
Unlink_Unbalanced(T, p) ==
  LET n == At(T, p) IN Put(T, p, IF n.c[Left] # NULL THEN n.c[Left] ELSE n.c[Right])

\* The node at p, which has at most one child, gives its place to the child.
Unlink(T, p) ==
  LET n == At(T, p)
      U == Put(T, p, IF n.c[Left] # NULL THEN n.c[Left] ELSE n.c[Right])
  IN  IF p = << >> THEN U ELSE avlt_balance(U, Parent(p))

\* avlt_remove: a node with two children swaps its content with a neighbour on
\* the higher side, which is then unlinked.
Removed(T, k) ==
  LET p == PathTo(T, k)
      n == At(T, p)
      q == p \o Neighbour(n, IF n.h[Left] > n.h[Right] THEN Left ELSE Right)
      Named(U, path, key) == Put(U, path, [At(U, path) EXCEPT !.key = key])
  IN  IF n = NULL THEN T
      ELSE IF n.c[Left] # NULL /\ n.c[Right] # NULL
      THEN Unlink(Named(Named(T, p, At(T, q).key), q, n.key), q)
      ELSE Unlink(T, p)

avlt_remove(k) == tree' = Removed(tree, k) /\ ret' = 0

\* avlt_walk_sorted and avlt_walk, level by level, when every callback continues.
avlt_walk_sorted == InOrder(tree)

RECURSIVE Levels(_)
Levels(queue) ==
  IF queue = << >> THEN << >>
  ELSE LET n == Head(queue)
       IN  <<n>> \o Levels(Tail(queue) \o SelectSeq(n.c, LAMBDA x : x # NULL))
avlt_walk == IF tree = NULL THEN << >> ELSE Levels(<<tree>>)
=============================================================================
