----------------------------- MODULE BinaryTree -----------------------------
(***************************************************************************)
(* Binary search trees as values, shared by the red-black and the AVL      *)
(* tree.  A node has a key and two children, c[Left] and c[Right].  A node *)
(* is named by the path of sides that leads to it from the root, so that   *)
(* the parent pointers of the code need no state of their own.             *)
(***************************************************************************)
EXTENDS Integers, Sequences, SequencesExt

CONSTANT NULL

Left == 1
Right == 2
Other(s) == 3 - s

\* a lies further to side s than b.
Beyond(s, a, b) == IF s = Left THEN a < b ELSE a > b
SideOf(k, key) == IF k < key THEN Left ELSE Right

RECURSIVE At(_, _)
At(T, p) == IF p = << >> \/ T = NULL THEN T ELSE At(T.c[Head(p)], Tail(p))

RECURSIVE Put(_, _, _)
Put(T, p, n) ==
  IF p = << >> THEN n ELSE [T EXCEPT !.c[Head(p)] = Put(@, Tail(p), n)]

Parent(p) == Front(p)
Side(p) == Last(p)

\* The path on which the code looks for a key; it ends at the key, or at the
\* missing child where it belongs.
RECURSIVE PathTo(_, _)
PathTo(T, k) ==
  IF T = NULL \/ T.key = k THEN << >>
  ELSE <<SideOf(k, T.key)>> \o PathTo(T.c[SideOf(k, T.key)], k)

\* The neighbour of the root of T in the order of the keys, on side s.
RECURSIVE Outermost(_, _)
Outermost(T, s) == IF T.c[s] = NULL THEN << >> ELSE <<s>> \o Outermost(T.c[s], s)
Neighbour(T, s) == <<s>> \o Outermost(T.c[s], Other(s))

\* Child x of side s goes up, the node goes down to the other side.
Turn(n, s) ==
  LET up == n.c[s]
  IN  [up EXCEPT !.c[Other(s)] = [n EXCEPT !.c[s] = up.c[Other(s)]]]

\* The nodes in the order of a sorted walk, and of one that visits a node
\* before its children.
RECURSIVE InOrder(_)
InOrder(T) ==
  IF T = NULL THEN << >> ELSE InOrder(T.c[Left]) \o <<T>> \o InOrder(T.c[Right])

RECURSIVE PreOrder(_)
PreOrder(T) ==
  IF T = NULL THEN << >> ELSE <<T>> \o PreOrder(T.c[Left]) \o PreOrder(T.c[Right])
=============================================================================
