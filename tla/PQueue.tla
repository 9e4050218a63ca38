------------------------------- MODULE PQueue -------------------------------
(***************************************************************************)
(* The binomial heap (binheap.c) and the priority queue on top of it       *)
(* (pqueue.c).  A node is its item and the sequence of its children; items *)
(* differ, their priorities need not.  The list of the trees is a plain    *)
(* sequence here: module LinkList is about the list itself.                *)
(***************************************************************************)
EXTENDS Integers, Sequences, SequencesExt

CONSTANTS NULL, PqItems, Prio(_), MaxSize

VARIABLES pq,    \* mode ("MAX" is PQUEUE_MODE_HIGHEST), trees, head, count
          ret

Node(x, kids) == [item |-> x, kids |-> kids]
HAS_PRECEDENCE(mode, a, b) == IF mode = "MAX" THEN Prio(a) >= Prio(b) ELSE Prio(a) <= Prio(b)

\* The index the loop over nodes ends with, when it replaces the node it has by
\* a current one for which better holds; 0 without nodes.
Scan(nodes, better(_, _)) ==
  FoldLeft(LAMBDA i, j : IF i = 0 \/ better(nodes[j].item, nodes[i].item) THEN j ELSE i,
           0, [j \in DOMAIN nodes |-> j])

\* binomial_tree_node_find_max_child, ..._min_child: the last of the best.
find_child(kind, n) == Scan(n.kids, LAMBDA a, b : HAS_PRECEDENCE(kind, a, b))

\* A later root replaces an equal one when looking for the maximum only.
binheap_maxmin(trees, kind) ==
  Scan(trees, LAMBDA a, b : IF kind = "MAX" THEN Prio(a) >= Prio(b) ELSE Prio(a) < Prio(b))

RECURSIVE Leaf(_, _)
Leaf(kind, n) == IF n.kids = << >> THEN n ELSE Leaf(kind, n.kids[find_child(kind, n)])

\* binheap_get_maximum and binheap_get_minimum: the item and the index left in
\* *maxidx or *minidx.  On the side that the heap is not made for, the item is
\* found on the way down from the last root, and need not be the extreme one.
binheap_get(q, kind) ==
  LET i == binheap_maxmin(q.trees, kind)
  IN  IF q.mode = kind /\ q.head # NULL THEN [item |-> q.head, index |-> 0]
      ELSE IF i = 0 THEN [item |-> NULL, index |-> 0]
      ELSE [item |-> (IF q.mode = kind THEN q.trees[i] ELSE Leaf(kind, q.trees[i])).item, index |-> i - 1]

UPDATE_HEAD(q) == [q EXCEPT !.head = binheap_get([q EXCEPT !.head = NULL], q.mode).item]

\* binomial_tree_node_destroy below a root: the children move up.
RECURSIVE Without(_, _)
Without(n, x) ==
  IF \E i \in DOMAIN n.kids : n.kids[i].item = x
  THEN LET i == CHOOSE j \in DOMAIN n.kids : n.kids[j].item = x
       IN  Node(n.item, RemoveAt(n.kids, i) \o n.kids[i].kids)
  ELSE Node(n.item, [i \in DOMAIN n.kids |-> Without(n.kids[i], x)])

\* Variant: the last child takes over, not the one with precedence.
Heir_Last(mode, kids) == Node(Last(kids).item, Last(kids).kids \o Front(kids))

\* The child that takes the place of a root adopts the others.
Heir(mode, kids) ==
  LET c == find_child(mode, Node(NULL, kids)) IN Node(kids[c].item, kids[c].kids \o RemoveAt(kids, c))

binomial_tree_node_destroy(q, x, rindex) ==
  LET root == {i \in DOMAIN q.trees : q.trees[i].item = x}
      i == CHOOSE j \in root : TRUE
      at == IF rindex # 0 THEN rindex + 1 ELSE i
      rest == RemoveAt(q.trees, at)
      trees == IF root = {} THEN [j \in DOMAIN q.trees |-> Without(q.trees[j], x)]
               ELSE IF q.trees[i].kids = << >> THEN rest
               ELSE InsertAt(rest, at, Heir(q.mode, q.trees[i].kids))
      less == [q EXCEPT !.trees = trees, !.count = @ - 1]
  IN  IF x = q.head THEN UPDATE_HEAD(less) ELSE less

binomial_tree_merge(n1, n2) == Node(n1.item, Append(n1.kids, n2))

\* binheap_insert: trees of the order reached are linked to the new one.
RECURSIVE Linked(_, _, _, _)
Linked(mode, n, trees, order) ==
  IF trees = << >> \/ Len(Head(trees).kids) # order THEN <<n>> \o trees
  ELSE LET t == Head(trees)
           m == IF HAS_PRECEDENCE(mode, n.item, t.item) THEN binomial_tree_merge(n, t) ELSE binomial_tree_merge(t, n)
       IN  Linked(mode, m, Tail(trees), order + 1)

binheap_insert(q, x) ==
  LET more == [q EXCEPT !.trees = Linked(q.mode, Node(x, << >>), @, 0), !.count = @ + 1]
  IN  IF q.head = NULL THEN [more EXCEPT !.head = more.trees[1].item] ELSE UPDATE_HEAD(more)

\* binheap_delete_maximum and binheap_delete_minimum.
binheap_delete(q, kind) ==
  LET found == binheap_get(q, kind)
  IN  IF found.item = NULL THEN q ELSE binomial_tree_node_destroy(q, found.item, found.index)

-----------------------------------------------------------------------------

pqueue_create ==
  /\ \E mode \in {"MAX", "MIN"} : pq = [mode |-> mode, trees |-> << >>, head |-> NULL, count |-> 0]
  /\ ret = NULL

Opposite(mode) == IF mode = "MAX" THEN "MIN" ELSE "MAX"

\* One round of the loop: an item from the side that is pulled last.
pqueue_drop_items(q) == binheap_delete(q, Opposite(q.mode))

pqueue_insert(x) ==
  LET q == binheap_insert(pq, x)
  IN  pq' = (IF q.count > MaxSize THEN pqueue_drop_items(q) ELSE q) /\ ret' = 0

pqueue_pull_highest == pq' = binheap_delete(pq, pq.mode) /\ ret' = binheap_get(pq, pq.mode).item
pqueue_pull_lowest == pq' = binheap_delete(pq, Opposite(pq.mode)) /\ ret' = binheap_get(pq, Opposite(pq.mode)).item

\* The walk compares the caller's value with the address of the item that
\* wraps it, so nothing is found.
pqueue_remove(x) == UNCHANGED pq /\ ret' = -1
=============================================================================
