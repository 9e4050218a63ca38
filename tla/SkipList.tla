------------------------------ MODULE SkipList ------------------------------
(***************************************************************************)
(* The skip list (skiplist.c).  An item has a wrapper for every layer, and *)
(* wrappers are chained by the TAILQ macros of bsd_queue.h.  A cell is a   *)
(* pointer to the next wrapper: <<k, i>> is wrapper i of the item with key *)
(* k, and the cell in it; <<0, i>> is the head of layer i.  The coin that  *)
(* lifts an item to the next layer is a choice.  path[i] can be a wrapper  *)
(* of a higher layer, so that a wrapper of layer i gets into the chain of  *)
(* another one, and tqh_last of a layer can outlive the item it points to. *)
(***************************************************************************)
EXTENDS Integers, Sequences, Functions, TLC

CONSTANTS NULL, NumLayers, SklKeys, SklVals
Layers == 0 .. NumLayers - 1
Head0(i) == <<0, i>>

VARIABLES skl,   \* next of the cells, prev of the wrappers, last of the layers, value and
                 \* top layer of the items, count, and wild: a freed cell was written to
          ret    \* the value a call replaced or took out, or NULL

\* skiplist_search_internal, on one chain: past all items up to the first
\* greater key.
RECURSIVE Advance(_, _)
Advance(cell, key) ==
  IF skl.next[cell] # NULL /\ skl.next[cell][1] <= key THEN Advance(skl.next[cell], key) ELSE cell

\* The wrapper reached when layer i is left; the walk of a layer begins at the
\* item reached above.
RECURSIVE path(_, _)
path(i, key) ==
  LET prev == IF i = NumLayers - 1 THEN NULL ELSE path(i + 1, key)
      from == IF prev = NULL THEN Head0(i) ELSE <<prev[1], i>>
      to == Advance(from, key)
  IN  IF to = from THEN prev ELSE to

\* The key of the item that the search ends at.
prev_item(key) == IF path(0, key) = NULL THEN NULL ELSE path(0, key)[1]

skiplist_search(key) == IF prev_item(key) = key THEN skl.value[key] ELSE NULL

RECURSIVE Chain(_)
Chain(cell) == IF skl.next[cell] = NULL THEN << >> ELSE <<skl.next[cell][1]>> \o Chain(skl.next[cell])

\* Variant: the upper layers are only left behind the first key of the range.
skiplist_range_search_Past(a, b) ==
  LET above == IF NumLayers = 1 THEN NULL ELSE path(1, a)
      rest == Chain(IF above = NULL THEN Head0(0) ELSE <<above[1], 0>>)
  IN  IF a >= b THEN << >> ELSE SelectSeq(rest, LAMBDA k : a <= k /\ k < b)

\* The callbacks of skiplist_range_search: the upper layers are left before
\* the first key of the range, the lowest one is walked to its end.
skiplist_range_search(a, b) ==
  LET above == IF NumLayers = 1 THEN NULL ELSE path(1, a - 1)
      rest == Chain(IF above = NULL THEN Head0(0) ELSE <<above[1], 0>>)
  IN  IF a >= b THEN << >> ELSE SelectSeq(rest, LAMBDA k : a <= k /\ k < b)
-----------------------------------------------------------------------------
(* The macros, on a list x.  NULL stands for a cell of a freed item.         *)

\* Writes w to a cell; one that was freed is not the list's any more.
Point(x, cell, w) == IF cell = NULL THEN [x EXCEPT !.wild = TRUE] ELSE [x EXCEPT !.next[cell] = w]

TAILQ_INSERT_TAIL(x, i, w) ==
  Point([x EXCEPT !.next[w] = NULL, !.prev[w] = x.last[i], !.last[i] = w], x.last[i], w)

\* The wrapper behind e gets w for its predecessor; without one, the layer's
\* last cell is w.
Behind(x, i, e, w) == IF e = NULL THEN [x EXCEPT !.last[i] = w] ELSE [x EXCEPT !.prev[e] = w]

TAILQ_INSERT_AFTER(x, i, e, w) ==
  [Behind([x EXCEPT !.next[w] = x.next[e], !.prev[w] = e], i, x.next[e], w) EXCEPT !.next[e] = w]

TAILQ_REMOVE(x, i, w) == Point(Behind(x, i, x.next[w], x.prev[w]), x.prev[w], x.next[w])
-----------------------------------------------------------------------------
skiplist_create ==
  /\ skl = [next |-> [c \in {Head0(i) : i \in Layers} |-> NULL], prev |-> << >>,
            last |-> [i \in Layers |-> Head0(i)], value |-> << >>, top |-> << >>,
            count |-> 0, wild |-> FALSE]
  /\ ret = NULL

\* The new item in layers 0 .. i: behind the item found in the lowest one, and
\* behind path[i] in the others; without one, at the tail.
RECURSIVE Linked(_, _, _)
Linked(x, key, i) ==
  LET at == IF i = 0 /\ path(0, key) # NULL THEN <<prev_item(key), 0>> ELSE path(i, key)
      y == IF i = 0 THEN x ELSE Linked(x, key, i - 1)
  IN  IF at = NULL THEN TAILQ_INSERT_TAIL(y, i, <<key, i>>) ELSE TAILQ_INSERT_AFTER(y, i, at, <<key, i>>)

\* A new item has all its wrappers, linked or not.
Wrappers(key) == {<<key, i>> : i \in Layers}
Created(key, v, top) ==
  LET new == [w \in Wrappers(key) |-> NULL]
  IN  [skl EXCEPT !.next = new @@ @, !.prev = new @@ @, !.value = (key :> v) @@ @,
                  !.top = (key :> top) @@ @, !.count = @ + 1]

\* The coin is thrown again until it is lost: the item is in layers 0 .. top.
skiplist_insert(key, v) ==
  IF prev_item(key) = key
  THEN skl' = [skl EXCEPT !.value[key] = v] /\ ret' = skl.value[key]
  ELSE (\E top \in Layers : skl' = Linked(Created(key, v, top), key, top)) /\ ret' = NULL

RECURSIVE Unlinked(_, _, _)
Unlinked(x, key, i) == TAILQ_REMOVE(IF i = 0 THEN x ELSE Unlinked(x, key, i - 1), i, <<key, i>>)

\* The item is freed: what still points to it points to no cell of the list.
Freed(x, key) ==
  LET Kept(c) == IF c \in Wrappers(key) THEN NULL ELSE c
      Alive(f) == Restrict(f, DOMAIN f \ Wrappers(key))
      Others(f) == Restrict(f, DOMAIN f \ {key})
  IN  [x EXCEPT !.next = Alive(@), !.prev = [w \in DOMAIN Alive(@) |-> Kept(@[w])],
                !.last = [i \in Layers |-> Kept(@[i])],
                !.value = Others(@), !.top = Others(@), !.count = @ - 1]

skiplist_remove(key) ==
  IF prev_item(key) = key
  THEN skl' = Freed(Unlinked(skl, key, skl.top[key]), key) /\ ret' = skl.value[key]
  ELSE UNCHANGED skl /\ ret' = NULL
=============================================================================
