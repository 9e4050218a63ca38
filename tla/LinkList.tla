------------------------------ MODULE LinkList ------------------------------
(***************************************************************************)
(* The doubly linked list (linklist.c) with the cursor that remembers the  *)
(* entry last picked and its position.  The entries are a sequence; the    *)
(* pointer cur is the index of the entry it points to (0 for NULL) and     *)
(* moves with it, while pos is what the code wrote down.  A call is one    *)
(* step: fetch_entry, move_entry, swap_entries, remove_entry and the calls *)
(* for tags release the list's lock between their parts, and calls of two  *)
(* threads on one list are not modelled.                                   *)
(***************************************************************************)
EXTENDS Integers, Sequences, FiniteSets, SequencesExt

CONSTANTS NULL, FREED
VARIABLES list,   \* items, cur, pos, and down: NULL or a freed value was dereferenced
          ret

LOCAL At(s, p) == s[p + 1]
LOCAL Took(l, i) == IF l.cur = i THEN 0 ELSE IF l.cur > i THEN l.cur - 1 ELSE l.cur
Entry(v) == [value |-> v, list |-> TRUE]
Values(l) == [i \in DOMAIN l.items |-> l.items[i].value]

list_create == list = [items |-> << >>, cur |-> 0, pos |-> 0, down |-> FALSE] /\ ret = NULL

push_entry(l, e) == [l EXCEPT !.items = Append(@, [e EXCEPT !.list = TRUE])]

\* Variant: the position is not moved with the entry.
unshift_entry_Stays(l, e) ==
  [l EXCEPT !.items = <<[e EXCEPT !.list = TRUE]>> \o @, !.cur = IF @ = 0 THEN 0 ELSE @ + 1]

unshift_entry(l, e) ==
  [l EXCEPT !.items = <<[e EXCEPT !.list = TRUE]>> \o @,
            !.cur = IF @ = 0 THEN 0 ELSE @ + 1,
            !.pos = IF l.cur = 0 THEN @ ELSE @ + 1]

\* The three ways to take an entry out give the list without it.
pop_entry(l) ==
  LET n == Len(l.items)
  IN  IF n = 0 THEN l ELSE [l EXCEPT !.items = Front(@), !.cur = Took(l, n)]

shift_entry(l) ==
  IF l.items = << >> THEN l
  ELSE [l EXCEPT !.items = Tail(@), !.cur = Took(l, 1),
                 !.pos = IF l.cur # 1 /\ @ > 0 THEN @ - 1 ELSE @]

\* The index of the entry found at a position, 0 for none: by way of the cursor
\* when it is near, else from the nearer end.
pick_index(l, p) ==
  LET n == Len(l.items)
      near == l.cur # 0 /\ (IF l.pos > p THEN l.pos - p ELSE p - l.pos) < n \div 2
      i == IF near THEN l.cur + (p - l.pos) ELSE p + 1
  IN  IF p >= n \/ i > n \/ i < 1 THEN 0 ELSE i

pick_entry(l, p) ==
  IF pick_index(l, p) = 0 THEN l ELSE [l EXCEPT !.cur = pick_index(l, p), !.pos = p]

remove_entry(l, p) ==
  LET i == pick_index(l, p)
  IN  IF i = 0 THEN l
      ELSE [l EXCEPT !.items = RemoveAt(@, i), !.cur = 0, !.pos = 0]

\* An entry linked behind another one does not learn which list it is in.
insert_entry(l, e, p) ==
  LET n == Len(l.items)
      padded == [l EXCEPT !.items = @ \o [i \in 1 .. p - n |-> Entry(NULL)]]
      picked == pick_entry(l, p - 1)
  IN  CASE p = 0 -> unshift_entry(l, e)
        [] p >= n /\ p > 0 -> push_entry(padded, e)
        [] OTHER -> [picked EXCEPT !.items = InsertAt(@, picked.cur + 1, [e EXCEPT !.list = FALSE])]

\* The entry at a position, and the list without it.
fetched(l, p) == l.items[IF p = 0 THEN 1 ELSE IF p = Len(l.items) - 1 THEN p + 1 ELSE pick_index(l, p)]
fetch_entry(l, p) ==
  IF p = 0 THEN shift_entry(l) ELSE IF p = Len(l.items) - 1 THEN pop_entry(l) ELSE remove_entry(l, p)

move_entry(l, src, dst) ==
  IF src >= Len(l.items) THEN l ELSE insert_entry(fetch_entry(l, src), fetched(l, src), dst)

\* The later entry goes before the earlier one, which then takes its place.
\* Without a later entry, NULL is linked behind another entry, or at the front,
\* where it is ignored and the second entry takes the place.
swap_entries(l, p1, p2) ==
  LET lo == IF p1 < p2 THEN p1 ELSE p2
      hi == IF p1 < p2 THEN p2 ELSE p1
      half == insert_entry(fetch_entry(l, hi), fetched(l, hi), lo)
  IN  CASE p1 = p2 -> l
        [] p1 # p2 /\ hi < Len(l.items) -> insert_entry(fetch_entry(half, lo + 1), fetched(half, lo + 1), hi)
        [] hi >= Len(l.items) /\ lo = 0 /\ Len(l.items) > 1 -> move_entry(l, 1, hi)
        [] OTHER -> [l EXCEPT !.down = TRUE]
-----------------------------------------------------------------------------
Value(l, i) == IF i = 0 THEN NULL ELSE l.items[i].value

list_push_value(v) == list' = push_entry(list, Entry(v)) /\ ret' = 0
list_unshift_value(v) == list' = unshift_entry(list, Entry(v)) /\ ret' = 0
list_pop_value == list' = pop_entry(list) /\ ret' = Value(list, Len(list.items))
list_shift_value == list' = shift_entry(list) /\ ret' = Value(list, IF list.items = << >> THEN 0 ELSE 1)
list_insert_value(v, p) == list' = insert_entry(list, Entry(v), p) /\ ret' = 0
list_pick_value(p) == list' = pick_entry(list, p) /\ ret' = Value(list, pick_index(list, p))

list_fetch_value(p) ==
  IF p >= Len(list.items) THEN UNCHANGED list /\ ret' = NULL
  ELSE list' = fetch_entry(list, p) /\ ret' = fetched(list, p).value

list_move_value(src, dst) ==
  list' = move_entry(list, src, dst) /\ ret' = IF src < Len(list.items) THEN 0 ELSE -1

list_swap_values(p1, p2) ==
  /\ list' = swap_entries(list, p1, p2)
  /\ ret' = IF p1 = p2 THEN -1 ELSE 0

list_subst_value(p, v) ==
  LET i == pick_index(list, p)
  IN  /\ list' = IF i = 0 THEN list ELSE [pick_entry(list, p) EXCEPT !.items[i].value = v]
      /\ ret' = Value(list, i)

list_set_value(p, v) ==
  IF pick_index(list, p) # 0 THEN list_subst_value(p, v)
  ELSE list' = insert_entry(list, Entry(v), p) /\ ret' = NULL

RECURSIVE Cleared(_)
Cleared(l) == IF l.items = << >> THEN l ELSE Cleared(shift_entry(l))
list_clear == list' = Cleared(list) /\ ret' = 0
-----------------------------------------------------------------------------
(* Lists of tagged values.  A value stands for its tag; the entries up to  *)
(* the first with the tag are picked one after the other.                  *)

Tagged(tag) == {i \in DOMAIN list.items : list.items[i].value = tag}
LOCAL First(s) == CHOOSE i \in s : \A j \in s : i <= j
Reads(n) == \E i \in 1 .. n : list.items[i].value = FREED
PickedUpTo(n) == IF n = 0 THEN list ELSE pick_entry(list, n - 1)

\* No tagged value (NULL) leaves the list alone, with the same answer.
list_push_tagged_value(tval) ==
  list' = (IF tval = NULL THEN list ELSE push_entry(list, Entry(tval))) /\ ret' = 0
list_unshift_tagged_value(tval) ==
  list' = (IF tval = NULL THEN list ELSE unshift_entry(list, Entry(tval))) /\ ret' = 0
list_insert_tagged_value(tval, p) ==
  list' = (IF tval = NULL THEN list ELSE insert_entry(list, Entry(tval), p)) /\ ret' = 0
list_pop_tagged_value == list_pop_value
shift_tagged_value == list_shift_value
list_pick_tagged_value(p) == list_pick_value(p)
list_fetch_tagged_value(p) == list_fetch_value(p)

list_get_tagged_value(tag) ==
  LET n == IF Tagged(tag) = {} THEN Len(list.items) ELSE First(Tagged(tag))
  IN  /\ list' = [PickedUpTo(n) EXCEPT !.down = Reads(n)]
      /\ ret' = IF Tagged(tag) = {} THEN NULL ELSE tag

list_get_tagged_values(tag) ==
  LET n == Len(list.items)
  IN  list' = [PickedUpTo(n) EXCEPT !.down = Reads(n)] /\ ret' = Cardinality(Tagged(tag))

\* A value with the tag is replaced.  A new one is appended, and released
\* because list_push_tagged_value returned 0.
list_set_tagged_value(tag) ==
  LET n == IF Tagged(tag) = {} THEN Len(list.items) ELSE First(Tagged(tag))
      seen == [PickedUpTo(n) EXCEPT !.down = Reads(n)]
  IN  /\ list' = IF Tagged(tag) = {} THEN push_entry(seen, Entry(FREED)) ELSE seen
      /\ ret' = IF Tagged(tag) = {} THEN NULL ELSE tag
-----------------------------------------------------------------------------
(* Iteration.  rc[i] is what the callback answers for the i-th item.  A    *)
(* removed item shortens the slice, though it also was counted as visited. *)

RECURSIVE Walk(_, _, _, _, _)
Walk(l, i, idx, length, rc) ==
  IF i > Len(l.items) \/ i = 0 \/ idx >= length THEN [l |-> l, idx |-> idx]
  ELSE LET without == [l EXCEPT !.items = RemoveAt(@, i), !.cur = Took(l, i)]
           r == rc[idx + 1]
       IN  CASE r = 0 -> [l |-> l, idx |-> idx + 1]
             [] r = -2 -> [l |-> without, idx |-> idx + 1]
             [] r = -1 -> Walk(without, i, idx + 1, length - 1, rc)
             [] OTHER -> Walk(l, i + 1, idx + 1, length, rc)

slice_foreach_value(offset, length, rc) ==
  LET w == Walk(pick_entry(list, offset), pick_index(list, offset), 0, length, rc)
  IN  list' = w.l /\ ret' = w.idx

list_foreach_value(rc) == slice_foreach_value(0, Len(list.items), rc)
-----------------------------------------------------------------------------
(* list_quick_sort, on the entries lo .. hi; larger values come first.     *)
(* Values are swapped while both sides have a misplaced one; then entries  *)
(* are linked to the other side of the pivot, through the list it is in.   *)

LOCAL Moved(s, i, j) == InsertAt(RemoveAt(s, i), j, s[i])
LOCAL Exchanged(s, i, j) == [s EXCEPT ![i].value = s[j].value, ![j].value = s[i].value]

RECURSIVE Partition(_, _, _, _)
Partition(s, from, to, pv) ==
  LET left == {i \in from .. pv : i = pv \/ s[i].value <= s[pv].value}
      right == {i \in pv .. to : i = pv \/ s[i].value >= s[pv].value}
      p1 == First(left)
      p2 == CHOOSE i \in right : \A j \in right : i >= j
  IN  CASE p1 = p2 -> [s |-> s, pivot |-> pv, down |-> FALSE]
        [] p1 # p2 /\ (p1 = pv \/ p2 = pv) /\ ~s[pv].list -> [s |-> s, pivot |-> pv, down |-> TRUE]
        [] p1 = pv /\ p2 # pv /\ s[pv].list -> Partition(Moved(s, p2, pv), pv + 1, p2, pv + 1)
        [] p2 = pv /\ p1 # pv /\ s[pv].list -> Partition(Moved(s, p1, pv), p1, pv - 1, pv - 1)
        [] OTHER -> Partition(Exchanged(s, p1, p2), p1 + 1, p2 - 1, pv)

RECURSIVE list_quick_sort(_, _, _, _)
list_quick_sort(s, lo, hi, pv) ==
  IF hi - lo = 1 THEN [s |-> IF s[lo].value < s[hi].value THEN Exchanged(s, lo, hi) ELSE s, down |-> FALSE]
  ELSE LET p == Partition(s, lo, hi, pv)
           l1 == p.pivot - lo
           l2 == hi - p.pivot
           a == IF p.down \/ l1 < 2 THEN [s |-> p.s, down |-> p.down]
                ELSE list_quick_sort(p.s, lo, p.pivot - 1, lo + l1 \div 2)
       IN  IF a.down \/ l2 < 2 THEN a
           ELSE list_quick_sort(a.s, p.pivot + 1, hi, hi - l2 \div 2)

\* The values are numbers here: the comparator is their difference.
list_sort ==
  LET n == Len(list.items)
      sorted == IF n < 2 THEN [s |-> list.items, down |-> FALSE]
                ELSE list_quick_sort(list.items, 1, n, pick_index(list, n \div 2 - 1))
  IN  list' = [items |-> sorted.s, cur |-> 0, pos |-> 0, down |-> sorted.down] /\ ret' = 0
=============================================================================
