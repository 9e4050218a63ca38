--------------------------- MODULE ContainerSeqs ---------------------------
(***************************************************************************)
(* The linked list, the ring buffer, the growing buffer and the priority   *)
(* queue; ref is the plain sequence, or the set, that the container stands *)
(* for, and follows from the calls and what the headers say of them.       *)
(***************************************************************************)
EXTENDS Containers

CONSTANTS FREED, MaxLen, MaxPlaced, ListVals, RbufSize, ByteVals, MINLEN, FASTGROWSIZE,
          SLOWGROWSIZE, LINE_EST, Maxlen, NumItems, PqSize

ll == INSTANCE LinkList WITH list <- s
ring == INSTANCE RBuf WITH rb <- s
flat == INSTANCE FBuf WITH fb <- s
\* Items come in pairs of the same priority.
PqItems == 1 .. NumItems
Prio(x) == (x + 1) \div 2
pqueue == INSTANCE PQueue WITH pq <- s, MaxSize <- PqSize

ASSUME BuffersAssumption ==
  /\ PqSize \in 2 .. NumItems
  /\ MaxLen > 0 /\ RbufSize > 0
  /\ 0 < MINLEN /\ MINLEN < FASTGROWSIZE /\ SLOWGROWSIZE \in 1 .. FASTGROWSIZE /\ Maxlen >= MINLEN

SeqsInit ==
  /\ \/ which = "list" /\ ll!list_create
     \/ which = "ring" /\ \E mode \in {"blocking", "overwrite"} : ring!rbuf_create(mode)
     \/ which = "flat" /\ flat!fbuf_create
     \/ which = "pq" /\ pqueue!pqueue_create
  /\ ref = IF which = "pq" THEN {} ELSE << >>
  /\ out = ret

n == Len(ref)
Places == 0 .. n - 1
Room == n < MaxLen
Filled(p) == ref \o [i \in 1 .. p - n |-> NULL]
Without(p) == RemoveAt(ref, p + 1)
Replaced(p, v) == IF p < n THEN [ref EXCEPT ![p + 1] = v] ELSE ref
Item(p) == IF p \in Places THEN ref[p + 1] ELSE NULL
Min2(a, b) == IF a < b THEN a ELSE b
Holds(v) == v \in ToSet(ref)

\* The sequence becomes r and the call returns v.
Gives(r, v) == ref' = r /\ out' = v

ListEnds ==
  \/ \E v \in ListVals : Room /\ ll!list_push_value(v) /\ Gives(Append(ref, v), 0)
  \/ \E v \in ListVals : Room /\ ll!list_unshift_value(v) /\ Gives(<<v>> \o ref, 0)
  \/ ll!list_pop_value /\ Gives(SubSeq(ref, 1, n - 1), Item(n - 1))
  \/ ll!list_shift_value /\ Gives(SubSeq(ref, 2, n), Item(0))
  \/ ll!list_clear /\ Gives(<< >>, 0)

\* A position behind the end leaves one gap, in a list that has none.
ListPlaces ==
  \/ \E p \in 0 .. n : ll!list_pick_value(p) /\ Gives(ref, Item(p))
  \/ \E p \in 0 .. n : ll!list_fetch_value(p) /\ Gives(IF p = n THEN ref ELSE Without(p), Item(p))
  \/ \E p, q \in Places : ll!list_move_value(p, q) /\ Gives(InsertAt(Without(p), q + 1, Item(p)), 0)
  \/ \E p, q \in Places : /\ ll!list_swap_values(p, q)
                          /\ Gives([ref EXCEPT ![p + 1] = Item(q), ![q + 1] = Item(p)], IF p = q THEN -1 ELSE 0)
  \/ \E p \in 0 .. n + 1, v \in ListVals :
       /\ p > n => n + 1 < MaxLen /\ ~Holds(NULL)
       /\ \/ Room /\ ll!list_insert_value(v, p) /\ Gives(InsertAt(Filled(p), p + 1, v), 0)
          \/ ll!list_subst_value(p, v) /\ Gives(Replaced(p, v), Item(p))
          \/ (p = n => Room) /\ ll!list_set_value(p, v) /\ Gives(IF p < n THEN Replaced(p, v) ELSE Append(Filled(p), v), Item(p))

\* list_set_tagged_value is only called for a tag that is there: a new value is
\* put in the list and released.
ListTags ==
  \/ \E v \in ListVals \cup {NULL} :
       LET inserted(p) == IF v = NULL THEN ref ELSE InsertAt(ref, p, v)
       IN  /\ Room
           /\ \/ ll!list_push_tagged_value(v) /\ Gives(inserted(n + 1), 0)
              \/ ll!list_unshift_tagged_value(v) /\ Gives(inserted(1), 0)
              \/ \E p \in 0 .. n : ll!list_insert_tagged_value(v, p) /\ Gives(inserted(p + 1), 0)
  \/ ll!list_pop_tagged_value /\ Gives(SubSeq(ref, 1, n - 1), Item(n - 1))
  \/ ll!shift_tagged_value /\ Gives(SubSeq(ref, 2, n), Item(0))
  \/ \E p \in 0 .. n : ll!list_pick_tagged_value(p) /\ Gives(ref, Item(p))
  \/ \E p \in Places : ll!list_fetch_tagged_value(p) /\ Gives(Without(p), Item(p))
  \/ \E v \in ListVals :
       \/ ll!list_get_tagged_value(v) /\ Gives(ref, IF Holds(v) THEN v ELSE NULL)
       \/ ll!list_get_tagged_values(v) /\ Gives(ref, Cardinality({p \in Places : Item(p) = v}))
       \/ Holds(v) /\ ll!list_set_tagged_value(v) /\ Gives(ref, v)

\* A callback answers one thing for a while and then another.
Answers == {[i \in 1 .. n |-> IF i < k THEN a ELSE b] : k \in 1 .. Min2(n, 3), a \in {1, -1}, b \in {0, -1, -2}}

\* An iteration over m items from position o on stops behind the first item for
\* which the answer is 0 or -2, and the items answered with -1 or -2 leave.
\* After a removal it may stop earlier, since a slice also loses the item.
Iterated(o, m, rc) ==
  LET full == Min({m} \cup {i \in 1 .. m : rc[i] \in {0, -2}})
      v == IF \E i \in 1 .. full - 1 : rc[i] = -1 THEN Min2(full, ret') ELSE full
      kept == {i \in 1 .. n : ~(i - o \in 1 .. v /\ rc[i - o] < 0)}
  IN  Gives([j \in 1 .. Cardinality(kept) |-> ref[SetToSortSeq(kept, <)[j]]], v)

ListWalks ==
  \E rc \in Answers : \/ ll!list_foreach_value(rc) /\ Iterated(0, n, rc)
                      \/ \E o \in Places : ll!slice_foreach_value(o, 2, rc) /\ Iterated(o, Min2(2, n - o), rc)

ListSort ==
  /\ ToSet(ref) \subseteq ListVals
  /\ ll!list_sort
  /\ Gives(IF s'.down THEN ref ELSE SortSeq(ref, LAMBDA x, y : x > y), 0)

\* Only lists of at most MaxPlaced entries are used in every way.
List ==
  /\ which = "list" /\ ~s.down
  /\ ListEnds \/ ListSort \/ (n <= MaxPlaced /\ (ListPlaces \/ ListTags \/ ListWalks))

\* What a write leaves in the ring buffer, and how much of it was taken: what
\* fits, or everything with the newest bytes kept.
Inputs == UNION {[1 .. k -> ByteVals] : k \in 1 .. RbufSize + 1}
Wrote(data) ==
  LET all == ref \o data
      full == Len(all) > RbufSize
  IN  IF s.mode = "overwrite"
      THEN Gives(IF full THEN SubSeq(all, Len(all) - RbufSize + 1, Len(all)) ELSE all, Len(data))
      ELSE Gives(SubSeq(all, 1, Min2(Len(all), RbufSize)), Min2(Len(data), RbufSize - n))
Read(k) == SubSeq(ref, 1, Min2(k, n))

\* rbuf_skip is called for no more than there is, or for the whole buffer, and
\* rbuf_read_until for no more than there is, or for a byte that is there: they
\* would go on with what was read before.
Skippable(k) == k <= n \/ k > RbufSize

Ring ==
  /\ which = "ring"
  /\ \/ \E data \in Inputs : ring!rbuf_write(data) /\ Wrote(data)
     \/ \E k \in 1 .. RbufSize + 1 : ring!rbuf_read(k) /\ Gives(SubSeq(ref, k + 1, n), Read(k))
     \/ \E k \in 1 .. RbufSize + 1 : Skippable(k) /\ ring!rbuf_skip(k) /\ Gives(SubSeq(ref, k + 1, n), 0)
     \/ \E k \in 1 .. RbufSize + 1, b \in ByteVals :
          /\ k <= n \/ Holds(b)
          /\ ring!rbuf_read_until(b, k)
          /\ LET m == Min({k, n} \cup {i \in 1 .. n : ref[i] = b})
             IN  Gives(SubSeq(ref, m + 1, n), Read(m))
     \/ ring!rbuf_clear /\ Gives(<< >>, 0)

Text == {<<"x">>, <<" ">>, <<"x", " ", "x">>}
Files == {<<"x", "\n">>, <<"x", "x", "\r", "\n">>, <<"x">>}

\* Bytes are only removed from a buffer that has data, and fbuf_nprintf is given
\* the true maximum: otherwise they write through NULL, or behind the end.
Flat ==
  /\ which = "flat"
  /\ \/ flat!Shrink \/ flat!Clear \/ flat!fbuf_detach
     \/ s.len > 0 /\ (flat!fbuf_trim \/ flat!fbuf_rtrim \/ \E k \in 0 .. 3 : flat!Take(k))
     \/ \E k \in 0 .. 3 : flat!fbuf_write(k) \/ flat!fbuf_set_used(k) \/ flat!Extend(Len(s.bytes) + k)
     \/ \E t \in Text : \/ flat!fbuf_add_binary(t) \/ flat!fbuf_prepend_binary(t) \/ flat!fbuf_set(t)
                        \/ flat!fbuf_copy(t) \/ flat!fbuf_printf(t) \/ flat!fbuf_read(t, 3)
                        \/ \E max \in Len(t) .. 3 : flat!fbuf_nprintf(max, t)
     \/ \E f \in Files : flat!fbuf_read_ln(f)
  /\ Gives(ref, ret')

\* All nodes of the trees of a queue.
RECURSIVE Below(_)
Below(nodes) ==
  IF nodes = << >> THEN << >> ELSE <<Head(nodes)>> \o Below(Head(nodes).kids) \o Below(Tail(nodes))
Held(q) == {m.item : m \in ToSet(Below(q.trees))}
Best(set) == {x \in set : \A y \in set : pqueue!HAS_PRECEDENCE(s.mode, x, y)}

\* What the call returned, if it is one of the items in set.
Among(set) == IF ret' \in set \/ (set = {} /\ ret' = NULL) THEN ret' ELSE -1

\* ref is the set of the items.  A full queue drops one item: which one is left
\* open, as long as a best one stays, and so is the one pulled from the low end.
\* pqueue_remove is only called for an item that is not there: it finds none.
Pq ==
  /\ which = "pq"
  /\ \/ \E x \in PqItems \ ref :
          LET all == ref \cup {x}
              gone == all \ Held(s')
          IN  /\ pqueue!pqueue_insert(x)
              /\ ref' = IF Cardinality(all) > PqSize /\ Cardinality(gone) = 1 THEN all \ gone ELSE all
              /\ out' = IF Best(all) \cap ref' # {} THEN 0 ELSE NULL
     \/ \E x \in PqItems \ ref : pqueue!pqueue_remove(x) /\ Gives(ref, -1)
     \/ pqueue!pqueue_pull_highest /\ Gives(ref \ {ret'}, Among(Best(ref)))
     \/ pqueue!pqueue_pull_lowest /\ Gives(ref \ {ret'}, Among(ref))

-----------------------------------------------------------------------------

\* As long as the list remembers an entry, the position it remembers is the
\* place of that entry, whatever was pushed, shifted, inserted, moved, removed,
\* sorted or iterated over since (pick_entry walks from there).
CursorInStep == which = "list" /\ s.cur # 0 => s.cur = s.pos + 1

\* The list is the sequence that its calls describe, and they return what is
\* in it; an iteration takes out exactly the items it was told to, and stops
\* where it should unless it removed one before.  The ring buffer is the queue of
\* the bytes that fit, or of the newest in overwrite mode, its sizes are true,
\* and rbuf_find finds the first occurrence.  The calls are those that ListTags
\* and Ring allow; a list that list_sort brought down is left out.
SequencesAgree ==
  /\ which = "list" /\ ~s.down => ll!Values(s) = ref /\ ret = out
  /\ which = "ring" =>
       /\ ret = out /\ s.used = n /\ s.available = RbufSize - n
       /\ ring!Bytes(n) = ref
       /\ \A b \in ByteVals : LET at == {i \in 1 .. n : ref[i] = b}
                           IN  ring!rbuf_find(b) = IF at = {} THEN -1 ELSE (CHOOSE i \in at : \A j \in at : i <= j) - 1

\* A priority queue keeps its trees in heap order, knows how many items it has
\* and the one to pull next, neither loses nor repeats an item, and pulls one of
\* the highest priority; a full queue drops one item and never its best, and the
\* low end gives an item that was there.
HeapOrdered ==
  which = "pq" =>
    /\ \A m \in ToSet(Below(s.trees)) : \A i \in DOMAIN m.kids :
         pqueue!HAS_PRECEDENCE(s.mode, m.item, m.kids[i].item)
    /\ Held(s) = ref /\ Len(Below(s.trees)) = Cardinality(ref)
    /\ s.count = Cardinality(ref) /\ s.count <= PqSize
    /\ IF ref = {} THEN s.head = NULL ELSE s.head \in Best(ref)
    /\ ret = out

=============================================================================
