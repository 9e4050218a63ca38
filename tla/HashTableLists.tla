--------------------------- MODULE HashTableLists ---------------------------
(***************************************************************************)
(* The second layer of the proofs about HashTable, continued: the steps    *)
(* that make, register and free bucket lists.                              *)
(***************************************************************************)
EXTENDS HashTableSteps

(* A thread puts a new list in the table, and then registers it.             *)

\* A list is made that does not exist yet.
Adds(l, b) == list' = With(l, b)

\* A list is added to those allocated.
LEMMA AddedList ==
  ASSUME TableOK, NEW l \in Names, NEW b \in Buckets, Adds(l, b)
  PROVE  /\ DOMAIN list' = DOMAIN list \cup {l} /\ list'[l] = b
         /\ list' \in [DOMAIN list' -> Buckets] /\ DOMAIN list' \subseteq Names
         /\ \A m \in DOMAIN list \ {l} : list'[m] = list[m]
BY DEF TableOK, Adds, With

Publishes(t, x) ==
  LET l == <<gen, x>>
  IN  /\ UNCHANGED <<size, iterator_list, gen, overtaken>>
      /\ x \in DOMAIN items /\ items[x] = NULL /\ items' = [items EXCEPT ![x] = l]
      /\ Adds(l, [index |-> x, lock |-> t, items |-> << >>])
      /\ th[t].pc = "publish" /\ th'[t].pc = "register"
      /\ th'[t].list = l /\ th'[t].new = th[t].new /\ th'[t].key = th[t].key

\* set_list_publish adds a list of the current generation, which waits for its
\* registration.
LEMMA PublishesLists ==
  ASSUME ControlInv, ListsInv, NEW t \in Threads, NEW x, Control(t), Publishes(t, x), status' \in Nat
  PROVE  TableOK' /\ ListsInv'
<1> DEFINE l == <<gen, x>>
           b == [index |-> x, lock |-> t, items |-> << >>]
<1>1. x \in DOMAIN items /\ items[x] = NULL /\ x \in Nat /\ gen \in Nat
  BY DEF Publishes, ControlInv, TableOK
<1>2. l \in Names /\ l # NULL /\ l[1] = gen /\ l[2] = x
  BY <1>1, TableAssumption DEF TableAssumption, Names
<1>3. l \notin DOMAIN list
  BY <1>1, <1>2 DEF ListsInv, NameInv
<1>4. b \in Buckets /\ b.index = x /\ b.lock = t
  <2>1. << >> \in Seq(Pairs)
    OBVIOUS
  <2> QED BY <1>1, <2>1, Zenon DEF Buckets
<1>5. /\ UNCHANGED <<size, iterator_list, gen, overtaken>> /\ items' = [items EXCEPT ![x] = l]
      /\ Adds(l, b) /\ th[t].pc = "publish" /\ th'[t].pc = "register"
      /\ th'[t].list = l /\ th'[t].new = th[t].new
  BY DEF Publishes
<1> HIDE DEF l, b
<1>6. /\ DOMAIN list' = DOMAIN list \cup {l} /\ list'[l] = b
      /\ list' \in [DOMAIN list' -> Buckets] /\ DOMAIN list' \subseteq Names
      /\ \A m \in DOMAIN list : list'[m] = list[m]
  BY <1>2, <1>3, <1>4, <1>5, AddedList, Zenon DEF ControlInv
<1>7. /\ items' \in [0 .. size - 1 -> Listed] /\ DOMAIN items' = DOMAIN items
      /\ items'[x] = l /\ \A y \in DOMAIN items \ {x} : items'[y] = items[y]
  BY <1>1, <1>2, <1>5 DEF ControlInv, TableOK, Listed
<1>8. \A u \in Threads : th[u].pc \notin {"grow_list", "clear_list"}
  BY <1>5, NoGrowth DEF ControlInv
<1>9. TableOK'
  BY <1>5, <1>6, <1>7 DEF ControlInv, TableOK
<1>10. HoldInv'
  BY <1>3, <1>4, <1>5, <1>6 DEF ListsInv, HoldInv, Control, Others
<1>11. NameInv'
  <2>1. \A m \in DOMAIN list' :
          /\ list'[m].index = m[2] /\ m[1] <= gen
          /\ m[1] = gen => m[2] \in DOMAIN items /\ items'[m[2]] = m
    <3> SUFFICES ASSUME NEW m \in DOMAIN list'
                 PROVE  /\ list'[m].index = m[2] /\ m[1] <= gen
                        /\ m[1] = gen => m[2] \in DOMAIN items /\ items'[m[2]] = m
      OBVIOUS
    <3>1. CASE m = l
      BY <1>1, <1>2, <1>4, <1>6, <1>7, <3>1
    <3>2. CASE m \in DOMAIN list
      <4>1. /\ list'[m] = list[m] /\ list[m].index = m[2] /\ m[1] <= gen /\ m \in Names
            /\ m[1] = gen => m[2] \in DOMAIN items /\ items[m[2]] = m
        BY <1>6, <3>2 DEF ListsInv, NameInv, ControlInv, TableOK
      <4>2. m # NULL
        BY <4>1, TableAssumption DEF TableAssumption, Names
      <4> QED BY <1>1, <1>7, <4>1, <4>2
    <3> QED BY <1>6, <3>1, <3>2
  <2>2. \A y \in DOMAIN items : items'[y] # NULL => items'[y] \in DOMAIN list' /\ items'[y][2] = y
    <3> SUFFICES ASSUME NEW y \in DOMAIN items, items'[y] # NULL
                 PROVE  items'[y] \in DOMAIN list' /\ items'[y][2] = y
      OBVIOUS
    <3>1. CASE y = x
      BY <1>2, <1>6, <1>7, <3>1
    <3>2. CASE y # x
      <4>1. items'[y] = items[y] /\ items[y] # NULL
        BY <1>7, <3>2
      <4> QED BY <1>6, <4>1 DEF ListsInv, NameInv
    <3> QED BY <3>1, <3>2
  <2> QED BY <1>5, <1>7, <2>1, <2>2 DEF NameInv
<1>12. ClearInv' /\ GrowInv'
  BY <1>5, <1>8 DEF ClearInv, GrowInv, Control, Others
<1>13. Registered'
  <2>1. th[t].new = << >> /\ Waiting(t) = {}
    BY <1>5, RangeEmpty DEF ControlInv, ArgsOK, Waiting
  <2>2. Waiting(t)' = {l} /\ \A u \in Threads \ {t} : Waiting(u)' = Waiting(u)
    BY <1>5 DEF Waiting, Control, Others
  <2>3. \A u \in Threads : th'[u].new = th[u].new
    BY <1>5 DEF Control, Others
  <2>4. Owned
    BY OwnedNow DEF ListsInv
  <2>5. \A u \in Threads : Waiting(u) \subseteq DOMAIN list
    BY <2>4 DEF Owned
  <2>6. \A m : m \in DOMAIN list' <=> m \in Range(iterator_list') \/ \E u \in Threads : m \in Waiting(u)'
    BY <1>5, <1>6, <2>1, <2>2, <2>4 DEF Owned
  <2>7. \A u \in Threads : /\ Waiting(u)' \cap Range(iterator_list') = {}
                           /\ \A v \in Threads \ {u} : Waiting(u)' \cap Waiting(v)' = {}
    BY <1>3, <1>5, <2>2, <2>4, <2>5 DEF Owned
  <2>8. Owned'
    BY <1>5, <2>3, <2>4, <2>6, <2>7 DEF Owned
  <2> QED BY <2>8, OwnedThen
<1> QED BY <1>9, <1>10, <1>11, <1>12, <1>13 DEF ListsInv

\* set_list_register puts it on iterator_list, where it was not.
LEMMA RegisterLists ==
  ASSUME ControlInv, ListsInv, NEW t \in Threads, Control(t), set_list_register(t),
         Becomes(t, "work", th[t].list), th'[t].new = th[t].new
  PROVE  TableOK' /\ ListsInv'
<1> DEFINE l == th[t].list
<1>1. /\ th[t].pc = "register" /\ th'[t].pc = "work" /\ th'[t].list = l /\ th'[t].new = th[t].new
      /\ iterator_lock = NULL /\ iterator_list' = Append(iterator_list, l)
      /\ UNCHANGED <<size, items, list, gen, status, overtaken>>
  BY DEF set_list_register, Becomes
<1>2. Owned /\ l \in Names /\ l \in Waiting(t) /\ th[t].new = << >>
  <2>1. l \in Waiting(t) /\ Owned
    BY <1>1, OwnedNow DEF Waiting, ListsInv
  <2>2. l \in DOMAIN list
    BY <2>1 DEF Owned
  <2> QED BY <1>1, <2>1, <2>2 DEF ControlInv, ArgsOK, TableOK
<1>3. \A u \in Threads : th[u].pc \notin {"grow_list", "clear_list"} /\ th'[u].pc \notin {"grow_list", "clear_list"}
  <2>1. \A u \in Threads : th[u].pc \notin {"grow_list", "clear_list"}
    BY <1>1, TableAssumption DEF TableAssumption, ControlInv, IterInv, Iterating
  <2> QED BY <1>1, <2>1 DEF Control, Others
<1>4. iterator_list \in Seq(Names) /\ iterator_list' \in Seq(Names)
  BY <1>1, <1>2 DEF ControlInv, TableOK
<1>5. Range(iterator_list') = Range(iterator_list) \cup {l} /\ IsInjective(iterator_list')
  <2>1. l \notin Range(iterator_list) /\ IsInjective(iterator_list)
    BY <1>2 DEF Owned
  <2> QED BY <1>1, <1>2, <1>4, <2>1, RangeAppend
<1> HIDE DEF l
<1>6. TableOK'
  BY <1>1, <1>4 DEF ControlInv, TableOK
<1>7. HoldInv' /\ NameInv'
  BY <1>1 DEF ListsInv, HoldInv, NameInv, Control, Others, l
<1>8. ClearInv' /\ GrowInv'
  BY <1>3 DEF ClearInv, GrowInv
<1>9. Registered'
  <2>1. Waiting(t) = {l} /\ Waiting(t)' = {}
    BY <1>1, <1>2, RangeEmpty DEF Waiting, l
  <2>2. \A u \in Threads \ {t} : Waiting(u)' = Waiting(u)
    BY DEF Waiting, Control, Others
  <2>3. \A u \in Threads : th'[u].new = th[u].new
    BY <1>1 DEF Control, Others
  <2>4. \A m : m \in DOMAIN list' <=> m \in Range(iterator_list') \/ \E u \in Threads : m \in Waiting(u)'
    BY <1>1, <1>2, <1>5, <2>1, <2>2 DEF Owned
  <2>5. \A u \in Threads : /\ Waiting(u)' \cap Range(iterator_list') = {}
                           /\ \A v \in Threads \ {u} : Waiting(u)' \cap Waiting(v)' = {}
    <3>1. \A u \in Threads \ {t} : l \notin Waiting(u)
      BY <1>2 DEF Owned
    <3>2. \A u \in Threads : Waiting(u)' \subseteq Waiting(u) /\ l \notin Waiting(u)'
      BY <2>1, <2>2, <3>1
    <3> QED BY <1>2, <1>5, <3>2 DEF Owned
  <2>6. Owned'
    BY <1>2, <1>5, <2>3, <2>4, <2>5 DEF Owned
  <2> QED BY <2>6, OwnedThen
<1> QED BY <1>6, <1>7, <1>8, <1>9 DEF ListsInv

-----------------------------------------------------------------------------
(* A growth: the new array, the lists that are emptied, and the new lists.   *)

\* The array of a growth is larger.
LEMMA NewSize ==
  ASSUME TableOK, NEW t \in Threads, ArgsOK(th[t]), grow_swap(t)
  PROVE  size' \in Nat /\ size < size'
<1>1. /\ max_size \in Nat /\ size \in Nat \ {0}
      /\ max_size = 0 \/ size < max_size
      /\ size' = IF max_size # 0 /\ 2 * size > max_size THEN max_size ELSE 2 * size
  BY TableAssumption DEF TableAssumption, TableOK, ArgsOK, grow_swap
<1> QED BY <1>1

\* grow_swap: all lists are of an earlier generation now, and the array is empty.
LEMMA SwapLists ==
  ASSUME ControlInv, ListsInv, NEW t \in Threads, Control(t), grow_swap(t),
         th[t].pc = "grow_swap", Becomes(t, "grow_list", th[t].list), th'[t].new = th[t].new
  PROVE  TableOK' /\ ListsInv'
<1>1. /\ th'[t].pc = "grow_list" /\ th'[t].list = th[t].list
      /\ gen' = gen + 1 /\ items' = [x \in 0 .. size' - 1 |-> NULL]
      /\ overtaken' \in BOOLEAN /\ UNCHANGED <<status, list, iterator_list>>
  BY DEF grow_swap, Becomes
<1>2. size' \in Nat \ {0} /\ gen \in Nat /\ th[t].list = NULL /\ th[t].new = << >>
  BY NewSize DEF ControlInv, TableOK, ArgsOK
<1>3. Owned /\ \A l \in DOMAIN list : l[1] <= gen /\ l[1] \in Nat
  BY OwnedNow DEF ListsInv, NameInv, ControlInv, TableOK, Names
<1>4. \A u \in Threads : th[u].pc \notin Alone \/ u = t
  BY NobodyElse DEF ControlInv, Alone, Growing
<1>5. TableOK'
  BY <1>1, <1>2 DEF ControlInv, TableOK, Listed
<1>6. HoldInv'
  BY <1>1 DEF ListsInv, HoldInv, Control, Others
<1>7. NameInv'
  <2>1. \A l \in DOMAIN list' : list'[l].index = l[2] /\ l[1] <= gen' /\ l[1] # gen'
    BY <1>1, <1>2, <1>3 DEF ListsInv, NameInv
  <2>2. \A x \in DOMAIN items' : items'[x] = NULL
    BY <1>1
  <2> QED BY <2>1, <2>2 DEF NameInv
<1>8. ClearInv'
  BY <1>1, <1>4 DEF ClearInv, Control, Others, Alone, Clearing
<1>9. GrowInv'
  <2>1. \A x \in DOMAIN items' : items'[x] = NULL
    BY <1>1
  <2>2. \A l \in Range(iterator_list') : l[1] < gen'
    BY <1>1, <1>2, <1>3 DEF Owned
  <2>3. th'[t].new = << >> /\ Range(th'[t].new) = {}
    BY <1>2, RangeEmpty
  <2>4. \A u \in Threads : th'[u].list # NULL => th'[u].list \in DOMAIN list
    BY <1>1 DEF Control, Others, ListsInv, HoldInv
  <2>5. \A u \in Threads : th'[u].list # NULL => th'[u].list[1] < gen'
    BY <1>1, <1>2, <1>3, <2>4
  <2>6. \A u \in Threads : th'[u].pc = "grow_list" => u = t
    BY <1>4 DEF Control, Others, Alone, Growing
  <2> QED BY <2>1, <2>2, <2>3, <2>5, <2>6 DEF GrowInv
<1>10. Registered'
  <2>1. \A u \in Threads : Waiting(u)' = Waiting(u) /\ th'[u].new = th[u].new
    BY <1>1, Zenon DEF Waiting, Control, Others
  <2>2. Owned'
    BY <1>1, <1>3, <2>1 DEF Owned
  <2> QED BY <2>2, OwnedThen
<1> QED BY <1>5, <1>6, <1>7, <1>8, <1>9, <1>10 DEF ListsInv

\* The first list is allocated, made before the growth and in nobody's hands.
LEMMA FirstListHeld ==
  ASSUME ControlInv, ListsInv, NEW t \in Threads, th[t].pc = "grow_list", iterator_list # << >>,
         Mine(t, FirstList)
  PROVE  /\ FirstList \in DOMAIN list /\ FirstList[1] < gen
         /\ \A u \in Threads : th[u].list # FirstList
<1>1. Owned /\ FirstList \in Range(iterator_list) /\ FirstList # NULL
  <2>1. Owned /\ FirstList \in Range(iterator_list) /\ FirstList \in Names
    BY OwnedNow, RangeTail DEF ListsInv, FirstList, ControlInv, TableOK
  <2> QED BY <2>1, TableAssumption DEF TableAssumption, Names
<1>2. FirstList \in DOMAIN list /\ FirstList[1] < gen
  BY <1>1 DEF Owned, ListsInv, GrowInv
<1>3. ASSUME NEW u \in Threads, th[u].list = FirstList PROVE FALSE
  <2>1. list[FirstList].lock = u /\ th[u].pc \in {"leave", "register", "work"}
    BY <1>1, <1>3 DEF ListsInv, HoldInv, ControlInv, ArgsOK
  <2> QED BY <2>1, TableAssumption DEF TableAssumption, Mine
<1> QED BY <1>2, <1>3

\* grow_release frees an emptied list: the array does not have it any more, and
\* nobody holds it.
LEMMA ReleaseLists ==
  ASSUME ControlInv, ListsInv, NEW t \in Threads, Control(t), grow_release(t), UNCHANGED th
  PROVE  TableOK' /\ ListsInv'
<1> DEFINE l == FirstList
<1>1. /\ th[t].pc = "grow_list" /\ iterator_list # << >> /\ Mine(t, l)
      /\ list' = Without({l}) /\ iterator_list' = Tail(iterator_list)
      /\ UNCHANGED <<size, items, status, gen, overtaken>>
  BY DEF grow_release, FirstList
<1>2. l \in DOMAIN list /\ l[1] < gen /\ \A u \in Threads : th[u].list # l
  BY <1>1, FirstListHeld
<1>3. /\ DOMAIN list' = DOMAIN list \ {l} /\ \A m \in DOMAIN list' : list'[m] = list[m]
      /\ list' \in [DOMAIN list' -> Buckets]
  BY <1>1 DEF Without, Restrict, ControlInv, TableOK
<1>4. iterator_list \in Seq(Names) /\ iterator_list' \in Seq(Names)
  BY <1>1 DEF ControlInv, TableOK
<1>5. /\ Owned /\ Range(iterator_list) = Range(iterator_list') \cup {l}
      /\ IsInjective(iterator_list') /\ l \notin Range(iterator_list')
  <2>1. Owned
    BY OwnedNow DEF ListsInv
  <2> QED BY <1>1, <1>4, <2>1, RangeTail DEF Owned, FirstList
<1> HIDE DEF l
<1>6. TableOK'
  BY <1>1, <1>3, <1>4, Zenon DEF ControlInv, TableOK
<1>7. HoldInv'
  BY <1>2, <1>3 DEF ListsInv, HoldInv
<1>8. NameInv'
  <2>1. \A x \in DOMAIN items : items[x] # NULL => items[x] # l
    <3>1. \A x \in DOMAIN items : items[x] # NULL => items[x][1] = gen
      BY <1>1 DEF ListsInv, GrowInv
    <3> QED BY <1>2, <3>1 DEF ControlInv, TableOK
  <2> QED BY <1>1, <1>3, <2>1, Zenon DEF ListsInv, NameInv
<1>9. ClearInv' /\ GrowInv'
  BY <1>1, <1>3, <1>5 DEF ListsInv, ClearInv, GrowInv
<1>10. Registered'
  <2>1. \A u \in Threads : Waiting(u)' = Waiting(u) /\ l \notin Waiting(u)
    BY <1>5 DEF Waiting, Owned
  <2>2. Owned'
    BY <1>3, <1>5, <2>1 DEF Owned
  <2> QED BY <2>2, OwnedThen
<1> QED BY <1>6, <1>7, <1>8, <1>9, <1>10 DEF ListsInv

\* grow_end registers the lists that the growth made.
LEMMA GrowEndLists ==
  ASSUME ControlInv, ListsInv, NEW t \in Threads, Control(t), grow_end(t),
         th[t].pc = "grow_list", Becomes(t, "grow_idle", th[t].list), th'[t].new = << >>
  PROVE  TableOK' /\ ListsInv'
<1>1. /\ th'[t].pc = "grow_idle" /\ th'[t].list = th[t].list
      /\ iterator_list = << >> /\ iterator_list' = th[t].new
      /\ UNCHANGED <<size, items, status, list, gen, overtaken>>
  BY DEF grow_end, Becomes
<1>2. Owned /\ Range(iterator_list) = {}
  BY <1>1, OwnedNow, RangeEmpty DEF ListsInv
<1>3. \A u \in Threads : th'[u].pc \notin {"grow_list", "clear_list"}
  <2>1. \A u \in Threads \ {t} : th[u].pc \notin {"grow_list", "clear_list"}
    BY NobodyElse DEF ControlInv, Alone, Growing, Clearing
  <2> QED BY <1>1, <2>1 DEF Control, Others
<1>4. TableOK'
  BY <1>1 DEF ControlInv, TableOK, ThreadsOK, CallStates
<1>5. HoldInv' /\ NameInv'
  BY <1>1 DEF ListsInv, HoldInv, NameInv, Control, Others
<1>6. ClearInv' /\ GrowInv'
  BY <1>3 DEF ClearInv, GrowInv
<1>7. Registered'
  <2>1. Waiting(t) = Range(iterator_list') /\ Waiting(t)' = {} /\ IsInjective(th'[t].new)
    BY <1>1, RangeEmpty DEF Waiting
  <2>2. \A u \in Threads \ {t} : Waiting(u)' = Waiting(u) /\ th'[u].new = th[u].new
    BY Zenon DEF Waiting, Control, Others
  <2>3. IsInjective(iterator_list') /\ \A u \in Threads : IsInjective(th'[u].new)
    BY <1>1, <1>2, <2>1, <2>2 DEF Owned
  <2>4. \A m : m \in DOMAIN list' <=> m \in Range(iterator_list') \/ \E u \in Threads : m \in Waiting(u)'
    BY <1>1, <1>2, <2>1, <2>2 DEF Owned
  <2>5. \A u \in Threads : /\ Waiting(u)' \cap Range(iterator_list') = {}
                           /\ \A v \in Threads \ {u} : Waiting(u)' \cap Waiting(v)' = {}
    BY <1>2, <2>1, <2>2 DEF Owned
  <2>6. Owned'
    BY <2>3, <2>4, <2>5 DEF Owned
  <2> QED BY <2>6, OwnedThen
<1> QED BY <1>4, <1>5, <1>6, <1>7 DEF ListsInv

\* The list that the item goes to, as it is or as it is made.
ToList == IF items[NewBucket] = NULL THEN [index |-> NewBucket, lock |-> NULL, items |-> << >>]
          ELSE list[NewList]

\* The item is taken off the first list, which t keeps, and is added to the list
\* of its new bucket.
Moves(t) ==
  /\ DOMAIN list' = DOMAIN list \cup {NewList} /\ list' \in [DOMAIN list' -> Buckets]
  /\ \A m \in DOMAIN list \ {FirstList, NewList} : list'[m] = list[m]
  /\ list'[FirstList].index = list[FirstList].index /\ list'[FirstList].lock = t
  /\ list'[FirstList].items = Tail(list[FirstList].items)
  /\ list'[NewList].index = NewBucket /\ list'[NewList].lock = ToList.lock
  /\ list'[NewList].items = Append(ToList.items, FirstItem)

\* The table has a list for the new bucket exactly if that list was made.
LEMMA NewListMade ==
  ASSUME ControlInv, ListsInv, NEW t \in Threads, th[t].pc = "grow_list",
         iterator_list # << >>, Mine(t, FirstList), list[FirstList].items # << >>
  PROVE  /\ NewList \in Names /\ NewList # NULL /\ NewBucket \in DOMAIN items /\ NewBucket \in Nat
         /\ FirstItem \in Pairs /\ NewList # FirstList
         /\ items[NewBucket] # NULL => items[NewBucket] = NewList /\ NewList \in DOMAIN list
         /\ items[NewBucket] = NULL => NewList \notin DOMAIN list
         /\ ToList \in Buckets /\ ToList.index = NewBucket
<1>1. Range(iterator_list) \subseteq DOMAIN list
  BY OwnedNow DEF ListsInv, Owned
<1>2. /\ FirstItem \in Pairs /\ NewBucket \in Nat /\ NewBucket \in DOMAIN items /\ NewList \in Names
      /\ FirstList[1] < gen /\ gen \in Nat /\ FirstList \in Names
  BY <1>1, FirstItemType, FirstListHeld DEF ControlInv, TableOK
<1>3. NewList[1] = gen /\ NewList[2] = NewBucket /\ NewList # NULL /\ NewList # FirstList
  BY <1>2, TableAssumption DEF TableAssumption, Names, NewList
<1>4. ASSUME items[NewBucket] # NULL PROVE items[NewBucket] = NewList /\ NewList \in DOMAIN list
  <2>1. items[NewBucket] \in DOMAIN list /\ items[NewBucket][2] = NewBucket /\ items[NewBucket][1] = gen
    BY <1>2, <1>4 DEF ListsInv, NameInv, GrowInv
  <2>2. items[NewBucket] \in Nat \X Nat
    BY <2>1 DEF ControlInv, TableOK, Names
  <2> QED BY <2>1, <2>2 DEF NewList
<1>5. ASSUME items[NewBucket] = NULL PROVE NewList \notin DOMAIN list
  BY <1>3, <1>5 DEF ListsInv, NameInv
<1>6. ToList \in Buckets /\ ToList.index = NewBucket
  <2>1. CASE items[NewBucket] = NULL
    <3>1. << >> \in Seq(Pairs)
      OBVIOUS
    <3> QED BY <1>2, <2>1, <3>1, Zenon DEF ToList, Buckets
  <2>2. CASE items[NewBucket] # NULL
    BY <1>3, <1>4, <2>2 DEF ToList, ControlInv, TableOK, ListsInv, NameInv
  <2> QED BY <2>1, <2>2
<1> QED BY <1>2, <1>3, <1>4, <1>5, <1>6

\* What grow_item does to the lists.
LEMMA GrowItemMoves ==
  ASSUME ControlInv, ListsInv, NEW t \in Threads, grow_item(t)
  PROVE  /\ Moves(t) /\ items' = [items EXCEPT ![NewBucket] = NewList]
         /\ th[t].pc = "grow_list" /\ iterator_list # << >> /\ Mine(t, FirstList)
         /\ list[FirstList].items # << >>
         /\ UNCHANGED <<size, status, iterator_list, gen, overtaken>>
<1> DEFINE b == [ToList EXCEPT !.items = Append(@, FirstItem)]
           c == [list[FirstList] EXCEPT !.items = Tail(@), !.lock = t]
<1>1. /\ th[t].pc = "grow_list" /\ iterator_list # << >> /\ Mine(t, FirstList)
      /\ list[FirstList].items # << >> /\ items' = [items EXCEPT ![NewBucket] = NewList]
      /\ UNCHANGED <<size, status, iterator_list, gen, overtaken>>
      /\ list' = [With(NewList, b) EXCEPT ![FirstList].items = Tail(@), ![FirstList].lock = t]
  BY Zenon DEF grow_item, FirstList, FirstItem, NewBucket, NewList, ToList
<1>2. FirstList \in DOMAIN list /\ NewList # FirstList /\ NewList \in Names
  BY <1>1, FirstListHeld, NewListMade
<1>3. list[FirstList] \in Buckets /\ ToList \in Buckets /\ ToList.index = NewBucket /\ FirstItem \in Pairs
  BY <1>1, <1>2, NewListMade DEF ControlInv, TableOK
<1>4. Append(ToList.items, FirstItem) \in Seq(Pairs) /\ Tail(list[FirstList].items) \in Seq(Pairs)
  BY <1>1, <1>3 DEF Buckets
<1>5. /\ b \in Buckets /\ b.index = NewBucket /\ b.lock = ToList.lock
      /\ b.items = Append(ToList.items, FirstItem)
  BY <1>3, <1>4, Zenon DEF Buckets
<1>6. /\ c \in Buckets /\ c.index = list[FirstList].index /\ c.lock = t
      /\ c.items = Tail(list[FirstList].items)
  BY <1>3, <1>4, Zenon DEF Buckets
<1>7. With(NewList, b)[FirstList] = list[FirstList] /\ DOMAIN With(NewList, b) = DOMAIN list \cup {NewList}
  BY <1>2 DEF With
<1>8. list' = [With(NewList, b) EXCEPT ![FirstList] = c]
  BY <1>1, <1>7, Zenon
<1> HIDE DEF b, c
<1>9. /\ DOMAIN list' = DOMAIN list \cup {NewList} /\ list'[FirstList] = c /\ list'[NewList] = b
      /\ \A m \in DOMAIN list \ {FirstList, NewList} : list'[m] = list[m]
      /\ list' \in [DOMAIN list' -> Buckets]
  BY <1>2, <1>5, <1>6, <1>8 DEF With, ControlInv, TableOK
<1> QED BY <1>1, <1>5, <1>6, <1>9, Zenon DEF Moves

\* grow_item moves one item to a list of the new generation.
LEMMA GrowItemLists ==
  ASSUME ControlInv, ListsInv, NEW t \in Threads, Control(t), grow_item(t),
         Becomes(t, "grow_list", th[t].list),
         th'[t].new = IF items[NewBucket] = NULL THEN Append(th[t].new, NewList) ELSE th[t].new
  PROVE  TableOK' /\ ListsInv'
<1> DEFINE f == FirstList
           m == NewList
           x == NewBucket
<1>1. /\ th[t].pc = "grow_list" /\ th'[t].pc = "grow_list" /\ th'[t].list = th[t].list
      /\ iterator_list # << >> /\ Mine(t, f) /\ list[f].items # << >>
      /\ Moves(t) /\ items' = [items EXCEPT ![x] = m]
      /\ UNCHANGED <<size, status, iterator_list, gen, overtaken>>
  BY GrowItemMoves DEF Becomes
<1>2. f \in DOMAIN list /\ f[1] < gen /\ (\A u \in Threads : th[u].list # f)
  BY <1>1, FirstListHeld, ZenonT(30)
<1>3. /\ m \in Names /\ m # NULL /\ m # f /\ x \in DOMAIN items /\ x \in Nat
      /\ items[x] # NULL => items[x] = m /\ m \in DOMAIN list
      /\ items[x] = NULL => m \notin DOMAIN list
  BY <1>1, NewListMade, ZenonT(30)
<1>4. m[1] = gen /\ m[2] = x
  BY DEF NewList
<1>5. /\ DOMAIN list' = DOMAIN list \cup {m} /\ list' \in [DOMAIN list' -> Buckets]
      /\ \A k \in DOMAIN list \ {f, m} : list'[k] = list[k]
      /\ list'[f].index = list[f].index /\ list'[m].index = x
  BY <1>1 DEF Moves
<1>6. /\ items' \in [DOMAIN items -> Listed] /\ items'[x] = m
      /\ \A y \in DOMAIN items \ {x} : items'[y] = items[y]
  BY <1>1, <1>3 DEF ControlInv, TableOK, Listed
<1>7. /\ \A u \in Threads : th'[u].list = th[u].list /\ th'[u].pc = th[u].pc
      /\ \A u \in Threads : th[u].pc \in {"grow_list", "clear_list"} => u = t
      /\ \A u \in Threads : th[u].list # NULL => th[u].list[1] < gen
  <2>1. \A u \in Threads : th[u].pc \in {"grow_list", "clear_list"} => u = t
    BY <1>1, NobodyElse, Zenon DEF ControlInv, Alone, Growing, Clearing
  <2> QED BY <1>1, <2>1, ZenonT(30) DEF Control, Others, ListsInv, GrowInv
<1>8. gen \in Nat
  BY DEF ControlInv, TableOK
<1> HIDE DEF f, m, x
<1>9. TableOK'
  <2>1. DOMAIN items' = 0 .. size - 1
    BY <1>6 DEF ControlInv, TableOK
  <2>2. DOMAIN list' \subseteq Names
    BY <1>3, <1>5 DEF ControlInv, TableOK
  <2> QED BY <1>1, <1>5, <1>6, <2>1, <2>2, Zenon DEF ControlInv, TableOK
<1>10. HoldInv'
  <2> SUFFICES ASSUME NEW u \in Threads, th[u].list # NULL
               PROVE  th[u].list \in DOMAIN list' /\ list'[th[u].list].lock = u
    BY <1>7 DEF HoldInv
  <2>1. th[u].list \in DOMAIN list /\ list[th[u].list].lock = u
    BY DEF ListsInv, HoldInv
  <2>2. th[u].list # m /\ th[u].list # f
    BY <1>2, <1>4, <1>7, <1>8
  <2> QED BY <1>5, <2>1, <2>2
<1>11. NameInv'
  <2>1. ASSUME NEW k \in DOMAIN list'
        PROVE  /\ list'[k].index = k[2] /\ k[1] <= gen
               /\ k[1] = gen => k[2] \in DOMAIN items /\ items'[k[2]] = k
    <3>1. CASE k = m
      BY <1>3, <1>4, <1>5, <1>6, <1>8, <3>1
    <3>2. CASE k # m
      <4>1. k \in DOMAIN list /\ list'[k].index = list[k].index
        BY <1>5, <3>2
      <4>2. /\ list[k].index = k[2] /\ k[1] <= gen /\ k \in Nat \X Nat
            /\ k[1] = gen => k[2] \in DOMAIN items /\ items[k[2]] = k
        BY <4>1 DEF ListsInv, NameInv, ControlInv, TableOK, Names
      <4>3. m \in Nat \X Nat
        BY <1>3 DEF Names
      <4>4. k[1] = gen => k[2] # x
        BY <1>4, <3>2, <4>2, <4>3
      <4> QED BY <1>6, <4>1, <4>2, <4>4
    <3> QED BY <3>1, <3>2
  <2>2. ASSUME NEW y \in DOMAIN items, items'[y] # NULL
        PROVE  items'[y] \in DOMAIN list' /\ items'[y][2] = y
    <3>1. CASE y = x
      BY <1>4, <1>5, <1>6, <3>1
    <3>2. CASE y # x
      <4>1. items'[y] = items[y] /\ items[y] # NULL
        BY <1>6, <2>2, <3>2
      <4> QED BY <1>5, <4>1 DEF ListsInv, NameInv
    <3> QED BY <3>1, <3>2
  <2> QED BY <1>1, <1>6, <2>1, <2>2, ZenonT(30) DEF NameInv
<1>12. ClearInv'
  BY <1>1, <1>7 DEF ClearInv
<1>13. Owned /\ th[t].new \in Seq(Names) /\ Waiting(t) = Range(th[t].new)
  BY <1>1, OwnedNow DEF ListsInv, ControlInv, ThreadsOK, CallStates, Waiting
<1>14. /\ Range(th'[t].new) = Range(th[t].new) \cup (IF items[x] = NULL THEN {m} ELSE {})
       /\ IsInjective(th'[t].new)
  <2>1. CASE items[x] = NULL
    <3>1. m \notin Range(th[t].new) /\ IsInjective(th[t].new)
      BY <1>3, <1>13, <2>1 DEF Owned
    <3>2. th'[t].new = Append(th[t].new, m)
      BY <2>1 DEF x, m
    <3>3. /\ Range(Append(th[t].new, m)) = Range(th[t].new) \cup {m}
          /\ IsInjective(Append(th[t].new, m))
      <4>1. th[t].new \in Seq(Names) /\ m \in Names
        BY <1>3, <1>13
      <4> QED BY <3>1, <4>1, RangeAppend
    <3> QED BY <2>1, <3>2, <3>3, Zenon
  <2>2. CASE items[x] # NULL
    BY <1>13, <2>2 DEF Owned, x
  <2> QED BY <2>1, <2>2
<1>15. GrowInv'
  <2>1. \A y \in DOMAIN items' : items'[y] # NULL => items'[y][1] = gen
    BY <1>1, <1>4, <1>6, ZenonT(30) DEF ListsInv, GrowInv
  <2>2. \A l \in Range(th'[t].new) : l[1] = gen
    BY <1>1, <1>4, <1>14 DEF ListsInv, GrowInv
  <2>3. \A l \in Range(iterator_list) : l[1] < gen
    BY <1>1, Zenon DEF ListsInv, GrowInv
  <2> QED BY <1>1, <1>7, <2>1, <2>2, <2>3, Zenon DEF GrowInv
<1>16. Registered'
  <2>1. /\ Waiting(t)' = Waiting(t) \cup (IF items[x] = NULL THEN {m} ELSE {})
        /\ \A u \in Threads \ {t} : Waiting(u)' = Waiting(u) /\ th'[u].new = th[u].new
    BY <1>1, <1>13, <1>14, ZenonT(30) DEF Waiting, Control, Others
  <2>2. \A u \in Threads : IsInjective(th'[u].new)
    BY <1>13, <1>14, <2>1 DEF Owned
  <2>3. \A k : k \in DOMAIN list' <=> k \in Range(iterator_list) \/ \E u \in Threads : k \in Waiting(u)'
    BY <1>3, <1>5, <1>13, <2>1 DEF Owned
  <2>4. \A u \in Threads : /\ Waiting(u)' \cap Range(iterator_list) = {}
                           /\ \A v \in Threads \ {u} : Waiting(u)' \cap Waiting(v)' = {}
    <3>1. CASE items[x] = NULL
      <4>1. m \notin Range(iterator_list) /\ \A u \in Threads : m \notin Waiting(u)
        BY <1>3, <1>13, <3>1, ZenonT(30) DEF Owned
      <4>2. /\ Waiting(t)' = Waiting(t) \cup {m}
            /\ \A u \in Threads \ {t} : Waiting(u)' = Waiting(u)
        BY <2>1, <3>1
      <4>3. \A u \in Threads : Waiting(u)' \cap Range(iterator_list) = {}
        BY <1>13, <4>1, <4>2 DEF Owned
      <4>4. \A u \in Threads : \A v \in Threads \ {u} : Waiting(u)' \cap Waiting(v)' = {}
        BY <1>13, <4>1, <4>2 DEF Owned
      <4> QED BY <4>3, <4>4
    <3>2. CASE items[x] # NULL
      BY <1>13, <2>1, <3>2 DEF Owned
    <3> QED BY <3>1, <3>2
  <2>5. Owned'
    BY <1>1, <1>13, <2>2, <2>3, <2>4, ZenonT(30) DEF Owned
  <2> QED BY <2>5, OwnedThen
<1> QED BY <1>9, <1>10, <1>11, <1>12, <1>15, <1>16, ZenonT(30) DEF ListsInv

-----------------------------------------------------------------------------
(* A clear: from the moment it has iterator_lock no list is current.         *)

\* clear_lock: from here on every list is of an earlier generation.
LEMMA ClearLockLists ==
  ASSUME ControlInv, ListsInv, NEW t \in Threads, Control(t), clear_lock(t),
         th[t].pc = "clear_lock", Becomes(t, "clear_list", th[t].list), th'[t].new = th[t].new
  PROVE  TableOK' /\ ListsInv'
<1>1. /\ th'[t].pc = "clear_list" /\ th'[t].list = th[t].list /\ gen' = gen + 1
      /\ UNCHANGED <<size, items, status, list, iterator_list, overtaken>>
  BY Zenon DEF clear_lock, Becomes
<1>2. gen \in Nat /\ \A l \in DOMAIN list : l[1] <= gen /\ l[1] \in Nat
  BY DEF ListsInv, NameInv, ControlInv, TableOK, Names
<1>old. \A l \in DOMAIN list : l[1] < gen' /\ l[1] <= gen' /\ l[1] # gen'
  BY <1>1, <1>2
<1>3. \A u \in Threads : th'[u].pc # "grow_list"
  <2>1. \A u \in Threads \ {t} : th[u].pc # "grow_list"
    BY NobodyElse, Zenon DEF ControlInv, Alone, Growing, Clearing
  <2> QED BY <1>1, <2>1, ZenonT(30) DEF Control, Others
<1>4. TableOK'
  BY <1>1, <1>2 DEF ControlInv, TableOK
<1>5. HoldInv'
  BY <1>1, ZenonT(30) DEF ListsInv, HoldInv, Control, Others
<1>6. NameInv'
  <2>1. \A l \in DOMAIN list' : list'[l].index = l[2] /\ l[1] <= gen' /\ l[1] # gen'
    BY <1>1, <1>old, ZenonT(30) DEF ListsInv, NameInv
  <2> QED BY <1>1, <2>1, Zenon DEF ListsInv, NameInv
<1>7. ClearInv'
  BY <1>1, <1>old, ZenonT(30) DEF ClearInv
<1>8. GrowInv'
  BY <1>3 DEF GrowInv
<1>9. Registered'
  <2>1. \A u \in Threads : Waiting(u)' = Waiting(u) /\ th'[u].new = th[u].new
    BY <1>1, Zenon DEF Waiting, Control, Others
  <2>2. Owned
    BY OwnedNow DEF ListsInv
  <2>3. Owned'
    BY <1>1, <2>1, <2>2 DEF Owned
  <2> QED BY <2>3, OwnedThen
<1> QED BY <1>4, <1>5, <1>6, <1>7, <1>8, <1>9 DEF ListsInv

\* clear_list takes a list that nobody holds out of the array and frees it.
LEMMA ClearListLists ==
  ASSUME ControlInv, ListsInv, NEW t \in Threads, Control(t), clear_list(t), UNCHANGED th
  PROVE  TableOK' /\ ListsInv'
<1> DEFINE l == FirstList
<1>1. /\ th[t].pc = "clear_list" /\ iterator_list # << >> /\ list[l].lock = NULL
      /\ list' = Without({l}) /\ iterator_list' = Tail(iterator_list)
      /\ items' = [items EXCEPT ![list[l].index] = NULL]
      /\ UNCHANGED <<size, status, gen, overtaken>>
  BY DEF clear_list, FirstList, Free
<1>2. iterator_list \in Seq(Names) /\ iterator_list' \in Seq(Names)
  BY <1>1 DEF ControlInv, TableOK
<1>3. /\ Owned /\ Range(iterator_list) = Range(iterator_list') \cup {l}
      /\ IsInjective(iterator_list') /\ l \notin Range(iterator_list')
  <2>1. Owned
    BY OwnedNow DEF ListsInv
  <2> QED BY <1>1, <1>2, <2>1, RangeTail, Zenon DEF Owned, FirstList
<1>4. l \in DOMAIN list /\ list[l].index = l[2] /\ \A u \in Threads : th[u].list # l
  <2>1. l \in DOMAIN list /\ l # NULL
    <3>1. l \in DOMAIN list /\ l \in Names
      BY <1>3 DEF Owned, ControlInv, TableOK
    <3> QED BY <3>1, TableAssumption DEF TableAssumption, Names
  <2>2. list[l].index = l[2]
    BY <2>1, ZenonT(30) DEF ListsInv, NameInv
  <2>3. \A u \in Threads : th[u].list # l
    BY <1>1, <2>1, TableAssumption, ZenonT(30) DEF TableAssumption, ListsInv, HoldInv
  <2> QED BY <2>1, <2>2, <2>3
<1>5. /\ DOMAIN list' = DOMAIN list \ {l} /\ \A m \in DOMAIN list' : list'[m] = list[m]
      /\ list' \in [DOMAIN list' -> Buckets]
  BY <1>1 DEF Without, Restrict, ControlInv, TableOK
<1>6. /\ items' \in [DOMAIN items -> Listed]
      /\ \A y \in DOMAIN items : items'[y] # NULL => items'[y] = items[y] /\ y # l[2]
  BY <1>1, <1>4, Zenon DEF ControlInv, TableOK, Listed
<1>7. \A u \in Threads : th[u].pc # "grow_list"
  BY <1>1, NobodyElse DEF ControlInv, Alone, Growing, Clearing
<1> HIDE DEF l
<1>8. TableOK'
  <2>1. DOMAIN items' = 0 .. size - 1
    BY <1>6 DEF ControlInv, TableOK
  <2> QED BY <1>1, <1>2, <1>5, <1>6, <2>1, Zenon DEF ControlInv, TableOK
<1>9. HoldInv'
  BY <1>4, <1>5 DEF ListsInv, HoldInv
<1>10. NameInv'
  <2>1. \A m \in DOMAIN list' : list'[m].index = m[2] /\ m[1] <= gen' /\ m[1] # gen'
    <3>1. \A m \in DOMAIN list : list[m].index = m[2] /\ m[1] < gen /\ m[1] \in Nat
      BY <1>1 DEF ListsInv, NameInv, ClearInv, ControlInv, TableOK, Names
    <3>2. gen \in Nat
      BY DEF ControlInv, TableOK
    <3>3. \A m \in DOMAIN list : m[1] <= gen /\ m[1] # gen
      BY <3>1, <3>2
    <3> QED BY <1>1, <1>5, <3>1, <3>3, Zenon
  <2>2. ASSUME NEW y \in DOMAIN items', items'[y] # NULL
        PROVE  items'[y] \in DOMAIN list' /\ items'[y][2] = y
    <3>1. items'[y] = items[y] /\ y # l[2] /\ items[y] # NULL /\ y \in DOMAIN items
      BY <1>6, <2>2
    <3>2. items[y] \in DOMAIN list /\ items[y][2] = y
      BY <3>1 DEF ListsInv, NameInv
    <3> QED BY <1>5, <3>1, <3>2, ZenonT(30)
  <2> QED BY <2>1, <2>2 DEF NameInv
<1>11. ClearInv' /\ GrowInv'
  BY <1>1, <1>5, <1>7 DEF ListsInv, ClearInv, GrowInv
<1>12. Registered'
  <2>1. \A u \in Threads : Waiting(u)' = Waiting(u) /\ l \notin Waiting(u)
    BY <1>3 DEF Waiting, Owned
  <2>2. Owned'
    BY <1>3, <1>5, <2>1 DEF Owned
  <2> QED BY <2>2, OwnedThen
<1> QED BY <1>8, <1>9, <1>10, <1>11, <1>12 DEF ListsInv
=============================================================================
