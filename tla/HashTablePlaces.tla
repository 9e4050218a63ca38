-------------------------- MODULE HashTablePlaces ---------------------------
(***************************************************************************)
(* The third layer of the proofs about HashTable: every item is in the     *)
(* list that the table holds for the hash of its key; and the kind of step, *)
(* as seen by the layers, that each action is.                             *)
(***************************************************************************)
EXTENDS HashTableLists

\* A list that a growth is still to empty.
Old(l) == l[1] < gen /\ \E t \in Threads : th[t].pc = "grow_list"

\* The list is the one of its bucket, and its items belong there.
Fits(l) ==
  /\ l[2] < size /\ items[l[2]] = l
  /\ \A i \in DOMAIN list[l].items : Hash(list[l].items[i].key) % size = l[2]

ListsFit == \A l \in DOMAIN list : Old(l) \/ Fits(l)

\* The list that a thread has, and the bucket that it is about to look up, are
\* those of its key.
ThreadFits(t) ==
  /\ th[t].list # NULL => Old(th[t].list) \/ Hash(th[t].key) % size = th[t].list[2]
  /\ th[t].pc \in {"enter", "lock"} => th[t].index = Hash(th[t].key) % size

\* The lists that a growth is still to empty are on iterator_list.
OldListed ==
  \A t \in Threads : th[t].pc = "grow_list" =>
    \A l \in DOMAIN list : l[1] < gen => l \in Range(iterator_list)

Fitting == ListsFit /\ (\A t \in Threads : ThreadFits(t)) /\ OldListed
PlaceInv == overtaken \/ Fitting

-----------------------------------------------------------------------------
(* Steps outside a growth change no list from old to current or back.        *)

SameGrowth == gen' = gen /\ \A u \in Threads : th'[u].pc = "grow_list" <=> th[u].pc = "grow_list"

\* Outside a growth a list stays old or current.
LEMMA OldSame ==
  ASSUME SameGrowth, NEW l
  PROVE  Old(l)' <=> Old(l)
BY DEF SameGrowth, Old

\* A step that changes only t and the items of lists has to leave these in place.
LEMMA FitKept ==
  ASSUME ListsInv, NEW t \in Threads, Fitting, SameGrowth, Others(t),
         UNCHANGED <<size, items, iterator_list>>, ThreadFits(t)',
         DOMAIN list' = DOMAIN list, ListsFit'
  PROVE  Fitting'
<1>1. ASSUME NEW u \in Threads PROVE ThreadFits(u)'
  <2>1. CASE u = t
    BY <2>1
  <2>2. CASE u # t
    <3>1. th'[u] = th[u] /\ ThreadFits(u)
      BY <2>2 DEF Others, Fitting
    <3>2. Old(th[u].list)' <=> Old(th[u].list)
      BY <3>1 DEF SameGrowth, Old
    <3> QED BY <3>1, <3>2 DEF ThreadFits
  <2> QED BY <2>1, <2>2
<1>2. OldListed'
  BY DEF SameGrowth, Fitting, OldListed
<1> QED BY <1>1, <1>2 DEF Fitting

\* A step that changes no list keeps the layer.
LEMMA QuietPlace ==
  ASSUME ListsInv, PlaceInv, NEW t \in Threads, Control(t), Quiet(t)
  PROVE  PlaceInv'
<1>1. CASE overtaken
  BY <1>1 DEF Quiet, PlaceInv
<1>2. CASE Fitting
  <2>1. SameGrowth /\ Others(t)
    BY DEF Quiet, SameGrowth, Control, Others
  <2>2. ThreadFits(t)'
    <3>1. ThreadFits(t)
      BY <1>2 DEF Fitting
    <3>2. th'[t].list # NULL => th'[t].list = th[t].list /\ th'[t].key = th[t].key
      BY DEF Quiet
    <3>3. th'[t].list # NULL => Old(th[t].list)' \/ Hash(th'[t].key) % size = th'[t].list[2]
      BY <2>1, <3>1, <3>2 DEF ThreadFits, SameGrowth, Old
    <3>4. th'[t].pc \in {"enter", "lock"} => th'[t].index = Hash(th'[t].key) % size
      BY <3>1 DEF Quiet, ThreadFits
    <3> QED BY <3>3, <3>4 DEF ThreadFits, Quiet
  <2>3. UNCHANGED <<size, items, list, iterator_list>> /\ ListsFit'
    BY <1>2, <2>1, OldSame DEF Quiet, Fitting, ListsFit, Fits
  <2> QED BY <1>2, <2>1, <2>2, <2>3, FitKept DEF PlaceInv
<1> QED BY <1>1, <1>2 DEF PlaceInv

\* A list whose items keep their keys still fits.
LEMMA FitsStill ==
  ASSUME NEW l, NEW its, Fits(l), UNCHANGED <<size, items>>, list'[l].items = its,
         NEW ks, KeysFrom(its, l, ks), \A k \in ks : Hash(k) % size = l[2]
  PROVE  Fits(l)'
BY DEF Fits, KeysFrom

\* A thread that was not overtaken takes the list of its key.
LEMMA TakesPlace ==
  ASSUME ControlInv, ListsInv, PlaceInv, NEW t \in Threads, NEW x, Control(t), Takes(t, x),
         overtaken \/ x = Hash(th[t].key) % size
  PROVE  PlaceInv'
<1>1. CASE overtaken
  BY <1>1 DEF Takes, SameTable, PlaceInv
<1>2. CASE Fitting /\ x = Hash(th[t].key) % size
  <2>1. SameGrowth /\ Others(t)
    BY DEF Takes, SameTable, SameGrowth, Control, Others
  <2>2. /\ UNCHANGED <<size, items, iterator_list>> /\ items[x] # NULL /\ x \in DOMAIN items
        /\ th'[t].list = items[x] /\ th'[t].key = th[t].key /\ th'[t].pc \in {"leave", "work"}
        /\ list' = Locked(t, items[x])
    BY DEF Takes, SameTable
  <2>3. items[x] \in DOMAIN list /\ items[x][2] = x
    BY <2>2 DEF ListsInv, NameInv
  <2>4. ThreadFits(t)'
    BY <1>2, <2>2, <2>3 DEF ThreadFits
  <2>5. Changes(items[x]) /\ list'[items[x]].items = list[items[x]].items
    BY <2>2, <2>3, LockedList, Zenon DEF ControlInv
  <2>6. DOMAIN list' = DOMAIN list /\ \A l \in DOMAIN list : list'[l].items = list[l].items
    BY <2>5 DEF Changes
  <2>7. ListsFit'
    <3>1. \A l \in DOMAIN list : Fits(l) => Fits(l)'
      BY <2>2, <2>6 DEF Fits
    <3> QED BY <1>2, <2>1, <2>6, <3>1, OldSame DEF Fitting, ListsFit
  <2> QED BY <1>2, <2>1, <2>2, <2>4, <2>6, <2>7, FitKept, Zenon DEF PlaceInv
<1> QED BY <1>1, <1>2 DEF PlaceInv

\* It puts its key there and no other.
LEMMA PutsPlace ==
  ASSUME ControlInv, ListsInv, PlaceInv, NEW t \in Threads, Control(t), Puts(t)
  PROVE  PlaceInv'
<1>1. CASE overtaken
  BY <1>1 DEF Puts, SameTable, PlaceInv
<1>2. CASE Fitting
  <2> DEFINE l == th[t].list
  <2>1. SameGrowth /\ Others(t)
    BY DEF Puts, SameTable, SameGrowth, Control, Others
  <2>2. /\ UNCHANGED <<size, items, iterator_list>> /\ th'[t].list = NULL
        /\ th'[t].pc \in {"check", "idle"} /\ th[t].pc = "work"
    BY DEF Puts, SameTable
  <2>3. PICK its \in Seq(Pairs) : Unlocked(t, its) /\ KeysFrom(its, l, {th[t].key})
    BY DEF Puts
  <2>4. l \in DOMAIN list /\ l # NULL
    BY <2>2 DEF ControlInv, ArgsOK, ListsInv, HoldInv
  <2>5. Changes(l) /\ list'[l].items = its
    BY <2>3, <2>4, UnlockedList, Zenon DEF ControlInv
  <2>6. ThreadFits(t)'
    BY <2>2 DEF ThreadFits
  <2>7. DOMAIN list' = DOMAIN list /\ \A m \in DOMAIN list \ {l} : list'[m] = list[m]
    BY <2>5 DEF Changes
  <2>8. ListsFit'
    <3> SUFFICES ASSUME NEW m \in DOMAIN list PROVE Old(m)' \/ Fits(m)'
      BY <2>7 DEF ListsFit
    <3>1. CASE m # l
      <4>1. list'[m] = list[m] /\ (Old(m) \/ Fits(m))
        BY <1>2, <2>7, <3>1 DEF Fitting, ListsFit
      <4> QED BY <2>1, <2>2, <4>1, OldSame DEF Fits
    <3>2. CASE m = l
      <4>1. Old(l) \/ (Fits(l) /\ Hash(th[t].key) % size = l[2])
        BY <1>2, <2>4 DEF Fitting, ListsFit, ThreadFits
      <4>2. CASE Old(l)
        BY <2>1, <3>2, <4>2, OldSame DEF l
      <4>3. CASE Fits(l) /\ Hash(th[t].key) % size = l[2]
        BY <2>2, <2>3, <2>5, <3>2, <4>3, FitsStill, Zenon
      <4> QED BY <4>1, <4>2, <4>3
    <3> QED BY <3>1, <3>2
  <2> QED BY <1>2, <2>1, <2>2, <2>6, <2>7, <2>8, FitKept, Zenon DEF PlaceInv
<1> QED BY <1>1, <1>2 DEF PlaceInv

\* An iteration adds no key to a list.
LEMMA VisitsPlace ==
  ASSUME ControlInv, ListsInv, PlaceInv, NEW t \in Threads, Control(t), Visits(t)
  PROVE  PlaceInv'
<1>1. CASE overtaken
  BY <1>1 DEF Visits, SameTable, PlaceInv
<1>2. CASE Fitting
  <2>1. SameGrowth /\ Others(t)
    BY DEF Visits, SameTable, SameGrowth, Control, Others
  <2>2. /\ UNCHANGED <<size, items, iterator_list>> /\ th'[t].list = th[t].list
        /\ th'[t].pc = "foreach_list" /\ th[t].pc = "foreach_list"
    BY DEF Visits, SameTable
  <2>3. ThreadFits(t)'
    BY <2>2 DEF ThreadFits, ControlInv, ArgsOK
  <2>4. DOMAIN list' = DOMAIN list /\ ListsFit'
    <3>1. CASE UNCHANGED list
      BY <1>2, <2>1, <2>2, <3>1, OldSame DEF Fitting, ListsFit, Fits
    <3>2. ASSUME NEW l \in DOMAIN list, NEW its \in Seq(Pairs),
                 list' = [list EXCEPT ![l].items = its], KeysFrom(its, l, {})
          PROVE  DOMAIN list' = DOMAIN list /\ ListsFit'
      <4>1. Changes(l) /\ list'[l].items = its
        BY <3>2, ItemsList, Zenon DEF ControlInv
      <4>2. DOMAIN list' = DOMAIN list /\ \A m \in DOMAIN list \ {l} : list'[m] = list[m]
        BY <4>1 DEF Changes
      <4>3. ASSUME NEW m \in DOMAIN list, Fits(m) PROVE Fits(m)'
        <5>1. CASE m = l
          <6>1. Fits(l) /\ UNCHANGED <<size, items>>
            BY <2>2, <4>3, <5>1
          <6>2. Fits(l)'
            BY <3>2, <4>1, <6>1 DEF Fits, KeysFrom
          <6> QED BY <5>1, <6>2
        <5>2. CASE m # l
          BY <2>2, <4>2, <4>3, <5>2 DEF Fits
        <5> QED BY <5>1, <5>2
      <4> QED BY <1>2, <2>1, <4>2, <4>3, OldSame DEF Fitting, ListsFit
    <3> QED BY <3>1, <3>2 DEF Visits
  <2> QED BY <1>2, <2>1, <2>2, <2>3, <2>4, FitKept, Zenon DEF PlaceInv
<1> QED BY <1>1, <1>2 DEF PlaceInv

\* A new list is put into the bucket of the key of its thread.
LEMMA PublishesPlace ==
  ASSUME ControlInv, ListsInv, PlaceInv, NEW t \in Threads, Control(t),
         Publishes(t, Hash(th[t].key) % size)
  PROVE  PlaceInv'
<1> DEFINE x == Hash(th[t].key) % size
           l == <<gen, x>>
<1>1. /\ UNCHANGED <<size, iterator_list, gen, overtaken>>
      /\ x \in DOMAIN items /\ items[x] = NULL /\ items' = [items EXCEPT ![x] = l]
      /\ Adds(l, [index |-> x, lock |-> t, items |-> << >>])
      /\ th[t].pc = "publish" /\ th'[t].pc = "register"
      /\ th'[t].list = l /\ th'[t].key = th[t].key
  BY DEF Publishes
<1>2. CASE overtaken
  BY <1>1, <1>2 DEF PlaceInv
<1>3. CASE Fitting
  <2>1. SameGrowth /\ Others(t)
    BY <1>1 DEF SameGrowth, Control, Others
  <2>2. l[1] = gen /\ l[2] = x /\ x < size /\ x \in Nat
    BY <1>1 DEF ControlInv, TableOK
  <2>3. DOMAIN items' = DOMAIN items /\ items'[x] = l /\ \A y \in DOMAIN items \ {x} : items'[y] = items[y]
    BY <1>1 DEF ControlInv, TableOK
  <2> HIDE DEF l
  <2>4. DOMAIN list' = DOMAIN list \cup {l} /\ list'[l].items = << >>
        /\ \A m \in DOMAIN list \ {l} : list'[m] = list[m]
    BY <1>1 DEF Adds, With
  <2>5. \A u \in Threads : th[u].pc # "grow_list" /\ th'[u].pc # "grow_list"
    BY <1>1, <2>1, NoGrowth DEF ControlInv, SameGrowth
  <2> HIDE DEF x
  <2>6. ListsFit'
    <3> SUFFICES ASSUME NEW m \in DOMAIN list' PROVE Fits(m)'
      BY DEF ListsFit
    <3>1. CASE m = l
      BY <1>1, <2>2, <2>3, <2>4, <3>1 DEF Fits
    <3>2. CASE m # l
      <4>1. m \in DOMAIN list /\ list'[m] = list[m] /\ Fits(m) /\ m # NULL /\ m[2] \in Nat
        <5>1. m \in DOMAIN list /\ list'[m] = list[m] /\ m \in Names
          BY <2>4, <3>2 DEF ControlInv, TableOK
        <5> QED BY <1>3, <2>5, <5>1, TableAssumption, Zenon DEF TableAssumption, Names, Fitting, ListsFit, Old
      <4>2. m[2] \in DOMAIN items /\ items[m[2]] = m
        BY <4>1 DEF Fits, ControlInv, TableOK
      <4>3. m[2] # x /\ items'[m[2]] = m
        BY <1>1, <2>3, <4>1, <4>2
      <4> QED BY <1>1, <4>1, <4>3 DEF Fits
    <3> QED BY <3>1, <3>2
  <2>7. ASSUME NEW u \in Threads PROVE ThreadFits(u)'
    <3>1. CASE u = t
      BY <1>1, <2>2, <3>1 DEF ThreadFits, x
    <3>2. CASE u # t
      <4>1. th'[u] = th[u] /\ ThreadFits(u)
        BY <1>3, <2>1, <3>2 DEF Others, Fitting
      <4> QED BY <1>1, <2>5, <4>1 DEF ThreadFits, Old
    <3> QED BY <3>1, <3>2
  <2>8. OldListed'
    BY <2>5 DEF OldListed
  <2> QED BY <2>6, <2>7, <2>8, ZenonT(30) DEF PlaceInv, Fitting
<1> QED BY <1>2, <1>3 DEF PlaceInv

\* The registration moves no item.
LEMMA RegisterPlace ==
  ASSUME ControlInv, ListsInv, PlaceInv, NEW t \in Threads, Control(t), set_list_register(t),
         Becomes(t, "work", th[t].list)
  PROVE  PlaceInv'
<1>1. /\ th[t].pc = "register" /\ th'[t].pc = "work" /\ th'[t].list = th[t].list
      /\ th'[t].key = th[t].key /\ iterator_lock = NULL
      /\ UNCHANGED <<size, items, list, gen, overtaken>>
  BY DEF set_list_register, Becomes
<1>2. CASE overtaken
  BY <1>1, <1>2 DEF PlaceInv
<1>3. CASE Fitting
  <2>1. Others(t) /\ \A u \in Threads : th[u].pc # "grow_list" /\ th'[u].pc # "grow_list"
    <3>1. \A u \in Threads : th[u].pc # "grow_list"
      BY <1>1, TableAssumption DEF TableAssumption, ControlInv, IterInv, Iterating
    <3> QED BY <1>1, <3>1 DEF Control, Others
  <2>2. ListsFit'
    BY <1>1, <1>3, <2>1 DEF Fitting, ListsFit, Old, Fits
  <2>3. \A u \in Threads : ThreadFits(u)'
    BY <1>1, <1>3, <2>1 DEF Fitting, ThreadFits, Old, Others
  <2>4. OldListed'
    BY <2>1 DEF OldListed
  <2> QED BY <2>2, <2>3, <2>4 DEF PlaceInv, Fitting
<1> QED BY <1>2, <1>3 DEF PlaceInv

-----------------------------------------------------------------------------
(* A growth makes all lists old and empties them one item after the other.   *)

\* When the array is replaced, all lists become old; a thread that had computed
\* a bucket with the former size is overtaken if the bucket is another one now.
LEMMA SwapPlace ==
  ASSUME ControlInv, ListsInv, PlaceInv, NEW t \in Threads, Control(t), grow_swap(t),
         th[t].pc = "grow_swap", Becomes(t, "grow_list", th[t].list)
  PROVE  PlaceInv'
<1> SUFFICES ASSUME ~overtaken' PROVE Fitting'
  BY DEF PlaceInv
<1>1. /\ th'[t].pc = "grow_list" /\ th'[t].list = th[t].list /\ gen' = gen + 1
      /\ overtaken' = (overtaken \/ \E u \in Threads : Overtakes(u, size'))
      /\ UNCHANGED <<list, iterator_list>>
  BY DEF grow_swap, Becomes
<1>2. /\ Fitting /\ \A u \in Threads : ~Overtakes(u, size')
  BY <1>1, Zenon DEF PlaceInv
<1>3. gen \in Nat /\ \A l \in DOMAIN list : l[1] <= gen /\ l[1] \in Nat
  BY DEF ListsInv, NameInv, ControlInv, TableOK, Names
<1>4. \A l \in DOMAIN list : Old(l)'
  BY <1>1, <1>3 DEF Old
<1>5. \A u \in Threads \ {t} : th[u].pc \notin Reading \cup Alone
  <2>1. \A u \in Threads : th[u].pc \in Reading \cup Alone => u = t
    BY NobodyElse DEF ControlInv, Alone, Growing
  <2> QED BY <2>1
<1>6. ASSUME NEW u \in Threads PROVE ThreadFits(u)'
  <2>1. th'[u].list # NULL => Old(th[u].list)'
    <3>1. th'[u].list = th[u].list /\ (th[u].list # NULL => th[u].list \in DOMAIN list)
      BY <1>1 DEF Control, Others, ListsInv, HoldInv
    <3> QED BY <1>1, <1>3, <3>1 DEF Old
  <2>2. ASSUME th'[u].pc \in {"enter", "lock"} PROVE th'[u].index = Hash(th'[u].key) % size'
    <3>1. u # t /\ th'[u] = th[u] /\ th[u].pc = "enter"
      BY <1>1, <1>5, <2>2 DEF Control, Others, Reading
    <3> QED BY <1>2, <3>1 DEF Overtakes
  <2> QED BY <2>1, <2>2 DEF ThreadFits
<1>7. OldListed'
  <2>1. Owned
    BY OwnedNow DEF ListsInv
  <2>2. ASSUME NEW u \in Threads PROVE Waiting(u) = {}
    <3>1. th[u].pc # "register" /\ th[u].pc # "grow_list"
      BY <1>2, <1>5 DEF Overtakes, Alone, Growing
    <3>2. th[u].new = << >>
      BY <3>1 DEF ControlInv, ArgsOK
    <3> QED BY <3>1, <3>2, RangeEmpty DEF Waiting
  <2>3. \A l \in DOMAIN list : l \in Range(iterator_list)
    BY <2>1, <2>2 DEF Owned
  <2> QED BY <1>1, <2>3 DEF OldListed
<1> QED BY <1>4, <1>6, <1>7, <1>1 DEF Fitting, ListsFit

\* A growth moves an item to the list of its new bucket.
LEMMA GrowItemPlace ==
  ASSUME ControlInv, ListsInv, PlaceInv, NEW t \in Threads, Control(t), grow_item(t),
         Becomes(t, "grow_list", th[t].list)
  PROVE  PlaceInv'
<1>0. PICK f, m, x : f = FirstList /\ m = NewList /\ x = NewBucket
  OBVIOUS
<1>1. /\ th[t].pc = "grow_list" /\ th'[t].pc = "grow_list" /\ th'[t].list = th[t].list
      /\ iterator_list # << >> /\ Mine(t, f) /\ list[f].items # << >>
      /\ Moves(t) /\ items' = [items EXCEPT ![x] = m]
      /\ UNCHANGED <<size, iterator_list, gen, overtaken>>
  BY <1>0, GrowItemMoves, ZenonT(30) DEF Becomes
<1>2. CASE overtaken
  BY <1>1, <1>2 DEF PlaceInv
<1>3. CASE Fitting
  <2>1. SameGrowth /\ Others(t)
    BY <1>1 DEF SameGrowth, Control, Others
  <2>2. f \in DOMAIN list /\ f[1] < gen /\ Old(f)
    BY <1>0, <1>1, FirstListHeld DEF Old
  <2>3. /\ m # f /\ x \in DOMAIN items /\ x \in Nat /\ x < size
        /\ items[x] # NULL => items[x] = m /\ m \in DOMAIN list
        /\ items[x] = NULL => m \notin DOMAIN list
        /\ FirstItem \in Pairs /\ ToList \in Buckets
    BY <1>0, <1>1, NewListMade DEF ControlInv, TableOK
  <2>4. m[1] = gen /\ m[2] = x /\ Hash(FirstItem.key) % size = x /\ gen \in Nat
    BY <1>0 DEF NewList, NewBucket, ControlInv, TableOK
  <2>5. /\ DOMAIN list' = DOMAIN list \cup {m}
        /\ \A k \in DOMAIN list \ {f, m} : list'[k] = list[k]
        /\ list'[m].items = Append(ToList.items, FirstItem)
    BY <1>0, <1>1 DEF Moves
  <2>6. items'[x] = m /\ \A y \in DOMAIN items \ {x} : items'[y] = items[y]
    BY <1>1, <2>3 DEF ControlInv, TableOK
  <2>7. \A i \in DOMAIN ToList.items : Hash(ToList.items[i].key) % size = x
    <3>1. CASE items[x] = NULL
      <4>1. ToList.items = << >>
        BY <1>0, <3>1, Zenon DEF ToList
      <4> QED BY <4>1
    <3>2. CASE items[x] # NULL
      <4>1. ToList = list[m] /\ m \in DOMAIN list
        BY <1>0, <2>3, <3>2 DEF ToList
      <4>2. Fits(m)
        BY <1>3, <2>4, <4>1 DEF Fitting, ListsFit, Old
      <4> QED BY <2>4, <4>1, <4>2 DEF Fits
    <3> QED BY <3>1, <3>2
  <2>8. Fits(m)'
    <3>1. \A i \in DOMAIN list'[m].items : Hash(list'[m].items[i].key) % size = x
      <4>1. ToList.items \in Seq(Pairs)
        BY <2>3 DEF Buckets
      <4>2. /\ DOMAIN Append(ToList.items, FirstItem) = 1 .. Len(ToList.items) + 1
            /\ \A i \in 1 .. Len(ToList.items) : Append(ToList.items, FirstItem)[i] = ToList.items[i]
            /\ Append(ToList.items, FirstItem)[Len(ToList.items) + 1] = FirstItem
            /\ DOMAIN ToList.items = 1 .. Len(ToList.items) /\ Len(ToList.items) \in Nat
        BY <4>1
      <4> QED BY <2>4, <2>5, <2>7, <4>2
    <3> QED BY <1>1, <2>3, <2>4, <2>6, <3>1, ZenonT(30) DEF Fits
  <2>9. ListsFit'
    <3> SUFFICES ASSUME NEW k \in DOMAIN list \ {f, m} PROVE Old(k)' \/ Fits(k)'
      BY <2>1, <2>2, <2>5, <2>8, OldSame DEF ListsFit
    <3>1. CASE Old(k)
      BY <2>1, <3>1, OldSame, ZenonT(30)
    <3>2. CASE Fits(k)
      <4>1. list'[k] = list[k] /\ k # NULL /\ k[2] \in Nat
        BY <2>5, TableAssumption DEF TableAssumption, ControlInv, TableOK, Names
      <4>2. k[2] \in DOMAIN items /\ items[k[2]] = k
        BY <3>2, <4>1 DEF Fits, ControlInv, TableOK
      <4>3. k[2] # x /\ items'[k[2]] = k
        BY <2>3, <2>6, <4>1, <4>2
      <4> QED BY <1>1, <3>2, <4>1, <4>3 DEF Fits
    <3> QED BY <1>3, <3>1, <3>2 DEF Fitting, ListsFit
  <2>10. ASSUME NEW u \in Threads PROVE ThreadFits(u)'
    <3>1. th'[u].list = th[u].list /\ ThreadFits(u)
      BY <1>1, <1>3, <2>1, ZenonT(30) DEF Others, Fitting
    <3>2. Old(th[u].list)' <=> Old(th[u].list)
      BY <2>1, <3>1, ZenonT(30) DEF SameGrowth, Old
    <3>3. CASE u = t
      <4>1. th[u].list = NULL
        BY <1>1, <3>3, ZenonT(30) DEF ControlInv, ArgsOK
      <4> QED BY <1>1, <3>1, <3>3, <4>1, ZenonT(30) DEF ThreadFits
    <3>4. CASE u # t
      <4>1. th'[u] = th[u]
        BY <2>1, <3>4 DEF Others
      <4> QED BY <1>1, <3>1, <3>2, <4>1 DEF ThreadFits
    <3> QED BY <3>3, <3>4
  <2>11. OldListed'
    BY <1>1, <1>3, <2>1, <2>4, <2>5 DEF SameGrowth, Fitting, OldListed
  <2> QED BY <2>9, <2>10, <2>11, ZenonT(30) DEF PlaceInv, Fitting
<1> QED BY <1>2, <1>3 DEF PlaceInv

\* A list that a growth frees has no items.
LEMMA ReleasePlace ==
  ASSUME ControlInv, ListsInv, PlaceInv, NEW t \in Threads, grow_release(t), UNCHANGED th
  PROVE  PlaceInv'
<1>0. PICK l : l = FirstList
  OBVIOUS
<1>1. /\ th[t].pc = "grow_list" /\ iterator_list # << >>
      /\ list' = Without({l}) /\ iterator_list' = Tail(iterator_list)
      /\ UNCHANGED <<size, items, gen, overtaken>>
  BY <1>0 DEF grow_release, FirstList
<1>2. CASE overtaken
  BY <1>1, <1>2 DEF PlaceInv
<1>3. CASE Fitting
  <2>1. DOMAIN list' = DOMAIN list \ {l} /\ \A m \in DOMAIN list' : list'[m] = list[m]
    BY <1>1 DEF Without, Restrict
  <2>2. Range(iterator_list) = Range(iterator_list') \cup {l}
    BY <1>0, <1>1, RangeTail DEF FirstList, ControlInv, TableOK
  <2>3. SameGrowth
    BY <1>1 DEF SameGrowth
  <2>4. ListsFit'
    <3>1. \A m \in DOMAIN list' : Fits(m) => Fits(m)'
      BY <1>1, <2>1, Zenon DEF Fits
    <3> QED BY <1>3, <2>1, <2>3, <3>1, OldSame DEF Fitting, ListsFit
  <2>5. \A u \in Threads : ThreadFits(u)'
    BY <1>1, <1>3 DEF Fitting, ThreadFits, Old
  <2>6. OldListed'
    BY <1>1, <1>3, <2>1, <2>2 DEF Fitting, OldListed
  <2> QED BY <2>4, <2>5, <2>6 DEF PlaceInv, Fitting
<1> QED BY <1>2, <1>3 DEF PlaceInv

\* At the end of a growth no old list is left.
LEMMA GrowEndPlace ==
  ASSUME ControlInv, ListsInv, PlaceInv, NEW t \in Threads, Control(t), grow_end(t),
         th[t].pc = "grow_list", Becomes(t, "grow_idle", th[t].list)
  PROVE  PlaceInv'
<1>1. /\ th'[t].pc = "grow_idle" /\ th'[t].list = th[t].list /\ iterator_list = << >>
      /\ UNCHANGED <<size, items, list, gen, overtaken>>
  BY DEF grow_end, Becomes
<1>2. CASE overtaken
  BY <1>1, <1>2 DEF PlaceInv
<1>3. CASE Fitting
  <2>1. \A u \in Threads : th'[u].pc # "grow_list"
    <3>1. \A u \in Threads \ {t} : th[u].pc # "grow_list"
      BY NobodyElse DEF ControlInv, Alone, Growing
    <3> QED BY <1>1, <3>1 DEF Control, Others
  <2>2. \A l \in DOMAIN list : ~Old(l)
    <3>1. Range(iterator_list) = {}
      BY <1>1, RangeEmpty
    <3> QED BY <1>3, <3>1 DEF Fitting, OldListed, Old
  <2>3. ListsFit'
    BY <1>1, <1>3, <2>2 DEF Fitting, ListsFit, Fits
  <2>4. ASSUME NEW u \in Threads PROVE ThreadFits(u)'
    <3>1. ThreadFits(u) /\ (th[u].list # NULL => th[u].list \in DOMAIN list)
      BY <1>3, ZenonT(30) DEF Fitting, ListsInv, HoldInv
    <3>2. CASE u = t
      <4>1. th[t].list = NULL
        BY ZenonT(30) DEF ControlInv, ArgsOK
      <4> QED BY <1>1, <3>2, <4>1 DEF ThreadFits
    <3>3. CASE u # t
      <4>1. th'[u] = th[u]
        BY <3>3 DEF Control, Others
      <4> QED BY <1>1, <2>2, <3>1, <4>1, ZenonT(30) DEF ThreadFits
    <3> QED BY <3>2, <3>3
  <2>5. OldListed'
    BY <2>1 DEF OldListed
  <2> QED BY <2>3, <2>4, <2>5 DEF PlaceInv, Fitting
<1> QED BY <1>2, <1>3 DEF PlaceInv

-----------------------------------------------------------------------------
(* A clear takes the lists out of the table one after the other.             *)

\* Where a clear begins no item moves.
LEMMA ClearLockPlace ==
  ASSUME ControlInv, ListsInv, PlaceInv, NEW t \in Threads, Control(t), clear_lock(t),
         th[t].pc = "clear_lock", Becomes(t, "clear_list", th[t].list)
  PROVE  PlaceInv'
<1>1. /\ th'[t].pc = "clear_list" /\ th'[t].list = th[t].list /\ th'[t].key = th[t].key
      /\ UNCHANGED <<size, items, list, iterator_list, overtaken>>
  BY DEF clear_lock, Becomes
<1>2. CASE overtaken
  BY <1>1, <1>2 DEF PlaceInv
<1>3. CASE Fitting
  <2>1. \A u \in Threads : th[u].pc # "grow_list" /\ th'[u].pc # "grow_list"
    <3>1. \A u \in Threads : th[u].pc # "grow_list"
      BY NobodyElse DEF ControlInv, Alone, Growing, Clearing
    <3> QED BY <1>1, <3>1, ZenonT(30) DEF Control, Others
  <2>2. ListsFit'
    BY <1>1, <1>3, <2>1, ZenonT(30) DEF Fitting, ListsFit, Old, Fits
  <2>3. \A u \in Threads : ThreadFits(u)'
    BY <1>1, <1>3, <2>1, ZenonT(30) DEF Fitting, ThreadFits, Old, Control, Others
  <2>4. OldListed'
    BY <2>1 DEF OldListed
  <2> QED BY <2>2, <2>3, <2>4, ZenonT(30) DEF PlaceInv, Fitting
<1> QED BY <1>2, <1>3 DEF PlaceInv

\* A list that a clear frees takes its items with it.
LEMMA ClearListPlace ==
  ASSUME ControlInv, ListsInv, PlaceInv, NEW t \in Threads, clear_list(t), UNCHANGED th
  PROVE  PlaceInv'
<1>0. PICK l : l = FirstList
  OBVIOUS
<1>1. /\ th[t].pc = "clear_list" /\ iterator_list # << >>
      /\ list' = Without({l}) /\ items' = [items EXCEPT ![list[l].index] = NULL]
      /\ UNCHANGED <<size, gen, overtaken>>
  BY <1>0 DEF clear_list, FirstList
<1>2. CASE overtaken
  BY <1>1, <1>2 DEF PlaceInv
<1>3. CASE Fitting
  <2>1. DOMAIN list' = DOMAIN list \ {l} /\ \A m \in DOMAIN list' : list'[m] = list[m]
    BY <1>1 DEF Without, Restrict
  <2>2. \A u \in Threads : th[u].pc # "grow_list"
    BY <1>1, NobodyElse DEF ControlInv, Alone, Growing, Clearing
  <2>3. l \in DOMAIN list /\ list[l].index = l[2]
    <3>1. Owned /\ l \in Range(iterator_list)
      BY <1>0, <1>1, OwnedNow, RangeTail DEF ListsInv, FirstList, ControlInv, TableOK
    <3>2. l \in DOMAIN list
      BY <3>1 DEF Owned
    <3> QED BY <3>2 DEF ListsInv, NameInv
  <2>4. \A m \in DOMAIN list : Fits(m) /\ m[2] \in Nat
    BY <1>3, <2>2, Zenon DEF Fitting, ListsFit, Old, ControlInv, TableOK, Names
  <2>5. ASSUME NEW m \in DOMAIN list' PROVE Fits(m)'
    <3>1. m \in DOMAIN list /\ m # l /\ list'[m] = list[m]
      BY <2>1
    <3>2. items[m[2]] = m /\ items[l[2]] = l /\ m[2] \in DOMAIN items
      BY <2>3, <2>4, <3>1 DEF Fits, ControlInv, TableOK
    <3>3. items'[m[2]] = m
      BY <1>1, <2>3, <3>1, <3>2, ZenonT(30) DEF ControlInv, TableOK
    <3> QED BY <1>1, <2>4, <3>1, <3>3 DEF Fits
  <2>6. \A u \in Threads : ThreadFits(u)'
    BY <1>1, <1>3, <2>2 DEF Fitting, ThreadFits, Old
  <2>7. OldListed'
    BY <2>2 DEF OldListed
  <2> QED BY <2>5, <2>6, <2>7 DEF PlaceInv, Fitting, ListsFit
<1> QED BY <1>2, <1>3 DEF PlaceInv

\* What PlaceInv says of every item.
LEMMA PlacedThen ==
  ASSUME ControlInv, PlaceInv
  PROVE  Placed
<1>1. ASSUME Fitting, NEW l \in DOMAIN list, NEW i \in DOMAIN list[l].items
      PROVE  \/ items[Hash(list[l].items[i].key) % size] = l
             \/ status = GROW /\ l[1] < gen
  <2>1. CASE Fits(l)
    BY <2>1 DEF Fits
  <2>2. CASE Old(l)
    BY <2>2 DEF Old, ControlInv, StatusInv, StatusAt, Alone, Growing
  <2> QED BY <1>1, <2>1, <2>2 DEF Fitting, ListsFit
<1> QED BY <1>1 DEF PlaceInv, Placed

-----------------------------------------------------------------------------
(* The kind of step that each action is.                                     *)

\* The thread that works on a list holds it.
LEMMA HeldItems ==
  ASSUME ControlInv, ListsInv, NEW t \in Threads, th[t].pc = "work"
  PROVE  th[t].list \in DOMAIN list /\ list[th[t].list].items \in Seq(Pairs) /\ th[t].key \in Keys
BY ZenonT(30) DEF ControlInv, ArgsOK, ListsInv, HoldInv, TableOK, Buckets

\* set_internal adds or changes an item with the key of the call ...
LEMMA SetPuts ==
  ASSUME FirstOK, ControlInv, ListsInv, NEW t \in Threads, set_internal(t)
  PROVE  \E its \in Seq(Pairs) : Unlocked(t, its) /\ KeysFrom(its, th[t].list, {th[t].key})
<1> DEFINE l == th[t].list
           k == th[t].key
           d == th[t].data
           hit == Found(t)
<1>1. /\ th[t].pc = "work" /\ th[t].op \in Sets
      /\ \/ Unlocked(t, Append(list[l].items, [key |-> k, data |-> d]))
         \/ Unlocked(t, list[l].items)
         \/ hit # {} /\ Unlocked(t, Updated(list[l].items, First(hit), d))
  BY Zenon DEF set_internal, Holds, Updated
<1>2. l \in DOMAIN list /\ list[l].items \in Seq(Pairs) /\ k \in Keys
  BY <1>1, HeldItems, ZenonT(30)
<1>3. d \in Vals
  BY <1>1 DEF ControlInv, ArgsOK
<1>4. hit = {i \in DOMAIN list[l].items : list[l].items[i].key = k}
  BY DEF Found
<1> HIDE DEF l, k, d, hit
<1>5. hit # {} => First(hit) \in DOMAIN list[l].items
  BY <1>2, <1>4, FoundFirst, Zenon
<1>6. /\ KeysFrom(list[l].items, l, {k})
      /\ LET its == Append(list[l].items, [key |-> k, data |-> d])
         IN  its \in Seq(Pairs) /\ KeysFrom(its, l, {k})
      /\ \A n \in DOMAIN list[l].items :
           LET its == Updated(list[l].items, n, d)
           IN  its \in Seq(Pairs) /\ KeysFrom(its, l, {k})
  BY <1>2, <1>3, KeysKept, Zenon
<1> QED BY <1>1, <1>2, <1>5, <1>6, Zenon DEF l, k

\* ... and call_internal changes or removes one,
LEMMA CallPuts ==
  ASSUME FirstOK, ControlInv, ListsInv, NEW t \in Threads, call_internal(t)
  PROVE  \E its \in Seq(Pairs) : Unlocked(t, its) /\ KeysFrom(its, th[t].list, {th[t].key})
<1> DEFINE l == th[t].list
           k == th[t].key
           hit == Found(t)
           d == LeftIn(th[t], list[l].items[First(hit)])
<1>1. /\ th[t].pc = "work"
      /\ \/ Unlocked(t, list[l].items)
         \/ hit # {} /\ Unlocked(t, Removed(list[l].items, First(hit)))
         \/ hit # {} /\ Unlocked(t, Updated(list[l].items, First(hit), d))
  BY ZenonT(30) DEF call_internal, Holds, Updated
<1>2. l \in DOMAIN list /\ list[l].items \in Seq(Pairs) /\ k \in Keys
  BY <1>1, HeldItems, ZenonT(30)
<1>3. hit = {i \in DOMAIN list[l].items : list[l].items[i].key = k}
  BY DEF Found
<1> HIDE DEF l, k, hit
<1>4. hit # {} => First(hit) \in DOMAIN list[l].items
  BY <1>2, <1>3, FoundFirst, Zenon
<1>5. \A n \in DOMAIN list[l].items : list[l].items[n] \in Pairs
  BY <1>2
<1>6. hit # {} => d \in Vals \cup {NULL}
  BY <1>4, <1>5, LeftInType, Zenon
<1> HIDE DEF d
<1>7. NULL \in Vals \cup {NULL}
  OBVIOUS
<1>8. KeysFrom(list[l].items, l, {k})
  BY <1>2, <1>7, KeysKept, Zenon
<1>9. hit # {} => LET its == Updated(list[l].items, First(hit), d)
                  IN  its \in Seq(Pairs) /\ KeysFrom(its, l, {k})
  BY <1>2, <1>4, <1>6, KeysKept, Zenon
<1>10. hit # {} => LET its == Removed(list[l].items, First(hit))
                   IN  its \in Seq(Pairs) /\ KeysFrom(its, l, {k})
  BY <1>2, <1>4, KeysLeft, ZenonT(30)
<1> QED BY <1>1, <1>2, <1>8, <1>9, <1>10, Zenon DEF l, k

\* so that both leave a list with the keys it had and that of the call.
LEMMA WorkPuts ==
  ASSUME FirstOK, ControlInv, ListsInv, NEW t \in Threads, set_internal(t) \/ call_internal(t)
  PROVE  Control(t) /\ Puts(t)
<1>1. /\ Control(t) /\ th[t].pc = "work" /\ th'[t].pc \in {"check", "idle"}
      /\ th'[t].list = NULL /\ th'[t].new = << >>
  BY WorkControl, Zenon DEF ControlInv
<1>2. \E its \in Seq(Pairs) : Unlocked(t, its) /\ KeysFrom(its, th[t].list, {th[t].key})
  BY SetPuts, CallPuts, Zenon
<1>3. SameTable
  BY Zenon DEF set_internal, call_internal, SameTable
<1> QED BY <1>1, <1>2, <1>3 DEF Puts

\* get_list_lock finds no list or takes the one it finds.
LEMMA LockKinds ==
  ASSUME ControlInv, ListsInv, NEW t \in Threads, get_list_lock(t)
  PROVE  Control(t) /\ (Quiet(t) \/ Takes(t, th[t].index))
<1>1. /\ Control(t) /\ Becomes(t, "leave", items[th[t].index]) /\ th'[t].new = th[t].new
      /\ th[t].pc = "lock" /\ th[t].index \in DOMAIN items
  BY LockControl DEF ControlInv
<1>2. SameTable
  BY DEF get_list_lock, SameTable
<1>3. CASE items[th[t].index] = NULL
  BY <1>1, <1>2, <1>3 DEF get_list_lock, Becomes, SameTable, Quiet
<1>4. CASE items[th[t].index] # NULL
  BY <1>1, <1>2, <1>4 DEF get_list_lock, Becomes, Takes
<1> QED BY <1>1, <1>3, <1>4, ZenonT(30)

\* set_list_publish publishes a list or takes the one that is there already.
LEMMA PublishKinds ==
  ASSUME ControlInv, ListsInv, NEW t \in Threads, set_list_publish(t)
  PROVE  LET x == Hash(th[t].key) % size
         IN  Control(t) /\ (Publishes(t, x) \/ Takes(t, x))
<1> DEFINE x == Hash(th[t].key) % size
<1>1. /\ Control(t) /\ th'[t].new = th[t].new /\ th[t].pc = "publish"
      /\ x \in DOMAIN items
      /\ IF items[x] = NULL THEN Becomes(t, "register", <<gen, x>>) ELSE Becomes(t, "work", items[x])
  BY PublishControl DEF ControlInv
<1>2. /\ UNCHANGED <<size, iterator_list, gen, overtaken>>
      /\ IF items[x] = NULL
         THEN /\ items' = [items EXCEPT ![x] = <<gen, x>>]
              /\ list' = With(<<gen, x>>, [index |-> x, lock |-> t, items |-> << >>])
         ELSE Free(items[x]) /\ list' = Locked(t, items[x]) /\ UNCHANGED items
  BY Zenon DEF set_list_publish, set_list_index
<1> HIDE DEF x
<1>3. CASE items[x] = NULL
  <2>1. Becomes(t, "register", <<gen, x>>)
    BY <1>1, <1>3
  <2>2. /\ items' = [items EXCEPT ![x] = <<gen, x>>]
        /\ list' = With(<<gen, x>>, [index |-> x, lock |-> t, items |-> << >>])
    BY <1>2, <1>3, Zenon
  <2>3. Publishes(t, x)
    BY <1>1, <1>2, <1>3, <2>1, <2>2, ZenonT(30) DEF Becomes, Publishes, Adds
  <2> QED BY <1>1, <2>3 DEF x
<1>4. CASE items[x] # NULL
  <2>1. Becomes(t, "work", items[x])
    BY <1>1, <1>4
  <2>2. Free(items[x]) /\ list' = Locked(t, items[x]) /\ UNCHANGED items
    BY <1>2, <1>4, Zenon
  <2>3. Takes(t, x)
    BY <1>1, <1>2, <1>4, <2>1, <2>2, ZenonT(30) DEF Becomes, Takes, SameTable
  <2> QED BY <1>1, <2>3 DEF x
<1> QED BY <1>3, <1>4, ZenonT(30)

\* foreach_list removes at most one item of a list.
LEMMA ForeachVisits ==
  ASSUME FirstOK, ControlInv, ListsInv, NEW t \in Threads, foreach_list(t)
  PROVE  Control(t) /\ Visits(t)
<1> DEFINE l == iterator_list[th[t].at]
           k == th[t].key
           hit == {i \in DOMAIN list[l].items : list[l].items[i].key = k}
<1>1. /\ Control(t) /\ th[t].pc = "foreach_list" /\ Becomes(t, "foreach_list", th[t].list)
      /\ th'[t].new = th[t].new
  BY ForeachControl, Zenon DEF ControlInv
<1>2. SameTable /\ (\/ UNCHANGED list
                    \/ hit # {} /\ list' = [list EXCEPT ![l].items = Removed(list[l].items, First(hit))])
  <2>1. ~(1 < 0)
    OBVIOUS
  <2> QED BY <2>1, Zenon DEF foreach_list, SameTable
<1> HIDE DEF l, k
<1>3. CASE UNCHANGED list
  BY <1>1, <1>2, <1>3 DEF Visits, Becomes
<1>4. CASE l \notin DOMAIN list /\ list' = [list EXCEPT ![l].items = Removed(list[l].items, First(hit))]
  <2>1. UNCHANGED list
    BY <1>4 DEF ControlInv, TableOK
  <2> QED BY <1>3, <2>1
<1>5. CASE /\ hit # {} /\ l \in DOMAIN list
           /\ list' = [list EXCEPT ![l].items = Removed(list[l].items, First(hit))]
  <2>1. list[l].items \in Seq(Pairs)
    BY <1>5 DEF ControlInv, TableOK, Buckets
  <2>2. First(hit) \in DOMAIN list[l].items
    BY <1>5, <2>1, FoundFirst, Zenon
  <2>3. PICK its : its = Removed(list[l].items, First(hit))
    BY Zenon
  <2>4. its \in Seq(Pairs) /\ KeysFrom(its, l, {})
    BY <2>1, <2>2, <2>3, KeysLeft, Zenon
  <2>5. \E m \in DOMAIN list, s \in Seq(Pairs) : list' = [list EXCEPT ![m].items = s] /\ KeysFrom(s, m, {})
    BY <1>5, <2>3, <2>4, Zenon
  <2> QED BY <1>1, <1>2, <2>5, Zenon DEF Visits, Becomes
<1> QED BY <1>2, <1>3, <1>4, <1>5
=============================================================================
