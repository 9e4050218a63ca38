-------------------------- MODULE HashTableProofs ---------------------------
(***************************************************************************)
(* The theorems about HashTable.                                           *)
(***************************************************************************)
EXTENDS HashTablePlaces, FiniteSetTheorems

\* Every set of numbers that is not empty has a first one.
LEMMA FirstExists == FirstOK
<1> SUFFICES ASSUME NEW s \in SUBSET Nat, s # {} PROVE First(s) \in s
  BY DEF FirstOK
<1> DEFINE R == OpToRel(<, Nat)
<1>1. IsWellFoundedOn(R, Nat)
  BY NatLessThanWellFounded, Zenon
<1>2. \A x \in Nat, y \in Nat : x < y => <<x, y>> \in R
  BY DEF OpToRel
<1> HIDE DEF R
<1>3. PICK x \in s : \A y \in s : <<y, x>> \notin R
  BY <1>1, WFMin, Zenon
<1>4. ASSUME NEW y \in s PROVE x <= y
  <2>1. x \in Nat /\ y \in Nat
    OBVIOUS
  <2>2. ~(y < x)
    BY <1>2, <1>3, <2>1, Zenon
  <2> QED BY <2>1, <2>2
<1> QED BY <1>3, <1>4, Zenon DEF First

\* Counting the readers: a thread that enters adds one to the status word, one
\* that leaves takes one away, and the others take it at IDLE.
LEMMA StatusStepInv ==
  ASSUME StatusInv, status \in Nat, NEW t \in Threads, Others(t), StatusStep(th[t].pc, th'[t].pc)
  PROVE  StatusInv' /\ status' \in Nat
<1> DEFINE p == th[t].pc
           q == th'[t].pc
<1>d. \A r \in Reading : r \notin Alone
  BY DEF Reading, Alone, Growing, Clearing
<1>f. IsFiniteSet(Readers)
  <2>1. IsFiniteSet(Threads)
    BY TableAssumption DEF TableAssumption
  <2>2. Readers \in SUBSET Threads
    BY DEF Readers
  <2> QED BY <2>1, <2>2, FS_Subset, Zenon
<1>c. Cardinality(Readers) \in Nat /\ (Cardinality(Readers) = 0 <=> Readers = {})
  BY <1>f, FS_CardinalityType, FS_EmptySet
<1>s. \A r : StatusAt(r) \in Nat /\ StatusAt(r) < IDLE
  BY DEF StatusAt, WRITE, GROW, CLEAR, IDLE
<1>1. CASE (p \in Reading <=> q \in Reading) /\ status' = status /\ (p \in Alone <=> q \in Alone)
             /\ (p \in Alone => StatusAt(p) = StatusAt(q))
  <2>1. Readers' = Readers
    BY <1>1 DEF Readers, Others
  <2>2. \A u \in Threads : th'[u].pc \in Alone <=> th[u].pc \in Alone
    BY <1>1 DEF Others
  <2>3. \A u \in Threads : th[u].pc \in Alone => StatusAt(th'[u].pc) = StatusAt(th[u].pc)
    BY <1>1 DEF Others
  <2> QED BY <1>1, <2>1, <2>2, <2>3 DEF StatusInv
<1>2. CASE p \notin Reading \cup Alone /\ q \in Reading /\ status >= IDLE /\ status' = status + 1
  <2>1. Readers' = Readers \cup {t} /\ t \notin Readers
    BY <1>2 DEF Readers, Others
  <2>2. Cardinality(Readers') = Cardinality(Readers) + 1
    BY <1>f, <2>1, FS_AddElement, Zenon
  <2>3. \A u \in Threads : th'[u].pc \notin Alone
    BY <1>2, <1>d DEF Others, StatusInv
  <2> QED BY <1>2, <1>c, <2>2, <2>3 DEF StatusInv, IDLE
<1>3. CASE p \in Reading /\ q \notin Reading \cup Alone /\ status' = status - 1
  <2>1. Readers' = Readers \ {t} /\ t \in Readers
    BY <1>3 DEF Readers, Others
  <2>2. Cardinality(Readers') = Cardinality(Readers) - 1
    BY <1>f, <2>1, FS_RemoveElement, Zenon
  <2>3. status >= IDLE
    BY <2>1 DEF StatusInv, IDLE
  <2>4. \A u \in Threads : th'[u].pc \notin Alone
    BY <1>3, <2>3 DEF Others, StatusInv
  <2>5. Cardinality(Readers) > 0
    BY <2>1, <1>c
  <2> QED BY <1>3, <1>c, <2>2, <2>3, <2>4, <2>5 DEF StatusInv, IDLE
<1>4. CASE p \notin Reading \cup Alone /\ q \in Alone /\ status = IDLE /\ status' = StatusAt(q)
  <2>1. Readers = {} /\ \A u \in Threads : th[u].pc \notin Alone
    BY <1>4, <1>c DEF StatusInv, IDLE
  <2>2. Readers' = {}
    BY <1>4, <1>d, <2>1 DEF Readers, Others
  <2>3. \A u \in Threads : th'[u].pc \in Alone => u = t
    BY <2>1 DEF Others
  <2> QED BY <1>4, <1>s, <2>2, <2>3 DEF StatusInv
<1>5. CASE p \in Alone /\ q \notin Reading \cup Alone /\ status' = IDLE
  <2>1. status < IDLE /\ \A u \in Threads \ {t} : th[u].pc \notin Alone
    BY <1>5, <1>s DEF StatusInv
  <2>2. Readers' = {}
    BY <1>5, <2>1 DEF Readers, Others, StatusInv
  <2>3. \A u \in Threads : th'[u].pc \notin Alone
    BY <1>5, <2>1 DEF Others
  <2> QED BY <1>5, <2>2, <2>3, FS_EmptySet DEF StatusInv, IDLE
<1> QED BY <1>d, <1>1, <1>2, <1>3, <1>4, <1>5 DEF StatusStep

-----------------------------------------------------------------------------
(* The inductive invariant.                                                  *)

IInv == ControlInv /\ ListsInv /\ PlaceInv

\* The first layer, once the types of the table are known to be kept.
LEMMA ControlKept ==
  ASSUME ControlInv, NEW t \in Threads, Control(t), TableOK', size' \in Nat, size <= size',
         size' # size => th[t].pc = "grow_swap"
  PROVE  ControlInv'
<1>1. StatusInv' /\ IterInv' /\ ThreadsOK'
  BY StatusStepInv, IterStepInv DEF ControlInv, Control, TableOK
<1>2. size' # size => \A u \in Threads \ {t} : th[u].pc # "grow_swap"
  BY NobodyElse DEF ControlInv, Alone, Growing
<1>3. \A u \in Threads : ArgsOK(th[u])'
  BY <1>2, ArgsKept, Zenon DEF ControlInv, Control, TableOK
<1> QED BY <1>1, <1>3 DEF ControlInv

\* The status word stays a natural number: no reader takes it below IDLE.
LEMMA StatusNext ==
  ASSUME ControlInv, NEW t \in Threads, Control(t)
  PROVE  status' \in Nat
BY StatusStepInv DEF ControlInv, Control, TableOK

\* A step that keeps the size keeps all layers if it keeps the upper ones.
LEMMA SizeKept ==
  ASSUME ControlInv, NEW t \in Threads, Control(t), TableOK', ListsInv', PlaceInv', size' = size
  PROVE  IInv'
<1>1. size' \in Nat /\ size <= size'
  BY DEF ControlInv, TableOK
<1> QED BY <1>1, ControlKept DEF IInv

\* The steps that leave the lists alone keep the invariant,
LEMMA QuietKeeps ==
  ASSUME IInv, NEW t \in Threads, Control(t), Quiet(t)
  PROVE  IInv'
<1>1. ControlInv /\ ListsInv /\ PlaceInv /\ size' = size
  BY DEF IInv, Quiet
<1>2. TableOK' /\ ListsInv'
  BY <1>1, StatusNext, QuietLists
<1>3. PlaceInv'
  BY <1>1, QuietPlace
<1> QED BY <1>1, <1>2, <1>3, SizeKept, ZenonT(30)

\* and so does each action that is such a step.
LEMMA QuietActions ==
  ASSUME IInv, NEW t \in Threads,
         \/ Begin(t) \/ get_list_index(t) \/ get_list_enter(t) \/ get_list_leave(t)
         \/ set_list_enter(t) \/ set_check(t) \/ grow_begin(t) \/ grow_idle(t)
         \/ foreach_begin(t) \/ foreach_end(t) \/ clear_enter(t) \/ clear_end(t) \/ clear_idle(t)
  PROVE  IInv'
<1>1. TableOK /\ ThreadsOK /\ ArgsOK(th[t])
  BY DEF IInv, ControlInv
<1>2. Control(t) /\ Quiet(t)
  BY <1>1, BeginStep, IndexStep, EnterStep, LeaveStep, SetListEnterStep, CheckStep, GrowBeginStep,
     ReturnStep, ForeachBeginStep, ClearEnterStep, ClearEndStep, Zenon
<1> QED BY <1>2, QuietKeeps

\* A thread takes the lock of a list,
LEMMA TakesKeeps ==
  ASSUME IInv, NEW t \in Threads, NEW x, Control(t), Takes(t, x),
         overtaken \/ x = Hash(th[t].key) % size
  PROVE  IInv'
<1>1. ControlInv /\ ListsInv /\ PlaceInv /\ size' = size
  BY DEF IInv, Takes, SameTable
<1>2. TableOK' /\ ListsInv'
  BY <1>1, StatusNext, TakesLists
<1>3. PlaceInv'
  BY <1>1, TakesPlace
<1> QED BY <1>1, <1>2, <1>3, SizeKept

\* as ht_get_list does ...
LEMMA LockKeeps ==
  ASSUME IInv, NEW t \in Threads, get_list_lock(t)
  PROVE  IInv'
<1>1. Control(t) /\ (Quiet(t) \/ Takes(t, th[t].index))
  BY LockKinds DEF IInv
<1>2. overtaken \/ th[t].index = Hash(th[t].key) % size
  BY DEF IInv, PlaceInv, Fitting, ThreadFits, get_list_lock
<1>3. CASE Quiet(t)
  BY <1>1, <1>3, QuietKeeps
<1>4. CASE Takes(t, th[t].index)
  BY <1>1, <1>2, <1>4, TakesKeeps
<1> QED BY <1>1, <1>3, <1>4

\* ... and ht_set_list, which may publish a new list instead.
LEMMA PublishKeeps ==
  ASSUME IInv, NEW t \in Threads, set_list_publish(t)
  PROVE  IInv'
<1> DEFINE x == Hash(th[t].key) % size
<1>1. Control(t) /\ (Publishes(t, x) \/ Takes(t, x))
  BY PublishKinds DEF IInv
<1>2. CASE Takes(t, x)
  BY <1>1, <1>2, TakesKeeps
<1>3. CASE Publishes(t, x)
  <2>1. ControlInv /\ ListsInv /\ PlaceInv /\ size' = size
    BY <1>3 DEF IInv, Publishes
  <2>2. TableOK' /\ ListsInv'
    BY <1>1, <1>3, <2>1, StatusNext, PublishesLists, ZenonT(30)
  <2>3. PlaceInv'
    BY <1>1, <1>3, <2>1, PublishesPlace
  <2> QED BY <1>1, <2>1, <2>2, <2>3, SizeKept, ZenonT(30)
<1> QED BY <1>1, <1>2, <1>3

\* The work of a call on its list.
LEMMA WorkKeeps ==
  ASSUME IInv, NEW t \in Threads, set_internal(t) \/ call_internal(t)
  PROVE  IInv'
<1>1. ControlInv /\ ListsInv /\ PlaceInv
  BY DEF IInv
<1>2. Control(t) /\ Puts(t)
  BY <1>1, WorkPuts, FirstExists
<1>3. TableOK' /\ ListsInv' /\ PlaceInv' /\ size' = size
  BY <1>1, <1>2, StatusNext, PutsLists, PutsPlace, Zenon DEF Puts, SameTable
<1> QED BY <1>1, <1>2, <1>3, SizeKept

\* One list of an iteration.
LEMMA ForeachKeeps ==
  ASSUME IInv, NEW t \in Threads, foreach_list(t)
  PROVE  IInv'
<1>1. ControlInv /\ ListsInv /\ PlaceInv
  BY DEF IInv
<1>2. Control(t) /\ Visits(t)
  BY <1>1, ForeachVisits, FirstExists
<1>3. TableOK' /\ ListsInv' /\ PlaceInv' /\ size' = size
  BY <1>1, <1>2, StatusNext, VisitsLists, VisitsPlace DEF Visits, SameTable
<1> QED BY <1>1, <1>2, <1>3, SizeKept

\* The registration of a new list.
LEMMA RegisterKeeps ==
  ASSUME IInv, NEW t \in Threads, set_list_register(t)
  PROVE  IInv'
<1>1. ControlInv /\ ListsInv /\ PlaceInv /\ TableOK /\ ThreadsOK /\ ArgsOK(th[t]) /\ size' = size
  BY DEF IInv, ControlInv, set_list_register
<1>2. Control(t) /\ Becomes(t, "work", th[t].list) /\ th'[t].new = th[t].new
  BY <1>1, RegisterControl
<1>3. TableOK' /\ ListsInv' /\ PlaceInv'
  BY <1>1, <1>2, RegisterLists, RegisterPlace, ZenonT(30)
<1> QED BY <1>1, <1>2, <1>3, SizeKept

\* The new array of a growth,
LEMMA SwapKeeps ==
  ASSUME IInv, NEW t \in Threads, grow_swap(t)
  PROVE  IInv'
<1>1. ControlInv /\ ListsInv /\ PlaceInv /\ TableOK /\ ThreadsOK /\ ArgsOK(th[t])
  BY DEF IInv, ControlInv
<1>2. /\ Control(t) /\ th[t].pc = "grow_swap" /\ Becomes(t, "grow_list", th[t].list)
      /\ th'[t].new = th[t].new
  BY <1>1, SwapControl
<1>3. TableOK' /\ ListsInv' /\ PlaceInv'
  BY <1>1, <1>2, SwapLists, SwapPlace
<1>4. size' \in Nat /\ size <= size'
  <2>1. size' \in Nat /\ size < size' /\ size \in Nat
    BY <1>1, NewSize DEF TableOK
  <2> QED BY <2>1
<1> QED BY <1>1, <1>2, <1>3, <1>4, ControlKept DEF IInv

\* one item of it,
LEMMA GrowItemKeeps ==
  ASSUME IInv, NEW t \in Threads, grow_item(t)
  PROVE  IInv'
<1>1. ControlInv /\ ListsInv /\ PlaceInv /\ TableOK /\ ThreadsOK /\ ArgsOK(th[t])
  BY DEF IInv, ControlInv
<1>2. Range(iterator_list) \subseteq DOMAIN list
  BY <1>1, OwnedNow DEF ListsInv, Owned
<1>3. /\ Control(t) /\ Becomes(t, "grow_list", th[t].list)
      /\ th'[t].new = IF items[NewBucket] = NULL THEN Append(th[t].new, NewList) ELSE th[t].new
  BY <1>1, <1>2, GrowItemControl, ZenonT(30)
<1>4. TableOK' /\ ListsInv' /\ PlaceInv' /\ size' = size
  BY <1>1, <1>3, GrowItemLists, GrowItemPlace, GrowItemMoves
<1> QED BY <1>1, <1>3, <1>4, SizeKept, ZenonT(30)

\* the end of an emptied list, and of one that is cleared,
LEMMA ReleaseKeeps ==
  ASSUME IInv, NEW t \in Threads, grow_release(t) \/ clear_list(t)
  PROVE  IInv'
<1>1. ControlInv /\ ListsInv /\ PlaceInv /\ TableOK /\ ThreadsOK /\ ArgsOK(th[t])
  BY DEF IInv, ControlInv
<1>2. Control(t) /\ UNCHANGED th
  BY <1>1, StayControl
<1>3. TableOK' /\ ListsInv' /\ PlaceInv'
  BY <1>1, <1>2, ReleaseLists, ReleasePlace, ClearListLists, ClearListPlace
<1>4. size' = size
  BY Zenon DEF grow_release, clear_list
<1> QED BY <1>1, <1>2, <1>3, <1>4, SizeKept, ZenonT(30)

\* and the end of the growth.
LEMMA GrowEndKeeps ==
  ASSUME IInv, NEW t \in Threads, grow_end(t)
  PROVE  IInv'
<1>1. ControlInv /\ ListsInv /\ PlaceInv /\ TableOK /\ ThreadsOK /\ ArgsOK(th[t]) /\ size' = size
  BY DEF IInv, ControlInv, grow_end
<1>2. /\ Control(t) /\ th[t].pc = "grow_list" /\ Becomes(t, "grow_idle", th[t].list)
      /\ th'[t].new = << >>
  BY <1>1, GrowEndControl
<1>3. TableOK' /\ ListsInv' /\ PlaceInv'
  BY <1>1, <1>2, GrowEndLists, GrowEndPlace, ZenonT(30)
<1> QED BY <1>1, <1>2, <1>3, SizeKept

\* The begin of a clear.
LEMMA ClearLockKeeps ==
  ASSUME IInv, NEW t \in Threads, clear_lock(t)
  PROVE  IInv'
<1>1. ControlInv /\ ListsInv /\ PlaceInv /\ TableOK /\ ThreadsOK /\ ArgsOK(th[t]) /\ size' = size
  BY DEF IInv, ControlInv, clear_lock
<1>2. /\ Control(t) /\ th[t].pc = "clear_lock" /\ Becomes(t, "clear_list", th[t].list)
      /\ th'[t].new = th[t].new
  BY <1>1, ClearLockControl
<1>3. TableOK' /\ ListsInv' /\ PlaceInv'
  BY <1>1, <1>2, ClearLockLists, ClearLockPlace, ZenonT(30)
<1> QED BY <1>1, <1>2, <1>3, SizeKept, ZenonT(30)

\* The invariant is inductive.
LEMMA NextKeeps ==
  ASSUME IInv, [Next]_vars
  PROVE  IInv'
<1>1. CASE UNCHANGED vars
  <2>1. ControlInv'
    BY <1>1 DEF IInv, ControlInv, TableOK, ThreadsOK, ArgsOK, StatusInv, Readers, IterInv, vars
  <2>2. ListsInv'
    <3>1. HoldInv' /\ NameInv'
      BY <1>1 DEF IInv, ListsInv, HoldInv, NameInv, vars
    <3>2. ClearInv' /\ GrowInv'
      BY <1>1, ZenonT(30) DEF IInv, ListsInv, ClearInv, GrowInv, vars
    <3>3. Registered'
      BY <1>1, ZenonT(30) DEF IInv, ListsInv, Registered, Waiting, vars
    <3> QED BY <3>1, <3>2, <3>3, ZenonT(30) DEF ListsInv
  <2>3. PlaceInv'
    BY <1>1 DEF IInv, PlaceInv, Fitting, ListsFit, ThreadFits, OldListed, Fits, Old, vars
  <2> QED BY <2>1, <2>2, <2>3, ZenonT(30) DEF IInv
<1>2. ASSUME NEW t \in Threads, Begin(t) \/ Step(t) PROVE IInv'
  BY <1>2, QuietActions, LockKeeps, PublishKeeps, RegisterKeeps, WorkKeeps, SwapKeeps, GrowItemKeeps,
     ReleaseKeeps, GrowEndKeeps, ForeachKeeps, ClearLockKeeps, Zenon DEF Step
<1> QED BY <1>1, <1>2 DEF Next

-----------------------------------------------------------------------------
(* The tables that a program starts with.                                    *)

\* The key that the list was made for, and the value it has.
PresetKey(keys, l) == CHOOSE k \in Range(keys) : Hash(k) % HT_SIZE_MIN = l[2]
PresetValue == CHOOSE v \in Vals : TRUE
PresetItem(keys, l) == [key |-> PresetKey(keys, l), data |-> PresetValue]

\* What ht_init makes of the keys that a table starts with.
LEMMA PresetLists ==
  ASSUME NEW keys \in Presets, ht_init(keys)
  PROVE  /\ iterator_list \in Seq(Names) /\ IsInjective(iterator_list)
         /\ DOMAIN list = Range(iterator_list)
         /\ \A l \in DOMAIN list :
              /\ list[l] \in Buckets /\ list[l].index = l[2] /\ list[l].lock = NULL
              /\ l \in Names /\ l[1] = 0 /\ l[2] < HT_SIZE_MIN
              /\ DOMAIN list[l].items = {1}
              /\ Hash(list[l].items[1].key) % HT_SIZE_MIN = l[2]
         /\ size = HT_SIZE_MIN /\ status = IDLE /\ gen = 0 /\ overtaken = FALSE
         /\ items = [x \in 0 .. HT_SIZE_MIN - 1 |-> IF <<0, x>> \in DOMAIN list THEN <<0, x>> ELSE NULL]
         /\ th = [t \in Threads |-> NoCall] /\ iterator_lock = NULL
<1>1. /\ size = HT_SIZE_MIN /\ status = IDLE /\ gen = 0 /\ overtaken = FALSE
      /\ iterator_list = [i \in DOMAIN keys |-> <<0, Hash(keys[i]) % HT_SIZE_MIN>>]
      /\ list = [l \in Range(iterator_list) |->
                   [index |-> l[2], lock |-> NULL, items |-> <<PresetItem(keys, l)>>]]
      /\ items = [x \in 0 .. HT_SIZE_MIN - 1 |-> IF <<0, x>> \in DOMAIN list THEN <<0, x>> ELSE NULL]
      /\ th = [t \in Threads |-> NoCall] /\ iterator_lock = NULL
  BY Zenon DEF ht_init, PresetItem, PresetKey, PresetValue
<1>2. /\ keys \in Seq(Keys) /\ HT_SIZE_MIN \in Nat \ {0}
      /\ IsInjective([i \in DOMAIN keys |-> hash[keys[i]] % HT_SIZE_MIN])
  BY TableAssumption, Zenon DEF TableAssumption
<1>3. \A k \in Keys : Hash(k) % HT_SIZE_MIN \in Nat /\ Hash(k) % HT_SIZE_MIN < HT_SIZE_MIN
  BY <1>2, TableAssumption DEF TableAssumption, Hash
<1>4. /\ \A i \in DOMAIN keys : keys[i] \in Keys /\ keys[i] \in Range(keys)
      /\ DOMAIN keys = 1 .. Len(keys) /\ Len(keys) \in Nat
  BY <1>2 DEF Range
<1>5. iterator_list \in Seq(Names) /\ DOMAIN iterator_list = DOMAIN keys
  BY <1>1, <1>3, <1>4 DEF Names
<1>6. IsInjective(iterator_list)
  BY <1>1, <1>2, <1>5, ZenonT(30) DEF IsInjective, Hash
<1>7. ASSUME NEW l \in Range(iterator_list)
      PROVE  /\ l \in Names /\ l[1] = 0 /\ l[2] < HT_SIZE_MIN
             /\ PresetKey(keys, l) \in Keys /\ Hash(PresetKey(keys, l)) % HT_SIZE_MIN = l[2]
  <2>1. PICK i \in DOMAIN keys : l = <<0, Hash(keys[i]) % HT_SIZE_MIN>>
    BY <1>1, <1>5 DEF Range
  <2>2. l \in Names /\ l[1] = 0 /\ l[2] < HT_SIZE_MIN /\ l[2] = Hash(keys[i]) % HT_SIZE_MIN
    BY <1>3, <1>4, <2>1, ZenonT(30) DEF Names
  <2>3. PresetKey(keys, l) \in Range(keys) /\ Hash(PresetKey(keys, l)) % HT_SIZE_MIN = l[2]
    BY <1>4, <2>2, Zenon DEF PresetKey
  <2>4. Range(keys) \subseteq Keys
    BY <1>4 DEF Range
  <2> QED BY <2>2, <2>3, <2>4, ZenonT(30)
<1>8. PresetValue \in Vals
  BY TableAssumption, Zenon DEF TableAssumption, PresetValue
<1>9. ASSUME NEW l \in Range(iterator_list)
      PROVE  /\ list[l] \in Buckets /\ list[l].index = l[2] /\ list[l].lock = NULL
             /\ DOMAIN list[l].items = {1} /\ list[l].items[1].key = PresetKey(keys, l)
  <2>1. PresetItem(keys, l) \in Pairs /\ PresetItem(keys, l).key = PresetKey(keys, l)
    BY <1>7, <1>8, Zenon DEF PresetItem, Pairs
  <2>2. PICK s, x : s = <<PresetItem(keys, l)>> /\ x = l[2]
    BY Zenon
  <2>3. s \in Seq(Pairs) /\ DOMAIN s = {1} /\ s[1] = PresetItem(keys, l) /\ x \in Nat
    BY <1>7, <2>1, <2>2 DEF Names
  <2>4. list[l] = [index |-> x, lock |-> NULL, items |-> s]
    BY <1>1, <2>2, Zenon
  <2>5. list[l] \in Buckets /\ list[l].index = x /\ list[l].lock = NULL /\ list[l].items = s
    <3>1. NULL \in Threads \cup {NULL}
      OBVIOUS
    <3>2. [index |-> x, lock |-> NULL, items |-> s] \in Buckets
      BY <2>3, <3>1, Zenon DEF Buckets
    <3>3. /\ [index |-> x, lock |-> NULL, items |-> s].index = x
          /\ [index |-> x, lock |-> NULL, items |-> s].lock = NULL
          /\ [index |-> x, lock |-> NULL, items |-> s].items = s
      BY Zenon
    <3> QED BY <2>4, <3>2, <3>3, Zenon
  <2> QED BY <2>1, <2>2, <2>3, <2>5, Zenon
<1>10. DOMAIN list = Range(iterator_list)
  BY <1>1, Zenon
<1> QED BY <1>1, <1>5, <1>6, <1>7, <1>9, <1>10, ZenonT(30)

\* It holds of every table that a program starts with.
LEMMA InitKeeps == Init => IInv
<1> SUFFICES ASSUME NEW keys \in Presets, ht_init(keys) PROVE IInv
  BY DEF Init
<1>1. /\ iterator_list \in Seq(Names) /\ IsInjective(iterator_list)
      /\ DOMAIN list = Range(iterator_list)
      /\ \A l \in DOMAIN list :
           /\ list[l] \in Buckets /\ list[l].index = l[2] /\ list[l].lock = NULL
           /\ l \in Names /\ l[1] = 0 /\ l[2] < HT_SIZE_MIN
           /\ DOMAIN list[l].items = {1}
           /\ Hash(list[l].items[1].key) % HT_SIZE_MIN = l[2]
      /\ size = HT_SIZE_MIN /\ status = IDLE /\ gen = 0 /\ overtaken = FALSE
      /\ items = [x \in 0 .. HT_SIZE_MIN - 1 |-> IF <<0, x>> \in DOMAIN list THEN <<0, x>> ELSE NULL]
      /\ th = [t \in Threads |-> NoCall] /\ iterator_lock = NULL
  BY PresetLists, Zenon
<1>2. HT_SIZE_MIN \in Nat \ {0} /\ NULL \notin Nat \X Nat
  BY TableAssumption DEF TableAssumption
<1>3. \A t \in Threads : th[t] = NoCall
  BY <1>1
<1>4. NoCall.pc = "idle" /\ NoCall.list = NULL /\ NoCall.new = << >>
  BY Zenon DEF NoCall
<1>5. items \in [0 .. size - 1 -> Listed]
  BY <1>1, <1>2 DEF Listed, Names
<1>6. list \in [DOMAIN list -> Buckets]
  <2>1. list = [l \in DOMAIN list |-> list[l]]
    BY Zenon DEF ht_init
  <2> QED BY <1>1, <2>1
<1>7. TableOK
  BY <1>1, <1>2, <1>5, <1>6, Zenon DEF TableOK, IDLE
<1>8. ThreadsOK
  <2>1. 0 \in Nat /\ << >> \in Seq(Names)
    OBVIOUS
  <2>2. NoCall \in CallStates
    BY <2>1, Zenon DEF NoCall, CallStates, Pcs, Datas, Listed
  <2> QED BY <1>1, <2>2 DEF ThreadsOK
<1>9. ControlInv
  <2>1. \A t \in Threads : ArgsOK(th[t])
    BY <1>3, <1>4, ZenonT(30) DEF ArgsOK
  <2>2. StatusInv
    <3>1. Readers = {} /\ \A t \in Threads : th[t].pc \notin Alone
      BY <1>3, <1>4, ZenonT(30) DEF Readers, Reading, Alone, Growing, Clearing
    <3> QED BY <1>1, <3>1, FS_EmptySet DEF StatusInv, IDLE
  <2>3. IterInv
    BY <1>1, <1>3, <1>4, ZenonT(30) DEF IterInv, Iterating
  <2> QED BY <1>7, <1>8, <2>1, <2>2, <2>3, ZenonT(30) DEF ControlInv
<1>10. \A l \in DOMAIN list : l = <<0, l[2]>> /\ l[2] \in DOMAIN items /\ items[l[2]] = l /\ l[2] \in Nat
  BY <1>1, <1>2 DEF Names
<1>11. ListsInv
  <2>1. HoldInv /\ ClearInv /\ GrowInv
    BY <1>3, <1>4, ZenonT(30) DEF HoldInv, ClearInv, GrowInv
  <2>2. NameInv
    <3>1. \A x \in DOMAIN items : items[x] # NULL => items[x] \in DOMAIN list /\ items[x][2] = x
      BY <1>1, ZenonT(30)
    <3> QED BY <1>1, <1>10, <3>1 DEF NameInv
  <2>3. Registered
    <3>1. \A t \in Threads : Waiting(t) = {} /\ IsInjective(th[t].new)
      BY <1>3, <1>4, RangeEmpty, ZenonT(30) DEF Waiting
    <3>2. UNION {Waiting(t) : t \in Threads} = {}
      BY <3>1
    <3> QED BY <1>1, <3>1, <3>2, ZenonT(30) DEF Registered
  <2> QED BY <2>1, <2>2, <2>3, ZenonT(30) DEF ListsInv
<1>12. PlaceInv
  <2>1. ASSUME NEW l \in DOMAIN list PROVE Fits(l)
    <3>1. l[2] < size /\ items[l[2]] = l
      BY <1>1, <1>10
    <3>2. ASSUME NEW i \in DOMAIN list[l].items PROVE Hash(list[l].items[i].key) % size = l[2]
      <4>1. i = 1
        BY <1>1, Zenon
      <4> QED BY <1>1, <4>1, Zenon
    <3> QED BY <3>1, <3>2, ZenonT(30) DEF Fits
  <2>2. (\A t \in Threads : ThreadFits(t)) /\ OldListed
    BY <1>3, <1>4 DEF ThreadFits, OldListed
  <2> QED BY <2>1, <2>2 DEF PlaceInv, Fitting, ListsFit
<1> QED BY <1>9, <1>11, <1>12, ZenonT(30) DEF IInv

-----------------------------------------------------------------------------
(* What holds of every table.                                                *)

\* The three layers hold in every reachable state, whatever the number of threads
\* and calls, the keys and their hash, and the sizes of the table.
THEOREM Invariant == Spec => []IInv
<1>1. Init => IInv
  BY InitKeeps
<1>2. IInv /\ [Next]_vars => IInv'
  BY NextKeeps
<1> QED BY <1>1, <1>2, PTL DEF Spec

\* The status word is a readers-writer lock although it is only a number that
\* threads compare and swap: a thread that publishes a list in ht_set_list, grows
\* the table or clears it is alone inside, and from IDLE on the word counts the
\* threads that look up a bucket in ht_get_list.  One thread at a time goes through
\* iterator_list.  Neither lock is left behind: below IDLE some thread is inside,
\* and the holder of iterator_lock is going through the lists.
THEOREM LocksExclude == Spec => [](StatusInv /\ IterInv)
<1>1. IInv => StatusInv /\ IterInv
  BY DEF IInv, ControlInv
<1> QED BY <1>1, Invariant, PTL

\* No list is used after it was freed: one that a call of ht_get_list or
\* ht_set_list has in hand is allocated and locked by that thread, although
\* ht_grow_table and ht_clear free lists, and those in the table and on
\* iterator_list are allocated.
THEOREM ListsStayAlive == Spec => []ListsAlive
<1>1. IInv => ListsAlive
  <2> HAVE IInv
  <2>1. Owned /\ HoldInv /\ NameInv
    BY OwnedNow DEF IInv, ListsInv
  <2>2. Range(iterator_list) \subseteq DOMAIN list /\ Lists \subseteq DOMAIN list
    BY <2>1 DEF Owned, NameInv, Lists
  <2> QED BY <2>1, <2>2 DEF ListsAlive, HoldInv
<1> QED BY <1>1, Invariant, PTL

\* No list leaks and none is freed twice: every allocated list is on
\* iterator_list, or in the hands of the one thread that will put it there in
\* ht_set_list or at the end of ht_grow_table, exactly once.
THEOREM ListsRegistered == Spec => []Registered
<1>1. IInv => Registered
  BY DEF IInv, ListsInv
<1> QED BY <1>1, Invariant, PTL

\* Unless a growth overtook a thread between its computation of a bucket and its
\* use, every item is where ht_get_list looks for its key, during a growth in a
\* list that the growth has still to empty.
THEOREM ItemsPlaced == Spec => []Placed
<1>1. IInv => Placed
  BY PlacedThen DEF IInv
<1> QED BY <1>1, Invariant, PTL
=============================================================================
