----------------------------- MODULE HashTable -----------------------------
(***************************************************************************)
(* The hash table (hashtable.c) used by several threads at once.  status   *)
(* is a readers-writer lock made of compare-and-swaps: below IDLE one      *)
(* thread writes, grows or clears, above it threads look up bucket lists.  *)
(* Every bucket list has a lock of its own, and iterator_list, with its    *)
(* lock, names all of them.  A failed compare-and-swap that is retried     *)
(* leaves nothing behind, so the one that succeeds is the step.            *)
(***************************************************************************)
EXTENDS Integers, Sequences, FiniteSets, Functions

CONSTANTS Threads, Keys, Vals, NULL, HT_SIZE_MIN, max_size,
          hash,            \* the one-at-a-time hash of each key, with the seed of the table
          Presets,         \* the sequences of keys that tables start with
          Args,            \* the values that calls pass
          Picked,          \* the keys that callbacks of iterations pick out
          MaxCalls         \* how many calls each thread makes

\* Values are bytes of the caller, so there is more than one, and none of them
\* is the missing value.  The keys that a table starts with are in buckets of
\* their own.
TableAssumption ==
  /\ IsFiniteSet(Threads) /\ NULL \notin Threads /\ NULL \notin Nat \X Nat
  /\ HT_SIZE_MIN \in Nat \ {0} /\ max_size \in Nat /\ MaxCalls \in Nat
  /\ hash \in [Keys -> Nat]
  /\ Args \subseteq Vals /\ Picked \subseteq Keys /\ NULL \notin Vals
  /\ \E v, w \in Vals : v # w
  /\ \A keys \in Presets :
       /\ keys \in Seq(Keys)
       /\ IsInjective([i \in DOMAIN keys |-> hash[keys[i]] % HT_SIZE_MIN])
ASSUME TableAssumption

CLEAR == 0
WRITE == 1
GROW == 2
IDLE == 3

VARIABLES size, items, status, count,
          list,            \* the bucket lists allocated: index, items, lock
          iterator_list, iterator_lock,
          gen,             \* how often the lists were replaced: <<gen, index>> names a list
          uncounted,       \* items removed by iterations, which do not adjust count
          overtaken,       \* a growth passed a thread whose bucket it changed
          th,              \* the threads: where they are in which call
          calls            \* how many calls each may still make

vars == <<size, items, status, count, list, iterator_list, iterator_lock, gen, uncounted, overtaken, th, calls>>
table == <<size, items, status, count, list, iterator_list, iterator_lock, gen, uncounted, overtaken>>

Hash(k) == hash[k]
First(s) == CHOOSE i \in s : \A j \in s : i <= j
Removed(s, i) == SubSeq(s, 1, i - 1) \o SubSeq(s, i + 1, Len(s))

NoCall == [pc |-> "idle", op |-> NULL, key |-> NULL, data |-> NULL, index |-> 0, list |-> NULL,
           new |-> << >>, at |-> 0]
Without(ls) == Restrict(list, DOMAIN list \ ls)
With(l, r) == [x \in DOMAIN list \cup {l} |-> IF x = l THEN r ELSE list[x]]
Locked(t, l) == [list EXCEPT ![l].lock = t]
Free(l) == list[l].lock = NULL
Goto(t, pc) == th' = [th EXCEPT ![t].pc = pc]
Return(t) == th' = [th EXCEPT ![t] = NoCall]

\* A table of the smallest size in which the keys were set one after the other,
\* each in a bucket of its own.
ht_init(keys) ==
  /\ size = HT_SIZE_MIN /\ status = IDLE /\ count = Len(keys) /\ gen = 0 /\ uncounted = 0 /\ overtaken = FALSE
  /\ iterator_list = [i \in DOMAIN keys |-> <<0, Hash(keys[i]) % HT_SIZE_MIN>>] /\ iterator_lock = NULL
  /\ list = [l \in Range(iterator_list) |->
               [index |-> l[2], lock |-> NULL,
                items |-> <<[key |-> CHOOSE k \in Range(keys) : Hash(k) % HT_SIZE_MIN = l[2], data |-> CHOOSE v \in Vals : TRUE]>>]]
  /\ items = [x \in 0 .. HT_SIZE_MIN - 1 |-> IF <<0, x>> \in DOMAIN list THEN <<0, x>> ELSE NULL]
  /\ th = [t \in Threads |-> NoCall] /\ calls = [t \in Threads |-> MaxCalls]

Call(t, op, k, d) ==
  /\ th[t].pc = "idle" /\ calls[t] > 0
  /\ calls' = [calls EXCEPT ![t] = @ - 1]
  /\ th' = [th EXCEPT ![t] = [NoCall EXCEPT !.op = op, !.key = k, !.data = d,
              !.pc = CASE op = "clear" -> "clear" [] op = "foreach" -> "foreach" [] OTHER -> "get_list"]]
  /\ UNCHANGED table
-----------------------------------------------------------------------------
(* ht_get_list: which bucket, enter as a reader, lock its list, leave.     *)

get_list_index(t) ==
  /\ th[t].pc = "get_list"
  /\ th' = [th EXCEPT ![t] = [@ EXCEPT !.index = Hash(th[t].key) % size, !.pc = "enter"]]
  /\ UNCHANGED <<table, calls>>

get_list_enter(t) ==
  /\ th[t].pc = "enter" /\ status >= IDLE
  /\ status' = status + 1
  /\ Goto(t, "lock")
  /\ UNCHANGED <<size, items, count, list, iterator_list, iterator_lock, gen, uncounted, overtaken, calls>>

\* Variant: the thread leaves before it has locked the list.
get_list_lock_Late(t) ==
  /\ th[t].pc = "lock"
  /\ th' = [th EXCEPT ![t] = [@ EXCEPT !.list = items[th[t].index], !.pc = "leave"]]
  /\ UNCHANGED <<table, calls>>

get_list_lock(t) ==
  LET l == items[th[t].index]
  IN  /\ th[t].pc = "lock"
      /\ l = NULL \/ (l # NULL /\ Free(l))
      /\ list' = IF l = NULL THEN list ELSE Locked(t, l)
      /\ th' = [th EXCEPT ![t] = [@ EXCEPT !.list = l, !.pc = "leave"]]
      /\ UNCHANGED <<size, items, status, count, iterator_list, iterator_lock, gen, uncounted, overtaken, calls>>

Sets == {"set", "set_if_not_exists"}
get_list_leave(t) ==
  /\ th[t].pc = "leave"
  /\ status' = status - 1
  /\ CASE th[t].list # NULL -> Goto(t, "work")
       [] th[t].list = NULL /\ th[t].op \in Sets -> Goto(t, "set_list")
       [] OTHER -> Return(t)
  /\ UNCHANGED <<size, items, count, list, iterator_list, iterator_lock, gen, uncounted, overtaken, calls>>
-----------------------------------------------------------------------------
(* ht_set_list: a bucket that was empty gets a list, unless another thread *)
(* was faster.  The list is in the table before it is on iterator_list.    *)

set_list_enter(t) ==
  /\ th[t].pc = "set_list" /\ status = IDLE
  /\ status' = WRITE
  /\ Goto(t, "publish")
  /\ UNCHANGED <<size, items, count, list, iterator_list, iterator_lock, gen, uncounted, overtaken, calls>>

\* Variant: the bucket chosen before the table was entered is used.
set_list_index_Stale(t) == th[t].index

set_list_index(t) == Hash(th[t].key) % size

set_list_publish(t) ==
  LET index == set_list_index(t)
      l == items[index]
      new == <<gen, index>>
  IN  /\ th[t].pc = "publish"
      /\ status' = IDLE
      /\ IF l = NULL
         THEN /\ items' = [items EXCEPT ![index] = new]
              /\ list' = With(new, [index |-> index, lock |-> t, items |-> << >>])
              /\ th' = [th EXCEPT ![t] = [@ EXCEPT !.list = new, !.pc = "register"]]
         ELSE /\ Free(l)
              /\ list' = Locked(t, l) /\ UNCHANGED items
              /\ th' = [th EXCEPT ![t] = [@ EXCEPT !.list = l, !.pc = "work"]]
      /\ UNCHANGED <<size, count, iterator_list, iterator_lock, gen, uncounted, overtaken, calls>>

set_list_register(t) ==
  /\ th[t].pc = "register" /\ iterator_lock = NULL
  /\ iterator_list' = Append(iterator_list, th[t].list)
  /\ Goto(t, "work")
  /\ UNCHANGED <<size, items, status, count, list, iterator_lock, gen, uncounted, overtaken, calls>>
-----------------------------------------------------------------------------
(* What a call does with the locked list: ht_set_internal, and             *)
(* ht_call_internal with its callbacks.  A key whose value is NULL counts  *)
(* as found by a lookup, but ht_set_internal adds it a second time.        *)

Found(t) == {i \in DOMAIN list[th[t].list].items : list[th[t].list].items[i].key = th[t].key}
Holds(t) == th[t].pc = "work"

Unlocked(t, its) == list' = [list EXCEPT ![th[t].list].items = its, ![th[t].list].lock = NULL]

set_internal(t) ==
  LET its == list[th[t].list].items
      i == First(Found(t))
      prev == IF Found(t) = {} THEN NULL ELSE its[i].data
      keep == prev # NULL /\ th[t].op = "set_if_not_exists"
  IN  /\ Holds(t) /\ th[t].op \in Sets
      /\ Unlocked(t, IF prev = NULL THEN Append(its, [key |-> th[t].key, data |-> th[t].data])
                     ELSE IF keep THEN its ELSE [its EXCEPT ![i].data = th[t].data])
      /\ count' = IF prev = NULL THEN count + 1 ELSE count
      /\ IF keep THEN Return(t) ELSE th' = [th EXCEPT ![t] = [@ EXCEPT !.list = NULL, !.pc = "check"]]
      /\ UNCHANGED <<size, items, status, iterator_list, iterator_lock, gen, uncounted, overtaken, calls>>

\* ht_delete_helper: the item goes, for delete_if_equals only if it matches.
Deletes(c, item) == c.op = "delete" \/ (c.op = "delete_if_equals" /\ item.data = c.data)

\* ht_set_if_equals_helper: another value, if the one that is there matches.
SetIfEquals(c, item) == IF item.data = c.data THEN CHOOSE v \in Vals : v # c.data ELSE item.data

\* The value that a call leaves in the item; ht_get and ht_exists only read.
LeftIn(c, item) ==
  CASE c.op = "unset" -> NULL
    [] c.op = "set_if_equals" -> SetIfEquals(c, item)
    [] OTHER -> item.data

call_internal(t) ==
  LET its == list[th[t].list].items
      i == First(Found(t))
      there == Found(t) # {}
      removes == there /\ Deletes(th[t], its[i])
  IN  /\ Holds(t) /\ th[t].op \notin Sets
      /\ Unlocked(t, IF ~there THEN its ELSE IF removes THEN Removed(its, i)
                     ELSE [its EXCEPT ![i].data = LeftIn(th[t], its[i])])
      /\ count' = IF removes THEN count - 1 ELSE count
      /\ Return(t)
      /\ UNCHANGED <<size, items, status, iterator_list, iterator_lock, gen, uncounted, overtaken, calls>>
-----------------------------------------------------------------------------
(* ht_grow_table, when more items than 4/3 of the buckets are counted.     *)

set_check(t) ==
  /\ th[t].pc = "check"
  /\ IF count > size + size \div 3 /\ (max_size = 0 \/ size < max_size) THEN Goto(t, "grow") ELSE Return(t)
  /\ UNCHANGED <<table, calls>>

grow_begin(t) ==
  LET may == status = IDLE /\ ~(max_size # 0 /\ size >= max_size)
  IN  /\ th[t].pc = "grow"
      /\ status' = IF may THEN GROW ELSE status
      /\ IF may THEN Goto(t, "grow_swap") ELSE Return(t)
      /\ UNCHANGED <<size, items, count, list, iterator_list, iterator_lock, gen, uncounted, overtaken, calls>>

\* A thread that chose a bucket of the old size and has not entered, or whose
\* new list is in the old array and not yet on iterator_list, is passed by.
Overtakes(u, new_size) ==
  \/ th[u].pc = "enter" /\ Hash(th[u].key) % new_size # th[u].index
  \/ th[u].pc = "register"

grow_swap(t) ==
  LET new_size == IF max_size # 0 /\ 2 * size > max_size THEN max_size ELSE 2 * size
  IN  /\ th[t].pc = "grow_swap" /\ iterator_lock = NULL
      /\ iterator_lock' = t
      /\ size' = new_size
      /\ gen' = gen + 1
      /\ items' = [x \in 0 .. new_size - 1 |-> NULL]
      /\ overtaken' = (overtaken \/ \E u \in Threads : Overtakes(u, new_size))
      /\ Goto(t, "grow_list")
      /\ UNCHANGED <<status, count, list, iterator_list, uncounted, calls>>

\* One item after the other goes from the first list to the list of its new
\* bucket, which is made when it is needed; an emptied list is released.
Mine(t, l) == list[l].lock \in {NULL, t}

\* Variant: the list made for a new bucket is not registered.
grow_item_Unregistered(t) ==
  LET l == Head(iterator_list)
      item == Head(list[l].items)
      x == Hash(item.key) % size
      m == <<gen, x>>
      to == IF items[x] = NULL THEN [index |-> x, lock |-> NULL, items |-> << >>] ELSE list[m]
  IN  /\ th[t].pc = "grow_list" /\ iterator_list # << >> /\ Mine(t, l) /\ list[l].items # << >>
      /\ items' = [items EXCEPT ![x] = m]
      /\ list' = [With(m, [to EXCEPT !.items = Append(@, item)]) EXCEPT ![l].items = Tail(@), ![l].lock = t]
      /\ UNCHANGED <<size, status, count, iterator_list, iterator_lock, gen, uncounted, overtaken, th, calls>>

grow_item(t) ==
  LET l == Head(iterator_list)
      item == Head(list[l].items)
      x == Hash(item.key) % size
      m == <<gen, x>>
      to == IF items[x] = NULL THEN [index |-> x, lock |-> NULL, items |-> << >>] ELSE list[m]
  IN  /\ th[t].pc = "grow_list" /\ iterator_list # << >> /\ Mine(t, l) /\ list[l].items # << >>
      /\ items' = [items EXCEPT ![x] = m]
      /\ list' = [With(m, [to EXCEPT !.items = Append(@, item)]) EXCEPT ![l].items = Tail(@), ![l].lock = t]
      /\ th' = [th EXCEPT ![t].new = IF items[x] = NULL THEN Append(@, m) ELSE @]
      /\ UNCHANGED <<size, status, count, iterator_list, iterator_lock, gen, uncounted, overtaken, calls>>

grow_release(t) ==
  LET l == Head(iterator_list)
  IN  /\ th[t].pc = "grow_list" /\ iterator_list # << >> /\ Mine(t, l) /\ list[l].items = << >>
      /\ list' = Without({l})
      /\ iterator_list' = Tail(iterator_list)
      /\ UNCHANGED <<size, items, status, count, iterator_lock, gen, uncounted, overtaken, th, calls>>

grow_end(t) ==
  /\ th[t].pc = "grow_list" /\ iterator_list = << >>
  /\ iterator_list' = th[t].new /\ iterator_lock' = NULL
  /\ th' = [th EXCEPT ![t] = [@ EXCEPT !.new = << >>, !.pc = "grow_idle"]]
  /\ UNCHANGED <<size, items, status, count, list, gen, uncounted, overtaken, calls>>

grow_idle(t) ==
  /\ th[t].pc = "grow_idle"
  /\ status' = IDLE
  /\ Return(t)
  /\ UNCHANGED <<size, items, count, list, iterator_list, iterator_lock, gen, uncounted, overtaken, calls>>
-----------------------------------------------------------------------------
(* ht_foreach_pair, with which the keys and values are also collected.     *)
(* The callback answers data for the key of the call and 1, go on, for the *)
(* others.  0 stops; -1 and -2 remove the item, and -2 stops as well; what *)
(* is left of a list after a removal is not visited, and count stays.      *)

foreach_begin(t) ==
  /\ th[t].pc = "foreach" /\ iterator_lock = NULL
  /\ iterator_lock' = t
  /\ th' = [th EXCEPT ![t] = [@ EXCEPT !.at = 1, !.pc = "foreach_list"]]
  /\ UNCHANGED <<size, items, status, count, list, iterator_list, gen, uncounted, overtaken, calls>>

foreach_list(t) ==
  LET l == iterator_list[th[t].at]
      its == list[l].items
      hit == {i \in DOMAIN its : its[i].key = th[t].key}
      rc == IF hit = {} THEN 1 ELSE th[t].data
  IN  /\ th[t].pc = "foreach_list" /\ th[t].at <= Len(iterator_list) /\ Free(l)
      /\ list' = IF rc < 0 THEN [list EXCEPT ![l].items = Removed(its, First(hit))] ELSE list
      /\ uncounted' = IF rc < 0 THEN uncounted + 1 ELSE uncounted
      /\ th' = [th EXCEPT ![t].at = IF rc \in {0, -2} THEN Len(iterator_list) + 1 ELSE @ + 1]
      /\ UNCHANGED <<size, items, status, count, iterator_list, iterator_lock, gen, overtaken, calls>>

foreach_end(t) ==
  /\ th[t].pc = "foreach_list" /\ th[t].at > Len(iterator_list)
  /\ iterator_lock' = NULL
  /\ Return(t)
  /\ UNCHANGED <<size, items, status, count, list, iterator_list, gen, uncounted, overtaken, calls>>
-----------------------------------------------------------------------------
(* ht_clear: as the only one in the table, list by list.                   *)

clear_enter(t) ==
  /\ th[t].pc = "clear" /\ status = IDLE
  /\ status' = CLEAR
  /\ Goto(t, "clear_lock")
  /\ UNCHANGED <<size, items, count, list, iterator_list, iterator_lock, gen, uncounted, overtaken, calls>>

clear_lock(t) ==
  /\ th[t].pc = "clear_lock" /\ iterator_lock = NULL
  /\ iterator_lock' = t /\ gen' = gen + 1
  /\ Goto(t, "clear_list")
  /\ UNCHANGED <<size, items, status, count, list, iterator_list, uncounted, overtaken, calls>>

clear_list(t) ==
  LET l == Head(iterator_list)
  IN  /\ th[t].pc = "clear_list" /\ iterator_list # << >> /\ Free(l)
      /\ count' = count - Len(list[l].items)
      /\ items' = [items EXCEPT ![list[l].index] = NULL]
      /\ list' = Without({l})
      /\ iterator_list' = Tail(iterator_list)
      /\ UNCHANGED <<size, status, iterator_lock, gen, uncounted, overtaken, th, calls>>

clear_end(t) ==
  /\ th[t].pc = "clear_list" /\ iterator_list = << >>
  /\ iterator_lock' = NULL
  /\ Goto(t, "clear_idle")
  /\ UNCHANGED <<size, items, status, count, list, iterator_list, gen, uncounted, overtaken, calls>>

clear_idle(t) ==
  /\ th[t].pc = "clear_idle"
  /\ status' = IDLE
  /\ Return(t)
  /\ UNCHANGED <<size, items, count, list, iterator_list, iterator_lock, gen, uncounted, overtaken, calls>>
-----------------------------------------------------------------------------
Step(t) ==
  \/ get_list_index(t) \/ get_list_enter(t) \/ get_list_lock(t) \/ get_list_leave(t)
  \/ set_list_enter(t) \/ set_list_publish(t) \/ set_list_register(t)
  \/ set_internal(t) \/ call_internal(t) \/ set_check(t)
  \/ grow_begin(t) \/ grow_swap(t) \/ grow_item(t) \/ grow_release(t) \/ grow_end(t) \/ grow_idle(t)
  \/ foreach_begin(t) \/ foreach_list(t) \/ foreach_end(t)
  \/ clear_enter(t) \/ clear_lock(t) \/ clear_list(t) \/ clear_end(t) \/ clear_idle(t)

Begin(t) ==
  \/ \E k \in Keys, op \in {"set", "set_if_not_exists", "set_if_equals", "delete_if_equals"}, d \in Args : Call(t, op, k, d)
  \/ \E k \in Keys, op \in {"get", "delete", "unset"} : Call(t, op, k, NULL)
  \/ \E k \in Picked, rc \in {1, 0, -1, -2} : Call(t, "foreach", k, rc)
  \/ Call(t, "clear", NULL, NULL)

AllDone == \A t \in Threads : th[t].pc = "idle" /\ calls[t] = 0

Init == \E keys \in Presets : ht_init(keys)

Next == (\E t \in Threads : Begin(t) \/ Step(t)) \/ (AllDone /\ UNCHANGED vars)

Spec == Init /\ [][Next]_vars
-----------------------------------------------------------------------------
Lists == {items[x] : x \in DOMAIN items} \ {NULL}
Waiting(t) == IF th[t].pc = "register" THEN {th[t].list} ELSE Range(th[t].new)

\* A list that a thread works on is allocated and locked by that thread, and
\* the lists in the table and on iterator_list are allocated: a growth or a
\* clear never frees a list under a thread that found it.
ListsAlive ==
  /\ Lists \cup Range(iterator_list) \subseteq DOMAIN list
  /\ \A t \in Threads : th[t].list # NULL => th[t].list \in DOMAIN list /\ list[th[t].list].lock = t

\* Every allocated list is on iterator_list, or about to be put there by one
\* thread, exactly once.
Registered ==
  /\ IsInjective(iterator_list) /\ \A t \in Threads : IsInjective(th[t].new)
  /\ DOMAIN list = Range(iterator_list) \cup UNION {Waiting(t) : t \in Threads}
  /\ \A t \in Threads :
       /\ Waiting(t) \cap Range(iterator_list) = {}
       /\ \A u \in Threads \ {t} : Waiting(t) \cap Waiting(u) = {}

\* Every allocated list is registered, or about to be, and but for a growth under
\* way or one that overtook a thread it is also in the table; count is the
\* number of items in the lists as long as no iteration removed one (ht_foreach
\* does not adjust it).
AllReachable ==
  /\ Registered
  /\ overtaken \/ status = GROW \/ Lists = DOMAIN list
  /\ uncounted = 0 => count = SumFunction([l \in DOMAIN list |-> Len(list[l].items)])

\* Every item is in the list where a call for its key looks, the one that the
\* table holds for its hash, or still waits in a list that a growth under way
\* has not emptied.  This is said of the behaviours in which no growth overtook
\* a thread between the choice of its bucket and its entry, or between the
\* publication of its list and its registration; in the others it fails.
Placed ==
  overtaken \/
  \A l \in DOMAIN list : \A i \in DOMAIN list[l].items :
    \/ items[Hash(list[l].items[i].key) % size] = l
    \/ status = GROW /\ l[1] < gen
=============================================================================
