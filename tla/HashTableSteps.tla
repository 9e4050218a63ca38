--------------------------- MODULE HashTableSteps ---------------------------
(***************************************************************************)
(* Proofs about HashTable for any number of threads, any keys, any hash    *)
(* and any sizes.  The first layer: the types of the variables, what the   *)
(* steps do to the state of a thread, the status word and iterator_lock;   *)
(* and what the operators on sequences and items return.  Then the         *)
(* beginning of the second layer, the bucket lists.                        *)
(***************************************************************************)
EXTENDS HashTable, TLAPS

Pcs == {"idle", "get_list", "enter", "lock", "leave", "set_list", "publish", "register", "work",
        "check", "grow", "grow_swap", "grow_list", "grow_idle", "foreach", "foreach_list",
        "clear", "clear_lock", "clear_list", "clear_idle"}
Ops == Sets \cup {"set_if_equals", "delete_if_equals", "get", "delete", "unset", "foreach", "clear"}
Datas == Vals \cup {NULL} \cup {1, 0, -1, -2}

Names == Nat \X Nat
Listed == Names \cup {NULL}
Pairs == [key : Keys, data : Vals \cup {NULL}]
Buckets == [index : Nat, lock : Threads \cup {NULL}, items : Seq(Pairs)]
CallStates == [pc : Pcs, op : Ops \cup {NULL}, key : Keys \cup {NULL}, data : Datas, index : Nat,
               list : Listed, new : Seq(Names), at : Nat]

ThreadsOK == th \in [Threads -> CallStates]

TableOK ==
  /\ size \in Nat \ {0} /\ status \in Nat /\ gen \in Nat /\ overtaken \in BOOLEAN
  /\ items \in [0 .. size - 1 -> Listed]
  /\ DOMAIN list \subseteq Names /\ list \in [DOMAIN list -> Buckets]
  /\ iterator_list \in Seq(Names)

\* A call has what its steps use: a key, a value to set, a bucket of the table,
\* a list while it is to be locked, registered or worked on.
ArgsOK(c) ==
  /\ c.pc \notin {"idle", "clear", "clear_lock", "clear_list", "clear_idle"} => c.key \in Keys
  /\ c.pc # "idle" /\ c.op \in Sets => c.data \in Vals
  /\ c.pc \in {"enter", "lock"} => c.index < size
  /\ c.pc = "grow_swap" => max_size = 0 \/ size < max_size
  /\ c.list # NULL => c.pc \in {"leave", "register", "work"}
  /\ c.pc \in {"register", "work"} => c.list # NULL
  /\ c.new # << >> => c.pc = "grow_list"

-----------------------------------------------------------------------------
(* What a step does to the thread that takes it.                             *)

Others(t) == \A u \in Threads \ {t} : th'[u] = th[u]

\* t goes on with the same call.
Becomes(t, p, l) ==
  /\ ThreadsOK' /\ Others(t)
  /\ th'[t].pc = p /\ th'[t].list = l
  /\ th'[t].op = th[t].op /\ th'[t].key = th[t].key /\ th'[t].data = th[t].data

\* The step of a thread changes its own entry of th and no other.
LEMMA OneThread ==
  ASSUME ThreadsOK, NEW t \in Threads, NEW c \in CallStates, th' = [th EXCEPT ![t] = c]
  PROVE  ThreadsOK' /\ th'[t] = c /\ Others(t)
BY DEF ThreadsOK, Others

\* Goto moves the thread and keeps its call.
LEMMA Going ==
  ASSUME ThreadsOK, NEW t \in Threads, NEW p \in Pcs, Goto(t, p)
  PROVE  Becomes(t, p, th[t].list) /\ th'[t].index = th[t].index /\ th'[t].new = th[t].new
<1> DEFINE c == th[t]
           d == [c EXCEPT !.pc = p]
<1>1. c \in CallStates
  BY DEF ThreadsOK
<1>2. /\ d \in CallStates /\ d.pc = p /\ d.op = c.op /\ d.key = c.key /\ d.data = c.data
      /\ d.index = c.index /\ d.list = c.list /\ d.new = c.new
  BY <1>1, Zenon DEF CallStates
<1>3. th' = [th EXCEPT ![t] = d]
  BY DEF Goto
<1> HIDE DEF d
<1> QED BY <1>2, <1>3, OneThread, Zenon DEF Becomes

\* ... and the thread may get or lose a list on the way,
LEMMA GoingWith ==
  ASSUME ThreadsOK, NEW t \in Threads, NEW p \in Pcs, NEW l \in Listed,
         th' = [th EXCEPT ![t] = [@ EXCEPT !.list = l, !.pc = p]]
  PROVE  Becomes(t, p, l) /\ th'[t].index = th[t].index /\ th'[t].new = th[t].new
<1> DEFINE c == th[t]
           d == [c EXCEPT !.list = l, !.pc = p]
<1>1. c \in CallStates
  BY DEF ThreadsOK
<1>2. /\ d \in CallStates /\ d.pc = p /\ d.op = c.op /\ d.key = c.key /\ d.data = c.data
      /\ d.index = c.index /\ d.list = l /\ d.new = c.new
  BY <1>1, Zenon DEF CallStates
<1>3. th' = [th EXCEPT ![t] = d]
  OBVIOUS
<1> HIDE DEF d
<1> QED BY <1>2, <1>3, OneThread, Zenon DEF Becomes

\* ... end its call,
LEMMA Returning ==
  ASSUME ThreadsOK, NEW t \in Threads, Return(t)
  PROVE  ThreadsOK' /\ th'[t] = NoCall /\ Others(t)
<1>1. 0 \in Nat /\ << >> \in Seq(Names)
  OBVIOUS
<1>2. NoCall \in CallStates
  BY <1>1, Zenon DEF NoCall, CallStates, Pcs, Datas, Listed
<1> QED BY <1>2, OneThread, Zenon DEF Return

\* ... compute the bucket that it will look up,
LEMMA Indexing ==
  ASSUME ThreadsOK, NEW t \in Threads, NEW p \in Pcs, NEW i \in Nat,
         th' = [th EXCEPT ![t] = [@ EXCEPT !.index = i, !.pc = p]]
  PROVE  Becomes(t, p, th[t].list) /\ th'[t].index = i /\ th'[t].new = th[t].new
<1> DEFINE c == th[t]
           d == [c EXCEPT !.index = i, !.pc = p]
<1>1. c \in CallStates
  BY DEF ThreadsOK
<1>2. /\ d \in CallStates /\ d.pc = p /\ d.op = c.op /\ d.key = c.key /\ d.data = c.data
      /\ d.index = i /\ d.list = c.list /\ d.new = c.new
  BY <1>1, Zenon DEF CallStates
<1>3. th' = [th EXCEPT ![t] = d]
  OBVIOUS
<1> HIDE DEF d
<1> QED BY <1>2, <1>3, OneThread, Zenon DEF Becomes

\* ... collect a list that it made,
LEMMA Making ==
  ASSUME ThreadsOK, NEW t \in Threads, NEW p \in Pcs, NEW n \in Seq(Names),
         \/ th' = [th EXCEPT ![t] = [@ EXCEPT !.new = n, !.pc = p]]
         \/ th[t].pc = p /\ th' = [th EXCEPT ![t].new = n]
  PROVE  Becomes(t, p, th[t].list) /\ th'[t].new = n
<1> DEFINE c == th[t]
           d == [c EXCEPT !.new = n, !.pc = p]
<1>1. c \in CallStates
  BY DEF ThreadsOK
<1>2. /\ d \in CallStates /\ d.pc = p /\ d.op = c.op /\ d.key = c.key /\ d.data = c.data
      /\ d.list = c.list /\ d.new = n
  BY <1>1, Zenon DEF CallStates
<1>3. ASSUME c.pc = p PROVE d = [c EXCEPT !.new = n]
  BY <1>1, <1>3, Zenon DEF CallStates
<1>4. th' = [th EXCEPT ![t] = d]
  BY <1>3
<1> HIDE DEF d
<1> QED BY <1>2, <1>4, OneThread, Zenon DEF Becomes

\* ... or move on to another list.
LEMMA Visiting ==
  ASSUME ThreadsOK, NEW t \in Threads, NEW p \in Pcs, NEW n \in Nat,
         \/ th' = [th EXCEPT ![t] = [@ EXCEPT !.at = n, !.pc = p]]
         \/ th[t].pc = p /\ th' = [th EXCEPT ![t].at = n]
  PROVE  Becomes(t, p, th[t].list) /\ th'[t].new = th[t].new
<1> DEFINE c == th[t]
           d == [c EXCEPT !.at = n, !.pc = p]
<1>1. c \in CallStates
  BY DEF ThreadsOK
<1>2. /\ d \in CallStates /\ d.pc = p /\ d.op = c.op /\ d.key = c.key /\ d.data = c.data
      /\ d.list = c.list /\ d.new = c.new
  BY <1>1, Zenon DEF CallStates
<1>3. ASSUME c.pc = p PROVE d = [c EXCEPT !.at = n]
  BY <1>1, <1>3, Zenon DEF CallStates
<1>4. th' = [th EXCEPT ![t] = d]
  BY <1>3
<1> HIDE DEF d
<1> QED BY <1>2, <1>4, OneThread, Zenon DEF Becomes

-----------------------------------------------------------------------------
(* The status word is a lock: readers are counted above IDLE, and a thread   *)
(* that publishes a list, grows or clears is alone; below IDLE there is one. *)

Reading == {"lock", "leave"}
Growing == {"grow_swap", "grow_list", "grow_idle"}
Clearing == {"clear_lock", "clear_list", "clear_idle"}
Alone == {"publish"} \cup Growing \cup Clearing
StatusAt(p) == IF p = "publish" THEN WRITE ELSE IF p \in Growing THEN GROW ELSE CLEAR

Readers == {t \in Threads : th[t].pc \in Reading}

StatusInv ==
  /\ status >= IDLE => /\ status = IDLE + Cardinality(Readers)
                       /\ \A t \in Threads : th[t].pc \notin Alone
  /\ status < IDLE => Readers = {} /\ \E t \in Threads : th[t].pc \in Alone
  /\ \A t \in Threads : th[t].pc \in Alone =>
       /\ status = StatusAt(th[t].pc)
       /\ \A u \in Threads : th[u].pc \in Alone => u = t

\* How a step from p to q changes the status word.
StatusStep(p, q) ==
  \/ p \in Reading /\ q \in Reading /\ status' = status
  \/ p \in Alone /\ q \in Alone /\ StatusAt(p) = StatusAt(q) /\ status' = status
  \/ p \notin Reading \cup Alone /\ q \notin Reading \cup Alone /\ status' = status
  \/ p \notin Reading \cup Alone /\ q \in Reading /\ status >= IDLE /\ status' = status + 1
  \/ p \in Reading /\ q \notin Reading \cup Alone /\ status' = status - 1
  \/ p \notin Reading \cup Alone /\ q \in Alone /\ status = IDLE /\ status' = StatusAt(q)
  \/ p \in Alone /\ q \notin Reading \cup Alone /\ status' = IDLE

-----------------------------------------------------------------------------
(* iterator_lock is held by the thread that iterates, grows or clears.       *)

Iterating == {"grow_list", "foreach_list", "clear_list"}
IterInv ==
  /\ \A t \in Threads : th[t].pc \in Iterating => iterator_lock = t
  /\ iterator_lock # NULL => iterator_lock \in Threads /\ th[iterator_lock].pc \in Iterating

IterStep(t, p, q) ==
  \/ (p \in Iterating <=> q \in Iterating) /\ UNCHANGED iterator_lock
  \/ p \notin Iterating /\ q \in Iterating /\ iterator_lock = NULL /\ iterator_lock' = t
  \/ p \in Iterating /\ q \notin Iterating /\ iterator_lock' = NULL

\* A step that takes iterator_lock when it is free and returns it afterwards
\* keeps IterInv.
LEMMA IterStepInv ==
  ASSUME IterInv, NEW t \in Threads, Others(t), IterStep(t, th[t].pc, th'[t].pc)
  PROVE  IterInv'
<1> DEFINE p == th[t].pc
           q == th'[t].pc
<1>n. NULL \notin Threads
  BY TableAssumption DEF TableAssumption
<1>1. CASE (p \in Iterating <=> q \in Iterating) /\ UNCHANGED iterator_lock
  <2>1. \A u \in Threads : th'[u].pc \in Iterating <=> th[u].pc \in Iterating
    BY <1>1 DEF Others
  <2> QED BY <1>1, <2>1 DEF IterInv
<1>2. CASE p \notin Iterating /\ q \in Iterating /\ iterator_lock = NULL /\ iterator_lock' = t
  <2>1. \A u \in Threads \ {t} : th'[u].pc \notin Iterating
    BY <1>n, <1>2 DEF Others, IterInv
  <2> QED BY <1>2, <2>1 DEF IterInv
<1>3. CASE p \in Iterating /\ q \notin Iterating /\ iterator_lock' = NULL
  <2>1. \A u \in Threads : th'[u].pc \notin Iterating
    BY <1>3 DEF Others, IterInv
  <2> QED BY <1>3, <2>1 DEF IterInv
<1> QED BY <1>1, <1>2, <1>3 DEF IterStep

\* What every step of t keeps in order.
Control(t) ==
  /\ ThreadsOK' /\ Others(t) /\ ArgsOK(th[t])'
  /\ StatusStep(th[t].pc, th'[t].pc) /\ IterStep(t, th[t].pc, th'[t].pc)

\* A step that leaves the lists alone.
Quiet(t) ==
  /\ UNCHANGED <<size, items, list, iterator_list, gen, overtaken>>
  /\ th[t].pc \notin {"register", "grow_list"}
  /\ th'[t].pc \notin {"register", "grow_list", "clear_list"}
  /\ th'[t].new = th[t].new
  /\ th'[t].list # NULL => th'[t].list = th[t].list /\ th'[t].key = th[t].key
  /\ \/ th'[t].pc \notin {"enter", "lock"}
     \/ th'[t].index = Hash(th'[t].key) % size
     \/ th[t].pc = "enter" /\ th'[t].index = th[t].index /\ th'[t].key = th[t].key

USE DEF StatusStep, IterStep, Reading, Alone, Growing, Clearing, Iterating

\* Each of these actions leaves the lists alone.  ht_get_list computes the
\* bucket before it takes the status word ...
LEMMA IndexStep ==
  ASSUME TableOK, ThreadsOK, NEW t \in Threads, ArgsOK(th[t]), get_list_index(t)
  PROVE  Control(t) /\ Quiet(t)
<1> DEFINE i == Hash(th[t].key) % size
<1>1. i \in Nat /\ i < size /\ th[t].pc = "get_list"
  BY TableAssumption DEF TableAssumption, TableOK, ArgsOK, get_list_index, Hash
<1>2. Becomes(t, "enter", th[t].list) /\ th'[t].index = i /\ th'[t].new = th[t].new
  <2>1. th' = [th EXCEPT ![t] = [@ EXCEPT !.index = i, !.pc = "enter"]] /\ "enter" \in Pcs
    BY DEF get_list_index, Pcs
  <2> HIDE DEF i
  <2> QED BY <1>1, <2>1, Indexing, Zenon
<1>3. UNCHANGED <<size, items, status, list, iterator_list, iterator_lock, gen, overtaken>>
  BY DEF get_list_index, table
<1>4. Control(t)
  BY <1>1, <1>2, <1>3 DEF Becomes, Control, ArgsOK
<1> QED BY <1>1, <1>2, <1>3, <1>4 DEF Becomes, Quiet, ArgsOK

\* ... takes it ...
LEMMA EnterStep ==
  ASSUME ThreadsOK, NEW t \in Threads, ArgsOK(th[t]), get_list_enter(t)
  PROVE  Control(t) /\ Quiet(t)
<1>1. Becomes(t, "lock", th[t].list) /\ th'[t].index = th[t].index /\ th'[t].new = th[t].new
  BY Going DEF get_list_enter, Pcs
<1>2. Control(t)
  BY <1>1 DEF get_list_enter, Becomes, Control, ArgsOK
<1> QED BY <1>1, <1>2 DEF get_list_enter, Becomes, Quiet, ArgsOK

\* ... and gives it back when it has the lock of the list.
LEMMA LeaveStep ==
  ASSUME ThreadsOK, NEW t \in Threads, ArgsOK(th[t]), get_list_leave(t)
  PROVE  Control(t) /\ Quiet(t)
<1>1. CASE th[t].list # NULL
  <2>1. Becomes(t, "work", th[t].list) /\ th'[t].index = th[t].index /\ th'[t].new = th[t].new
    BY <1>1, Going DEF get_list_leave, Pcs
  <2>2. Control(t)
    BY <1>1, <2>1 DEF get_list_leave, Becomes, Control, ArgsOK
  <2> QED BY <2>1, <2>2 DEF get_list_leave, Becomes, Quiet
<1>2. CASE th[t].list = NULL /\ th[t].op \in Sets
  <2>1. Becomes(t, "set_list", th[t].list) /\ th'[t].index = th[t].index /\ th'[t].new = th[t].new
    BY <1>2, Going DEF get_list_leave, Pcs
  <2>2. Control(t)
    BY <1>2, <2>1 DEF get_list_leave, Becomes, Control, ArgsOK
  <2> QED BY <2>1, <2>2 DEF get_list_leave, Becomes, Quiet
<1>3. CASE th[t].list = NULL /\ th[t].op \notin Sets
  <2>1. ThreadsOK' /\ th'[t] = NoCall /\ Others(t)
    BY <1>3, Returning DEF get_list_leave
  <2>2. Control(t)
    BY <2>1 DEF get_list_leave, Control, ArgsOK, NoCall
  <2> QED BY <2>1, <2>2 DEF get_list_leave, Quiet, NoCall, ArgsOK
<1> QED BY <1>1, <1>2, <1>3

\* ht_set_list takes the status word to publish a list.
LEMMA SetListEnterStep ==
  ASSUME ThreadsOK, NEW t \in Threads, ArgsOK(th[t]), set_list_enter(t)
  PROVE  Control(t) /\ Quiet(t)
<1>1. Becomes(t, "publish", th[t].list) /\ th'[t].index = th[t].index /\ th'[t].new = th[t].new
  BY Going DEF set_list_enter, Pcs
<1>2. Control(t)
  BY <1>1 DEF set_list_enter, Becomes, Control, ArgsOK, StatusAt
<1> QED BY <1>1, <1>2 DEF set_list_enter, Becomes, Quiet

\* After a set the load of the table is compared with its size.
LEMMA CheckStep ==
  ASSUME ThreadsOK, NEW t \in Threads, ArgsOK(th[t]), set_check(t)
  PROVE  Control(t) /\ Quiet(t)
<1>1. CASE Goto(t, "grow")
  <2>1. Becomes(t, "grow", th[t].list) /\ th'[t].index = th[t].index /\ th'[t].new = th[t].new
    BY <1>1, Going DEF Pcs
  <2>2. Control(t)
    BY <2>1 DEF set_check, table, Becomes, Control, ArgsOK
  <2> QED BY <2>1, <2>2 DEF set_check, table, Becomes, Quiet
<1>2. CASE Return(t)
  <2>1. ThreadsOK' /\ th'[t] = NoCall /\ Others(t)
    BY <1>2, Returning
  <2>2. Control(t)
    BY <2>1 DEF set_check, table, Control, ArgsOK, NoCall
  <2> QED BY <2>1, <2>2 DEF set_check, table, Quiet, NoCall, ArgsOK
<1> QED BY <1>1, <1>2 DEF set_check

\* ht_grow_table takes the status word, or gives up.
LEMMA GrowBeginStep ==
  ASSUME ThreadsOK, TableOK, NEW t \in Threads, ArgsOK(th[t]), grow_begin(t)
  PROVE  Control(t) /\ Quiet(t)
<1>1. CASE status = IDLE /\ ~(max_size # 0 /\ size >= max_size)
  <2>1. Becomes(t, "grow_swap", th[t].list) /\ th'[t].index = th[t].index /\ th'[t].new = th[t].new
    BY <1>1, Going DEF grow_begin, Pcs
  <2>2. max_size = 0 \/ size < max_size
    BY <1>1, TableAssumption DEF TableAssumption, TableOK
  <2>3. Control(t)
    BY <1>1, <2>1, <2>2 DEF grow_begin, Becomes, Control, ArgsOK, StatusAt
  <2> QED BY <2>1, <2>3 DEF grow_begin, Becomes, Quiet
<1>2. CASE ~(status = IDLE /\ ~(max_size # 0 /\ size >= max_size))
  <2>1. ThreadsOK' /\ th'[t] = NoCall /\ Others(t)
    BY <1>2, Returning DEF grow_begin
  <2>2. Control(t)
    BY <1>2, <2>1 DEF grow_begin, Control, ArgsOK, NoCall
  <2> QED BY <2>1, <2>2 DEF grow_begin, Quiet, NoCall, ArgsOK
<1> QED BY <1>1, <1>2

\* The steps that end a call.
LEMMA ReturnStep ==
  ASSUME ThreadsOK, NEW t \in Threads, ArgsOK(th[t]), grow_idle(t) \/ clear_idle(t) \/ foreach_end(t)
  PROVE  Control(t) /\ Quiet(t)
<1>1. ThreadsOK' /\ th'[t] = NoCall /\ Others(t)
  BY Returning DEF grow_idle, clear_idle, foreach_end
<1>2. CASE grow_idle(t) \/ clear_idle(t)
  BY <1>1, <1>2 DEF grow_idle, clear_idle, Control, Quiet, ArgsOK, NoCall
<1>3. CASE foreach_end(t)
  BY <1>1, <1>3 DEF foreach_end, Control, Quiet, ArgsOK, NoCall
<1> QED BY <1>2, <1>3

\* An iteration takes iterator_lock.
LEMMA ForeachBeginStep ==
  ASSUME ThreadsOK, NEW t \in Threads, ArgsOK(th[t]), foreach_begin(t)
  PROVE  Control(t) /\ Quiet(t)
<1>0. 1 \in Nat /\ "foreach_list" \in Pcs
  BY DEF Pcs
<1>1. Becomes(t, "foreach_list", th[t].list) /\ th'[t].new = th[t].new
  BY <1>0, Visiting, Zenon DEF foreach_begin
<1>2. Control(t)
  BY <1>1 DEF foreach_begin, Becomes, Control, ArgsOK
<1> QED BY <1>1, <1>2 DEF foreach_begin, Becomes, Quiet

\* ht_clear takes the status word ...
LEMMA ClearEnterStep ==
  ASSUME ThreadsOK, NEW t \in Threads, ArgsOK(th[t]), clear_enter(t)
  PROVE  Control(t) /\ Quiet(t)
<1>1. Becomes(t, "clear_lock", th[t].list) /\ th'[t].new = th[t].new
  BY Going, ZenonT(30) DEF clear_enter, Pcs
<1>2. Control(t)
  BY <1>1, ZenonT(30) DEF clear_enter, Becomes, Control, ArgsOK, StatusAt
<1> QED BY <1>1, <1>2 DEF clear_enter, Becomes, Quiet

\* ... and gives iterator_lock back.
LEMMA ClearEndStep ==
  ASSUME ThreadsOK, NEW t \in Threads, ArgsOK(th[t]), clear_end(t)
  PROVE  Control(t) /\ Quiet(t)
<1>1. Becomes(t, "clear_idle", th[t].list) /\ th'[t].new = th[t].new
  BY Going, ZenonT(30) DEF clear_end, Pcs
<1>2. Control(t)
  BY <1>1, ZenonT(30) DEF clear_end, Becomes, Control, ArgsOK, StatusAt
<1> QED BY <1>1, <1>2, ZenonT(30) DEF clear_end, Becomes, Quiet

\* A call begins.
LEMMA BeginStep ==
  ASSUME ThreadsOK, NEW t \in Threads, ArgsOK(th[t]), Begin(t)
  PROVE  Control(t) /\ Quiet(t)
<1>1. PICK op \in Ops, k \in Keys \cup {NULL}, v \in Datas :
        /\ Call(t, op, k, v)
        /\ op \in Sets => v \in Vals
        /\ op # "clear" => k \in Keys
  BY TableAssumption, Zenon DEF TableAssumption, Begin, Ops, Datas, Sets
<1> DEFINE p == CASE op = "clear" -> "clear" [] op = "foreach" -> "foreach" [] OTHER -> "get_list"
           c == [NoCall EXCEPT !.op = op, !.key = k, !.data = v, !.pc = p]
<1>2. p \in Pcs /\ p \in {"clear", "foreach", "get_list"} /\ (op = "clear" => p = "clear")
  BY DEF Pcs
<1>3. th' = [th EXCEPT ![t] = c] /\ th[t].pc = "idle" /\ UNCHANGED table
  BY <1>1 DEF Call
<1> HIDE DEF p
<1>4. 0 \in Nat /\ << >> \in Seq(Names)
  OBVIOUS
<1>5. /\ c \in CallStates /\ c.pc = p /\ c.op = op /\ c.key = k /\ c.data = v
      /\ c.list = NULL /\ c.new = << >>
  BY <1>1, <1>2, <1>4, Zenon DEF CallStates, NoCall, Listed
<1> HIDE DEF c
<1>6. ThreadsOK' /\ Others(t) /\ th'[t] = c
  BY <1>3, <1>5, OneThread, Zenon
<1>7. ArgsOK(th[t])'
  BY <1>1, <1>2, <1>5, <1>6, ZenonT(30) DEF ArgsOK
<1>8. Control(t)
  BY <1>2, <1>3, <1>5, <1>6, <1>7 DEF Control, table
<1> QED BY <1>2, <1>3, <1>5, <1>6, <1>8 DEF Quiet, ArgsOK, table

-----------------------------------------------------------------------------
(* The steps that change the lists.                                          *)

\* What the other actions do to the thread.  A thread that looked a bucket up
\* has the list of that bucket, if there is one ...
LEMMA LockControl ==
  ASSUME TableOK, ThreadsOK, NEW t \in Threads, ArgsOK(th[t]), get_list_lock(t)
  PROVE  /\ Control(t) /\ Becomes(t, "leave", items[th[t].index]) /\ th'[t].new = th[t].new
         /\ th[t].pc = "lock" /\ th[t].index \in DOMAIN items
<1>1. th[t].pc = "lock" /\ th[t].index \in DOMAIN items /\ items[th[t].index] \in Listed
  BY DEF get_list_lock, ThreadsOK, CallStates, ArgsOK, TableOK
<1>2. Becomes(t, "leave", items[th[t].index]) /\ th'[t].new = th[t].new
  BY <1>1, GoingWith, ZenonT(30) DEF get_list_lock, Pcs
<1> QED BY <1>1, <1>2 DEF get_list_lock, Becomes, Control, ArgsOK

\* ... a thread that publishes a list has the new one, or one that it found
\* instead ...
LEMMA PublishControl ==
  ASSUME TableOK, ThreadsOK, NEW t \in Threads, ArgsOK(th[t]), set_list_publish(t)
  PROVE  LET index == Hash(th[t].key) % size
             l == items[index]
         IN  /\ Control(t) /\ th'[t].new = th[t].new /\ th[t].pc = "publish"
             /\ index \in DOMAIN items /\ index \in Nat
             /\ IF l = NULL THEN Becomes(t, "register", <<gen, index>>)
                            ELSE Becomes(t, "work", l)
<1> DEFINE index == Hash(th[t].key) % size
           l == items[index]
<1>1. index \in Nat /\ index < size /\ index \in DOMAIN items /\ l \in Listed /\ th[t].pc = "publish"
  <2>1. th[t].pc = "publish" /\ th[t].key \in Keys
    BY DEF ArgsOK, set_list_publish
  <2>2. hash[th[t].key] \in Nat /\ size \in Nat \ {0}
    BY <2>1, TableAssumption DEF TableAssumption, TableOK
  <2>3. index \in Nat /\ index < size
    BY <2>2 DEF Hash
  <2> QED BY <2>1, <2>3 DEF TableOK
<1>2. /\ <<gen, index>> \in Listed /\ <<gen, index>> # NULL
      /\ "register" \in Pcs /\ "work" \in Pcs
  BY <1>1, TableAssumption DEF TableAssumption, TableOK, Listed, Names, Pcs
<1>3. status' = IDLE /\ UNCHANGED <<size, iterator_lock>>
  BY DEF set_list_publish
<1>4. IF l = NULL THEN th' = [th EXCEPT ![t] = [@ EXCEPT !.list = <<gen, index>>, !.pc = "register"]]
                  ELSE th' = [th EXCEPT ![t] = [@ EXCEPT !.list = l, !.pc = "work"]]
  BY DEF set_list_publish, set_list_index
<1> HIDE DEF index, l
<1>5. CASE l = NULL
  <2>1. Becomes(t, "register", <<gen, index>>) /\ th'[t].new = th[t].new
    BY <1>2, <1>4, <1>5, GoingWith, Zenon
  <2>2. Control(t)
    BY <1>1, <1>2, <1>3, <2>1 DEF Becomes, Control, ArgsOK
  <2> QED BY <1>1, <1>5, <2>1, <2>2 DEF index, l
<1>6. CASE l # NULL
  <2>1. Becomes(t, "work", l) /\ th'[t].new = th[t].new
    BY <1>1, <1>2, <1>4, <1>6, GoingWith, Zenon
  <2>2. Control(t)
    BY <1>1, <1>3, <1>6, <2>1 DEF Becomes, Control, ArgsOK
  <2> QED BY <1>1, <1>6, <2>1, <2>2 DEF index, l
<1> QED BY <1>5, <1>6

\* ... which it keeps while it registers it ...
LEMMA RegisterControl ==
  ASSUME ThreadsOK, NEW t \in Threads, ArgsOK(th[t]), set_list_register(t)
  PROVE  Control(t) /\ Becomes(t, "work", th[t].list) /\ th'[t].new = th[t].new
<1>1. Becomes(t, "work", th[t].list) /\ th'[t].new = th[t].new
  BY Going DEF set_list_register, Pcs
<1> QED BY <1>1 DEF set_list_register, Becomes, Control, ArgsOK

\* ... and has none after it did its work.
LEMMA WorkControl ==
  ASSUME ThreadsOK, NEW t \in Threads, ArgsOK(th[t]), set_internal(t) \/ call_internal(t)
  PROVE  /\ Control(t) /\ th[t].pc = "work" /\ th'[t].pc \in {"check", "idle"}
         /\ th'[t].list = NULL /\ th'[t].new = << >>
<1>1. /\ th[t].pc = "work" /\ th[t].new = << >>
      /\ UNCHANGED <<size, status, iterator_lock>>
      /\ Return(t) \/ th' = [th EXCEPT ![t] = [@ EXCEPT !.list = NULL, !.pc = "check"]]
  BY Zenon DEF set_internal, call_internal, Holds, ArgsOK
<1>2. CASE Return(t)
  <2>1. ThreadsOK' /\ th'[t] = NoCall /\ Others(t)
    BY <1>2, Returning
  <2> QED BY <1>1, <2>1 DEF Control, ArgsOK, NoCall
<1>3. CASE th' = [th EXCEPT ![t] = [@ EXCEPT !.list = NULL, !.pc = "check"]]
  <2>1. Becomes(t, "check", NULL) /\ th'[t].new = th[t].new
    BY <1>3, GoingWith, Zenon DEF Pcs, Listed
  <2> QED BY <1>1, <2>1 DEF Becomes, Control, ArgsOK
<1> QED BY <1>1, <1>2, <1>3

\* A thread that grows the table goes from the new array through the lists ...
LEMMA SwapControl ==
  ASSUME ThreadsOK, NEW t \in Threads, ArgsOK(th[t]), grow_swap(t)
  PROVE  /\ Control(t) /\ th[t].pc = "grow_swap" /\ Becomes(t, "grow_list", th[t].list)
         /\ th'[t].new = th[t].new
<1>1. Becomes(t, "grow_list", th[t].list) /\ th'[t].new = th[t].new
  BY Going DEF grow_swap, Pcs
<1>2. th[t].pc = "grow_swap" /\ UNCHANGED status /\ iterator_lock = NULL /\ iterator_lock' = t
  BY DEF grow_swap
<1> QED BY <1>1, <1>2 DEF Becomes, Control, ArgsOK, StatusAt

\* While a list is emptied or released, the thread stays where it is.
LEMMA StayControl ==
  ASSUME ThreadsOK, NEW t \in Threads, ArgsOK(th[t]), grow_release(t) \/ clear_list(t)
  PROVE  Control(t) /\ UNCHANGED th /\ th[t].pc \in {"grow_list", "clear_list"}
<1>1. UNCHANGED <<size, status, iterator_lock, th>> /\ th[t].pc \in {"grow_list", "clear_list"}
  BY Zenon DEF grow_release, clear_list
<1> QED BY <1>1 DEF Control, ThreadsOK, Others, ArgsOK, StatusAt

\* ... to their registration.
LEMMA GrowEndControl ==
  ASSUME ThreadsOK, NEW t \in Threads, ArgsOK(th[t]), grow_end(t)
  PROVE  /\ Control(t) /\ th[t].pc = "grow_list" /\ Becomes(t, "grow_idle", th[t].list)
         /\ th'[t].new = << >>
<1>1. << >> \in Seq(Names) /\ "grow_idle" \in Pcs
  BY DEF Pcs
<1>2. Becomes(t, "grow_idle", th[t].list) /\ th'[t].new = << >>
  BY <1>1, Making, Zenon DEF grow_end
<1>3. th[t].pc = "grow_list" /\ UNCHANGED <<size, status>> /\ iterator_lock' = NULL
  BY ZenonT(30) DEF grow_end
<1> QED BY <1>2, <1>3 DEF Becomes, Control, ArgsOK, StatusAt

\* An iteration goes from list to list.
LEMMA ForeachControl ==
  ASSUME TableOK, ThreadsOK, NEW t \in Threads, ArgsOK(th[t]), foreach_list(t)
  PROVE  /\ Control(t) /\ th[t].pc = "foreach_list" /\ Becomes(t, "foreach_list", th[t].list)
         /\ th'[t].new = th[t].new
<1>1. PICK n \in Nat : th' = [th EXCEPT ![t].at = n]
  <2>1. th[t].at + 1 \in Nat /\ Len(iterator_list) + 1 \in Nat
    BY DEF TableOK, ThreadsOK, CallStates
  <2> QED BY <2>1, Zenon DEF foreach_list
<1>2. th[t].pc = "foreach_list" /\ UNCHANGED <<size, status, iterator_lock>>
  BY Zenon DEF foreach_list
<1>3. Becomes(t, "foreach_list", th[t].list) /\ th'[t].new = th[t].new
  BY <1>1, <1>2, Visiting, Zenon DEF Pcs
<1> QED BY <1>2, <1>3 DEF Becomes, Control, ArgsOK

\* A clear takes iterator_lock before it frees the lists.
LEMMA ClearLockControl ==
  ASSUME ThreadsOK, NEW t \in Threads, ArgsOK(th[t]), clear_lock(t)
  PROVE  /\ Control(t) /\ th[t].pc = "clear_lock" /\ Becomes(t, "clear_list", th[t].list)
         /\ th'[t].new = th[t].new
<1>1. Becomes(t, "clear_list", th[t].list) /\ th'[t].new = th[t].new
  BY Going, ZenonT(30) DEF clear_lock, Pcs
<1> QED BY <1>1, ZenonT(30) DEF clear_lock, Becomes, Control, ArgsOK, StatusAt

\* What a growth moves next: the first item of the first list, to a bucket of
\* the new table.
FirstList == Head(iterator_list)
FirstItem == Head(list[FirstList].items)
NewBucket == Hash(FirstItem.key) % size
NewList == <<gen, NewBucket>>

\* The item that a growth moves has a bucket in the new array.
LEMMA FirstItemType ==
  ASSUME TableOK, Range(iterator_list) \subseteq DOMAIN list,
         iterator_list # << >>, list[FirstList].items # << >>
  PROVE  /\ FirstItem \in Pairs /\ NewBucket \in Nat /\ NewBucket \in DOMAIN items
         /\ NewList \in Names
<1>1. FirstList \in DOMAIN list
  BY DEF TableOK, Range, FirstList
<1>2. list[FirstList].items \in Seq(Pairs)
  BY <1>1 DEF TableOK, Buckets
<1>3. FirstItem \in Pairs
  BY <1>2 DEF FirstItem
<1>4. hash[FirstItem.key] \in Nat /\ size \in Nat \ {0}
  BY <1>3, TableAssumption DEF Pairs, TableAssumption, TableOK
<1>5. NewBucket \in Nat /\ NewBucket \in DOMAIN items
  BY <1>4 DEF Hash, TableOK, NewBucket
<1> QED BY <1>3, <1>5 DEF NewList, Names, TableOK

\* A growth collects the list that it made for an item, if it made one.
LEMMA GrowItemControl ==
  ASSUME TableOK, ThreadsOK, NEW t \in Threads, ArgsOK(th[t]), grow_item(t),
         Range(iterator_list) \subseteq DOMAIN list
  PROVE  /\ Control(t) /\ th[t].pc = "grow_list" /\ Becomes(t, "grow_list", th[t].list)
         /\ th'[t].new = IF items[NewBucket] = NULL THEN Append(th[t].new, NewList) ELSE th[t].new
<1> DEFINE n == IF items[NewBucket] = NULL THEN Append(th[t].new, NewList) ELSE th[t].new
<1>1. /\ th' = [th EXCEPT ![t].new = n] /\ th[t].pc = "grow_list"
      /\ UNCHANGED <<size, status, iterator_lock>>
      /\ iterator_list # << >> /\ list[FirstList].items # << >>
  BY Zenon DEF grow_item, FirstList, FirstItem, NewBucket, NewList
<1>2. NewList \in Names
  BY <1>1, FirstItemType
<1>3. n \in Seq(Names)
  BY <1>2 DEF ThreadsOK, CallStates
<1> HIDE DEF n
<1>4. Becomes(t, "grow_list", th[t].list) /\ th'[t].new = n
  BY <1>1, <1>3, Making, Zenon DEF Pcs
<1>5. Control(t)
  BY <1>1, <1>4 DEF Becomes, Control, ArgsOK
<1> QED BY <1>1, <1>4, <1>5 DEF n

\* A growth only makes the table larger, and no other thread is about to grow it.
LEMMA ArgsKept ==
  ASSUME \A u \in Threads : ArgsOK(th[u]), NEW t \in Threads, Others(t), ArgsOK(th[t])',
         size \in Nat, size' \in Nat, size <= size', ThreadsOK,
         size' # size => \A u \in Threads \ {t} : th[u].pc # "grow_swap"
  PROVE  \A u \in Threads : ArgsOK(th[u])'
<1> SUFFICES ASSUME NEW u \in Threads \ {t} PROVE ArgsOK(th[u])'
  OBVIOUS
<1>1. th'[u] = th[u] /\ th[u].index \in Nat
  BY DEF Others, ThreadsOK, CallStates
<1> QED BY <1>1 DEF ArgsOK

HIDE DEF StatusStep, IterStep, Reading, Alone, Growing, Clearing, Iterating

-----------------------------------------------------------------------------
(* The layer as a whole, and who is kept out by the status word.             *)

ControlInv ==
  TableOK /\ ThreadsOK /\ (\A t \in Threads : ArgsOK(th[t])) /\ StatusInv /\ IterInv

\* A thread that publishes, grows or clears is the only one inside.
LEMMA NobodyElse ==
  ASSUME StatusInv, NEW t \in Threads, NEW u \in Threads, th[u].pc \in Alone,
         th[t].pc \in Reading \cup Alone
  PROVE  u = t
<1>1. CASE th[t].pc \in Alone
  BY <1>1 DEF StatusInv
<1>2. CASE th[t].pc \in Reading
  <2>1. t \in Readers
    BY <1>2 DEF Readers
  <2>2. StatusAt(th[u].pc) < IDLE
    BY DEF StatusAt, WRITE, GROW, CLEAR, IDLE
  <2> QED BY <2>1, <2>2 DEF StatusInv
<1> QED BY <1>1, <1>2

\* A reader, and a thread that publishes a list, sees no growth and no clear.
LEMMA NoGrowth ==
  ASSUME StatusInv, NEW t \in Threads, th[t].pc \in {"lock", "leave", "publish"}, NEW u \in Threads
  PROVE  th[u].pc \notin {"grow_list", "clear_list"}
BY NobodyElse DEF Reading, Alone, Growing, Clearing

-----------------------------------------------------------------------------
(* Sequences without repetitions.                                            *)

\* What is on a list after it was extended ...
LEMMA RangeAppend ==
  ASSUME NEW S, NEW s \in Seq(S), NEW e \in S
  PROVE  /\ Range(Append(s, e)) = Range(s) \cup {e}
         /\ IsInjective(s) /\ e \notin Range(s) => IsInjective(Append(s, e))
<1>1. /\ DOMAIN s = 1 .. Len(s) /\ Len(s) \in Nat
      /\ DOMAIN Append(s, e) = 1 .. Len(s) + 1
      /\ \A i \in 1 .. Len(s) : Append(s, e)[i] = s[i]
      /\ Append(s, e)[Len(s) + 1] = e
  OBVIOUS
<1>2. Range(Append(s, e)) = Range(s) \cup {e}
  <2>1. \A y \in Range(Append(s, e)) : y \in Range(s) \cup {e}
    BY <1>1 DEF Range
  <2>2. \A i \in DOMAIN s : s[i] \in Range(Append(s, e))
    BY <1>1 DEF Range
  <2>3. e \in Range(Append(s, e))
    BY <1>1 DEF Range
  <2> QED BY <2>1, <2>2, <2>3 DEF Range
<1>3. ASSUME IsInjective(s), e \notin Range(s) PROVE IsInjective(Append(s, e))
  BY <1>1, <1>3 DEF IsInjective, Range
<1> QED BY <1>2, <1>3

\* ... or lost its first entry.
LEMMA RangeTail ==
  ASSUME NEW S, NEW s \in Seq(S), s # << >>
  PROVE  /\ Head(s) \in Range(s)
         /\ Range(s) = Range(Tail(s)) \cup {Head(s)}
         /\ IsInjective(s) => IsInjective(Tail(s)) /\ Head(s) \notin Range(Tail(s))
<1>1. /\ DOMAIN s = 1 .. Len(s) /\ Len(s) \in Nat \ {0}
      /\ DOMAIN Tail(s) = 1 .. Len(s) - 1
      /\ \A i \in 1 .. Len(s) - 1 : Tail(s)[i] = s[i + 1]
      /\ Head(s) = s[1]
  OBVIOUS
<1>2. Head(s) \in Range(s)
  BY <1>1 DEF Range
<1>3. Range(s) = Range(Tail(s)) \cup {Head(s)}
  <2>1. \A i \in DOMAIN s : s[i] \in Range(Tail(s)) \cup {Head(s)}
    <3> SUFFICES ASSUME NEW i \in DOMAIN s, i # 1 PROVE s[i] \in Range(Tail(s))
      BY <1>1
    <3>1. i - 1 \in DOMAIN Tail(s) /\ Tail(s)[i - 1] = s[i]
      BY <1>1
    <3> QED BY <3>1 DEF Range
  <2>2. \A i \in DOMAIN Tail(s) : Tail(s)[i] \in Range(s)
    BY <1>1 DEF Range
  <2> QED BY <1>2, <2>1, <2>2 DEF Range
<1>4. ASSUME IsInjective(s) PROVE IsInjective(Tail(s)) /\ Head(s) \notin Range(Tail(s))
  BY <1>1, <1>4 DEF IsInjective, Range
<1> QED BY <1>2, <1>3, <1>4

\* Nothing is on an empty list.
LEMMA RangeEmpty == Range(<< >>) = {} /\ IsInjective(<< >>)
BY DEF Range, IsInjective

-----------------------------------------------------------------------------
(* What the calls do to the items of a list.                                 *)

\* First is the smallest number of a set that has one.
FirstOK == \A s \in SUBSET Nat : s # {} => First(s) \in s

\* Where the entries of a concatenation come from.
LEMMA Concatenated ==
  ASSUME NEW S, NEW a \in Seq(S), NEW b \in Seq(S), NEW j \in DOMAIN (a \o b)
  PROVE  /\ j \in DOMAIN a => (a \o b)[j] = a[j]
         /\ j \notin DOMAIN a => j - Len(a) \in DOMAIN b /\ (a \o b)[j] = b[j - Len(a)]
OBVIOUS

\* What is left after an item was removed was there before.
LEMMA RemovedKeys ==
  ASSUME NEW its \in Seq(Pairs), NEW i \in DOMAIN its
  PROVE  /\ Removed(its, i) \in Seq(Pairs)
         /\ \A j \in DOMAIN Removed(its, i) : \E k \in DOMAIN its : Removed(its, i)[j] = its[k]
<1> DEFINE a == SubSeq(its, 1, i - 1)
           b == SubSeq(its, i + 1, Len(its))
<1>1. i \in 1 .. Len(its) /\ DOMAIN its = 1 .. Len(its) /\ Len(its) \in Nat
  OBVIOUS
<1>2. a \in Seq(Pairs) /\ \A j \in DOMAIN a : j \in DOMAIN its /\ a[j] = its[j]
  BY <1>1
<1>3. b \in Seq(Pairs) /\ \A j \in DOMAIN b : i + j \in DOMAIN its /\ b[j] = its[i + j]
  <2>1. b \in Seq(Pairs) /\ Len(b) = Len(its) - i
    BY <1>1
  <2>2. \A j \in 1 .. Len(its) - i : i + j \in 1 .. Len(its) /\ b[j] = its[i + j]
    BY <1>1
  <2> HIDE DEF b
  <2>3. DOMAIN b = 1 .. Len(its) - i
    BY <2>1
  <2> QED BY <2>1, <2>2, <2>3, <1>1
<1>4. Removed(its, i) = a \o b
  BY DEF Removed
<1> HIDE DEF a, b
<1>5. a \o b \in Seq(Pairs)
  BY <1>2, <1>3
<1>6. ASSUME NEW j \in DOMAIN (a \o b) PROVE \E k \in DOMAIN its : (a \o b)[j] = its[k]
  <2>1. CASE j \in DOMAIN a
    <3>1. (a \o b)[j] = a[j]
      BY <1>2, <1>3, <2>1, Concatenated
    <3> QED BY <1>2, <2>1, <3>1
  <2>2. CASE j \notin DOMAIN a
    <3>1. j - Len(a) \in DOMAIN b /\ (a \o b)[j] = b[j - Len(a)]
      BY <1>2, <1>3, <2>2, Concatenated
    <3> QED BY <1>3, <3>1, Zenon
  <2> QED BY <2>1, <2>2
<1> QED BY <1>4, <1>5, <1>6

\* An item with another value.
Updated(its, i, d) == [its EXCEPT ![i].data = d]

\* An item that gets another value keeps its key, and so do the others.
LEMMA UpdatedKeys ==
  ASSUME NEW its \in Seq(Pairs), NEW i \in DOMAIN its, NEW d \in Vals \cup {NULL},
         NEW new, new = Updated(its, i, d)
  PROVE  /\ new \in Seq(Pairs) /\ DOMAIN new = DOMAIN its
         /\ \A j \in DOMAIN its : new[j].key = its[j].key
<1> DEFINE e == [its[i] EXCEPT !.data = d]
<1>1. its[i] \in Pairs
  OBVIOUS
<1>2. e \in Pairs /\ e.key = its[i].key
  BY <1>1, Zenon DEF Pairs
<1>3. new = [its EXCEPT ![i] = e]
  BY DEF Updated
<1> HIDE DEF e
<1>4. new \in Seq(Pairs) /\ DOMAIN new = DOMAIN its
  BY <1>2, <1>3
<1>5. \A j \in DOMAIN its : new[j] = IF j = i THEN e ELSE its[j]
  BY <1>3
<1> QED BY <1>2, <1>4, <1>5

\* A list with one more item has the earlier ones and the new one.
LEMMA AppendedKeys ==
  ASSUME NEW its \in Seq(Pairs), NEW e \in Pairs
  PROVE  /\ Append(its, e) \in Seq(Pairs)
         /\ \A j \in DOMAIN Append(its, e) : Append(its, e)[j] = e \/ \E k \in DOMAIN its : Append(its, e)[j] = its[k]
OBVIOUS

\* The first item with a key is an item of the list.
LEMMA FoundFirst ==
  ASSUME FirstOK, NEW its \in Seq(Pairs), NEW k,
         {i \in DOMAIN its : its[i].key = k} # {}
  PROVE  First({i \in DOMAIN its : its[i].key = k}) \in DOMAIN its
<1> DEFINE s == {i \in DOMAIN its : its[i].key = k}
<1>1. s \in SUBSET Nat /\ s \subseteq DOMAIN its
  OBVIOUS
<1> HIDE DEF s
<1>2. s # {} => First(s) \in s
  BY <1>1 DEF FirstOK
<1> QED BY <1>1, <1>2 DEF s

\* The data that a call writes.
LEMMA LeftInType ==
  ASSUME NEW c, NEW e \in Pairs
  PROVE  LeftIn(c, e) \in Vals \cup {NULL}
<1>1. e.data \in Vals \cup {NULL}
  BY DEF Pairs
<1>2. \E v \in Vals : v # c.data
  BY TableAssumption, Zenon DEF TableAssumption
<1>3. (CHOOSE v \in Vals : v # c.data) \in Vals
  BY <1>2, Zenon
<1>4. SetIfEquals(c, e) \in Vals \cup {NULL}
  BY <1>1, <1>3, Zenon DEF SetIfEquals
<1> QED BY <1>1, <1>4 DEF LeftIn

\* The items have keys that the list had, or one of ks.
KeysFrom(its, l, ks) ==
  \A i \in DOMAIN its :
    its[i].key \in ks \/ \E j \in DOMAIN list[l].items : list[l].items[j].key = its[i].key

\* An item is added, changed or removed: the other keys stay.
LEMMA KeysKept ==
  ASSUME NEW l, NEW s \in Seq(Pairs), list[l].items = s, NEW k \in Keys, NEW d \in Vals \cup {NULL}
  PROVE  /\ KeysFrom(s, l, {k})
         /\ LET its == Append(s, [key |-> k, data |-> d])
            IN  its \in Seq(Pairs) /\ KeysFrom(its, l, {k})
         /\ \A n \in DOMAIN s :
              LET its == Updated(s, n, d)
              IN  its \in Seq(Pairs) /\ KeysFrom(its, l, {k})
<1>1. KeysFrom(s, l, {k})
  BY DEF KeysFrom
<1>2. PICK e : e = [key |-> k, data |-> d]
  BY Zenon
<1>3. e \in Pairs /\ e.key = k
  BY <1>2, Zenon DEF Pairs
<1>4. Append(s, e) \in Seq(Pairs) /\ KeysFrom(Append(s, e), l, {k})
  <2>1. PICK its : its = Append(s, e)
    BY Zenon
  <2>2. its \in Seq(Pairs) /\ \A j \in DOMAIN its : its[j] = e \/ \E i \in DOMAIN s : its[j] = s[i]
    BY <1>3, <2>1, AppendedKeys
  <2>3. KeysFrom(its, l, {k})
    BY <1>3, <2>2 DEF KeysFrom
  <2> QED BY <2>1, <2>2, <2>3
<1>5. ASSUME NEW n \in DOMAIN s
      PROVE  Updated(s, n, d) \in Seq(Pairs) /\ KeysFrom(Updated(s, n, d), l, {k})
  <2>1. PICK its : its = Updated(s, n, d)
    BY Zenon
  <2>2. /\ its \in Seq(Pairs) /\ DOMAIN its = DOMAIN s
        /\ \A j \in DOMAIN s : its[j].key = s[j].key
    BY <2>1, UpdatedKeys
  <2>3. KeysFrom(its, l, {k})
    BY <2>2 DEF KeysFrom
  <2> QED BY <2>1, <2>2, <2>3, Zenon
<1> QED BY <1>1, <1>2, <1>4, <1>5, Zenon

\* A removal brings no key into a list.
LEMMA KeysLeft ==
  ASSUME NEW l, NEW s \in Seq(Pairs), list[l].items = s, NEW n \in DOMAIN s, NEW ks
  PROVE  Removed(s, n) \in Seq(Pairs) /\ KeysFrom(Removed(s, n), l, ks)
<1>1. PICK its : its = Removed(s, n)
  OBVIOUS
<1>2. its \in Seq(Pairs) /\ \A j \in DOMAIN its : \E i \in DOMAIN s : its[j] = s[i]
  BY <1>1, RemovedKeys, ZenonT(30)
<1>3. KeysFrom(its, l, ks)
  BY <1>2 DEF KeysFrom
<1> QED BY <1>1, <1>2, <1>3, Zenon

-----------------------------------------------------------------------------
(* The second layer: which bucket lists exist, who holds them and where they *)
(* are registered.  First the kinds of steps that make and free no list.     *)

\* A list that a thread has is allocated and locked by the thread.
HoldInv ==
  \A t \in Threads : th[t].list # NULL => th[t].list \in DOMAIN list /\ list[th[t].list].lock = t

\* The lists are named by the generation and the bucket they were made for; a
\* list of the current generation is in the table.
NameInv ==
  /\ \A l \in DOMAIN list :
       /\ list[l].index = l[2] /\ l[1] <= gen
       /\ l[1] = gen => l[2] \in DOMAIN items /\ items[l[2]] = l
  /\ \A x \in DOMAIN items : items[x] # NULL => items[x] \in DOMAIN list /\ items[x][2] = x

\* While the table is cleared, all lists are of an earlier generation.
ClearInv ==
  \A t \in Threads : th[t].pc = "clear_list" => \A l \in DOMAIN list : l[1] < gen

\* While the table grows, the new lists are those of the current generation,
\* and nobody has one of them.
GrowInv ==
  \A t \in Threads : th[t].pc = "grow_list" =>
    /\ \A x \in DOMAIN items : items[x] # NULL => items[x][1] = gen
    /\ \A l \in Range(iterator_list) : l[1] < gen
    /\ \A l \in Range(th[t].new) : l[1] = gen
    /\ \A u \in Threads : th[u].list # NULL => th[u].list[1] < gen

ListsInv == HoldInv /\ NameInv /\ ClearInv /\ GrowInv /\ Registered

\* Registered, list by list.
Owned ==
  /\ IsInjective(iterator_list) /\ \A t \in Threads : IsInjective(th[t].new)
  /\ \A l : l \in DOMAIN list <=> l \in Range(iterator_list) \/ \E t \in Threads : l \in Waiting(t)
  /\ \A t \in Threads :
       /\ Waiting(t) \cap Range(iterator_list) = {}
       /\ \A u \in Threads \ {t} : Waiting(t) \cap Waiting(u) = {}

\* Owned says what Registered says ...
LEMMA OwnedNow == Registered => Owned
<1> HAVE Registered
<1>1. DOMAIN list = Range(iterator_list) \cup UNION {Waiting(t) : t \in Threads}
  BY DEF Registered
<1>2. \A l : l \in DOMAIN list <=> l \in Range(iterator_list) \/ \E t \in Threads : l \in Waiting(t)
  BY <1>1
<1> QED BY <1>2 DEF Registered, Owned

\* ... in the next state too.
LEMMA OwnedThen == Owned' => Registered'
<1> HAVE Owned'
<1>1. \A l : l \in DOMAIN list' <=> l \in Range(iterator_list') \/ \E t \in Threads : l \in Waiting(t)'
  BY DEF Owned
<1>2. DOMAIN list' = Range(iterator_list') \cup UNION {Waiting(t)' : t \in Threads}
  BY <1>1
<1> QED BY <1>2 DEF Registered, Owned

-----------------------------------------------------------------------------
(* Steps that leave the lists alone.                                         *)

\* A step that changes no list, and only the position of its thread, keeps the
\* layer.
LEMMA QuietLists ==
  ASSUME ControlInv, ListsInv, NEW t \in Threads, Control(t), Quiet(t), status' \in Nat
  PROVE  TableOK' /\ ListsInv'
<1>1. TableOK'
  BY DEF ControlInv, TableOK, Quiet
<1>2. HoldInv'
  BY DEF ListsInv, HoldInv, Quiet, Control, Others
<1>3. NameInv'
  BY DEF ListsInv, NameInv, Quiet
<1>4. ClearInv'
  BY DEF ListsInv, ClearInv, Quiet, Control, Others
<1>5. GrowInv'
  <2> SUFFICES ASSUME NEW u \in Threads, th'[u].pc = "grow_list"
               PROVE  /\ \A l \in Range(th'[u].new) : l[1] = gen
                      /\ \A v \in Threads : th'[v].list # NULL => th'[v].list[1] < gen
    BY DEF ListsInv, GrowInv, Quiet, Control, Others
  <2>1. u # t /\ th'[u] = th[u]
    BY ZenonT(30) DEF Quiet, Control, Others
  <2>2. \A v \in Threads : th'[v].list # NULL => th'[v].list = th[v].list
    BY DEF Quiet, Control, Others
  <2> QED BY <2>1, <2>2 DEF ListsInv, GrowInv
<1>6. Registered'
  <2>1. \A u \in Threads : Waiting(u)' = Waiting(u) /\ th'[u].new = th[u].new
    BY DEF Quiet, Control, Others, Waiting
  <2> QED BY <2>1 DEF ListsInv, Registered, Quiet
<1> QED BY <1>1, <1>2, <1>3, <1>4, <1>5, <1>6 DEF ListsInv

-----------------------------------------------------------------------------
(* A thread locks a list that it found in the table.                         *)

\* One list is changed, and not its name.
Changes(l) ==
  /\ list' \in [DOMAIN list -> Buckets]
  /\ list'[l].index = list[l].index
  /\ \A m \in DOMAIN list \ {l} : list'[m] = list[m]

\* One list gets another value ...
LEMMA OneList ==
  ASSUME TableOK, NEW l \in DOMAIN list, NEW b \in Buckets, b.index = list[l].index,
         list' = [list EXCEPT ![l] = b]
  PROVE  Changes(l) /\ list'[l] = b
BY DEF TableOK, Changes

\* ... for instance another holder.
LEMMA LockedList ==
  ASSUME TableOK, NEW t \in Threads, NEW l \in DOMAIN list, list' = Locked(t, l)
  PROVE  Changes(l) /\ list'[l].lock = t /\ list'[l].items = list[l].items
<1> DEFINE b == [list[l] EXCEPT !.lock = t]
<1>1. list[l] \in Buckets
  BY DEF TableOK
<1>2. b \in Buckets /\ b.index = list[l].index /\ b.lock = t /\ b.items = list[l].items
  BY <1>1, Zenon DEF Buckets
<1>3. list' = [list EXCEPT ![l] = b]
  BY DEF Locked
<1> HIDE DEF b
<1> QED BY <1>2, <1>3, OneList, Zenon

\* The table and the registration are as they were.
SameTable == UNCHANGED <<size, items, iterator_list, gen, overtaken>>

Takes(t, x) ==
  /\ SameTable /\ x \in DOMAIN items /\ items[x] # NULL /\ Free(items[x])
  /\ list' = Locked(t, items[x])
  /\ th[t].pc \in {"lock", "publish"} /\ th'[t].pc \in {"leave", "work"}
  /\ th'[t].list = items[x] /\ th'[t].new = th[t].new /\ th'[t].key = th[t].key

\* get_list_lock and set_list_publish take a list that nobody holds.
LEMMA TakesLists ==
  ASSUME ControlInv, ListsInv, NEW t \in Threads, NEW x, Control(t), Takes(t, x), status' \in Nat
  PROVE  TableOK' /\ ListsInv'
<1> DEFINE l == items[x]
<1>1. l \in DOMAIN list /\ list[l].lock = NULL
  BY DEF Takes, ListsInv, NameInv, Free
<1>2. Changes(l) /\ list'[l].lock = t /\ DOMAIN list' = DOMAIN list
  <2>1. TableOK /\ list' = Locked(t, l)
    BY DEF ControlInv, Takes
  <2> QED BY <1>1, <2>1, LockedList DEF Changes
<1>3. \A u \in Threads : th[u].pc \notin {"grow_list", "clear_list"}
  BY NoGrowth DEF ControlInv, Takes
<1>4. SameTable /\ th'[t].list = l
  BY DEF Takes
<1> HIDE DEF l
<1>5. TableOK'
  BY <1>2, <1>4 DEF ControlInv, TableOK, Changes, SameTable
<1>6. HoldInv'
  <2> SUFFICES ASSUME NEW u \in Threads \ {t}, th[u].list # NULL
               PROVE  th[u].list \in DOMAIN list /\ list'[th[u].list].lock = u
    BY <1>1, <1>2, <1>4 DEF HoldInv, Control, Others
  <2>1. th[u].list \in DOMAIN list /\ list[th[u].list].lock = u
    BY DEF ListsInv, HoldInv
  <2>2. th[u].list # l
    BY <1>1, <2>1, TableAssumption, ZenonT(30) DEF TableAssumption
  <2> QED BY <1>2, <2>1, <2>2 DEF Changes
<1>7. NameInv'
  BY <1>2, <1>4 DEF ListsInv, NameInv, Changes, SameTable
<1>8. ClearInv' /\ GrowInv'
  BY <1>3 DEF ClearInv, GrowInv, Control, Others, Takes
<1>9. Registered'
  <2>1. \A u \in Threads : Waiting(u)' = Waiting(u) /\ th'[u].new = th[u].new
    BY DEF Takes, Control, Others, Waiting
  <2> QED BY <1>2, <1>4, <2>1 DEF ListsInv, Registered, SameTable
<1> QED BY <1>5, <1>6, <1>7, <1>8, <1>9 DEF ListsInv

-----------------------------------------------------------------------------
(* A thread changes the items of a list and leaves it to the others.         *)

Puts(t) ==
  /\ SameTable
  /\ \E its \in Seq(Pairs) : Unlocked(t, its) /\ KeysFrom(its, th[t].list, {th[t].key})
  /\ th[t].pc = "work" /\ th'[t].pc \in {"check", "idle"}
  /\ th'[t].list = NULL /\ th'[t].new = << >>

\* A list is left with other items in it.
LEMMA UnlockedList ==
  ASSUME TableOK, NEW t \in Threads, th[t].list \in DOMAIN list,
         NEW its \in Seq(Pairs), Unlocked(t, its)
  PROVE  Changes(th[t].list) /\ list'[th[t].list].items = its
<1> DEFINE l == th[t].list
           b == [list[l] EXCEPT !.items = its, !.lock = NULL]
<1>1. list[l] \in Buckets
  BY DEF TableOK
<1>2. b \in Buckets /\ b.index = list[l].index /\ b.items = its
  BY <1>1, Zenon DEF Buckets
<1>3. list' = [list EXCEPT ![l] = b]
  BY <1>1, Zenon DEF Unlocked, Buckets, TableOK
<1> HIDE DEF b
<1> QED BY <1>2, <1>3, OneList, Zenon

\* set_internal and call_internal leave the list that the thread held.
LEMMA PutsLists ==
  ASSUME ControlInv, ListsInv, NEW t \in Threads, Control(t), Puts(t), status' \in Nat
  PROVE  TableOK' /\ ListsInv'
<1> DEFINE l == th[t].list
<1>1. l \in DOMAIN list /\ list[l].lock = t
  BY ZenonT(30) DEF Puts, ControlInv, ArgsOK, ListsInv, HoldInv
<1>2. Changes(l) /\ DOMAIN list' = DOMAIN list
  <2>1. TableOK /\ \E its \in Seq(Pairs) : Unlocked(t, its)
    BY DEF ControlInv, Puts
  <2> QED BY <1>1, <2>1, UnlockedList DEF Changes
<1>4. SameTable /\ th'[t].list = NULL
  BY DEF Puts
<1>5. TableOK'
  BY <1>2, <1>4 DEF ControlInv, TableOK, Changes, SameTable
<1>6. HoldInv'
  <2> SUFFICES ASSUME NEW u \in Threads \ {t}, th[u].list # NULL
               PROVE  th[u].list \in DOMAIN list /\ list'[th[u].list].lock = u
    BY <1>2, <1>4 DEF HoldInv, Control, Others
  <2>1. th[u].list \in DOMAIN list /\ list[th[u].list].lock = u
    BY DEF ListsInv, HoldInv
  <2> QED BY <1>1, <1>2, <2>1, ZenonT(30) DEF Changes
<1>7. NameInv'
  BY <1>2, <1>4, ZenonT(30) DEF ListsInv, NameInv, Changes, SameTable
<1>8. ClearInv' /\ GrowInv'
  <2>1. ClearInv'
    BY <1>2, <1>4, ZenonT(30) DEF ListsInv, ClearInv, Control, Others, Puts, SameTable
  <2> QED BY <2>1, <1>4, ZenonT(30) DEF ListsInv, GrowInv, Control, Others, Puts, SameTable
<1>9. Registered'
  <2>1. th[t].new = << >>
    BY DEF Puts, ControlInv, ArgsOK
  <2>2. \A u \in Threads : Waiting(u)' = Waiting(u) /\ th'[u].new = th[u].new
    BY <2>1, Zenon DEF Puts, Control, Others, Waiting
  <2> QED BY <1>2, <1>4, <2>2 DEF ListsInv, Registered, SameTable
<1> QED BY <1>5, <1>6, <1>7, <1>8, <1>9 DEF ListsInv

-----------------------------------------------------------------------------
(* An iteration may remove an item of a list that nobody has.                *)

Visits(t) ==
  /\ SameTable
  /\ \/ UNCHANGED list
     \/ \E l \in DOMAIN list, its \in Seq(Pairs) :
          list' = [list EXCEPT ![l].items = its] /\ KeysFrom(its, l, {})
  /\ th'[t].pc = "foreach_list" /\ th[t].pc = "foreach_list"
  /\ th'[t].list = th[t].list /\ th'[t].new = th[t].new /\ th'[t].key = th[t].key

\* A list gets other items and keeps its holder.
LEMMA ItemsList ==
  ASSUME TableOK, NEW l \in DOMAIN list, NEW its \in Seq(Pairs),
         list' = [list EXCEPT ![l].items = its]
  PROVE  Changes(l) /\ list'[l].items = its /\ list'[l].lock = list[l].lock
<1> DEFINE b == [list[l] EXCEPT !.items = its]
<1>1. list[l] \in Buckets
  BY DEF TableOK
<1>2. b \in Buckets /\ b.index = list[l].index /\ b.lock = list[l].lock /\ b.items = its
  BY <1>1, Zenon DEF Buckets
<1>3. list' = [list EXCEPT ![l] = b]
  OBVIOUS
<1> HIDE DEF b
<1> QED BY <1>2, <1>3, OneList, Zenon

\* foreach_list changes the items of a list and holds none.
LEMMA VisitsLists ==
  ASSUME ControlInv, ListsInv, NEW t \in Threads, Control(t), Visits(t), status' \in Nat
  PROVE  TableOK' /\ ListsInv'
<1> DEFINE Kept == /\ list' \in [DOMAIN list -> Buckets]
                   /\ \A m \in DOMAIN list : /\ list'[m].index = list[m].index
                                             /\ list'[m].lock = list[m].lock
<1>1. Kept
  <2>1. CASE UNCHANGED list
    BY <2>1 DEF ControlInv, TableOK
  <2>2. ASSUME NEW l \in DOMAIN list, NEW its \in Seq(Pairs), list' = [list EXCEPT ![l].items = its]
        PROVE  Kept
    <3>1. Changes(l) /\ list'[l].lock = list[l].lock
      BY <2>2, ItemsList, Zenon DEF ControlInv
    <3> QED BY <3>1 DEF Changes
  <2> QED BY <2>1, <2>2 DEF Visits
<1>2. DOMAIN list' = DOMAIN list
  BY <1>1
<1>3. SameTable /\ \A u \in Threads : /\ th'[u].pc = th[u].pc /\ th'[u].list = th[u].list
                                      /\ th'[u].new = th[u].new
  BY DEF Visits, Control, Others
<1>4. TableOK'
  BY <1>1, <1>2, <1>3 DEF ControlInv, TableOK, SameTable
<1>5. HoldInv' /\ NameInv'
  BY <1>1, <1>2, <1>3 DEF ListsInv, HoldInv, NameInv, SameTable
<1>6. ClearInv' /\ GrowInv'
  BY <1>2, <1>3 DEF ListsInv, ClearInv, GrowInv, SameTable
<1>7. Registered'
  <2>1. \A u \in Threads : Waiting(u)' = Waiting(u)
    BY <1>3 DEF Waiting
  <2> QED BY <1>2, <1>3, <2>1 DEF ListsInv, Registered, SameTable
<1> QED BY <1>4, <1>5, <1>6, <1>7 DEF ListsInv
=============================================================================
