--------------------------- MODULE InMemIndexLocks ---------------------------
(***************************************************************************)
(* Proofs about InMemIndex for any number of threads, shards, attributes   *)
(* and searches: the types of the variables with the numbering of the path *)
(* lists, the discipline of the read-write lock of a shard, and what a     *)
(* step leaves alone.                                                      *)
(***************************************************************************)
EXTENDS InMemIndex, TLAPS

-----------------------------------------------------------------------------
(* Path lists.                                                               *)

\* Every entry records its position, and no tag occurs twice.
Numbered(list, T) ==
  /\ list \in Seq([tag : T, pos : Nat])
  /\ \A j \in DOMAIN list : list[j].pos = j - 1
  /\ \A j, k \in DOMAIN list : list[j].tag = list[k].tag => j = k

Extends(new, old) ==
  /\ Len(old) <= Len(new)
  /\ \A j \in DOMAIN old : j \in DOMAIN new /\ new[j] = old[j]

\* An entry put at the end, for a tag the list does not have, keeps the
\* numbering and moves no entry.
LEMMA TagInserted ==
  ASSUME NEW T, NEW list, NEW tag \in T, Numbered(list, T), tag \notin Tags(list)
  PROVE  LET new == insert_entry(list, Entry(tag, Len(list)), Len(list))
         IN  Numbered(new, T) /\ Extends(new, list) /\ Len(new) = Len(list) + 1
<1> list \in Seq([tag : T, pos : Nat]) /\ Len(list) \in Nat
  BY DEF Numbered
<1> DEFINE E == [tag : T, pos : Nat]
           e == Entry(tag, Len(list))
           new == insert_entry(list, e, Len(list))
<1>1. list \in Seq(E) /\ e \in E /\ e.tag = tag /\ e.pos = Len(list)
  BY DEF Entry
<1> HIDE DEF E, e
<1>2. /\ new = [j \in 1 .. Len(list) + 1 |-> IF j <= Len(list) THEN list[j] ELSE e]
  <2>1. \A j \in 1 .. Len(list) + 1 : j <= Len(list) \/ j = Len(list) + 1
    OBVIOUS
  <2> QED BY <2>1 DEF insert_entry
<1> HIDE DEF new
<1>3. /\ new \in Seq(E) /\ Len(new) = Len(list) + 1
      /\ DOMAIN new = 1 .. Len(list) + 1
      /\ new[Len(list) + 1] = e
      /\ \A j \in 1 .. Len(list) : new[j] = list[j]
  <2>1. \A j \in 1 .. Len(list) : list[j] \in E
    BY <1>1
  <2>2. DOMAIN new = 1 .. Len(list) + 1 /\ \A j \in DOMAIN new : new[j] \in E
    BY <1>1, <1>2, <2>1
  <2>3. new \in Seq(E)
    BY <1>2, <2>2
  <2>4. Len(new) = Len(list) + 1
    BY <2>2, <2>3
  <2>5. new[Len(list) + 1] = e /\ \A j \in 1 .. Len(list) : new[j] = list[j]
    BY <1>2
  <2> QED BY <2>2, <2>3, <2>4, <2>5
<1>4. \A j \in 1 .. Len(list) : list[j].tag # tag
  BY DEF Tags
<1>5. Numbered(new, T)
  <2>1. \A j \in DOMAIN new : j \in 1 .. Len(list) \/ j = Len(list) + 1
    BY <1>3
  <2>2. \A j \in DOMAIN new : new[j].pos = j - 1
    <3> SUFFICES ASSUME NEW j \in DOMAIN new PROVE new[j].pos = j - 1
      OBVIOUS
    <3>1. CASE j \in 1 .. Len(list)
      <4>1. new[j] = list[j] /\ j \in DOMAIN list
        BY <1>3, <3>1
      <4> QED BY <4>1 DEF Numbered
    <3>2. CASE j = Len(list) + 1
      BY <1>1, <1>3, <3>2
    <3> QED BY <2>1, <3>1, <3>2
  <2>3. \A j, k \in DOMAIN new : new[j].tag = new[k].tag => j = k
    <3> SUFFICES ASSUME NEW j \in DOMAIN new, NEW k \in DOMAIN new,
                        new[j].tag = new[k].tag
                 PROVE  j = k
      OBVIOUS
    <3>1. CASE j \in 1 .. Len(list) /\ k \in 1 .. Len(list)
      <4>1. list[j].tag = list[k].tag /\ j \in DOMAIN list /\ k \in DOMAIN list
        BY <1>3, <3>1
      <4> QED BY <4>1 DEF Numbered
    <3>2. CASE j \in 1 .. Len(list) /\ k = Len(list) + 1
      BY <1>1, <1>3, <1>4, <3>2
    <3>3. CASE j = Len(list) + 1 /\ k \in 1 .. Len(list)
      BY <1>1, <1>3, <1>4, <3>3
    <3> QED BY <2>1, <3>1, <3>2, <3>3
  <2> QED BY <1>3, <2>2, <2>3 DEF Numbered, E
<1>6. Extends(new, list)
  <2>1. Len(list) <= Len(new)
    BY <1>3
  <2>2. \A j \in DOMAIN list : j \in 1 .. Len(list) /\ j \in DOMAIN new
    BY <1>3
  <2> QED BY <1>3, <2>1, <2>2 DEF Extends
<1> QED BY <1>3, <1>5, <1>6 DEF new, e

\* The position of a tag is one of the list, or the next one.
LEMMA TagPosition ==
  ASSUME NEW T, NEW list, NEW tag \in T, Numbered(list, T)
  PROVE  /\ TaggedPos(list, tag) \in Nat
         /\ tag \in Tags(list) => TaggedPos(list, tag) < Len(list)
         /\ tag \notin Tags(list) => TaggedPos(list, tag) = Len(list)
<1> list \in Seq([tag : T, pos : Nat]) /\ Len(list) \in Nat
  BY DEF Numbered
<1>1. CASE tag \in Tags(list)
  <2>1. PICK k \in DOMAIN list : list[k].tag = tag
    BY <1>1 DEF Tags
  <2>2. \A j \in 1 .. k - 1 : list[j].tag # tag
    <3>1. \A j \in 1 .. k - 1 : j \in DOMAIN list /\ j # k
      OBVIOUS
    <3> QED BY <2>1, <3>1, Zenon DEF Numbered
  <2>3. FirstWith(list, tag) \in DOMAIN list
    BY <2>1, <2>2, Zenon DEF FirstWith
  <2> QED BY <1>1, <2>3 DEF TaggedPos, Numbered
<1>2. CASE tag \notin Tags(list)
  BY <1>2 DEF TaggedPos
<1> QED BY <1>1, <1>2

-----------------------------------------------------------------------------
(* Types.                                                                    *)

LEMMA ArgFacts ==
  /\ \A a \in Attrs : /\ a.name \in Names /\ a.file \in Files /\ a.obj \in Objs
                      /\ ShardOf[a.name] \in Shards
  /\ \A q \in Queries : q.name \in Names /\ ShardOf[q.name] \in Shards
  /\ NoThread \notin Threads /\ MaxCalls \in Nat
BY IndexAssumption

\* A thread inside a call has the argument of that call.
ArgsOK ==
  \A t \in Threads : /\ pc[t] \in Writing \cup {"wrlock"} => op[t] \in Attrs
                     /\ pc[t] \in Reading \cup {"rdlock"} => op[t] \in Queries

Typed ==
  /\ lock \in [Shards -> [w : Threads \cup {NoThread}, r : SUBSET Threads]]
  /\ pc \in [Threads -> Pcs]
  /\ op \in [Threads -> Attrs \cup Queries \cup {NoOp}]
  /\ private \in [Threads -> BOOLEAN]
  /\ i \in [Threads -> Nat \ {0}]
  /\ fpos \in [Threads -> Nat] /\ opos \in [Threads -> Nat]
  /\ DOMAIN files = Shards /\ DOMAIN objs = Shards /\ DOMAIN tree = Names
  /\ crashed \in BOOLEAN
  /\ calls \in 0 .. MaxCalls
  /\ ArgsOK

ListsNumbered ==
  \A s \in Shards : Numbered(files[s], Files) /\ Numbered(objs[s], Objs)

LEMMA TypedInit == Init => Typed /\ ListsNumbered
<1> SUFFICES ASSUME Init PROVE Typed /\ ListsNumbered
  OBVIOUS
<1>1. lock \in [Shards -> [w : Threads \cup {NoThread}, r : SUBSET Threads]]
  BY DEF Init
<1>3. pc \in [Threads -> Pcs] /\ ArgsOK
  BY DEF Init, ArgsOK, Pcs, Writing, Reading
<1>4. /\ op \in [Threads -> Attrs \cup Queries \cup {NoOp}]
      /\ private \in [Threads -> BOOLEAN]
      /\ i \in [Threads -> Nat \ {0}]
      /\ fpos \in [Threads -> Nat] /\ opos \in [Threads -> Nat]
  BY DEF Init
<1>5. /\ DOMAIN files = Shards /\ DOMAIN objs = Shards /\ DOMAIN tree = Names
      /\ crashed \in BOOLEAN
  BY Zenon DEF Init
<1>6. calls \in 0 .. MaxCalls
  BY ArgFacts DEF Init
<1>2. ListsNumbered
  BY DEF Init, ListsNumbered, Numbered
<1> QED BY <1>1, <1>2, <1>3, <1>4, <1>5, <1>6 DEF Typed

\* A thread that moves on in its call, or ends it, keeps the argument.
LEMMA TypedGoto ==
  ASSUME Typed, NEW t \in Threads, NEW l \in Pcs, Goto(t, l), op' = op,
         l \in Writing => pc[t] \in Writing \cup {"wrlock"},
         l \in Reading => pc[t] \in Reading \cup {"rdlock"},
         l \notin {"wrlock", "rdlock"}
  PROVE  pc' \in [Threads -> Pcs] /\ ArgsOK'
<1>1. pc' \in [Threads -> Pcs] /\ pc' = [pc EXCEPT ![t] = l]
  BY DEF Typed, Goto
<1>2. ASSUME NEW u \in Threads
      PROVE  /\ pc'[u] \in Writing \cup {"wrlock"} => op'[u] \in Attrs
             /\ pc'[u] \in Reading \cup {"rdlock"} => op'[u] \in Queries
  <2>1. CASE u = t
    BY <1>1, <2>1 DEF Typed, ArgsOK
  <2>2. CASE u # t
    BY <1>1, <2>2 DEF Typed, ArgsOK
  <2> QED BY <2>1, <2>2
<1> QED BY <1>1, <1>2 DEF ArgsOK

\* The argument of a step, and the shard it works on.
LEMMA WriterArg ==
  ASSUME Typed, NEW t \in Threads, pc[t] \in Writing \cup {"wrlock"}
  PROVE  /\ op[t] \in Attrs /\ op[t].name \in Names /\ Shard(t) \in Shards
         /\ op[t].file \in Files /\ op[t].obj \in Objs
BY ArgFacts DEF Typed, ArgsOK, Shard

LEMMA ReaderArg ==
  ASSUME Typed, NEW t \in Threads, pc[t] \in Reading \cup {"rdlock"}
  PROVE  op[t] \in Queries /\ op[t].name \in Names /\ Shard(t) \in Shards
BY ArgFacts DEF Typed, ArgsOK, Shard

\* The argument and the count of calls when a thread enters the index.
LEMMA TypedArg ==
  ASSUME Typed, NEW t \in Threads, NEW a \in Attrs \cup Queries,
         op' = [op EXCEPT ![t] = a], calls < MaxCalls, calls' = calls + 1
  PROVE  /\ op' \in [Threads -> Attrs \cup Queries \cup {NoOp}] /\ calls' \in 0 .. MaxCalls
         /\ op'[t] = a /\ \A u \in Threads \ {t} : op'[u] = op[u]
<1>1. op \in [Threads -> Attrs \cup Queries \cup {NoOp}] /\ calls \in 0 .. MaxCalls
  BY DEF Typed
<1>2. MaxCalls \in Nat
  BY ArgFacts
<1> QED BY <1>1, <1>2

LEMMA TypedStart ==
  ASSUME Typed, NEW t \in Threads,
         create_in_mem_index_for_attr(t) \/ exact_metadata_search(t)
  PROVE  Typed'
<1>1. CASE create_in_mem_index_for_attr(t)
  <2>1. PICK a \in Attrs : op' = [op EXCEPT ![t] = a]
    BY <1>1, Zenon DEF create_in_mem_index_for_attr
  <2>2. calls < MaxCalls /\ calls' = calls + 1 /\ pc' = [pc EXCEPT ![t] = "wrlock"]
    BY <1>1 DEF create_in_mem_index_for_attr, Goto
  <2>3. /\ op' \in [Threads -> Attrs \cup Queries \cup {NoOp}] /\ calls' \in 0 .. MaxCalls
        /\ op'[t] \in Attrs /\ \A u \in Threads \ {t} : op'[u] = op[u]
    BY <2>1, <2>2, TypedArg, Zenon
  <2>4. pc' \in [Threads -> Pcs] /\ ArgsOK'
    BY <2>2, <2>3 DEF Typed, ArgsOK, Pcs, Writing, Reading
  <2>5. i' \in [Threads -> Nat \ {0}] /\ private' \in [Threads -> BOOLEAN]
    BY <1>1 DEF create_in_mem_index_for_attr, Typed
  <2> QED BY <1>1, <2>3, <2>4, <2>5 DEF Typed, create_in_mem_index_for_attr, shared
<1>2. CASE exact_metadata_search(t)
  <2>1. PICK a \in Queries : op' = [op EXCEPT ![t] = a]
    BY <1>2, Zenon DEF exact_metadata_search
  <2>2. calls < MaxCalls /\ calls' = calls + 1 /\ pc' = [pc EXCEPT ![t] = "rdlock"]
    BY <1>2 DEF exact_metadata_search, Goto
  <2>3. /\ op' \in [Threads -> Attrs \cup Queries \cup {NoOp}] /\ calls' \in 0 .. MaxCalls
        /\ op'[t] \in Queries /\ \A u \in Threads \ {t} : op'[u] = op[u]
    BY <2>1, <2>2, TypedArg, Zenon
  <2>4. pc' \in [Threads -> Pcs] /\ ArgsOK'
    BY <2>2, <2>3 DEF Typed, ArgsOK, Pcs, Writing, Reading
  <2> QED BY <1>2, <2>3, <2>4 DEF Typed, exact_metadata_search, shared
<1> QED BY <1>1, <1>2

LEMMA TypedSearch ==
  ASSUME Typed, NEW t \in Threads, search(t)
  PROVE  Typed'
<1>1. CASE rdlock(t)
  <2> Shard(t) \in Shards /\ op[t].name \in Names
    BY <1>1, ReaderArg DEF rdlock, At, Reading
  <2> lock' \in [Shards -> [w : Threads \cup {NoThread}, r : SUBSET Threads]]
    BY <1>1 DEF rdlock, Typed
  <2> pc' \in [Threads -> Pcs] /\ ArgsOK'
    BY <1>1, TypedGoto DEF rdlock, At, local, Pcs, Writing, Reading
  <2> QED BY <1>1 DEF Typed, rdlock, shared, local, others
<1>2. CASE attribute_value_search(t)
  <2> UNCHANGED <<lock, tree, files, objs, op, private, fpos, opos, calls>>
    BY <1>2 DEF attribute_value_search, shared
  <2>1. CASE Goto(t, "collect") /\ i' = [i EXCEPT ![t] = 1] /\ UNCHANGED crashed
    <3> pc' \in [Threads -> Pcs] /\ ArgsOK'
      BY <1>2, <2>1, TypedGoto DEF attribute_value_search, At, Pcs, Writing, Reading
    <3> QED BY <2>1 DEF Typed
  <2>2. CASE crashed' = TRUE /\ UNCHANGED <<pc, i>>
    BY <2>2 DEF Typed, ArgsOK
  <2> QED BY <1>2, <2>1, <2>2, ZenonT(30) DEF attribute_value_search
<1>3. CASE collect_result_from_list(t)
  <2> i' \in [Threads -> Nat \ {0}]
    BY <1>3 DEF collect_result_from_list, Typed
  <2> UNCHANGED <<pc, op>>
    BY <1>3 DEF collect_result_from_list
  <2> ArgsOK'
    BY <1>3 DEF Typed, ArgsOK
  <2> QED BY <1>3 DEF Typed, collect_result_from_list, shared, local, others
<1>4. CASE search_return(t)
  <2> Shard(t) \in Shards /\ op[t].name \in Names
    BY <1>4, ReaderArg DEF search_return, At, Reading
  <2> lock[Shard(t)] \in [w : Threads \cup {NoThread}, r : SUBSET Threads]
    BY DEF Typed
  <2> [lock[Shard(t)] EXCEPT !.r = @ \ {t}] \in [w : Threads \cup {NoThread}, r : SUBSET Threads]
    OBVIOUS
  <2> lock' \in [Shards -> [w : Threads \cup {NoThread}, r : SUBSET Threads]]
    BY <1>4 DEF search_return, Typed
  <2> pc' \in [Threads -> Pcs] /\ ArgsOK'
    BY <1>4, TypedGoto DEF search_return, At, local, Pcs, Writing, Reading
  <2> QED BY <1>4 DEF Typed, search_return, shared, local, others
<1> QED BY <1>1, <1>2, <1>3, <1>4 DEF search

LEMMA TypedStep ==
  ASSUME Typed, ListsNumbered, NEW t \in Threads,
         create(t) \/ search(t) \/ create_in_mem_index_for_attr(t) \/ exact_metadata_search(t)
  PROVE  Typed'
<1>1. CASE wrlock(t)
  <2> Shard(t) \in Shards /\ op[t].name \in Names
    BY <1>1, WriterArg DEF wrlock, At, Writing
  <2> lock' \in [Shards -> [w : Threads \cup {NoThread}, r : SUBSET Threads]]
    BY <1>1 DEF wrlock, Typed
  <2> pc' \in [Threads -> Pcs] /\ ArgsOK'
    BY <1>1, TypedGoto DEF wrlock, At, local, Pcs, Writing, Reading
  <2> QED BY <1>1 DEF Typed, wrlock, shared, local, others
<1>2. CASE locate_leaf(t)
  <2> pc' \in [Threads -> Pcs] /\ ArgsOK'
    BY <1>2, TypedGoto DEF locate_leaf, Indexing, At, local, Pcs, Writing, Reading
  <2> QED BY <1>2 DEF Typed, locate_leaf, shared, local, others
<1>3. CASE new_leaf(t)
  <2> pc' \in [Threads -> Pcs] /\ ArgsOK'
    BY <1>3, TypedGoto DEF new_leaf, Indexing, At, local, Pcs, Writing, Reading
  <2> private' \in [Threads -> BOOLEAN] /\ DOMAIN tree' = Names
    BY <1>3, ZenonT(30) DEF new_leaf, Typed
  <2> QED BY <1>3 DEF Typed, new_leaf, shared, local, others
<1>4. CASE indexing_string(t)
  <2> pc' \in [Threads -> Pcs] /\ ArgsOK'
    BY <1>4, TypedGoto DEF indexing_string, At, local, Pcs, Writing, Reading
  <2> DOMAIN tree' = Names
    BY <1>4 DEF indexing_string, Typed
  <2> QED BY <1>4 DEF Typed, indexing_string, shared, local, others
<1>5. CASE find_number(t)
  <2> UNCHANGED <<op, lock, tree, files, objs, private, i, fpos, opos, crashed, calls>>
    BY <1>5, ZenonT(30) DEF find_number, shared, others
  <2> pc[t] = "value" /\ (Goto(t, "add") \/ Goto(t, "file"))
    BY <1>5, Zenon DEF find_number, At
  <2> pc' \in [Threads -> Pcs] /\ ArgsOK'
    BY <1>5, TypedGoto, ZenonT(30) DEF Pcs, Writing, Reading
  <2> QED BY <1>5, ZenonT(30) DEF Typed, find_number, shared, local, others
<1>6. CASE find_string(t)
  <2> pc' \in [Threads -> Pcs] /\ ArgsOK'
    BY <1>6, TypedGoto, Zenon DEF find_string, At, local, Pcs, Writing, Reading
  <2> QED BY <1>6 DEF Typed, find_string, shared, local, others
<1>7. CASE add_node(t)
  <2> pc' \in [Threads -> Pcs] /\ ArgsOK'
    BY <1>7, TypedGoto DEF add_node, At, local, Pcs, Writing, Reading
  <2> DOMAIN tree' = Names
    BY <1>7 DEF add_node, Typed
  <2> QED BY <1>7 DEF Typed, add_node, shared, local, others
<1>8. CASE find_file_path(t)
  <2> Shard(t) \in Shards /\ op[t].name \in Names
    BY <1>8, WriterArg DEF find_file_path, At, Writing
  <2> pc' \in [Threads -> Pcs] /\ ArgsOK'
    BY <1>8, TypedGoto, ZenonT(30) DEF find_file_path, At, local, Pcs, Writing, Reading
  <2> op[t].file \in Files /\ Numbered(files[Shard(t)], Files)
    BY <1>8, WriterArg DEF find_file_path, At, Writing, ListsNumbered
  <2> TaggedPos(files[Shard(t)], op[t].file) \in Nat
    BY <1>8, TagPosition
  <2> fpos' \in [Threads -> Nat]
    BY <1>8, ZenonT(30) DEF find_file_path, Typed
  <2> QED BY <1>8 DEF Typed, find_file_path, shared, local, others
<1>9. CASE find_obj_path(t)
  <2> Shard(t) \in Shards /\ op[t].name \in Names
    BY <1>9, WriterArg DEF find_obj_path, At, Writing
  <2> pc' \in [Threads -> Pcs] /\ ArgsOK'
    BY <1>9, TypedGoto DEF find_obj_path, At, local, Pcs, Writing, Reading
  <2> op[t].obj \in Objs /\ Numbered(objs[Shard(t)], Objs)
    BY <1>9, WriterArg DEF find_obj_path, At, Writing, ListsNumbered
  <2> TaggedPos(objs[Shard(t)], op[t].obj) \in Nat
    BY <1>9, TagPosition
  <2> opos' \in [Threads -> Nat]
    BY <1>9 DEF find_obj_path, Typed
  <2> QED BY <1>9 DEF Typed, find_obj_path, shared, local, others
<1>10. CASE push_posting(t)
  <2> pc' \in [Threads -> Pcs] /\ ArgsOK'
    BY <1>10, TypedGoto, ZenonT(30) DEF push_posting, At, local, Pcs, Writing, Reading
  <2> DOMAIN tree' = Names
    BY <1>10 DEF push_posting, Pushed, Typed
  <2> i' \in [Threads -> Nat \ {0}]
    BY <1>10 DEF push_posting, Typed
  <2> QED BY <1>10 DEF Typed, push_posting, shared, local, others
<1>11. CASE last_value(t)
  <2> pc' \in [Threads -> Pcs] /\ ArgsOK'
    BY <1>11, TypedGoto DEF last_value, At, local, Pcs, Writing, Reading
  <2> QED BY <1>11 DEF Typed, last_value, shared, local, others
<1>12. CASE unlock(t)
  <2> Shard(t) \in Shards /\ op[t].name \in Names
    BY <1>12, WriterArg DEF unlock, At, Writing
  <2> lock' \in [Shards -> [w : Threads \cup {NoThread}, r : SUBSET Threads]]
    BY <1>12 DEF unlock, Typed
  <2> pc' \in [Threads -> Pcs] /\ ArgsOK'
    BY <1>12, TypedGoto DEF unlock, At, local, Pcs, Writing, Reading
  <2> QED BY <1>12 DEF Typed, unlock, shared, local, others
<1>13. CASE insert_file_path(t)
  <2> pc' \in [Threads -> Pcs] /\ ArgsOK'
    BY <1>13, TypedGoto DEF insert_file_path, At, local, Pcs, Writing, Reading
  <2> DOMAIN files' = Shards
    BY <1>13 DEF insert_file_path, Typed
  <2> QED BY <1>13 DEF Typed, insert_file_path, shared, local, others
<1>14. CASE insert_obj_path(t)
  <2> pc' \in [Threads -> Pcs] /\ ArgsOK'
    BY <1>14, TypedGoto DEF insert_obj_path, At, local, Pcs, Writing, Reading
  <2> DOMAIN objs' = Shards
    BY <1>14 DEF insert_obj_path, Typed
  <2> QED BY <1>14, ZenonT(30) DEF Typed, insert_obj_path, shared, local, others
<1> QED BY <1>1, <1>2, <1>3, <1>4, <1>5, <1>6, <1>7, <1>8, <1>9, <1>10, <1>11,
     <1>12, <1>13, <1>14, TypedStart, TypedSearch DEF create

-----------------------------------------------------------------------------
(* The read-write lock of a shard.                                           *)

\* A writer inside its call is alone in the shard, a reader meets no writer.
LockInv ==
  \A t \in Threads :
    /\ pc[t] \in Writing => lock[Shard(t)].w = t /\ lock[Shard(t)].r = {}
    /\ pc[t] \in Reading => /\ t \in lock[Shard(t)].r
                             /\ lock[Shard(t)].w = NoThread

\* A step that neither takes nor releases a lock.
LEMMA LockKept ==
  ASSUME LockInv, NEW t \in Threads, lock' = lock,
         \A u \in Threads \ {t} : pc'[u] = pc[u] /\ op'[u] = op[u],
         pc'[t] \in Writing => pc[t] \in Writing /\ op'[t] = op[t],
         pc'[t] \in Reading => pc[t] \in Reading /\ op'[t] = op[t]
  PROVE  LockInv'
<1>1. \A u \in Threads : pc'[u] \in Writing \cup Reading => Shard(u)' = Shard(u)
  BY DEF Shard
<1>2. \A u \in Threads : /\ pc'[u] \in Writing => pc[u] \in Writing
                         /\ pc'[u] \in Reading => pc[u] \in Reading
  OBVIOUS
<1> QED BY <1>1, <1>2 DEF LockInv

\* A step that goes from one position of a call to another.
LEMMA LockGoto ==
  ASSUME Typed, LockInv, NEW t \in Threads, NEW l, Goto(t, l), lock' = lock, op' = op,
         l \in Writing => pc[t] \in Writing, l \in Reading => pc[t] \in Reading
  PROVE  LockInv'
<1>1. pc'[t] = l /\ \A u \in Threads \ {t} : pc'[u] = pc[u]
  BY DEF Typed, Goto
<1> QED BY <1>1, LockKept

\* A step that starts a call; the lock is taken later.
LEMMA LockStart ==
  ASSUME Typed, LockInv, NEW t \in Threads, NEW l, Goto(t, l), lock' = lock,
         l \notin Writing \cup Reading, \A u \in Threads \ {t} : op'[u] = op[u]
  PROVE  LockInv'
<1>1. pc'[t] = l /\ \A u \in Threads \ {t} : pc'[u] = pc[u]
  BY DEF Typed, Goto
<1> QED BY <1>1, LockKept

\* A step that leaves the lock of the shard of t with writer w and readers r.
LEMMA LockChange ==
  ASSUME Typed, LockInv, NEW t \in Threads, NEW l, Goto(t, l), op' = op,
         Shard(t) \in Shards,
         \A s \in Shards \ {Shard(t)} : lock'[s] = lock[s],
         l \in Writing => lock'[Shard(t)].w = t /\ lock'[Shard(t)].r = {},
         l \in Reading => t \in lock'[Shard(t)].r /\ lock'[Shard(t)].w = NoThread,
         \A u \in Threads \ {t} : Shard(u) = Shard(t) =>
           /\ pc[u] \notin Writing
           /\ pc[u] \in Reading => u \in lock'[Shard(t)].r /\ lock'[Shard(t)].w = NoThread
  PROVE  LockInv'
<1>1. pc'[t] = l /\ \A u \in Threads \ {t} : pc'[u] = pc[u]
  BY DEF Typed, Goto
<1>2. ASSUME NEW u \in Threads
      PROVE  /\ pc'[u] \in Writing => lock'[Shard(u)].w = u /\ lock'[Shard(u)].r = {}
             /\ pc'[u] \in Reading => /\ u \in lock'[Shard(u)].r
                                       /\ lock'[Shard(u)].w = NoThread
  <2>1. CASE Shard(u) = Shard(t)
    BY <1>1, <2>1
  <2>2. CASE Shard(u) # Shard(t)
    <3>1. pc[u] \in Writing \cup Reading => Shard(u) \in Shards
      BY WriterArg, ReaderArg
    <3> QED BY <1>1, <2>2, <3>1 DEF LockInv
  <2> QED BY <2>1, <2>2
<1>3. \A u \in Threads : Shard(u)' = Shard(u)
  BY DEF Shard
<1> QED BY <1>2, <1>3 DEF LockInv

\* A shard without a writer.
LEMMA NoWriter ==
  ASSUME LockInv, NEW s, lock[s].w = NoThread
  PROVE  \A u \in Threads : Shard(u) = s => pc[u] \notin Writing
<1>1. NoThread \notin Threads
  BY ArgFacts
<1> QED BY <1>1 DEF LockInv

LEMMA LockStep ==
  ASSUME Typed, LockInv, NEW t \in Threads,
         create(t) \/ search(t) \/ create_in_mem_index_for_attr(t) \/ exact_metadata_search(t)
  PROVE  LockInv'
<1>1. CASE locate_leaf(t)
  BY <1>1, LockGoto DEF locate_leaf, Indexing, At, shared, local, Writing, Reading
<1>2. CASE new_leaf(t)
  BY <1>2, LockGoto DEF new_leaf, Indexing, At, shared, local, Writing, Reading
<1>3. CASE indexing_string(t)
  BY <1>3, LockGoto DEF indexing_string, At, shared, local, Writing, Reading
<1>4. CASE find_string(t)
  BY <1>4, LockGoto, Zenon DEF find_string, At, shared, local, Writing, Reading
<1>5. CASE add_node(t)
  BY <1>5, LockGoto DEF add_node, At, shared, local, Writing, Reading
<1>6. CASE insert_file_path(t)
  BY <1>6, LockGoto, ZenonT(30) DEF insert_file_path, At, shared, local, Writing, Reading
<1>7. CASE insert_obj_path(t)
  BY <1>7, LockGoto, ZenonT(30) DEF insert_obj_path, At, shared, local, Writing, Reading
<1>8. CASE push_posting(t)
  BY <1>8, LockGoto DEF push_posting, At, shared, local, Writing, Reading
<1>9. CASE last_value(t)
  BY <1>9, LockGoto DEF last_value, At, shared, local, Writing, Reading
<1>10. CASE find_number(t)
  <2> lock' = lock /\ op' = op
    BY <1>10 DEF find_number, shared
  <2> pc[t] = "value" /\ (Goto(t, "add") \/ Goto(t, "file"))
    BY <1>10 DEF find_number, At
  <2> QED BY LockGoto DEF Writing, Reading
<1>11. CASE create_in_mem_index_for_attr(t)
  <2> lock' = lock /\ Goto(t, "wrlock") /\ \A u \in Threads \ {t} : op'[u] = op[u]
    BY <1>11, ZenonT(30) DEF create_in_mem_index_for_attr, shared, Typed
  <2> QED BY LockStart DEF Writing, Reading
<1>12. CASE exact_metadata_search(t)
  <2> lock' = lock /\ Goto(t, "rdlock") /\ \A u \in Threads \ {t} : op'[u] = op[u]
    BY <1>12 DEF exact_metadata_search, shared, Typed
  <2> QED BY LockStart DEF Writing, Reading
<1>13. CASE attribute_value_search(t)
  <2> lock' = lock /\ op' = op /\ pc[t] = "search" /\ (Goto(t, "collect") \/ UNCHANGED pc)
    BY <1>13 DEF attribute_value_search, At, shared
  <2>1. CASE Goto(t, "collect")
    BY <2>1, LockGoto DEF Writing, Reading
  <2>2. CASE UNCHANGED pc
    BY <2>2, LockKept
  <2> QED BY <2>1, <2>2
<1>14. CASE collect_result_from_list(t)
  <2> UNCHANGED <<lock, pc, op>>
    BY <1>14 DEF collect_result_from_list, shared
  <2> QED BY LockKept
<1>15. CASE wrlock(t)
  <2> /\ Shard(t) \in Shards /\ op' = op /\ Goto(t, "locate") /\ pc[t] = "wrlock"
    BY <1>15, WriterArg DEF wrlock, At, Writing, local
  <2> lock[Shard(t)].w = NoThread /\ lock[Shard(t)].r = {}
    BY <1>15 DEF wrlock, LockInv, Writing
  <2> /\ lock'[Shard(t)].w = t /\ lock'[Shard(t)].r = {}
      /\ \A s \in Shards \ {Shard(t)} : lock'[s] = lock[s]
    BY <1>15 DEF wrlock, Typed
  <2> \A u \in Threads \ {t} : Shard(u) = Shard(t) => pc[u] \notin Writing /\ pc[u] \notin Reading
    BY ArgFacts, ZenonT(30) DEF LockInv
  <2> QED BY LockChange DEF Writing, Reading
<1>16. CASE unlock(t)
  <2> /\ Shard(t) \in Shards /\ op' = op /\ Goto(t, "idle") /\ pc[t] = "unlock"
    BY <1>16, WriterArg DEF unlock, At, Writing, local
  <2> lock[Shard(t)].w = t /\ lock[Shard(t)].r = {}
    BY <1>16 DEF unlock, LockInv, Writing
  <2> /\ lock'[Shard(t)].w = NoThread /\ lock'[Shard(t)].r = {}
      /\ \A s \in Shards \ {Shard(t)} : lock'[s] = lock[s]
    BY <1>16 DEF unlock, Typed
  <2> \A u \in Threads \ {t} : Shard(u) = Shard(t) => pc[u] \notin Writing /\ pc[u] \notin Reading
    BY ArgFacts, ZenonT(30) DEF LockInv
  <2> QED BY LockChange DEF Writing, Reading
<1>17. CASE rdlock(t)
  <2> /\ Shard(t) \in Shards /\ op' = op /\ Goto(t, "search") /\ pc[t] = "rdlock"
    BY <1>17, ReaderArg DEF rdlock, At, Reading, local
  <2> lock[Shard(t)].w = NoThread
    BY <1>17 DEF rdlock, LockInv, Reading
  <2> /\ lock'[Shard(t)].w = NoThread /\ lock'[Shard(t)].r = lock[Shard(t)].r \cup {t}
      /\ \A s \in Shards \ {Shard(t)} : lock'[s] = lock[s]
    BY <1>17 DEF rdlock, Typed
  <2> \A u \in Threads \ {t} : Shard(u) = Shard(t) => pc[u] \notin Writing
    BY NoWriter
  <2> \A u \in Threads \ {t} : Shard(u) = Shard(t) /\ pc[u] \in Reading => u \in lock[Shard(t)].r \cup {t}
    BY ZenonT(30) DEF LockInv
  <2> "search" \in Reading /\ "search" \notin Writing
    BY DEF Writing, Reading
  <2> QED BY LockChange
<1>18. CASE search_return(t)
  <2> /\ Shard(t) \in Shards /\ op' = op /\ Goto(t, "idle") /\ pc[t] = "collect"
    BY <1>18, ReaderArg DEF search_return, At, Reading, local
  <2> lock[Shard(t)].w = NoThread
    BY <1>18 DEF search_return, LockInv, Reading
  <2> /\ lock'[Shard(t)].w = NoThread /\ lock'[Shard(t)].r = lock[Shard(t)].r \ {t}
      /\ \A s \in Shards \ {Shard(t)} : lock'[s] = lock[s]
    BY <1>18 DEF search_return, Typed
  <2> \A u \in Threads \ {t} : Shard(u) = Shard(t) => pc[u] \notin Writing
    BY NoWriter, ZenonT(30)
  <2> \A u \in Threads \ {t} : Shard(u) = Shard(t) /\ pc[u] \in Reading => u \in lock[Shard(t)].r \ {t}
    BY DEF LockInv
  <2> "idle" \notin Reading /\ "idle" \notin Writing
    BY DEF Writing, Reading
  <2> QED BY LockChange
<1>19. CASE find_file_path(t)
  BY <1>19, LockGoto DEF find_file_path, At, shared, local, Writing, Reading
<1>20. CASE find_obj_path(t)
  BY <1>20, LockGoto, ZenonT(30) DEF find_obj_path, At, shared, local, Writing, Reading
<1> QED BY <1>1, <1>2, <1>3, <1>4, <1>5, <1>6, <1>7, <1>8, <1>9, <1>10, <1>11,
     <1>12, <1>13, <1>14, <1>15, <1>16, <1>17, <1>18, <1>19, <1>20 DEF create, search

-----------------------------------------------------------------------------
Step(t) ==
  create(t) \/ search(t) \/ create_in_mem_index_for_attr(t) \/ exact_metadata_search(t)

-----------------------------------------------------------------------------
(* What the steps of a thread leave alone.                                   *)

LEMMA OthersKept ==
  ASSUME Typed, NEW t \in Threads, Step(t), NEW u \in Threads, u # t
  PROVE  /\ pc'[u] = pc[u] /\ op'[u] = op[u] /\ private'[u] = private[u]
         /\ fpos'[u] = fpos[u] /\ opos'[u] = opos[u]
<1> USE DEF Typed, Goto, local
<1>1. CASE wrlock(t) \/ locate_leaf(t) \/ indexing_string(t) \/ last_value(t) \/ unlock(t)
  BY <1>1, ZenonT(30) DEF wrlock, locate_leaf, indexing_string, last_value, unlock
<1>2. CASE new_leaf(t)
  BY <1>2 DEF new_leaf
<1>3. CASE find_number(t)
  <2>1. UNCHANGED <<op, private, fpos, opos>>
    BY <1>3, ZenonT(30) DEF find_number
  <2>2. Goto(t, "add") \/ Goto(t, "file")
    BY <1>3 DEF find_number
  <2> QED BY <2>1, <2>2, ZenonT(30)
<1>4. CASE find_string(t) \/ add_node(t) \/ push_posting(t)
  BY <1>4, ZenonT(30) DEF find_string, add_node, push_posting
<1>5. CASE find_file_path(t) \/ find_obj_path(t)
  BY <1>5, ZenonT(30) DEF find_file_path, find_obj_path
<1>9. CASE insert_file_path(t) \/ insert_obj_path(t)
  BY <1>9 DEF insert_file_path, insert_obj_path
<1>6. CASE create_in_mem_index_for_attr(t) \/ exact_metadata_search(t)
  BY <1>6 DEF create_in_mem_index_for_attr, exact_metadata_search
<1>7. CASE rdlock(t) \/ collect_result_from_list(t) \/ search_return(t)
  BY <1>7 DEF rdlock, collect_result_from_list, search_return
<1>8. CASE attribute_value_search(t)
  BY <1>8 DEF attribute_value_search
<1> QED BY <1>1, <1>2, <1>3, <1>4, <1>5, <1>6, <1>7, <1>8, <1>9, ZenonT(30) DEF Step, create, search

\* A step changes the path lists of one shard at most, and only between the
\* lock and the unlock of a writer.
LEMMA ListChange ==
  ASSUME Typed, NEW t \in Threads, Step(t), NEW s \in Shards,
         files'[s] # files[s] \/ objs'[s] # objs[s]
  PROVE  pc[t] \in Writing /\ s = Shard(t) /\ (insert_file_path(t) \/ insert_obj_path(t))
<1>1. create(t) => UNCHANGED <<files, objs>> \/ insert_file_path(t) \/ insert_obj_path(t)
  BY Zenon DEF create, wrlock, locate_leaf, new_leaf, indexing_string, find_number,
     find_string, add_node, find_file_path, find_obj_path, push_posting,
     last_value, unlock, shared
<1>2. search(t) => UNCHANGED <<files, objs>>
  BY DEF search, rdlock, attribute_value_search, collect_result_from_list,
     search_return, shared
<1>3. create_in_mem_index_for_attr(t) \/ exact_metadata_search(t) => UNCHANGED <<files, objs>>
  BY DEF create_in_mem_index_for_attr, exact_metadata_search, shared
<1>4. insert_file_path(t) \/ insert_obj_path(t)
  BY <1>1, <1>2, <1>3, ZenonT(30) DEF Step
<1>5. pc[t] \in Writing
  BY <1>4, ZenonT(30) DEF insert_file_path, insert_obj_path, At, Writing
<1>6. s = Shard(t)
  BY <1>4, ZenonT(30) DEF insert_file_path, insert_obj_path, Typed
<1> QED BY <1>4, <1>5, <1>6
=============================================================================
