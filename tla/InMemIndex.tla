----------------------------- MODULE InMemIndex -----------------------------
(***************************************************************************)
(* The in-memory index of src/index/in_mem_index.c and the exact search of *)
(* src/miqs_querying.c, called by several threads of one process.          *)
(*                                                                         *)
(* The index is split into `parallelism' shards by a hash of the attribute *)
(* name.  A shard has a read-write lock, a radix tree from names to leaves *)
(* and two path lists.  A leaf holds a red-black tree for numbers and a    *)
(* radix tree for strings; both lead to lists of path positions.           *)
(*                                                                         *)
(* A step is one call into a data structure, so that without the lock two  *)
(* threads would meet between a search and the insertion it decides on.    *)
(***************************************************************************)
EXTENDS IndexData, FiniteSets

CONSTANTS
  Threads,
  Names,
  Parallelism,   \* index_anchor_t.parallelism
  ShardOf,       \* djb2_hash(name) % parallelism
  Strs,          \* values of type string
  Files, Objs,   \* file and object paths
  Attrs,         \* attributes that may be indexed
  Queries,       \* searches that may be made
  MaxCalls,      \* bound on the number of calls
  NoThread, NoLeaf, NoNode, NoOp

Shards == 0 .. Parallelism - 1

\* miqs_attr_type_t
Types == {"integer", "float", "string", "unknown"}
ValuesOf(type) ==
  CASE type = "integer" -> Ints [] type = "float" -> Halves
    [] OTHER -> Strs

ASSUME IndexAssumption ==
  /\ Parallelism \in Nat \ {0}
  /\ ShardOf \in [Names -> Shards]
  /\ NoThread \notin Threads
  /\ Ints \subseteq Int /\ Halves \subseteq Int
  /\ MaxCalls \in Nat
  /\ \A a \in Attrs :
       /\ DOMAIN a = {"name", "type", "values", "file", "obj"}
       /\ a.name \in Names /\ a.file \in Files /\ a.obj \in Objs
       /\ a.type \in Types
       /\ a.values \in Seq(ValuesOf(a.type))
  /\ \A q \in Queries :
       /\ DOMAIN q = {"name", "type", "value"}
       /\ q.name \in Names /\ q.type \in Types
       /\ q.value \in ValuesOf(q.type)

\* No difference of two values leaves the range of int.
ASSUME IntAssumption ==
  \A m, n \in Ints : m - n \in -2147483647 .. 2147483647

VARIABLES
  lock,      \* per shard: the writer and the readers inside GLOBAL_INDEX_LOCK
  tree,      \* root_art_array: per name, the leaf or NoLeaf
  files,     \* file_paths_list, per shard
  objs,      \* object_paths_list, per shard
  pc, op,    \* per thread: position in the call, and its argument
  private,   \* per thread: leaf_cnt is a leaf that was never inserted
  i,         \* per thread: index of the value, or of the result entry
  node,      \* per thread: key of the value-tree node in hand
  fpos, opos,
  rst,       \* per thread: rst_arr filled so far
  answer,    \* per thread: the last search with the entries it returned
  crashed,   \* the process dereferenced a NULL pointer
  calls      \* number of calls made

shared == <<lock, tree, files, objs>>
local == <<op, private, i, node, fpos, opos, rst>>
others == <<answer, crashed, calls>>
vars == <<shared, pc, local, others>>

-----------------------------------------------------------------------------
Init ==
  /\ lock = [s \in Shards |-> [w |-> NoThread, r |-> {}]]
  /\ tree = [n \in Names |-> NoLeaf]
  /\ files = [s \in Shards |-> <<>>]
  /\ objs = [s \in Shards |-> <<>>]
  /\ pc = [t \in Threads |-> "idle"]
  /\ op = [t \in Threads |-> NoOp]
  /\ private = [t \in Threads |-> FALSE]
  /\ i = [t \in Threads |-> 1]
  /\ node = [t \in Threads |-> NoNode]
  /\ fpos = [t \in Threads |-> 0]
  /\ opos = [t \in Threads |-> 0]
  /\ rst = [t \in Threads |-> <<>>]
  /\ answer = [t \in Threads |-> <<>>]
  /\ crashed = FALSE
  /\ calls = 0

At(t, label) == pc[t] = label /\ ~crashed
Goto(t, label) == pc' = [pc EXCEPT ![t] = label]
Shard(t) == ShardOf[op[t].name]
LeafOf(t) == tree[op[t].name]
Value(t) == op[t].values[i[t]]
IsString(t) == op[t].type = "string"

-----------------------------------------------------------------------------
(* create_in_mem_index_for_attr                                              *)

create_in_mem_index_for_attr(t) ==
  /\ At(t, "idle")
  /\ calls < MaxCalls
  /\ calls' = calls + 1
  /\ \E a \in Attrs : op' = [op EXCEPT ![t] = a]
  /\ i' = [i EXCEPT ![t] = 1]
  /\ private' = [private EXCEPT ![t] = FALSE]
  /\ Goto(t, "wrlock")
  /\ UNCHANGED <<shared, node, fpos, opos, rst, answer, crashed>>

\* Variant: the writer takes the lock as a reader does.
wrlock_Shared(t) ==
  /\ At(t, "wrlock")
  /\ lock[Shard(t)].w = NoThread
  /\ lock' = [lock EXCEPT ![Shard(t)].r = @ \cup {t}]
  /\ Goto(t, "locate")
  /\ UNCHANGED <<tree, files, objs, local, others>>

\* Variant: the lock only keeps other writers out.
wrlock_WriterOnly(t) ==
  /\ At(t, "wrlock")
  /\ lock[Shard(t)].w = NoThread
  /\ lock' = [lock EXCEPT ![Shard(t)].w = t]
  /\ Goto(t, "locate")
  /\ UNCHANGED <<tree, files, objs, local, others>>

wrlock(t) ==
  /\ At(t, "wrlock")
  /\ lock[Shard(t)] = [w |-> NoThread, r |-> {}]
  /\ lock' = [lock EXCEPT ![Shard(t)].w = t]
  /\ Goto(t, "locate")
  /\ UNCHANGED <<tree, files, objs, local, others>>

\* The indexing function for the attribute's type; an unknown type has none.
Indexing(t) ==
  CASE op[t].type = "string" -> "string"
    [] op[t].type = "unknown" -> "unlock"
    [] OTHER -> "value"

locate_leaf(t) ==
  /\ At(t, "locate")
  /\ Goto(t, IF LeafOf(t) = NoLeaf THEN "newleaf" ELSE Indexing(t))
  /\ UNCHANGED <<shared, local, others>>

\* The string case falls through to default, which clears into_art: only
\* leaves of numbers are inserted, a leaf of strings stays private.
new_leaf(t) ==
  LET type == op[t].type IN
  /\ At(t, "newleaf")
  /\ IF type \in {"integer", "float"}
       THEN /\ tree' = [tree EXCEPT ![op[t].name] =
                          Leaf(IF type = "integer" THEN "int" ELSE "double")]
            /\ UNCHANGED private
       ELSE /\ private' = [private EXCEPT ![t] = TRUE]
            /\ UNCHANGED tree
  /\ Goto(t, Indexing(t))
  /\ UNCHANGED <<lock, files, objs, op, i, node, fpos, opos, rst, others>>

\* indexing_string marks the leaf and makes sure that it has a string tree.
indexing_string(t) ==
  /\ At(t, "string")
  /\ tree' = IF private[t] THEN tree
             ELSE [tree EXCEPT ![op[t].name].isNumeric = FALSE,
                               ![op[t].name].isFloat = FALSE,
                               ![op[t].name].hasArt = TRUE]
  /\ Goto(t, "value")
  /\ UNCHANGED <<lock, files, objs, local, others>>

\* The search that starts the loop body of indexing_numeric.
find_number(t) ==
  /\ At(t, "value")
  /\ i[t] <= Len(op[t].values)
  /\ ~IsString(t)
  /\ \E key \in KeysRead(LeafOf(t), op[t], i[t]) :
       LET found == Matching(LeafOf(t), key) IN
       IF found = {}
         THEN node' = [node EXCEPT ![t] = key] /\ Goto(t, "add")
         ELSE /\ \E k \in found : node' = [node EXCEPT ![t] = k]
              /\ Goto(t, "file")
  /\ UNCHANGED <<shared, op, private, i, fpos, opos, rst, others>>

\* The search that starts the loop body of indexing_string.
find_string(t) ==
  /\ At(t, "value")
  /\ i[t] <= Len(op[t].values)
  /\ IsString(t)
  /\ node' = [node EXCEPT ![t] = Value(t)]
  /\ Goto(t, IF private[t] \/ Value(t) \in DOMAIN LeafOf(t).str
             THEN "file" ELSE "add")
  /\ UNCHANGED <<shared, op, private, i, fpos, opos, rst, others>>

\* rbt_add replaces a node that matches; so does art_insert.
add_node(t) ==
  LET leaf == LeafOf(t)
      key == node[t] IN
  /\ At(t, "add")
  /\ tree' =
       IF IsString(t)
       THEN [tree EXCEPT ![op[t].name].str = With(leaf.str, key, <<>>)]
       ELSE [tree EXCEPT ![op[t].name].num =
               With(Without(leaf.num, Matching(leaf, key)), key, <<>>)]
  /\ Goto(t, "file")
  /\ UNCHANGED <<lock, files, objs, local, others>>

\* insert_tagged_value on the file list: it returns the position of the entry
\* it finds, or goes on to insert one at the position that list_count gives.
find_file_path(t) ==
  LET list == files[Shard(t)] IN
  /\ At(t, "file")
  /\ fpos' = [fpos EXCEPT ![t] = TaggedPos(list, op[t].file)]
  /\ Goto(t, IF op[t].file \in Tags(list) THEN "obj" ELSE "newfile")
  /\ UNCHANGED <<shared, op, private, i, node, opos, rst, others>>

insert_file_path(t) ==
  /\ At(t, "newfile")
  /\ files' = [files EXCEPT ![Shard(t)] =
                 insert_entry(@, Entry(op[t].file, fpos[t]), fpos[t])]
  /\ Goto(t, "obj")
  /\ UNCHANGED <<lock, tree, objs, local, others>>

\* The same on the object list.
find_obj_path(t) ==
  LET list == objs[Shard(t)] IN
  /\ At(t, "obj")
  /\ opos' = [opos EXCEPT ![t] = TaggedPos(list, op[t].obj)]
  /\ Goto(t, IF op[t].obj \in Tags(list) THEN "push" ELSE "newobj")
  /\ UNCHANGED <<shared, op, private, i, node, fpos, rst, others>>

insert_obj_path(t) ==
  /\ At(t, "newobj")
  /\ objs' = [objs EXCEPT ![Shard(t)] =
                insert_entry(@, Entry(op[t].obj, opos[t]), opos[t])]
  /\ Goto(t, "push")
  /\ UNCHANGED <<lock, tree, files, local, others>>

\* Variant: the two positions are stored in each other's field.
Posting_Swapped(t) == [shard |-> Shard(t), file |-> opos[t], obj |-> fpos[t]]

Posting(t) == [shard |-> Shard(t), file |-> fpos[t], obj |-> opos[t]]

\* Pushed leaf_cnt: a posting of a private leaf is out of every reader's sight.
Pushed(t) ==
  CASE private[t] -> tree
    [] IsString(t) /\ ~private[t] ->
         [tree EXCEPT ![op[t].name].str[node[t]] = Append(@, Posting(t))]
    [] OTHER ->
         [tree EXCEPT ![op[t].name].num[node[t]] = Append(@, Posting(t))]

\* Variant: only the first value of an attribute gets its posting.
push_posting_FirstOnly(t) ==
  /\ At(t, "push")
  /\ tree' = IF i[t] = 1 THEN Pushed(t) ELSE tree
  /\ i' = [i EXCEPT ![t] = @ + 1]
  /\ Goto(t, "value")
  /\ UNCHANGED <<lock, files, objs, op, private, node, fpos, opos, rst, others>>

push_posting(t) ==
  /\ At(t, "push")
  /\ tree' = Pushed(t)
  /\ i' = [i EXCEPT ![t] = @ + 1]
  /\ Goto(t, "value")
  /\ UNCHANGED <<lock, files, objs, op, private, node, fpos, opos, rst, others>>

last_value(t) ==
  /\ At(t, "value")
  /\ i[t] > Len(op[t].values)
  /\ Goto(t, "unlock")
  /\ UNCHANGED <<shared, local, others>>

unlock(t) ==
  /\ At(t, "unlock")
  /\ lock' = [lock EXCEPT ![Shard(t)].w = NoThread]
  /\ Goto(t, "idle")
  /\ UNCHANGED <<tree, files, objs, local, answer, crashed, calls>>

-----------------------------------------------------------------------------
(* exact_metadata_search                                                     *)

exact_metadata_search(t) ==
  /\ At(t, "idle")
  /\ calls < MaxCalls
  /\ calls' = calls + 1
  /\ \E q \in Queries : op' = [op EXCEPT ![t] = q]
  /\ Goto(t, "rdlock")
  /\ UNCHANGED <<shared, private, i, node, fpos, opos, rst, answer, crashed>>

rdlock(t) ==
  /\ At(t, "rdlock")
  /\ lock[Shard(t)].w = NoThread
  /\ lock' = [lock EXCEPT ![Shard(t)].r = @ \cup {t}]
  /\ Goto(t, "search")
  /\ UNCHANGED <<tree, files, objs, local, others>>

\* The nodes attribute_value_search may return; none is a NULL pointer.
Found(t) ==
  LET leaf == LeafOf(t)
      q == op[t] IN
  CASE leaf = NoLeaf -> {}
    [] leaf # NoLeaf /\ q.type = "integer" -> Matching(leaf, <<4, q.value>>)
    [] leaf # NoLeaf /\ q.type = "float" -> Matching(leaf, <<8, q.value>>)
    [] leaf # NoLeaf /\ q.type = "string" -> DOMAIN leaf.str \cap {q.value}
    [] OTHER -> {}

\* Variant: a search that finds nothing returns early and keeps the lock.
attribute_value_search_Leaks(t) ==
  /\ At(t, "search")
  /\ \/ /\ \E k \in Found(t) : node' = [node EXCEPT ![t] = k]
        /\ rst' = [rst EXCEPT ![t] = <<>>]
        /\ i' = [i EXCEPT ![t] = 1]
        /\ Goto(t, "collect")
     \/ /\ Found(t) = {}
        /\ Goto(t, "idle")
        /\ UNCHANGED <<node, rst, i>>
  /\ UNCHANGED <<shared, op, private, fpos, opos, others>>

\* The result of the search is dereferenced without a test.
attribute_value_search(t) ==
  /\ At(t, "search")
  /\ \/ /\ \E k \in Found(t) : node' = [node EXCEPT ![t] = k]
        /\ rst' = [rst EXCEPT ![t] = <<>>]
        /\ i' = [i EXCEPT ![t] = 1]
        /\ Goto(t, "collect")
        /\ UNCHANGED crashed
     \/ /\ Found(t) = {}
        /\ crashed' = TRUE
        /\ UNCHANGED <<node, rst, i, pc>>
  /\ UNCHANGED <<shared, op, private, fpos, opos, answer, calls>>

Postings(t) == IF IsString(t) THEN LeafOf(t).str[node[t]] ELSE LeafOf(t).num[node[t]]

Resolve(p) == <<TagAt(files[p.shard], p.file), TagAt(objs[p.shard], p.obj)>>

collect_result_from_list(t) ==
  /\ At(t, "collect")
  /\ i[t] <= Len(Postings(t))
  /\ rst' = [rst EXCEPT ![t] = Append(@, Resolve(Postings(t)[i[t]]))]
  /\ i' = [i EXCEPT ![t] = @ + 1]
  /\ UNCHANGED <<shared, pc, op, private, node, fpos, opos, others>>

search_return(t) ==
  /\ At(t, "collect")
  /\ i[t] > Len(Postings(t))
  /\ lock' = [lock EXCEPT ![Shard(t)].r = @ \ {t}]
  /\ answer' = [answer EXCEPT ![t] = <<op[t], rst[t]>>]
  /\ Goto(t, "idle")
  /\ UNCHANGED <<tree, files, objs, local, crashed, calls>>

-----------------------------------------------------------------------------
create(t) ==
  \/ wrlock(t) \/ locate_leaf(t) \/ new_leaf(t) \/ indexing_string(t)
  \/ find_number(t) \/ find_string(t) \/ add_node(t)
  \/ find_file_path(t) \/ insert_file_path(t)
  \/ find_obj_path(t) \/ insert_obj_path(t) \/ push_posting(t)
  \/ last_value(t) \/ unlock(t)

search(t) ==
  \/ rdlock(t) \/ attribute_value_search(t)
  \/ collect_result_from_list(t) \/ search_return(t)

Next ==
  \E t \in Threads :
    \/ create_in_mem_index_for_attr(t) \/ create(t)
    \/ exact_metadata_search(t) \/ search(t)

Spec == Init /\ [][Next]_vars

\* A thread inside a call keeps running.  Calls are finite in number, so a
\* lock that is waited for is at last free for good.
Fairness == \A t \in Threads : WF_vars(create(t)) /\ WF_vars(search(t))
FairSpec == Spec /\ Fairness

-----------------------------------------------------------------------------
Pcs == {"idle", "wrlock", "locate", "newleaf", "string", "value", "add", "file",
        "newfile", "obj", "newobj", "push", "unlock", "rdlock", "search", "collect"}
Writing == {"locate", "newleaf", "string", "value", "add", "file", "newfile",
            "obj", "newobj", "push", "unlock"}
Reading == {"search", "collect"}

\* The variables keep the shapes that the structures of the code have.
TypeOK ==
  /\ lock \in [Shards -> [w : Threads \cup {NoThread}, r : SUBSET Threads]]
  /\ pc \in [Threads -> Pcs]
  /\ \A t \in Threads : op[t] \in Attrs \cup Queries \cup {NoOp}
  /\ private \in [Threads -> BOOLEAN]
  /\ i \in [Threads -> Nat \ {0}]
  /\ fpos \in [Threads -> Nat] /\ opos \in [Threads -> Nat]
  /\ \A s \in Shards : /\ files[s] \in Seq([tag : Files, pos : Nat])
                       /\ objs[s] \in Seq([tag : Objs, pos : Nat])
  /\ crashed \in BOOLEAN
  /\ calls \in 0 .. MaxCalls

\* Every path occurs once in the list of its shard, at the position recorded
\* with it (insert_tagged_value): "in leaf node of value tree, we only
\* maintain the position number" (in_mem_index.h:36) needs exactly this.
PathsNumbered ==
  \A s \in Shards :
    /\ \A j \in DOMAIN files[s] : files[s][j].pos = j - 1
    /\ \A j \in DOMAIN objs[s] : objs[s][j].pos = j - 1
    /\ \A j, k \in DOMAIN files[s] : files[s][j].tag = files[s][k].tag => j = k
    /\ \A j, k \in DOMAIN objs[s] : objs[s][j].tag = objs[s][k].tag => j = k

\* Every posting points into the path lists of its own shard, also while the
\* lists grow; collect_result_from_list dereferences both without a test.
PostingsInRange ==
  \A n \in Names : tree[n] # NoLeaf =>
    LET s == ShardOf[n]
        InRange(list) == \A j \in DOMAIN list :
          /\ list[j].shard = s
          /\ list[j].file < Len(files[s])
          /\ list[j].obj < Len(objs[s])
    IN /\ \A k \in DOMAIN tree[n].num : InRange(tree[n].num[k])
       /\ \A k \in DOMAIN tree[n].str : InRange(tree[n].str[k])

\* A position keeps its meaning: no step moves, renames or drops an entry of a
\* path list, so postings written earlier still name the same paths.
PositionsStable ==
  [][\A s \in Shards :
       /\ \A j \in DOMAIN files[s] : j \in DOMAIN files'[s] /\ files'[s][j] = files[s][j]
       /\ \A j \in DOMAIN objs[s] : j \in DOMAIN objs'[s] /\ objs'[s][j] = objs[s][j]]_vars

\* While a search is between its lookup and its return, no leaf of its shard
\* changes (the read lock of exact_metadata_search covers the whole walk).
SearchUndisturbed ==
  [][\A t \in Threads : pc[t] \in Reading =>
       \A n \in Names : ShardOf[n] = Shard(t) => tree'[n] = tree[n]]_vars

\* Every call ends: create returns, a search returns or ends the process.
CallsEnd == \A t \in Threads : pc[t] # "idle" ~> (pc[t] = "idle" \/ crashed)

-----------------------------------------------------------------------------
(* The index implements AttrIndex on the names that only ever carry          *)
(* integers.  The postings of an attribute that is still being indexed are   *)
(* not yet part of the abstract store.                                       *)

IntNames == {n \in Names : \A a \in Attrs : a.name = n => a.type = "integer"}

\* How many postings the writer of n's shard has pushed so far for value v.
Unfinished(n, v) ==
  LET w == lock[ShardOf[n]].w IN
  IF w = NoThread \/ op[w].name # n THEN 0
  ELSE Cardinality({j \in 1 .. i[w] - 1 : op[w].values[j] = v})

Finished(n, v) ==
  IF tree[n] = NoLeaf \/ <<4, v>> \notin DOMAIN tree[n].num THEN <<>>
  ELSE LET list == tree[n].num[<<4, v>>] IN
       [j \in 1 .. Len(list) - Unfinished(n, v) |-> Resolve(list[j])]

IntAnswer(t) ==
  IF answer[t] = <<>> \/ answer[t][1].name \notin IntNames
     \/ answer[t][1].type # "integer" THEN <<>>
  ELSE <<answer[t][1].name, answer[t][1].value, answer[t][2]>>

Abstract == INSTANCE AttrIndex WITH
  Callers <- Threads, Names <- IntNames, Values <- Ints,
  Attrs <- {a \in Attrs : a.type = "integer"},
  store <- [n \in IntNames |-> [v \in Ints |-> Finished(n, v)]],
  answer <- [t \in Threads |-> IntAnswer(t)]

\* Attributes become visible as a whole, with all their values, and a search
\* answers with exactly the paths that one state of the index holds for the
\* value, in the order of indexing.
ImplementsAttrIndex == Abstract!Spec
=============================================================================
