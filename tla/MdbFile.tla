------------------------------ MODULE MdbFile -------------------------------
(***************************************************************************)
(* The MDB file: what dump_mdb_index_to_disk writes for an index and what  *)
(* load_mdb_file_to_index makes of a file (src/index/in_mem_index.c,       *)
(* src/index/on_disk_index.c, src/index/storage/bin_file_ops.c).           *)
(*                                                                         *)
(* The loader reads field by field; a field of another type, or the end of *)
(* the file, is a NULL pointer, and most callers dereference it.           *)
(***************************************************************************)
EXTENDS IndexData, BinFile, FiniteSets, SequencesExt

CONSTANTS
  NameOrder,     \* all names in the byte order of art_iter
  StrOrder,      \* all string values in the byte order of art_iter
  ShardOf,       \* djb2_hash(name) % parallelism
  NoLeaf, NoIndex

Names == ToSet(NameOrder)

NewIndex(parallelism) ==
  [parallelism |-> parallelism,
   files |-> [s \in 0 .. parallelism - 1 |-> <<>>],
   objs |-> [s \in 0 .. parallelism - 1 |-> <<>>],
   tree |-> [n \in Names |-> NoLeaf]]

-----------------------------------------------------------------------------
(* create_in_mem_index_for_attr, as one step on an index of one thread.     *)

PutPosting(list, idx, a, s) ==
  Append(list, [shard |-> s, file |-> TaggedPos(idx.files[s], a.file),
                obj |-> TaggedPos(idx.objs[s], a.obj)])

WithPaths(idx, a, s) ==
  [idx EXCEPT !.files[s] = WithTag(@, a.file), !.objs[s] = WithTag(@, a.obj)]

PutNumber(idx, a, s, j) ==
  LET leaf == IF idx.tree[a.name] # NoLeaf THEN idx.tree[a.name]
              ELSE Leaf(IF a.type = "integer" THEN "int" ELSE "double")
      key == CHOOSE k \in KeysRead(leaf, a, j) : TRUE
      found == Matching(leaf, key)
      num == IF found = {} THEN With(leaf.num, key, <<>>) ELSE leaf.num
      node == IF found = {} THEN key ELSE CHOOSE k \in found : TRUE
  IN [WithPaths(idx, a, s) EXCEPT !.tree[a.name] =
        [leaf EXCEPT !.num = [num EXCEPT ![node] = PutPosting(@, idx, a, s)]]]

\* A new leaf of strings never reaches the name tree.
PutString(idx, a, s, j) ==
  LET leaf == idx.tree[a.name]
      v == a.values[j]
      old == IF v \in DOMAIN leaf.str THEN leaf.str[v] ELSE <<>>
  IN IF leaf = NoLeaf THEN WithPaths(idx, a, s)
     ELSE [WithPaths(idx, a, s) EXCEPT !.tree[a.name] =
             [leaf EXCEPT !.isNumeric = FALSE, !.isFloat = FALSE, !.hasArt = TRUE,
                          !.str = With(@, v, PutPosting(old, idx, a, s))]]

Put(idx, a) ==
  LET s == ShardOf[a.name]
      PutValue(x, j) == CASE a.type \in {"integer", "float"} -> PutNumber(x, a, s, j)
                          [] a.type = "string" -> PutString(x, a, s, j)
                          [] OTHER -> x
  IN FoldLeftDomain(PutValue, idx, a.values)

-----------------------------------------------------------------------------
(* Writing.                                                                 *)

\* Variant: the object is written first.
append_file_obj_pair_Swapped(p) == miqs_append_size_t(p.obj) \o miqs_append_size_t(p.file)

append_file_obj_pair(p) == miqs_append_size_t(p.file) \o miqs_append_size_t(p.obj)

append_file_obj_pair_linked_list(list) ==
  miqs_append_size_t(Len(list))
    \o FlattenSeq([j \in DOMAIN list |-> append_file_obj_pair(list[j])])

\* miqs_append_type: 1 is int, 2 is double, 3 is string.
append_numeric_value_tree(leaf) ==
  LET keys == SetToSortSeq(DOMAIN leaf.num, LAMBDA k, l : k[2] < l[2])
      value(k) == IF leaf.isFloat THEN miqs_append_double(k[2]) ELSE miqs_append_int(k[2])
  IN miqs_append_int(IF leaf.isFloat THEN 2 ELSE 1)
       \o miqs_append_uint64(Len(keys))
       \o FlattenSeq([j \in DOMAIN keys |->
            value(keys[j]) \o append_file_obj_pair_linked_list(leaf.num[keys[j]])])

append_string_value_tree(leaf) ==
  LET strs == SelectSeq(StrOrder, LAMBDA v : v \in DOMAIN leaf.str)
  IN miqs_append_int(3)
       \o miqs_append_uint64(Len(strs))
       \o FlattenSeq([j \in DOMAIN strs |->
            miqs_append_string(strs[j]) \o append_file_obj_pair_linked_list(leaf.str[strs[j]])])

\* A leaf that got a string is dumped without its numbers.
append_attr_name_node(n, leaf) ==
  miqs_append_string(n)
    \o (IF leaf.isNumeric THEN append_numeric_value_tree(leaf)
                          ELSE append_string_value_tree(leaf))

append_attr_root_tree(idx, s) ==
  LET names == SelectSeq(NameOrder, LAMBDA n : ShardOf[n] = s /\ idx.tree[n] # NoLeaf)
  IN miqs_append_uint64(Len(names))
       \o FlattenSeq([j \in DOMAIN names |->
            append_attr_name_node(names[j], idx.tree[names[j]])])

append_path_list(list) ==
  miqs_append_size_t(Len(list))
    \o FlattenSeq([j \in DOMAIN list |->
         miqs_append_string(list[j].tag) \o miqs_append_size_t(list[j].pos)])

\* The inner loop over all shards runs once for every shard.
Dumped(idx) ==
  LET P == idx.parallelism
      regions == FlattenSeq([s \in 1 .. P |-> append_attr_root_tree(idx, s - 1)])
  IN miqs_append_size_t(P)
       \o FlattenSeq([s \in 1 .. P |->
            append_path_list(idx.files[s - 1]) \o append_path_list(idx.objs[s - 1])
              \o regions])

-----------------------------------------------------------------------------
(* Reading.  A cursor is the rest of the file with the index built so far;  *)
(* after the dereference of a NULL pointer the process is dead.             *)

Cursor(file, idx) == [rest |-> file, idx |-> idx, dead |-> FALSE]
Dead(c) == [c EXCEPT !.dead = TRUE]

Repeat(Op(_), c, n) ==
  FoldLeft(LAMBDA d, j : IF d.dead THEN d ELSE Op(d), c, [j \in 1 .. n |-> j])

\* Variant: paths of the file go behind those that are there.
Inserted_Append(list, pos, e) == Append(list, e)

\* insert_entry pads a list that is too short with entries without a value.
Inserted(list, pos, e) ==
  IF pos <= Len(list) THEN InsertAt(list, pos + 1, e)
  ELSE list \o [j \in 1 .. pos - Len(list) |-> NULL] \o <<e>>

read_path(c, which, s) ==
  LET tag == Value(c, "string", 1)
      pos == Value(c, "size_t", 2)
  IN IF pos = NULL THEN Dead(c)
     ELSE [Past(c, 2) EXCEPT !.idx[which][s] = Inserted(@, pos, Entry(tag, pos))]

\* Variant: both lists of the file go into file_paths_list.
read_into_path_list_OneList(c, which, s) ==
  LET n == Value(c, "size_t", 1)
      read(d) == read_path(d, "files", s)
  IN IF c.dead \/ n = NULL THEN Dead(c) ELSE Repeat(read, Past(c, 1), n)

read_into_path_list(c, which, s) ==
  LET n == Value(c, "size_t", 1)
      read(d) == read_path(d, which, s)
  IN IF c.dead \/ n = NULL THEN Dead(c) ELSE Repeat(read, Past(c, 1), n)

\* The position of the shard is not in the file: it is 0 after loading.
read_into_file_obj_list(c) ==
  LET f == Value(c, "size_t", 1)
      o == Value(c, "size_t", 2)
  IN IF f = NULL \/ o = NULL THEN Dead(c)
     ELSE [Past(c, 2) EXCEPT !.list = Append(@, [shard |-> 0, file |-> f, obj |-> o])]

\* The cursor gets a field list while a posting list is read.
read_file_obj_path_pair_list(c) ==
  LET n == Value(c, "size_t", 1)
      d == [k \in DOMAIN c \cup {"list"} |-> IF k = "list" THEN <<>> ELSE c[k]]
  IN IF n = NULL THEN Dead(d) ELSE Repeat(read_into_file_obj_list, Past(d, 1), n)

WithoutList(c) == [k \in DOMAIN c \ {"list"} |-> c[k]]

read_attr_value_node(c, n, type) ==
  LET v == Value(c, CASE type = 1 -> "int" [] type = 2 -> "double" [] OTHER -> "string", 1)
      d == read_file_obj_path_pair_list(Past(c, 1))
      e == WithoutList(d)
  IN CASE v = NULL \/ d.dead -> e
       [] v # NULL /\ ~d.dead /\ type = 3 ->
            [e EXCEPT !.idx.tree[n].str = With(@, v, d.list)]
       [] OTHER ->
            [e EXCEPT !.idx.tree[n].num =
               With(@, <<IF type = 1 THEN 4 ELSE 8, v>>, d.list)]

\* The leaf read_attr_values prepares for a region of that type.
LeafOfType(type) ==
  CASE type = 1 -> Leaf("int")
    [] type = 2 -> Leaf("double")
    [] OTHER -> [Leaf("none") EXCEPT !.isNumeric = FALSE, !.hasArt = TRUE]

\* art_insert replaces the leaf that the name had before.
read_attr_name_node(c) ==
  LET n == Value(c, "string", 1)
      type == Value(c, "int", 2)
      k == Value(c, "uint64", 3)
      read(d) == read_attr_value_node(d, n, type)
  IN IF NULL \in {n, type, k} THEN Dead(c)
     ELSE Repeat(read, [Past(c, 3) EXCEPT !.idx.tree[n] = LeafOfType(type)], k)

read_into_attr_root_tree(c) ==
  LET k == Value(c, "uint64", 1)
  IN IF c.dead \/ k = NULL THEN Dead(c) ELSE Repeat(read_attr_name_node, Past(c, 1), k)

\* load_mdb_file_to_index of a file that is not empty.
Loaded(file, idx) ==
  LET p == Value(Cursor(file, idx), "size_t", 1)
      anchor == IF idx # NoIndex THEN idx ELSE NewIndex(p)
      region(c, s) ==
        read_into_attr_root_tree(
          read_into_path_list(read_into_path_list(c, "files", s), "objs", s))
  IN IF idx = NoIndex /\ p = NULL THEN Dead(Cursor(file, idx))
     ELSE FoldLeft(LAMBDA c, s : IF c.dead THEN c ELSE region(c, s - 1),
                   Past(Cursor(file, anchor), 1),
                   [s \in 1 .. anchor.parallelism |-> s])
=============================================================================
