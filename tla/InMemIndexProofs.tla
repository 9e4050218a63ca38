-------------------------- MODULE InMemIndexProofs --------------------------
(***************************************************************************)
(* The theorems about InMemIndex.  On top of the types and the lock        *)
(* discipline, the invariant says that the postings of a leaf point into   *)
(* the path lists of its shard, and that the positions a writer has in     *)
(* hand do.                                                                *)
(***************************************************************************)
EXTENDS InMemIndexLocks

-----------------------------------------------------------------------------
(* The path lists only grow.                                                 *)

\* Between the search for a path and its insertion, the path is still missing
\* and the position that was counted is still the end of the list.
Fresh ==
  \A t \in Threads :
    /\ pc[t] = "newfile" => /\ op[t].file \notin Tags(files[Shard(t)])
                            /\ fpos[t] = Len(files[Shard(t)])
    /\ pc[t] = "newobj" => /\ op[t].obj \notin Tags(objs[Shard(t)])
                           /\ opos[t] = Len(objs[Shard(t)])

\* The write lock keeps every other writer of the shard out of that gap.
LEMMA FreshStep ==
  ASSUME Typed, ListsNumbered, LockInv, Fresh, NEW t \in Threads, Step(t)
  PROVE  Fresh'
<1>1. ASSUME NEW u \in Threads, u # t, pc'[u] \in {"newfile", "newobj"}
      PROVE  /\ pc'[u] = "newfile" => /\ op'[u].file \notin Tags(files'[Shard(u)])
                                      /\ fpos'[u] = Len(files'[Shard(u)])
             /\ pc'[u] = "newobj" => /\ op'[u].obj \notin Tags(objs'[Shard(u)])
                                     /\ opos'[u] = Len(objs'[Shard(u)])
             /\ Shard(u)' = Shard(u)
  <2>1. pc'[u] = pc[u] /\ op'[u] = op[u] /\ fpos'[u] = fpos[u] /\ opos'[u] = opos[u]
    BY <1>1, OthersKept
  <2>2. pc[u] \in Writing /\ Shard(u) \in Shards
    BY <1>1, <2>1, WriterArg DEF Writing
  <2>3. files'[Shard(u)] = files[Shard(u)] /\ objs'[Shard(u)] = objs[Shard(u)]
    <3>1. pc[t] \in Writing => Shard(t) # Shard(u)
      BY <1>1, <2>2 DEF LockInv
    <3> QED BY <2>2, <3>1, ListChange
  <2>4. Shard(u)' = Shard(u)
    BY <2>1 DEF Shard
  <2> QED BY <2>1, <2>3, <2>4, ZenonT(30) DEF Fresh
<1>2. pc'[t] = "newfile" => find_file_path(t)
  BY ZenonT(30) DEF Step, create, search, wrlock, locate_leaf, Indexing, new_leaf, indexing_string,
     find_number, find_string, add_node, insert_file_path, find_obj_path,
     insert_obj_path, push_posting, last_value, unlock, rdlock, attribute_value_search,
     collect_result_from_list, search_return, create_in_mem_index_for_attr,
     exact_metadata_search, Goto, At, Typed
<1>3. pc'[t] = "newobj" => find_obj_path(t)
  BY ZenonT(30) DEF Step, create, search, wrlock, locate_leaf, Indexing, new_leaf, indexing_string,
     find_number, find_string, add_node, insert_file_path, find_file_path,
     insert_obj_path, push_posting, last_value, unlock, rdlock, attribute_value_search,
     collect_result_from_list, search_return, create_in_mem_index_for_attr,
     exact_metadata_search, Goto, At, Typed
<1>4. ASSUME pc'[t] = "newfile"
      PROVE  op'[t].file \notin Tags(files'[Shard(t)]) /\ fpos'[t] = Len(files'[Shard(t)])
             /\ Shard(t)' = Shard(t)
  <2>1. find_file_path(t) /\ op' = op /\ files' = files
    BY <1>2, <1>4, ZenonT(30) DEF find_file_path, shared
  <2>2. op[t].file \in Files /\ Numbered(files[Shard(t)], Files)
    BY <2>1, WriterArg, ZenonT(30) DEF find_file_path, At, Writing, ListsNumbered
  <2>3. op[t].file \notin Tags(files[Shard(t)])
    BY <1>4, <2>1, ZenonT(30) DEF find_file_path, Goto, Typed
  <2>4. fpos'[t] = TaggedPos(files[Shard(t)], op[t].file)
    BY <2>1, ZenonT(30) DEF find_file_path, Typed
  <2> QED BY <2>1, <2>2, <2>3, <2>4, TagPosition, ZenonT(30) DEF Shard
<1>5. ASSUME pc'[t] = "newobj"
      PROVE  op'[t].obj \notin Tags(objs'[Shard(t)]) /\ opos'[t] = Len(objs'[Shard(t)])
             /\ Shard(t)' = Shard(t)
  <2>1. find_obj_path(t) /\ op' = op /\ objs' = objs
    BY <1>3, <1>5, ZenonT(30) DEF find_obj_path, shared
  <2>2. op[t].obj \in Objs /\ Numbered(objs[Shard(t)], Objs)
    BY <2>1, WriterArg, ZenonT(30) DEF find_obj_path, At, Writing, ListsNumbered
  <2>3. op[t].obj \notin Tags(objs[Shard(t)])
    BY <1>5, <2>1, ZenonT(30) DEF find_obj_path, Goto, Typed
  <2>4. opos'[t] = TaggedPos(objs[Shard(t)], op[t].obj)
    BY <2>1, ZenonT(30) DEF find_obj_path, Typed
  <2> QED BY <2>1, <2>2, <2>3, <2>4, TagPosition, ZenonT(30) DEF Shard
<1> QED BY <1>1, <1>4, <1>5, ZenonT(30) DEF Fresh

ListsGrow ==
  \A s \in Shards : Extends(files'[s], files[s]) /\ Extends(objs'[s], objs[s])

LEMMA ListStep ==
  ASSUME Typed, ListsNumbered, Fresh, NEW t \in Threads, Step(t)
  PROVE  ListsNumbered' /\ ListsGrow
<1>1. CASE insert_file_path(t)
  <2> DEFINE new == insert_entry(files[Shard(t)], Entry(op[t].file, fpos[t]), fpos[t])
  <2>1. /\ pc[t] = "newfile" /\ Shard(t) \in Shards /\ op[t].file \in Files
        /\ files' = [files EXCEPT ![Shard(t)] = new] /\ objs' = objs
    BY <1>1, WriterArg DEF insert_file_path, At, Writing
  <2>2. op[t].file \notin Tags(files[Shard(t)]) /\ fpos[t] = Len(files[Shard(t)])
    BY <2>1, ZenonT(30) DEF Fresh
  <2>3. Numbered(new, Files) /\ Extends(new, files[Shard(t)])
    BY <2>1, <2>2, TagInserted, ZenonT(30) DEF ListsNumbered
  <2> HIDE DEF new
  <2>4. ASSUME NEW s \in Shards
        PROVE  /\ Numbered(files'[s], Files) /\ Extends(files'[s], files[s])
               /\ Numbered(objs'[s], Objs) /\ Extends(objs'[s], objs[s])
    <3>1. files'[s] = IF s = Shard(t) THEN new ELSE files[s]
      BY <2>1 DEF Typed
    <3>2. Numbered(files[s], Files) /\ Numbered(objs[s], Objs)
      BY DEF ListsNumbered
    <3>3. Extends(files[s], files[s]) /\ Extends(objs[s], objs[s])
      BY <3>2 DEF Extends, Numbered
    <3> QED BY <2>1, <2>3, <3>1, <3>2, <3>3, ZenonT(30)
  <2> QED BY <2>4, ZenonT(30) DEF ListsNumbered, ListsGrow
<1>2. CASE insert_obj_path(t)
  <2> DEFINE new == insert_entry(objs[Shard(t)], Entry(op[t].obj, opos[t]), opos[t])
  <2>1. /\ pc[t] = "newobj" /\ Shard(t) \in Shards /\ op[t].obj \in Objs
        /\ objs' = [objs EXCEPT ![Shard(t)] = new] /\ files' = files
    BY <1>2, WriterArg DEF insert_obj_path, At, Writing
  <2>2. op[t].obj \notin Tags(objs[Shard(t)]) /\ opos[t] = Len(objs[Shard(t)])
    BY <2>1, ZenonT(30) DEF Fresh
  <2>3. Numbered(new, Objs) /\ Extends(new, objs[Shard(t)])
    BY <2>1, <2>2, TagInserted, ZenonT(30) DEF ListsNumbered
  <2> HIDE DEF new
  <2>4. ASSUME NEW s \in Shards
        PROVE  /\ Numbered(objs'[s], Objs) /\ Extends(objs'[s], objs[s])
               /\ Numbered(files'[s], Files) /\ Extends(files'[s], files[s])
    <3>1. objs'[s] = IF s = Shard(t) THEN new ELSE objs[s]
      BY <2>1 DEF Typed
    <3>2. Numbered(objs[s], Objs) /\ Numbered(files[s], Files)
      BY DEF ListsNumbered
    <3>3. Extends(objs[s], objs[s]) /\ Extends(files[s], files[s])
      BY <3>2 DEF Extends, Numbered
    <3> QED BY <2>1, <2>3, <3>1, <3>2, <3>3
  <2> QED BY <2>4 DEF ListsNumbered, ListsGrow
<1>3. CASE \A s \in Shards : files'[s] = files[s] /\ objs'[s] = objs[s]
  <2>1. ListsNumbered'
    BY <1>3, ZenonT(30) DEF ListsNumbered
  <2>2. ListsGrow
    BY <1>3 DEF ListsGrow, Extends, ListsNumbered, Numbered
  <2> QED BY <2>1, <2>2, ZenonT(30)
<1> QED BY <1>1, <1>2, <1>3, ListChange, ZenonT(30)

-----------------------------------------------------------------------------
(* A step changes at most the leaf of its name, and only in a writer's call. *)

LEMMA TreeStep ==
  ASSUME Typed, NEW t \in Threads, Step(t), NEW n \in Names, tree'[n] # tree[n]
  PROVE  /\ pc[t] \in Writing /\ n = op[t].name
         /\ new_leaf(t) \/ indexing_string(t) \/ add_node(t) \/ push_posting(t)
<1>1. search(t) => UNCHANGED tree
  BY DEF search, rdlock, attribute_value_search, collect_result_from_list,
     search_return, shared
<1>2. create_in_mem_index_for_attr(t) \/ exact_metadata_search(t) => UNCHANGED tree
  BY DEF create_in_mem_index_for_attr, exact_metadata_search, shared
<1>3. create(t) => \/ UNCHANGED tree
                   \/ new_leaf(t) \/ indexing_string(t) \/ add_node(t) \/ push_posting(t)
  BY ZenonT(30) DEF create, wrlock, locate_leaf, find_number, find_string, find_file_path,
     insert_file_path, find_obj_path, insert_obj_path, last_value, unlock, shared
<1>4. new_leaf(t) => pc[t] \in Writing /\ n = op[t].name
  BY ZenonT(30) DEF new_leaf, At, Writing, Typed
<1>5. indexing_string(t) => pc[t] \in Writing /\ n = op[t].name
  BY DEF indexing_string, At, Writing, Typed
<1>6. add_node(t) => pc[t] \in Writing /\ n = op[t].name
  BY DEF add_node, At, Writing, Typed
<1>7. push_posting(t) => pc[t] \in Writing /\ n = op[t].name
  BY Zenon DEF push_posting, Pushed, At, Writing, Typed
<1> QED BY <1>1, <1>2, <1>3, <1>4, <1>5, <1>6, <1>7 DEF Step

LockedInv == Typed /\ ListsNumbered /\ LockInv /\ Fresh

LEMMA LockedStep == LockedInv /\ [Next]_vars => LockedInv'
<1> SUFFICES ASSUME LockedInv, [Next]_vars PROVE LockedInv'
  OBVIOUS
<1>1. ASSUME NEW t \in Threads, Step(t) PROVE LockedInv'
  BY <1>1, TypedStep, LockStep, ListStep, FreshStep DEF LockedInv, Step
<1>2. CASE UNCHANGED vars
  <2> UNCHANGED <<lock, tree, files, objs, pc, op, private, i, fpos, opos, crashed, calls>>
    BY <1>2 DEF vars, shared, local, others
  <2>1. Typed'
    BY DEF LockedInv, Typed, ArgsOK
  <2>2. ListsNumbered' /\ LockInv' /\ Fresh'
    BY DEF LockedInv, ListsNumbered, LockInv, Fresh, Shard
  <2> QED BY <2>1, <2>2 DEF LockedInv
<1> QED BY <1>1, <1>2 DEF Next, Step

LEMMA LockedAlways == Spec => []LockedInv
<1>1. Init => LockedInv
  <2>1. Init => LockInv /\ Fresh
    BY DEF Init, LockInv, Fresh, Writing, Reading
  <2> QED BY <2>1, TypedInit DEF LockedInv
<1> QED BY <1>1, LockedStep, PTL DEF Spec

\* The variables keep the types of the structures of the code, for any number
\* of threads and shards.
THEOREM IndexTypeCorrect == Spec => []TypeOK
<1>1. LockedInv => TypeOK
  BY Zenon DEF LockedInv, Typed, TypeOK, ListsNumbered, Numbered
<1> QED BY <1>1, LockedAlways, PTL

\* insert_tagged_value numbers the paths of a shard from zero, without gap or
\* repetition, whatever threads index at the same time.
THEOREM PathsAreNumbered == Spec => []PathsNumbered
<1>1. LockedInv => PathsNumbered
  BY DEF LockedInv, PathsNumbered, ListsNumbered, Numbered
<1> QED BY <1>1, LockedAlways, PTL

\* No step of any thread moves, renames or drops an entry of a path list.
THEOREM PositionsAreStable == Spec => PositionsStable
<1> DEFINE Stable ==
      \A s \in Shards :
        /\ \A j \in DOMAIN files[s] : j \in DOMAIN files'[s] /\ files'[s][j] = files[s][j]
        /\ \A j \in DOMAIN objs[s] : j \in DOMAIN objs'[s] /\ objs'[s][j] = objs[s][j]
<1>1. ASSUME LockedInv, NEW t \in Threads, Step(t) PROVE Stable
  BY <1>1, ListStep DEF LockedInv, ListsGrow, Extends
<1>2. LockedInv /\ [Next]_vars => [Stable]_vars
  BY <1>1 DEF Next, Step
<1> QED BY <1>2, LockedAlways, PTL DEF Spec, PositionsStable

\* The read lock keeps the leaves of its shard as they are from the lookup of
\* exact_metadata_search to its return.
THEOREM SearchesUndisturbed == Spec => SearchUndisturbed
<1> DEFINE Quiet == \A t \in Threads : pc[t] \in Reading =>
                      \A n \in Names : ShardOf[n] = Shard(t) => tree'[n] = tree[n]
<1>1. ASSUME LockedInv, NEW u \in Threads, Step(u), NEW t \in Threads,
             pc[t] \in Reading, NEW n \in Names, ShardOf[n] = Shard(t)
      PROVE  tree'[n] = tree[n]
  <2> SUFFICES ASSUME tree'[n] # tree[n] PROVE FALSE
    OBVIOUS
  <2>1. pc[u] \in Writing /\ Shard(u) = Shard(t)
    BY <1>1, TreeStep DEF LockedInv, Shard
  <2>2. lock[Shard(t)].w = u /\ lock[Shard(t)].w = NoThread
    BY <1>1, <2>1 DEF LockedInv, LockInv
  <2> QED BY <2>2, ArgFacts
<1>2. LockedInv /\ [Next]_vars => [Quiet]_vars
  BY <1>1 DEF Next, Step
<1> QED BY <1>2, LockedAlways, PTL DEF Spec, SearchUndisturbed

-----------------------------------------------------------------------------
(* Postings.                                                                 *)

PostingType == [shard : Shards, file : Nat, obj : Nat]

\* A list of postings into m files and k objects of shard s.
Within(list, s, m, k) ==
  /\ list \in Seq(PostingType)
  /\ \A j \in DOMAIN list : list[j].shard = s /\ list[j].file < m /\ list[j].obj < k

\* A leaf whose postings are such lists.
LeafWithin(leaf, s, m, k) ==
  /\ "num" \in DOMAIN leaf /\ "str" \in DOMAIN leaf
  /\ \A key \in DOMAIN leaf.num : Within(leaf.num[key], s, m, k)
  /\ \A key \in DOMAIN leaf.str : Within(leaf.str[key], s, m, k)

LeafOK(n) == LeafWithin(tree[n], ShardOf[n], Len(files[ShardOf[n]]), Len(objs[ShardOf[n]]))

LeavesOK == \A n \in Names : tree[n] = NoLeaf \/ LeafOK(n)

HasLeaf == {"string", "value", "add", "file", "newfile", "obj", "newobj", "push"}

\* What a writer knows between two steps of its call.
InHand(t) ==
  /\ pc[t] \in HasLeaf /\ ~private[t] => LeafOK(op[t].name)
  /\ pc[t] \in {"wrlock", "locate", "newleaf", "add"} => ~private[t]
  /\ pc[t] \in HasLeaf /\ ~IsString(t) => ~private[t]
  /\ pc[t] \in {"obj", "newobj", "push"} => fpos[t] < Len(files[Shard(t)])
  /\ pc[t] = "push" => opos[t] < Len(objs[Shard(t)])

WritersOK == \A t \in Threads : InHand(t)

LEMMA LeafGrows ==
  ASSUME NEW leaf, NEW s, NEW m \in Nat, NEW k \in Nat, NEW m2 \in Nat, NEW k2 \in Nat,
         m <= m2, k <= k2, LeafWithin(leaf, s, m, k)
  PROVE  LeafWithin(leaf, s, m2, k2)
<1>1. ASSUME NEW list, Within(list, s, m, k) PROVE Within(list, s, m2, k2)
  <2>1. ASSUME NEW j \in DOMAIN list
        PROVE  list[j].shard = s /\ list[j].file < m2 /\ list[j].obj < k2
    <3>1. list[j] \in PostingType
      BY <1>1 DEF Within
    <3>2. list[j].file \in Nat /\ list[j].obj \in Nat
      BY <3>1 DEF PostingType
    <3>3. list[j].shard = s /\ list[j].file < m /\ list[j].obj < k
      BY <1>1 DEF Within
    <3> QED BY <3>2, <3>3
  <2> QED BY <1>1, <2>1 DEF Within
<1> QED BY <1>1 DEF LeafWithin

LEMMA LeafNew ==
  ASSUME NEW kind, NEW s, NEW m, NEW k
  PROVE  LeafWithin(Leaf(kind), s, m, k)
<1>1. "num" \in DOMAIN Leaf(kind) /\ "str" \in DOMAIN Leaf(kind)
  BY DEF Leaf
<1>2. Leaf(kind).num = <<>> /\ Leaf(kind).str = <<>>
  BY DEF Leaf
<1>3. \A x \in DOMAIN <<>> : FALSE
  OBVIOUS
<1> QED BY <1>1, <1>2, <1>3 DEF LeafWithin

\* A leaf of which one of the two trees is replaced.
LEMMA LeafReplaced ==
  ASSUME NEW leaf, NEW s, NEW m, NEW k, LeafWithin(leaf, s, m, k), NEW f,
         \A key \in DOMAIN f : Within(f[key], s, m, k)
  PROVE  /\ LeafWithin([leaf EXCEPT !.num = f], s, m, k)
         /\ LeafWithin([leaf EXCEPT !.str = f], s, m, k)
<1>1. /\ [leaf EXCEPT !.num = f].num = f /\ [leaf EXCEPT !.num = f].str = leaf.str
      /\ DOMAIN [leaf EXCEPT !.num = f] = DOMAIN leaf
  BY DEF LeafWithin
<1>2. /\ [leaf EXCEPT !.str = f].str = f /\ [leaf EXCEPT !.str = f].num = leaf.num
      /\ DOMAIN [leaf EXCEPT !.str = f] = DOMAIN leaf
  BY DEF LeafWithin
<1> QED BY <1>1, <1>2 DEF LeafWithin

\* A leaf that indexing_string marks.
LEMMA LeafMarked ==
  ASSUME NEW leaf, NEW s, NEW m, NEW k, LeafWithin(leaf, s, m, k)
  PROVE  LeafWithin([leaf EXCEPT !.isNumeric = FALSE, !.isFloat = FALSE, !.hasArt = TRUE],
                    s, m, k)
<1> DEFINE new == [leaf EXCEPT !.isNumeric = FALSE, !.isFloat = FALSE, !.hasArt = TRUE]
<1>1. DOMAIN new = DOMAIN leaf /\ new.num = leaf.num /\ new.str = leaf.str
  BY DEF LeafWithin
<1> QED BY <1>1 DEF LeafWithin

\* A tree of lists with a new, empty node.
LEMMA NodeAdded ==
  ASSUME NEW f, NEW s, NEW m, NEW k, NEW key, NEW ks,
         \A x \in DOMAIN f : Within(f[x], s, m, k)
  PROVE  /\ \A x \in DOMAIN With(f, key, <<>>) : Within(With(f, key, <<>>)[x], s, m, k)
         /\ \A x \in DOMAIN Without(f, ks) : Within(Without(f, ks)[x], s, m, k)
<1>1. Within(<<>>, s, m, k)
  BY DEF Within
<1>2. ASSUME NEW x \in DOMAIN With(f, key, <<>>) PROVE Within(With(f, key, <<>>)[x], s, m, k)
  <2>1. x \in DOMAIN f \cup {key} /\ With(f, key, <<>>)[x] = IF x = key THEN <<>> ELSE f[x]
    BY DEF With
  <2> QED BY <1>1, <2>1
<1>3. ASSUME NEW x \in DOMAIN Without(f, ks) PROVE Within(Without(f, ks)[x], s, m, k)
  BY DEF Without
<1> QED BY <1>2, <1>3

\* A posting into m files and k objects of shard s, and a tree of lists of them.
PostingIn(p, s, m, k) == p \in PostingType /\ p.shard = s /\ p.file < m /\ p.obj < k
AllWithin(f, s, m, k) == \A z \in DOMAIN f : Within(f[z], s, m, k)

\* A tree of lists one of which has a posting more.
LEMMA NodePushed ==
  ASSUME NEW f, NEW s, NEW m, NEW k, NEW key, NEW p,
         PostingIn(p, s, m, k), AllWithin(f, s, m, k)
  PROVE  AllWithin([f EXCEPT ![key] = Append(f[key], p)], s, m, k)
<1> DEFINE g == [f EXCEPT ![key] = Append(f[key], p)]
<1> SUFFICES ASSUME NEW z \in DOMAIN g PROVE Within(g[z], s, m, k)
  BY DEF AllWithin
<1>1. z \in DOMAIN f /\ g[z] = IF z = key THEN Append(f[z], p) ELSE f[z]
  OBVIOUS
<1>2. /\ p \in PostingType /\ p.shard = s /\ p.file < m /\ p.obj < k
      /\ Within(f[z], s, m, k)
  BY <1>1 DEF PostingIn, AllWithin
<1> HIDE DEF g
<1>3. Within(Append(f[z], p), s, m, k)
  <2> DEFINE list == f[z]
             new == Append(list, p)
  <2>1. list \in Seq(PostingType)
    BY <1>2 DEF Within
  <2>2. \A j \in 1 .. Len(list) : list[j].shard = s /\ list[j].file < m /\ list[j].obj < k
    <3>1. \A j \in DOMAIN list : list[j].shard = s /\ list[j].file < m /\ list[j].obj < k
      BY <1>2 DEF Within
    <3> QED BY <2>1, <3>1
  <2> HIDE DEF list
  <2>3. /\ new \in Seq(PostingType)
        /\ DOMAIN new = 1 .. Len(list) + 1 /\ Len(list) \in Nat
        /\ new[Len(list) + 1] = p /\ \A j \in 1 .. Len(list) : new[j] = list[j]
    BY <1>2, <2>1
  <2> HIDE DEF new
  <2>4. \A j \in DOMAIN new : j \in 1 .. Len(list) \/ j = Len(list) + 1
    BY <2>3
  <2>5. \A j \in DOMAIN new : new[j].shard = s /\ new[j].file < m /\ new[j].obj < k
    BY <1>2, <2>2, <2>3, <2>4
  <2>6. Within(new, s, m, k)
    BY <2>3, <2>5 DEF Within
  <2> QED BY <2>6 DEF new, list
<1> QED BY <1>1, <1>2, <1>3

-----------------------------------------------------------------------------
(* The leaf that a step changes.                                             *)

LEMMA LeafChanged ==
  ASSUME Typed, NEW t \in Threads, InHand(t),
         new_leaf(t) \/ indexing_string(t) \/ add_node(t) \/ push_posting(t),
         tree' # tree
  PROVE  LeafWithin(tree'[op[t].name], Shard(t), Len(files[Shard(t)]), Len(objs[Shard(t)]))
<1> DEFINE n == op[t].name
           L == tree[n]
           m == Len(files[Shard(t)])
           k == Len(objs[Shard(t)])
<1> n \in Names /\ Shard(t) \in Shards
  BY WriterArg DEF new_leaf, indexing_string, add_node, push_posting, At, Writing
<1>0. \A x : [tree EXCEPT ![n] = x][n] = x
  BY DEF Typed
<1>1. CASE new_leaf(t)
  <2>1. PICK kind : tree' = [tree EXCEPT ![n] = Leaf(kind)]
    BY <1>1 DEF new_leaf
  <2> QED BY <1>0, <2>1, LeafNew
<1>2. CASE indexing_string(t)
  <2>1. LeafWithin(L, Shard(t), m, k)
    BY <1>2 DEF indexing_string, InHand, At, HasLeaf, LeafOK, Shard
  <2>2. tree'[n] = [L EXCEPT !.isNumeric = FALSE, !.isFloat = FALSE, !.hasArt = TRUE]
    BY <1>2, Zenon DEF indexing_string, Typed
  <2> HIDE DEF L, m, k, n
  <2>3. LeafWithin([L EXCEPT !.isNumeric = FALSE, !.isFloat = FALSE, !.hasArt = TRUE],
                   Shard(t), m, k)
    BY <2>1, LeafMarked, Zenon
  <2>4. LeafWithin(tree'[n], Shard(t), m, k)
    BY <2>2, <2>3, Zenon
  <2> QED BY <2>4 DEF n, m, k
<1>3. CASE add_node(t)
  <2>1. LeafWithin(L, Shard(t), m, k)
    BY <1>3 DEF add_node, InHand, At, HasLeaf, LeafOK, Shard
  <2>2. CASE IsString(t)
    <3> DEFINE f == With(L.str, node[t], <<>>)
    <3>1. tree'[n] = [L EXCEPT !.str = f]
      BY <1>3, <2>2, Zenon DEF add_node, LeafOf, Typed
    <3>2. \A key \in DOMAIN f : Within(f[key], Shard(t), m, k)
      BY <2>1, NodeAdded, Zenon DEF LeafWithin
    <3> HIDE DEF L, m, k, n, f
    <3>4. LeafWithin([L EXCEPT !.str = f], Shard(t), m, k)
      BY <2>1, <3>2, LeafReplaced, Zenon
    <3>5. LeafWithin(tree'[n], Shard(t), m, k)
      BY <3>1, <3>4, Zenon
    <3> QED BY <3>5 DEF n, m, k
  <2>3. CASE ~IsString(t)
    <3> DEFINE e == Without(L.num, Matching(L, node[t]))
               f == With(e, node[t], <<>>)
    <3>1. tree'[n] = [L EXCEPT !.num = f]
      BY <1>3, <2>3, ZenonT(30) DEF add_node, LeafOf, Typed
    <3>2. \A key \in DOMAIN e : Within(e[key], Shard(t), m, k)
      BY <2>1, NodeAdded, Zenon DEF LeafWithin
    <3> HIDE DEF e
    <3>3. \A key \in DOMAIN f : Within(f[key], Shard(t), m, k)
      BY <3>2, NodeAdded, ZenonT(30)
    <3> HIDE DEF L, m, k, n, f
    <3>4. LeafWithin([L EXCEPT !.num = f], Shard(t), m, k)
      BY <2>1, <3>3, LeafReplaced, Zenon
    <3>5. LeafWithin(tree'[n], Shard(t), m, k)
      BY <3>1, <3>4, Zenon
    <3> QED BY <3>5 DEF n, m, k
  <2> QED BY <2>2, <2>3
<1>4. CASE push_posting(t)
  <2>1. ~private[t]
    BY <1>4, Zenon DEF push_posting, Pushed
  <2>2. LeafWithin(L, Shard(t), m, k)
    BY <1>4, <2>1 DEF push_posting, InHand, At, HasLeaf, LeafOK, Shard
  <2>3. fpos[t] \in Nat /\ opos[t] \in Nat /\ fpos[t] < m /\ opos[t] < k
    BY <1>4 DEF push_posting, InHand, At, Typed
  <2> DEFINE p == Posting(t)
  <2>4. PostingIn(p, Shard(t), m, k)
    BY <2>3 DEF PostingIn, Posting, PostingType
  <2>5. CASE IsString(t)
    <3> DEFINE f == [L.str EXCEPT ![node[t]] = Append(L.str[node[t]], p)]
    <3>1. tree'[n] = [L EXCEPT !.str = f]
      BY <1>4, <2>1, <2>5, ZenonT(30) DEF push_posting, Pushed, Typed
    <3>2. AllWithin(L.str, Shard(t), m, k)
      BY <2>2, Zenon DEF LeafWithin, AllWithin
    <3> HIDE DEF L, m, k, n, p
    <3>3. AllWithin(f, Shard(t), m, k)
      BY <2>4, <3>2, NodePushed, Zenon
    <3> HIDE DEF f
    <3>4. LeafWithin([L EXCEPT !.str = f], Shard(t), m, k)
      BY <2>2, <3>3, LeafReplaced, Zenon DEF AllWithin
    <3>5. LeafWithin(tree'[n], Shard(t), m, k)
      BY <3>1, <3>4, Zenon
    <3> QED BY <3>5 DEF n, m, k
  <2>6. CASE ~IsString(t)
    <3> DEFINE f == [L.num EXCEPT ![node[t]] = Append(L.num[node[t]], p)]
    <3>1. tree'[n] = [L EXCEPT !.num = f]
      BY <1>4, <2>1, <2>6, ZenonT(30) DEF push_posting, Pushed, Typed
    <3>2. AllWithin(L.num, Shard(t), m, k)
      BY <2>2 DEF LeafWithin, AllWithin
    <3> HIDE DEF L, m, k, n, p
    <3>3. AllWithin(f, Shard(t), m, k)
      BY <2>4, <3>2, NodePushed, Zenon
    <3> HIDE DEF f
    <3>4. LeafWithin([L EXCEPT !.num = f], Shard(t), m, k)
      BY <2>2, <3>3, LeafReplaced, Zenon DEF AllWithin
    <3>5. LeafWithin(tree'[n], Shard(t), m, k)
      BY <3>1, <3>4, Zenon
    <3> QED BY <3>5 DEF n, m, k
  <2> QED BY <2>5, <2>6
<1> QED BY <1>1, <1>2, <1>3, <1>4, ZenonT(30)

LEMMA ListLengths ==
  ASSUME ListsNumbered, ListsNumbered', ListsGrow, NEW s \in Shards
  PROVE  /\ Len(files[s]) \in Nat /\ Len(files'[s]) \in Nat /\ Len(files[s]) <= Len(files'[s])
         /\ Len(objs[s]) \in Nat /\ Len(objs'[s]) \in Nat /\ Len(objs[s]) <= Len(objs'[s])
<1>1. /\ files[s] \in Seq([tag : Files, pos : Nat]) /\ objs[s] \in Seq([tag : Objs, pos : Nat])
  BY Zenon DEF ListsNumbered, Numbered
<1>2. /\ files'[s] \in Seq([tag : Files, pos : Nat]) /\ objs'[s] \in Seq([tag : Objs, pos : Nat])
  BY ZenonT(30) DEF ListsNumbered, Numbered
<1>3. Len(files[s]) <= Len(files'[s]) /\ Len(objs[s]) <= Len(objs'[s])
  BY DEF ListsGrow, Extends
<1> QED BY <1>1, <1>2, <1>3

LEMMA LeafStep ==
  ASSUME Typed, ListsNumbered, Fresh, WritersOK, NEW t \in Threads, Step(t),
         NEW n \in Names, LeafOK(n) \/ tree'[n] # tree[n]
  PROVE  LeafOK(n)'
<1> DEFINE s == ShardOf[n]
<1>1. s \in Shards
  BY IndexAssumption
<1>2. LeafWithin(tree'[n], s, Len(files[s]), Len(objs[s]))
  <2>1. CASE tree'[n] # tree[n]
    <3>1. n = op[t].name /\ (new_leaf(t) \/ indexing_string(t) \/ add_node(t) \/ push_posting(t))
      BY <2>1, TreeStep
    <3>2. InHand(t) /\ tree' # tree
      BY <2>1 DEF WritersOK
    <3>3. LeafWithin(tree'[op[t].name], Shard(t), Len(files[Shard(t)]), Len(objs[Shard(t)]))
      BY <3>1, <3>2, LeafChanged
    <3>4. s = Shard(t)
      BY <3>1 DEF Shard
    <3> QED BY <3>1, <3>3, <3>4
  <2>2. CASE tree'[n] = tree[n]
    BY <2>2 DEF LeafOK
  <2> QED BY <2>1, <2>2, ZenonT(30)
<1> HIDE DEF s
<1>3. LeafWithin(tree'[n], s, Len(files'[s]), Len(objs'[s]))
  <2>1. ListsNumbered' /\ ListsGrow
    BY ListStep
  <2> QED BY <1>1, <1>2, <2>1, ListLengths, LeafGrows
<1> QED BY <1>3 DEF LeafOK, s

-----------------------------------------------------------------------------
(* What a writer has in hand.                                                *)

LEMMA HandOfOthers ==
  ASSUME Typed, ListsNumbered, Fresh, WritersOK, NEW t \in Threads, Step(t),
         NEW u \in Threads, u # t
  PROVE  InHand(u)'
<1>1. /\ pc'[u] = pc[u] /\ op'[u] = op[u] /\ private'[u] = private[u]
      /\ fpos'[u] = fpos[u] /\ opos'[u] = opos[u]
  BY OthersKept
<1>2. Shard(u)' = Shard(u) /\ IsString(u)' = IsString(u)
  BY <1>1 DEF Shard, IsString
<1>3. InHand(u)
  BY DEF WritersOK
<1>4. pc[u] \in HasLeaf => op[u].name \in Names /\ Shard(u) \in Shards
  BY WriterArg DEF HasLeaf, Writing
<1>5. pc[u] \in HasLeaf /\ ~private[u] => LeafOK(op[u].name)'
  <2> SUFFICES ASSUME pc[u] \in HasLeaf, ~private[u] PROVE LeafOK(op[u].name)'
    OBVIOUS
  <2> DEFINE n == op[u].name
  <2>1. n \in Names /\ LeafOK(n)
    BY <1>3, <1>4 DEF InHand
  <2>2. n' = n
    BY <1>1
  <2> HIDE DEF n
  <2>3. LeafWithin(tree'[n], ShardOf[n], Len(files'[ShardOf[n]]), Len(objs'[ShardOf[n]]))
    BY <2>1, LeafStep DEF LeafOK
  <2> QED BY <2>2, <2>3 DEF LeafOK, n
<1>6. pc[u] \in HasLeaf =>
        /\ Len(files[Shard(u)]) <= Len(files'[Shard(u)]) /\ Len(objs[Shard(u)]) <= Len(objs'[Shard(u)])
        /\ Len(files[Shard(u)]) \in Nat /\ Len(files'[Shard(u)]) \in Nat
        /\ Len(objs[Shard(u)]) \in Nat /\ Len(objs'[Shard(u)]) \in Nat
  BY <1>4, ListStep, ListLengths
<1>7. fpos[u] \in Nat /\ opos[u] \in Nat
  BY DEF Typed
<1>8. pc[u] \in {"obj", "newobj", "push"} => fpos[u] < Len(files'[Shard(u)])
  BY <1>3, <1>6, <1>7 DEF InHand, HasLeaf
<1>9. pc[u] = "push" => opos[u] < Len(objs'[Shard(u)])
  BY <1>3, <1>6, <1>7 DEF InHand, HasLeaf
<1> QED BY <1>1, <1>2, <1>3, <1>5, <1>8, <1>9 DEF InHand

\* The leaf of the thread that steps stays well-formed.
LEMMA OwnLeaf ==
  ASSUME Typed, ListsNumbered, Fresh, WritersOK, NEW t \in Threads, Step(t),
         op' = op, pc[t] \in Writing, LeafOK(op[t].name) \/ tree'[op[t].name] # tree[op[t].name]
  PROVE  LeafOK(op[t].name)'
<1> DEFINE n == op[t].name
<1>1. n \in Names /\ n' = n
  BY WriterArg
<1> HIDE DEF n
<1>2. LeafWithin(tree'[n], ShardOf[n], Len(files'[ShardOf[n]]), Len(objs'[ShardOf[n]]))
  BY <1>1, LeafStep DEF LeafOK, n
<1> QED BY <1>1, <1>2 DEF LeafOK, n

\* A step after which the thread holds no leaf.
LEMMA NothingInHand ==
  ASSUME NEW t \in Threads, pc'[t] \notin HasLeaf \cup {"wrlock", "locate", "newleaf"}
  PROVE  InHand(t)'
BY DEF InHand, HasLeaf

\* After its own insertion a writer's position is inside the list.
LEMMA FileInserted ==
  ASSUME Typed, ListsNumbered, Fresh, NEW t \in Threads, insert_file_path(t)
  PROVE  fpos[t] < Len(files'[Shard(t)])
<1> DEFINE list == files[Shard(t)]
           tag == op[t].file
<1>1. pc[t] = "newfile" /\ Shard(t) \in Shards /\ tag \in Files
  BY WriterArg DEF insert_file_path, At, Writing
<1>2. tag \notin Tags(list) /\ fpos[t] = Len(list)
  BY <1>1 DEF Fresh
<1>3. Numbered(list, Files)
  BY <1>1 DEF ListsNumbered
<1>4. files'[Shard(t)] = insert_entry(list, Entry(tag, Len(list)), Len(list))
  BY <1>1, <1>2 DEF insert_file_path, Typed
<1> HIDE DEF list, tag
<1>5. Len(insert_entry(list, Entry(tag, Len(list)), Len(list))) = Len(list) + 1
  BY <1>1, <1>2, <1>3, TagInserted, Zenon
<1>6. Len(list) \in Nat
  BY <1>3 DEF Numbered
<1> QED BY <1>2, <1>4, <1>5, <1>6

LEMMA ObjInserted ==
  ASSUME Typed, ListsNumbered, Fresh, NEW t \in Threads, insert_obj_path(t)
  PROVE  opos[t] < Len(objs'[Shard(t)])
<1> DEFINE list == objs[Shard(t)]
           tag == op[t].obj
<1>1. pc[t] = "newobj" /\ Shard(t) \in Shards /\ tag \in Objs
  BY WriterArg DEF insert_obj_path, At, Writing
<1>2. tag \notin Tags(list) /\ opos[t] = Len(list)
  BY <1>1 DEF Fresh
<1>3. Numbered(list, Objs)
  BY <1>1 DEF ListsNumbered
<1>4. objs'[Shard(t)] = insert_entry(list, Entry(tag, Len(list)), Len(list))
  BY <1>1, <1>2, ZenonT(30) DEF insert_obj_path, Typed
<1> HIDE DEF list, tag
<1>5. Len(insert_entry(list, Entry(tag, Len(list)), Len(list))) = Len(list) + 1
  BY <1>1, <1>2, <1>3, TagInserted, Zenon
<1>6. Len(list) \in Nat
  BY <1>3 DEF Numbered
<1> QED BY <1>2, <1>4, <1>5, <1>6

LEMMA HandOfStepper ==
  ASSUME Typed, ListsNumbered, Fresh, LeavesOK, WritersOK, NEW t \in Threads, Step(t)
  PROVE  InHand(t)'
<1> InHand(t)
  BY DEF WritersOK
<1>0. ASSUME NEW l, Goto(t, l) PROVE pc'[t] = l
  BY <1>0 DEF Typed, Goto
<1>1. CASE create_in_mem_index_for_attr(t)
  <2> pc'[t] = "wrlock" /\ private'[t] = FALSE
    BY <1>0, <1>1 DEF create_in_mem_index_for_attr, Typed
  <2> QED BY DEF InHand, HasLeaf
<1>2. CASE wrlock(t)
  <2> pc'[t] = "locate" /\ pc[t] = "wrlock" /\ private' = private
    BY <1>0, <1>2 DEF wrlock, At, local
  <2> QED BY DEF InHand, HasLeaf
<1>3. CASE locate_leaf(t)
  <2>1. pc[t] = "locate" /\ UNCHANGED <<tree, op, private>>
    BY <1>3 DEF locate_leaf, At, shared, local
  <2>2. ~private'[t] /\ op[t].name \in Names
    BY <2>1, WriterArg DEF InHand, Writing
  <2>3. \/ pc'[t] \in {"newleaf", "unlock"}
        \/ pc'[t] \in {"string", "value"} /\ tree[op[t].name] # NoLeaf
    BY <1>0, <1>3 DEF locate_leaf, LeafOf, Indexing
  <2>4. pc'[t] \in {"string", "value"} => LeafOK(op[t].name)'
    BY <2>1, <2>2, <2>3, OwnLeaf DEF LeavesOK, Writing
  <2> QED BY <2>2, <2>3, <2>4 DEF InHand, HasLeaf
<1>4. CASE new_leaf(t)
  <2>1. pc[t] = "newleaf" /\ op' = op /\ files' = files /\ objs' = objs
    BY <1>4 DEF new_leaf, At
  <2>2. ~private[t] /\ op[t].name \in Names /\ IsString(t)' = IsString(t)
    BY <2>1, WriterArg DEF InHand, Writing, IsString
  <2>3. CASE op[t].type \in {"integer", "float"}
    <3>1. ~private'[t] /\ pc'[t] = "value"
      BY <1>0, <1>4, <2>2, <2>3 DEF new_leaf, Indexing
    <3>2. PICK kind : tree' = [tree EXCEPT ![op[t].name] = Leaf(kind)]
      BY <1>4, <2>3, ZenonT(30) DEF new_leaf
    <3>3. tree'[op[t].name] = Leaf(kind)
      BY <2>2, <3>2, ZenonT(30) DEF Typed
    <3>4. LeafOK(op[t].name)'
      BY <2>1, <3>3, LeafNew, ZenonT(30) DEF LeafOK
    <3> QED BY <3>1, <3>4, Zenon DEF InHand, HasLeaf
  <2>4. CASE op[t].type \notin {"integer", "float"}
    <3>1. private'[t] /\ (pc'[t] = "unlock" \/ (pc'[t] \in {"string", "value"} /\ IsString(t)))
      <4>1. private'[t]
        BY <1>4, <2>4, Zenon DEF new_leaf, Typed
      <4>2. (pc'[t] = "string" /\ IsString(t)) \/ pc'[t] = "unlock"
        <5>1. op[t].type \in Types
          BY <2>1, WriterArg, IndexAssumption DEF Writing
        <5>2. op[t].type \in {"string", "unknown"}
          BY <2>4, <5>1 DEF Types
        <5> QED BY <1>0, <1>4, <5>2 DEF new_leaf, Indexing, IsString
      <4> QED BY <4>1, <4>2
    <3> QED BY <2>2, <3>1, ZenonT(30) DEF InHand, HasLeaf
  <2> QED BY <2>3, <2>4
<1>5. CASE indexing_string(t)
  <2>1. pc[t] = "string" /\ pc'[t] = "value" /\ UNCHANGED <<op, private>>
    BY <1>0, <1>5 DEF indexing_string, At, local
  <2>2. ~private[t] => LeafOK(op[t].name)'
    BY <2>1, OwnLeaf DEF InHand, HasLeaf, Writing
  <2> QED BY <2>1, <2>2 DEF InHand, HasLeaf, IsString
<1>6. CASE find_number(t)
  <2>1. /\ pc[t] = "value" /\ UNCHANGED <<op, private>> /\ ~IsString(t)
        /\ Goto(t, "add") \/ Goto(t, "file")
    BY <1>6 DEF find_number, At
  <2>2. pc'[t] \in {"add", "file"}
    BY <1>0, <2>1
  <2>3. ~private[t] /\ LeafOK(op[t].name)'
    BY <2>1, OwnLeaf, Zenon DEF InHand, HasLeaf, Writing
  <2> QED BY <2>1, <2>2, <2>3 DEF InHand, HasLeaf, IsString
<1>7. CASE find_string(t)
  <2>1. /\ pc[t] = "value" /\ UNCHANGED <<op, private>>
        /\ pc'[t] = "file" \/ (pc'[t] = "add" /\ ~private[t])
    BY <1>0, <1>7, ZenonT(30) DEF find_string, At
  <2>2. ~private[t] => LeafOK(op[t].name)'
    BY <2>1, OwnLeaf, ZenonT(30) DEF InHand, HasLeaf, Writing
  <2> QED BY <2>1, <2>2 DEF InHand, HasLeaf, IsString
<1>8. CASE add_node(t)
  <2>1. pc[t] = "add" /\ pc'[t] = "file" /\ UNCHANGED <<op, private>>
    BY <1>0, <1>8 DEF add_node, At, local
  <2>2. ~private[t] => LeafOK(op[t].name)'
    BY <2>1, OwnLeaf DEF InHand, HasLeaf, Writing
  <2> QED BY <2>1, <2>2 DEF InHand, HasLeaf, IsString
<1>9. CASE find_file_path(t)
  <2>1. /\ pc[t] = "file" /\ UNCHANGED <<op, private, files, opos>>
        /\ pc'[t] = IF op[t].file \in Tags(files[Shard(t)]) THEN "obj" ELSE "newfile"
    BY <1>0, <1>9, ZenonT(30) DEF find_file_path, At, shared
  <2>2. ~private[t] => LeafOK(op[t].name)'
    BY <2>1, OwnLeaf DEF InHand, HasLeaf, Writing
  <2>3. /\ Shard(t) \in Shards /\ op[t].file \in Files /\ Shard(t)' = Shard(t)
        /\ Numbered(files[Shard(t)], Files)
    BY <2>1, WriterArg DEF Writing, ListsNumbered, Shard
  <2>4. fpos'[t] = TaggedPos(files[Shard(t)], op[t].file)
    BY <1>9 DEF find_file_path, Typed
  <2>5. pc'[t] = "obj" => fpos'[t] < Len(files'[Shard(t)])
    BY <2>1, <2>3, <2>4, TagPosition
  <2> QED BY <2>1, <2>2, <2>3, <2>5, ZenonT(30) DEF InHand, HasLeaf, IsString
<1>10. CASE find_obj_path(t)
  <2>1. /\ pc[t] = "obj" /\ UNCHANGED <<op, private, files, objs, fpos>>
        /\ pc'[t] = IF op[t].obj \in Tags(objs[Shard(t)]) THEN "push" ELSE "newobj"
    BY <1>0, <1>10, ZenonT(30) DEF find_obj_path, At, shared
  <2>2. ~private[t] => LeafOK(op[t].name)'
    BY <2>1, OwnLeaf, ZenonT(30) DEF InHand, HasLeaf, Writing
  <2>3. /\ Shard(t) \in Shards /\ op[t].obj \in Objs /\ Shard(t)' = Shard(t)
        /\ Numbered(objs[Shard(t)], Objs)
    BY <2>1, WriterArg, ZenonT(30) DEF Writing, ListsNumbered, Shard
  <2>4. opos'[t] = TaggedPos(objs[Shard(t)], op[t].obj)
    BY <1>10, ZenonT(30) DEF find_obj_path, Typed
  <2>5. pc'[t] = "push" => opos'[t] < Len(objs'[Shard(t)])
    BY <2>1, <2>3, <2>4, TagPosition
  <2> QED BY <2>1, <2>2, <2>3, <2>5, ZenonT(30) DEF InHand, HasLeaf, IsString
<1>19. CASE insert_file_path(t)
  <2>1. pc[t] = "newfile" /\ pc'[t] = "obj" /\ UNCHANGED <<op, private, fpos>>
    BY <1>0, <1>19, ZenonT(30) DEF insert_file_path, At, local
  <2>2. ~private[t] => LeafOK(op[t].name)'
    BY <2>1, OwnLeaf DEF InHand, HasLeaf, Writing
  <2>3. fpos[t] < Len(files'[Shard(t)])
    BY <1>19, FileInserted
  <2>4. Shard(t)' = Shard(t)
    BY <2>1 DEF Shard
  <2> QED BY <2>1, <2>2, <2>3, <2>4, ZenonT(30) DEF InHand, HasLeaf, IsString
<1>20. CASE insert_obj_path(t)
  <2>1. pc[t] = "newobj" /\ pc'[t] = "push" /\ UNCHANGED <<op, private, files, fpos, opos>>
    BY <1>0, <1>20, ZenonT(30) DEF insert_obj_path, At, local
  <2>2. ~private[t] => LeafOK(op[t].name)'
    BY <2>1, OwnLeaf DEF InHand, HasLeaf, Writing
  <2>3. opos[t] < Len(objs'[Shard(t)])
    BY <1>20, ObjInserted
  <2>4. Shard(t)' = Shard(t)
    BY <2>1, ZenonT(30) DEF Shard
  <2> QED BY <2>1, <2>2, <2>3, <2>4 DEF InHand, HasLeaf, IsString
<1>11. CASE push_posting(t)
  <2>1. pc[t] = "push" /\ pc'[t] = "value" /\ UNCHANGED <<op, private>>
    BY <1>0, <1>11 DEF push_posting, At
  <2>2. ~private[t] => LeafOK(op[t].name)'
    BY <2>1, OwnLeaf DEF InHand, HasLeaf, Writing
  <2> QED BY <2>1, <2>2 DEF InHand, HasLeaf, IsString
<1>12. CASE last_value(t)
  BY <1>0, <1>12, NothingInHand DEF last_value, HasLeaf
<1>13. CASE unlock(t)
  BY <1>0, <1>13, NothingInHand DEF unlock, HasLeaf
<1>14. CASE exact_metadata_search(t)
  BY <1>0, <1>14, NothingInHand DEF exact_metadata_search, HasLeaf
<1>15. CASE rdlock(t)
  BY <1>0, <1>15, NothingInHand DEF rdlock, HasLeaf
<1>16. CASE attribute_value_search(t)
  <2>1. pc[t] = "search" /\ (Goto(t, "collect") \/ pc' = pc)
    BY <1>16 DEF attribute_value_search, At
  <2>2. pc'[t] \in {"search", "collect"}
    BY <1>0, <2>1
  <2> QED BY <2>2, NothingInHand DEF HasLeaf
<1>17. CASE collect_result_from_list(t)
  BY <1>17, NothingInHand DEF collect_result_from_list, At, HasLeaf
<1>18. CASE search_return(t)
  BY <1>0, <1>18, NothingInHand DEF search_return, HasLeaf
<1> QED BY <1>1, <1>2, <1>3, <1>4, <1>5, <1>6, <1>7, <1>8, <1>9, <1>10, <1>11,
     <1>12, <1>13, <1>14, <1>15, <1>16, <1>17, <1>18, <1>19, <1>20
  DEF Step, create, search

PostingInv == LockedInv /\ LeavesOK /\ WritersOK

LEMMA PostingStep == PostingInv /\ [Next]_vars => PostingInv'
<1> SUFFICES ASSUME PostingInv, [Next]_vars PROVE PostingInv'
  OBVIOUS
<1>0. LockedInv'
  BY LockedStep DEF PostingInv
<1>1. ASSUME NEW t \in Threads, Step(t) PROVE LeavesOK' /\ WritersOK'
  <2>1. ASSUME NEW n \in Names PROVE (tree[n] = NoLeaf \/ LeafOK(n))'
    <3>1. CASE tree'[n] = tree[n] /\ ~LeafOK(n)
      BY <3>1 DEF PostingInv, LeavesOK
    <3>2. CASE tree'[n] # tree[n] \/ LeafOK(n)
      BY <1>1, <3>2, LeafStep DEF PostingInv, LockedInv
    <3> QED BY <3>1, <3>2
  <2>2. ASSUME NEW u \in Threads PROVE InHand(u)'
    BY <1>1, HandOfOthers, HandOfStepper DEF PostingInv, LockedInv
  <2> QED BY <2>1, <2>2 DEF LeavesOK, WritersOK
<1>2. CASE UNCHANGED vars
  <2> UNCHANGED <<tree, files, objs, pc, op, private, fpos, opos>>
    BY <1>2 DEF vars, shared, local, others
  <2>1. \A n \in Names : LeafOK(n)' = LeafOK(n)
    BY DEF LeafOK
  <2>2. \A u \in Threads : InHand(u)' = InHand(u)
    BY DEF InHand, LeafOK, IsString, Shard
  <2> QED BY <1>0, <2>1, <2>2 DEF PostingInv, LeavesOK, WritersOK
<1> QED BY <1>0, <1>1, <1>2 DEF Next, Step, PostingInv

\* A posting never points past the end of the path lists of its shard: both
\* paths were put in the lists before the posting was pushed, and the lists
\* only grow.
THEOREM PostingsStayInRange == Spec => []PostingsInRange
<1>1. Init => LeavesOK /\ WritersOK
  BY DEF Init, LeavesOK, WritersOK, InHand, HasLeaf
<1>2. Spec => []PostingInv
  <2>1. Init => PostingInv
    <3>1. Init => LockInv /\ Fresh
      BY DEF Init, LockInv, Fresh, Writing, Reading
    <3> QED BY <1>1, <3>1, TypedInit DEF PostingInv, LockedInv
  <2> QED BY <2>1, PostingStep, PTL DEF Spec
<1>3. PostingInv => PostingsInRange
  BY Zenon DEF PostingInv, LeavesOK, LeafOK, LeafWithin, Within, PostingsInRange
<1> QED BY <1>2, <1>3, PTL
=============================================================================
