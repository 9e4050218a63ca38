------------------------------ MODULE MdbStore ------------------------------
(***************************************************************************)
(* Processes that persist their index in MDB files and load files of their *)
(* own and of other ranks (dump_mdb_index_to_disk, load_mdb).  A process   *)
(* may be killed at any time, also during a dump: the file then ends after *)
(* any field or inside one.                                                *)
(*                                                                         *)
(* The ranks share nothing but the files, and MPI_Barrier keeps a rank     *)
(* from reading a file that another one is writing; so it is enough to run *)
(* one process after the other, in any order and any number of times.      *)
(***************************************************************************)
EXTENDS MdbFile

CONSTANTS
  Ranks,
  Parallelism,
  Attrs,         \* attributes that may be indexed
  NoFile, NoRank,
  MaxPuts,       \* bound on the attributes indexed
  MaxDumps,      \* bound on the dumps
  MaxTorn,       \* bound on the dumps that are cut short
  MaxLoads       \* bound on the files loaded by one process

ASSUME StoreAssumption ==
  /\ Parallelism \in Nat \ {0}
  /\ ShardOf \in [Names -> 0 .. Parallelism - 1]
  /\ {MaxPuts, MaxDumps, MaxTorn, MaxLoads} \subseteq Nat
  /\ NoRank \notin Ranks
  \* Counts and positions below 256 occupy the first byte of their field.
  /\ \A a \in Attrs : a.name \in Names /\ Len(a.values) * MaxPuts < 256

VARIABLES
  up,        \* the rank whose process runs, or NoRank
  mem,       \* its root_index_anchor, or NoIndex
  disk,      \* per rank: the fields of index_miqs_<rank>.mdb, or NoFile
  puts, loads, dumps, torn,
  source,    \* history, per rank: the index disk[rank] was dumped from
  whole      \* history, per rank: the dump was not cut short

files == <<disk, source, whole>>
counts == <<puts, dumps, torn>>
vars == <<up, mem, loads, counts, files>>

Init ==
  /\ up = NoRank
  /\ mem = NoIndex
  /\ disk = [r \in Ranks |-> NoFile]
  /\ puts = 0
  /\ loads = 0
  /\ dumps = 0
  /\ torn = 0
  /\ source = [r \in Ranks |-> NoIndex]
  /\ whole = [r \in Ranks |-> FALSE]

start(r) ==
  /\ up = NoRank
  /\ up' = r
  /\ UNCHANGED <<mem, loads, counts, files>>

Ended ==
  /\ up' = NoRank
  /\ mem' = NoIndex
  /\ loads' = 0

\* The process returns from main or is killed.
ended ==
  /\ up # NoRank
  /\ Ended
  /\ UNCHANGED <<counts, files>>

init_in_mem_index ==
  /\ up # NoRank /\ mem = NoIndex
  /\ mem' = NewIndex(Parallelism)
  /\ UNCHANGED <<up, loads, counts, files>>

\* indexing_data_collection indexes and dumps before it loads any file, and
\* recovering_index only loads.
Building == mem # NoIndex /\ loads = 0

create_in_mem_index_for_attr(a) ==
  /\ Building
  /\ puts < MaxPuts
  /\ puts' = puts + 1
  /\ mem' = Put(mem, a)
  /\ UNCHANGED <<up, loads, dumps, torn, files>>

dump_mdb_index_to_disk ==
  /\ Building
  /\ dumps < MaxDumps
  /\ dumps' = dumps + 1
  /\ disk' = [disk EXCEPT ![up] = Dumped(mem)]
  /\ source' = [source EXCEPT ![up] = mem]
  /\ whole' = [whole EXCEPT ![up] = TRUE]
  /\ UNCHANGED <<up, mem, puts, loads, torn>>

\* Variant: the old content is overwritten in place.
killed_in_dump_InPlace ==
  /\ Building
  /\ dumps < MaxDumps /\ torn < MaxTorn
  /\ dumps' = dumps + 1
  /\ torn' = torn + 1
  /\ LET fields == Dumped(mem)
         old == IF disk[up] = NoFile THEN <<>> ELSE disk[up] IN
     \E k \in 0 .. Len(fields) - 1 :
       disk' = [disk EXCEPT ![up] = SubSeq(fields, 1, k) \o SubSeq(old, k + 1, Len(old))]
  /\ source' = [source EXCEPT ![up] = mem]
  /\ whole' = [whole EXCEPT ![up] = FALSE]
  /\ Ended
  /\ UNCHANGED puts

\* fopen with "w" has dropped the old content.
killed_in_dump ==
  /\ Building
  /\ dumps < MaxDumps /\ torn < MaxTorn
  /\ dumps' = dumps + 1
  /\ torn' = torn + 1
  /\ LET fields == Dumped(mem) IN
     \E k \in 0 .. Len(fields) - 1 : \E tail \in Torn(fields[k + 1]) :
       disk' = [disk EXCEPT ![up] = SubSeq(fields, 1, k) \o tail]
  /\ source' = [source EXCEPT ![up] = mem]
  /\ whole' = [whole EXCEPT ![up] = FALSE]
  /\ Ended
  /\ UNCHANGED puts

\* load_mdb of the file of rank q; nothing happens when it is missing or empty.
load_mdb(q) ==
  /\ up # NoRank
  /\ loads < MaxLoads
  /\ disk[q] \notin {NoFile, <<>>}
  /\ LET c == Loaded(disk[q], mem) IN
     IF c.dead THEN Ended
     ELSE mem' = c.idx /\ loads' = loads + 1 /\ UNCHANGED up
  /\ UNCHANGED <<counts, files>>

Next ==
  \/ \E r \in Ranks : start(r) \/ load_mdb(r)
  \/ init_in_mem_index \/ ended
  \/ \E a \in Attrs : create_in_mem_index_for_attr(a)
  \/ dump_mdb_index_to_disk \/ killed_in_dump

Spec == Init /\ [][Next]_vars

-----------------------------------------------------------------------------
(* What a search finds: the paths of a posting list.                        *)

PathAt(paths, pos) == IF pos < Len(paths) THEN TagAt(paths, pos) ELSE NULL

Resolved(idx, list) ==
  [j \in DOMAIN list |-> <<PathAt(idx.files[list[j].shard], list[j].file),
                           PathAt(idx.objs[list[j].shard], list[j].obj)>>]

Answers(idx, n) ==
  IF idx.tree[n] = NoLeaf THEN NoLeaf
  ELSE LET leaf == idx.tree[n] IN
       [num |-> [k \in DOMAIN leaf.num |-> Resolved(idx, leaf.num[k])],
        str |-> [k \in DOMAIN leaf.str |-> Resolved(idx, leaf.str[k])]]

\* What of them a dump keeps: a leaf with strings loses its numbers.
Kept(idx, n) ==
  IF idx.tree[n] # NoLeaf /\ ~idx.tree[n].isNumeric
  THEN [Answers(idx, n) EXCEPT !.num = <<>>] ELSE Answers(idx, n)

\* A step that loads the file of rank q and survives it.
LoadStep(q) ==
  /\ loads' = loads + 1
  /\ disk[q] # NoFile
  /\ mem' = Loaded(disk[q], mem).idx

\* A process that starts from a complete file answers every search as the
\* process that dumped it did, up to the numbers of names that also carry
\* strings (append_attr_name_node).
RecoveryIsFaithful ==
  [][\A q \in Ranks :
       mem = NoIndex /\ LoadStep(q) /\ whole[q] =>
         \A n \in Names : Answers(mem', n) = Kept(source[q], n)]_vars

\* A file cut short either ends the process that loads it or gives it less
\* than was dumped, never more: no name, no value and no file that was not
\* there; only the object of the very last posting may be another one.
TornFileInventsNothing ==
  [][\A q \in Ranks :
       mem = NoIndex /\ LoadStep(q) =>
         \A n \in Names : mem'.tree[n] # NoLeaf =>
           LET new == Answers(mem', n)
               old == Kept(source[q], n)
               Less(f, g) ==
                 \A k \in DOMAIN f :
                   /\ k \in DOMAIN g
                   /\ \/ f[k] = <<>>
                      \/ Len(f[k]) = Len(g[k]) /\ \A j \in DOMAIN f[k] :
                           /\ f[k][j][1] = g[k][j][1]
                           /\ j < Len(f[k]) => f[k][j] = g[k][j]
           IN old # NoLeaf /\ Less(new.num, old.num) /\ Less(new.str, old.str)]_vars

\* Loading the file of another rank into an index that is in use serves the
\* names of that file exactly as the other rank served them: its path lists
\* go in front, so its positions stay right.  (A torn file may have left an
\* index without shards, parallelism 0, that no search can use.)
MergeServesTheFile ==
  [][\A q \in Ranks :
       mem # NoIndex /\ mem.parallelism > 0 /\ LoadStep(q) /\ whole[q] =>
         \A n \in Names : source[q].tree[n] # NoLeaf =>
           Answers(mem', n) = Kept(source[q], n)]_vars

\* Whatever is loaded and merged in whatever order, every posting points into
\* the path lists of the process.
PostingsInRange ==
  mem # NoIndex =>
    \A n \in Names : mem.tree[n] # NoLeaf =>
      LET leaf == mem.tree[n]
          InRange(list) == \A j \in DOMAIN list :
            /\ list[j].file < Len(mem.files[list[j].shard])
            /\ list[j].obj < Len(mem.objs[list[j].shard])
      IN /\ \A k \in DOMAIN leaf.num : InRange(leaf.num[k])
         /\ \A k \in DOMAIN leaf.str : InRange(leaf.str[k])

\* "|parallism|file_list_region|object_list_region|attribute region|...<repeat>|"
\* (in_mem_index.c:276): a file dumped in full can be loaded again.
DumpCanBeLoaded ==
  \A q \in Ranks : whole[q] => ~Loaded(disk[q], NoIndex).dead
=============================================================================
