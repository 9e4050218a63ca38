------------------------------ MODULE HdfScan -------------------------------
(***************************************************************************)
(* The ranks scan a directory of HDF5 files: the walk over the directory   *)
(* (collect_dir), the division of the files among the ranks                *)
(* (parse_single_hdf5_file), the visit of the objects and attributes of a  *)
(* file (op_func, attr_info) and the callbacks that hand every attribute   *)
(* to the index and to the append-only file (on_attr, on_obj).             *)
(*                                                                         *)
(* The index itself is the subject of InMemIndex: here an indexed          *)
(* attribute is a member of puts, with the paths it is filed under.  Only  *)
(* the list of object paths is kept, because a NULL path in it ends the    *)
(* process at the next lookup.                                             *)
(***************************************************************************)
EXTENDS AofFile, FiniteSets

CONSTANTS
  Size,          \* number of MPI processes
  Specified,     \* indexed_attr: the names to index, {} for all
  Datasets,      \* [dirs: sorted entries, objs: content of the files, topk: how
                 \* many entries of a directory to look at, 0 for all]
  Root,          \* the directory that is scanned
  NoFile         \* no append-only file is written

Ranks == 0 .. Size - 1

ASSUME ScanAssumption == Size \in Nat \ {0}

VARIABLES
  data,      \* the dataset and topk; nobody writes to them
  state,     \* per rank: "walk", "object", "attr", "done", "dead"
  stack,     \* per rank: the frames of collect_dir, innermost first
  count,     \* per rank: current_file_count
  anchor,    \* per rank: file_path, obj_path and counters of index_anchor_t
  at,        \* per rank: the file, object and attribute being visited
  mdo,       \* per rank: the miqs_data_object_t being built
  objects,   \* per rank: object_linked_list of the collector
  objs,      \* per rank: object_paths_list of the index, as paths
  aof,       \* per rank: the fields of the append-only file, or NoFile
  puts,      \* history, per rank: attributes handed to the index
  parsed,    \* history, per rank: files given to parse_hdf5_file
  loaded     \* history, per rank: what load_aof handed to the index

walk == <<stack, count>>
visit == <<anchor, at, mdo, objects, objs, puts, parsed>>
vars == <<data, state, walk, visit, aof, loaded>>

\* scandir with is_hdf5 as filter; an unreadable directory has no entries.
is_hdf5(e) == e.kind \in {"dir", "h5"}
Frame(d) == [entries |-> SelectSeq(data.dirs[d], is_hdf5), v |-> 0, count |-> 0]

Nobody == [file |-> NULL, obj |-> 0, attr |-> 0]
Empty == [head |-> NULL, next |-> NULL, tail |-> NULL]

Init ==
  /\ data \in Datasets
  /\ state = [r \in Ranks |-> "walk"]
  /\ stack = [r \in Ranks |-> <<Frame(Root)>>]
  /\ count = [r \in Ranks |-> 0]
  /\ anchor = [r \in Ranks |-> [file |-> NULL, obj |-> NULL, files |-> 0,
                                 objects |-> 0, attrs |-> 0, kv |-> 0]]
  /\ at = [r \in Ranks |-> Nobody]
  /\ mdo = [r \in Ranks |-> NULL]
  /\ objects = [r \in Ranks |-> <<>>]
  /\ objs = [r \in Ranks |-> <<>>]
  /\ \E f \in {NoFile, <<>>} : aof = [r \in Ranks |-> f]
  /\ puts = [r \in Ranks |-> <<>>]
  /\ parsed = [r \in Ranks |-> <<>>]
  /\ loaded = [r \in Ranks |-> <<>>]

-----------------------------------------------------------------------------
(* The walk.  A frame of collect_dir is at entry v, the count-th it handles. *)

More(f) == f.v < Len(f.entries) /\ (data.topk > 0 => f.count < data.topk)
Advanced(f) == [f EXCEPT !.v = @ + 1, !.count = @ + 1]
Entry(r) == Head(stack[r]).entries[Head(stack[r]).v + 1]

Walking(r) == state[r] = "walk" /\ stack[r] # <<>>

\* collect_dir calls itself for a subdirectory.
collect_dir(r) ==
  /\ Walking(r) /\ More(Head(stack[r])) /\ Entry(r).kind = "dir"
  /\ stack' = [stack EXCEPT ![r] = <<Frame(Entry(r).name), Advanced(Head(@))>> \o Tail(@)]
  /\ UNCHANGED <<data, state, count, visit, aof, loaded>>

\* Variant: the file path of the anchor is left as it was.
parse_hdf5_file_KeepsPath(r, file) ==
  /\ anchor' = [anchor EXCEPT ![r].files = @ + 1]
  /\ objects' = [objects EXCEPT ![r] = <<>>]
  /\ at' = [at EXCEPT ![r] = [file |-> file, obj |-> 0, attr |-> 0]]
  /\ parsed' = [parsed EXCEPT ![r] = Append(@, file)]
  /\ state' = [state EXCEPT ![r] = "object"]
  /\ UNCHANGED <<mdo, objs, puts>>

\* parse_hdf5_file up to the visit of the first object, with a new collector.
parse_hdf5_file(r, file) ==
  /\ anchor' = [anchor EXCEPT ![r].file = file, ![r].files = @ + 1]
  /\ objects' = [objects EXCEPT ![r] = <<>>]
  /\ at' = [at EXCEPT ![r] = [file |-> file, obj |-> 0, attr |-> 0]]
  /\ parsed' = [parsed EXCEPT ![r] = Append(@, file)]
  /\ state' = [state EXCEPT ![r] = "object"]
  /\ UNCHANGED <<mdo, objs, puts>>

\* Variant: a file of another rank is not counted.
parse_single_hdf5_file_OwnOnly(r) ==
  /\ Walking(r) /\ More(Head(stack[r])) /\ Entry(r).kind = "h5"
  /\ stack' = [stack EXCEPT ![r] = <<Advanced(Head(@))>> \o Tail(@)]
  /\ IF (count[r] + 1) % Size # r THEN UNCHANGED <<count, state, visit>>
     ELSE count' = [count EXCEPT ![r] = @ + 1] /\ parse_hdf5_file(r, Entry(r).name)
  /\ UNCHANGED <<data, aof, loaded>>

\* on_file: the files are dealt out round-robin.
parse_single_hdf5_file(r) ==
  /\ Walking(r) /\ More(Head(stack[r])) /\ Entry(r).kind = "h5"
  /\ stack' = [stack EXCEPT ![r] = <<Advanced(Head(@))>> \o Tail(@)]
  /\ count' = [count EXCEPT ![r] = @ + 1]
  /\ IF count'[r] % Size # r THEN UNCHANGED <<state, visit>>
     ELSE parse_hdf5_file(r, Entry(r).name)
  /\ UNCHANGED <<data, aof, loaded>>

\* Variant: the end of the entries is not noticed.
collect_dir_return_Stuck(r) ==
  /\ Walking(r) /\ ~More(Head(stack[r]))
  /\ UNCHANGED vars

\* A frame is done; with the outermost one the scan is, and the file is closed.
collect_dir_return(r) ==
  /\ Walking(r) /\ ~More(Head(stack[r]))
  /\ stack' = [stack EXCEPT ![r] = Tail(@)]
  /\ state' = [state EXCEPT ![r] = IF Len(stack[r]) = 1 THEN "done" ELSE "walk"]
  /\ UNCHANGED <<data, count, visit, aof, loaded>>

-----------------------------------------------------------------------------
(* The visit of one file.                                                   *)

Content(r) == data.objs[at[r].file]
Object(r) == Content(r)[at[r].obj]
Attr(r) == Object(r).attrs[at[r].attr + 1]

\* H5Ovisit calls op_func for the next object; its attributes come first.  The
\* counters of the collector, which nothing reads, are left out.
op_func(r) ==
  /\ state[r] = "object" /\ at[r].obj < Len(Content(r))
  /\ at' = [at EXCEPT ![r].obj = @ + 1, ![r].attr = 0]
  /\ LET o == Content(r)[at[r].obj + 1] IN
     mdo' = [mdo EXCEPT ![r] = [name |-> o.name, num_attrs |-> Len(o.attrs), list |-> Empty]]
  /\ state' = [state EXCEPT ![r] = "attr"]
  /\ UNCHANGED <<data, walk, anchor, objects, objs, puts, parsed, aof, loaded>>

\* Both branches for a list that is not empty assign head->next.
Linked(list, a) ==
  IF list.head = NULL THEN [list EXCEPT !.head = a]
  ELSE [list EXCEPT !.next = a, !.tail = a]

is_specified_field(name) == Specified = {} \/ name \in Specified

\* A lookup in a list with a NULL path, or of a NULL path in a list that is
\* not empty, is strcmp with NULL.  Every value of an attribute is one lookup.
LookupDies(r, a) ==
  /\ a.type \in ToSet(TypeNames) /\ a.values # <<>>
  /\ \/ objs[r] # <<>> /\ objs[r][1] = NULL
     \/ anchor[r].obj = NULL /\ Len(a.values) > 1

\* The log of an attribute; without an object path it ends before that path.
Logged(r, a) ==
  LET fields == write_aof(a, anchor[r].file, anchor[r].obj)
  IN IF anchor[r].obj = NULL THEN SubSeq(fields, 1, 4) ELSE fields

LogDies(r, a) ==
  /\ aof[r] # NoFile /\ anchor[r].obj = NULL
  /\ a.type \in ToSet(TypeNames) /\ a.values # <<>>

\* What is left of a file whose last writes were still buffered.
Cut(file) ==
  IF file = NoFile THEN {NoFile}
  ELSE {file} \cup UNION {{SubSeq(file, 1, k) \o t : t \in Torn(file[k + 1])} :
                           k \in 0 .. Len(file) - 1}

Dies(r, file) ==
  /\ state' = [state EXCEPT ![r] = "dead"]
  /\ \E f \in Cut(file) : aof' = [aof EXCEPT ![r] = f]

\* create_in_mem_index_for_attr, as far as the object paths are concerned.
Filed(r, a) ==
  IF a.type \notin ToSet(TypeNames) \/ a.values = <<>> \/ anchor[r].obj \in ToSet(objs[r])
  THEN objs[r] ELSE Append(objs[r], anchor[r].obj)

\* on_attr and indexing_attr: the paths are those of the anchor.
indexing_attr(r, a) ==
  LET log == IF aof[r] = NoFile THEN NoFile ELSE aof[r] \o Logged(r, a) IN
  /\ puts' = [puts EXCEPT ![r] = Append(@, [attr |-> a, file |-> anchor[r].file,
                                           obj |-> anchor[r].obj, from |-> Object(r).name])]
  /\ anchor' = [anchor EXCEPT ![r].attrs = @ + 1, ![r].kv = @ + Len(a.values)]
  /\ IF LogDies(r, a) \/ LookupDies(r, a) THEN Dies(r, log) /\ UNCHANGED objs
     ELSE /\ aof' = [aof EXCEPT ![r] = log]
          /\ objs' = [objs EXCEPT ![r] = Filed(r, a)]
          /\ UNCHANGED state

\* H5Aiterate calls attr_info for the next attribute.
attr_info(r) ==
  /\ state[r] = "attr" /\ at[r].attr < Len(Object(r).attrs)
  /\ at' = [at EXCEPT ![r].attr = @ + 1]
  /\ mdo' = [mdo EXCEPT ![r].list = Linked(@, Attr(r)), ![r].num_attrs = @ + 1]
  /\ IF is_specified_field(Attr(r).name) THEN indexing_attr(r, Attr(r))
     ELSE /\ anchor' = [anchor EXCEPT ![r].attrs = @ + 1]
          /\ UNCHANGED <<state, objs, puts, aof>>
  /\ UNCHANGED <<data, walk, objects, parsed, loaded>>

\* The end of op_func: the object joins the list, then on_obj is called.
on_obj(r) ==
  /\ state[r] = "attr" /\ at[r].attr = Len(Object(r).attrs)
  /\ objects' = [objects EXCEPT ![r] = Append(@, mdo[r])]
  /\ anchor' = [anchor EXCEPT ![r].obj = mdo[r].name, ![r].objects = @ + 1]
  /\ state' = [state EXCEPT ![r] = "object"]
  /\ UNCHANGED <<data, walk, at, mdo, objs, puts, parsed, aof, loaded>>

\* scan_hdf5 and parse_hdf5_file return to the walk.
scan_hdf5_return(r) ==
  /\ state[r] = "object" /\ at[r].obj = Len(Content(r))
  /\ state' = [state EXCEPT ![r] = "walk"]
  /\ at' = [at EXCEPT ![r] = Nobody]
  /\ UNCHANGED <<data, walk, anchor, mdo, objects, objs, puts, parsed, aof, loaded>>

-----------------------------------------------------------------------------

killed(r) ==
  /\ state[r] \in {"walk", "object", "attr"}
  /\ Dies(r, aof[r])
  /\ UNCHANGED <<data, walk, visit, loaded>>

\* A new process loads the append-only file.  The uninitialised paths may end
\* it at any record.
load_aof_file(r) ==
  /\ state[r] \in {"done", "dead"} /\ aof[r] \notin {NoFile, <<>>}
  /\ LET records == load_aof(aof[r]).puts IN
     \E k \in 0 .. Len(records) : loaded' = [loaded EXCEPT ![r] = SubSeq(records, 1, k)]
  /\ state' = [state EXCEPT ![r] = "loaded"]
  /\ UNCHANGED <<data, walk, visit, aof>>

Step(r) ==
  \/ collect_dir(r) \/ parse_single_hdf5_file(r) \/ collect_dir_return(r)
  \/ op_func(r) \/ attr_info(r) \/ on_obj(r) \/ scan_hdf5_return(r)

Next == \E r \in Ranks : Step(r) \/ killed(r) \/ load_aof_file(r)

Spec == Init /\ [][Next]_vars

\* A rank that is not killed runs on.
FairSpec == Spec /\ \A r \in Ranks : WF_vars(Step(r))

-----------------------------------------------------------------------------
(* Reference definitions: what a dataset contains.                          *)

\* The files below d, looking at the first topk entries of every directory.
RECURSIVE FilesBelow(_)
FilesBelow(d) ==
  LET all == SelectSeq(data.dirs[d], is_hdf5)
      first == IF data.topk = 0 \/ Len(all) <= data.topk THEN all ELSE SubSeq(all, 1, data.topk)
  IN {e.name : e \in {x \in ToSet(first) : x.kind = "h5"}}
       \cup UNION {FilesBelow(e.name) : e \in {x \in ToSet(first) : x.kind = "dir"}}

\* The first m attributes of object i of a file.
SomeOf(file, i, m) ==
  LET o == data.objs[file][i]
  IN [j \in 1 .. m |-> [attr |-> o.attrs[j], file |-> file, from |-> o.name]]

\* All attributes of the first n objects.
AllOf(file, n) ==
  FlattenSeq([i \in 1 .. n |-> SomeOf(file, i, Len(data.objs[file][i].attrs))])

\* All that rank r has come across.
Seen(r) ==
  LET k == Len(parsed[r])
      inside == at[r].file # NULL
      full == IF inside THEN k - 1 ELSE k
      rest == IF ~inside \/ at[r].obj = 0 THEN <<>>
              ELSE AllOf(at[r].file, at[r].obj - 1) \o SomeOf(at[r].file, at[r].obj, at[r].attr)
  IN FlattenSeq([i \in 1 .. full |-> AllOf(parsed[r][i], Len(data.objs[parsed[r][i]]))]) \o rest

\* The values of the attributes handed to the index, one by one.
ValuesPut(r) ==
  LET Known(p) == p.attr.type \in ToSet(TypeNames)
      Values(a) == [j \in DOMAIN a.values |->
                      [name |-> a.name, type |-> a.type, data |-> a.values[j]]]
      known == SelectSeq(puts[r], Known)
  IN FlattenSeq([i \in DOMAIN known |-> Values(known[i].attr)])

-----------------------------------------------------------------------------

\* No file is parsed twice, by one rank or by two, and when all ranks are done
\* every file the walk reaches has been parsed: each rank counts the files of
\* all ranks in the same order (parse_single_hdf5_file).
FilesDividedOnce ==
  /\ \A r \in Ranks : Len(parsed[r]) = Cardinality(ToSet(parsed[r]))
  /\ \A r, q \in Ranks : r # q => ToSet(parsed[r]) \cap ToSet(parsed[q]) = {}
  /\ (\A r \in Ranks : state[r] = "done") =>
       UNION {ToSet(parsed[r]) : r \in Ranks} = FilesBelow(Root)

\* At any point of the scan the index has been given every specified attribute
\* the rank has come across, once, in order and under the file that holds it;
\* the counter of the anchor counts all of them, the object list of the
\* collector holds the finished objects of the current file.
ScanIsComplete ==
  \A r \in Ranks :
    LET Specified1(x) == is_specified_field(x.attr.name)
        Plain(p) == [attr |-> p.attr, file |-> p.file, from |-> p.from]
    IN /\ [i \in DOMAIN puts[r] |-> Plain(puts[r][i])] = SelectSeq(Seen(r), Specified1)
       /\ anchor[r].attrs = Len(Seen(r))
       /\ state[r] = "object" =>
            [i \in DOMAIN objects[r] |-> objects[r][i].name]
              = [i \in 1 .. at[r].obj |-> Content(r)[i].name]

\* Whenever a rank is killed, what is loaded from its append-only file is the
\* beginning of what it had indexed: same names, types and numbers in the same
\* order; only the number of the very last record may be another one.
LoadedIsLogged ==
  \A r \in Ranks :
    LET n == Len(loaded[r])
    IN /\ n <= Len(ValuesPut(r))
       /\ \A j \in 1 .. n :
            LET new == loaded[r][j]
                old == ValuesPut(r)[j]
            IN /\ new.name = old.name /\ TypeNames[new.type] = old.type
               /\ j < n /\ new.type # 3 => new.data = old.data

\* Every rank that is not killed comes to the end of the directory.
RanksFinish == \A r \in Ranks : <>(state[r] \in {"done", "dead", "loaded"})

\* "containing a list of <file_path, obj_path> entries" (miqs_querying.h:21):
\* an attribute is filed under the object that carries it.
FiledUnderItsObject ==
  \A r \in Ranks : \A i \in DOMAIN puts[r] : puts[r][i].obj = puts[r][i].from
=============================================================================
