------------------------------ MODULE AofFile -------------------------------
(***************************************************************************)
(* The append-only file: one record per attribute value, written before    *)
(* the value is indexed (write_aof) and read back record by record         *)
(* (load_aof); src/index/in_mem_index.c and src/index/on_disk_index.c.     *)
(***************************************************************************)
EXTENDS BinFile, SequencesExt

CONSTANTS
  PtrStr,        \* the bytes of a char pointer, up to the first zero, as a string
  Garbage        \* what an uninitialised or dangling pointer leads to

\* MIQS_AT_UNKNOWN is 0, the other types are the positions here.
TypeNames == <<"integer", "float", "string">>

create_index_record(type, name, data, file, obj) ==
  [type |-> type, name |-> name, data |-> data, file |-> file, obj |-> obj]

append_index_record(ir) ==
  LET value == CASE ir.type = 1 -> miqs_append_int(ir.data)
                 [] ir.type = 2 -> miqs_append_double(ir.data)
                 [] ir.type = 3 -> miqs_append_string(ir.data)
  IN miqs_append_int(ir.type) \o miqs_append_string(ir.name) \o value
       \o miqs_append_string(ir.file) \o miqs_append_string(ir.obj)

\* Variant: only the first value of an array is logged.
write_aof_First(a, file, obj) ==
  LET type == CHOOSE t \in DOMAIN TypeNames : TypeNames[t] = a.type
  IN IF a.type \notin ToSet(TypeNames) THEN <<>>
     ELSE append_index_record(create_index_record(type, a.name,
            IF type = 3 THEN PtrStr ELSE a.values[1], file, obj))

\* For a string the address of the array element is passed as the string.
write_aof(a, file, obj) ==
  LET type == CHOOSE t \in DOMAIN TypeNames : TypeNames[t] = a.type
      record(v) == create_index_record(type, a.name, IF type = 3 THEN PtrStr ELSE v, file, obj)
  IN IF a.type \notin ToSet(TypeNames) THEN <<>>
     ELSE FlattenSeq([j \in DOMAIN a.values |-> append_index_record(record(a.values[j]))])

DataOf(c, type, k) ==
  CASE type = 1 -> Value(c, "int", k)
    [] type = 2 -> Value(c, "double", k)
    [] type = 3 -> Value(c, "string", k)
    [] OTHER -> NULL

\* NULL at the end of the file.
read_index_record(c) ==
  LET type == Value(c, "int", 1)
  IN IF type = NULL THEN NULL
     ELSE create_index_record(type, Value(c, "string", 2), DataOf(c, type, 3),
                              Value(c, "string", 4), Value(c, "string", 5))

\* convert_index_record_to_in_mem_parameters: the paths of the attribute are
\* not set, and a string is reached through a pointer to a dead local.
Converted(ir) ==
  [name |-> ir.name, type |-> ir.type, data |-> IF ir.type = 3 THEN Garbage ELSE ir.data,
   file |-> Garbage, obj |-> Garbage]

\* One turn of the loop of load_aof; indexing without a name or a value is a
\* dereference of NULL.
LoadOne(c) ==
  LET ir == read_index_record(c)
  IN CASE c.dead \/ ir = NULL -> c
       [] ~c.dead /\ ir # NULL /\ (ir.name = NULL \/ ir.data = NULL) -> [c EXCEPT !.dead = TRUE]
       [] OTHER -> [Past(c, 5) EXCEPT !.puts = Append(@, Converted(ir))]

load_aof(file) ==
  FoldLeft(LAMBDA c, j : LoadOne(c), [rest |-> file, puts |-> <<>>, dead |-> FALSE], file)
=============================================================================
