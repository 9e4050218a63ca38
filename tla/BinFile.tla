------------------------------ MODULE BinFile -------------------------------
(***************************************************************************)
(* The binary files of the index (src/index/storage/bin_file_ops.c) as     *)
(* sequences of fields: a type tag with data of that type.  A cursor is a  *)
(* record whose component rest is what has not been read yet.              *)
(***************************************************************************)
EXTENDS Integers, Sequences

CONSTANTS
  NULL,
  CutStr         \* a string that lost its end

Field(type, data) == <<[type |-> type, data |-> data]>>
miqs_append_int(n) == Field("int", n)
miqs_append_double(h) == Field("double", h)
miqs_append_string(s) == Field("string", s)
miqs_append_uint64(n) == Field("uint64", n)
miqs_append_size_t(n) == Field("size_t", n)

\* The result of a typed reader: a field of the wrong type gives NULL too.
Value(c, type, k) ==
  IF k <= Len(c.rest) /\ c.rest[k].type = type THEN c.rest[k].data ELSE NULL

\* The cursor behind k fields, read or skipped; at the end of the file it stays there.
Past(c, k) == [c EXCEPT !.rest = SubSeq(@, k + 1, Len(@))]

\* What the readers make of a last field that lost its last bytes: nothing, or
\* the calloc'd zeroes.
Torn(f) ==
  {<<>>, Field(f.type, CASE f.type = "string" -> CutStr [] OTHER -> 0)}
=============================================================================
