---------------------------- MODULE MCInMemIndex ----------------------------
(***************************************************************************)
(* Small instances of the in-memory index: names in two shards, and        *)
(* sets of attributes that share names, values and paths.                  *)
(***************************************************************************)
EXTENDS InMemIndex, TLC

CONSTANTS t1, t2, t3, na, nb, nm, fx, fy, ox, oy, sa, sb

Attr(n, type, values, f, o) ==
  [name |-> n, type |-> type, values |-> values, file |-> f, obj |-> o]
Query(n, type, v) == [name |-> n, type |-> type, value |-> v]

\* na and nb in one shard, nm in another one.
MCShardOf == [n \in Names |-> IF n = nm THEN 1 ELSE 0]

MCIntAttrs == {Attr(na, "integer", <<1, 1>>, fx, ox), Attr(na, "integer", <<1, 2>>, fy, ox),
               Attr(nb, "integer", <<1>>, fy, oy), Attr(nm, "integer", <<2>>, fx, oy)}
MCIntQueries == {Query(na, "integer", 1), Query(nb, "integer", 1)}

\* nm is used with every type, na and nb with one.
MCMixedAttrs == {Attr(na, "integer", <<1>>, fx, ox), Attr(nb, "float", <<2, 3>>, fx, ox),
                 Attr(nm, "integer", <<2>>, fx, oy), Attr(nm, "float", <<3>>, fy, oy),
                 Attr(nm, "string", <<sa, sb>>, fy, ox), Attr(nm, "unknown", <<sa>>, fy, ox)}
MCMixedQueries == {Query(na, "integer", 1), Query(nb, "float", 3),
                   Query(nm, "string", sa), Query(nm, "integer", 2)}

Symmetry == Permutations(Threads)
=============================================================================
