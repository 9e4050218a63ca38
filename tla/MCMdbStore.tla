----------------------------- MODULE MCMdbStore -----------------------------
(***************************************************************************)
(* Small instances of the store: two ranks with attributes that share some *)
(* names and paths, one name with numbers and strings.                     *)
(***************************************************************************)
EXTENDS MdbStore

CONSTANTS r1, r2, na, nb, fx, fy, ox, oy, sa, sb

Attr(n, type, values, f, o) ==
  [name |-> n, type |-> type, values |-> values, file |-> f, obj |-> o]

MCNameOrder == <<na, nb>>
MCStrOrder == <<sa, sb>>
MCOneShard == [n \in {na, nb} |-> 0]
MCTwoShards == [n \in {na, nb} |-> IF n = na THEN 0 ELSE 1]

MCAttrs == {Attr(na, "integer", <<2, 1>>, fx, ox), Attr(na, "string", <<sa>>, fy, oy),
            Attr(nb, "float", <<3>>, fx, oy)}
MCFewAttrs == {Attr(na, "integer", <<1>>, fx, ox), Attr(nb, "integer", <<2>>, fx, ox)}

Symmetry == Permutations(Ranks)
=============================================================================
