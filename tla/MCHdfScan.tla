----------------------------- MODULE MCHdfScan ------------------------------
(***************************************************************************)
(* Three datasets for two ranks: one with files in a subdirectory, between *)
(* entries that are not HDF5 files, and attributes of all types; one whose *)
(* first object carries an attribute; one cut by topk.                     *)
(***************************************************************************)
EXTENDS HdfScan

CONSTANTS top, sub, f1, f2, f3, txt, dot, oa, ob, na, nb, nc, sa

E(kind, name) == [kind |-> kind, name |-> name]
A(name, type, values) == [name |-> name, type |-> type, values |-> values]
O(name, attrs) == [name |-> name, attrs |-> attrs]

Tree ==
  [topk |-> 0,
   dirs |-> (top :> <<E("h5", f1), E("other", txt), E("dir", sub), E("h5", f3)>>)
              @@ (sub :> <<E("h5", f2)>>),
   objs |-> (f1 :> <<O(dot, <<>>), O(oa, <<A(na, "integer", <<1, 2>>), A(nc, "float", <<3>>)>>)>>)
              @@ (f2 :> <<O(dot, <<>>), O(ob, <<A(nb, "string", <<sa>>)>>)>>)
              @@ (f3 :> <<O(dot, <<A(nb, "unknown", <<>>), A(nb, "integer", <<2>>)>>)>>)]

RootAttr ==
  [topk |-> 0,
   dirs |-> (top :> <<E("h5", f1), E("h5", f2)>>),
   objs |-> (f1 :> <<O(dot, <<A(na, "integer", <<1>>)>>), O(oa, <<A(nb, "integer", <<2>>)>>)>>)
              @@ (f2 :> <<O(dot, <<A(na, "integer", <<1>>)>>)>>)]

FirstOnly ==
  [topk |-> 1,
   dirs |-> (top :> <<E("dir", sub), E("h5", f3)>>) @@ (sub :> <<E("h5", f1), E("h5", f2)>>),
   objs |-> Tree.objs]

MCDatasets == {Tree, RootAttr, FirstOnly}
MCSpecified == {na, nb}
=============================================================================
