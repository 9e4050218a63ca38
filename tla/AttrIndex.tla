----------------------------- MODULE AttrIndex ------------------------------
(***************************************************************************)
(* What the in-memory index promises for attributes that always carry      *)
(* integer values: a map from a name and a value to the <file, object>     *)
(* pairs that have it, in the order they were indexed.  An attribute is    *)
(* put as a whole, with all its values; a search answers from one state.   *)
(***************************************************************************)
EXTENDS Integers, Sequences

CONSTANTS
  Callers,   \* threads of the process
  Names,     \* attribute names of integer type
  Values,
  Attrs      \* attributes that may be put: name, values, file, obj

VARIABLES
  store,     \* name, value -> sequence of <<file, obj>>
  answer     \* per caller: the last search and what it returned

vars == <<store, answer>>

Occurrences(a, v) == SelectSeq(a.values, LAMBDA x : x = v)

Init ==
  /\ store = [n \in Names |-> [v \in Values |-> <<>>]]
  /\ answer = [t \in Callers |-> <<>>]

Put(a) ==
  /\ a.name \in Names
  /\ store' = [store EXCEPT ![a.name] = [v \in Values |->
                 @[v] \o [i \in 1 .. Len(Occurrences(a, v)) |-> <<a.file, a.obj>>]]]
  /\ UNCHANGED answer

Search(t, n, v) ==
  /\ answer' = [answer EXCEPT ![t] = <<n, v, store[n][v]>>]
  /\ UNCHANGED store

Next ==
  \/ \E a \in Attrs : Put(a)
  \/ \E t \in Callers, n \in Names, v \in Values : Search(t, n, v)

Spec == Init /\ [][Next]_vars
=============================================================================
