----------------------------- MODULE Dictionary -----------------------------
(***************************************************************************)
(* What the sequential maps of the repository promise: a finite map from   *)
(* keys to values.  out is what the last call returned, the value that was *)
(* there before the call or None.                                          *)
(***************************************************************************)
EXTENDS Integers, Sequences, FiniteSets, SequencesExt

CONSTANT None
VARIABLES dict, out

\* The value under a key.
Lookup(k) == IF k \in DOMAIN dict THEN dict[k] ELSE None

Insert(k, v) ==
  /\ dict' = [x \in DOMAIN dict \cup {k} |-> IF x = k THEN v ELSE dict[x]]
  /\ out' = Lookup(k)

Delete(k) ==
  /\ dict' = [x \in DOMAIN dict \ {k} |-> dict[x]]
  /\ out' = Lookup(k)

\* Which keys a scan with a prefix, or with a half-open range, visits.
WithPrefix(p) == {k \in DOMAIN dict : IsPrefix(p, k)}
Between(a, b) == {k \in DOMAIN dict : a <= k /\ k < b}
=============================================================================
