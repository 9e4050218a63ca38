---------------------------- MODULE SparseArray ----------------------------
(***************************************************************************)
(* The sparse array (sparse_array.c): every position holds a list of the   *)
(* elements set there.  Positions are natural numbers: what the casters of *)
(* keys (idx_caster) make of a key is the position itself.                 *)
(***************************************************************************)
EXTENDS Integers, Sequences, SequencesExt

CONSTANTS NULL, SPA_SIZE_MIN, InitialSize, MaxSize, Positions, Data

VARIABLES spa,   \* array, size, count
          ret    \* the return code of the last call

create_sparse_array ==
  LET size == IF InitialSize > SPA_SIZE_MIN THEN InitialSize ELSE SPA_SIZE_MIN
  IN  spa = [array |-> [p \in 0 .. size - 1 |-> << >>], size |-> size, count |-> 0] /\ ret = 0

\* The array up to pos, new positions empty.
Grown(pos) ==
  IF pos < spa.size THEN spa.array
  ELSE [p \in 0 .. pos |-> IF p < spa.size THEN spa.array[p] ELSE << >>]

set_element_to_sparse_array(pos, d) ==
  IF pos >= spa.size /\ MaxSize > 0 /\ pos >= MaxSize
  THEN UNCHANGED spa /\ ret' = -1
  ELSE /\ spa' = [array |-> [Grown(pos) EXCEPT ![pos] = Append(@, d)],
                  size |-> IF pos >= spa.size THEN pos + 1 ELSE spa.size,
                  count |-> spa.count + 1]
       /\ ret' = 0

get_element_in_sparse_array(pos) ==
  IF pos >= spa.size \/ spa.array[pos] = << >> THEN NULL ELSE spa.array[pos]

\* The positions spa_foreach_elements calls back for: a range that is empty or
\* leaves the array stands for the whole of it.
spa_foreach_elements(a, b) ==
  LET all == a >= spa.size \/ b >= spa.size \/ a >= b
  IN  {p \in (IF all THEN 0 .. spa.size - 1 ELSE a .. b - 1) : spa.array[p] # << >>}
=============================================================================
