----------------------------- MODULE Containers -----------------------------
(***************************************************************************)
(* What the instances of the sequential containers share: one container is *)
(* chosen at the start, and every call is made on it and on the value that *)
(* it stands for.                                                          *)
(***************************************************************************)
EXTENDS Integers, Sequences, FiniteSets, SequencesExt

CONSTANT NULL

VARIABLES which,   \* the container
          s,       \* its structure
          ret,     \* what the last call returned
          ref,     \* the dictionary or the sequence it stands for
          out      \* what the last call should have returned

vars == <<which, s, ret, ref, out>>
=============================================================================
