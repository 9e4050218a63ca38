SPECIFICATION Spec
CONSTANTS
  Readers = {r1}
  Writers = {w1, w2}
  Size = 2
  MaxRetries = 2
  MaxWrites = 4
  MaxReads = 3
  Nil = Nil
SYMMETRY Symmetry
INVARIANTS RingIntact ReadInOrder NothingLost
CHECK_DEADLOCK FALSE
