SPECIFICATION Spec
CONSTANTS
  NULL = NULL
  DANGLING = DANGLING
  MAX_PREFIX_LEN = 2
  Capacity4 = 3
  Capacity16 = 4
  Capacity48 = 5
  MaxTreeKey = 7
  MaxAvlNodes = 7
  NumLayers = 3
  MaxSklKey = 4
  MaxElements = 4
  MaxArray = 5
  FREED = FREED
  MaxLen = 4
  MaxPlaced = 3
  ListVals = {1, 2}
  RbufSize = 3
  ByteVals = {1, 2}
  MINLEN = 2
  FASTGROWSIZE = 4
  SLOWGROWSIZE = 2
  LINE_EST = 2
  Maxlen = 7
  NumItems = 5
  PqSize = 4
INVARIANTS LookupsAgree WalksExact CountersExact RedBlack AvlBalanced NoWaste CursorInStep SequencesAgree  HeapOrdered
CHECK_DEADLOCK FALSE
