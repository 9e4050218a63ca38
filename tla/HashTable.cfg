SPECIFICATION Spec
CONSTANTS
  t1 = t1
  t2 = t2
  NULL = NULL
  Threads = {t1, t2}
  Keys = {0, 1, 2}
  Vals = {1, 2}
  Args = {1}
  Picked = {0}
  hash <- KeyItself
  Presets <- PresetKeys
  HT_SIZE_MIN = 2
  max_size = 4
  MaxCalls = 2
SYMMETRY Symmetry
INVARIANTS ListsAlive AllReachable Placed
