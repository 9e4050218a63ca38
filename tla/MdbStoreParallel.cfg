SPECIFICATION Spec
CONSTANTS
  r1 = r1  r2 = r2
  na = na  nb = nb
  fx = fx  fy = fy  ox = ox  oy = oy
  sa = sa  sb = sb
  NameOrder <- MCNameOrder
  StrOrder <- MCStrOrder
  ShardOf <- MCTwoShards
  Ints = {1, 2}
  Halves = {3}
  NoLeaf = NoLeaf  NoIndex = NoIndex  NULL = NULL  CutStr = CutStr  NoFile = NoFile  NoRank = NoRank
  Ranks = {r1}
  Parallelism = 2
  Attrs <- MCFewAttrs
  MaxPuts = 2
  MaxDumps = 2
  MaxTorn = 1
  MaxLoads = 2
SYMMETRY Symmetry
INVARIANTS DumpCanBeLoaded
CHECK_DEADLOCK FALSE
