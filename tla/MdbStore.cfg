SPECIFICATION Spec
CONSTANTS
  r1 = r1  r2 = r2
  na = na  nb = nb
  fx = fx  fy = fy  ox = ox  oy = oy
  sa = sa  sb = sb
  NameOrder <- MCNameOrder
  StrOrder <- MCStrOrder
  ShardOf <- MCOneShard
  Ints = {1, 2}
  Halves = {3}
  NoLeaf = NoLeaf  NoIndex = NoIndex  NULL = NULL  CutStr = CutStr  NoFile = NoFile  NoRank = NoRank
  Ranks = {r1, r2}
  Parallelism = 1
  Attrs <- MCAttrs
  MaxPuts = 3
  MaxDumps = 2
  MaxTorn = 1
  MaxLoads = 2
SYMMETRY Symmetry
INVARIANTS PostingsInRange
PROPERTIES RecoveryIsFaithful TornFileInventsNothing MergeServesTheFile
CHECK_DEADLOCK FALSE
