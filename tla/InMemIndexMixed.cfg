SPECIFICATION FairSpec
CONSTANTS
  t1 = t1  t2 = t2  t3 = t3
  na = na  nb = nb  nm = nm
  fx = fx  fy = fy  ox = ox  oy = oy
  sa = sa  sb = sb
  Names = {na, nb, nm}
  Files = {fx, fy}  Objs = {ox, oy}
  Strs = {sa, sb}
  Ints = {1, 2}
  Halves = {2, 3}
  NoThread = NoThread  NoLeaf = NoLeaf  NoNode = NoNode  NoOp = NoOp
  Threads = {t1, t2}
  Parallelism = 2
  ShardOf <- MCShardOf
  Attrs <- MCMixedAttrs
  Queries <- MCMixedQueries
  MaxCalls = 3
INVARIANTS TypeOK PostingsInRange
PROPERTIES CallsEnd
CHECK_DEADLOCK FALSE
