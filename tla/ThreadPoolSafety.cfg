SPECIFICATION Spec
CONSTANTS
  w1 = w1  w2 = w2
  p1 = p1
  c1 = c1  c2 = c2
  j1 = j1  j2 = j2  j3 = j3
  Pools = {p1}
  Workers = {w1, w2}
  PoolOf <- MCOnePoolOf
  Clients = {c1, c2}
  Jobs = {j1, j2}
  Calls = {"wait", "pause", "destroy"}
  NoOne = NoOne
  NoJob = NoJob
SYMMETRY Symmetry
INVARIANTS TypeOK JobsRunAtMostOnce NoJobLost NoLostWakeup DestroyAfterLoops
PROPERTIES WaitCoversEarlierJobs
CHECK_DEADLOCK FALSE
