SPECIFICATION FairSpec
CONSTANTS
  w1 = w1  w2 = w2
  p1 = p1
  c1 = c1  c2 = c2
  j1 = j1  j2 = j2  j3 = j3
  Pools = {p1}
  Workers = {w1}
  PoolOf <- MCOnePoolOf
  Clients = {c1, c2}
  Jobs = {j1}
  Calls = {"wait"}
  NoOne = NoOne
  NoJob = NoJob
PROPERTIES WaitReturns
CHECK_DEADLOCK FALSE
