SPECIFICATION Spec
CONSTANTS
  top = top  sub = sub  f1 = f1  f2 = f2  f3 = f3  txt = txt
  dot = dot  oa = oa  ob = ob  na = na  nb = nb  nc = nc  sa = sa
  NULL = NULL  CutStr = CutStr  PtrStr = PtrStr  Garbage = Garbage  NoFile = NoFile
  Size = 2
  Specified <- MCSpecified
  Datasets <- MCDatasets
  Root = top
INVARIANTS FiledUnderItsObject
CHECK_DEADLOCK FALSE
