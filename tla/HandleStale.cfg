CONSTANTS
  o1 = o1  o2 = o2  o3 = o3  o4 = o4  t1 = t1  t2 = t2
  NoObj = NoObj
  NoType = NoType
  Objs = {o1, o2, o3, o4}
  Types = {t1}
  InitSize = 2
  Reserve = 1
  MaxHandles = 8
  SlowClose = {o1}
  Moves = TRUE
SPECIFICATION Spec
INVARIANT UsedMeansInUse
