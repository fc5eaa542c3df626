CONSTANTS
  o1 = o1  o2 = o2  o3 = o3  o4 = o4  ty1 = ty1  ty2 = ty2
  NoObj = NoObj  NoType = NoType  Objs = {o1, o2, o3}  Types = {ty1, ty2}
  InitSize = 2  Reserve = 1  MaxHandles = 4  SlowClose = {o1}  Moves = FALSE
  i1 = i1  i2 = i2  i3 = i3  i4 = i4  i5 = i5  i6 = i6
  root = root  nil = nil  Items = {i1, i2, i3, i4, i5, i6}  Vals = {1, 2}
  s1 = s1  s2 = s2  s3 = s3  s4 = s4  th1 = th1  th2 = th2
  Stacks = {s1, s2, s3, s4}  MainStack = MainStack  MaxCached = 2
  Window = 4  Speed = 2  Skews <- SkewSet  MaxCycles = 12
  MainThread = th1  Threads = {th1, th2}  MaxHandlers = 2
SPECIFICATION ContextSpec
INVARIANTS TableSound UsedMeansInUse Balanced StacksSafe ContextsDestroyedOnce
PROPERTIES ImplementsQueue TimeSane
CHECK_DEADLOCK FALSE
