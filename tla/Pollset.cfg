CONSTANTS
  m = m  c1 = c1  c2 = c2  b1 = b1  f1 = f1  f2 = f2
  Main = m
  NoCr = NoCr
  NoBundle = NoBundle
  Endpoints <- FdEndpoints
  Crs <- TwoChildren
  Bundles <- OneBundle
  Owners = {m}
  SleepDelays = {}
  WaitDelays = {}
  Foreign = FALSE
  PollPeriod = 0
  MaxTime = 1
  Fds = {f1, f2}
  FdDelays <- NeverOrOne
SPECIFICATION PollsetSpec
SYMMETRY Sym
INVARIANTS EpollSound PollSound
CHECK_DEADLOCK FALSE
