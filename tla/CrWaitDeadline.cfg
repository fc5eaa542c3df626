CONSTANTS
  m = m  c1 = c1  c2 = c2  c3 = c3  b1 = b1  b2 = b2  b3 = b3
  Main = m
  NoCr = NoCr
  NoBundle = NoBundle
  Endpoints = {}
  Crs <- TwoChildren
  Bundles <- OneBundle
  Owners = {m}
  SleepDelays <- OneTick
  WaitDelays <- OneTick
  Foreign = FALSE
  PollPeriod = 1
  MaxTime = 2
SPECIFICATION Spec
INVARIANT WokenWasSuspended
