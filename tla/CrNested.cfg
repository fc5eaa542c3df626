CONSTANTS
  m = m  c1 = c1  c2 = c2  c3 = c3  b1 = b1  b2 = b2  b3 = b3
  Main = m
  NoCr = NoCr
  NoBundle = NoBundle
  Endpoints = {}
  Crs <- ThreeChildren
  Bundles <- TwoBundles
  Owners = {m, c1, c2, c3}
  SleepDelays <- OneTick
  WaitDelays <- NeverOrOne
  Foreign = TRUE
  PollPeriod = 1
  MaxTime = 3
SPECIFICATION Spec
SYMMETRY SymThree
INVARIANTS NoOrphans CloseNotForgotten IInv
