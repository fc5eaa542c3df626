CONSTANTS
  m = m  c1 = c1  c2 = c2  b1 = b1  ch1 = ch1  m1 = m1
  Main = m
  NoCr = NoCr
  NoBundle = NoBundle
  NoMsg = NoMsg
  Endpoints <- ChanEndpoints
  Crs <- TwoChildren
  Bundles <- OneBundle
  Owners = {m}
  SleepDelays = {}
  WaitDelays = {}
  Foreign = FALSE
  PollPeriod = 0
  MaxTime = 1
  Chans = {ch1}
  Msgs = {m1}
  Lens = {1, 2}
  CallLens = {1}
  ChanDelays <- NeverOrOne
  Menus <- SendOrReceive
SPECIFICATION ChanSpec
SYMMETRY Sym2
INVARIANTS ExactlyOnce ClausesExact NoMissedRendezvous
PROPERTY FirstComeFirstServed
CHECK_DEADLOCK FALSE
