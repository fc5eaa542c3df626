CONSTANTS
  pa = pa  pb = pb  Peers = {pa, pb}  Cap = 2  BufSize = 2  MaxBytes <- Bytes  MaxRecv = 4
  SendLists <- ListsToSend  RecvLists <- ListsToReceive
  u1 = u1  u2 = u2  Users = {u1, u2}  Remote = Remote  Stranger = Stranger
  Queue = 2  MaxArrivals = 4
  e1 = e1  e2 = e2  e3 = e3  Bufs = {e1, e2, e3}  null = null  Lens = {0, 1, 2}
SPECIFICATION Spec
INVARIANTS StreamExact EndIsReal DatagramsExact IolExact
PROPERTIES HandshakeEnds
CHECK_DEADLOCK FALSE
