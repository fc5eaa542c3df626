--------------------------------- MODULE Udp ---------------------------------
(***************************************************************************)
(* A UDP socket used by several coroutines: udp.c, reached through msock.c *)
(* or directly. The network and the kernel's receive queue are external: a *)
(* datagram may be lost, doubled or overtaken. Sending never blocks, and a *)
(* datagram the kernel has no room for is dropped; so nothing is known     *)
(* about what was sent, except that a send is refused while a receiver     *)
(* waits.                                                                  *)
(***************************************************************************)
EXTENDS SeqOps

CONSTANTS
  Users,       \* coroutines that use the socket
  Remote,      \* the address given to udp_open
  Stranger,    \* any other address
  Queue,       \* capacity of the kernel's receive queue
  MaxArrivals  \* bound on the datagrams that arrive

ASSUME UdpAssumption == Remote # Stranger /\ Queue \in Nat /\ MaxArrivals \in Nat

VARIABLES
  hasremote,  \* udp_open was given a remote address
  busy,       \* obj->busy
  user,       \* per coroutine: "idle", "run" (in dill_udp_recvl_), "wait" (in fdin)
  queue,      \* datagrams in the kernel: [id, src]
  arrived,    \* history: everything that entered the queue
  returned,   \* history: what udp_recv returned
  sent        \* history: where datagrams were sent

udpVars == <<hasremote, busy, user, queue, arrived, returned, sent>>

\* dill_udp_open_mem.
UdpInit ==
  /\ hasremote \in BOOLEAN
  /\ busy = FALSE
  /\ user = [c \in Users |-> "idle"]
  /\ queue = <<>> /\ arrived = <<>> /\ returned = <<>> /\ sent = {}

\* A coroutine runs until it blocks.
NobodyRuns == \A c \in Users : user[c] # "run"

\* A datagram reaches the socket (external): new, or one that came before.
Arrive(src) ==
  /\ Len(queue) < Queue /\ Len(arrived) < MaxArrivals
  /\ \E id \in 1..Len(arrived) + 1 :
       LET d == [id |-> id, src |-> src]
       IN /\ queue' = Append(queue, d) /\ arrived' = Append(arrived, d)
          /\ id <= Len(arrived) => d \in Range(arrived)
  /\ UNCHANGED <<hasremote, busy, user, returned, sent>>

\* dill_udp_sendl_, for udp_send, udp_sendl, msend and msendl; a datagram without
\* an address goes to the remote one. The kernel takes it, or it is dropped and
\* nobody is told.
Send(c, dst) ==
  /\ NobodyRuns /\ user[c] = "idle"
  /\ ~busy                                    \* else EBUSY
  /\ dst = "none" => hasremote                \* else EINVAL
  /\ sent' \in {sent, sent \cup {IF dst = "none" THEN Remote ELSE dst}}
  /\ UNCHANGED <<hasremote, busy, user, queue, arrived, returned>>

\* dill_udp_recvl_ up to its loop, for udp_recv, udp_recvl, mrecv and mrecvl.
Recv(c) ==
  /\ NobodyRuns /\ user[c] = "idle"
  /\ ~busy                                    \* else EBUSY
  /\ user' = [user EXCEPT ![c] = "run"]
  /\ UNCHANGED <<hasremote, busy, queue, arrived, returned, sent>>

\* obj->hasremote and the datagram is not from there.
Dropped(d) == hasremote /\ d.src # Remote

\* recvmsg finds a datagram; one from another address is dropped, and the loop
\* goes on.
Take(c) ==
  /\ user[c] = "run" /\ queue # <<>>
  /\ queue' = Tail(queue)
  /\ IF Dropped(Head(queue)) THEN UNCHANGED <<user, returned>>
     ELSE /\ returned' = Append(returned, Head(queue))
          /\ user' = [user EXCEPT ![c] = "idle"]
  /\ UNCHANGED <<hasremote, busy, arrived, sent>>

\* recvmsg finds nothing.
Block(c) ==
  /\ user[c] = "run" /\ queue = <<>>
  /\ busy' = TRUE
  /\ user' = [user EXCEPT ![c] = "wait"]
  /\ UNCHANGED <<hasremote, queue, arrived, returned, sent>>

\* fdin returns 0.
WakeStillBusy(c) ==
  /\ NobodyRuns /\ user[c] = "wait" /\ queue # <<>>
  /\ user' = [user EXCEPT ![c] = "run"]
  /\ UNCHANGED <<hasremote, busy, queue, arrived, returned, sent>>
Wake(c) ==
  /\ NobodyRuns /\ user[c] = "wait" /\ queue # <<>>
  /\ busy' = FALSE
  /\ user' = [user EXCEPT ![c] = "run"]
  /\ UNCHANGED <<hasremote, queue, arrived, returned, sent>>

\* fdin returns -1: the deadline, or the coroutine is canceled.
Expire(c) ==
  /\ NobodyRuns /\ user[c] = "wait"
  /\ busy' = FALSE
  /\ user' = [user EXCEPT ![c] = "idle"]
  /\ UNCHANGED <<hasremote, queue, arrived, returned, sent>>

UdpNext ==
  \/ \E src \in {Remote, Stranger} : Arrive(src)
  \/ \E c \in Users, dst \in {Remote, Stranger, "none"} : Send(c, dst)
  \/ \E c \in Users : Recv(c) \/ Take(c) \/ Block(c) \/ Wake(c) \/ Expire(c)

UdpSpec == UdpInit /\ [][UdpNext]_udpVars

-----------------------------------------------------------------------------
Datagrams == [id : Nat \ {0}, src : {Remote, Stranger}]

\* The datagrams of s that the socket is to pass on.
Wanted(s) == Without(s, {d \in Datagrams : hasremote /\ d.src = Stranger})

\* Every datagram that arrived from the remote address (from anywhere, if there
\* is none) is returned once, in the order of arrival, to one of the receivers,
\* whatever was dropped before it and whoever timed out; and the socket is not
\* marked busy once nobody waits, which would refuse every later call.
DatagramsExact ==
  /\ returned \o Wanted(queue) = Wanted(arrived)
  /\ busy = (\E c \in Users : user[c] = "wait")
  /\ \A c, d \in Users : user[c] = "wait" /\ user[d] = "wait" => c = d
=============================================================================
