-------------------------------- MODULE Stream --------------------------------
(***************************************************************************)
(* Two connected bytestream sockets: tcp.c or ipc.c over fd.c, and what    *)
(* bsock.c calls. The kernel's buffers between them are external. Each     *)
(* peer has a coroutine that sends and one that receives; the operations   *)
(* run until they block in fdout() or fdin(). A byte is the number of its  *)
(* place in the stream, negative if a file descriptor came with it; 0 in   *)
(* the kernel is the end of the stream. A buffer list is abstracted to     *)
(* what fd.c tells apart: whether an empty element ends a list to send,    *)
(* and which bytes of a list to receive have no buffer (iol_base NULL).    *)
(***************************************************************************)
EXTENDS SeqOps, FiniteSets, FiniteSetsExt

CONSTANTS
  Peers,       \* the two ends of the connection
  Cap,         \* capacity of a socket's send buffer, in bytes
  BufSize,     \* DILL_FD_BUFSIZE
  MaxBytes,    \* bound on the bytes a peer sends
  MaxRecv,     \* bound on the bytes a peer asks for
  SendLists,   \* for each peer, the lists it hands to bsendl: [left, trail]
  RecvLists    \* and to brecvl: sequences over {"buf", "null"}

ASSUME StreamAssumption ==
  /\ \E p, q \in Peers : p # q /\ Peers = {p, q}
  /\ Cap \in Nat \ {0} /\ BufSize \in Nat \ {0}
  /\ MaxBytes \in [Peers -> Nat]
  /\ \A p \in Peers : /\ SendLists[p] \subseteq [left : Nat, trail : BOOLEAN]
                       /\ RecvLists[p] \subseteq Seq({"buf", "null"})

VARIABLES
  kind,     \* "tcp" or "ipc"
  conn,     \* indone, outdone, inerr, outerr, and how the socket was closed
  rx,       \* self->rxbuf, the bytes not yet copied
  snd,      \* dill_fd_send in progress; not idle = sbusy
  rcv,      \* dill_fd_recv in progress; not idle = rbusy
  sndq,     \* kernel: bytes sent and not yet arrived (tcp)
  rcvq,     \* kernel: bytes arrived and not yet read
  rst,      \* kernel: connection reset: "no", "pending", "reported" to the program
  offered,    \* history: bytes handed to bsendl, or sent with a descriptor
  recvd,    \* history: what successful receives returned; 0 for a skipped byte
  lost,     \* history: bytes thrown away when the socket was closed
  skipfail, \* history: dill_fd_recv ignored an error of dill_fd_skip
  dead      \* a dill_assert failed

streamVars == <<kind, conn, rx, snd, rcv, sndq, rcvq, rst, offered,
                recvd, lost, skipfail, dead>>

Idle == [pc |-> "idle"]
Other(p) == CHOOSE q \in Peers : q # p
Ended(s) == s # <<>> /\ s[Len(s)] = 0
Data(s) == IF Ended(s) THEN SubSeq(s, 1, Len(s) - 1) ELSE s

\* dill_tcp_makeconn, dill_ipc_makeconn, on both ends of a connection.
StreamInit ==
  /\ kind \in {"tcp", "ipc"}
  /\ conn = [p \in Peers |-> [indone |-> FALSE, outdone |-> FALSE, inerr |-> FALSE,
                              outerr |-> FALSE, closed |-> "no"]]
  /\ rx = [p \in Peers |-> <<>>]
  /\ snd = [p \in Peers |-> Idle] /\ rcv = [p \in Peers |-> Idle]
  /\ sndq = [p \in Peers |-> <<>>] /\ rcvq = [p \in Peers |-> <<>>]
  /\ rst = [p \in Peers |-> "no"]
  /\ offered = [p \in Peers |-> 0] /\ recvd = [p \in Peers |-> <<>>]
  /\ lost = [p \in Peers |-> 0]
  /\ skipfail = [p \in Peers |-> FALSE]
  /\ dead = FALSE

Open(p) == ~dead /\ conn[p].closed = "no"

\* The coroutines of p take turns: one that is not blocked runs alone.
Free(p) == Open(p) /\ snd[p].pc # "run" /\ rcv[p].pc # "run"

-----------------------------------------------------------------------------
\* The kernel (external).

\* Bytes p can still hand to the kernel; ipc has one buffer, at the receiver.
Space(p) == Cap - Len(Data(IF kind = "tcp" THEN sndq[p] ELSE rcvq[Other(p)]))

\* p's end of the stream is on its way.
Shut(p) == conn[p].outdone

\* sendmsg fails: the connection is broken, was shut down meanwhile, or (ipc)
\* nobody can read.
SendFails(p) ==
  \/ rst[p] # "no" /\ kind = "tcp"
  \/ Shut(p)
  \/ kind = "ipc" /\ conn[Other(p)].closed # "no"

Accepted(p, s) ==
  IF kind = "tcp" THEN sndq' = [sndq EXCEPT ![p] = @ \o s] /\ UNCHANGED rcvq
  ELSE rcvq' = [rcvq EXCEPT ![Other(p)] = @ \o s] /\ UNCHANGED sndq

\* The network carries the next byte, or the end of the stream.
Deliver(p) ==
  /\ ~dead /\ sndq[p] # <<>>
  /\ Head(sndq[p]) = 0 \/ Len(rcvq[Other(p)]) < Cap
  /\ sndq' = [sndq EXCEPT ![p] = Tail(@)]
  /\ rcvq' = [rcvq EXCEPT ![Other(p)] = Append(@, Head(sndq[p]))]
  /\ UNCHANGED <<kind, conn, rx, snd, rcv, rst, offered, recvd, lost,
                 skipfail, dead>>

\* What recv finds once there are no data: "eof", "reset" or "again".
Found(p) ==
  IF Data(rcvq[p]) # <<>> THEN "data"
  ELSE IF rst[p] = "pending" THEN "reset"
  ELSE IF rst[p] = "reported" \/ rcvq[p] # <<>> THEN "eof" ELSE "again"

ErrorRead(p) == rst' = [rst EXCEPT ![p] = IF @ = "pending" THEN "reported" ELSE @]

\* close() with SO_LINGER 0: what tcp has not sent is discarded, and the peer
\* is told so unless both directions had come to their end. An ipc socket
\* closed with data unread resets its peer.
KernelClose(p) ==
  LET q == Other(p)
      orderly == Shut(p) /\ rcvq[p] = <<0>> /\ Data(sndq[p]) = <<>>
  IN IF kind = "tcp"
     THEN /\ sndq' = IF orderly THEN sndq ELSE [r \in Peers |-> <<>>]
          /\ lost' = [lost EXCEPT ![p] = Len(Data(sndq[p]))]
          /\ rst' = [rst EXCEPT ![q] = IF ~orderly /\ @ = "no" THEN "pending" ELSE @]
          /\ UNCHANGED rcvq
     ELSE /\ rcvq' = [rcvq EXCEPT ![q] = IF Shut(p) THEN @ ELSE Append(@, 0)]
          /\ rst' = [rst EXCEPT ![q] = IF Data(rcvq[p]) # <<>> THEN "pending" ELSE @]
          /\ UNCHANGED <<sndq, lost>>

-----------------------------------------------------------------------------
\* Sending.

\* dill_bsend, dill_bsendl, dill_tcp_bsendl, dill_ipc_bsendl up to the call of
\* dill_fd_send.
BSend(p, l) ==
  /\ Free(p)
  /\ snd[p] = Idle                                    \* else EBUSY
  /\ ~conn[p].outdone /\ ~conn[p].outerr              \* else EPIPE, ECONNRESET
  /\ offered[p] + l.left <= MaxBytes[p]
  /\ snd' = [snd EXCEPT ![p] = [pc |-> "run", mode |-> "bytes",
                                next |-> offered[p] + 1, left |-> l.left, trail |-> l.trail]]
  /\ offered' = [offered EXCEPT ![p] = @ + l.left]
  /\ UNCHANGED <<kind, conn, rx, rcv, sndq, rcvq, rst, recvd, lost,
                 skipfail, dead>>

\* The iovec after n bytes were sent.
AdjustedLen(op, n) == [op EXCEPT !.left = @ - n]
Adjusted(op, n) == [op EXCEPT !.next = @ + n, !.left = @ - n]

SendFailed(p) ==
  /\ snd' = [snd EXCEPT ![p] = Idle]
  /\ conn' = [conn EXCEPT ![p].outerr = TRUE]

\* One turn of the loop in dill_fd_send. A list that ends in an empty element
\* waits once more after its last byte.
FdSend(p) ==
  /\ Open(p) /\ snd[p].pc = "run" /\ snd[p].mode = "bytes"
  /\ LET op == snd[p]
         n == Min({Space(p), op.left})
     IN \/ /\ op.left = 0
           /\ snd' = [snd EXCEPT ![p] = Idle]
           /\ UNCHANGED <<conn, sndq, rcvq, rst>>
        \/ /\ op.left > 0 /\ SendFails(p)
           /\ SendFailed(p) /\ ErrorRead(p)
           /\ UNCHANGED <<sndq, rcvq>>
        \/ /\ op.left > 0 /\ ~SendFails(p)
           /\ Accepted(p, [i \in 1..n |-> op.next + i - 1])
           /\ snd' = [snd EXCEPT ![p] = IF n = op.left /\ ~op.trail THEN Idle
                                       ELSE [Adjusted(op, n) EXCEPT !.pc = "wait"]]
           /\ UNCHANGED <<conn, rst>>
  /\ UNCHANGED <<kind, rx, rcv, offered, recvd, lost, skipfail, dead>>

\* fdout returns 0.
FdOut(p) ==
  /\ Free(p) /\ snd[p].pc = "wait"
  /\ Space(p) > 0 \/ SendFails(p)
  /\ snd' = [snd EXCEPT ![p].pc = "run"]
  /\ UNCHANGED <<kind, conn, rx, rcv, sndq, rcvq, rst, offered, recvd,
                 lost, skipfail, dead>>

\* fdout returns -1: the deadline, or the coroutine is canceled.
FdOutFails(p) ==
  /\ Free(p) /\ snd[p].pc = "wait"
  /\ IF snd[p].mode = "fd" THEN snd' = [snd EXCEPT ![p] = Idle] /\ UNCHANGED conn
     ELSE SendFailed(p)
  /\ UNCHANGED <<kind, rx, rcv, sndq, rcvq, rst, offered, recvd, lost,
                 skipfail, dead>>

-----------------------------------------------------------------------------
\* Receiving.

\* The bytes s are copied to the front of a list; the rest of it is todo.
Copied(op, s) ==
  [op EXCEPT !.todo = SubSeq(@, Len(s) + 1, Len(@)),
             !.got = @ \o [i \in 1..Len(s) |-> IF op.todo[i] = "null" THEN 0 ELSE s[i]]]

First(s, n) == SubSeq(s, 1, Min({n, Len(s)}))
Rest(s, n) == SubSeq(s, Min({n, Len(s)}) + 1, Len(s))

\* dill_brecv, dill_brecvl, dill_tcp_brecvl and dill_ipc_brecvl, and
\* dill_fd_recv up to its first system call: the rx buffer (which ipc cannot
\* have) is used first, and what is missing goes through it unless it is larger
\* than the buffer.
BRecv(p, l) ==
  /\ Free(p)
  /\ rcv[p] = Idle                                    \* else EBUSY
  /\ ~conn[p].indone /\ ~conn[p].inerr                \* else EPIPE, ECONNRESET
  /\ Len(recvd[p]) + Len(l) <= MaxRecv
  /\ LET op == Copied([pc |-> "run", todo |-> l, got |-> <<>>, mode |-> "direct",
                       late |-> FALSE],
                      First(rx[p], Len(l)))
     IN /\ rx' = [rx EXCEPT ![p] = Rest(@, Len(l))]
        /\ IF op.todo = <<>>
           THEN recvd' = [recvd EXCEPT ![p] = @ \o op.got] /\ UNCHANGED rcv
           ELSE /\ rcv' = [rcv EXCEPT ![p] =
                     IF kind = "ipc" \/ Len(op.todo) > BufSize THEN op
                     ELSE [op EXCEPT !.mode = "buffered"]]
                /\ UNCHANGED recvd
  /\ UNCHANGED <<kind, conn, snd, sndq, rcvq, rst, offered, lost,
                 skipfail, dead>>

\* brecvl is over, successfully or not.
Received(p, op) ==
  /\ rcv' = [rcv EXCEPT ![p] = Idle]
  /\ recvd' = [recvd EXCEPT ![p] = @ \o op.got]
  /\ UNCHANGED conn
RecvFailedAsEof(p, how) ==
  /\ rcv' = [rcv EXCEPT ![p] = Idle]
  /\ conn' = [conn EXCEPT ![p].indone = TRUE]
  /\ UNCHANGED recvd
RecvFailed(p, how) ==
  /\ rcv' = [rcv EXCEPT ![p] = Idle]
  /\ conn' = IF how = "eof" THEN [conn EXCEPT ![p].indone = TRUE]
             ELSE [conn EXCEPT ![p].inerr = TRUE]
  /\ UNCHANGED recvd

\* dill_fd_recv found data: directly to the list (dill_fd_recv_, dill_fd_skip),
\* or to the rx buffer and on from there (dill_fd_copy).
FdRecvData(p) ==
  /\ Open(p) /\ rcv[p].pc = "run" /\ rcv[p].mode \in {"direct", "buffered"} /\ Found(p) = "data"
  /\ LET op == rcv[p]
         n == IF op.mode = "direct" THEN Len(op.todo) ELSE BufSize
         s == First(Data(rcvq[p]), n)
         done == Copied(op, First(s, Len(op.todo)))
     IN /\ rcvq' = [rcvq EXCEPT ![p] = Rest(@, Len(s))]
        /\ rx' = IF op.mode = "direct" THEN rx
                 ELSE [rx EXCEPT ![p] = Rest(s, Len(op.todo))]
        /\ IF done.todo = <<>> THEN Received(p, done)
           ELSE rcv' = [rcv EXCEPT ![p] = done] /\ UNCHANGED <<recvd, conn>>
  /\ UNCHANGED <<kind, snd, sndq, rst, offered, lost, skipfail, dead>>

\* There are no data: wait for them.
FdRecvAgain(p) ==
  /\ Open(p) /\ rcv[p].pc = "run" /\ ~rcv[p].late /\ Found(p) = "again" /\ ~conn[p].indone
  /\ rcv' = [rcv EXCEPT ![p].pc = "wait"]
  /\ UNCHANGED <<kind, conn, rx, snd, sndq, rcvq, rst, offered, recvd, lost,
                 skipfail, dead>>

\* What is left of a list once dill_fd_skip has failed on its first buffers:
\* dill_fd_recv does not look at the result.
SkippedOver(op) ==
  LET n == CHOOSE i \in 1..Len(op.todo) :
             /\ \A j \in 1..i : op.todo[j] = "null"
             /\ i < Len(op.todo) => op.todo[i + 1] # "null"
  IN Copied(op, [i \in 1..n |-> 0])
Skips(op) == op.mode = "direct" /\ Head(op.todo) = "null"

\* recvmsg failed, or found the end of the stream.
FdRecvError(p) ==
  /\ Open(p) /\ rcv[p].pc = "run" /\ rcv[p].mode \in {"direct", "buffered"}
  /\ Found(p) \in {"eof", "reset"}
  /\ ErrorRead(p)
  /\ IF Skips(rcv[p])
     THEN /\ skipfail' = [skipfail EXCEPT ![p] = TRUE]
          /\ LET op == SkippedOver(rcv[p])
             IN IF op.todo = <<>> THEN Received(p, op)
                ELSE rcv' = [rcv EXCEPT ![p] = op] /\ UNCHANGED <<recvd, conn>>
     ELSE RecvFailed(p, Found(p)) /\ UNCHANGED skipfail
  /\ UNCHANGED <<kind, rx, snd, sndq, rcvq, offered, lost, dead>>

\* fdin returns 0.
FdIn(p) ==
  /\ Free(p) /\ rcv[p].pc = "wait" /\ Found(p) # "again"
  /\ rcv' = [rcv EXCEPT ![p].pc = "run"]
  /\ UNCHANGED <<kind, conn, rx, snd, sndq, rcvq, rst, offered, recvd,
                 lost, skipfail, dead>>

\* fdin returns -1: the deadline, or the coroutine is canceled. If that came
\* after an error that was ignored, fdin does not even block.
FdInFails(p) ==
  /\ \/ Free(p) /\ rcv[p].pc = "wait" /\ rcv[p].mode # "drain"
     \/ Open(p) /\ rcv[p].pc = "run" /\ rcv[p].late /\ Found(p) = "again"
  /\ IF Skips(rcv[p])
     THEN /\ skipfail' = [skipfail EXCEPT ![p] = TRUE]
          /\ LET op == [SkippedOver(rcv[p]) EXCEPT !.pc = "run", !.late = TRUE]
             IN IF op.todo = <<>> THEN Received(p, op)
                ELSE rcv' = [rcv EXCEPT ![p] = op] /\ UNCHANGED <<recvd, conn>>
     ELSE /\ IF rcv[p].mode = "fd"
             THEN rcv' = [rcv EXCEPT ![p] = Idle] /\ UNCHANGED <<recvd, conn>>
             ELSE RecvFailed(p, "timeout")
          /\ UNCHANGED skipfail
  /\ UNCHANGED <<kind, rx, snd, sndq, rcvq, rst, offered, lost, dead>>

-----------------------------------------------------------------------------
\* Passing file descriptors (ipc only). Both calls wait first. They check the busy
\* flag of their direction and set none: snd and rcv stand for a program that does
\* not use one direction from two coroutines at once.

\* dill_ipc_sendfd up to fdout.
SendFd(p) ==
  /\ Free(p) /\ kind = "ipc" /\ snd[p] = Idle
  /\ ~conn[p].outdone /\ ~conn[p].outerr
  /\ offered[p] < MaxBytes[p]
  /\ snd' = [snd EXCEPT ![p] = [pc |-> "wait", mode |-> "fd"]]
  /\ UNCHANGED <<kind, conn, rx, rcv, sndq, rcvq, rst, offered, recvd, lost,
                 skipfail, dead>>

\* The rest of it; EPIPE is not among the errors it expects.
SendFdEnd(p) ==
  /\ Open(p) /\ snd[p].pc = "run" /\ snd[p].mode = "fd"
  /\ snd' = [snd EXCEPT ![p] = Idle]
  /\ IF SendFails(p) THEN dead' = TRUE /\ UNCHANGED <<sndq, rcvq, offered>>
     ELSE /\ Accepted(p, <<-(offered[p] + 1)>>)
          /\ offered' = [offered EXCEPT ![p] = @ + 1]
          /\ UNCHANGED dead
  /\ UNCHANGED <<kind, conn, rx, rcv, rst, recvd, lost, skipfail>>

\* dill_ipc_recvfd up to fdin.
RecvFd(p) ==
  /\ Free(p) /\ kind = "ipc" /\ rcv[p] = Idle
  /\ ~conn[p].indone /\ ~conn[p].inerr
  /\ rcv' = [rcv EXCEPT ![p] = [pc |-> "wait", mode |-> "fd", late |-> FALSE]]
  /\ UNCHANGED <<kind, conn, rx, snd, sndq, rcvq, rst, offered, recvd, lost,
                 skipfail, dead>>

\* The rest of it. A byte without a descriptor is a protocol error; a broken
\* connection is recorded in outerr.
RecvFdEnd(p) ==
  /\ Open(p) /\ rcv[p].pc = "run" /\ rcv[p].mode = "fd"
  /\ rcv' = [rcv EXCEPT ![p] = Idle]
  /\ LET b == Head(rcvq[p])
         data == Found(p) = "data"
     IN /\ rcvq' = IF data THEN [rcvq EXCEPT ![p] = Tail(@)] ELSE rcvq
        /\ recvd' = IF data /\ b < 0 THEN [recvd EXCEPT ![p] = Append(@, b)] ELSE recvd
        /\ conn' = [conn EXCEPT ![p].indone = @ \/ Found(p) = "eof",
                                ![p].outerr = @ \/ Found(p) = "reset",
                                ![p].inerr = @ \/ (data /\ b > 0)]
        /\ IF data THEN UNCHANGED rst ELSE ErrorRead(p)
  /\ UNCHANGED <<kind, rx, snd, sndq, offered, lost, skipfail, dead>>

-----------------------------------------------------------------------------
\* Closing.

\* shutdown(SHUT_WR): the end of the stream follows the data.
Shutdown(p) ==
  IF kind = "tcp" /\ rst[p] # "no" THEN UNCHANGED <<sndq, rcvq>>
  ELSE Accepted(p, <<0>>)
ShutdownFails(p) == kind = "tcp" /\ rst[p] # "no"     \* ENOTCONN

\* dill_tcp_done, dill_ipc_done. A send that is blocked does not stop them.
Done(p) ==
  /\ Free(p)
  /\ ~conn[p].outdone /\ ~conn[p].outerr
  /\ Shutdown(p)
  /\ conn' = IF ShutdownFails(p) THEN [conn EXCEPT ![p].outerr = TRUE]
             ELSE [conn EXCEPT ![p].outdone = TRUE]
  /\ UNCHANGED <<kind, rx, snd, rcv, rst, offered, recvd, lost, skipfail, dead>>

\* dill_tcp_hclose, dill_ipc_hclose: dill_fd_close and dill_fd_termrxbuf.
HClose(p, c, result) ==
  /\ KernelClose(p)
  /\ conn' = [conn EXCEPT ![p] = [c EXCEPT !.closed = result]]
  /\ rx' = [rx EXCEPT ![p] = <<>>]
  /\ rcv' = [rcv EXCEPT ![p] = Idle]

Unused(p) == snd[p] = Idle /\ rcv[p] = Idle

\* dill_hclose of the socket.
Hclose(p) ==
  /\ Free(p) /\ Unused(p)
  /\ HClose(p, conn[p], "hclose")
  /\ UNCHANGED <<kind, snd, offered, recvd, skipfail, dead>>

\* dill_tcp_close, dill_ipc_close up to reading the inbound data; a socket with
\* an error is closed at once, and so is one whose peer has finished already.
CloseWithoutDone(p) ==
  /\ Free(p) /\ Unused(p)
  /\ IF conn[p].inerr \/ conn[p].outerr
     THEN HClose(p, conn[p], "error")
     ELSE /\ rcv' = [rcv EXCEPT ![p] = [pc |-> "run", mode |-> "drain", late |-> FALSE]]
          /\ UNCHANGED <<conn, rx, sndq, rcvq, rst, lost>>
  /\ UNCHANGED <<kind, snd, offered, recvd, skipfail, dead>>
Close(p) ==
  /\ Free(p) /\ Unused(p)
  /\ IF conn[p].inerr \/ conn[p].outerr
     THEN HClose(p, conn[p], "error")
     ELSE IF ~conn[p].outdone /\ ShutdownFails(p)
     THEN HClose(p, [conn[p] EXCEPT !.outerr = TRUE], "error")
     ELSE /\ IF conn[p].outdone THEN UNCHANGED <<sndq, rcvq>> ELSE Shutdown(p)
          /\ conn' = [conn EXCEPT ![p].outdone = TRUE]
          /\ rcv' = [rcv EXCEPT ![p] = [pc |-> "run", mode |-> "drain", late |-> FALSE]]
          /\ UNCHANGED <<rx, rst, lost>>
  /\ UNCHANGED <<kind, snd, offered, recvd, skipfail, dead>>

\* dill_fd_skip(-1): all data are dropped.
Drain(p) ==
  /\ Open(p) /\ rcv[p].pc = "run" /\ rcv[p].mode = "drain"
  /\ Found(p) = "data" /\ ~conn[p].indone
  /\ rcvq' = [rcvq EXCEPT ![p] = Rest(@, Len(Data(@)))]
  /\ UNCHANGED <<kind, conn, rx, snd, rcv, sndq, rst, offered, recvd,
                 lost, skipfail, dead>>

\* The inbound data have ended: success only if it was the end of the stream.
CloseEnd(p) ==
  /\ Open(p) /\ rcv[p].pc = "run" /\ rcv[p].mode = "drain"
  /\ \/ /\ conn[p].indone \/ Found(p) = "eof"
        /\ HClose(p, [conn[p] EXCEPT !.indone = TRUE], "ok")
     \/ /\ ~conn[p].indone /\ Found(p) = "reset"
        /\ HClose(p, [conn[p] EXCEPT !.inerr = TRUE], "error")
  /\ UNCHANGED <<kind, snd, offered, recvd, skipfail, dead>>

\* They have not when the deadline expires, or the coroutine is canceled.
CloseExpires(p) ==
  /\ Free(p) /\ rcv[p].pc = "wait" /\ rcv[p].mode = "drain"
  /\ HClose(p, [conn[p] EXCEPT !.inerr = TRUE], "error")
  /\ UNCHANGED <<kind, snd, offered, recvd, skipfail, dead>>

PeerStep(p) ==
  \/ FdSend(p) \/ FdOut(p) \/ SendFdEnd(p)
  \/ FdRecvData(p) \/ FdRecvAgain(p) \/ FdRecvError(p) \/ FdIn(p) \/ RecvFdEnd(p)
  \/ Drain(p) \/ CloseEnd(p)

StreamNext ==
  \E p \in Peers :
    \/ Deliver(p) \/ PeerStep(p)
    \/ \E l \in SendLists[p] : BSend(p, l)
    \/ \E l \in RecvLists[p] : BRecv(p, l)
    \/ SendFd(p) \/ RecvFd(p)
    \/ FdOutFails(p) \/ FdInFails(p) \/ CloseExpires(p)
    \/ Done(p) \/ Hclose(p) \/ Close(p)

StreamSpec == StreamInit /\ [][StreamNext]_streamVars

\* The network delivers, and a coroutine whose descriptor is ready runs.
StreamFairness == \A p \in Peers : WF_streamVars(Deliver(p)) /\ WF_streamVars(PeerStep(p))

-----------------------------------------------------------------------------
\* What the receives of a peer returned is the beginning of what the other one
\* sent: in order, no byte lost, doubled or left in the rx buffer, however the
\* lists are cut into buffers, and across sends and receives that were resumed
\* several times. An error of dill_fd_skip that dill_fd_recv ignored is the one
\* exception (see NoPartialReceive).
StreamExact ==
  \A p \in Peers : skipfail[p] \/
    \A i \in 1..Len(recvd[p]) : recvd[p][i] \in {0, i, -i}

\* A peer is told that the stream ended (EPIPE) only if it did: everything that
\* was sent has been taken from the kernel, and nothing was thrown away by the
\* other side. A broken connection is reported as such, once at least.
EndIsReal ==
  \A p \in Peers : LET q == Other(p) IN
    conn[p].indone /\ ~conn[p].outerr /\ ~skipfail[p] =>
      /\ Shut(q) \/ (kind = "ipc" /\ conn[q].closed # "no")
      /\ sndq[q] = <<>> /\ Data(rcvq[p]) = <<>> /\ lost[q] = 0

Closing(p) == rcv[p].pc # "idle" /\ rcv[p].mode = "drain"

\* Two peers that close the connection at the same time (tcp_close, ipc_close),
\* whatever is still on its way, do not wait for each other for ever.
HandshakeEnds ==
  (\A p \in Peers : Closing(p)) ~> (dead \/ \A p \in Peers : conn[p].closed # "no")

\* brecv(3): "There is no such thing as partial receive. If a problem, including
\* timeout, occurs while receiving the data, an error is returned to the user
\* and the socket cannot be used for receiving from that point on."
NoPartialReceive ==
  \A p \in Peers : \A i \in 1..Len(recvd[p]) : recvd[p][i] \in {0, i, -i}

\* tcp.c, on reading all the inbound data in tcp_close: "That way we can be sure
\* that the peer either received all our data or consciously closed the
\* connection without reading all of it."
CloseDelivers ==
  \A p \in Peers : LET q == Other(p) IN
    conn[p].closed = "ok" /\ lost[p] > 0 => conn[q].closed # "no" \/ Closing(q)
=============================================================================
