------------------------------- MODULE Closing -------------------------------
(***************************************************************************)
(* The closing handshakes of TERM, WebSocket and TLS (term.c, ws.c, tls.c) *)
(* between two peers: each side ends its own direction, reads the other    *)
(* one to its end, and hands the socket underneath back to the program,    *)
(* which goes on using it. The socket underneath delivers in order; when a *)
(* peer closes it, the other one finds the end of the stream behind what   *)
(* was sent. What a message looks like is left to Framing and Ws; OpenSSL  *)
(* is external.                                                            *)
(***************************************************************************)
EXTENDS Integers, Sequences

CONSTANTS
  Ends,          \* the two peers
  Server,        \* the one that is the server of a WebSocket
  MaxData,       \* bound on the messages of a peer, and on what follows them
  SendAfterDone  \* whether a program sends on a TERM socket after term_done

ASSUME ClosingAssumption ==
  /\ \E p, q \in Ends : p # q /\ Ends = {p, q}
  /\ Server \in Ends /\ MaxData \in Nat /\ SendAfterDone \in BOOLEAN

VARIABLES
  protocol,  \* "term", "ws" or "tls"
  end,       \* the object: indone, outdone, err, and where the program is with
             \* it: "open", "detaching", "off" (detached), "closed", "crashed"
  way,       \* what each peer has sent and the other one has not read
  told,      \* history: number of messages, and of items behind the handshake
  heard,     \* history: what a peer received, before and after the handshake
  final      \* history: the peer's terminal message was read

closingVars == <<protocol, end, way, told, heard, final>>

Peer(p) == CHOOSE q \in Ends : q # p

\* The attach functions on both sides.
ClosingInit ==
  /\ protocol \in {"term", "ws", "tls"}
  /\ end = [p \in Ends |-> [indone |-> FALSE, outdone |-> FALSE, err |-> FALSE, at |-> "open"]]
  /\ way = [p \in Ends |-> <<>>]
  /\ told = [p \in Ends |-> [data |-> 0, plain |-> 0]]
  /\ heard = [p \in Ends |-> [data |-> <<>>, plain |-> <<>>]]
  /\ final = [p \in Ends |-> FALSE]

Data(i) == <<"data", i>>
Plain(i) == <<"plain", i>>
Terminal == <<"terminal", 0>>
Eof == <<"eof", 0>>

Put(p, items) == way' = [way EXCEPT ![p] = @ \o items]
Consume(p) == way' = [way EXCEPT ![Peer(p)] = Tail(@)]
Next1(p) == IF way[Peer(p)] = <<>> THEN "nothing" ELSE Head(way[Peer(p)])[1]

\* dill_hclose of the socket: the one underneath is closed with it, as it is by the
\* system when the process ends.
GoesDown(p, how) ==
  /\ end' = [end EXCEPT ![p].at = how]
  /\ Put(p, <<Eof>>)

-----------------------------------------------------------------------------
\* dill_ws_sendl_base and dill_tls_bsendl refuse to send once done; so should, but
\* does not, dill_term_msendl.
SocketSend(p) ==
  /\ end[p].at = "open" /\ ~end[p].err /\ told[p].data < MaxData
  /\ ~end[p].outdone \/ (protocol = "term" /\ SendAfterDone)
  /\ told' = [told EXCEPT ![p].data = @ + 1] /\ Put(p, <<Data(told'[p].data)>>)
  /\ UNCHANGED <<protocol, end, heard, final>>

\* dill_term_mrecvl, dill_ws_recvl_base, dill_tls_brecvl: a message, the peer's
\* terminal message, or the end of the stream underneath, which TERM and
\* WebSocket pass on and TLS takes for the end of its own stream.
SocketRecv(p) ==
  /\ end[p].at = "open" /\ ~end[p].indone /\ ~end[p].err
  /\ \/ /\ Next1(p) = "data" /\ Consume(p)
        /\ heard' = [heard EXCEPT ![p].data = Append(@, Head(way[Peer(p)])[2])]
        /\ UNCHANGED <<end, final>>
     \/ /\ Next1(p) = "terminal" /\ Consume(p)
        /\ end' = [end EXCEPT ![p].indone = TRUE] /\ final' = [final EXCEPT ![p] = TRUE]
        /\ UNCHANGED heard
     \/ /\ Next1(p) = "eof" /\ protocol = "tls"
        /\ end' = [end EXCEPT ![p].indone = TRUE] /\ UNCHANGED <<way, heard, final>>
  /\ UNCHANGED <<protocol, told>>

\* dill_ws_recvl_base and dill_tls_brecvl refuse to receive once the terminal
\* message was read. dill_term_mrecvl does not: it hands out what is behind it.
TermRecvBehind(p) ==
  /\ protocol = "term" /\ end[p].at = "open" /\ end[p].indone /\ ~end[p].err
  /\ Next1(p) \in {"data", "terminal", "plain"} /\ Consume(p)
  /\ heard' = [heard EXCEPT ![p].plain = Append(@, Head(way[Peer(p)]))]
  /\ UNCHANGED <<protocol, end, told, final>>

\* dill_term_done, dill_ws_done, dill_tls_done (SSL_shutdown sends the alert).
Done(p) ==
  /\ end[p].at = "open" /\ ~end[p].outdone /\ ~end[p].err
  /\ Put(p, <<Terminal>>) /\ end' = [end EXCEPT ![p].outdone = TRUE]
  /\ UNCHANGED <<protocol, told, heard, final>>

\* A send or receive fails, in the middle of something, for a reason of its own
\* (a deadline). TLS remembers (inerr, outerr); for the others the program must.
OperationFails(p) ==
  /\ end[p].at = "open" /\ ~end[p].err
  /\ end' = [end EXCEPT ![p].err = TRUE]
  /\ UNCHANGED <<protocol, way, told, heard, final>>

-----------------------------------------------------------------------------
\* dill_term_detach, dill_ws_detach, dill_tls_detach: the own terminal message,
\* unless it was sent before; then the peer's, unless it was read before.
DetachSilently(p) ==
  /\ end[p].at = "open" /\ ~end[p].err
  /\ end' = [end EXCEPT ![p].outdone = TRUE, ![p].at = IF end[p].indone THEN "off" ELSE "detaching"]
  /\ UNCHANGED <<protocol, way, told, heard, final>>
Detach(p) ==
  /\ end[p].at = "open" /\ ~end[p].err
  /\ Put(p, IF end[p].outdone THEN <<>> ELSE <<Terminal>>)
  /\ end' = [end EXCEPT ![p].outdone = TRUE, ![p].at = IF end[p].indone THEN "off" ELSE "detaching"]
  /\ UNCHANGED <<protocol, told, heard, final>>

\* The loop of dill_term_detach: what is read is dropped. The end of the stream
\* underneath is the same EPIPE as that of TERM.
TermDrainOnce(p) ==
  /\ protocol = "term" /\ end[p].at = "detaching"
  /\ \/ Next1(p) \in {"data", "plain"} /\ Consume(p) /\ UNCHANGED final
     \/ Next1(p) = "terminal" /\ Consume(p) /\ final' = [final EXCEPT ![p] = TRUE]
     \/ Next1(p) = "eof" /\ UNCHANGED <<way, final>>
  /\ end' = [end EXCEPT ![p].at = "off"]
  /\ UNCHANGED <<protocol, told, heard>>
TermDrain(p) ==
  /\ protocol = "term" /\ end[p].at = "detaching"
  /\ \/ Next1(p) \in {"data", "plain"} /\ Consume(p) /\ UNCHANGED <<end, final>>
     \/ /\ Next1(p) = "terminal" /\ Consume(p) /\ final' = [final EXCEPT ![p] = TRUE]
        /\ end' = [end EXCEPT ![p].indone = TRUE, ![p].at = "off"]
     \/ /\ Next1(p) = "eof" /\ end' = [end EXCEPT ![p].at = "off"] /\ UNCHANGED <<way, final>>
  /\ UNCHANGED <<protocol, told, heard>>

\* The loop of dill_ws_detach, alike, with a list that has no buffer. A server
\* unmasks what it reads, in the missing buffer: it survives empty messages only.
WsDrain(p) ==
  /\ protocol = "ws" /\ end[p].at = "detaching"
  /\ \/ Next1(p) = "data" /\ Consume(p) /\ UNCHANGED <<end, final>>
     \/ /\ Next1(p) = "terminal" /\ Consume(p) /\ final' = [final EXCEPT ![p] = TRUE]
        /\ end' = [end EXCEPT ![p].indone = TRUE, ![p].at = "off"]
     \/ /\ Next1(p) = "eof" /\ end' = [end EXCEPT ![p].at = "off"] /\ UNCHANGED <<way, final>>
     \/ Next1(p) = "data" /\ p = Server /\ GoesDown(p, "crashed") /\ UNCHANGED final
  /\ UNCHANGED <<protocol, told, heard>>

\* The loop of dill_tls_detach: SSL_shutdown reads the peer's alert; data the
\* program has not read, and the end of the stream, are errors.
TlsDrain(p) ==
  /\ protocol = "tls" /\ end[p].at = "detaching"
  /\ \/ /\ Next1(p) = "terminal" /\ Consume(p) /\ final' = [final EXCEPT ![p] = TRUE]
        /\ end' = [end EXCEPT ![p].at = "off"]
     \/ Next1(p) \in {"data", "plain", "eof"} /\ GoesDown(p, "closed") /\ UNCHANGED final
  /\ UNCHANGED <<protocol, told, heard>>

\* The deadline of a detach expires, or the connection breaks. TERM and TLS close
\* the socket; WebSocket returns, and the program closes it.
DetachFails(p) ==
  /\ end[p].at = "detaching" /\ GoesDown(p, "closed")
  /\ UNCHANGED <<protocol, told, heard, final>>

\* dill_hclose at any time, and after an error; of the socket underneath, too.
Close(p) ==
  /\ end[p].at \in {"open", "off"} /\ GoesDown(p, "closed")
  /\ UNCHANGED <<protocol, told, heard, final>>

\* The program goes on with the socket underneath.
UnderSend(p) ==
  /\ end[p].at = "off" /\ told[p].plain < MaxData
  /\ told' = [told EXCEPT ![p].plain = @ + 1] /\ Put(p, <<Plain(told'[p].plain)>>)
  /\ UNCHANGED <<protocol, end, heard, final>>
UnderRecv(p) ==
  /\ end[p].at = "off" /\ Next1(p) \in {"data", "terminal", "plain"} /\ Consume(p)
  /\ heard' = [heard EXCEPT ![p].plain = Append(@, Head(way[Peer(p)]))]
  /\ UNCHANGED <<protocol, end, told, final>>

ClosingNext ==
  \E p \in Ends :
    \/ SocketSend(p) \/ SocketRecv(p) \/ TermRecvBehind(p) \/ Done(p) \/ OperationFails(p)
    \/ Detach(p)
    \/ TermDrain(p) \/ WsDrain(p) \/ TlsDrain(p) \/ DetachFails(p) \/ Close(p)
    \/ UnderSend(p) \/ UnderRecv(p)

ClosingSpec == ClosingInit /\ [][ClosingNext]_closingVars

\* A program sooner or later detaches from or closes each socket; the loops of a
\* detach go on as long as something can be read.
ClosingFairness ==
  \A p \in Ends :
    /\ WF_closingVars(Detach(p) \/ Close(p))
    /\ WF_closingVars(TermDrain(p) \/ WsDrain(p) \/ TlsDrain(p))

-----------------------------------------------------------------------------
\* "After the protocol shuts down the peers agree on their position in the
\* message stream" (man/term_detach.3): before the handshake a peer receives only
\* messages, in the order they were sent, and behind it only what was sent behind
\* it, whoever began to close, however much was unread, and by whichever socket it
\* is read (TERM goes on after the terminal message).
PositionsAgree ==
  \A p \in Ends :
    /\ \A i \in DOMAIN heard[p].data : heard[p].data[i] = i
    /\ \A i \in DOMAIN heard[p].plain : heard[p].plain[i] = Plain(i)

\* A detach that was begun returns: the two sides never wait for each other
\* (dill_term_detach, dill_ws_detach and dill_tls_detach send before they read),
\* unless it is that of a WebSocket server, which may not survive what is unread.
DetachEnds ==
  \A p \in Ends :
    end[p].at = "detaching" ~> \/ end[p].at \in {"off", "closed"}
                               \/ protocol = "ws" /\ p = Server /\ end[p].at = "crashed"

\* man/term_detach.3: "The function returns after termination message from the
\* peer is received."
DetachMeansHandshake == \A p \in Ends : end[p].at = "off" => final[p]
=============================================================================
