------------------------------ MODULE DnsSocket ------------------------------
(***************************************************************************)
(* The socket of the DNS resolver (dns_so_* in dns.c): a query goes out by *)
(* UDP, and again by TCP if the answer was truncated; the caller may give  *)
(* a query up at any time and submit the next one on the same object. The  *)
(* network delays, loses, repeats and truncates datagrams. On a TCP        *)
(* connection an answer is a length and a body, which arrive separately.   *)
(***************************************************************************)
EXTENDS Integers, Sequences, FiniteSets

CONSTANTS
  Hosts,      \* name servers
  MaxSubmits, \* bound on the calls of dns_so_submit
  MaxFds      \* bound on the sockets that are opened

ASSUME DnsSocketAssumption == Hosts # {} /\ MaxSubmits \in Nat /\ MaxFds \in Nat

NoFd == 0

VARIABLES
  type,     \* so->type: "any" (0), "stream", "dgram"
  so,       \* the rest of struct dns_socket
  udpNet,   \* answers that are on their way: [qid, tc]
  tcpNet,   \* per fd: what can be read: "length" and "body" of answers to a qid
  peer,     \* per fd: the host a TCP socket is connected to
  openFds,  \* descriptors that are open
  asked,    \* history: the query that was submitted last; a query is a number
  submits,  \* history: number of calls of dns_so_submit
  fetched   \* history: the answer given to the caller, and the query it had then

soVars == <<type, so, udpNet, tcpNet, peer, openFds, asked, submits, fetched>>

Fds == 1..MaxFds
Nobody == "nobody"
NoAnswer == [qid |-> 0, tc |-> FALSE]
NoFetch == [asked |-> 0, qid |-> 0]

\* dns_so_reset zeroes what belongs to a query and keeps the descriptors.
Reset(s) ==
  [s EXCEPT !.state = "none", !.qid = 0, !.host = Nobody, !.sent = FALSE, !.got = <<>>,
            !.answer = NoAnswer]

\* dns_so_init, in dns_res_open: the UDP socket is opened at once.
SocketInit ==
  /\ type \in {"any", "stream", "dgram"}
  /\ so = [state |-> "none", qid |-> 0, host |-> Nobody, sent |-> FALSE, got |-> <<>>,
           answer |-> NoAnswer, udp |-> 1, tcp |-> NoFd, old |-> {}]
  /\ udpNet = {} /\ tcpNet = [f \in Fds |-> <<>>] /\ peer = [f \in Fds |-> Nobody]
  /\ openFds = {1} /\ asked = 0 /\ submits = 0 /\ fetched = NoFetch

\* dns_so_closefd: the descriptor is closed later, so that a poller notices.
Retire(s) == IF s.tcp = NoFd THEN s ELSE [s EXCEPT !.old = @ \cup {s.tcp}, !.tcp = NoFd]

-----------------------------------------------------------------------------
\* dns_so_submit, from DNS_R_FOREACH_A: of a new query or, for the next name server,
\* of one that was submitted before, the latest or that of a frame further down. It
\* keeps its identifier (dns_so_mkqid).
Submit(host, n) ==
  /\ so.state \notin {"closed", "failed"} /\ submits < MaxSubmits
  /\ submits' = submits + 1 /\ asked' = n
  /\ so' = [Reset(so) EXCEPT !.state = IF type = "stream" THEN "tcp init" ELSE "udp init",
                             !.qid = n, !.host = host]
  /\ UNCHANGED <<type, udpNet, tcpNet, peer, openFds, fetched>>

\* dns_so_verify.
VerifyAny(answer) == answer.qid > 0
Verify(answer) == answer.qid = so.qid

\* dns_so_check, up to the place where it has to wait. Connecting a UDP socket
\* and sending on it is done at once; the host answers or not, later.
UdpSend ==
  /\ so.state = "udp init" /\ so' = [so EXCEPT !.state = "udp recv"]
  /\ udpNet' \in {udpNet} \cup {udpNet \cup {[qid |-> so.qid, tc |-> tc]} : tc \in BOOLEAN}
  /\ UNCHANGED <<type, tcpNet, peer, openFds, asked, submits, fetched>>

\* An answer to anything else is dropped; a truncated one is asked for by TCP.
UdpRecv ==
  /\ so.state = "udp recv"
  /\ \E answer \in udpNet :
       /\ udpNet' \in {udpNet, udpNet \ {answer}}
       /\ so' = IF ~Verify(answer) THEN so
                ELSE [so EXCEPT !.answer = answer,
                        !.state = IF answer.tc /\ type # "dgram" THEN "tcp init" ELSE "udp done"]
  /\ UNCHANGED <<type, tcpNet, peer, openFds, asked, submits, fetched>>

\* DNS_SO_TCP_INIT: a connection to the same host is kept (dns_so_tcp_keep), any
\* other one is retired and a socket opened (dns_socket), which may be connected
\* by the time the query is given up.
Keep == so.tcp # NoFd /\ peer[so.tcp] = so.host
TcpInit ==
  /\ so.state = "tcp init"
  /\ IF Keep
     THEN so' = [so EXCEPT !.state = "tcp send"] /\ UNCHANGED <<openFds, peer>>
     ELSE \E f \in Fds \ openFds :
            /\ openFds' = openFds \cup {f} /\ peer' \in {peer, [peer EXCEPT ![f] = so.host]}
            /\ so' = [Retire(so) EXCEPT !.tcp = f, !.state = "tcp conn"]
  /\ UNCHANGED <<type, udpNet, tcpNet, asked, submits, fetched>>
\* dns_socket fails: the old connection has been retired.
TcpInitFails ==
  /\ so.state = "tcp init" /\ ~Keep /\ so' = [Retire(so) EXCEPT !.state = "failed"]
  /\ UNCHANGED <<type, udpNet, tcpNet, peer, openFds, asked, submits, fetched>>

TcpConn ==
  /\ so.state = "tcp conn" /\ peer' = [peer EXCEPT ![so.tcp] = so.host]
  /\ so' = [so EXCEPT !.state = "tcp send"]
  /\ UNCHANGED <<type, udpNet, tcpNet, openFds, asked, submits, fetched>>

\* dns_so_tcp_send: all at once, or a part and the rest when there is room again.
\* The rest is then taken from too far behind (qsrc already includes qout, and
\* qsrc[qout] is sent), and the host gets no question it could answer.
TcpSend ==
  /\ so.state = "tcp send"
  /\ \/ so' = [so EXCEPT !.state = "tcp recv"]
        /\ tcpNet' \in {tcpNet, [tcpNet EXCEPT ![so.tcp] =
                          IF so.sent THEN @ ELSE @ \o <<<<"length", so.qid>>, <<"body", so.qid>>>>]}
     \/ ~so.sent /\ so' = [so EXCEPT !.sent = TRUE] /\ UNCHANGED tcpNet
  /\ UNCHANGED <<type, udpNet, peer, openFds, asked, submits, fetched>>

\* dns_so_tcp_recv: what is read first is the length, whatever it is; then the
\* rest. A body that follows no length of its own is garbage.
TcpRecv ==
  /\ so.state = "tcp recv" /\ tcpNet[so.tcp] # <<>>
  /\ LET got == Append(so.got, Head(tcpNet[so.tcp]))
     IN so' = [so EXCEPT !.got = got, !.state = IF Len(got) = 2 THEN "tcp verify" ELSE @]
  /\ tcpNet' = [tcpNet EXCEPT ![so.tcp] = Tail(@)]
  /\ UNCHANGED <<type, udpNet, peer, openFds, asked, submits, fetched>>

\* DNS_SO_TCP_DONE: the connection is retired unless TCP is used for everything.
Received(got) ==
  IF got[1][1] = "length" /\ got[2][1] = "body" /\ got[1][2] = got[2][2]
  THEN [qid |-> got[1][2], tc |-> FALSE] ELSE NoAnswer
TcpDone ==
  /\ so.state = "tcp verify"
  /\ LET s == IF type = "stream" THEN so ELSE Retire(so)
     IN so' = IF Verify(Received(so.got))
              THEN [s EXCEPT !.state = "tcp done", !.answer = Received(so.got)]
              ELSE [s EXCEPT !.state = "failed"]
  /\ UNCHANGED <<type, udpNet, tcpNet, peer, openFds, asked, submits, fetched>>

\* A call of the system fails: the error is the caller's, who gives up.
CheckFails ==
  /\ so.state \in {"udp init", "udp recv", "tcp conn", "tcp send", "tcp recv"}
  /\ so' = [so EXCEPT !.state = "failed"]
  /\ UNCHANGED <<type, udpNet, tcpNet, peer, openFds, asked, submits, fetched>>

\* dns_so_fetch.
Fetch ==
  /\ so.state \in {"udp done", "tcp done"} /\ so.answer # NoAnswer
  /\ fetched' = [asked |-> asked, qid |-> so.answer.qid]
  /\ so' = [so EXCEPT !.answer = NoAnswer]
  /\ UNCHANGED <<type, udpNet, tcpNet, peer, openFds, asked, submits>>

\* dns_so_clear closes what was retired, dns_so_destroy everything.
Clear ==
  /\ so.state # "closed" /\ so.old # {}
  /\ openFds' = openFds \ so.old /\ so' = [so EXCEPT !.old = {}]
  /\ tcpNet' = [f \in Fds |-> IF f \in so.old THEN <<>> ELSE tcpNet[f]]
  /\ peer' = [f \in Fds |-> IF f \in so.old THEN Nobody ELSE peer[f]]
  /\ UNCHANGED <<type, udpNet, asked, submits, fetched>>
Destroy ==
  /\ so.state # "closed"
  /\ openFds' = openFds \ (so.old \cup {so.udp, so.tcp})
  /\ so' = [Reset(so) EXCEPT !.state = "closed", !.udp = NoFd, !.tcp = NoFd, !.old = {}]
  /\ tcpNet' = [f \in Fds |-> <<>>] /\ peer' = [f \in Fds |-> Nobody]
  /\ UNCHANGED <<type, udpNet, asked, submits, fetched>>

SocketNext ==
  \/ \E host \in Hosts, n \in 1..(submits + 1) : Submit(host, n)
  \/ UdpSend \/ UdpRecv \/ TcpInit \/ TcpInitFails \/ TcpConn \/ TcpSend \/ TcpRecv \/ TcpDone
  \/ CheckFails \/ Fetch \/ Clear \/ Destroy

SocketSpec == SocketInit /\ [][SocketNext]_soVars

-----------------------------------------------------------------------------
\* The answer that is fetched answers the query that was submitted last, though
\* answers to queries that were given up may still arrive by UDP, and be left,
\* whole or in half, in a TCP connection that is used again. Every descriptor is
\* held exactly once, so that the end of the object closes all and none twice.
SocketSound ==
  /\ fetched.qid = fetched.asked
  /\ openFds = so.old \cup ({so.udp, so.tcp} \ {NoFd})
  /\ so.udp \notin so.old /\ (so.tcp = NoFd \/ so.tcp \notin so.old \cup {so.udp})
=============================================================================
