---------------------------- MODULE ResolveProofs ----------------------------
(***************************************************************************)
(* Proofs about connecting by name: happy eyeballs (HappyEyeballs), the    *)
(* socket of the DNS resolver (DnsSocket) and the lookup (Resolver).       *)
(***************************************************************************)
EXTENDS HappyEyeballs, DnsSocket, Resolver, SeqLemmas

-----------------------------------------------------------------------------
(***************************************************************************)
(* Happy eyeballs, for any number of addresses, whichever of them answer.  *)
(***************************************************************************)

AttemptStates == {"none", "connecting", "offering", "given", "ended"}
QueryStates == {"asking", "offering", "done"}
Orders == {<<"ipv6", "ipv4">>, <<"ipv4", "ipv6">>}

HappyTypes ==
  /\ result \subseteq Addrs
  /\ order \in Orders /\ last \in Families \cup {"none"}
  /\ query \in [Families -> [at : QueryStates, count : 0..MaxAddrs, next : Nat]]
  /\ attempt \in [Addrs -> AttemptStates]

\* No address is tried twice: those at and behind the next one of a query are
\* untouched, and a query that was not answered has not offered any.
Untouched ==
  \A f \in Families :
    /\ query[f].at = "asking" => query[f].next = 1
    /\ query[f].next >= 1
    /\ \A i \in 1..MaxAddrs : i >= query[f].next => attempt[<<f, i>>] = "none"

\* The caller holds the one connection that was given away, and nothing runs
\* in the bundle of a coordinator that has ended.
Accounted ==
  /\ \A a \in Addrs : attempt[a] = "given" <=> a \in result
  /\ caller = "waiting" => result = {}
  /\ caller = "returned" => coord = "done"
  /\ coord = "done" => \A a \in Addrs : attempt[a] \notin {"connecting", "offering"}

\* The family that is preferred is not that of the latest attempt.
OtherFirst ==
  /\ coord = "first" => last = "none"
  /\ order[1] # last

HappyInv == HappyTypes /\ Untouched /\ Accounted /\ OtherFirst

LEMMA FamilyFacts ==
  /\ \A f \in Families : Other(f) \in Families /\ Other(f) # f
  /\ \A o \in Orders : o[1] \in Families /\ o[2] \in Families /\ o[1] # o[2]
  /\ \A o \in Orders : <<o[2], o[1]>> \in Orders
<1>1. \A f \in Families : \E g \in Families : g # f
  BY DEF Families
<1>2. \A f \in Families : Other(f) \in Families /\ Other(f) # f
  BY <1>1 DEF Other
<1> QED BY <1>2 DEF Families, Orders

\* dill_happyeyeballs_coordinator has received from the query of family f.
LEMMA UseAddressInv ==
  ASSUME HappyInv, NEW f \in Families, UseAddress(f), query[f].at = "offering",
         coord \in {"first", "choosing"}, UNCHANGED <<reachable, caller, result>>
  PROVE  HappyInv'
<1>1. CASE query[f].next > query[f].count
  <2>1. /\ query' = [query EXCEPT ![f].at = "done"] /\ coord' = "choosing"
        /\ UNCHANGED <<order, attempt, last>>
    BY <1>1 DEF UseAddress
  <2>2. HappyTypes'
    BY <2>1 DEF HappyInv, HappyTypes, QueryStates
  <2>3. Untouched'
    BY <2>1 DEF HappyInv, HappyTypes, Untouched
  <2>4. Accounted' /\ OtherFirst'
    BY <2>1 DEF HappyInv, Accounted, OtherFirst
  <2> QED BY <2>2, <2>3, <2>4 DEF HappyInv
<1>2. CASE ~(query[f].next > query[f].count)
  <2> DEFINE n == query[f].next
             a == <<f, n>>
  <2>1. /\ query' = [query EXCEPT ![f].next = n + 1]
        /\ attempt' = [attempt EXCEPT ![a] = "connecting"]
        /\ order' = Alternated(f) /\ last' = f /\ coord' = "sleeping"
    BY <1>2 DEF UseAddress
  <2>2. n \in 1..MaxAddrs /\ a \in Addrs
    BY <1>2, HappyAssumption DEF HappyInv, HappyTypes, Untouched, Addrs
  <2>3. attempt[a] = "none"
    BY <2>2 DEF HappyInv, Untouched
  <2>4. order' \in Orders /\ order'[1] # f
    BY <2>1, FamilyFacts DEF HappyInv, HappyTypes, Alternated
  <2>5. HappyTypes'
    BY <2>1, <2>2, <2>4 DEF HappyInv, HappyTypes, AttemptStates
  <2>6. Untouched'
    BY <2>1, <2>2 DEF HappyInv, HappyTypes, Untouched, Addrs
  <2>7. Accounted'
    BY <2>1, <2>2, <2>3 DEF HappyInv, HappyTypes, Accounted
  <2>8. OtherFirst'
    BY <2>1, <2>4 DEF OtherFirst
  <2> QED BY <2>5, <2>6, <2>7, <2>8 DEF HappyInv
<1> QED BY <1>1, <1>2

\* An attempt moves on; nothing else does.
LEMMA AttemptInv ==
  ASSUME HappyInv, NEW a \in Addrs, NEW s \in {"offering", "ended"},
         attempt[a] \in {"connecting", "offering"},
         attempt' = [attempt EXCEPT ![a] = s],
         UNCHANGED <<caller, result, coord, order, query, last>>
  PROVE  HappyInv'
<1>1. HappyTypes'
  BY DEF HappyInv, HappyTypes, AttemptStates
<1>2. Untouched'
  BY DEF HappyInv, HappyTypes, Untouched
<1>3. Accounted' /\ OtherFirst'
  BY DEF HappyInv, HappyTypes, Accounted, OtherFirst
<1> QED BY <1>1, <1>2, <1>3 DEF HappyInv

LEMMA HappyNextInv == HappyInv /\ [HappyNext]_heVars => HappyInv'
<1> SUFFICES ASSUME HappyInv, [HappyNext]_heVars PROVE HappyInv'
  OBVIOUS
<1>1. ASSUME NEW f \in Families, QueryAnswered(f) PROVE HappyInv'
  <2>1. PICK n \in 0..MaxAddrs :
            query' = [query EXCEPT ![f] = [at |-> "offering", count |-> n, next |-> 1]]
    BY <1>1 DEF QueryAnswered
  <2>2. query[f].at = "asking" /\ UNCHANGED <<caller, result, coord, order, attempt, last>>
    BY <1>1 DEF QueryAnswered
  <2>3. HappyTypes'
    BY <2>1, <2>2 DEF HappyInv, HappyTypes, QueryStates
  <2>4. Untouched'
    BY <2>1, <2>2 DEF HappyInv, HappyTypes, Untouched
  <2>5. Accounted' /\ OtherFirst'
    BY <2>2 DEF HappyInv, Accounted, OtherFirst
  <2> QED BY <2>3, <2>4, <2>5 DEF HappyInv
<1>2. ASSUME NEW a \in Addrs, Connected(a) \/ ConnectFailed(a) \/ Canceled(a)
      PROVE  HappyInv'
  BY <1>2, AttemptInv DEF Connected, ConnectFailed, Canceled
<1>3. ASSUME NEW a \in Addrs, TakeConnection(a) PROVE HappyInv'
  <2>1. /\ caller = "waiting" /\ attempt[a] = "offering" /\ result' = {a}
        /\ attempt' = [attempt EXCEPT ![a] = "given"] /\ caller' = "closing"
        /\ UNCHANGED <<coord, order, query, last>>
    BY <1>3 DEF TakeConnection
  <2>2. HappyTypes'
    BY <2>1 DEF HappyInv, HappyTypes, AttemptStates
  <2>3. Untouched'
    BY <2>1 DEF HappyInv, HappyTypes, Untouched
  <2>4. Accounted' /\ OtherFirst'
    BY <2>1 DEF HappyInv, HappyTypes, Accounted, OtherFirst
  <2> QED BY <2>2, <2>3, <2>4 DEF HappyInv
<1>4. CASE First
  BY <1>4, UseAddressInv DEF First, Families
<1>5. CASE Choose
  <2>1. PICK i \in 1..2 : query[order[i]].at = "offering" /\ UseAddress(order[i])
    BY <1>5 DEF Choose
  <2>2. order[i] \in Families
    BY <2>1, FamilyFacts DEF HappyInv, HappyTypes
  <2> QED BY <1>5, <2>1, <2>2, UseAddressInv DEF Choose
<1>6. CASE FirstTimesOut \/ Slept \/ GiveUp \/ CloseCoordinator \/ Return
  <2>1. UNCHANGED <<result, order, query, attempt, last>>
    BY <1>6 DEF FirstTimesOut, Slept, GiveUp, CloseCoordinator, Return
  <2>2. HappyTypes' /\ Untouched'
    BY <2>1 DEF HappyInv, HappyTypes, Untouched
  <2>3. Accounted' /\ OtherFirst'
    BY <1>6 DEF HappyInv, Accounted, OtherFirst, FirstTimesOut, Slept, GiveUp,
                CloseCoordinator, Return
  <2> QED BY <2>2, <2>3 DEF HappyInv
<1>7. CASE CoordinatorEnds
  <2>1. /\ \A a \in Addrs : attempt[a] \notin {"connecting", "offering"}
        /\ query' = [f \in Families |-> [query[f] EXCEPT !.at = "done"]]
        /\ UNCHANGED <<caller, result, order, attempt, last>>
        /\ coord' = "done" /\ coord = "closing"
    BY <1>7 DEF CoordinatorEnds
  <2>2. HappyTypes'
    BY <2>1 DEF HappyInv, HappyTypes, QueryStates
  <2>3. Untouched'
    BY <2>1 DEF HappyInv, HappyTypes, Untouched
  <2>4. Accounted' /\ OtherFirst'
    BY <2>1 DEF HappyInv, Accounted, OtherFirst
  <2> QED BY <2>2, <2>3, <2>4 DEF HappyInv
<1>8. CASE UNCHANGED heVars
  BY <1>8 DEF heVars, HappyInv, HappyTypes, Untouched, Accounted, OtherFirst
<1> QED BY <1>1, <1>2, <1>3, <1>4, <1>5, <1>6, <1>7, <1>8 DEF HappyNext, Closing1

LEMMA HappyInvariance == HappySpec => []HappyInv
<1>1. HappyInit => HappyInv
  <2> SUFFICES ASSUME HappyInit PROVE HappyInv
    OBVIOUS
  <2>1. HappyTypes
    BY HappyAssumption DEF HappyInit, HappyTypes, Orders, Families, QueryStates, AttemptStates
  <2>2. Untouched
    BY DEF HappyInit, Untouched, Addrs
  <2>3. Accounted /\ OtherFirst
    BY DEF HappyInit, Accounted, OtherFirst
  <2> QED BY <2>1, <2>2, <2>3 DEF HappyInv
<1> QED BY <1>1, HappyNextInv, PTL DEF HappySpec

\* happyeyeballs_connect leaves no connection open but the one it returns, for
\* any number of addresses and however far the other attempts have come.
THEOREM ConnectionsCorrect == HappySpec => []OneConnection
<1>1. HappyInv => OneConnection
  <2> SUFFICES ASSUME HappyInv, caller = "returned"
               PROVE  {a \in Addrs : attempt[a] \in {"connecting", "offering", "given"}} = result
    BY DEF OneConnection
  <2> QED BY DEF HappyInv, HappyTypes, Accounted
<1> QED BY <1>1, HappyInvariance, PTL

\* The attempts alternate between the families as long as both have addresses,
\* whenever the queries are answered.
THEOREM FamiliesAlternate == HappySpec => Alternates
<1> DEFINE A == \A f \in Families : query'[f].next # query[f].next /\ last = f => ~Offers(Other(f))
<1>1. HappyInv /\ [HappyNext]_heVars => [A]_heVars
  <2> SUFFICES ASSUME HappyInv, HappyNext, NEW f \in Families,
                      query'[f].next # query[f].next, last = f, Offers(Other(f))
               PROVE  FALSE
    OBVIOUS
  <2>1. query \in [Families -> [at : QueryStates, count : 0..MaxAddrs, next : Nat]]
    BY DEF HappyInv, HappyTypes
  <2>2. ASSUME NEW g \in Families, QueryAnswered(g) PROVE FALSE
    BY <2>1, <2>2 DEF QueryAnswered, HappyInv, Untouched
  <2>3. ASSUME NEW g \in Families, UseAddress(g) PROVE f = g
    BY <2>1, <2>3 DEF UseAddress
  <2>4. CASE First
    BY <2>4 DEF First, HappyInv, OtherFirst, Families
  <2>5. CASE Choose
    <3>1. PICK i \in 1..2 :
              /\ query[order[i]].at = "offering" /\ (i = 2 => query[order[1]].at # "offering")
              /\ UseAddress(order[i])
      BY <2>5 DEF Choose
    <3>2. order \in Orders /\ order[i] \in Families
      BY <3>1, FamilyFacts DEF HappyInv, HappyTypes
    <3>3. f = order[i]
      BY <2>3, <3>1, <3>2
    <3>4. i = 2
      BY <3>1, <3>3 DEF HappyInv, OtherFirst
    <3>5. Other(f) = order[1]
      BY <3>2, <3>3, <3>4, FamilyFacts DEF Families
    <3> QED BY <3>1, <3>4, <3>5 DEF Offers
  <2>6. CASE CoordinatorEnds
    BY <2>1, <2>6 DEF CoordinatorEnds
  <2> QED BY <2>2, <2>4, <2>5, <2>6
          DEF HappyNext, Connected, ConnectFailed, Canceled, TakeConnection,
              FirstTimesOut, Slept, GiveUp, Closing1, CloseCoordinator, Return
<1> QED BY <1>1, HappyInvariance, PTL DEF HappySpec, Alternates

-----------------------------------------------------------------------------
(***************************************************************************)
(* The socket of the resolver, for any number of name servers, queries and *)
(* descriptors.                                                            *)
(***************************************************************************)

Parts == {"length", "body"} \X Nat
Replies == [qid : Nat, tc : BOOLEAN]
SocketStates == {"none", "udp init", "udp recv", "udp done", "tcp init", "tcp conn",
                 "tcp send", "tcp recv", "tcp verify", "tcp done", "failed", "closed"}
Sockets == [state : SocketStates, qid : Nat, host : Hosts \cup {Nobody}, sent : BOOLEAN,
            got : Seq(Parts), answer : Replies, udp : Nat, tcp : Fds \cup {NoFd},
            old : SUBSET Nat]

SocketTypes ==
  /\ so \in Sockets /\ asked \in Nat
  /\ udpNet \subseteq Replies /\ tcpNet \in [Fds -> Seq(Parts)]
  /\ so.state \in {"tcp conn", "tcp send", "tcp recv"} => so.tcp \in Fds
  /\ so.state = "tcp verify" => Len(so.got) = 2

\* A socket that is not closed is about the latest query, and so is the answer
\* it keeps.
AboutLatest ==
  /\ so.state # "closed" => so.qid = asked
  /\ so.answer # NoAnswer => so.answer.qid = so.qid /\ so.state # "closed"
  /\ fetched.qid = fetched.asked

\* Who holds which descriptor.
HeldOnce ==
  /\ openFds = so.old \cup ({so.udp, so.tcp} \ {NoFd})
  /\ so.udp \notin so.old /\ (so.tcp = NoFd \/ so.tcp \notin so.old \cup {so.udp})

SocketInv == SocketTypes /\ AboutLatest /\ HeldOnce

\* The type of struct dns_socket, field by field where it matters.
LEMMA SocketFields ==
  ASSUME SocketInv
  PROVE  /\ so \in Sockets /\ asked \in Nat
         /\ so.tcp \in Nat /\ so.old \subseteq Nat /\ so.got \in Seq(Parts)
         /\ NoAnswer \in Replies /\ <<>> \in Seq(Parts)
<1>1. so \in Sockets /\ asked \in Nat
  BY Zenon DEF SocketInv, SocketTypes
<1>2. so.tcp \in Nat /\ so.old \subseteq Nat /\ so.got \in Seq(Parts)
  BY <1>1 DEF Sockets, NoFd, Fds
<1>3. NoAnswer \in Replies
  BY DEF NoAnswer, Replies
<1> QED BY <1>1, <1>2, <1>3

\* dns_so_closefd.
LEMMA RetireFacts ==
  ASSUME SocketInv
  PROVE  /\ Retire(so) \in Sockets
         /\ Retire(so).tcp = NoFd /\ Retire(so).udp = so.udp
         /\ Retire(so).old = so.old \cup ({so.tcp} \ {NoFd})
         /\ Retire(so).state = so.state /\ Retire(so).qid = so.qid
         /\ Retire(so).answer = so.answer /\ Retire(so).got = so.got
<1>1. so \in Sockets /\ so.tcp \in Nat /\ so.old \subseteq Nat
  BY SocketFields
<1>2. CASE so.tcp = NoFd
  BY <1>1, <1>2 DEF Retire
<1>3. CASE so.tcp # NoFd
  <2>1. Retire(so) = [so EXCEPT !.old = so.old \cup {so.tcp}, !.tcp = NoFd]
    BY <1>3 DEF Retire
  <2> QED BY <1>1, <1>3, <2>1 DEF Sockets
<1> QED BY <1>2, <1>3

\* dns_so_submit.
LEMMA SubmitInv ==
  ASSUME SocketInv, NEW host \in Hosts, NEW n \in Nat, Submit(host, n)
  PROVE  SocketInv'
<1>0. asked' = n
  BY DEF Submit
<1>1. /\ so.state # "closed"
      /\ so' = [Reset(so) EXCEPT !.state = IF type = "stream" THEN "tcp init" ELSE "udp init",
                                 !.qid = n, !.host = host]
      /\ UNCHANGED <<type, udpNet, tcpNet, peer, openFds, fetched>>
  BY DEF Submit
<1> DEFINE z == Reset(so)
<1>3. /\ z \in Sockets /\ z.answer = NoAnswer
      /\ z.udp = so.udp /\ z.tcp = so.tcp /\ z.old = so.old
  <2>1. so \in Sockets /\ NoAnswer \in Replies /\ <<>> \in Seq(Parts)
    BY SocketFields
  <2> QED BY <2>1 DEF Sockets, SocketStates, Reset
<1>4. so' = [z EXCEPT !.state = IF type = "stream" THEN "tcp init" ELSE "udp init",
                      !.qid = n, !.host = host]
  BY <1>1
<1> HIDE DEF z
<1>2. /\ so' \in Sockets /\ so'.state \in {"tcp init", "udp init"} /\ so'.qid = asked'
      /\ so'.answer = NoAnswer
      /\ so'.udp = so.udp /\ so'.tcp = so.tcp /\ so'.old = so.old
  BY <1>0, <1>3, <1>4 DEF Sockets, SocketStates
<1> QED BY <1>0, <1>1, <1>2 DEF SocketInv, SocketTypes, AboutLatest, HeldOnce

LEMMA UdpInv == ASSUME SocketInv, UdpSend \/ UdpRecv PROVE SocketInv'
<1>1. CASE UdpSend
  <2>1. /\ so.state = "udp init" /\ so' = [so EXCEPT !.state = "udp recv"]
        /\ UNCHANGED <<type, tcpNet, peer, openFds, asked, submits, fetched>>
    BY <1>1 DEF UdpSend
  <2>2. udpNet' \subseteq Replies
    <3>1. so.qid \in Nat /\ udpNet \subseteq Replies
      BY DEF SocketInv, SocketTypes, Sockets
    <3>2. \A tc \in BOOLEAN : [qid |-> so.qid, tc |-> tc] \in Replies
      BY <3>1 DEF Replies
    <3> QED BY <1>1, <3>1, <3>2 DEF UdpSend
  <2> QED BY <2>1, <2>2 DEF SocketInv, SocketTypes, Sockets, SocketStates, AboutLatest, HeldOnce
<1>2. CASE UdpRecv
  <2>1. PICK answer \in udpNet :
          /\ udpNet' \in {udpNet, udpNet \ {answer}}
          /\ so' = IF ~Verify(answer) THEN so
                ELSE [so EXCEPT !.answer = answer,
                        !.state = IF answer.tc /\ type # "dgram" THEN "tcp init" ELSE "udp done"]
    BY <1>2 DEF UdpRecv
  <2>2. /\ so.state = "udp recv" /\ udpNet' \subseteq Replies /\ answer \in Replies
        /\ UNCHANGED <<type, tcpNet, peer, openFds, asked, submits, fetched>>
    BY <1>2, <2>1 DEF UdpRecv, SocketInv, SocketTypes
  <2>3. CASE ~Verify(answer)
    BY <2>1, <2>2, <2>3 DEF SocketInv, SocketTypes, AboutLatest, HeldOnce
  <2>4. CASE Verify(answer)
    <3>1. /\ so' \in Sockets /\ so'.state \in {"tcp init", "udp done"}
          /\ so'.qid = so.qid /\ so'.answer = answer /\ answer.qid = so.qid
          /\ so'.udp = so.udp /\ so'.tcp = so.tcp /\ so'.old = so.old
      BY <2>1, <2>2, <2>4 DEF SocketInv, SocketTypes, Sockets, SocketStates, Verify
    <3> QED BY <2>2, <3>1 DEF SocketInv, SocketTypes, AboutLatest, HeldOnce
  <2> QED BY <2>3, <2>4
<1> QED BY <1>1, <1>2

\* DNS_SO_TCP_INIT: the old connection is retired before a new one takes its
\* place, and the new descriptor is one that nobody holds.
LEMMA TcpInitInv == ASSUME SocketInv, TcpInit \/ TcpInitFails PROVE SocketInv'
<1>1. /\ so.state = "tcp init"
      /\ UNCHANGED <<type, udpNet, tcpNet, asked, submits, fetched>>
  BY DEF TcpInit, TcpInitFails
<1>2. CASE TcpInit /\ Keep
  <2>1. so' = [so EXCEPT !.state = "tcp send"] /\ so.tcp \in Fds /\ openFds' = openFds
    BY <1>2 DEF TcpInit, Keep, SocketInv, SocketTypes, Sockets
  <2> QED BY <1>1, <2>1 DEF SocketInv, SocketTypes, Sockets, SocketStates, AboutLatest, HeldOnce
<1>3. CASE TcpInit /\ ~Keep
  <2>1. PICK f \in Fds \ openFds :
            /\ openFds' = openFds \cup {f}
            /\ so' = [Retire(so) EXCEPT !.tcp = f, !.state = "tcp conn"]
    BY <1>3 DEF TcpInit
  <2>2. /\ so' \in Sockets /\ so'.state = "tcp conn" /\ so'.tcp = f
        /\ so'.qid = so.qid /\ so'.answer = so.answer /\ so'.udp = so.udp
        /\ so'.old = so.old \cup ({so.tcp} \ {NoFd})
    BY <2>1, RetireFacts DEF Sockets, SocketStates
  <2>3. f # NoFd
    BY DEF Fds, NoFd
  <2>4. HeldOnce'
    BY <2>1, <2>2, <2>3 DEF SocketInv, HeldOnce
  <2> QED BY <1>1, <2>2, <2>4 DEF SocketInv, SocketTypes, AboutLatest
<1>4. CASE TcpInitFails
  <2>1. so' = [Retire(so) EXCEPT !.state = "failed"] /\ openFds' = openFds
    BY <1>4 DEF TcpInitFails
  <2>2. /\ so' \in Sockets /\ so'.state = "failed" /\ so'.tcp = NoFd
        /\ so'.qid = so.qid /\ so'.answer = so.answer /\ so'.udp = so.udp
        /\ so'.old = so.old \cup ({so.tcp} \ {NoFd})
    BY <2>1, RetireFacts DEF Sockets, SocketStates
  <2>3. HeldOnce'
    BY <2>1, <2>2 DEF SocketInv, HeldOnce
  <2> QED BY <1>1, <2>2, <2>3 DEF SocketInv, SocketTypes, AboutLatest
<1> QED BY <1>2, <1>3, <1>4

LEMMA TcpExchangeInv == ASSUME SocketInv, TcpConn \/ TcpSend \/ TcpRecv PROVE SocketInv'
<1>0. /\ so.tcp \in Fds /\ so.state # "closed" /\ so \in Sockets
      /\ UNCHANGED <<type, udpNet, openFds, asked, submits, fetched>>
  BY DEF TcpConn, TcpSend, TcpRecv, SocketInv, SocketTypes
<1>1. CASE TcpConn
  <2>1. so' = [so EXCEPT !.state = "tcp send"] /\ tcpNet' = tcpNet
    BY <1>1 DEF TcpConn
  <2> QED BY <1>0, <2>1 DEF SocketInv, SocketTypes, Sockets, SocketStates, AboutLatest, HeldOnce
<1>2. CASE TcpSend
  <2>1. tcpNet' \in [Fds -> Seq(Parts)]
    <3>1. so.qid \in Nat /\ tcpNet \in [Fds -> Seq(Parts)]
      BY DEF SocketInv, SocketTypes, Sockets
    <3>2. <<<<"length", so.qid>>, <<"body", so.qid>>>> \in Seq(Parts)
      BY <3>1 DEF Parts
    <3>3. tcpNet[so.tcp] \o <<<<"length", so.qid>>, <<"body", so.qid>>>> \in Seq(Parts)
      BY <1>0, <3>1, <3>2
    <3> QED BY <1>0, <1>2, <3>1, <3>3 DEF TcpSend
  <2>2. so' = [so EXCEPT !.state = "tcp recv"] \/ so' = [so EXCEPT !.sent = TRUE]
    BY <1>2 DEF TcpSend
  <2>3. so.state = "tcp send"
    BY <1>2 DEF TcpSend
  <2>4. /\ so' \in Sockets /\ so'.state \in {"tcp send", "tcp recv"}
        /\ so'.qid = so.qid /\ so'.answer = so.answer
        /\ so'.udp = so.udp /\ so'.tcp = so.tcp /\ so'.old = so.old
    BY <1>0, <2>2, <2>3 DEF Sockets, SocketStates
  <2> QED BY <1>0, <2>1, <2>4 DEF SocketInv, SocketTypes, AboutLatest, HeldOnce
<1>3. CASE TcpRecv
  <2> DEFINE got == Append(so.got, Head(tcpNet[so.tcp]))
  <2>1. /\ so.state = "tcp recv" /\ tcpNet[so.tcp] # <<>>
        /\ so' = [so EXCEPT !.got = got, !.state = IF Len(got) = 2 THEN "tcp verify" ELSE @]
        /\ tcpNet' = [tcpNet EXCEPT ![so.tcp] = Tail(@)]
    BY <1>3 DEF TcpRecv
  <2>2. tcpNet \in [Fds -> Seq(Parts)] /\ tcpNet[so.tcp] \in Seq(Parts) /\ so.got \in Seq(Parts)
    BY <1>0 DEF SocketInv, SocketTypes, Sockets
  <2>3. Head(tcpNet[so.tcp]) \in Parts /\ Tail(tcpNet[so.tcp]) \in Seq(Parts)
    BY <2>1, <2>2, RangeTail
  <2>4. tcpNet' \in [Fds -> Seq(Parts)]
    BY <1>0, <2>1, <2>2, <2>3
  <2>6. got \in Seq(Parts)
    BY <2>2, <2>3, RangePush
  <2> HIDE DEF got
  <2>5. /\ so' \in Sockets /\ so'.got = got
        /\ so'.state = IF Len(got) = 2 THEN "tcp verify" ELSE "tcp recv"
        /\ so'.qid = so.qid /\ so'.answer = so.answer
        /\ so'.udp = so.udp /\ so'.tcp = so.tcp /\ so'.old = so.old
    BY <1>0, <2>1, <2>6 DEF Sockets, SocketStates
  <2> QED BY <1>0, <2>4, <2>5 DEF SocketInv, SocketTypes, AboutLatest, HeldOnce
<1> QED BY <1>1, <1>2, <1>3

\* DNS_SO_TCP_DONE: what is left in a connection that was used before is put
\* together with what the next query reads, and does not pass for its answer.
LEMMA TcpDoneInv == ASSUME SocketInv, TcpDone PROVE SocketInv'
<1> DEFINE s == IF type = "stream" THEN so ELSE Retire(so)
           a == Received(so.got)
<1>1. /\ so.state = "tcp verify" /\ so \in Sockets /\ Len(so.got) = 2
      /\ UNCHANGED <<type, udpNet, tcpNet, peer, openFds, asked, submits, fetched>>
      /\ so' = IF Verify(a) THEN [s EXCEPT !.state = "tcp done", !.answer = a]
               ELSE [s EXCEPT !.state = "failed"]
  BY DEF TcpDone, SocketInv, SocketTypes
<1>2. a \in Replies
  <2>1. so.got[1] \in Parts
    <3>0. Len(so.got) = 2
      BY <1>1
    <3>1. so.got \in Seq(Parts) /\ 1 \in 1..Len(so.got)
      BY <3>0, SocketFields
    <3>2. \A q \in Seq(Parts) : \A i \in 1..Len(q) : q[i] \in Parts
      OBVIOUS
    <3> QED BY <3>1, <3>2
  <2>2. so.got[1][2] \in Nat
    BY <2>1 DEF Parts
  <2> QED BY <2>2 DEF Received, NoAnswer, Replies
<1>3. /\ s \in Sockets /\ s.qid = so.qid /\ s.answer = so.answer /\ s.udp = so.udp
      /\ \/ s.tcp = so.tcp /\ s.old = so.old
         \/ s.tcp = NoFd /\ s.old = so.old \cup ({so.tcp} \ {NoFd})
  BY <1>1, RetireFacts
<1> HIDE DEF s, a
<1>4. /\ so' \in Sockets /\ so'.state \in {"tcp done", "failed"} /\ so'.qid = so.qid
      /\ so'.answer = so.answer \/ (so'.answer = a /\ a.qid = so.qid)
      /\ so'.udp = s.udp /\ so'.tcp = s.tcp /\ so'.old = s.old
  <2>1. CASE Verify(a)
    <3>1. so' = [s EXCEPT !.state = "tcp done", !.answer = a]
      BY <1>1, <2>1
    <3>2. a.qid = so.qid
      BY <2>1 DEF Verify
    <3>3. /\ so' \in Sockets /\ so'.state = "tcp done" /\ so'.qid = s.qid /\ so'.answer = a
          /\ so'.udp = s.udp /\ so'.tcp = s.tcp /\ so'.old = s.old
      BY <1>2, <1>3, <3>1 DEF Sockets, SocketStates
    <3> QED BY <1>3, <3>2, <3>3
  <2>2. CASE ~Verify(a)
    <3>1. so' = [s EXCEPT !.state = "failed"]
      BY <1>1, <2>2
    <3>2. /\ so' \in Sockets /\ so'.state = "failed" /\ so'.qid = s.qid /\ so'.answer = s.answer
          /\ so'.udp = s.udp /\ so'.tcp = s.tcp /\ so'.old = s.old
      BY <1>3, <3>1 DEF Sockets, SocketStates
    <3> QED BY <1>3, <3>2
  <2> QED BY <2>1, <2>2
<1>5. HeldOnce'
  BY <1>1, <1>3, <1>4 DEF SocketInv, HeldOnce
<1>6. AboutLatest'
  BY <1>1, <1>4 DEF SocketInv, AboutLatest
<1> QED BY <1>1, <1>4, <1>5, <1>6 DEF SocketInv, SocketTypes

\* dns_so_fetch, and a query that is given up.
LEMMA FetchInv == ASSUME SocketInv, Fetch \/ CheckFails PROVE SocketInv'
<1>1. /\ so \in Sockets /\ NoAnswer \in Replies
      /\ UNCHANGED <<type, udpNet, tcpNet, peer, openFds, asked, submits>>
  BY DEF Fetch, CheckFails, SocketInv, SocketTypes, NoAnswer, Replies
<1>2. CASE Fetch
  <2>1. /\ so.state \in {"udp done", "tcp done"} /\ so.answer # NoAnswer
        /\ fetched' = [asked |-> asked, qid |-> so.answer.qid]
        /\ so' = [so EXCEPT !.answer = NoAnswer]
    BY <1>2 DEF Fetch
  <2> QED BY <1>1, <2>1 DEF SocketInv, SocketTypes, Sockets, AboutLatest, HeldOnce
<1>3. CASE CheckFails
  <2>1. /\ so.state # "closed" /\ fetched' = fetched
        /\ so' = [so EXCEPT !.state = "failed"]
    BY <1>3 DEF CheckFails
  <2> QED BY <1>1, <2>1 DEF SocketInv, SocketTypes, Sockets, SocketStates, AboutLatest, HeldOnce
<1> QED BY <1>2, <1>3

\* dns_so_clear and dns_so_destroy.
LEMMA ClearInv == ASSUME SocketInv, Clear \/ Destroy PROVE SocketInv'
<1>1. /\ so \in Sockets /\ NoAnswer \in Replies /\ <<>> \in Seq(Parts)
      /\ tcpNet \in [Fds -> Seq(Parts)] /\ so.state # "closed"
      /\ UNCHANGED <<type, udpNet, asked, submits, fetched>>
  <2>1. so \in Sockets /\ tcpNet \in [Fds -> Seq(Parts)]
    BY DEF SocketInv, SocketTypes
  <2>2. NoAnswer \in Replies /\ <<>> \in Seq(Parts)
    BY DEF NoAnswer, Replies
  <2>3. so.state # "closed" /\ UNCHANGED <<type, udpNet, asked, submits, fetched>>
    BY DEF Clear, Destroy
  <2> QED BY <2>1, <2>2, <2>3
<1>2. tcpNet' \in [Fds -> Seq(Parts)]
  BY <1>1 DEF Clear, Destroy
<1>3. CASE Clear
  <2>1. openFds' = openFds \ so.old /\ so' = [so EXCEPT !.old = {}]
    BY <1>3 DEF Clear
  <2>2. HeldOnce'
    BY <1>1, <2>1 DEF SocketInv, HeldOnce, Sockets
  <2> QED BY <1>1, <1>2, <2>1, <2>2 DEF SocketInv, SocketTypes, Sockets, AboutLatest
<1>4. CASE Destroy
  <2>1. /\ openFds' = openFds \ (so.old \cup {so.udp, so.tcp})
        /\ so' = [Reset(so) EXCEPT !.state = "closed", !.udp = NoFd, !.tcp = NoFd, !.old = {}]
    BY <1>4 DEF Destroy
  <2>2. /\ so' \in Sockets /\ so'.state = "closed" /\ so'.answer = NoAnswer
        /\ so'.udp = NoFd /\ so'.tcp = NoFd /\ so'.old = {}
    BY <1>1, <2>1 DEF Reset, Sockets, SocketStates, NoFd
  <2>3. HeldOnce'
    BY <2>1, <2>2 DEF SocketInv, HeldOnce
  <2> QED BY <1>1, <1>2, <2>2, <2>3 DEF SocketInv, SocketTypes, AboutLatest
<1> QED BY <1>3, <1>4

LEMMA SocketNextInv == SocketInv /\ [SocketNext]_soVars => SocketInv'
<1> SUFFICES ASSUME SocketInv, [SocketNext]_soVars PROVE SocketInv'
  OBVIOUS
<1>1. ASSUME NEW host \in Hosts, NEW n \in 1..(submits + 1), Submit(host, n) PROVE SocketInv'
  <2>1. n \in Nat
    OBVIOUS
  <2> QED BY <1>1, <2>1, SubmitInv
<1>2. CASE UNCHANGED soVars
  BY <1>2 DEF soVars, SocketInv, SocketTypes, AboutLatest, HeldOnce
<1> QED BY <1>1, <1>2, UdpInv, TcpInitInv, TcpExchangeInv, TcpDoneInv, FetchInv, ClearInv
        DEF SocketNext

\* The answer that is fetched is the one to the latest query, whatever arrives
\* late, and every descriptor is held exactly once: for any number of queries,
\* name servers and connections that are used again.
THEOREM SocketCorrect == SocketSpec => []SocketSound
<1>1. SocketInit => SocketInv
  <2> SUFFICES ASSUME SocketInit PROVE SocketInv
    OBVIOUS
  <2>1. so \in Sockets /\ so.state = "none" /\ so.qid = 0 /\ so.answer = NoAnswer
          /\ so.udp = 1 /\ so.tcp = NoFd /\ so.old = {}
    BY DEF SocketInit, Sockets, SocketStates, NoAnswer, Replies, NoFd
  <2>2. tcpNet \in [Fds -> Seq(Parts)] /\ udpNet = {} /\ asked = 0
          /\ openFds = {1} /\ fetched.qid = fetched.asked
    BY DEF SocketInit, NoFetch
  <2> QED BY <2>1, <2>2 DEF SocketInv, SocketTypes, AboutLatest, HeldOnce, NoFd
<1>2. SocketInv => SocketSound
  BY DEF SocketInv, AboutLatest, HeldOnce, SocketSound
<1> QED BY <1>1, <1>2, SocketNextInv, PTL DEF SocketSpec

-----------------------------------------------------------------------------
(***************************************************************************)
(* The lookup of a name, for any search list, hosts file, depth of the     *)
(* stack and length of chains of aliases, and any addresses and aliases    *)
(* that servers give.                                                      *)
(***************************************************************************)

Levels == 0..(MaxDepth - 1)

IsFrame(f) ==
  f \in [state : {f.state}, which : {f.which}, attempts : {f.attempts}, query : {f.query},
         answer : {f.answer}, ns : {f.ns}, host : {f.host}, glue : {f.glue}, tried : {f.tried}]

\* A frame keeps only records that were received for this type, and has an answer
\* when it is about to be looked at.
FrameSound(f) ==
  /\ IsFrame(f)
  /\ f.answer.none \/ f.answer.recs \subseteq said
  /\ f.state \in {"done", "cname0", "cname1"} => ~f.answer.none

\* The frames under the top one wait for the one above; a frame that goes on after
\* that finds it done.
Waiting == {"resolv1", "cname1"}
Nested ==
  /\ sp \in Levels
  /\ \A i \in Levels : i < sp => stack[i].state \in Waiting
  /\ stack[sp].state \in Waiting => sp + 1 \in Levels /\ stack[sp + 1].state = "done"

\* The bottom frame asks for one of the candidates, and so does its answer, or it has no records.
Asking == Waiting \cup {"hints", "iterate", "foreach ns", "resolv0", "foreach a", "query a", "cname0"}
Asked(n) == n \in Range1(Candidates)
BottomSound(f) ==
  /\ f.state \in Asking => Asked(f.query.name) /\ f.query.type = Qtype
  /\ f.state \in {"cname0", "cname1"} => Asked(f.answer.q.name)
  /\ f.answer.none \/ f.answer.recs = {} \/ Asked(f.answer.q.name)

\* An address in the answer to the question itself is in the answer of the bottom frame
\* to the end.
Direct(p) == Matching(p, p.q.name, Qtype) # {}
HitSound(f) ==
  sp = 0 /\ f.state \in {"finish", "done"} /\ ~f.answer.none /\ Direct(f.answer)

Sources ==
  /\ HostsFile \subseteq said /\ search \in 0..Len(Candidates)
  /\ nodata.none \/ nodata.recs = {}

\* The entries of the answer are given one by one.
GivenSound ==
  /\ \E state, given : ai = [state |-> state, given |-> given]
  /\ \/ ai.state = "check" /\ ai.given = {}
     \/ ai.state = "foreach" /\ sp = 0 /\ stack[0].state = "done"
  /\ \A e \in ai.given : e \in said /\ e.name \in NamesFrom(Range1(Candidates))

\* The array has nothing of the types to come, and at its end what was given of this type.
Types == {<<"A">>, <<"AAAA">>, <<"A", "AAAA">>, <<"AAAA", "A">>}
TypesInOrder ==
  /\ todo \in Types
  /\ \A i \in DOMAIN out :
       /\ \A j \in 2..Len(todo) : out[i].type # todo[j]
       /\ out[i].type = Qtype => out[i] \in ai.given
  /\ \A i, j \in DOMAIN out : i <= j /\ out[i].type = Qtype => out[j].type = Qtype

ArrayOk ==
  /\ \E S : out \in Seq(S)
  /\ Len(out) <= Naddrs /\ \A i, j \in DOMAIN out : out[i] = out[j] => i = j

LookupInv ==
  /\ ArrayOk /\ DOMAIN stack = Levels
  /\ phase = "looking" =>
       /\ Nested /\ (\A i \in Levels : FrameSound(stack[i])) /\ BottomSound(stack[0])
       /\ (hit => HitSound(stack[0])) /\ Sources /\ GivenSound /\ TypesInOrder

LEMMA TypeFacts ==
  \A t \in Types :
    /\ Head(t) \in {"A", "AAAA"} /\ Head(t) # "CNAME" /\ Len(t) \in {1, 2}
    /\ \A j \in 2..Len(t) : t[j] # Head(t)
    /\ \A y \in Range1(Tail(t)) : \E j \in 2..Len(t) : y = t[j]
    /\ Len(t) > 1 => Tail(t) \in Types /\ Len(Tail(t)) = 1 /\ Head(Tail(t)) = t[2] /\ 2 \in 2..Len(t)
<1> SUFFICES ASSUME NEW t \in Types
             PROVE  /\ Head(t) \in {"A", "AAAA"} /\ Head(t) # "CNAME" /\ Len(t) \in {1, 2}
                    /\ \A j \in 2..Len(t) : t[j] # Head(t)
                    /\ \A y \in Range1(Tail(t)) : \E j \in 2..Len(t) : y = t[j]
                    /\ Len(t) > 1 => /\ Tail(t) \in Types /\ Len(Tail(t)) = 1
                                     /\ Head(Tail(t)) = t[2] /\ 2 \in 2..Len(t)
  OBVIOUS
<1>1. CASE t = <<"A">> \/ t = <<"AAAA">>
  <2>1. t \in Seq({"A", "AAAA"}) /\ Len(t) = 1 /\ t # <<>>
    <3>1. CASE t = <<"A">>
      BY <3>1
    <3>2. CASE t = <<"AAAA">>
      BY <3>2
    <3> QED BY <1>1, <3>1, <3>2
  <2>2. Tail(t) \in Seq({"A", "AAAA"}) /\ Len(Tail(t)) = 0
    BY <2>1, HeadTailProperties
  <2>3. DOMAIN Tail(t) = {}
    <3>1. Len(Tail(t)) = 0 /\ DOMAIN Tail(t) = 1..Len(Tail(t))
      BY <2>2
    <3>2. 1..0 = {}
      OBVIOUS
    <3> QED BY <3>1, <3>2
  <2>4. Range1(Tail(t)) = {}
    BY <2>3 DEF Range1
  <2>5. Head(t) \in {"A", "AAAA"} /\ 2..Len(t) = {}
    BY <2>1
  <2> QED BY <2>1, <2>4, <2>5
<1>2. CASE t = <<"A", "AAAA">>
  <2>1. Tail(t) = <<"AAAA">> /\ t[2] = "AAAA" /\ 2 \in 2..Len(t)
    BY <1>2
  <2>2. Range1(Tail(t)) = {"AAAA"}
    BY <2>1 DEF Range1
  <2> QED BY <1>2, <2>1, <2>2 DEF Types
<1>3. CASE t = <<"AAAA", "A">>
  <2>1. Tail(t) = <<"A">> /\ t[2] = "A" /\ 2 \in 2..Len(t)
    BY <1>3
  <2>2. Range1(Tail(t)) = {"A"}
    BY <2>1 DEF Range1
  <2> QED BY <1>3, <2>1, <2>2 DEF Types
<1> QED BY <1>1, <1>2, <1>3 DEF Types

LEMMA PacketFields ==
  /\ NoPacket.none
  /\ \A q, recs, rcode :
       /\ ~Packet1(q, recs, rcode).none
       /\ Packet1(q, recs, rcode).q = q /\ Packet1(q, recs, rcode).recs = recs
<1>1. NoPacket.none
  BY DEF NoPacket
<1>2. \A q, recs, rcode : ~Packet1(q, recs, rcode).none
  BY DEF Packet1
<1>3. \A q, recs, rcode : Packet1(q, recs, rcode).q = q /\ Packet1(q, recs, rcode).recs = recs
  BY DEF Packet1
<1> QED BY <1>1, <1>2, <1>3

\* What a frame is after an assignment, as far as it matters here.
FrameIs(f, state, q, answer) ==
  IsFrame(f) /\ f.state = state /\ f.query = q /\ f.answer = answer

LEMMA FrameUpdates ==
  ASSUME NEW f, IsFrame(f), NEW state, NEW u, NEW v, NEW w
  PROVE  /\ FrameIs([f EXCEPT !.state = state], state, f.query, f.answer)
         /\ FrameIs([f EXCEPT !.answer = u, !.state = state], state, f.query, u)
         /\ FrameIs([f EXCEPT !.state = state, !.answer = u], state, f.query, u)
         /\ FrameIs([f EXCEPT !.query = u, !.state = state], state, u, f.answer)
         /\ FrameIs([f EXCEPT !.which = u, !.state = state], state, f.query, f.answer)
         /\ FrameIs([f EXCEPT !.attempts = u, !.state = state], state, f.query, f.answer)
         /\ FrameIs([f EXCEPT !.ns = u, !.state = state], state, f.query, f.answer)
         /\ FrameIs([f EXCEPT !.tried = u, !.state = state], state, f.query, f.answer)
         /\ FrameIs([f EXCEPT !.ns = u, !.tried = v, !.state = state], state, f.query, f.answer)
         /\ FrameIs([f EXCEPT !.host = u, !.glue = v, !.state = state], state, f.query, f.answer)
         /\ FrameIs([f EXCEPT !.glue = u, !.ns = v, !.state = state], state, f.query, f.answer)
         /\ FrameIs([f EXCEPT !.host = u, !.glue = v, !.answer = w, !.state = state], state, f.query, w)
<1>1. FrameIs([f EXCEPT !.state = state], state, f.query, f.answer)
  BY DEF FrameIs, IsFrame
<1>2. FrameIs([f EXCEPT !.answer = u, !.state = state], state, f.query, u)
  BY DEF FrameIs, IsFrame
<1>3. FrameIs([f EXCEPT !.state = state, !.answer = u], state, f.query, u)
  BY DEF FrameIs, IsFrame
<1>4. FrameIs([f EXCEPT !.query = u, !.state = state], state, u, f.answer)
  BY DEF FrameIs, IsFrame
<1>5. FrameIs([f EXCEPT !.which = u, !.state = state], state, f.query, f.answer)
  BY DEF FrameIs, IsFrame
<1>6. FrameIs([f EXCEPT !.attempts = u, !.state = state], state, f.query, f.answer)
  BY DEF FrameIs, IsFrame
<1>7. FrameIs([f EXCEPT !.ns = u, !.state = state], state, f.query, f.answer)
  BY DEF FrameIs, IsFrame
<1>8. FrameIs([f EXCEPT !.tried = u, !.state = state], state, f.query, f.answer)
  BY DEF FrameIs, IsFrame
<1>9. FrameIs([f EXCEPT !.ns = u, !.tried = v, !.state = state], state, f.query, f.answer)
  BY DEF FrameIs, IsFrame
<1>10. FrameIs([f EXCEPT !.host = u, !.glue = v, !.state = state], state, f.query, f.answer)
  BY DEF FrameIs, IsFrame
<1>11. FrameIs([f EXCEPT !.glue = u, !.ns = v, !.state = state], state, f.query, f.answer)
  BY DEF FrameIs, IsFrame
<1>12. FrameIs([f EXCEPT !.host = u, !.glue = v, !.answer = w, !.state = state], state, f.query, w)
  BY DEF FrameIs, IsFrame
<1> QED BY <1>1, <1>2, <1>3, <1>4, <1>5, <1>6, <1>7, <1>8, <1>9, <1>10, <1>11, <1>12

LEMMA NewFrameFacts ==
  ASSUME NEW q PROVE FrameIs(NewFrame(q), "init", q, NoPacket)
BY DEF FrameIs, IsFrame, NewFrame

-----------------------------------------------------------------------------
(***************************************************************************)
(* The chain of aliases from a candidate stays within the names that are   *)
(* reached from the candidates.                                            *)
(***************************************************************************)

\* One step of dns_d_cname, and of collecting the names that records lead to.
NextName(p, n) ==
  IF Matching(p, n, "CNAME") = {} THEN n
  ELSE (CHOOSE e \in p.recs : e.name = n /\ e.type = "CNAME").data
NextNames(S) == S \cup {e.data : e \in {a \in said : a.type = "CNAME" /\ a.name \in S}}

LEMMA ChainDef ==
  ASSUME NEW p
  PROVE  \E c : /\ ChainEnd(p) = c[MaxChain] /\ c[0] = p.q.name
                /\ \A n \in 1..MaxChain : c[n] = NextName(p, c[n - 1])
<1> DEFINE X == {p.q.name} \cup {e.data : e \in p.recs}
           g == [n \in X |-> NextName(p, n)]
           Rounds(h) == [i \in 0..MaxChain |-> IF i = 0 THEN p.q.name ELSE NextName(p, h[i - 1])]
           c == CHOOSE h : h = Rounds(h)
<1>1. MaxChain \in Nat
  BY ResolverAssumption
<1>2. p.q.name \in X /\ g \in [X -> X]
  <2>1. ASSUME NEW n \in X PROVE NextName(p, n) \in X
    BY DEF NextName, Matching
  <2> QED BY <2>1
<1>3. \A n \in X : g[n] = NextName(p, n)
  OBVIOUS
<1> HIDE DEF g, X
<1>4. PICK f : Iterates(f, MaxChain, X, p.q.name, g)
  BY <1>1, <1>2, Iteration
<1>5. f \in [0..MaxChain -> X] /\ f[0] = p.q.name /\ \A n \in 1..MaxChain : f[n] = g[f[n - 1]]
  BY <1>4 DEF Iterates
<1>6. \A n \in 0..MaxChain : f[n] = IF n = 0 THEN p.q.name ELSE NextName(p, f[n - 1])
  <2>1. \A n \in 0..MaxChain : n = 0 \/ (n \in 1..MaxChain /\ n - 1 \in 0..MaxChain)
    BY <1>1
  <2> QED BY <1>3, <1>5, <2>1
<1>7. f = Rounds(f)
  BY <1>5, <1>6
<1>8. c = Rounds(c)
  BY <1>7
<1>9. ChainEnd(p) = c[MaxChain]
  BY DEF ChainEnd, NextName
<1> HIDE DEF c
<1>10. \A n \in 0..MaxChain : c[n] = IF n = 0 THEN p.q.name ELSE NextName(p, c[n - 1])
  BY <1>8
<1>11. 0 \in 0..MaxChain /\ \A n \in 1..MaxChain : n \in 0..MaxChain /\ n # 0
  BY <1>1
<1> QED BY <1>9, <1>10, <1>11

LEMMA NamesDef ==
  ASSUME NEW names
  PROVE  \E c : /\ NamesFrom(names) = c[MaxChain] /\ c[0] = names
                /\ \A n \in 1..MaxChain : c[n] = NextNames(c[n - 1])
<1> DEFINE X == SUBSET (names \cup {e.data : e \in said})
           g == [S \in X |-> NextNames(S)]
           Rounds(h) == [i \in 0..MaxChain |-> IF i = 0 THEN names ELSE NextNames(h[i - 1])]
           c == CHOOSE h : h = Rounds(h)
<1>1. MaxChain \in Nat
  BY ResolverAssumption
<1>2. names \in X /\ g \in [X -> X]
  <2>1. ASSUME NEW S \in X PROVE NextNames(S) \in X
    BY DEF NextNames
  <2> QED BY <2>1
<1>3. \A S \in X : g[S] = NextNames(S)
  OBVIOUS
<1> HIDE DEF g, X
<1>4. PICK f : Iterates(f, MaxChain, X, names, g)
  BY <1>1, <1>2, Iteration
<1>5. f \in [0..MaxChain -> X] /\ f[0] = names /\ \A n \in 1..MaxChain : f[n] = g[f[n - 1]]
  BY <1>4 DEF Iterates
<1>6. \A n \in 0..MaxChain : f[n] = IF n = 0 THEN names ELSE NextNames(f[n - 1])
  <2>1. \A n \in 0..MaxChain : n = 0 \/ (n \in 1..MaxChain /\ n - 1 \in 0..MaxChain)
    BY <1>1
  <2> QED BY <1>3, <1>5, <2>1
<1>7. f = Rounds(f)
  BY <1>5, <1>6
<1>8. c = Rounds(c)
  BY <1>7
<1>9. NamesFrom(names) = c[MaxChain]
  BY DEF NamesFrom, NextNames
<1> HIDE DEF c
<1>10. \A n \in 0..MaxChain : c[n] = IF n = 0 THEN names ELSE NextNames(c[n - 1])
  BY <1>8
<1>11. 0 \in 0..MaxChain /\ \A n \in 1..MaxChain : n \in 0..MaxChain /\ n # 0
  BY <1>1
<1> QED BY <1>9, <1>10, <1>11

\* The end of the chain of a packet of received records is a name they lead to.
LEMMA ChainEndReached ==
  ASSUME NEW p, NEW names, p.q.name \in names, p.recs \subseteq said
  PROVE  ChainEnd(p) \in NamesFrom(names)
<1>1. PICK c : /\ ChainEnd(p) = c[MaxChain] /\ c[0] = p.q.name
               /\ \A n \in 1..MaxChain : c[n] = NextName(p, c[n - 1])
  BY ChainDef
<1>2. PICK s : /\ NamesFrom(names) = s[MaxChain] /\ s[0] = names
               /\ \A n \in 1..MaxChain : s[n] = NextNames(s[n - 1])
  BY NamesDef
<1>3. \A n, S : n \in S => NextName(p, n) \in NextNames(S)
  BY DEF NextName, NextNames, Matching
<1> DEFINE T == {n \in Nat : n <= MaxChain => c[n] \in s[n]}
<1>4. MaxChain \in Nat
  BY ResolverAssumption
<1>5. 0 \in T
  BY <1>1, <1>2
<1>6. ASSUME NEW n \in Nat, n \in T PROVE n + 1 \in T
  <2>1. CASE n + 1 <= MaxChain
    <3>1. n + 1 \in 1..MaxChain /\ (n + 1) - 1 = n /\ n <= MaxChain
      BY <1>4, <2>1
    <3>2. c[n + 1] = NextName(p, c[n]) /\ s[n + 1] = NextNames(s[n]) /\ c[n] \in s[n]
      BY <1>1, <1>2, <1>6, <3>1
    <3> QED BY <1>3, <3>2
  <2> QED BY <2>1
<1> HIDE DEF T
<1>7. Nat \subseteq T
  BY <1>5, <1>6, SetInduction
<1> QED BY <1>1, <1>2, <1>4, <1>7 DEF T

-----------------------------------------------------------------------------
(***************************************************************************)
(* Steps of the resolver within its top frame.                             *)
(***************************************************************************)

LEMMA LevelFacts ==
  /\ 0 \in Levels /\ \A i \in Levels : i \in Nat /\ i < MaxDepth
  /\ \A i \in Levels : i + 1 \in Levels <=> i + 1 < MaxDepth
  /\ \A i \in Levels : i > 0 => i - 1 \in Levels
BY ResolverAssumption DEF Levels

\* What is known in a state of dns_res_exec.
LEMMA Inside ==
  ASSUME LookupInv, NEW x, In(x)
  PROVE  /\ phase = "looking" /\ ai.state = "check" /\ F.state = x
         /\ sp \in Levels /\ DOMAIN stack = Levels /\ FrameSound(F)
         /\ sp = 0 => BottomSound(F)
         /\ hit => sp = 0 /\ HitSound(F)
         /\ x \notin {"finish", "done"} => ~hit
         /\ Sources /\ todo \in Types
         /\ x \in Waiting => /\ sp + 1 \in Levels /\ FrameSound(stack[sp + 1])
                             /\ stack[sp + 1].state = "done"
<1>1. /\ phase = "looking" /\ ai.state = "check" /\ F.state = x /\ F = stack[sp]
  BY DEF In, F
<1>2. /\ Nested /\ (\A i \in Levels : FrameSound(stack[i])) /\ BottomSound(stack[0])
      /\ (hit => HitSound(stack[0])) /\ Sources /\ GivenSound /\ TypesInOrder /\ DOMAIN stack = Levels
  BY <1>1 DEF LookupInv
<1>3. /\ sp \in Levels
      /\ x \in Waiting => sp + 1 \in Levels /\ stack[sp + 1].state = "done"
  BY <1>1, <1>2 DEF Nested
<1>4. hit => sp = 0 /\ HitSound(F) /\ x \in {"finish", "done"}
  BY <1>1, <1>2 DEF HitSound
<1> QED BY <1>1, <1>2, <1>3, <1>4 DEF TypesInOrder

\* The top frame becomes f, what was above it may be forgotten.
TopIs(f) ==
  /\ DOMAIN stack' = Levels /\ stack'[sp] = f
  /\ \A i \in Levels : i < sp => stack'[i] = stack[i]
  /\ \A i \in Levels : i > sp => stack'[i] = stack[i] \/ stack'[i] = NewFrame(NoQuery)

LEMMA TopFacts ==
  ASSUME DOMAIN stack = Levels, sp \in Levels
  PROVE  /\ \A f : Set(f) => TopIs(f)
         /\ \A f : sp + 1 \in Levels /\ SetAndForget(f) => TopIs(f)
         /\ \A x : Goto(x) => TopIs([F EXCEPT !.state = x])
<1>a. \A i \in Levels : (i < sp => i # sp) /\ (i > sp => i # sp)
  BY LevelFacts
<1>1. ASSUME NEW f, Set(f) PROVE TopIs(f)
  BY <1>1, <1>a DEF Set, TopIs
<1>2. ASSUME NEW f, sp + 1 \in Levels, SetAndForget(f) PROVE TopIs(f)
  <2>1. sp + 1 # sp /\ \A i \in Levels : i < sp => i # sp + 1 /\ i # sp
    BY LevelFacts
  <2> QED BY <1>2, <2>1 DEF SetAndForget, TopIs
<1>3. ASSUME NEW x, Goto(x) PROVE TopIs([F EXCEPT !.state = x])
  BY <1>3, <1>a DEF Goto, TopIs, F
<1> QED BY <1>1, <1>2, <1>3

LEMMA TopStep ==
  ASSUME LookupInv, phase = "looking", ai.state = "check", UNCHANGED <<todo, phase, ai, out, sp>>,
         said \subseteq said', Sources', NEW f, TopIs(f), IsFrame(f),
         f.answer.none \/ f.answer.recs \subseteq said',
         f.state \in {"done", "cname0", "cname1"} => ~f.answer.none,
         f.state \notin Waiting, sp = 0 => BottomSound(f), hit' => sp = 0 /\ HitSound(f)
  PROVE  LookupInv'
<1>1. /\ Nested /\ (\A i \in Levels : FrameSound(stack[i])) /\ BottomSound(stack[0])
      /\ GivenSound /\ TypesInOrder /\ ArrayOk /\ DOMAIN stack' = Levels
  BY DEF LookupInv, TopIs
<1>2. /\ sp \in Levels /\ sp \in Nat /\ 0 \in Levels /\ \A i \in Levels : i \in Nat
  BY <1>1, LevelFacts DEF Nested
<1>3. ArrayOk' /\ TypesInOrder'
  BY <1>1 DEF ArrayOk, TypesInOrder, Qtype
<1>4. Nested'
  BY <1>1, <1>2 DEF Nested, TopIs
<1>5. FrameSound(NewFrame(NoQuery))'
  BY NewFrameFacts, PacketFields DEF FrameSound, FrameIs
<1>6. ASSUME NEW i \in Levels PROVE FrameSound(stack[i])'
  <2>1. CASE stack'[i] = stack[i]
    BY <1>1, <2>1 DEF FrameSound
  <2>2. CASE stack'[i] = NewFrame(NoQuery)
    BY <1>5, <2>2 DEF FrameSound
  <2>3. CASE i = sp
    BY <2>3 DEF FrameSound, TopIs
  <2> QED BY <1>2, <2>1, <2>2, <2>3 DEF TopIs
<1>7. BottomSound(stack[0])'
  <2>1. CASE sp = 0
    BY <2>1 DEF BottomSound, TopIs, Qtype
  <2>2. CASE sp # 0
    <3>1. stack'[0] = stack[0]
      BY <1>2, <2>2 DEF TopIs
    <3> QED BY <1>1, <3>1 DEF BottomSound, Qtype
  <2> QED BY <2>1, <2>2
<1>8. hit' => HitSound(stack[0])'
  BY DEF HitSound, TopIs, Direct, Qtype
<1>9. GivenSound'
  BY <1>1 DEF GivenSound
<1> QED BY <1>1, <1>3, <1>4, <1>6, <1>7, <1>8, <1>9 DEF LookupInv

\* A step that changes neither the question nor the answer of the top frame.
LEMMA MovesOn ==
  ASSUME LookupInv, NEW x, In(x), x \notin {"finish", "done"},
         UNCHANGED <<todo, phase, ai, out, sp, said, nodata>>, ~hit',
         search' \in 0..Len(Candidates),
         NEW f, NEW y, TopIs(f), FrameIs(f, y, F.query, F.answer),
         y \notin Waiting, y \notin {"done", "cname0"},
         y \in Asking => x \in Asking \/ sp # 0
  PROVE  LookupInv'
<1>1. /\ phase = "looking" /\ ai.state = "check" /\ F.state = x /\ FrameSound(F) /\ Sources
      /\ sp = 0 => BottomSound(F)
  BY Inside
<1>2. IsFrame(f) /\ f.state = y /\ f.query = F.query /\ f.answer = F.answer
  BY DEF FrameIs
<1>3. Sources'
  BY <1>1 DEF Sources
<1>4. f.answer.none \/ f.answer.recs \subseteq said'
  BY <1>1, <1>2 DEF FrameSound
<1>5. sp = 0 => BottomSound(f)
  BY <1>1, <1>2 DEF BottomSound, Waiting
<1>6. f.state \notin {"done", "cname0", "cname1"} /\ f.state \notin Waiting
  BY <1>2 DEF Waiting
<1> QED BY <1>1, <1>2, <1>3, <1>4, <1>5, <1>6, TopStep

-----------------------------------------------------------------------------
(***************************************************************************)
(* The states of dns_res_exec.                                             *)
(***************************************************************************)

LEMMA KnownFacts ==
  ASSUME LookupInv, phase = "looking", NEW q PROVE Known(q) \subseteq said
<1>1. sp \in Levels /\ \A i \in Levels : stack[i].answer.none \/ stack[i].answer.recs \subseteq said
  BY DEF LookupInv, Nested, FrameSound
<1>2. \A i \in 0..sp : i \in Levels
  BY <1>1, ResolverAssumption DEF Levels
<1> QED BY <1>1, <1>2 DEF Known

LEMMA GlueInv == ASSUME LookupInv, Glue PROVE LookupInv'
<1> DEFINE recs == Known(F.query)
           p == Packet1(F.query, recs, "ok")
           y == IF Matching(p, F.query.name, F.query.type) # {} THEN "finish" ELSE "cname0"
           g == [F EXCEPT !.answer = p, !.state = y]
<1>1. /\ In("init") /\ UNCHANGED <<todo, phase, ai, out, sp, said, nodata, hit, search>>
  BY DEF Glue, Outside
<1>2. /\ phase = "looking" /\ ai.state = "check" /\ F.state = "init" /\ sp \in Levels
      /\ DOMAIN stack = Levels /\ FrameSound(F) /\ IsFrame(F) /\ ~hit /\ Sources
  BY <1>1, Inside DEF FrameSound
<1>3. search' \in 0..Len(Candidates) /\ Sources'
  BY <1>1, <1>2 DEF Sources
<1>4. CASE Goto("switch")
  <2>1. PICK f : f = [F EXCEPT !.state = "switch"]
    OBVIOUS
  <2>2. TopIs(f) /\ FrameIs(f, "switch", F.query, F.answer)
    BY <1>2, <1>4, <2>1, TopFacts, FrameUpdates
  <2>3. "switch" \notin Waiting /\ "switch" \notin {"done", "cname0"} /\ "switch" \notin Asking
    BY DEF Asking, Waiting
  <2> QED BY <1>1, <1>2, <1>3, <2>2, <2>3, MovesOn
<1>5. CASE sp # 0 /\ Set(g)
  <2>1. p.recs \subseteq said /\ ~p.none
    BY <1>2, KnownFacts, PacketFields
  <2>2. y \in {"finish", "cname0"}
    OBVIOUS
  <2> HIDE DEF p, y
  <2>3. PICK f : f = g
    OBVIOUS
  <2>4. TopIs(f) /\ FrameIs(f, y, F.query, p)
    BY <1>2, <1>5, <2>3, TopFacts, FrameUpdates
  <2>5. IsFrame(f) /\ f.answer = p /\ f.state \in {"finish", "cname0"} /\ f.state \notin Waiting
    BY <2>2, <2>4 DEF FrameIs, Waiting
  <2> QED BY <1>1, <1>2, <1>3, <1>5, <2>1, <2>4, <2>5, TopStep
<1>6. Goto("switch") \/ (sp # 0 /\ Set(g))
  BY DEF Glue
<1> QED BY <1>4, <1>5, <1>6

\* A step that only changes the state of the frame and fields that do not matter here.
LEMMA HintsInv == ASSUME LookupInv, Hints \/ Iterate PROVE LookupInv'
<1>1. UNCHANGED <<todo, phase, ai, out, sp, said, nodata, hit, search>>
  BY DEF Hints, Iterate, Outside
<1>2. CASE Hints
  <2>1. In("hints") /\ Set([F EXCEPT !.host = HintsName, !.glue = servers, !.state = "iterate"])
    BY <1>2 DEF Hints
  <2>2. sp \in Levels /\ DOMAIN stack = Levels /\ IsFrame(F) /\ ~hit /\ search \in 0..Len(Candidates)
    BY <2>1, Inside DEF FrameSound, Sources
  <2>3. PICK f : f = [F EXCEPT !.host = HintsName, !.glue = servers, !.state = "iterate"]
    OBVIOUS
  <2>4. TopIs(f) /\ FrameIs(f, "iterate", F.query, F.answer)
    BY <2>1, <2>2, <2>3, TopFacts, FrameUpdates
  <2>5. /\ "iterate" \notin Waiting /\ "iterate" \notin {"done", "cname0"} /\ "hints" \in Asking
        /\ "hints" \notin {"finish", "done"}
    BY DEF Asking, Waiting
  <2> QED BY <1>1, <2>1, <2>2, <2>4, <2>5, MovesOn
<1>3. CASE Iterate
  <2>1. In("iterate") /\ Set([F EXCEPT !.ns = 1, !.state = "foreach ns"])
    BY <1>3 DEF Iterate
  <2>2. sp \in Levels /\ DOMAIN stack = Levels /\ IsFrame(F) /\ ~hit /\ search \in 0..Len(Candidates)
    BY <2>1, Inside DEF FrameSound, Sources
  <2>3. PICK f : f = [F EXCEPT !.ns = 1, !.state = "foreach ns"]
    OBVIOUS
  <2>4. TopIs(f) /\ FrameIs(f, "foreach ns", F.query, F.answer)
    BY <2>1, <2>2, <2>3, TopFacts, FrameUpdates
  <2>5. /\ "foreach ns" \notin Waiting /\ "foreach ns" \notin {"done", "cname0"} /\ "iterate" \in Asking
        /\ "iterate" \notin {"finish", "done"}
    BY DEF Asking, Waiting
  <2> QED BY <1>1, <2>1, <2>2, <2>4, <2>5, MovesOn
<1> QED BY <1>2, <1>3

LEMMA SwitchInv == ASSUME LookupInv, Switch PROVE LookupInv'
<1>1. In("switch") /\ UNCHANGED <<todo, phase, ai, out, sp, said, hit, search>>
  BY DEF Switch, Outside
<1>2. /\ phase = "looking" /\ ai.state = "check" /\ sp \in Levels /\ DOMAIN stack = Levels
      /\ IsFrame(F) /\ ~hit /\ Sources
  BY <1>1, Inside DEF FrameSound
<1>3. search' \in 0..Len(Candidates)
  BY <1>1, <1>2 DEF Sources
<1> DEFINE y == IF Lookup[F.which] = "b" THEN "bind" ELSE "file"
<1>4. \/ Set([F EXCEPT !.which = F.which + 1, !.state = y]) /\ UNCHANGED nodata
      \/ /\ sp = 0 /\ ~nodata.none /\ nodata' = NoPacket
         /\ Set([F EXCEPT !.answer = nodata, !.state = "finish"])
      \/ Goto("servfail") /\ UNCHANGED nodata
  BY DEF Switch
<1>5. CASE Set([F EXCEPT !.which = F.which + 1, !.state = y]) /\ UNCHANGED nodata
  <2>1. y \in {"bind", "file"}
    OBVIOUS
  <2> HIDE DEF y
  <2>2. PICK f : f = [F EXCEPT !.which = F.which + 1, !.state = y]
    OBVIOUS
  <2>3. TopIs(f) /\ FrameIs(f, y, F.query, F.answer)
    BY <1>2, <1>5, <2>2, TopFacts, FrameUpdates
  <2>4. y \notin Waiting /\ y \notin {"done", "cname0"} /\ y \notin Asking
    BY <2>1 DEF Asking, Waiting
  <2> QED BY <1>1, <1>2, <1>3, <1>5, <2>3, <2>4, MovesOn
<1>6. CASE Goto("servfail") /\ UNCHANGED nodata
  <2>1. PICK f : f = [F EXCEPT !.state = "servfail"]
    OBVIOUS
  <2>2. TopIs(f) /\ FrameIs(f, "servfail", F.query, F.answer)
    BY <1>2, <1>6, <2>1, TopFacts, FrameUpdates
  <2>3. "servfail" \notin Waiting /\ "servfail" \notin {"done", "cname0"} /\ "servfail" \notin Asking
    BY DEF Asking, Waiting
  <2> QED BY <1>1, <1>2, <1>3, <1>6, <2>2, <2>3, MovesOn
<1>7. CASE /\ sp = 0 /\ ~nodata.none /\ nodata' = NoPacket
           /\ Set([F EXCEPT !.answer = nodata, !.state = "finish"])
  <2>1. PICK f : f = [F EXCEPT !.answer = nodata, !.state = "finish"]
    OBVIOUS
  <2>a. TopIs(f) /\ FrameIs(f, "finish", F.query, nodata)
    BY <1>2, <1>7, <2>1, TopFacts, FrameUpdates
  <2>2. TopIs(f) /\ IsFrame(f) /\ f.state = "finish" /\ f.answer = nodata
    BY <2>a DEF FrameIs
  <2>3. nodata.recs = {} /\ Sources'
    <3>1. nodata'.none
      BY <1>7, PacketFields, Zenon
    <3> QED BY <1>1, <1>2, <1>7, <3>1 DEF Sources
  <2>4. BottomSound(f) /\ f.state \notin Waiting
    BY <2>2, <2>3 DEF BottomSound, Asking, Waiting
  <2> QED BY <1>1, <1>2, <2>2, <2>3, <2>4, TopStep
<1> QED BY <1>4, <1>5, <1>6, <1>7

\* dns_hosts_query finds records of the hosts file only, and for the first frame under a
\* candidate name and of the type asked for.
LEMMA FileInv == ASSUME LookupInv, File PROVE LookupInv'
<1> DEFINE names == IF sp > 0 THEN <<F.query.name>> ELSE Candidates
           kind == IF sp > 0 THEN F.query.type ELSE Qtype
           found == {i \in DOMAIN names : InHosts(names[i], kind) # {}}
           k == CHOOSE i \in found : \A j \in found : i <= j
           recs == InHosts(names[k], kind)
           p == Packet1([name |-> names[k], type |-> kind], recs, "ok")
           g == [F EXCEPT !.state = "finish", !.answer = p]
<1>1. In("file") /\ UNCHANGED <<todo, phase, ai, out, sp, said, nodata>>
  BY DEF File
<1>2. /\ phase = "looking" /\ ai.state = "check" /\ sp \in Levels /\ sp \in Nat /\ DOMAIN stack = Levels
      /\ IsFrame(F) /\ ~hit /\ Sources /\ Len(Candidates) \in Nat /\ todo \in Types
      /\ DOMAIN Candidates = 1..Len(Candidates)
  BY <1>1, Inside, ResolverAssumption, LevelFacts DEF FrameSound
<1>3. search' \in 0..Len(Candidates) /\ Sources'
  BY <1>1, <1>2 DEF Sources, File
<1>4. \/ found = {} /\ Goto("switch") /\ hit' = hit
      \/ found # {} /\ Set(g) /\ hit' = (hit \/ sp = 0)
  BY DEF File
<1>5. CASE found = {} /\ Goto("switch") /\ hit' = hit
  <2>1. PICK f : f = [F EXCEPT !.state = "switch"]
    OBVIOUS
  <2>2. TopIs(f) /\ FrameIs(f, "switch", F.query, F.answer)
    BY <1>2, <1>5, <2>1, TopFacts, FrameUpdates
  <2>3. "switch" \notin Waiting /\ "switch" \notin {"done", "cname0"} /\ "switch" \notin Asking
    BY DEF Asking, Waiting
  <2>4. ~hit'
    BY <1>2, <1>5, Zenon
  <2> QED BY <1>1, <1>2, <1>3, <2>2, <2>3, <2>4, MovesOn
<1>6. CASE found # {} /\ Set(g) /\ hit' = (hit \/ sp = 0)
  <2>1. recs \subseteq HostsFile /\ HostsFile \subseteq said
    BY <1>2 DEF InHosts, Sources
  <2>2. sp = 0 => Asked(names[k]) /\ recs # {} /\ kind = Qtype
    <3> SUFFICES ASSUME sp = 0 PROVE Asked(names[k]) /\ recs # {} /\ kind = Qtype
      OBVIOUS
    <3>1. names = Candidates /\ kind = Qtype
      BY <1>2
    <3>2. found \subseteq Nat
      BY <1>2, <3>1
    <3> HIDE DEF names, kind
    <3>3. k \in found
      BY <1>6, <3>2, NatMin
    <3> QED BY <3>1, <3>3 DEF Asked, Range1
  <2>3. \A e \in recs : e.name = names[k] /\ e.type = kind
    BY DEF InHosts
  <2> HIDE DEF k, recs, names, kind
  <2>4. ~p.none /\ p.recs = recs /\ p.q.name = names[k]
    BY PacketFields
  <2>5. Qtype # "CNAME"
    BY <1>2, TypeFacts DEF Qtype
  <2>6. sp = 0 => Direct(p)
    BY <2>2, <2>3, <2>4, <2>5 DEF Direct, Matching
  <2> HIDE DEF p
  <2>7. PICK f : f = g
    OBVIOUS
  <2>8. TopIs(f) /\ FrameIs(f, "finish", F.query, p)
    BY <1>2, <1>6, <2>7, TopFacts, FrameUpdates
  <2>9. IsFrame(f) /\ f.answer = p /\ f.state = "finish" /\ f.state \notin Waiting
    BY <2>8 DEF FrameIs, Waiting
  <2>10. sp = 0 => BottomSound(f) /\ HitSound(f)
    BY <2>2, <2>4, <2>6, <2>9 DEF BottomSound, HitSound, Asking, Waiting
  <2>11. hit' => sp = 0
    BY <1>2, <1>6, Zenon
  <2> QED BY <1>1, <1>2, <1>3, <2>1, <2>4, <2>8, <2>9, <2>10, <2>11, TopStep
<1> QED BY <1>4, <1>5, <1>6

LEMMA BindInv == ASSUME LookupInv, Bind PROVE LookupInv'
<1>1. In("bind") /\ UNCHANGED <<todo, phase, ai, out, sp, said, nodata, hit>>
  BY DEF Bind, Outside
<1>2. /\ sp \in Levels /\ sp \in Nat /\ DOMAIN stack = Levels /\ IsFrame(F) /\ ~hit
      /\ search \in 0..Len(Candidates) /\ Len(Candidates) \in Nat
  BY <1>1, Inside, ResolverAssumption, LevelFacts DEF FrameSound, Sources
<1>3. PICK y \in {"hints", "search"} : Goto(y) /\ (y = "hints" => sp # 0)
  BY <1>2 DEF Bind
<1>4. search' \in 0..Len(Candidates)
  BY <1>2 DEF Bind
<1>5. PICK f : f = [F EXCEPT !.state = y]
  OBVIOUS
<1>6. TopIs(f) /\ FrameIs(f, y, F.query, F.answer)
  BY <1>2, <1>3, <1>5, TopFacts, FrameUpdates
<1>7. y \notin Waiting /\ y \notin {"done", "cname0"} /\ (y \in Asking => sp # 0)
  BY <1>3 DEF Asking, Waiting
<1> QED BY <1>1, <1>2, <1>4, <1>6, <1>7, MovesOn

LEMMA SearchInv == ASSUME LookupInv, Search PROVE LookupInv'
<1>1. In("search") /\ UNCHANGED <<todo, phase, ai, out, sp, said, nodata, hit>>
  BY DEF Search, Outside
<1>2. /\ phase = "looking" /\ ai.state = "check" /\ sp \in Levels /\ DOMAIN stack = Levels
      /\ FrameSound(F) /\ IsFrame(F) /\ ~hit /\ F.state = "search"
      /\ Sources /\ search \in 0..Len(Candidates) /\ (sp = 0 => BottomSound(F))
  BY <1>1, Inside DEF FrameSound, Sources
<1>a. Len(Candidates) \in Nat /\ DOMAIN Candidates = 1..Len(Candidates)
  BY ResolverAssumption
<1> DEFINE q == [name |-> Candidates[search + 1], type |-> Qtype]
<1>3. \/ search = Len(Candidates) /\ Goto("switch") /\ search' = search
      \/ /\ search # Len(Candidates) /\ search' = search + 1
         /\ Set([F EXCEPT !.query = q, !.state = "hints"])
  BY DEF Search
<1>4. CASE Goto("switch") /\ search' = search
  <2>1. PICK f : f = [F EXCEPT !.state = "switch"]
    OBVIOUS
  <2>2. TopIs(f) /\ FrameIs(f, "switch", F.query, F.answer)
    BY <1>2, <1>4, <2>1, TopFacts, FrameUpdates
  <2>3. "switch" \notin Waiting /\ "switch" \notin {"done", "cname0"} /\ "switch" \notin Asking
    BY DEF Asking, Waiting
  <2> QED BY <1>1, <1>2, <1>4, <2>2, <2>3, MovesOn
<1>5. CASE /\ search # Len(Candidates) /\ search' = search + 1
           /\ Set([F EXCEPT !.query = q, !.state = "hints"])
  <2>1. search + 1 \in DOMAIN Candidates /\ search' \in 0..Len(Candidates)
    BY <1>2, <1>5, <1>a
  <2>2. q.name = Candidates[search + 1] /\ q.type = Qtype /\ Asked(q.name)
    BY <2>1 DEF Asked, Range1
  <2> HIDE DEF q
  <2>3. PICK f : f = [F EXCEPT !.query = q, !.state = "hints"]
    OBVIOUS
  <2>4. TopIs(f) /\ FrameIs(f, "hints", q, F.answer)
    BY <1>2, <1>5, <2>3, TopFacts, FrameUpdates
  <2>5. IsFrame(f) /\ f.state = "hints" /\ f.query = q /\ f.answer = F.answer
    BY <2>4 DEF FrameIs
  <2>6. f.state \notin Waiting /\ f.state \notin {"done", "cname0", "cname1"}
    BY <2>5 DEF Waiting
  <2>7. sp = 0 => BottomSound(f)
    BY <1>2, <2>2, <2>5 DEF BottomSound
  <2>8. Sources' /\ (f.answer.none \/ f.answer.recs \subseteq said')
    BY <1>1, <1>2, <2>1, <2>5 DEF Sources, FrameSound
  <2> QED BY <1>1, <1>2, <2>4, <2>5, <2>6, <2>7, <2>8, TopStep
<1> QED BY <1>3, <1>4, <1>5

LEMMA ForeachNsInv == ASSUME LookupInv, ForeachNs PROVE LookupInv'
<1>1. In("foreach ns") /\ UNCHANGED <<todo, phase, ai, out, sp, said, nodata, hit, search>>
  BY DEF ForeachNs, Outside
<1>2. /\ sp \in Levels /\ DOMAIN stack = Levels /\ IsFrame(F) /\ ~hit /\ search \in 0..Len(Candidates)
  BY <1>1, Inside DEF FrameSound, Sources
<1> DEFINE z == IF F.attempts + 1 < MaxAttempts THEN "iterate" ELSE "switch"
<1>3. z \in {"iterate", "switch"}
  OBVIOUS
<1>4. PICK f : /\ Set(f)
               /\ \/ f = [F EXCEPT !.ns = 0, !.tried = 0, !.state = "foreach a"]
                  \/ f = [F EXCEPT !.attempts = F.attempts + 1, !.state = z]
  BY DEF ForeachNs
<1> HIDE DEF z
<1>5. TopIs(f) /\ \E y \in {"foreach a", "iterate", "switch"} : FrameIs(f, y, F.query, F.answer)
  <2>1. TopIs(f)
    BY <1>2, <1>4, TopFacts
  <2>2. FrameIs(f, "foreach a", F.query, F.answer) \/ FrameIs(f, z, F.query, F.answer)
    <3>1. FrameIs([F EXCEPT !.ns = 0, !.tried = 0, !.state = "foreach a"], "foreach a", F.query, F.answer)
      BY <1>2, FrameUpdates
    <3>2. FrameIs([F EXCEPT !.attempts = F.attempts + 1, !.state = z], z, F.query, F.answer)
      BY <1>2, FrameUpdates
    <3> QED BY <1>4, <3>1, <3>2
  <2> QED BY <1>3, <2>1, <2>2
<1>6. PICK y \in {"foreach a", "iterate", "switch"} : FrameIs(f, y, F.query, F.answer)
  BY <1>5
<1>7. y \notin Waiting /\ y \notin {"done", "cname0"} /\ "foreach ns" \in Asking
  BY <1>6 DEF Asking, Waiting
<1> QED BY <1>1, <1>2, <1>5, <1>6, <1>7, MovesOn

LEMMA Resolv1Inv == ASSUME LookupInv, Resolv1Ns PROVE LookupInv'
<1>1. In("resolv1") /\ UNCHANGED <<todo, phase, ai, out, sp, said, nodata, hit, search>>
  BY DEF Resolv1Ns, Outside
<1>2. /\ sp \in Levels /\ sp + 1 \in Levels /\ DOMAIN stack = Levels /\ IsFrame(F) /\ ~hit
      /\ search \in 0..Len(Candidates)
  BY <1>1, Inside DEF FrameSound, Sources, Waiting
<1> DEFINE u == F.glue + Cardinality(FoundNs)
           v == IF FoundNs # {} THEN 1 ELSE F.ns
<1>a. SetAndForget([F EXCEPT !.glue = u, !.ns = v, !.state = "foreach ns"])
  BY DEF Resolv1Ns
<1> HIDE DEF u, v
<1>3. PICK f : SetAndForget(f) /\ f = [F EXCEPT !.glue = u, !.ns = v, !.state = "foreach ns"]
  BY <1>a
<1>4. TopIs(f) /\ FrameIs(f, "foreach ns", F.query, F.answer)
  BY <1>2, <1>3, TopFacts, FrameUpdates
<1>5. /\ "foreach ns" \notin Waiting /\ "foreach ns" \notin {"done", "cname0"} /\ "resolv1" \in Asking
      /\ "resolv1" \notin {"finish", "done"}
  BY DEF Asking, Waiting
<1> QED BY <1>1, <1>2, <1>4, <1>5, MovesOn

LEMMA ForeachAInv == ASSUME LookupInv, ForeachA \/ AnsweredLate PROVE LookupInv'
<1>1. PICK x \in {"foreach a", "query a"} : In(x)
  BY DEF ForeachA, AnsweredLate
<1>2. UNCHANGED <<todo, phase, ai, out, sp, said, nodata, hit, search>>
  BY DEF ForeachA, AnsweredLate, Outside
<1>3. /\ sp \in Levels /\ DOMAIN stack = Levels /\ IsFrame(F) /\ ~hit /\ search \in 0..Len(Candidates)
  BY <1>1, Inside DEF FrameSound, Sources
<1> DEFINE Ys == {"query a", "resolv0", "foreach ns", "foreach a"}
<1>4. \/ Set([F EXCEPT !.tried = F.tried + 1, !.state = "query a"])
      \/ \E y \in Ys : Goto(y)
  BY DEF ForeachA, AnsweredLate
<1>5. \E f : TopIs(f) /\ \E y \in Ys : FrameIs(f, y, F.query, F.answer)
  BY <1>3, <1>4, TopFacts, FrameUpdates
<1>6. PICK f, y : TopIs(f) /\ y \in Ys /\ FrameIs(f, y, F.query, F.answer)
  BY <1>5
<1>7. y \notin Waiting /\ y \notin {"done", "cname0"} /\ x \in Asking /\ x \notin {"finish", "done"}
  BY <1>1, <1>6 DEF Asking, Waiting
<1> QED BY <1>1, <1>2, <1>3, <1>6, <1>7, MovesOn

\* An answer of a server that is not empty is about the name it was asked for.
LEMMA AnswerFacts ==
  ASSUME NEW q, NEW recs \in Answers(q)
  PROVE  recs = {} \/ \E e \in recs : e.name = q.name /\ (e.type = q.type \/ e.type = "CNAME")
<1>1. /\ \A n, u, i : Address(n, u, i).name = n /\ Address(n, u, i).type = u
      /\ \A n, u : Alias(n, u).name = n /\ Alias(n, u).type = "CNAME"
  BY DEF Address, Alias
<1>2. PICK d, a : /\ recs = {Address(q.name, q.type, i) : i \in d} \cup a
                  /\ a = {} \/ \E u : Alias(q.name, u) \in a
  BY DEF Answers
<1>3. CASE d = {} /\ a = {}
  BY <1>2, <1>3
<1>4. CASE d # {}
  <2>1. PICK i : i \in d
    BY <1>4
  <2>2. Address(q.name, q.type, i) \in recs
    BY <1>2, <2>1
  <2> QED BY <1>1, <2>2
<1>5. CASE a # {}
  <2>1. PICK u : Alias(q.name, u) \in recs
    BY <1>2, <1>5
  <2> QED BY <1>1, <2>1
<1> QED BY <1>3, <1>4, <1>5

LEMMA AnsweredInv ==
  ASSUME LookupInv, NEW recs \in Answers(F.query), Answered(recs) PROVE LookupInv'
<1> DEFINE p == Packet1(F.query, recs, "ok")
           y == IF Matching(p, F.query.name, F.query.type) # {} THEN "finish"
                ELSE IF Matching(p, F.query.name, "CNAME") # {} THEN "cname0"
                ELSE IF ~recurse THEN "search" ELSE "finish"
           a == IF y = "search" /\ nodata.none THEN NoPacket ELSE p
<1>1. /\ In("query a") /\ UNCHANGED <<todo, phase, ai, out, sp, search>>
      /\ said' = said \cup recs
      /\ nodata' = IF y = "search" /\ nodata.none THEN p ELSE nodata
      /\ Set([F EXCEPT !.state = y, !.answer = a])
      /\ hit' = (hit \/ (sp = 0 /\ Matching(p, F.query.name, F.query.type) # {}))
  BY DEF Answered
<1>2. /\ phase = "looking" /\ ai.state = "check" /\ sp \in Levels /\ DOMAIN stack = Levels
      /\ FrameSound(F) /\ IsFrame(F) /\ ~hit /\ F.state = "query a"
      /\ Sources /\ todo \in Types /\ (sp = 0 => BottomSound(F))
  BY <1>1, Inside DEF FrameSound
<1>3. sp = 0 => Asked(F.query.name) /\ F.query.type = Qtype /\ F.query.type # "CNAME"
  <2>1. Qtype # "CNAME"
    BY <1>2, TypeFacts DEF Qtype
  <2>2. F.state \in Asking
    BY <1>2 DEF Asking
  <2> QED BY <1>2, <2>1, <2>2 DEF BottomSound
<1>4. ~p.none /\ p.recs = recs /\ p.q = F.query
  BY PacketFields
<1> HIDE DEF p
<1>5. y \in {"finish", "cname0", "search"} /\ (y = "finish" \/ y = "cname0" \/ y = "search")
  OBVIOUS
<1>6. y = "search" => recs = {}
  <2>1. recs = {} \/ \E e \in recs : e.name = F.query.name /\ (e.type = F.query.type \/ e.type = "CNAME")
    BY AnswerFacts
  <2> QED BY <1>4, <2>1 DEF Matching
<1>7. sp = 0 /\ Matching(p, F.query.name, F.query.type) # {} => Direct(p) /\ y = "finish"
  BY <1>3, <1>4 DEF Direct
<1> HIDE DEF y
<1>8. a = p \/ (a = NoPacket /\ y = "search")
  OBVIOUS
<1>9. Sources'
  <2>1. nodata'.none \/ nodata'.recs = {}
    <3>1. CASE nodata' = nodata
      BY <1>2, <3>1 DEF Sources
    <3>2. CASE nodata' = p /\ y = "search"
      BY <1>4, <1>6, <3>2
    <3> QED BY <1>1, <3>1, <3>2
  <2> QED BY <1>1, <1>2, <2>1 DEF Sources
<1> HIDE DEF a
<1>10. PICK f : f = [F EXCEPT !.state = y, !.answer = a]
  OBVIOUS
<1>11. TopIs(f) /\ FrameIs(f, y, F.query, a)
  BY <1>1, <1>2, <1>10, TopFacts, FrameUpdates
<1>12. IsFrame(f) /\ f.state = y /\ f.query = F.query /\ f.answer = a
  BY <1>11 DEF FrameIs
<1>13. f.answer.none \/ f.answer.recs \subseteq said'
  BY <1>1, <1>4, <1>8, <1>12, PacketFields
<1>14. f.state \in {"done", "cname0", "cname1"} => f.answer = p
  BY <1>5, <1>8, <1>12
<1>15. f.state \notin Waiting
  BY <1>5, <1>12 DEF Waiting
<1>16. sp = 0 => BottomSound(f)
  <2> SUFFICES ASSUME sp = 0 PROVE BottomSound(f)
    OBVIOUS
  <2>1. f.state \in Asking => Asked(f.query.name) /\ f.query.type = Qtype
    BY <1>3, <1>12
  <2>2. f.state \in {"cname0", "cname1"} => Asked(f.answer.q.name)
    BY <1>3, <1>4, <1>12, <1>14
  <2>3. f.answer.none \/ f.answer.recs = {} \/ Asked(f.answer.q.name)
    BY <1>3, <1>4, <1>8, <1>12, PacketFields
  <2> QED BY <2>1, <2>2, <2>3 DEF BottomSound
<1>17. hit' => sp = 0 /\ Matching(p, F.query.name, F.query.type) # {}
  BY <1>1, <1>2, Zenon
<1>18. hit' => sp = 0 /\ HitSound(f)
  <2> SUFFICES ASSUME hit' PROVE sp = 0 /\ HitSound(f)
    OBVIOUS
  <2>1. sp = 0 /\ Direct(p) /\ y = "finish"
    BY <1>7, <1>17
  <2>2. f.answer = p /\ f.state = "finish"
    BY <1>8, <1>12, <2>1
  <2> QED BY <1>4, <2>1, <2>2 DEF HitSound
<1>19. said \subseteq said' /\ (f.state \in {"done", "cname0", "cname1"} => ~f.answer.none)
  BY <1>1, <1>4, <1>14
<1> QED BY <1>1, <1>2, <1>9, <1>11, <1>12, <1>13, <1>15, <1>16, <1>18, <1>19, TopStep

\* Servers that are no authority leave the frame without records.
LEMMA ReferredInv ==
  ASSUME LookupInv, NotAuthoritative \/ \E g \in 0..1 : Referred(g) PROVE LookupInv'
<1> DEFINE p == Packet1(F.query, {}, "ok")
<1>1. In("query a") /\ UNCHANGED <<todo, phase, ai, out, said, hit, sp, search, nodata>>
  BY DEF NotAuthoritative, Referred
<1>2. /\ phase = "looking" /\ ai.state = "check" /\ sp \in Levels /\ DOMAIN stack = Levels
      /\ IsFrame(F) /\ ~hit /\ F.state = "query a" /\ Sources /\ (sp = 0 => BottomSound(F))
  BY <1>1, Inside DEF FrameSound
<1>3. \/ \E g : Set([F EXCEPT !.host = NsName, !.glue = g, !.answer = NoPacket, !.state = "iterate"])
      \/ Set([F EXCEPT !.answer = p, !.state = "foreach a"])
  BY DEF NotAuthoritative, Referred
<1>4. ~p.none /\ p.recs = {} /\ NoPacket.none
  BY PacketFields
<1> HIDE DEF p
<1>5. \E f : TopIs(f) /\ (FrameIs(f, "iterate", F.query, NoPacket) \/ FrameIs(f, "foreach a", F.query, p))
  BY <1>2, <1>3, TopFacts, FrameUpdates
<1>6. PICK f : TopIs(f) /\ (FrameIs(f, "iterate", F.query, NoPacket) \/ FrameIs(f, "foreach a", F.query, p))
  BY <1>5
<1>7. /\ IsFrame(f) /\ f.state \in {"iterate", "foreach a"} /\ f.query = F.query
      /\ f.answer = NoPacket \/ f.answer = p
  BY <1>6 DEF FrameIs
<1>8. f.answer.none \/ f.answer.recs = {}
  BY <1>4, <1>7
<1>9. f.state \notin Waiting /\ f.state \notin {"done", "cname0", "cname1"} /\ F.state \in Asking
  BY <1>2, <1>7 DEF Asking, Waiting
<1>10. sp = 0 => BottomSound(f)
  BY <1>2, <1>7, <1>8, <1>9 DEF BottomSound
<1>11. Sources'
  BY <1>1, <1>2 DEF Sources
<1> QED BY <1>1, <1>2, <1>6, <1>7, <1>8, <1>9, <1>10, <1>11, TopStep

-----------------------------------------------------------------------------
(***************************************************************************)
(* Frames are pushed and popped.                                           *)
(***************************************************************************)

LEMMA PushInv ==
  ASSUME LookupInv, NEW x, In(x), x \in Asking, NEW q, NEW y \in Waiting,
         sp + 1 < MaxDepth, Push(q, y), UNCHANGED <<Outside, search, nodata>>,
         y = "cname1" => x = "cname0"
  PROVE  LookupInv'
<1>1. UNCHANGED <<todo, phase, ai, out, said, hit, search, nodata>> /\ sp' = sp + 1
  BY DEF Outside, Push
<1>2. /\ phase = "looking" /\ ai.state = "check" /\ sp \in Levels /\ DOMAIN stack = Levels
      /\ FrameSound(F) /\ IsFrame(F) /\ F.state = x /\ Sources /\ ~hit /\ (sp = 0 => BottomSound(F))
  BY Inside DEF FrameSound, Asking, Waiting
<1>3. /\ sp + 1 \in Levels /\ sp \in Nat /\ 0 \in Levels /\ \A i \in Levels : i \in Nat
  BY <1>2, LevelFacts
<1>4. PICK f : f = [F EXCEPT !.state = y]
  OBVIOUS
<1>5. /\ DOMAIN stack' = Levels /\ stack'[sp] = f /\ stack'[sp + 1] = NewFrame(q)
      /\ \A i \in Levels : i # sp /\ i # sp + 1 => stack'[i] = stack[i]
  BY <1>2, <1>3, <1>4 DEF Push, F
<1>6. FrameIs(f, y, F.query, F.answer)
  BY <1>2, <1>4, FrameUpdates
<1>7. IsFrame(f) /\ f.state = y /\ f.query = F.query /\ f.answer = F.answer
  BY <1>6 DEF FrameIs
<1>8. /\ IsFrame(NewFrame(q)) /\ NewFrame(q).state = "init" /\ NewFrame(q).answer.none
  BY NewFrameFacts, PacketFields DEF FrameIs
<1>9. /\ Nested /\ (\A i \in Levels : FrameSound(stack[i])) /\ BottomSound(stack[0])
      /\ GivenSound /\ TypesInOrder /\ ArrayOk
  BY <1>2 DEF LookupInv
<1>10. ArrayOk' /\ TypesInOrder' /\ Sources'
  BY <1>1, <1>2, <1>9 DEF ArrayOk, TypesInOrder, Qtype, Sources
<1>11. Nested'
  <2>1. \A i \in Levels : i < sp' => i = sp \/ (i < sp /\ i # sp /\ i # sp + 1)
    BY <1>1, <1>3
  <2>2. \A i \in Levels : i < sp' => stack'[i].state \in Waiting
    BY <1>5, <1>7, <1>9, <2>1 DEF Nested
  <2>3. stack'[sp'].state \notin Waiting
    BY <1>1, <1>5, <1>8 DEF Waiting
  <2> QED BY <1>1, <1>3, <2>2, <2>3 DEF Nested
<1>12. ASSUME NEW i \in Levels PROVE FrameSound(stack[i])'
  <2>1. CASE i = sp
    <3>1. x = "cname0" => ~f.answer.none
      BY <1>2, <1>7 DEF FrameSound
    <3>2. f.state \in {"done", "cname0", "cname1"} => x = "cname0"
      BY <1>7 DEF Waiting
    <3>3. f.answer.none \/ f.answer.recs \subseteq said'
      BY <1>1, <1>2, <1>7 DEF FrameSound
    <3> QED BY <1>5, <1>7, <2>1, <3>1, <3>2, <3>3 DEF FrameSound
  <2>2. CASE i = sp + 1
    BY <1>5, <1>8, <2>2 DEF FrameSound
  <2>3. CASE i # sp /\ i # sp + 1
    BY <1>1, <1>5, <1>9, <2>3 DEF FrameSound
  <2> QED BY <2>1, <2>2, <2>3
<1>13. BottomSound(stack[0])'
  <2>1. CASE sp = 0
    <3>1. f.state \in {"cname0", "cname1"} => x = "cname0"
      BY <1>7 DEF Waiting
    <3>2. /\ F.query.name \in Range1(Candidates) /\ F.query.type = Qtype
          /\ x = "cname0" => Asked(F.answer.q.name)
          /\ F.answer.none \/ F.answer.recs = {} \/ Asked(F.answer.q.name)
      BY <1>2, <2>1 DEF BottomSound, Asked
    <3> QED BY <1>1, <1>5, <1>7, <2>1, <3>1, <3>2 DEF BottomSound, Asked, Qtype
  <2>2. CASE sp # 0
    <3>1. stack'[0] = stack[0]
      BY <1>3, <1>5, <2>2
    <3> QED BY <1>1, <1>9, <3>1 DEF BottomSound, Qtype
  <2> QED BY <2>1, <2>2
<1>14. GivenSound'
  BY <1>1, <1>2, <1>9 DEF GivenSound
<1>15. ~hit'
  BY <1>1, <1>2, Zenon
<1> QED BY <1>5, <1>10, <1>11, <1>12, <1>13, <1>14, <1>15 DEF LookupInv

LEMMA Resolv0Inv == ASSUME LookupInv, Resolv0Ns PROVE LookupInv'
<1>1. In("resolv0") /\ UNCHANGED <<Outside, search, nodata>>
  BY DEF Resolv0Ns
<1>2. /\ sp \in Levels /\ sp \in Nat /\ DOMAIN stack = Levels /\ IsFrame(F) /\ ~hit
      /\ search \in 0..Len(Candidates) /\ MaxDepth \in Nat
  BY <1>1, Inside, LevelFacts, ResolverAssumption DEF FrameSound, Sources
<1>a. "resolv0" \in Asking /\ "resolv1" \in Waiting /\ "foreach ns" \notin Waiting
  BY DEF Asking, Waiting
<1>3. CASE sp + 1 >= MaxDepth
  <2>1. Goto("foreach ns") /\ UNCHANGED <<todo, phase, ai, out, said, hit, search, nodata, sp>>
    BY <1>1, <1>3 DEF Resolv0Ns, Outside
  <2>2. PICK f : f = [F EXCEPT !.state = "foreach ns"]
    OBVIOUS
  <2>3. TopIs(f) /\ FrameIs(f, "foreach ns", F.query, F.answer)
    BY <1>2, <2>1, <2>2, TopFacts, FrameUpdates
  <2> QED BY <1>1, <1>2, <1>a, <2>1, <2>3, MovesOn
<1>4. CASE ~(sp + 1 >= MaxDepth)
  <2>1. Push([name |-> F.host, type |-> "A"], "resolv1")
    BY <1>4 DEF Resolv0Ns
  <2>2. PICK q : Push(q, "resolv1")
    BY <2>1
  <2>3. sp + 1 < MaxDepth
    BY <1>2, <1>4
  <2> QED BY <1>1, <1>a, <2>2, <2>3, PushInv
<1> QED BY <1>3, <1>4

LEMMA Cname0Inv == ASSUME LookupInv, Cname0 PROVE LookupInv'
<1>1. In("cname0") /\ UNCHANGED <<Outside, search, nodata>>
  BY DEF Cname0
<1>2. /\ sp \in Levels /\ sp \in Nat /\ DOMAIN stack = Levels /\ IsFrame(F) /\ ~hit
      /\ search \in 0..Len(Candidates) /\ MaxDepth \in Nat
  BY <1>1, Inside, LevelFacts, ResolverAssumption DEF FrameSound, Sources
<1>a. "cname0" \in Asking /\ "cname1" \in Waiting /\ "finish" \notin Waiting /\ "finish" \notin Asking
  BY DEF Asking, Waiting
<1>3. CASE sp + 1 >= MaxDepth
  <2>1. Goto("finish") /\ UNCHANGED <<todo, phase, ai, out, said, hit, search, nodata, sp>>
    BY <1>1, <1>3 DEF Cname0, Outside
  <2>2. PICK f : f = [F EXCEPT !.state = "finish"]
    OBVIOUS
  <2>3. TopIs(f) /\ FrameIs(f, "finish", F.query, F.answer)
    BY <1>2, <2>1, <2>2, TopFacts, FrameUpdates
  <2> QED BY <1>1, <1>2, <1>a, <2>1, <2>3, MovesOn
<1>4. CASE ~(sp + 1 >= MaxDepth)
  <2> DEFINE target == (CHOOSE e \in F.answer.recs : e.name = F.query.name /\ e.type = "CNAME").data
  <2>1. Push([name |-> target, type |-> F.query.type], "cname1")
    BY <1>4 DEF Cname0
  <2>2. PICK q : Push(q, "cname1")
    BY <2>1
  <2>3. sp + 1 < MaxDepth
    BY <1>2, <1>4
  <2> QED BY <1>1, <1>a, <2>2, <2>3, PushInv
<1> QED BY <1>3, <1>4

\* dns_res_merge puts the records of both answers under the question of the first.
LEMMA Cname1Inv == ASSUME LookupInv, Cname1 PROVE LookupInv'
<1> DEFINE p == Merged(F.answer, stack[sp + 1].answer)
<1>1. In("cname1") /\ UNCHANGED <<todo, phase, ai, out, said, hit, search, nodata, sp>>
  BY DEF Cname1, Outside
<1>2. /\ phase = "looking" /\ ai.state = "check" /\ F.state = "cname1" /\ sp \in Levels /\ sp + 1 \in Levels
      /\ DOMAIN stack = Levels /\ FrameSound(F) /\ FrameSound(stack[sp + 1])
      /\ stack[sp + 1].state = "done" /\ ~hit /\ Sources /\ (sp = 0 => BottomSound(F))
  BY <1>1, Inside DEF Waiting
<1>3. IsFrame(F) /\ F.answer.recs \subseteq said /\ stack[sp + 1].answer.recs \subseteq said
  BY <1>2 DEF FrameSound
<1>4. ~p.none /\ p.recs \subseteq said /\ p.q = F.answer.q
  BY <1>3, PacketFields DEF Merged
<1>5. SetAndForget([F EXCEPT !.answer = p, !.state = "finish"])
  BY DEF Cname1
<1> HIDE DEF p
<1>6. PICK f : f = [F EXCEPT !.answer = p, !.state = "finish"]
  OBVIOUS
<1>7. TopIs(f) /\ FrameIs(f, "finish", F.query, p)
  BY <1>2, <1>3, <1>5, <1>6, TopFacts, FrameUpdates
<1>8. IsFrame(f) /\ f.state = "finish" /\ f.query = F.query /\ f.answer = p
  BY <1>7 DEF FrameIs
<1>9. sp = 0 => BottomSound(f)
  <2>1. sp = 0 => Asked(F.answer.q.name)
    BY <1>2 DEF BottomSound
  <2>2. f.state \notin Asking
    BY <1>8 DEF Asking, Waiting
  <2> QED BY <1>4, <1>8, <2>1, <2>2 DEF BottomSound
<1>10. Sources' /\ f.state \notin Waiting
  BY <1>1, <1>2, <1>8 DEF Sources, Waiting
<1> QED BY <1>1, <1>2, <1>4, <1>7, <1>8, <1>9, <1>10, TopStep

LEMMA FinishInv == ASSUME LookupInv, Finish PROVE LookupInv'
<1>1. /\ In("finish") /\ ~F.answer.none /\ Goto("done")
      /\ UNCHANGED <<todo, phase, ai, out, said, hit, search, nodata, sp>>
  BY DEF Finish, Outside
<1>2. /\ phase = "looking" /\ ai.state = "check" /\ sp \in Levels /\ DOMAIN stack = Levels
      /\ FrameSound(F) /\ Sources /\ (sp = 0 => BottomSound(F)) /\ (hit => sp = 0 /\ HitSound(F))
  BY <1>1, Inside
<1>3. IsFrame(F)
  BY <1>2 DEF FrameSound
<1>4. PICK f : f = [F EXCEPT !.state = "done"]
  OBVIOUS
<1>5. TopIs(f) /\ FrameIs(f, "done", F.query, F.answer)
  BY <1>1, <1>2, <1>3, <1>4, TopFacts, FrameUpdates
<1>6. IsFrame(f) /\ f.state = "done" /\ f.query = F.query /\ f.answer = F.answer
  BY <1>5 DEF FrameIs
<1>7. sp = 0 => BottomSound(f)
  BY <1>2, <1>6 DEF BottomSound, Asking, Waiting
<1>8. hit' => sp = 0 /\ HitSound(f)
  BY <1>1, <1>2, <1>6 DEF HitSound
<1>9. Sources' /\ f.state \notin Waiting /\ (f.answer.none \/ f.answer.recs \subseteq said')
  BY <1>1, <1>2, <1>6 DEF Sources, Waiting, FrameSound
<1>10. ~f.answer.none
  BY <1>1, <1>6
<1> QED BY <1>1, <1>2, <1>5, <1>6, <1>7, <1>8, <1>9, <1>10, TopStep

LEMMA ServfailInv == ASSUME LookupInv, Servfail PROVE LookupInv'
<1> DEFINE p == Packet1([name |-> Candidates[1], type |-> Qtype], {}, "servfail")
<1>1. /\ In("servfail") /\ Set([F EXCEPT !.answer = p, !.state = "done"])
      /\ UNCHANGED <<todo, phase, ai, out, said, hit, search, nodata, sp>>
  BY DEF Servfail, Outside
<1>2. /\ phase = "looking" /\ ai.state = "check" /\ sp \in Levels /\ DOMAIN stack = Levels
      /\ IsFrame(F) /\ Sources /\ ~hit
  BY <1>1, Inside DEF FrameSound
<1>3. ~p.none /\ p.recs = {}
  BY PacketFields
<1> HIDE DEF p
<1>4. PICK f : f = [F EXCEPT !.answer = p, !.state = "done"]
  OBVIOUS
<1>5. TopIs(f) /\ FrameIs(f, "done", F.query, p)
  BY <1>1, <1>2, <1>4, TopFacts, FrameUpdates
<1>6. IsFrame(f) /\ f.state = "done" /\ f.answer = p
  BY <1>5 DEF FrameIs
<1>7. BottomSound(f) /\ f.state \notin Waiting
  BY <1>3, <1>6 DEF BottomSound, Asking, Waiting
<1>8. Sources'
  BY <1>1, <1>2 DEF Sources
<1>9. ~hit' /\ f.answer.recs \subseteq said' /\ ~f.answer.none
  BY <1>1, <1>2, <1>3, <1>6
<1> QED BY <1>1, <1>2, <1>5, <1>6, <1>7, <1>8, <1>9, TopStep

\* A frame that is done goes back to the one that waits for it.
LEMMA DoneInv == ASSUME LookupInv, Done1 PROVE LookupInv'
<1>1. /\ In("done") /\ sp > 0 /\ sp' = sp - 1
      /\ UNCHANGED <<todo, phase, ai, out, said, hit, search, nodata, stack>>
  BY DEF Done1, Outside
<1>2. /\ phase = "looking" /\ ai.state = "check" /\ F.state = "done" /\ F = stack[sp]
      /\ sp \in Levels /\ DOMAIN stack = Levels
      /\ hit => sp = 0
  BY <1>1, Inside DEF F
<1>3. sp \in Nat /\ sp' \in Levels /\ sp' + 1 = sp /\ \A i \in Levels : i \in Nat
  BY <1>1, <1>2, LevelFacts
<1>4. /\ Nested /\ (\A i \in Levels : FrameSound(stack[i])) /\ BottomSound(stack[0])
      /\ GivenSound /\ TypesInOrder /\ ArrayOk /\ Sources
  BY <1>2 DEF LookupInv
<1>5. ArrayOk' /\ TypesInOrder' /\ Sources'
  BY <1>1, <1>4 DEF ArrayOk, TypesInOrder, Qtype, Sources
<1>6. \A i \in Levels : i < sp' => i < sp
  BY <1>1, <1>3
<1>7. Nested'
  BY <1>1, <1>2, <1>3, <1>4, <1>6 DEF Nested
<1>8. (\A i \in Levels : FrameSound(stack[i]))' /\ BottomSound(stack[0])'
  BY <1>1, <1>4 DEF FrameSound, BottomSound, Qtype
<1>9. GivenSound'
  BY <1>1, <1>2, <1>4 DEF GivenSound
<1>10. ~hit'
  <2>1. sp # 0
    BY <1>1, <1>3
  <2> QED BY <1>1, <1>2, <2>1
<1> QED BY <1>1, <1>2, <1>5, <1>7, <1>8, <1>9, <1>10 DEF LookupInv

-----------------------------------------------------------------------------
(***************************************************************************)
(* dns_ai_nextent and dill_ipaddr_remotes.                                 *)
(***************************************************************************)

\* What the resolver has found when it is done.
LEMMA EntriesFacts ==
  ASSUME LookupInv, phase = "looking", ai.state = "foreach"
  PROVE  /\ \A e \in Entries : e \in said /\ e.type = Qtype /\ e.name \in NamesFrom(Range1(Candidates))
         /\ hit => Entries # {} \/ ChainEnd(stack[0].answer) # stack[0].answer.q.name
<1> DEFINE p == stack[0].answer
<1>1. /\ \A i \in Levels : FrameSound(stack[i])
      /\ BottomSound(stack[0]) /\ (hit => HitSound(stack[0])) /\ GivenSound
  BY DEF LookupInv
<1>2. stack[0].state = "done" /\ FrameSound(stack[0])
  BY <1>1, LevelFacts DEF GivenSound
<1>3. ~p.none /\ p.recs \subseteq said
  BY <1>2 DEF FrameSound
<1>4. p.recs = {} \/ Asked(p.q.name)
  BY <1>1, <1>3 DEF BottomSound
<1>5. Entries = Matching(p, ChainEnd(p), Qtype)
  BY DEF Entries
<1>6. hit => Direct(p)
  BY <1>1 DEF HitSound
<1>7. hit => Entries # {} \/ ChainEnd(p) # p.q.name
  BY <1>5, <1>6 DEF Direct
<1>8. hit => Entries # {} \/ ChainEnd(stack[0].answer) # stack[0].answer.q.name
  BY <1>7
<1> HIDE DEF p
<1>9. Asked(p.q.name) => ChainEnd(p) \in NamesFrom(Range1(Candidates))
  BY <1>3, ChainEndReached DEF Asked
<1>10. \A e \in Entries : e \in p.recs /\ e.type = Qtype /\ e.name = ChainEnd(p)
  BY <1>5 DEF Matching
<1> QED BY <1>3, <1>4, <1>8, <1>9, <1>10

LEMMA FetchAnswerInv == ASSUME LookupInv, FetchAnswer PROVE LookupInv'
<1>1. /\ In("done") /\ sp = 0 /\ ai' = [ai EXCEPT !.state = "foreach"]
      /\ UNCHANGED <<todo, phase, stack, sp, search, nodata, out, said, hit>>
  BY DEF FetchAnswer
<1>2. phase = "looking" /\ ai.state = "check" /\ F.state = "done" /\ F = stack[sp]
  BY <1>1 DEF In, F
<1>3. /\ Nested /\ (\A i \in Levels : FrameSound(stack[i])) /\ BottomSound(stack[0]) /\ DOMAIN stack = Levels
      /\ GivenSound /\ TypesInOrder /\ ArrayOk /\ Sources /\ (hit => HitSound(stack[0]))
  BY <1>2 DEF LookupInv
<1>4. PICK state, given : ai = [state |-> state, given |-> given]
  BY <1>3 DEF GivenSound
<1>5. ai' = [state |-> "foreach", given |-> given] /\ ai.given = given
  BY <1>1, <1>4
<1>6. ai'.state = "foreach" /\ ai'.given = ai.given
  BY <1>5
<1>7. GivenSound'
  BY <1>1, <1>2, <1>3, <1>5, <1>6 DEF GivenSound, NamesFrom
<1>8. TypesInOrder' /\ ArrayOk' /\ Sources' /\ Nested'
  BY <1>1, <1>3, <1>6 DEF TypesInOrder, ArrayOk, Sources, Nested, Qtype
<1>9. (\A i \in Levels : FrameSound(stack[i]))' /\ BottomSound(stack[0])'
  BY <1>1, <1>3 DEF FrameSound, BottomSound, Qtype
<1>10. hit' => HitSound(stack[0])'
  BY <1>1, <1>3 DEF HitSound, Direct, Qtype
<1> QED BY <1>1, <1>3, <1>7, <1>8, <1>9, <1>10 DEF LookupInv

\* The array after one more entry.
LEMMA AppendFacts ==
  ASSUME ArrayOk, NEW e, \A i \in DOMAIN out : out[i] # e,
         out' = IF Len(out) < Naddrs THEN Append(out, e) ELSE out
  PROVE  /\ ArrayOk' /\ \A i \in DOMAIN out' : out'[i] = e \/ (i \in DOMAIN out /\ out'[i] = out[i])
         /\ \A i, j \in DOMAIN out' :
              i <= j => \/ out'[j] = e
                        \/ i \in DOMAIN out /\ j \in DOMAIN out /\ out'[i] = out[i] /\ out'[j] = out[j]
<1>1. PICK S : out \in Seq(S)
  BY DEF ArrayOk
<1>2. Naddrs \in Nat /\ Len(out) \in Nat /\ DOMAIN out = 1..Len(out)
  BY <1>1, ResolverAssumption
<1>3. CASE out' = out
  BY <1>3 DEF ArrayOk
<1>4. CASE Len(out) < Naddrs /\ out' = Append(out, e)
  <2>1. /\ out' \in Seq(S \cup {e}) /\ Len(out') = Len(out) + 1 /\ DOMAIN out' = 1..(Len(out) + 1)
        /\ out'[Len(out) + 1] = e /\ \A i \in 1..Len(out) : out'[i] = out[i]
    <3>1. out \in Seq(S \cup {e})
      BY <1>1
    <3> QED BY <1>4, <3>1
  <2>2. \A i \in DOMAIN out' : (i = Len(out) + 1 /\ out'[i] = e) \/ (i \in DOMAIN out /\ out'[i] = out[i])
    BY <1>2, <2>1
  <2>3. \A i, j \in DOMAIN out' : out'[i] = out'[j] => i = j
    BY <2>2 DEF ArrayOk
  <2>4. Len(out') <= Naddrs
    BY <1>2, <1>4, <2>1
  <2>5. \A i, j \in DOMAIN out' : i <= j /\ out'[j] # e => i # Len(out) + 1
    BY <1>2, <2>2
  <2> QED BY <2>1, <2>2, <2>3, <2>4, <2>5 DEF ArrayOk
<1> QED BY <1>3, <1>4

LEMMA NextEntryInv == ASSUME LookupInv, NextEntry PROVE LookupInv'
<1>1. PICK e \in Entries \ ai.given :
        /\ ai' = [ai EXCEPT !.given = ai.given \cup {e}]
        /\ out' = IF Len(out) < Naddrs THEN Append(out, e) ELSE out
  BY DEF NextEntry
<1>2. /\ phase = "looking" /\ ai.state = "foreach"
      /\ UNCHANGED <<todo, phase, stack, sp, search, nodata, said, hit>>
  BY DEF NextEntry
<1>3. /\ Nested /\ (\A i \in Levels : FrameSound(stack[i])) /\ BottomSound(stack[0]) /\ DOMAIN stack = Levels
      /\ GivenSound /\ TypesInOrder /\ ArrayOk /\ Sources /\ (hit => HitSound(stack[0]))
  BY <1>2 DEF LookupInv
<1>4. PICK state, given : ai = [state |-> state, given |-> given]
  BY <1>3 DEF GivenSound
<1>5. ai' = [state |-> state, given |-> given \cup {e}] /\ ai.given = given /\ ai.state = state
  BY <1>1, <1>4
<1>6. ai'.state = "foreach" /\ ai'.given = ai.given \cup {e}
  BY <1>2, <1>5
<1>7. e \in said /\ e.type = Qtype /\ e.name \in NamesFrom(Range1(Candidates)) /\ e \notin ai.given
  BY <1>1, <1>2, EntriesFacts
<1>8. \A i \in DOMAIN out : out[i] # e
  BY <1>3, <1>7 DEF TypesInOrder
<1>9. /\ ArrayOk' /\ \A i \in DOMAIN out' : out'[i] = e \/ (i \in DOMAIN out /\ out'[i] = out[i])
      /\ \A i, j \in DOMAIN out' :
           i <= j => \/ out'[j] = e
                     \/ i \in DOMAIN out /\ j \in DOMAIN out /\ out'[i] = out[i] /\ out'[j] = out[j]
  BY <1>1, <1>3, <1>8, AppendFacts
<1>10. GivenSound'
  <2>1. /\ sp' = 0 /\ stack'[0].state = "done"
        /\ \A a \in ai.given : a \in said /\ a.name \in NamesFrom(Range1(Candidates))
    BY <1>2, <1>3 DEF GivenSound
  <2>2. NamesFrom(Range1(Candidates))' = NamesFrom(Range1(Candidates))
    BY <1>2 DEF NamesFrom, Range1
  <2>3. \A a \in ai'.given : a \in said' /\ a.name \in NamesFrom(Range1(Candidates))'
    BY <1>2, <1>6, <1>7, <2>1, <2>2
  <2> QED BY <1>5, <1>6, <2>1, <2>3 DEF GivenSound
<1>11. TypesInOrder'
  <2>1. \A j \in 2..Len(todo) : e.type # todo[j]
    <3>1. todo \in Types
      BY <1>3 DEF TypesInOrder
    <3> QED BY <1>7, <3>1, TypeFacts DEF Qtype
  <2>2. \A i, j \in DOMAIN out' : i <= j /\ out'[i].type = Qtype => out'[j].type = Qtype
    BY <1>3, <1>7, <1>9 DEF TypesInOrder
  <2>3. \A i \in DOMAIN out' : /\ \A j \in 2..Len(todo) : out'[i].type # todo[j]
                               /\ out'[i].type = Qtype => out'[i] \in ai'.given
    BY <1>3, <1>6, <1>9, <2>1 DEF TypesInOrder
  <2> QED BY <1>2, <1>3, <2>2, <2>3 DEF TypesInOrder, Qtype
<1>12. Sources' /\ Nested' /\ DOMAIN stack' = Levels
  BY <1>2, <1>3 DEF Sources, Nested
<1>13. (\A i \in Levels : FrameSound(stack[i]))' /\ BottomSound(stack[0])'
  BY <1>2, <1>3 DEF FrameSound, BottomSound, Qtype
<1>14. hit' => HitSound(stack[0])'
  BY <1>2, <1>3 DEF HitSound, Direct, Qtype
<1> QED BY <1>9, <1>10, <1>11, <1>12, <1>13, <1>14 DEF LookupInv

LEMMA FreshFacts == ASSUME stack' = FreshStack PROVE
  DOMAIN stack' = Levels /\ \A i \in Levels : stack'[i] = NewFrame(NoQuery)
BY DEF FreshStack, Levels

\* The state in which the lookup of a type begins.
LEMMA FreshInv ==
  ASSUME ArrayOk', TypesInOrder', stack' = FreshStack, sp' = 0, search' = 0, nodata' = NoPacket,
         ai' = [state |-> "check", given |-> {}], said' = HostsFile, ~hit'
  PROVE  LookupInv'
<1>1. DOMAIN stack' = Levels /\ \A i \in Levels : stack'[i] = NewFrame(NoQuery)
  BY FreshFacts
<1>2. /\ IsFrame(NewFrame(NoQuery)) /\ NewFrame(NoQuery).state = "init" /\ NewFrame(NoQuery).answer.none
  BY NewFrameFacts, PacketFields DEF FrameIs
<1>3. \A i \in Levels : FrameSound(stack[i])'
  BY <1>1, <1>2 DEF FrameSound
<1>4. BottomSound(stack[0])'
  BY <1>1, <1>2, LevelFacts DEF BottomSound, Asking, Waiting
<1>5. Nested'
  <2>1. \A i \in Levels : ~(i < 0)
    BY LevelFacts
  <2>2. stack'[0].state \notin Waiting
    BY <1>1, <1>2, LevelFacts DEF Waiting
  <2> QED BY <2>1, <2>2, LevelFacts DEF Nested
<1>6. Sources'
  <2>1. 0 \in 0..Len(Candidates)
    BY ResolverAssumption
  <2>2. nodata'.none
    BY PacketFields, Zenon
  <2> QED BY <2>1, <2>2 DEF Sources
<1>7. GivenSound'
  BY DEF GivenSound
<1> QED BY <1>1, <1>3, <1>4, <1>5, <1>6, <1>7 DEF LookupInv

LEMMA TypeEndsInv == ASSUME LookupInv, phase = "looking", TypeEnds PROVE LookupInv'
<1>1. /\ phase = "looking" /\ todo' = Tail(todo) /\ hit' = FALSE /\ said' = HostsFile /\ out' = out
  BY DEF TypeEnds
<1>2. ArrayOk /\ TypesInOrder /\ DOMAIN stack = Levels
  BY <1>1 DEF LookupInv
<1>3. ArrayOk' /\ todo \in Types
  BY <1>1, <1>2 DEF ArrayOk, TypesInOrder
<1>4. CASE Len(todo) > 1 /\ Fresh
  <2>1. Tail(todo) \in Types /\ Len(Tail(todo)) = 1 /\ Head(Tail(todo)) = todo[2] /\ 2 \in 2..Len(todo)
    BY <1>3, <1>4, TypeFacts
  <2>2. \A i \in DOMAIN out' : out'[i].type # Head(Tail(todo))
    BY <1>1, <1>2, <2>1 DEF TypesInOrder
  <2>3. 2..Len(Tail(todo)) = {}
    <3>1. 2..1 = {}
      OBVIOUS
    <3> QED BY <2>1, <3>1
  <2>4. TypesInOrder'
    <3>1. todo' \in Types /\ 2..Len(todo') = {}
      BY <1>1, <2>1, <2>3
    <3>2. \A i \in DOMAIN out' : out'[i].type # Qtype'
      BY <1>1, <2>2 DEF Qtype
    <3> QED BY <3>1, <3>2 DEF TypesInOrder
  <2>5. /\ stack' = FreshStack /\ sp' = 0 /\ search' = 0 /\ nodata' = NoPacket
        /\ ai' = [state |-> "check", given |-> {}]
    BY <1>4 DEF Fresh
  <2>6. ~hit'
    BY <1>1, Zenon
  <2> QED BY <1>1, <1>3, <2>4, <2>5, <2>6, FreshInv
<1>5. CASE phase' = "returned" /\ stack' = stack
  BY <1>2, <1>3, <1>5 DEF LookupInv
<1> QED BY <1>4, <1>5 DEF TypeEnds

\* A call that ends early.
LEMMA EndsInv == ASSUME LookupInv, SystemError \/ WaitFails PROVE LookupInv'
<1>1. ArrayOk /\ DOMAIN stack = Levels /\ stack' = stack
  BY DEF LookupInv, SystemError, WaitFails
<1>2. CASE SystemError
  BY <1>1, <1>2 DEF SystemError, LookupInv, ArrayOk
<1>3. CASE WaitFails
  <2>1. <<>> \in Seq({}) /\ Len(<<>>) = 0 /\ 0 <= Naddrs /\ DOMAIN <<>> = {}
    BY ResolverAssumption
  <2>2. out' = <<>> /\ phase' = "returned"
    BY <1>3 DEF WaitFails
  <2>3. ArrayOk'
    BY <2>1, <2>2 DEF ArrayOk
  <2> QED BY <1>1, <2>2, <2>3 DEF LookupInv
<1> QED BY <1>2, <1>3

\* A step that leaves all of this alone.
LEMMA KeepsLookup ==
  ASSUME LookupInv, UNCHANGED <<todo, phase, ai, stack, sp, search, nodata, out, said, hit>>
  PROVE  LookupInv'
<1>1. ArrayOk' /\ DOMAIN stack' = Levels
  BY DEF LookupInv, ArrayOk
<1> SUFFICES ASSUME phase = "looking"
             PROVE  /\ Nested' /\ (\A i \in Levels : FrameSound(stack[i]))' /\ BottomSound(stack[0])'
                    /\ (hit => HitSound(stack[0]))' /\ Sources' /\ GivenSound' /\ TypesInOrder'
  BY <1>1 DEF LookupInv
<1>2. /\ Nested /\ (\A i \in Levels : FrameSound(stack[i])) /\ BottomSound(stack[0])
      /\ GivenSound /\ TypesInOrder /\ Sources /\ (hit => HitSound(stack[0]))
  BY DEF LookupInv
<1>3. Nested' /\ Sources' /\ TypesInOrder'
  BY <1>2 DEF Nested, Sources, TypesInOrder, Qtype
<1>4. (\A i \in Levels : FrameSound(stack[i]))' /\ BottomSound(stack[0])'
  BY <1>2 DEF FrameSound, BottomSound, Qtype
<1>5. (hit => HitSound(stack[0]))'
  BY <1>2 DEF HitSound, Direct, Qtype
<1>6. NamesFrom(Range1(Candidates))' = NamesFrom(Range1(Candidates))
  BY DEF NamesFrom, Range1
<1>7. GivenSound'
  BY <1>2, <1>6 DEF GivenSound
<1> QED BY <1>3, <1>4, <1>5, <1>7

LEMMA LookupInitInv == ResolverInit => LookupInv
<1> SUFFICES ASSUME ResolverInit PROVE LookupInv
  OBVIOUS
<1>1. /\ out = <<>> /\ said = HostsFile /\ hit = FALSE /\ todo \in Types
      /\ ai = [state |-> "check", given |-> {}] /\ stack = FreshStack
      /\ sp = 0 /\ search = 0 /\ nodata = NoPacket
  BY DEF ResolverInit, Types
<1>2. ArrayOk /\ TypesInOrder
  <2>1. <<>> \in Seq({}) /\ Len(<<>>) = 0 /\ 0 <= Naddrs /\ DOMAIN <<>> = {}
    BY ResolverAssumption
  <2> QED BY <1>1, <2>1 DEF ArrayOk, TypesInOrder
<1>3. DOMAIN stack = Levels /\ \A i \in Levels : stack[i] = NewFrame(NoQuery)
  BY <1>1 DEF FreshStack, Levels
<1>4. /\ IsFrame(NewFrame(NoQuery)) /\ NewFrame(NoQuery).state = "init" /\ NewFrame(NoQuery).answer.none
  BY NewFrameFacts, PacketFields DEF FrameIs
<1>5. \A i \in Levels : FrameSound(stack[i])
  BY <1>3, <1>4 DEF FrameSound
<1>6. BottomSound(stack[0])
  BY <1>3, <1>4, LevelFacts DEF BottomSound, Asking, Waiting
<1>7. Nested
  <2>1. \A i \in Levels : ~(i < 0)
    BY LevelFacts
  <2>2. stack[0].state \notin Waiting
    BY <1>3, <1>4, LevelFacts DEF Waiting
  <2> QED BY <1>1, <2>1, <2>2, LevelFacts DEF Nested
<1>8. Sources
  <2>1. 0 \in 0..Len(Candidates)
    BY ResolverAssumption
  <2>2. nodata.none
    BY <1>1, PacketFields, Zenon
  <2> QED BY <1>1, <2>1, <2>2 DEF Sources
<1>9. GivenSound /\ ~hit
  BY <1>1 DEF GivenSound
<1> QED BY <1>2, <1>3, <1>5, <1>6, <1>7, <1>8, <1>9 DEF LookupInv

LEMMA LookupNextInv == LookupInv /\ [ResolverNext]_resVars => LookupInv'
<1> SUFFICES ASSUME LookupInv, [ResolverNext]_resVars PROVE LookupInv'
  OBVIOUS
<1>1. CASE Glue \/ Switch \/ File \/ Bind \/ Search
  BY <1>1, GlueInv, SwitchInv, FileInv, BindInv, SearchInv
<1>2. CASE Hints \/ Iterate \/ ForeachNs \/ Resolv0Ns \/ Resolv1Ns \/ ForeachA
  BY <1>2, HintsInv, ForeachNsInv, Resolv0Inv, Resolv1Inv, ForeachAInv
<1>3. CASE Cname0 \/ Cname1 \/ Finish \/ Done1 \/ Servfail
  BY <1>3, Cname0Inv, Cname1Inv, FinishInv, DoneInv, ServfailInv
<1>4. CASE FetchAnswer \/ NextEntry \/ EntriesEnd \/ HintsFull
  BY <1>4, FetchAnswerInv, NextEntryInv, TypeEndsInv DEF EntriesEnd, HintsFull, In
<1>5. CASE \E recs \in Answers(F.query) : Answered(recs)
  BY <1>5, AnsweredInv
<1>6. CASE (\E g \in 0..1 : Referred(g)) \/ NotAuthoritative
  BY <1>6, ReferredInv
<1>7. CASE AnsweredLate
  BY <1>7, ForeachAInv
<1>8. CASE SystemError \/ WaitFails
  BY <1>8, EndsInv
<1>9. CASE AnswerLost
  BY <1>9, KeepsLookup DEF AnswerLost, Outside
<1>10. CASE UNCHANGED resVars
  BY <1>10, KeepsLookup DEF resVars
<1> QED BY <1>1, <1>2, <1>3, <1>4, <1>5, <1>6, <1>7, <1>8, <1>9, <1>10 DEF ResolverNext, Computes, Arrives

\* The frame is never one beyond the stack, when the call has ended neither.
InStack == sp \in Levels
LEMMA FrameStays == LookupInv' /\ InStack /\ [ResolverNext]_resVars => InStack'
<1> SUFFICES ASSUME LookupInv', sp \in Levels, [ResolverNext]_resVars PROVE sp' \in Levels
  BY DEF InStack
<1>1. phase' = "looking" => sp' \in Levels
  BY DEF LookupInv, Nested
<1>2. sp' = sp \/ (phase' = phase /\ phase = "looking") \/ sp' = 0
  <2>1. CASE Resolv0Ns \/ Cname0 \/ Done1
    BY <2>1 DEF Resolv0Ns, Cname0, Done1, In, Outside
  <2>2. CASE Glue \/ Switch \/ File \/ Bind \/ Search \/ Hints \/ Iterate \/ ForeachNs
    BY <2>2 DEF Glue, Switch, File, Bind, Search, Hints, Iterate, ForeachNs
  <2>3. CASE Resolv1Ns \/ ForeachA \/ Cname1 \/ Finish \/ Servfail
    BY <2>3 DEF Resolv1Ns, ForeachA, Cname1, Finish, Servfail
  <2>4. CASE FetchAnswer \/ NextEntry \/ EntriesEnd \/ HintsFull
    BY <2>4 DEF FetchAnswer, NextEntry, EntriesEnd, HintsFull, TypeEnds, Fresh
  <2>5. CASE Arrives \/ AnswerLost \/ WaitFails
    BY <2>5 DEF Arrives, Answered, Referred, NotAuthoritative, AnsweredLate, SystemError, AnswerLost, WaitFails
  <2>6. CASE UNCHANGED resVars
    BY <2>6 DEF resVars
  <2> QED BY <2>1, <2>2, <2>3, <2>4, <2>5, <2>6 DEF ResolverNext, Computes
<1> QED BY <1>1, <1>2, LevelFacts

\* dill_ipaddr_remotes returns only addresses that were given for the name or for what
\* it is an alias of, once each, those of the preferred type first and no more than
\* asked for; the resolver stays within its stack, and an address in an answer to the
\* question is returned unless that answer leads on to another name.
THEOREM LookupCorrect == ResolverSpec => []LookupSound
<1>1. LookupInv /\ InStack => LookupSound
  <2> SUFFICES ASSUME LookupInv, sp \in Levels PROVE LookupSound
    BY DEF InStack
  <2>1. Len(out) <= Naddrs /\ sp \in 0..(MaxDepth - 1)
    BY DEF LookupInv, ArrayOk, Levels
  <2>2. \A i, j \in DOMAIN out : out[i] = out[j] => i = j
    BY DEF LookupInv, ArrayOk
  <2>3. ASSUME phase = "looking", NEW i \in DOMAIN out
        PROVE  /\ out[i].type = Qtype => out[i] \in said /\ out[i].name \in NamesFrom(Range1(Candidates))
               /\ out[i].type \notin Range1(Tail(todo))
               /\ \A j \in i..Len(out) : out[i].type = Qtype => out[j].type = Qtype
    <3>1. TypesInOrder /\ GivenSound
      BY <2>3 DEF LookupInv
    <3>2. out[i].type = Qtype => out[i] \in said /\ out[i].name \in NamesFrom(Range1(Candidates))
      BY <2>3, <3>1 DEF TypesInOrder, GivenSound
    <3>3. out[i].type \notin Range1(Tail(todo))
      BY <2>3, <3>1, TypeFacts DEF TypesInOrder
    <3>4. PICK S : out \in Seq(S)
      BY DEF LookupInv, ArrayOk
    <3>5. \A j \in i..Len(out) : j \in DOMAIN out /\ i <= j
      BY <2>3, <3>4
    <3> QED BY <2>3, <3>1, <3>2, <3>3, <3>5 DEF TypesInOrder
  <2>4. phase = "looking" /\ ai.state = "foreach" /\ hit =>
          Entries # {} \/ ChainEnd(stack[0].answer) # stack[0].answer.q.name
    BY EntriesFacts
  <2> QED BY <2>1, <2>2, <2>3, <2>4 DEF LookupSound
<1>2. ResolverInit => InStack
  BY LevelFacts DEF ResolverInit, InStack
<1> QED BY <1>1, <1>2, LookupInitInv, LookupNextInv, FrameStays, PTL DEF ResolverSpec
=============================================================================
