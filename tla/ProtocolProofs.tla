--------------------------- MODULE ProtocolProofs ---------------------------
(***************************************************************************)
(* Proofs about sockets and protocols: the UDP socket (module Udp), for    *)
(* any number of users and datagrams, the closing handshakes (module       *)
(* Closing), for any number of messages, SOCKS5 (module Socks5), for any   *)
(* credentials and targets, and PREFIX and SUFFIX (module Framing), for    *)
(* any messages, buffers, suffix and length of the header.                 *)
(***************************************************************************)
EXTENDS Udp, Closing, Socks5, Framing, SeqLemmas

(***************************************************************************)
(* The UDP socket.                                                         *)
(***************************************************************************)

UdpTypes ==
  /\ hasremote \in BOOLEAN /\ busy \in BOOLEAN
  /\ user \in [Users -> {"idle", "run", "wait"}]
  /\ queue \in Seq(Datagrams) /\ arrived \in Seq(Datagrams) /\ returned \in Seq(Datagrams)

\* What was returned and what is in the queue is what arrived.
NoneLost == returned \o Wanted(queue) = Wanted(arrived)

\* The flag is set while somebody waits. One coroutine is inside of the socket:
\* it waits, or it runs and the flag is not set.
FlagExact ==
  /\ busy <=> \E c \in Users : user[c] = "wait"
  /\ \A c, d \in Users : user[c] # "idle" /\ user[d] # "idle" => c = d

UdpInv == UdpTypes /\ NoneLost /\ FlagExact

\* The socket is the same for all datagrams.
LEMMA UdpKeepsBooks ==
  ASSUME NoneLost, UNCHANGED <<hasremote, queue, arrived, returned>> PROVE NoneLost'
BY DEF NoneLost, Wanted

\* A datagram arrives at the end of the queue.
LEMMA ArriveInv ==
  ASSUME UdpInv, NEW src \in {Remote, Stranger}, Arrive(src) PROVE UdpInv'
<1>1. PICK id \in 1..(Len(arrived) + 1) :
        /\ queue' = Append(queue, [id |-> id, src |-> src])
        /\ arrived' = Append(arrived, [id |-> id, src |-> src])
  BY DEF Arrive
<1>2. /\ queue \in Seq(Datagrams) /\ arrived \in Seq(Datagrams) /\ returned \in Seq(Datagrams)
      /\ Len(arrived) \in Nat /\ UNCHANGED <<hasremote, busy, user, returned>>
  BY DEF UdpInv, UdpTypes, Arrive
<1> DEFINE S == {d \in Datagrams : hasremote /\ d.src = Stranger}
           x == [id |-> id, src |-> src]
<1>3. x \in Datagrams /\ queue' = Append(queue, x) /\ arrived' = Append(arrived, x)
  BY <1>1, <1>2 DEF Datagrams
<1>4. \A s : Wanted(s) = Without(s, S) /\ Wanted(s)' = Without(s', S)
  BY <1>2 DEF Wanted
<1> HIDE DEF S, x
<1>5. returned \o Without(queue, S) = Without(arrived, S)
  BY <1>4 DEF UdpInv, NoneLost
<1>6. /\ Without(queue', S) = Pass(Without(queue, S), x, S)
      /\ Without(arrived', S) = Pass(Without(arrived, S), x, S)
  BY <1>2, <1>3, WithoutAppend
<1>7. Without(queue, S) \in Seq(Datagrams)
  BY <1>2, WithoutFacts
<1>8. returned \o Append(Without(queue, S), x) = Append(returned \o Without(queue, S), x)
  BY <1>2, <1>3, <1>7, ConcatLaws
<1>9. returned \o Without(queue', S) = Without(arrived', S)
  BY <1>5, <1>6, <1>8 DEF Pass
<1>10. NoneLost'
  BY <1>2, <1>4, <1>9 DEF NoneLost
<1>11. UdpTypes' /\ FlagExact'
  BY <1>2, <1>3 DEF UdpInv, UdpTypes, FlagExact
<1> QED BY <1>10, <1>11 DEF UdpInv

\* The datagram at its head is passed on or dropped.
LEMMA TakeInv ==
  ASSUME UdpInv, NEW c \in Users, Take(c) PROVE UdpInv'
<1>1. /\ queue \in Seq(Datagrams) /\ arrived \in Seq(Datagrams) /\ returned \in Seq(Datagrams)
      /\ user[c] = "run" /\ queue # <<>> /\ queue' = Tail(queue)
      /\ UNCHANGED <<hasremote, busy, arrived>>
  BY DEF UdpInv, UdpTypes, Take
<1> DEFINE S == {d \in Datagrams : hasremote /\ d.src = Stranger}
<1>2. PICK x : x = Head(queue)
  OBVIOUS
<1>3. x \in Datagrams /\ queue' \in Seq(Datagrams)
  BY <1>1, <1>2
<1>4. Dropped(x) <=> x \in S
  BY <1>3, UdpAssumption DEF Dropped, Datagrams
<1>5. \A s : Wanted(s) = Without(s, S) /\ Wanted(s)' = Without(s', S)
  BY <1>1 DEF Wanted
<1> HIDE DEF S
<1>6. returned \o Without(queue, S) = Without(arrived, S)
  BY <1>5 DEF UdpInv, NoneLost
<1>7. PICK w : w = Without(queue', S)
  OBVIOUS
<1>8. w \in Seq(Datagrams)
  BY <1>3, <1>7, WithoutFacts
<1>9. Without(queue, S) = IF x \in S THEN w ELSE <<x>> \o w
  BY <1>1, <1>2, <1>7, WithoutHead
<1>10. CASE x \in S
  <2>1. UNCHANGED <<user, returned>>
    BY <1>2, <1>4, <1>10 DEF Take
  <2>2. NoneLost'
    BY <1>1, <1>5, <1>6, <1>7, <1>9, <1>10, <2>1 DEF NoneLost
  <2>3. UdpTypes' /\ FlagExact'
    BY <1>1, <1>3, <2>1 DEF UdpInv, UdpTypes, FlagExact
  <2> QED BY <2>2, <2>3 DEF UdpInv
<1>11. CASE x \notin S
  <2>1. returned' = Append(returned, x) /\ user' = [user EXCEPT ![c] = "idle"]
    BY <1>2, <1>4, <1>11 DEF Take
  <2>2. returned \o (<<x>> \o w) = Append(returned, x) \o w
    BY <1>1, <1>3, <1>8, ConcatLaws
  <2>3. returned' \o Without(queue', S) = Without(arrived', S)
    BY <1>1, <1>6, <1>7, <1>9, <1>11, <2>1, <2>2
  <2>4. NoneLost'
    BY <1>5, <2>3 DEF NoneLost
  <2>5. UdpTypes' /\ FlagExact'
    BY <1>1, <1>3, <2>1 DEF UdpInv, UdpTypes, FlagExact
  <2> QED BY <2>4, <2>5 DEF UdpInv
<1> QED BY <1>10, <1>11

LEMMA UdpNextInv == UdpInv /\ [UdpNext]_udpVars => UdpInv'
<1> SUFFICES ASSUME UdpInv, [UdpNext]_udpVars PROVE UdpInv'
  OBVIOUS
<1>1. CASE UNCHANGED udpVars
  BY <1>1, UdpKeepsBooks DEF udpVars, UdpInv, UdpTypes, FlagExact
<1>2. ASSUME NEW c \in Users, NEW dst, Send(c, dst) PROVE UdpInv'
  BY <1>2, UdpKeepsBooks DEF Send, UdpInv, UdpTypes, FlagExact
<1>3. ASSUME NEW c \in Users, Recv(c) PROVE UdpInv'
  BY <1>3, UdpKeepsBooks DEF Recv, NobodyRuns, UdpInv, UdpTypes, FlagExact
<1>4. ASSUME NEW c \in Users, Block(c) PROVE UdpInv'
  BY <1>4, UdpKeepsBooks DEF Block, UdpInv, UdpTypes, FlagExact
<1>5. ASSUME NEW c \in Users, Wake(c) PROVE UdpInv'
  BY <1>5, UdpKeepsBooks DEF Wake, UdpInv, UdpTypes, FlagExact
<1>6. ASSUME NEW c \in Users, Expire(c) PROVE UdpInv'
  BY <1>6, UdpKeepsBooks DEF Expire, UdpInv, UdpTypes, FlagExact
<1> QED BY <1>1, <1>2, <1>3, <1>4, <1>5, <1>6, ArriveInv, TakeInv DEF UdpNext

\* A UDP socket returns every datagram it should, once and in the order of
\* arrival, and is busy only while a receiver waits (DatagramsExact), whoever
\* shares the socket: dill_udp_recvl_ admits one coroutine at a time, which
\* either waits with the flag set or runs with the flag reset.
THEOREM DatagramsCorrect == UdpSpec => []DatagramsExact
<1>1. UdpInit => UdpInv
  <2> SUFFICES ASSUME UdpInit PROVE UdpInv
    OBVIOUS
  <2>1. queue = <<>> /\ arrived = <<>> /\ returned = <<>> /\ <<>> \in Seq(Datagrams)
    BY DEF UdpInit
  <2>2. Wanted(<<>>) \in Seq(Datagrams)
    BY <2>1, WithoutFacts DEF Wanted
  <2>3. NoneLost
    BY <2>1, <2>2, ConcatEmptySeq DEF NoneLost
  <2> QED BY <2>1, <2>3 DEF UdpInit, UdpInv, UdpTypes, FlagExact
<1>2. UdpInv => DatagramsExact
  BY DEF UdpInv, UdpTypes, NoneLost, FlagExact, DatagramsExact
<1> QED BY <1>1, <1>2, UdpNextInv, PTL DEF UdpSpec

-----------------------------------------------------------------------------
(***************************************************************************)
(* The closing handshakes. What a peer sends is one stream: d messages,    *)
(* then, if it is done (o = 1), the terminal message and k items that      *)
(* follow, then, if it has closed the socket (z = 1), the end of the       *)
(* stream.                                                                 *)
(***************************************************************************)
Items == {"data", "plain", "terminal", "eof"} \X Nat

Flag(b) == IF b THEN 1 ELSE 0

ItemAt(d, k, o, i) ==
  IF i <= d THEN Data(i)
  ELSE IF o = 1 /\ i = d + 1 THEN Terminal
  ELSE IF o = 1 /\ i <= d + 1 + k THEN Plain(i - (d + 1))
  ELSE Eof

Total(d, k, o, z) == d + (IF o = 1 THEN 1 + k ELSE 0) + z

\* w is what is left of the stream when n items of it were read.
Unread(w, n, d, k, o, z) ==
  /\ w \in Seq(Items) /\ n \in Nat /\ Len(w) + n = Total(d, k, o, z)
  /\ \A i \in 1..Len(w) : w[i] = ItemAt(d, k, o, n + i)

\* The state e of a peer that has read n items of such a stream and received h,
\* the terminal message included (f) or not. A peer that is still inside of the
\* protocol has not read beyond the terminal message; one that is outside has
\* read it, or the stream ends without it.
Position(n, d, o, z, e, h, f) ==
  /\ f => o = 1 /\ n = d + 1 + Len(h.plain)
  /\ ~f => n <= d /\ h.plain = <<>>
  /\ e.at = "open" /\ ~f => n = Len(h.data)
  /\ e.at = "open" /\ f => e.indone
  /\ e.at = "detaching" => ~f /\ ~e.indone
  /\ ~f /\ (e.indone \/ e.at = "off") => n = d /\ o = 0 /\ z = 1
  /\ \A i \in 1..Len(h.data) : h.data[i] = i
  /\ \A i \in 1..Len(h.plain) : h.plain[i] = Plain(i)

Gone == {"closed", "crashed"}
EndStates == [indone : BOOLEAN, outdone : BOOLEAN, err : BOOLEAN,
              at : {"open", "detaching", "off"} \cup Gone]
Tolds == [data : Nat, plain : Nat]
Heards == [data : Seq(Nat), plain : Seq(Items)]

ClosingTypes ==
  /\ protocol \in {"term", "ws", "tls"}
  /\ end \in [Ends -> EndStates]
  /\ way \in [Ends -> Seq(Items)]
  /\ told \in [Ends -> Tolds]
  /\ heard \in [Ends -> Heards]
  /\ final \in [Ends -> BOOLEAN]

\* A peer leaves the protocol only when it is done, and only then uses the socket
\* underneath.
DoneFirst(p) ==
  /\ end[p].at \in {"detaching", "off"} => end[p].outdone
  /\ ~end[p].outdone => told[p].plain = 0

\* n items of the stream of a peer with the state e that has sent t were read, w is
\* left; the reader is in the state g, has received h, and maybe (f) the end.
Between(n, w, t, e, g, h, f) ==
  /\ Unread(w, n, t.data, t.plain, Flag(e.outdone), Flag(e.at \in Gone))
  /\ Position(n, t.data, Flag(e.outdone), Flag(e.at \in Gone), g, h, f)

\* The stream from q to its peer p.
Direction(q, p) ==
  \E n \in Nat : Between(n, way[q], told[q], end[q], end[p], heard[p], final[p])

ClosingInv ==
  ClosingTypes /\ \A p \in Ends : DoneFirst(p) /\ Direction(Peer(p), p)

LEMMA PeerFacts ==
  ASSUME NEW p \in Ends
  PROVE  Peer(p) \in Ends /\ Peer(p) # p /\ Peer(Peer(p)) = p /\ Ends = {p, Peer(p)}
<1>1. \A q \in Ends : Peer(q) \in Ends /\ Peer(q) # q
  BY ClosingAssumption DEF Peer
<1> QED BY <1>1, ClosingAssumption

LEMMA ItemFacts ==
  /\ \A i \in Nat : Data(i) \in Items /\ Plain(i) \in Items
  /\ Terminal \in Items /\ Eof \in Items
  /\ \A i : Data(i)[1] = "data" /\ Data(i)[2] = i /\ Plain(i)[1] = "plain" /\ Plain(i)[2] = i
  /\ Terminal[1] = "terminal" /\ Eof[1] = "eof"
BY DEF Items, Data, Plain, Terminal, Eof

\* An item is sent at the end of the stream.
LEMMA Grow ==
  ASSUME NEW w, NEW n, NEW d \in Nat, NEW k \in Nat, NEW o \in Nat, NEW z \in Nat,
         NEW d2 \in Nat, NEW k2 \in Nat, NEW o2 \in Nat, NEW z2 \in Nat,
         Unread(w, n, d, k, o, z), NEW x \in Items,
         Total(d2, k2, o2, z2) = Total(d, k, o, z) + 1,
         ItemAt(d2, k2, o2, Total(d, k, o, z) + 1) = x,
         \A i \in 1..Total(d, k, o, z) : ItemAt(d2, k2, o2, i) = ItemAt(d, k, o, i)
  PROVE  Unread(w \o <<x>>, n, d2, k2, o2, z2)
<1>1. PICK t : t = Total(d, k, o, z)
  OBVIOUS
<1>2. t \in Nat
  BY <1>1 DEF Total
<1>3. /\ w \in Seq(Items) /\ n \in Nat /\ Len(w) \in Nat /\ Len(w) + n = t
      /\ \A i \in 1..Len(w) : w[i] = ItemAt(d, k, o, n + i)
  BY <1>1 DEF Unread
<1>4. PICK v : v = w \o <<x>>
  OBVIOUS
<1>5. /\ v \in Seq(Items) /\ Len(v) = Len(w) + 1 /\ v[Len(w) + 1] = x
      /\ \A i \in 1..Len(w) : v[i] = w[i]
  BY <1>3, <1>4
<1>6. ASSUME NEW i \in 1..Len(v) PROVE v[i] = ItemAt(d2, k2, o2, n + i)
  <2>1. CASE i \in 1..Len(w)
    <3>1. PICK m : m = n + i
      OBVIOUS
    <3>2. m \in 1..t
      BY <1>2, <1>3, <2>1, <3>1
    <3>3. ItemAt(d2, k2, o2, m) = ItemAt(d, k, o, m)
      BY <1>1, <3>2
    <3> QED BY <1>3, <1>5, <2>1, <3>1, <3>3
  <2>2. CASE i = Len(w) + 1
    <3>1. n + i = t + 1
      <4>1. n \in Nat /\ Len(w) \in Nat /\ Len(w) + n = t
        BY <1>3
      <4> QED BY <1>2, <2>2, <4>1
    <3> QED BY <1>1, <1>5, <2>2, <3>1
  <2> QED BY <1>3, <1>5, <2>1, <2>2
<1>7. Len(v) + n = Total(d2, k2, o2, z2)
  BY <1>1, <1>2, <1>3, <1>5
<1> QED BY <1>3, <1>4, <1>5, <1>6, <1>7 DEF Unread

\* An item is read at its front.
LEMMA Shrink ==
  ASSUME NEW w, NEW n, NEW d \in Nat, NEW k \in Nat, NEW o \in Nat, NEW z \in Nat,
         Unread(w, n, d, k, o, z), w # <<>>
  PROVE  /\ Head(w) = ItemAt(d, k, o, n + 1) /\ Unread(Tail(w), n + 1, d, k, o, z)
         /\ n \in Nat /\ n + 1 <= Total(d, k, o, z)
<1>1. PICK t : t = Total(d, k, o, z)
  OBVIOUS
<1>2. t \in Nat
  BY <1>1 DEF Total
<1>3. /\ w \in Seq(Items) /\ n \in Nat /\ Len(w) \in Nat /\ Len(w) + n = t
      /\ \A i \in 1..Len(w) : w[i] = ItemAt(d, k, o, n + i)
  BY <1>1 DEF Unread
<1>4. PICK v : v = Tail(w)
  OBVIOUS
<1>5. /\ v \in Seq(Items) /\ Len(v) = Len(w) - 1 /\ Len(w) >= 1 /\ w[1] = Head(w)
      /\ \A i \in 1..Len(v) : v[i] = w[i + 1]
  BY <1>3, <1>4
<1>6. ASSUME NEW i \in 1..Len(v) PROVE v[i] = ItemAt(d, k, o, (n + 1) + i)
  <2>1. PICK j : j = i + 1
    OBVIOUS
  <2>2. j \in 1..Len(w) /\ n + j = (n + 1) + i
    BY <1>3, <1>5, <2>1
  <2> QED BY <1>3, <1>5, <2>1, <2>2
<1>7. Len(v) + (n + 1) = t /\ n + 1 \in Nat /\ n + 1 <= t
  <2>1. n \in Nat /\ Len(w) \in Nat /\ Len(w) + n = t /\ Len(v) = Len(w) - 1 /\ Len(w) >= 1
    BY <1>3, <1>5
  <2> QED BY <1>2, <2>1
<1>8. Head(w) = ItemAt(d, k, o, n + 1)
  BY <1>3, <1>5
<1> QED BY <1>1, <1>3, <1>4, <1>5, <1>6, <1>7, <1>8 DEF Unread

-----------------------------------------------------------------------------
(***************************************************************************)
(* What sending and receiving do to a stream. First the sender:            *)
(***************************************************************************)

\* nothing the reader can see;
LEMMA SenderStill ==
  ASSUME NEW n, NEW w, NEW t, NEW e, NEW g, NEW h, NEW f, NEW e2,
         Between(n, w, t, e, g, h, f),
         e2.outdone = e.outdone, (e2.at \in Gone) <=> (e.at \in Gone)
  PROVE  Between(n, w, t, e2, g, h, f)
BY DEF Between, Flag, Gone

\* a message;
LEMMA SenderData ==
  ASSUME NEW n, NEW w, NEW t \in Tolds, NEW e \in EndStates, NEW g, NEW h, NEW f, NEW t2 \in Tolds,
         Between(n, w, t, e, g, h, f),
         e.at = "open", ~e.outdone, t2.data = t.data + 1, t2.plain = t.plain
  PROVE  Between(n, w \o <<Data(t2.data)>>, t2, e, g, h, f)
<1>1. PICK d, k : d = t.data /\ k = t.plain /\ d \in Nat /\ k \in Nat
  BY DEF Tolds
<1>2. Unread(w, n, d, k, 0, 0) /\ Position(n, d, 0, 0, g, h, f)
  BY <1>1 DEF Between, Flag, Gone
<1>3. Total(d, k, 0, 0) = d /\ Total(d + 1, k, 0, 0) = d + 1
  BY <1>1 DEF Total
<1>4. /\ ItemAt(d + 1, k, 0, d + 1) = Data(d + 1)
      /\ \A i \in 1..d : ItemAt(d + 1, k, 0, i) = ItemAt(d, k, 0, i)
  BY <1>1 DEF ItemAt
<1>5. Data(d + 1) \in Items /\ d + 1 \in Nat
  BY <1>1, ItemFacts
<1>6. Unread(w \o <<Data(d + 1)>>, n, d + 1, k, 0, 0)
  BY <1>1, <1>2, <1>3, <1>4, <1>5, Grow
<1>7. Position(n, d + 1, 0, 0, g, h, f)
  BY <1>1, <1>2 DEF Position, Unread
<1> QED BY <1>1, <1>6, <1>7 DEF Between, Flag, Gone

\* the terminal message;
LEMMA SenderTerminal ==
  ASSUME NEW n, NEW w, NEW t \in Tolds, NEW e, NEW g, NEW h, NEW f, NEW e2,
         Between(n, w, t, e, g, h, f), ~e.outdone, e.at \notin Gone, t.plain = 0,
         e2.outdone, e2.at \notin Gone
  PROVE  Between(n, w \o <<Terminal>>, t, e2, g, h, f)
<1>1. PICK d : d = t.data /\ d \in Nat
  BY DEF Tolds
<1>2. Unread(w, n, d, 0, 0, 0) /\ Position(n, d, 0, 0, g, h, f)
  BY <1>1 DEF Between, Flag, Gone
<1>3. Total(d, 0, 0, 0) = d /\ Total(d, 0, 1, 0) = d + 1
  BY <1>1 DEF Total
<1>4. /\ ItemAt(d, 0, 1, d + 1) = Terminal
      /\ \A i \in 1..d : ItemAt(d, 0, 1, i) = ItemAt(d, 0, 0, i)
  BY <1>1 DEF ItemAt
<1>5. Terminal \in Items
  BY ItemFacts
<1>6. Unread(w \o <<Terminal>>, n, d, 0, 1, 0)
  BY <1>1, <1>2, <1>3, <1>4, <1>5, Grow
<1>7. Position(n, d, 1, 0, g, h, f)
  BY <1>1, <1>2 DEF Position
<1> QED BY <1>1, <1>6, <1>7 DEF Between, Flag, Gone

\* what the program sends afterwards;
LEMMA SenderPlain ==
  ASSUME NEW n, NEW w, NEW t \in Tolds, NEW e \in EndStates, NEW g, NEW h, NEW f, NEW t2 \in Tolds,
         Between(n, w, t, e, g, h, f),
         e.at \notin Gone, e.outdone, t2.data = t.data, t2.plain = t.plain + 1
  PROVE  Between(n, w \o <<Plain(t2.plain)>>, t2, e, g, h, f)
<1>1. PICK d, k : d = t.data /\ k = t.plain /\ d \in Nat /\ k \in Nat
  BY DEF Tolds
<1>2. Unread(w, n, d, k, 1, 0) /\ Position(n, d, 1, 0, g, h, f)
  BY <1>1 DEF Between, Flag, Gone
<1>3. Total(d, k, 1, 0) = d + 1 + k /\ Total(d, k + 1, 1, 0) = (d + 1 + k) + 1
  BY <1>1 DEF Total
<1>4. /\ ItemAt(d, k + 1, 1, (d + 1 + k) + 1) = Plain(k + 1)
      /\ \A i \in 1..(d + 1 + k) : ItemAt(d, k + 1, 1, i) = ItemAt(d, k, 1, i)
  <2>1. ((d + 1 + k) + 1) - (d + 1) = k + 1
    BY <1>1
  <2> QED BY <1>1, <2>1 DEF ItemAt
<1>5. Plain(k + 1) \in Items /\ k + 1 \in Nat
  BY <1>1, ItemFacts
<1>6. Unread(w \o <<Plain(k + 1)>>, n, d, k + 1, 1, 0)
  BY <1>1, <1>2, <1>3, <1>4, <1>5, Grow
<1> QED BY <1>1, <1>2, <1>6 DEF Between, Flag, Gone

\* the end.
LEMMA SenderCloses ==
  ASSUME NEW n, NEW w, NEW t \in Tolds, NEW e \in EndStates, NEW g, NEW h, NEW f, NEW e2,
         Between(n, w, t, e, g, h, f),
         e.at \notin Gone, e2.at \in Gone, e2.outdone = e.outdone
  PROVE  Between(n, w \o <<Eof>>, t, e2, g, h, f)
<1>1. PICK d, k, o : d = t.data /\ k = t.plain /\ o = Flag(e.outdone)
  OBVIOUS
<1>2. d \in Nat /\ k \in Nat /\ o \in {0, 1} /\ o \in Nat
  BY <1>1 DEF Tolds, Flag, Gone
<1>3. Unread(w, n, d, k, o, 0) /\ Position(n, d, o, 0, g, h, f)
  BY <1>1 DEF Between, Flag, Gone
<1>4. Total(d, k, o, 1) = Total(d, k, o, 0) + 1
  BY <1>2 DEF Total
<1>5. ItemAt(d, k, o, Total(d, k, o, 0) + 1) = Eof
  BY <1>2 DEF ItemAt, Total
<1>6. Eof \in Items
  BY ItemFacts
<1>7. Unread(w \o <<Eof>>, n, d, k, o, 1)
  BY <1>2, <1>3, <1>4, <1>5, <1>6, Grow
<1>8. Position(n, d, o, 1, g, h, f)
  BY <1>2, <1>3 DEF Position
<1> QED BY <1>1, <1>7, <1>8 DEF Between, Flag, Gone

(***************************************************************************)
(* Then the reader. The head of the stream shows where it is.              *)
(***************************************************************************)
HeadSays(x, n, d, o, z) ==
  /\ x[1] = "data" => n + 1 <= d /\ x = Data(n + 1)
  /\ x[1] = "terminal" => o = 1 /\ n = d
  /\ x[1] = "plain" => o = 1 /\ d + 1 <= n /\ x = Plain(n - d)
  /\ x[1] = "eof" => z = 1 /\ d <= n /\ (o = 1 => d + 1 <= n)

LEMMA HeadFacts ==
  ASSUME NEW n, NEW w, NEW d \in Nat, NEW k \in Nat, NEW o \in Nat, NEW z \in Nat,
         z <= 1, Unread(w, n, d, k, o, z), w # <<>>
  PROVE  /\ n \in Nat /\ Unread(Tail(w), n + 1, d, k, o, z)
         /\ HeadSays(Head(w), n, d, o, z)
<1>4. /\ Head(w) = ItemAt(d, k, o, n + 1) /\ Unread(Tail(w), n + 1, d, k, o, z)
      /\ n \in Nat /\ n + 1 <= Total(d, k, o, z)
  BY Shrink
<1>5. PICK x : x = Head(w)
  OBVIOUS
<1>6. n + 1 <= d => x = Data(n + 1)
  BY <1>4, <1>5 DEF ItemAt
<1>7. ~(n + 1 <= d) /\ o = 1 /\ n + 1 = d + 1 => x = Terminal
  BY <1>4, <1>5 DEF ItemAt
<1>8. ~(n + 1 <= d) /\ o = 1 /\ n + 1 # d + 1 /\ n + 1 <= d + 1 + k => x = Plain(n - d)
  <2>1. (n + 1) - (d + 1) = n - d
    BY <1>4
  <2> QED BY <1>4, <1>5, <2>1 DEF ItemAt
<1>9. ~(n + 1 <= d) /\ ~(o = 1 /\ n + 1 = d + 1) /\ ~(o = 1 /\ n + 1 <= d + 1 + k) => x = Eof
  BY <1>4, <1>5 DEF ItemAt
<1>10. ~(n + 1 <= d) /\ ~(o = 1 /\ n + 1 = d + 1) /\ ~(o = 1 /\ n + 1 <= d + 1 + k) => z = 1
  <2>1. n \in Nat /\ n + 1 <= Total(d, k, o, z)
    BY <1>4
  <2> QED BY <2>1 DEF Total
<1>11. /\ x[1] = "data" => n + 1 <= d /\ x = Data(n + 1)
       /\ x[1] = "terminal" => o = 1 /\ n = d
       /\ x[1] = "plain" => o = 1 /\ d + 1 <= n /\ x = Plain(n - d)
       /\ x[1] = "eof" => z = 1 /\ d <= n /\ (o = 1 => d + 1 <= n)
  <2>0. n \in Nat
    BY <1>4
  <2>1. CASE n + 1 <= d
    BY <1>6, <2>0, <2>1, ItemFacts
  <2>2. CASE ~(n + 1 <= d) /\ o = 1 /\ n + 1 = d + 1
    BY <1>7, <2>0, <2>2, ItemFacts
  <2>3. CASE ~(n + 1 <= d) /\ o = 1 /\ n + 1 # d + 1 /\ n + 1 <= d + 1 + k
    BY <1>8, <2>0, <2>3, ItemFacts
  <2>4. CASE ~(n + 1 <= d) /\ ~(o = 1 /\ n + 1 = d + 1) /\ ~(o = 1 /\ n + 1 <= d + 1 + k)
    BY <1>9, <1>10, <2>0, <2>4, ItemFacts
  <2> QED BY <2>1, <2>2, <2>3, <2>4
<1> QED BY <1>4, <1>5, <1>11 DEF HeadSays

LEMMA Behind ==
  ASSUME NEW n \in Nat, NEW d \in Nat, NEW m \in Nat, n = d + 1 + m
  PROVE  n - d = m + 1 /\ n + 1 = d + 1 + (m + 1) /\ ~(n + 1 <= d) /\ n # d
OBVIOUS

\* It takes a message;
LEMMA ReaderData ==
  ASSUME NEW n, NEW w, NEW t \in Tolds, NEW e \in EndStates, NEW g \in EndStates,
         NEW h \in Heards, NEW f \in BOOLEAN, NEW h2 \in Heards,
         Between(n, w, t, e, g, h, f), w # <<>>, Head(w)[1] = "data",
         g.at = "open", ~g.indone
  PROVE  h2.data = Append(h.data, Head(w)[2]) /\ h2.plain = h.plain
           => Between(n + 1, Tail(w), t, e, g, h2, f)
<1>s. SUFFICES ASSUME h2.data = Append(h.data, Head(w)[2]) /\ h2.plain = h.plain
             PROVE  Between(n + 1, Tail(w), t, e, g, h2, f)
  OBVIOUS
<1>1. PICK d, k, o, z : d = t.data /\ k = t.plain /\ o = Flag(e.outdone) /\ z = Flag(e.at \in Gone)
  OBVIOUS
<1>0. d \in Nat /\ k \in Nat /\ o \in Nat /\ z \in Nat /\ z <= 1 /\ Unread(w, n, d, k, o, z)
  <2>1. d \in Nat /\ k \in Nat
    BY <1>1 DEF Tolds
  <2>2. o \in Nat /\ z \in Nat /\ z <= 1
    BY <1>1 DEF Flag, Gone
  <2>3. Unread(w, n, d, k, o, z)
    BY <1>1 DEF Between
  <2> QED BY <2>1, <2>2, <2>3
<1>u. n \in Nat /\ Unread(Tail(w), n + 1, d, k, o, z) /\ HeadSays(Head(w), n, d, o, z)
  BY <1>0, HeadFacts
<1>2. /\ n \in Nat /\ Unread(Tail(w), n + 1, d, k, o, z)
      /\ n + 1 <= d /\ Head(w)[2] = n + 1
  <2>1. n \in Nat /\ Unread(Tail(w), n + 1, d, k, o, z) /\ n + 1 <= d /\ Head(w) = Data(n + 1)
    BY <1>u DEF HeadSays
  <2> QED BY <2>1, ItemFacts
<1>3. Position(n, d, o, z, g, h, f)
  BY <1>1 DEF Between
<1>4. ~f /\ n = Len(h.data) /\ h.plain = <<>> /\ \A i \in 1..Len(h.data) : h.data[i] = i
  BY <1>3 DEF Position
<1>5. h.data \in Seq(Nat)
  BY DEF Heards
<1>6. /\ Len(h2.data) = Len(h.data) + 1
      /\ \A i \in 1..Len(h2.data) : h2.data[i] = i
  BY <1>s, <1>2, <1>4, <1>5
<1>7. Position(n + 1, d, o, z, g, h2, f)
  BY <1>s, <1>2, <1>3, <1>4, <1>6 DEF Position
<1> QED BY <1>1, <1>2, <1>7 DEF Between

\* it takes the terminal message, and leaves the protocol or marks its end;
LEMMA ReaderTerminal ==
  ASSUME NEW n, NEW w, NEW t \in Tolds, NEW e \in EndStates, NEW g \in EndStates,
         NEW h \in Heards, NEW f \in BOOLEAN, NEW g2 \in EndStates,
         NEW f2 \in BOOLEAN, f2,
         Between(n, w, t, e, g, h, f), w # <<>>, Head(w)[1] = "terminal",
         g.at \in {"open", "detaching"}, ~(g.at = "open" /\ g.indone),
         g2.at # "detaching", g2.at = "open" => g2.indone
  PROVE  Between(n + 1, Tail(w), t, e, g2, h, f2)
<1>1. PICK d, k, o, z : d = t.data /\ k = t.plain /\ o = Flag(e.outdone) /\ z = Flag(e.at \in Gone)
  OBVIOUS
<1>0. d \in Nat /\ k \in Nat /\ o \in Nat /\ z \in Nat /\ z <= 1 /\ Unread(w, n, d, k, o, z)
  <2>1. d \in Nat /\ k \in Nat
    BY <1>1 DEF Tolds
  <2>2. o \in Nat /\ z \in Nat /\ z <= 1
    BY <1>1 DEF Flag, Gone
  <2>3. Unread(w, n, d, k, o, z)
    BY <1>1 DEF Between
  <2> QED BY <2>1, <2>2, <2>3
<1>u. n \in Nat /\ Unread(Tail(w), n + 1, d, k, o, z) /\ HeadSays(Head(w), n, d, o, z)
  BY <1>0, HeadFacts
<1>2. /\ n \in Nat /\ Unread(Tail(w), n + 1, d, k, o, z)
      /\ n = d /\ o = 1
  BY <1>u DEF HeadSays
<1>3. Position(n, d, o, z, g, h, f)
  BY <1>1 DEF Between
<1>4. ~f /\ h.plain = <<>>
  BY <1>3 DEF Position
<1>5. Len(h.plain) = 0
  BY <1>4
<1>6. n + 1 = d + 1 + Len(h.plain)
  BY <1>2, <1>5
<1>7. Position(n + 1, d, o, z, g2, h, f2)
  BY <1>2, <1>3, <1>6 DEF Position
<1> QED BY <1>1, <1>2, <1>7 DEF Between

\* while it detaches it drops the messages in front of it;
LEMMA ReaderDrops ==
  ASSUME NEW n, NEW w, NEW t \in Tolds, NEW e \in EndStates, NEW g \in EndStates,
         NEW h \in Heards, NEW f \in BOOLEAN,
         Between(n, w, t, e, g, h, f), w # <<>>, Head(w)[1] \in {"data", "plain"},
         g.at = "detaching"
  PROVE  Between(n + 1, Tail(w), t, e, g, h, f)
<1>1. PICK d, k, o, z : d = t.data /\ k = t.plain /\ o = Flag(e.outdone) /\ z = Flag(e.at \in Gone)
  OBVIOUS
<1>0. d \in Nat /\ k \in Nat /\ o \in Nat /\ z \in Nat /\ z <= 1 /\ Unread(w, n, d, k, o, z)
  <2>1. d \in Nat /\ k \in Nat
    BY <1>1 DEF Tolds
  <2>2. o \in Nat /\ z \in Nat /\ z <= 1
    BY <1>1 DEF Flag, Gone
  <2>3. Unread(w, n, d, k, o, z)
    BY <1>1 DEF Between
  <2> QED BY <2>1, <2>2, <2>3
<1>u. n \in Nat /\ Unread(Tail(w), n + 1, d, k, o, z) /\ HeadSays(Head(w), n, d, o, z)
  BY <1>0, HeadFacts
<1>2. Position(n, d, o, z, g, h, f)
  BY <1>1 DEF Between
<1>3. ~f /\ ~g.indone /\ n <= d
  BY <1>2 DEF Position
<1>4. d \in Nat
  BY <1>1 DEF Tolds
<1>5. /\ n \in Nat /\ Unread(Tail(w), n + 1, d, k, o, z)
      /\ Head(w)[1] = "data" => n + 1 <= d
      /\ Head(w)[1] = "plain" => d + 1 <= n
  BY <1>u DEF HeadSays
<1>6. n + 1 <= d
  BY <1>3, <1>4, <1>5
<1>7. Position(n + 1, d, o, z, g, h, f)
  BY <1>2, <1>3, <1>6 DEF Position
<1> QED BY <1>1, <1>5, <1>7 DEF Between

\* it meets the end of the stream, which says that there is no terminal message;
LEMMA ReaderEof ==
  ASSUME NEW n, NEW w, NEW t \in Tolds, NEW e \in EndStates, NEW g \in EndStates,
         NEW h \in Heards, NEW f \in BOOLEAN, NEW g2 \in EndStates,
         Between(n, w, t, e, g, h, f), w # <<>>, Head(w)[1] = "eof",
         g.at \in {"open", "detaching"}, ~(g.at = "open" /\ g.indone),
         g2.at = "open" => g.at = "open", g2.at # "detaching"
  PROVE  Between(n, w, t, e, g2, h, f)
<1>1. PICK d, k, o, z : d = t.data /\ k = t.plain /\ o = Flag(e.outdone) /\ z = Flag(e.at \in Gone)
  OBVIOUS
<1>0. d \in Nat /\ k \in Nat /\ o \in Nat /\ z \in Nat /\ z <= 1 /\ Unread(w, n, d, k, o, z)
  <2>1. d \in Nat /\ k \in Nat
    BY <1>1 DEF Tolds
  <2>2. o \in Nat /\ z \in Nat /\ z <= 1
    BY <1>1 DEF Flag, Gone
  <2>3. Unread(w, n, d, k, o, z)
    BY <1>1 DEF Between
  <2> QED BY <2>1, <2>2, <2>3
<1>u. n \in Nat /\ Unread(Tail(w), n + 1, d, k, o, z) /\ HeadSays(Head(w), n, d, o, z)
  BY <1>0, HeadFacts
<1>2. Position(n, d, o, z, g, h, f)
  BY <1>1 DEF Between
<1>3. ~f /\ n <= d
  BY <1>2 DEF Position
<1>4. d \in Nat /\ o \in {0, 1}
  BY <1>1 DEF Tolds, Flag, Gone
<1>5. n \in Nat /\ z = 1 /\ d <= n /\ (o = 1 => d + 1 <= n)
  BY <1>u DEF HeadSays
<1>6. n = d /\ o = 0
  <2>1. n = d
    BY <1>3, <1>4, <1>5
  <2>2. o # 1
    BY <1>3, <1>4, <1>5
  <2> QED BY <1>4, <2>1, <2>2
<1>7. Position(n, d, o, z, g2, h, f)
  BY <1>2, <1>3, <1>5, <1>6 DEF Position
<1> QED BY <1>1, <1>7 DEF Between

\* outside of the protocol it finds what was sent outside of it;
LEMMA ReaderPlain ==
  ASSUME NEW n, NEW w, NEW t \in Tolds, NEW e \in EndStates, NEW g \in EndStates,
         NEW h \in Heards, NEW f \in BOOLEAN, NEW h2 \in Heards,
         Between(n, w, t, e, g, h, f), w # <<>>, Head(w)[1] \in {"data", "terminal", "plain"},
         g.at = "off" \/ (g.at = "open" /\ g.indone)
  PROVE  h2.plain = Append(h.plain, Head(w)) /\ h2.data = h.data
           => Between(n + 1, Tail(w), t, e, g, h2, f)
<1>s. SUFFICES ASSUME h2.plain = Append(h.plain, Head(w)) /\ h2.data = h.data
             PROVE  Between(n + 1, Tail(w), t, e, g, h2, f)
  OBVIOUS
<1>1. PICK d, k, o, z : d = t.data /\ k = t.plain /\ o = Flag(e.outdone) /\ z = Flag(e.at \in Gone)
  OBVIOUS
<1>0. d \in Nat /\ k \in Nat /\ o \in Nat /\ z \in Nat /\ z <= 1 /\ Unread(w, n, d, k, o, z)
  <2>1. d \in Nat /\ k \in Nat
    BY <1>1 DEF Tolds
  <2>2. o \in Nat /\ z \in Nat /\ z <= 1
    BY <1>1 DEF Flag, Gone
  <2>3. Unread(w, n, d, k, o, z)
    BY <1>1 DEF Between
  <2> QED BY <2>1, <2>2, <2>3
<1>u. n \in Nat /\ Unread(Tail(w), n + 1, d, k, o, z) /\ HeadSays(Head(w), n, d, o, z)
  BY <1>0, HeadFacts
<1>2. Position(n, d, o, z, g, h, f)
  BY <1>1 DEF Between
<1>3. /\ ~f => n = d /\ o = 0
      /\ f => o = 1 /\ n = d + 1 + Len(h.plain)
      /\ \A i \in 1..Len(h.plain) : h.plain[i] = Plain(i)
  BY <1>2 DEF Position
<1>4. d \in Nat
  BY <1>1 DEF Tolds
<1>5. PICK y : y = Head(w)
  OBVIOUS
<1>6. /\ n \in Nat /\ Unread(Tail(w), n + 1, d, k, o, z)
      /\ y[1] = "data" => n + 1 <= d
      /\ y[1] = "terminal" => o = 1 /\ n = d
      /\ y[1] = "plain" => o = 1 /\ y = Plain(n - d)
  BY <1>u, <1>5 DEF HeadSays
<1>7. h.plain \in Seq(Items) /\ Len(h.plain) \in Nat
  BY DEF Heards
<1>m. PICK m : m = Len(h.plain)
  OBVIOUS
<1>8. f /\ n = d + 1 + m
  <2>1. CASE ~f
    <3>1. n = d /\ o = 0
      BY <1>3, <2>1
    <3> QED BY <1>4, <1>5, <1>6, <3>1
  <2>2. CASE f
    BY <1>3, <1>m, <2>2
  <2> QED BY <2>1, <2>2
<1>9. n - d = m + 1 /\ n + 1 = d + 1 + (m + 1) /\ ~(n + 1 <= d) /\ n # d
  <2>1. n \in Nat /\ d \in Nat /\ m \in Nat /\ n = d + 1 + m
    BY <1>4, <1>6, <1>7, <1>m, <1>8
  <2> QED BY <2>1, Behind
<1>10. y = Plain(Len(h.plain) + 1)
  <2>1. y[1] = "plain"
    BY <1>5, <1>6, <1>9
  <2> QED BY <1>6, <1>m, <1>9, <2>1
<1>11. y \in Items
  BY <1>7, <1>10, ItemFacts
<1>12. /\ Len(h2.plain) = Len(h.plain) + 1
       /\ h2.plain[Len(h.plain) + 1] = y
       /\ \A i \in 1..Len(h.plain) : h2.plain[i] = h.plain[i]
  BY <1>s, <1>5, <1>7, <1>11
<1>13. \A i \in 1..Len(h2.plain) : h2.plain[i] = Plain(i)
  BY <1>3, <1>7, <1>10, <1>12
<1>14. Position(n + 1, d, o, z, g, h2, f)
  BY <1>s, <1>m, <1>2, <1>3, <1>8, <1>9, <1>12, <1>13 DEF Position
<1> QED BY <1>1, <1>6, <1>14 DEF Between

\* and it changes its own state alone: an error, a close, or the begin of a detach.
LEMMA ReaderState ==
  ASSUME NEW n, NEW w, NEW t, NEW e, NEW g \in EndStates, NEW h, NEW f \in BOOLEAN,
         NEW g2 \in EndStates,
         Between(n, w, t, e, g, h, f), g2.indone = g.indone,
         \/ g2.at = g.at
         \/ g2.at \in Gone
         \/ g.at = "open" /\ g2.at = IF g.indone THEN "off" ELSE "detaching"
  PROVE  Between(n, w, t, e, g2, h, f)
BY DEF Between, Position, EndStates, Gone

-----------------------------------------------------------------------------
(***************************************************************************)
(* The handshakes: a step of one peer, seen in both streams.               *)
(***************************************************************************)
LEMMA Given ==
  ASSUME ClosingInv, NEW p \in Ends
  PROVE  \E q \in Ends, n \in Nat, m \in Nat :
           /\ q = Peer(p) /\ q # p /\ Peer(q) = p
           /\ end[p] \in EndStates /\ told[p] \in Tolds /\ heard[p] \in Heards /\ final[p] \in BOOLEAN
           /\ end[q] \in EndStates /\ told[q] \in Tolds /\ heard[q] \in Heards /\ final[q] \in BOOLEAN
           /\ way[p] \in Seq(Items) /\ way[q] \in Seq(Items)
           /\ DoneFirst(p) /\ DoneFirst(q)
           /\ Between(n, way[q], told[q], end[q], end[p], heard[p], final[p])
           /\ Between(m, way[p], told[p], end[p], end[q], heard[q], final[q])
<1>1. PICK q : q = Peer(p) /\ q \in Ends /\ q # p /\ Peer(q) = p
  BY PeerFacts
<1>2. PICK n \in Nat : Between(n, way[q], told[q], end[q], end[p], heard[p], final[p])
  BY <1>1 DEF ClosingInv, Direction
<1>3. PICK m \in Nat : Between(m, way[p], told[p], end[p], end[q], heard[q], final[q])
  <2>1. Direction(Peer(q), q)
    BY <1>1 DEF ClosingInv
  <2> QED BY <1>1, <2>1 DEF Direction
<1>4. DoneFirst(p) /\ DoneFirst(q)
  BY <1>1 DEF ClosingInv
<1>5. /\ end[p] \in EndStates /\ told[p] \in Tolds /\ heard[p] \in Heards /\ final[p] \in BOOLEAN
      /\ end[q] \in EndStates /\ told[q] \in Tolds /\ heard[q] \in Heards /\ final[q] \in BOOLEAN
      /\ way[p] \in Seq(Items) /\ way[q] \in Seq(Items)
  BY <1>1 DEF ClosingInv, ClosingTypes
<1> QED BY <1>1, <1>2, <1>3, <1>4, <1>5

LEMMA Restored ==
  ASSUME NEW p \in Ends, NEW q \in Ends, q = Peer(p), ClosingTypes', NEW n \in Nat, NEW m \in Nat,
         DoneFirst(p)', DoneFirst(q)',
         Between(n, way'[q], told'[q], end'[q], end'[p], heard'[p], final'[p]),
         Between(m, way'[p], told'[p], end'[p], end'[q], heard'[q], final'[q])
  PROVE  ClosingInv'
<1>1. Peer(q) = p /\ Ends = {p, q}
  BY PeerFacts
<1>2. Direction(Peer(p), p)'
  BY DEF Direction
<1>3. Direction(Peer(q), q)'
  BY <1>1 DEF Direction
<1> QED BY <1>1, <1>2, <1>3 DEF ClosingInv

\* A step that leaves all but the state of one object alone.
LEMMA OperationFailsKeeps ==
  ASSUME ClosingInv, NEW p \in Ends, OperationFails(p)
  PROVE  ClosingInv'
<1>1. PICK q \in Ends, n \in Nat, m \in Nat :
        /\ q = Peer(p) /\ q # p
        /\ end[p] \in EndStates /\ final[p] \in BOOLEAN
        /\ DoneFirst(p) /\ DoneFirst(q)
        /\ Between(n, way[q], told[q], end[q], end[p], heard[p], final[p])
        /\ Between(m, way[p], told[p], end[p], end[q], heard[q], final[q])
  BY Given
<1>2. end \in [Ends -> EndStates]
  BY DEF ClosingInv, ClosingTypes
<1>3. /\ end'[p] \in EndStates /\ end'[p].at = end[p].at /\ end'[p].indone = end[p].indone
      /\ end'[p].outdone = end[p].outdone /\ end'[q] = end[q] /\ end' \in [Ends -> EndStates]
  BY <1>1, <1>2 DEF OperationFails, EndStates, Gone
<1>4. Between(n, way[q], told[q], end[q], end'[p], heard[p], final[p])
  BY <1>1, <1>3, ReaderState
<1>5. Between(m, way[p], told[p], end'[p], end[q], heard[q], final[q])
  BY <1>1, <1>3, SenderStill
<1>6. ClosingTypes'
  BY <1>3 DEF ClosingInv, ClosingTypes, OperationFails
<1>7. DoneFirst(p)' /\ DoneFirst(q)'
  BY <1>1, <1>3 DEF DoneFirst, OperationFails
<1> QED BY <1>1, <1>3, <1>4, <1>5, <1>6, <1>7, Restored DEF OperationFails

\* The own direction: a message,
LEMMA SocketSendKeeps ==
  ASSUME ClosingInv, ~SendAfterDone, NEW p \in Ends, SocketSend(p)
  PROVE  ClosingInv'
<1>1. PICK q \in Ends, n \in Nat, m \in Nat :
        /\ q = Peer(p) /\ q # p
        /\ end[p] \in EndStates /\ told[p] \in Tolds
        /\ DoneFirst(p) /\ DoneFirst(q)
        /\ Between(n, way[q], told[q], end[q], end[p], heard[p], final[p])
        /\ Between(m, way[p], told[p], end[p], end[q], heard[q], final[q])
  BY Given
<1>2. told \in [Ends -> Tolds] /\ way \in [Ends -> Seq(Items)]
  BY DEF ClosingInv, ClosingTypes
<1>3. /\ told'[p] \in Tolds /\ told'[p].data = told[p].data + 1 /\ told'[p].plain = told[p].plain
      /\ told'[q] = told[q] /\ told' \in [Ends -> Tolds]
  BY <1>1, <1>2 DEF SocketSend, Tolds
<1>4. Data(told'[p].data) \in Items
  BY <1>3, ItemFacts DEF Tolds
<1>5. /\ way'[p] = way[p] \o <<Data(told'[p].data)>> /\ way'[q] = way[q]
      /\ way' \in [Ends -> Seq(Items)]
  BY <1>1, <1>2, <1>4 DEF SocketSend, Put
<1>6. end[p].at = "open" /\ ~end[p].outdone
  BY DEF SocketSend
<1>7. Between(m, way'[p], told'[p], end[p], end[q], heard[q], final[q])
  BY <1>1, <1>3, <1>5, <1>6, SenderData
<1>8. ClosingTypes'
  BY <1>3, <1>5 DEF ClosingInv, ClosingTypes, SocketSend
<1>9. DoneFirst(p)' /\ DoneFirst(q)'
  BY <1>1, <1>3 DEF DoneFirst, SocketSend
<1> QED BY <1>1, <1>3, <1>5, <1>7, <1>8, <1>9, Restored DEF SocketSend

\* something behind the handshake,
LEMMA UnderSendKeeps ==
  ASSUME ClosingInv, NEW p \in Ends, UnderSend(p)
  PROVE  ClosingInv'
<1>1. PICK q \in Ends, n \in Nat, m \in Nat :
        /\ q = Peer(p) /\ q # p
        /\ end[p] \in EndStates /\ told[p] \in Tolds
        /\ DoneFirst(p) /\ DoneFirst(q)
        /\ Between(n, way[q], told[q], end[q], end[p], heard[p], final[p])
        /\ Between(m, way[p], told[p], end[p], end[q], heard[q], final[q])
  BY Given
<1>2. told \in [Ends -> Tolds] /\ way \in [Ends -> Seq(Items)]
  BY DEF ClosingInv, ClosingTypes
<1>3. /\ told'[p] \in Tolds /\ told'[p].plain = told[p].plain + 1 /\ told'[p].data = told[p].data
      /\ told'[q] = told[q] /\ told' \in [Ends -> Tolds]
  BY <1>1, <1>2 DEF UnderSend, Tolds
<1>4. Plain(told'[p].plain) \in Items
  BY <1>3, ItemFacts DEF Tolds
<1>5. /\ way'[p] = way[p] \o <<Plain(told'[p].plain)>> /\ way'[q] = way[q]
      /\ way' \in [Ends -> Seq(Items)]
  BY <1>1, <1>2, <1>4 DEF UnderSend, Put
<1>6. end[p].at = "off" /\ end[p].outdone
  BY <1>1 DEF UnderSend, DoneFirst
<1>7. Between(m, way'[p], told'[p], end[p], end[q], heard[q], final[q])
  BY <1>1, <1>3, <1>5, <1>6, SenderPlain DEF Gone
<1>8. ClosingTypes'
  BY <1>3, <1>5 DEF ClosingInv, ClosingTypes, UnderSend
<1>9. DoneFirst(p)' /\ DoneFirst(q)'
  BY <1>1, <1>3, <1>6 DEF DoneFirst, UnderSend
<1> QED BY <1>1, <1>3, <1>5, <1>7, <1>8, <1>9, Restored DEF UnderSend

\* the terminal message, alone or at the begin of a detach,
LEMMA TerminalSentKeeps ==
  ASSUME ClosingInv, NEW p \in Ends, end[p].at = "open", ~end[p].outdone,
         NEW s \in EndStates, s.outdone, s.indone = end[p].indone,
         \/ s.at = "open"
         \/ s.at = IF end[p].indone THEN "off" ELSE "detaching",
         end' = [end EXCEPT ![p] = s], way' = [way EXCEPT ![p] = @ \o <<Terminal>>],
         UNCHANGED <<protocol, told, heard, final>>
  PROVE  ClosingInv'
<1>1. PICK q \in Ends, n \in Nat, m \in Nat :
        /\ q = Peer(p) /\ q # p
        /\ end[p] \in EndStates /\ told[p] \in Tolds /\ final[p] \in BOOLEAN
        /\ DoneFirst(p) /\ DoneFirst(q)
        /\ Between(n, way[q], told[q], end[q], end[p], heard[p], final[p])
        /\ Between(m, way[p], told[p], end[p], end[q], heard[q], final[q])
  BY Given
<1>2. end \in [Ends -> EndStates] /\ way \in [Ends -> Seq(Items)] /\ Terminal \in Items
  BY ItemFacts DEF ClosingInv, ClosingTypes
<1>3. end'[p] = s /\ end'[q] = end[q] /\ end' \in [Ends -> EndStates]
  BY <1>1, <1>2
<1>4. /\ way'[p] = way[p] \o <<Terminal>> /\ way'[q] = way[q]
      /\ way' \in [Ends -> Seq(Items)]
  BY <1>1, <1>2
<1>5. s.at \notin Gone
  BY DEF Gone
<1>6. told[p].plain = 0
  BY <1>1 DEF DoneFirst
<1>7. Between(n, way[q], told[q], end[q], s, heard[p], final[p])
  BY <1>1, ReaderState
<1>8. Between(m, way'[p], told[p], s, end[q], heard[q], final[q])
  BY <1>1, <1>4, <1>5, <1>6, SenderTerminal DEF Gone
<1>9. ClosingTypes'
  BY <1>3, <1>4 DEF ClosingInv, ClosingTypes
<1>10. DoneFirst(p)' /\ DoneFirst(q)'
  BY <1>1, <1>3 DEF DoneFirst
<1> QED BY <1>1, <1>3, <1>4, <1>7, <1>8, <1>9, <1>10, Restored

LEMMA DoneKeeps ==
  ASSUME ClosingInv, NEW p \in Ends, Done(p)
  PROVE  ClosingInv'
<1>1. PICK s : s = [end[p] EXCEPT !.outdone = TRUE]
  OBVIOUS
<1>2. end[p] \in EndStates /\ end[p].at = "open" /\ ~end[p].outdone
  BY DEF ClosingInv, ClosingTypes, Done
<1>3. s \in EndStates /\ s.outdone /\ s.indone = end[p].indone /\ s.at = "open"
  BY <1>1, <1>2 DEF EndStates, Gone
<1>4. end' = [end EXCEPT ![p] = s]
  BY <1>1 DEF Done
<1>5. way' = [way EXCEPT ![p] = @ \o <<Terminal>>] /\ UNCHANGED <<protocol, told, heard, final>>
  BY DEF Done, Put
<1> QED BY <1>2, <1>3, <1>4, <1>5, TerminalSentKeeps

LEMMA DetachKeeps ==
  ASSUME ClosingInv, NEW p \in Ends, Detach(p)
  PROVE  ClosingInv'
<1>1. PICK s : s = [end[p] EXCEPT !.outdone = TRUE, !.at = IF end[p].indone THEN "off" ELSE "detaching"]
  OBVIOUS
<1>2. end[p] \in EndStates /\ end[p].at = "open"
  BY DEF ClosingInv, ClosingTypes, Detach
<1>3. /\ s \in EndStates /\ s.outdone /\ s.indone = end[p].indone
      /\ s.at = IF end[p].indone THEN "off" ELSE "detaching"
  BY <1>1, <1>2 DEF EndStates, Gone
<1>4. end' = [end EXCEPT ![p] = s] /\ UNCHANGED <<protocol, told, heard, final>>
  <2>1. end \in [Ends -> EndStates]
    BY DEF ClosingInv, ClosingTypes
  <2> QED BY <1>1, <2>1 DEF Detach
<1>5. CASE ~end[p].outdone
  <2>1. way' = [way EXCEPT ![p] = @ \o <<Terminal>>]
    BY <1>5 DEF Detach, Put
  <2> QED BY <1>2, <1>3, <1>4, <1>5, <2>1, TerminalSentKeeps
<1>6. CASE end[p].outdone
  <2>1. PICK q \in Ends, n \in Nat, m \in Nat :
          /\ q = Peer(p) /\ q # p /\ way[p] \in Seq(Items)
          /\ end[p] \in EndStates /\ told[p] \in Tolds /\ final[p] \in BOOLEAN
          /\ DoneFirst(p) /\ DoneFirst(q)
          /\ Between(n, way[q], told[q], end[q], end[p], heard[p], final[p])
          /\ Between(m, way[p], told[p], end[p], end[q], heard[q], final[q])
    BY Given
  <2>2. end \in [Ends -> EndStates] /\ way \in [Ends -> Seq(Items)]
    BY DEF ClosingInv, ClosingTypes
  <2>3. way' = way
    <3>1. way' = [way EXCEPT ![p] = @ \o <<>>]
      BY <1>6 DEF Detach, Put
    <3>2. way[p] \o <<>> = way[p]
      BY <2>1, ConcatEmptySeq
    <3> QED BY <2>2, <3>1, <3>2
  <2>4. end'[p] = s /\ end'[q] = end[q] /\ end' \in [Ends -> EndStates]
    BY <1>3, <1>4, <2>1, <2>2
  <2>5. Between(n, way[q], told[q], end[q], s, heard[p], final[p])
    BY <1>2, <1>3, <2>1, ReaderState
  <2>6. s.at \notin Gone
    BY <1>3 DEF Gone
  <2>7. Between(m, way[p], told[p], s, end[q], heard[q], final[q])
    BY <1>2, <1>3, <1>6, <2>1, <2>6, SenderStill DEF Gone
  <2>8. ClosingTypes'
    BY <1>4, <2>3, <2>4 DEF ClosingInv, ClosingTypes
  <2>9. DoneFirst(p)' /\ DoneFirst(q)'
    BY <1>3, <1>4, <2>1, <2>4 DEF DoneFirst
  <2> QED BY <1>4, <2>1, <2>3, <2>4, <2>5, <2>7, <2>8, <2>9, Restored
<1> QED BY <1>5, <1>6

\* or the end of everything.
LEMMA GoesDownKeeps ==
  ASSUME ClosingInv, NEW p \in Ends, end[p].at \notin Gone, NEW how \in Gone, GoesDown(p, how),
         UNCHANGED <<protocol, told, heard, final>>
  PROVE  ClosingInv'
<1>1. PICK q \in Ends, n \in Nat, m \in Nat :
        /\ q = Peer(p) /\ q # p
        /\ end[p] \in EndStates /\ told[p] \in Tolds /\ final[p] \in BOOLEAN
        /\ DoneFirst(p) /\ DoneFirst(q)
        /\ Between(n, way[q], told[q], end[q], end[p], heard[p], final[p])
        /\ Between(m, way[p], told[p], end[p], end[q], heard[q], final[q])
  BY Given
<1>2. end \in [Ends -> EndStates] /\ way \in [Ends -> Seq(Items)] /\ Eof \in Items
  BY ItemFacts DEF ClosingInv, ClosingTypes
<1>3. /\ end'[p] \in EndStates /\ end'[p].at \in Gone /\ end'[p].indone = end[p].indone
      /\ end'[p].outdone = end[p].outdone /\ end'[q] = end[q] /\ end' \in [Ends -> EndStates]
  BY <1>1, <1>2 DEF GoesDown, EndStates, Gone
<1>4. /\ way'[p] = way[p] \o <<Eof>> /\ way'[q] = way[q] /\ way' \in [Ends -> Seq(Items)]
  BY <1>1, <1>2 DEF GoesDown, Put
<1>5. Between(n, way[q], told[q], end[q], end'[p], heard[p], final[p])
  BY <1>1, <1>3, ReaderState
<1>6. Between(m, way'[p], told[p], end'[p], end[q], heard[q], final[q])
  BY <1>1, <1>3, <1>4, SenderCloses
<1>7. ClosingTypes'
  BY <1>3, <1>4 DEF ClosingInv, ClosingTypes
<1>8. DoneFirst(p)' /\ DoneFirst(q)'
  BY <1>1, <1>3 DEF DoneFirst, Gone
<1> QED BY <1>1, <1>3, <1>4, <1>5, <1>6, <1>7, <1>8, Restored

\* The other direction: an item is read,
LEMMA ConsumeFacts ==
  ASSUME ClosingInv, NEW p \in Ends, NEW q \in Ends, q = Peer(p), q # p,
         Next1(p) # "nothing", Consume(p)
  PROVE  /\ way[q] # <<>> /\ Head(way[q])[1] = Next1(p)
         /\ way'[q] = Tail(way[q]) /\ way'[p] = way[p] /\ way' \in [Ends -> Seq(Items)]
<1>1. way \in [Ends -> Seq(Items)]
  BY DEF ClosingInv, ClosingTypes
<1>2. way[q] # <<>> /\ Head(way[q])[1] = Next1(p)
  BY DEF Next1
<1>3. Tail(way[q]) \in Seq(Items)
  BY <1>1, <1>2
<1> QED BY <1>1, <1>2, <1>3 DEF Consume

LEMMA HeardGrows ==
  ASSUME NEW h \in Heards
  PROVE  /\ \A y \in Seq(Nat) : LET k == [h EXCEPT !.data = y]
                               IN  k \in Heards /\ k.data = y /\ k.plain = h.plain
         /\ \A y \in Seq(Items) : LET k == [h EXCEPT !.plain = y]
                                 IN  k \in Heards /\ k.plain = y /\ k.data = h.data
BY DEF Heards

\* a message,
LEMMA DataTakenKeeps ==
  ASSUME ClosingInv, NEW p \in Ends, end[p].at = "open", ~end[p].indone,
         Next1(p) = "data", Consume(p),
         heard' = [heard EXCEPT ![p].data = Append(@, Head(way[Peer(p)])[2])],
         UNCHANGED <<protocol, end, told, final>>
  PROVE  ClosingInv'
<1>1. PICK q \in Ends, n \in Nat, m \in Nat :
        /\ q = Peer(p) /\ q # p /\ way[q] \in Seq(Items)
        /\ end[p] \in EndStates /\ heard[p] \in Heards /\ final[p] \in BOOLEAN
        /\ end[q] \in EndStates /\ told[q] \in Tolds
        /\ DoneFirst(p) /\ DoneFirst(q)
        /\ Between(n, way[q], told[q], end[q], end[p], heard[p], final[p])
        /\ Between(m, way[p], told[p], end[p], end[q], heard[q], final[q])
  BY Given
<1>2. /\ way[q] # <<>> /\ Head(way[q])[1] = "data"
      /\ way'[q] = Tail(way[q]) /\ way'[p] = way[p] /\ way' \in [Ends -> Seq(Items)]
  BY <1>1, ConsumeFacts
<1>3. heard \in [Ends -> Heards]
  BY DEF ClosingInv, ClosingTypes
<1>4. Head(way[q])[2] \in Nat
  <2>1. Head(way[q]) \in Items
    BY <1>1, <1>2
  <2> QED BY <2>1 DEF Items
<1>h. PICK y : y = Append(heard[p].data, Head(way[q])[2])
  OBVIOUS
<1>y. y \in Seq(Nat)
  <2>1. heard[p].data \in Seq(Nat)
    BY <1>1 DEF Heards
  <2> QED BY <1>4, <1>h, <2>1, AppendProperties
<1>g. PICK k : k = [heard[p] EXCEPT !.data = y]
  OBVIOUS
<1>i. k \in Heards /\ k.data = y /\ k.plain = heard[p].plain
  BY <1>1, <1>y, <1>g, HeardGrows
<1>j. heard' = [heard EXCEPT ![p] = k]
  BY <1>1, <1>3, <1>h, <1>g, Zenon
<1>5. /\ heard'[p] \in Heards /\ heard'[p].data = Append(heard[p].data, Head(way[q])[2])
      /\ heard'[p].plain = heard[p].plain /\ heard'[q] = heard[q]
      /\ heard' \in [Ends -> Heards]
  BY <1>1, <1>3, <1>h, <1>i, <1>j
<1>6. Between(n + 1, way'[q], told[q], end[q], end[p], heard'[p], final[p])
  <2>1. PICK W, T, E, G, H, F : /\ W = way[q] /\ T = told[q] /\ E = end[q]
                                /\ G = end[p] /\ H = heard[p] /\ F = final[p]
    OBVIOUS
  <2>2. /\ T \in Tolds /\ E \in EndStates /\ G \in EndStates /\ H \in Heards /\ F \in BOOLEAN
        /\ Between(n, W, T, E, G, H, F) /\ W # <<>> /\ Head(W)[1] = "data" /\ G.at = "open" /\ ~G.indone
    BY <1>1, <1>2, <2>1
  <2>3. \A h2 \in Heards : h2.data = Append(H.data, Head(W)[2]) /\ h2.plain = H.plain
                             => Between(n + 1, Tail(W), T, E, G, h2, F)
    BY <2>2, ReaderData
  <2> QED BY <1>2, <1>5, <2>1, <2>3, Zenon
<1>7. ClosingTypes'
  BY <1>2, <1>5, Zenon DEF ClosingInv, ClosingTypes
<1>8. DoneFirst(p)' /\ DoneFirst(q)' /\ n + 1 \in Nat
  BY <1>1 DEF DoneFirst
<1> QED BY <1>1, <1>2, <1>5, <1>6, <1>7, <1>8, Restored

\* something behind the handshake,
LEMMA BehindTakenKeeps ==
  ASSUME ClosingInv, NEW p \in Ends, end[p].at = "off" \/ (end[p].at = "open" /\ end[p].indone),
         Next1(p) \in {"data", "terminal", "plain"}, Consume(p),
         heard' = [heard EXCEPT ![p].plain = Append(@, Head(way[Peer(p)]))],
         UNCHANGED <<protocol, end, told, final>>
  PROVE  ClosingInv'
<1>1. PICK q \in Ends, n \in Nat, m \in Nat :
        /\ q = Peer(p) /\ q # p /\ way[q] \in Seq(Items)
        /\ end[p] \in EndStates /\ heard[p] \in Heards /\ final[p] \in BOOLEAN
        /\ end[q] \in EndStates /\ told[q] \in Tolds
        /\ DoneFirst(p) /\ DoneFirst(q)
        /\ Between(n, way[q], told[q], end[q], end[p], heard[p], final[p])
        /\ Between(m, way[p], told[p], end[p], end[q], heard[q], final[q])
  BY Given
<1>2. /\ way[q] # <<>> /\ Head(way[q])[1] \in {"data", "terminal", "plain"}
      /\ way'[q] = Tail(way[q]) /\ way'[p] = way[p] /\ way' \in [Ends -> Seq(Items)]
  <2>1. Next1(p) # "nothing"
    OBVIOUS
  <2> QED BY <1>1, <2>1, ConsumeFacts
<1>3. heard \in [Ends -> Heards]
  BY DEF ClosingInv, ClosingTypes
<1>4. Head(way[q]) \in Items
  BY <1>1, <1>2
<1>h. PICK y : y = Append(heard[p].plain, Head(way[q]))
  OBVIOUS
<1>y. y \in Seq(Items)
  <2>1. heard[p].plain \in Seq(Items)
    BY <1>1 DEF Heards
  <2> QED BY <1>4, <1>h, <2>1, AppendProperties
<1>g. PICK k : k = [heard[p] EXCEPT !.plain = y]
  OBVIOUS
<1>i. k \in Heards /\ k.plain = y /\ k.data = heard[p].data
  BY <1>1, <1>y, <1>g, HeardGrows
<1>j. heard' = [heard EXCEPT ![p] = k]
  BY <1>1, <1>3, <1>h, <1>g, Zenon
<1>5. /\ heard'[p] \in Heards /\ heard'[p].plain = Append(heard[p].plain, Head(way[q]))
      /\ heard'[p].data = heard[p].data /\ heard'[q] = heard[q]
      /\ heard' \in [Ends -> Heards]
  BY <1>1, <1>3, <1>h, <1>i, <1>j
<1>6. Between(n + 1, way'[q], told[q], end[q], end[p], heard'[p], final[p])
  <2>1. PICK W, T, E, G, H, F : /\ W = way[q] /\ T = told[q] /\ E = end[q]
                                /\ G = end[p] /\ H = heard[p] /\ F = final[p]
    OBVIOUS
  <2>2. /\ T \in Tolds /\ E \in EndStates /\ G \in EndStates /\ H \in Heards /\ F \in BOOLEAN
        /\ Between(n, W, T, E, G, H, F) /\ W # <<>> /\ (G.at = "off" \/ (G.at = "open" /\ G.indone))
        /\ Head(W)[1] \in {"data", "terminal", "plain"}
    BY <1>1, <1>2, <1>3, <2>1
  <2>3. \A h2 \in Heards : h2.plain = Append(H.plain, Head(W)) /\ h2.data = H.data
                             => Between(n + 1, Tail(W), T, E, G, h2, F)
    BY <2>2, ReaderPlain
  <2> QED BY <1>2, <1>5, <2>1, <2>3, Zenon
<1>7. ClosingTypes'
  BY <1>2, <1>5, Zenon DEF ClosingInv, ClosingTypes
<1>8. DoneFirst(p)' /\ DoneFirst(q)' /\ n + 1 \in Nat
  BY <1>1 DEF DoneFirst
<1> QED BY <1>1, <1>2, <1>5, <1>6, <1>7, <1>8, Restored

\* something that a detach drops,
LEMMA DroppedKeeps ==
  ASSUME ClosingInv, NEW p \in Ends, end[p].at = "detaching",
         Next1(p) \in {"data", "plain"}, Consume(p),
         UNCHANGED <<protocol, end, told, heard, final>>
  PROVE  ClosingInv'
<1>1. PICK q \in Ends, n \in Nat, m \in Nat :
        /\ q = Peer(p) /\ q # p /\ way[q] \in Seq(Items)
        /\ end[p] \in EndStates /\ heard[p] \in Heards /\ final[p] \in BOOLEAN
        /\ end[q] \in EndStates /\ told[q] \in Tolds
        /\ DoneFirst(p) /\ DoneFirst(q)
        /\ Between(n, way[q], told[q], end[q], end[p], heard[p], final[p])
        /\ Between(m, way[p], told[p], end[p], end[q], heard[q], final[q])
  BY Given
<1>2. /\ way[q] # <<>> /\ Head(way[q])[1] \in {"data", "plain"}
      /\ way'[q] = Tail(way[q]) /\ way'[p] = way[p] /\ way' \in [Ends -> Seq(Items)]
  <2>1. Next1(p) # "nothing"
    OBVIOUS
  <2> QED BY <1>1, <2>1, ConsumeFacts
<1>3. Between(n + 1, way'[q], told[q], end[q], end[p], heard[p], final[p])
  BY <1>1, <1>2, ReaderDrops
<1>4. ClosingTypes'
  BY <1>2 DEF ClosingInv, ClosingTypes
<1>5. DoneFirst(p)' /\ DoneFirst(q)' /\ n + 1 \in Nat
  BY <1>1 DEF DoneFirst
<1> QED BY <1>1, <1>2, <1>3, <1>4, <1>5, Restored

\* the terminal message,
LEMMA TerminalTakenKeeps ==
  ASSUME ClosingInv, NEW p \in Ends, Next1(p) = "terminal", Consume(p),
         end[p].at \in {"open", "detaching"}, ~(end[p].at = "open" /\ end[p].indone),
         NEW s \in EndStates, s.outdone = end[p].outdone,
         \/ end[p].at = "open" /\ s.at = "open" /\ s.indone
         \/ end[p].at = "detaching" /\ s.at = "off",
         end' = [end EXCEPT ![p] = s], final' = [final EXCEPT ![p] = TRUE],
         UNCHANGED <<protocol, told, heard>>
  PROVE  ClosingInv'
<1>1. PICK q \in Ends, n \in Nat, m \in Nat :
        /\ q = Peer(p) /\ q # p /\ way[q] \in Seq(Items)
        /\ end[p] \in EndStates /\ heard[p] \in Heards /\ final[p] \in BOOLEAN
        /\ end[q] \in EndStates /\ told[q] \in Tolds
        /\ DoneFirst(p) /\ DoneFirst(q)
        /\ Between(n, way[q], told[q], end[q], end[p], heard[p], final[p])
        /\ Between(m, way[p], told[p], end[p], end[q], heard[q], final[q])
  BY Given
<1>2. /\ way[q] # <<>> /\ Head(way[q])[1] = "terminal"
      /\ way'[q] = Tail(way[q]) /\ way'[p] = way[p] /\ way' \in [Ends -> Seq(Items)]
  BY <1>1, ConsumeFacts
<1>3. /\ end'[p] = s /\ end'[q] = end[q] /\ end' \in [Ends -> EndStates]
      /\ final'[p] = TRUE /\ final'[q] = final[q] /\ final' \in [Ends -> BOOLEAN]
  BY <1>1 DEF ClosingInv, ClosingTypes
<1>4. Between(n + 1, way'[q], told[q], end[q], s, heard[p], final'[p])
  <2>0. final'[p] /\ final'[p] \in BOOLEAN
    BY <1>3
  <2>1. s.at # "detaching" /\ (s.at = "open" => s.indone)
    OBVIOUS
  <2>2. PICK W, T, E, G, H, F : /\ W = way[q] /\ T = told[q] /\ E = end[q]
                                /\ G = end[p] /\ H = heard[p] /\ F = final[p]
    OBVIOUS
  <2>3. /\ T \in Tolds /\ E \in EndStates /\ G \in EndStates /\ H \in Heards /\ F \in BOOLEAN
        /\ Between(n, W, T, E, G, H, F) /\ W # <<>> /\ Head(W)[1] = "terminal"
        /\ G.at \in {"open", "detaching"} /\ ~(G.at = "open" /\ G.indone)
    BY <1>1, <1>2, <2>2
  <2>4. ASSUME NEW f2 \in BOOLEAN, f2
        PROVE  Between(n + 1, Tail(W), T, E, s, H, f2)
    BY <2>1, <2>3, <2>4, ReaderTerminal
  <2> QED BY <1>2, <2>0, <2>2, <2>4, Zenon
<1>5. Between(m, way[p], told[p], s, end[q], heard[q], final[q])
  BY <1>1, SenderStill DEF Gone
<1>6. ClosingTypes'
  BY <1>2, <1>3 DEF ClosingInv, ClosingTypes
<1>7. DoneFirst(p)' /\ DoneFirst(q)' /\ n + 1 \in Nat
  BY <1>1, <1>3 DEF DoneFirst
<1>8. Between(n + 1, way'[q], told'[q], end'[q], end'[p], heard'[p], final'[p])
  BY <1>3, <1>4, Zenon
<1>9. Between(m, way'[p], told'[p], end'[p], end'[q], heard'[q], final'[q])
  BY <1>2, <1>3, <1>5, Zenon
<1> QED BY <1>1, <1>6, <1>7, <1>8, <1>9, Restored

\* or the end of the stream.
LEMMA EofMetKeeps ==
  ASSUME ClosingInv, NEW p \in Ends, Next1(p) = "eof",
         end[p].at \in {"open", "detaching"}, ~(end[p].at = "open" /\ end[p].indone),
         NEW s \in EndStates, s.outdone = end[p].outdone,
         \/ end[p].at = "open" /\ s.at = "open"
         \/ end[p].at = "detaching" /\ s.at = "off",
         end' = [end EXCEPT ![p] = s],
         UNCHANGED <<protocol, way, told, heard, final>>
  PROVE  ClosingInv'
<1>1. PICK q \in Ends, n \in Nat, m \in Nat :
        /\ q = Peer(p) /\ q # p /\ way[q] \in Seq(Items)
        /\ end[p] \in EndStates /\ heard[p] \in Heards /\ final[p] \in BOOLEAN
        /\ end[q] \in EndStates /\ told[q] \in Tolds
        /\ DoneFirst(p) /\ DoneFirst(q)
        /\ Between(n, way[q], told[q], end[q], end[p], heard[p], final[p])
        /\ Between(m, way[p], told[p], end[p], end[q], heard[q], final[q])
  BY Given
<1>2. way[q] # <<>> /\ Head(way[q])[1] = "eof"
  BY <1>1 DEF Next1
<1>3. end'[p] = s /\ end'[q] = end[q] /\ end' \in [Ends -> EndStates]
  BY <1>1 DEF ClosingInv, ClosingTypes
<1>4. Between(n, way[q], told[q], end[q], s, heard[p], final[p])
  BY <1>1, <1>2, ReaderEof
<1>5. Between(m, way[p], told[p], s, end[q], heard[q], final[q])
  BY <1>1, SenderStill DEF Gone
<1>6. ClosingTypes'
  BY <1>3 DEF ClosingInv, ClosingTypes
<1>7. DoneFirst(p)' /\ DoneFirst(q)'
  BY <1>1, <1>3 DEF DoneFirst
<1> QED BY <1>1, <1>3, <1>4, <1>5, <1>6, <1>7, Restored

\* The actions in terms of these.
LEMMA SocketRecvKeeps ==
  ASSUME ClosingInv, NEW p \in Ends, SocketRecv(p)
  PROVE  ClosingInv'
<1>1. /\ end[p].at = "open" /\ ~end[p].indone /\ end[p] \in EndStates /\ end \in [Ends -> EndStates]
      /\ UNCHANGED <<protocol, told>>
  BY DEF SocketRecv, ClosingInv, ClosingTypes
<1>2. PICK s : s = [end[p] EXCEPT !.indone = TRUE]
  OBVIOUS
<1>3. s \in EndStates /\ s.outdone = end[p].outdone /\ s.indone /\ s.at = "open"
  BY <1>1, <1>2 DEF EndStates, Gone
<1>4. CASE /\ Next1(p) = "data" /\ Consume(p)
           /\ heard' = [heard EXCEPT ![p].data = Append(@, Head(way[Peer(p)])[2])]
           /\ UNCHANGED <<end, final>>
  BY <1>1, <1>4, DataTakenKeeps
<1>5. CASE /\ Next1(p) = "terminal" /\ Consume(p)
           /\ end' = [end EXCEPT ![p].indone = TRUE] /\ final' = [final EXCEPT ![p] = TRUE]
           /\ UNCHANGED heard
  <2>1. end' = [end EXCEPT ![p] = s]
    BY <1>1, <1>2, <1>5
  <2> QED BY <1>1, <1>3, <1>5, <2>1, TerminalTakenKeeps
<1>6. CASE /\ Next1(p) = "eof" /\ protocol = "tls"
           /\ end' = [end EXCEPT ![p].indone = TRUE] /\ UNCHANGED <<way, heard, final>>
  <2>1. end' = [end EXCEPT ![p] = s]
    BY <1>1, <1>2, <1>6
  <2> QED BY <1>1, <1>3, <1>6, <2>1, EofMetKeeps
<1> QED BY <1>4, <1>5, <1>6 DEF SocketRecv

LEMMA DrainKeeps ==
  ASSUME ClosingInv, NEW p \in Ends, TermDrain(p) \/ WsDrain(p)
  PROVE  ClosingInv'
<1>1. /\ end[p].at = "detaching" /\ end[p] \in EndStates /\ end \in [Ends -> EndStates]
      /\ UNCHANGED <<protocol, told, heard>>
  BY DEF TermDrain, WsDrain, ClosingInv, ClosingTypes
<1>2. CASE Next1(p) \in {"data", "plain"} /\ Consume(p) /\ UNCHANGED <<end, final>>
  BY <1>1, <1>2, DroppedKeeps
<1>3. CASE /\ Next1(p) = "terminal" /\ Consume(p) /\ final' = [final EXCEPT ![p] = TRUE]
           /\ end' = [end EXCEPT ![p].indone = TRUE, ![p].at = "off"]
  <2>1. PICK s : s = [end[p] EXCEPT !.indone = TRUE, !.at = "off"]
    OBVIOUS
  <2>2. s \in EndStates /\ s.outdone = end[p].outdone /\ s.at = "off"
    BY <1>1, <2>1 DEF EndStates, Gone
  <2>3. end' = [end EXCEPT ![p] = s]
    BY <1>1, <1>3, <2>1
  <2> QED BY <1>1, <1>3, <2>2, <2>3, TerminalTakenKeeps
<1>4. CASE Next1(p) = "eof" /\ end' = [end EXCEPT ![p].at = "off"] /\ UNCHANGED <<way, final>>
  <2>1. PICK s : s = [end[p] EXCEPT !.at = "off"]
    OBVIOUS
  <2>2. s \in EndStates /\ s.outdone = end[p].outdone /\ s.at = "off"
    BY <1>1, <2>1 DEF EndStates, Gone
  <2>3. end' = [end EXCEPT ![p] = s]
    BY <1>1, <1>4, <2>1
  <2> QED BY <1>1, <1>4, <2>2, <2>3, EofMetKeeps
<1>5. CASE GoesDown(p, "crashed") /\ UNCHANGED final
  BY <1>1, <1>5, GoesDownKeeps DEF Gone
<1> QED BY <1>2, <1>3, <1>4, <1>5 DEF TermDrain, WsDrain

LEMMA TlsDrainKeeps ==
  ASSUME ClosingInv, NEW p \in Ends, TlsDrain(p)
  PROVE  ClosingInv'
<1>1. /\ end[p].at = "detaching" /\ end[p] \in EndStates /\ end \in [Ends -> EndStates]
      /\ UNCHANGED <<protocol, told, heard>>
  BY DEF TlsDrain, ClosingInv, ClosingTypes
<1>2. CASE /\ Next1(p) = "terminal" /\ Consume(p) /\ final' = [final EXCEPT ![p] = TRUE]
           /\ end' = [end EXCEPT ![p].at = "off"]
  <2>1. PICK s : s = [end[p] EXCEPT !.at = "off"]
    OBVIOUS
  <2>2. s \in EndStates /\ s.outdone = end[p].outdone /\ s.at = "off"
    BY <1>1, <2>1 DEF EndStates, Gone
  <2>3. end' = [end EXCEPT ![p] = s]
    BY <1>1, <1>2, <2>1
  <2> QED BY <1>1, <1>2, <2>2, <2>3, TerminalTakenKeeps
<1>3. CASE GoesDown(p, "closed") /\ UNCHANGED final
  BY <1>1, <1>3, GoesDownKeeps DEF Gone
<1> QED BY <1>2, <1>3 DEF TlsDrain

LEMMA ClosingInitHolds == ClosingInit => ClosingInv
<1> SUFFICES ASSUME ClosingInit PROVE ClosingInv
  OBVIOUS
<1>1. ClosingTypes
  BY DEF ClosingInit, ClosingTypes, EndStates, Gone, Tolds, Heards
<1>2. ASSUME NEW p \in Ends PROVE DoneFirst(p) /\ Direction(Peer(p), p)
  <2>1. Peer(p) \in Ends
    BY PeerFacts
  <2>2. DoneFirst(p)
    BY DEF DoneFirst, ClosingInit
  <2>3. PICK q \in Ends : q = Peer(p)
    BY <2>1
  <2>4. /\ way[q] = <<>> /\ told[q].data = 0 /\ told[q].plain = 0 /\ ~end[q].outdone
        /\ end[q].at = "open" /\ end[p].at = "open" /\ ~end[p].indone
        /\ heard[p].data = <<>> /\ heard[p].plain = <<>> /\ ~final[p]
    BY DEF ClosingInit
  <2>5. Unread(way[q], 0, 0, 0, 0, 0)
    BY <2>4 DEF Unread, Total
  <2>6. Position(0, 0, 0, 0, end[p], heard[p], final[p])
    BY <2>4 DEF Position
  <2>7. Flag(end[q].outdone) = 0 /\ Flag(end[q].at \in Gone) = 0
    BY <2>4 DEF Flag, Gone
  <2>8. Between(0, way[q], told[q], end[q], end[p], heard[p], final[p])
    BY <2>4, <2>5, <2>6, <2>7 DEF Between
  <2> QED BY <2>2, <2>3, <2>8 DEF Direction
<1> QED BY <1>1, <1>2 DEF ClosingInv

\* The programs of two peers agree on where in the stream the protocol ended: the
\* messages that a peer received before are the first that were sent, and what it
\* received behind is what was sent behind, in this order, whichever of TERM,
\* WebSocket and TLS it was, whoever closed first, with any number of messages
\* under way and in any state of the handshake (dill_term_detach, dill_ws_detach,
\* dill_tls_detach); also when it is a TERM socket that hands out what is behind the
\* terminal message (dill_term_mrecvl), and when the detach of a WebSocket server
\* breaks down on what is unread. A program that goes on sending on a TERM socket after
\* term_done, which dill_term_msendl does not refuse, is the exception.
THEOREM HandshakesAgree == ~SendAfterDone => (ClosingSpec => []PositionsAgree)
<1> SUFFICES ASSUME ~SendAfterDone PROVE ClosingSpec => []PositionsAgree
  OBVIOUS
<1>1. ClosingInit => ClosingInv
  BY ClosingInitHolds
<1>2. ClosingInv /\ [ClosingNext]_closingVars => ClosingInv'
  <2> SUFFICES ASSUME ClosingInv, [ClosingNext]_closingVars PROVE ClosingInv'
    OBVIOUS
  <2>1. CASE UNCHANGED closingVars
    BY <2>1 DEF closingVars, ClosingInv, ClosingTypes, DoneFirst, Direction
  <2>2. ASSUME NEW p \in Ends, SocketSend(p) PROVE ClosingInv'
    BY <2>2, SocketSendKeeps
  <2>3. ASSUME NEW p \in Ends, SocketRecv(p) PROVE ClosingInv'
    BY <2>3, SocketRecvKeeps
  <2>4. ASSUME NEW p \in Ends, Done(p) PROVE ClosingInv'
    BY <2>4, DoneKeeps
  <2>5. ASSUME NEW p \in Ends, OperationFails(p) PROVE ClosingInv'
    BY <2>5, OperationFailsKeeps
  <2>6. ASSUME NEW p \in Ends, Detach(p) PROVE ClosingInv'
    BY <2>6, DetachKeeps
  <2>7. ASSUME NEW p \in Ends, TermDrain(p) \/ WsDrain(p) PROVE ClosingInv'
    BY <2>7, DrainKeeps
  <2>8. ASSUME NEW p \in Ends, TlsDrain(p) PROVE ClosingInv'
    BY <2>8, TlsDrainKeeps
  <2>9. ASSUME NEW p \in Ends, DetachFails(p) \/ Close(p) PROVE ClosingInv'
    <3>1. /\ end[p].at \notin Gone /\ GoesDown(p, "closed")
          /\ UNCHANGED <<protocol, told, heard, final>>
      BY <2>9 DEF DetachFails, Close, Gone
    <3> QED BY <2>9, <3>1, GoesDownKeeps DEF Gone
  <2>10. ASSUME NEW p \in Ends, UnderSend(p) PROVE ClosingInv'
    BY <2>10, UnderSendKeeps
  <2>11. ASSUME NEW p \in Ends, UnderRecv(p) PROVE ClosingInv'
    BY <2>11, BehindTakenKeeps DEF UnderRecv
  <2>12. ASSUME NEW p \in Ends, TermRecvBehind(p) PROVE ClosingInv'
    BY <2>12, BehindTakenKeeps DEF TermRecvBehind
  <2> QED BY <2>1, <2>2, <2>3, <2>4, <2>5, <2>6, <2>7, <2>8, <2>9, <2>10, <2>11, <2>12
    DEF ClosingNext
<1>3. ClosingInv => PositionsAgree
  <2> SUFFICES ASSUME ClosingInv, NEW p \in Ends
               PROVE  /\ \A i \in DOMAIN heard[p].data : heard[p].data[i] = i
                      /\ \A i \in DOMAIN heard[p].plain : heard[p].plain[i] = Plain(i)
    BY DEF PositionsAgree
  <2>1. PICK n : Between(n, way[Peer(p)], told[Peer(p)], end[Peer(p)], end[p], heard[p], final[p])
    BY DEF ClosingInv, Direction
  <2>2. /\ \A i \in 1..Len(heard[p].data) : heard[p].data[i] = i
        /\ \A i \in 1..Len(heard[p].plain) : heard[p].plain[i] = Plain(i)
    BY <2>1 DEF Between, Position
  <2>3. heard[p].data \in Seq(Nat) /\ heard[p].plain \in Seq(Items)
    BY DEF ClosingInv, ClosingTypes, Heards
  <2> QED BY <2>2, <2>3
<1> QED BY <1>1, <1>2, <1>3, PTL DEF ClosingSpec

-----------------------------------------------------------------------------
(***************************************************************************)
(* SOCKS5. First the packets: what one side writes the other reads.        *)
(***************************************************************************)

\* The middle of three parts that were written one after the other.
LEMMA ThreeParts ==
  ASSUME NEW X, NEW h \in Seq(X), NEW x \in Seq(X), NEW p \in Seq(X)
  PROVE  \A s : s = (h \o x) \o p =>
         /\ s \in Seq(X) /\ Len(s) = Len(h) + Len(x) + Len(p)
         /\ Len(h) \in Nat /\ Len(x) \in Nat /\ Len(p) \in Nat
         /\ \A i \in 1..Len(h) : s[i] = h[i]
         /\ \A i \in 1..Len(x) : s[Len(h) + i] = x[i]
         /\ \A i \in 1..Len(p) : s[Len(h) + Len(x) + i] = p[i]
         /\ SubSeq(s, Len(h) + 1, Len(h) + Len(x)) = x
<1> DEFINE g == h \o x
<1>0. \A u, v \in Seq(X) :
         /\ u \o v \in Seq(X) /\ Len(u \o v) = Len(u) + Len(v)
         /\ Len(u) \in Nat /\ Len(v) \in Nat
         /\ \A i \in 1..(Len(u) + Len(v)) :
               (u \o v)[i] = IF i <= Len(u) THEN u[i] ELSE v[i - Len(u)]
  BY ConcatFacts
<1>1. /\ g \in Seq(X) /\ Len(g) = Len(h) + Len(x) /\ Len(h) \in Nat /\ Len(x) \in Nat
      /\ \A i \in 1..(Len(h) + Len(x)) : g[i] = IF i <= Len(h) THEN h[i] ELSE x[i - Len(h)]
  BY <1>0
<1> HIDE DEF g
<1>2. /\ g \o p \in Seq(X) /\ Len(g \o p) = Len(g) + Len(p) /\ Len(p) \in Nat
      /\ \A i \in 1..(Len(g) + Len(p)) : (g \o p)[i] = IF i <= Len(g) THEN g[i] ELSE p[i - Len(g)]
  <2>1. g \in Seq(X)
    BY <1>1
  <2> QED BY <1>0, <2>1
<1>3. PICK s \in Seq(X) : s = g \o p
  BY <1>2
<1>4. /\ Len(s) = Len(g) + Len(p)
      /\ \A i \in 1..(Len(g) + Len(p)) : s[i] = IF i <= Len(g) THEN g[i] ELSE p[i - Len(g)]
  BY <1>2, <1>3
<1>4a. PICK m, n, l : m = Len(h) /\ n = Len(x) /\ l = Len(p)
  OBVIOUS
<1>5. m \in Nat /\ n \in Nat /\ l \in Nat /\ Len(g) = m + n /\ Len(s) = m + n + l
  <2>1. m \in Nat /\ n \in Nat /\ l \in Nat
    BY <1>4a, <1>1, <1>2
  <2>2. Len(g) = m + n
    BY <1>4a, <1>1
  <2>3. Len(s) = Len(g) + l
    BY <1>4a, <1>4
  <2> QED BY <2>1, <2>2, <2>3
<1>6. /\ \A i \in 1..(m + n) : g[i] = IF i <= m THEN h[i] ELSE x[i - m]
      /\ \A i \in 1..(m + n + l) : s[i] = IF i <= m + n THEN g[i] ELSE p[i - (m + n)]
  <2>1. \A i \in 1..(m + n) : g[i] = IF i <= m THEN h[i] ELSE x[i - m]
    BY <1>4a, <1>1
  <2>2. \A i \in 1..(m + n + l) : s[i] = IF i <= m + n THEN g[i] ELSE p[i - (m + n)]
    BY <1>4a, <1>4, <1>5
  <2> QED BY <2>1, <2>2
<1>7. \A i \in 1..m : s[i] = h[i]
  BY <1>5, <1>6
<1>8. ASSUME NEW i \in 1..n PROVE s[m + i] = x[i]
  <2>1. m + i \in 1..(m + n) /\ m + i \in 1..(m + n + l) /\ m + i <= m + n /\ ~(m + i <= m)
          /\ (m + i) - m = i
    BY <1>5
  <2> QED BY <1>6, <2>1
<1>9. ASSUME NEW i \in 1..l PROVE s[m + n + i] = p[i]
  <2>1. m + n + i \in 1..(m + n + l) /\ ~(m + n + i <= m + n) /\ (m + n + i) - (m + n) = i
    BY <1>5
  <2> QED BY <1>6, <2>1
<1>10. SubSeq(s, m + 1, m + n) = x
  <2> DEFINE u == SubSeq(s, m + 1, m + n)
  <2>1. m + 1 \in Nat /\ m + n \in Nat /\ 1 <= m + 1 /\ m + n <= Len(s)
    BY <1>5
  <2>2. u \in Seq(X) /\ Len(u) = n /\ \A i \in 1..n : u[i] = s[m + i]
    <3>1. IsPiece(u, X, s, m, n)
      BY <1>5, <2>1, Piece
    <3> QED BY <3>1 DEF IsPiece
  <2> HIDE DEF u
  <2>3. \A i \in 1..n : u[i] = x[i]
    BY <1>8, <2>2
  <2>4. Len(x) = n
    BY <1>4a
  <2>5. u = x
    BY <2>2, <2>3, <2>4, SeqEqual
  <2> QED BY <2>5 DEF u
<1> QED BY <1>4a, <1>3, <1>5, <1>7, <1>8, <1>9, <1>10 DEF g

\* What three parts written one after the other look like to a reader.
Parts(s, h, x, p) ==
  /\ s \in Seq(Nat) /\ Len(s) = Len(h) + Len(x) + Len(p)
  /\ Len(h) \in Nat /\ Len(x) \in Nat /\ Len(p) \in Nat
  /\ \A i \in 1..Len(h) : s[i] = h[i]
  /\ \A i \in 1..Len(p) : s[Len(h) + Len(x) + i] = p[i]
  /\ SubSeq(s, Len(h) + 1, Len(h) + Len(x)) = x

\* What is written in three parts is read as these parts.
LEMMA PartsOf ==
  ASSUME NEW h \in Seq(Nat), NEW x \in Seq(Nat), NEW p \in Seq(Nat)
  PROVE  Parts((h \o x) \o p, h, x, p)
<1>1. PICK s : s = (h \o x) \o p
  OBVIOUS
<1>2. /\ s \in Seq(Nat) /\ Len(s) = Len(h) + Len(x) + Len(p)
      /\ Len(h) \in Nat /\ Len(x) \in Nat /\ Len(p) \in Nat
      /\ \A i \in 1..Len(h) : s[i] = h[i]
      /\ \A i \in 1..Len(p) : s[Len(h) + Len(x) + i] = p[i]
      /\ SubSeq(s, Len(h) + 1, Len(h) + Len(x)) = x
  <2>1. \A r : r = (h \o x) \o p =>
         /\ r \in Seq(Nat) /\ Len(r) = Len(h) + Len(x) + Len(p)
         /\ Len(h) \in Nat /\ Len(x) \in Nat /\ Len(p) \in Nat
         /\ \A i \in 1..Len(h) : r[i] = h[i]
         /\ \A i \in 1..Len(x) : r[Len(h) + i] = x[i]
         /\ \A i \in 1..Len(p) : r[Len(h) + Len(x) + i] = p[i]
         /\ SubSeq(r, Len(h) + 1, Len(h) + Len(x)) = x
    BY ThreeParts
  <2> QED BY <1>1, <2>1, Zenon
<1>3. Parts(s, h, x, p)
  BY <1>2, Zenon DEF Parts
<1> QED BY <1>1, <1>3, Zenon

\* What the receiver of a request or reply makes of the bytes s.
ReadsPacket(s, code, t) ==
  /\ s \in Seq(Nat) /\ s # <<>> /\ HasPacket(s) /\ Drop(s, PacketLen(s)) = <<>>
  /\ s[1] = Ver /\ s[2] = code /\ s[3] = 0 /\ TargetIn(s) = t

\* Nothing is left of a packet that was read to its end.
LEMMA DropAll ==
  ASSUME NEW X, NEW s \in Seq(X) PROVE Drop(s, Len(s)) = <<>>
BY DEF Drop

\* Bytes are natural numbers.
LEMMA ByteFacts ==
  /\ Byte \subseteq Nat
  /\ \A s \in Seq(Byte) : s \in Seq(Nat)
<1>1. Byte \subseteq Nat
  BY DEF Byte
<1> QED BY <1>1, SeqMonotonic

\* A target, by its fields.
LEMMA TargetFacts ==
  ASSUME NEW t \in Targets \cup {Bound}
  PROVE  /\ t = [atyp |-> t.atyp, addr |-> t.addr, port |-> t.port]
         /\ t.atyp \in {1, 3, 4} /\ t.addr \in Seq(Nat) /\ t.port \in Nat
         /\ t.atyp = 1 => Len(t.addr) = 4
         /\ t.atyp = 4 => Len(t.addr) = 16
<1>1. t \in [atyp : {1, 3, 4}, addr : Seq(Byte), port : 0..(2^16 - 1)]
  BY Socks5Assumption
<1>2. /\ t = [atyp |-> t.atyp, addr |-> t.addr, port |-> t.port]
      /\ t.atyp \in {1, 3, 4} /\ t.addr \in Seq(Byte) /\ t.port \in Nat
  <2>1. t = [atyp |-> t.atyp, addr |-> t.addr, port |-> t.port]
    BY <1>1
  <2>2. t.atyp \in {1, 3, 4} /\ t.addr \in Seq(Byte) /\ t.port \in 0..(2^16 - 1)
    BY <1>1
  <2>3. t.port \in Nat
    BY <2>2
  <2> QED BY <2>1, <2>2, <2>3
<1>3. t.addr \in Seq(Nat)
  BY <1>2, ByteFacts
<1>4. /\ t.atyp = 1 => Len(t.addr) = 4
      /\ t.atyp = 4 => Len(t.addr) = 16
  BY Socks5Assumption, Zenon
<1> QED BY <1>2, <1>3, <1>4

\* A port is two bytes, the high one first.
LEMMA PortFacts ==
  ASSUME NEW p \in Nat
  PROVE  /\ Port(p) \in Seq(Nat) /\ Len(Port(p)) = 2
         /\ PortOf(Port(p)[1], Port(p)[2]) = p
<1>1. p \div 256 \in Nat /\ p % 256 \in Nat /\ (p \div 256) * 256 + (p % 256) = p
  OBVIOUS
<1> QED BY <1>1 DEF Port, PortOf

\* The fixed part of a packet, with the length of a name.
IsHead(h, code, y, n) ==
  /\ h = <<Ver, code, 0, y>> \o (IF y = 3 THEN <<n>> ELSE <<>>)
  /\ h[1] = Ver /\ h[2] = code /\ h[3] = 0 /\ h[4] = y
  /\ y = 3 => Len(h) = 5 /\ h[5] = n
  /\ y # 3 => Len(h) = 4

LEMMA PacketHead ==
  ASSUME NEW code \in Nat, NEW y \in Nat, NEW n \in Nat
  PROVE  \E h \in Seq(Nat) : IsHead(h, code, y, n)
<1>1. PICK a : a = <<Ver, code, 0, y>>
  OBVIOUS
<1>2. PICK b : b = IF y = 3 THEN <<n>> ELSE <<>>
  OBVIOUS
<1>3. a \in Seq(Nat) /\ Len(a) = 4 /\ a[1] = Ver /\ a[2] = code /\ a[3] = 0 /\ a[4] = y
  BY <1>1 DEF Ver
<1>4. b \in Seq(Nat) /\ (y = 3 => Len(b) = 1 /\ b[1] = n) /\ (y # 3 => Len(b) = 0)
  BY <1>2
<1>5. PICK h : h = a \o b
  OBVIOUS
<1>6. /\ h \in Seq(Nat) /\ Len(h) = 4 + Len(b)
      /\ \A i \in 1..(4 + Len(b)) : h[i] = IF i <= 4 THEN a[i] ELSE b[i - 4]
  <2>1. \A u, v \in Seq(Nat) :
           /\ u \o v \in Seq(Nat) /\ Len(u \o v) = Len(u) + Len(v)
           /\ \A i \in 1..(Len(u) + Len(v)) :
                 (u \o v)[i] = IF i <= Len(u) THEN u[i] ELSE v[i - Len(u)]
    BY ConcatFacts
  <2>2. /\ a \o b \in Seq(Nat) /\ Len(a \o b) = Len(a) + Len(b)
        /\ \A i \in 1..(Len(a) + Len(b)) :
              (a \o b)[i] = IF i <= Len(a) THEN a[i] ELSE b[i - Len(a)]
    BY <1>3, <1>4, <2>1, Zenon
  <2>3. Len(a) = 4
    BY <1>3
  <2> QED BY <1>5, <2>2, <2>3, Zenon
<1>7. Len(b) \in Nat
  BY <1>4
<1>8. h[1] = a[1] /\ h[2] = a[2] /\ h[3] = a[3] /\ h[4] = a[4]
  BY <1>6, <1>7
<1>9. y = 3 => Len(h) = 5 /\ h[5] = b[1]
  <2>1. SUFFICES ASSUME y = 3 PROVE Len(h) = 5 /\ h[5] = b[1]
    OBVIOUS
  <2>2. Len(b) = 1
    BY <1>4, <2>1
  <2>3. Len(h) = 5 /\ 5 \in 1..(4 + Len(b)) /\ ~(5 <= 4) /\ 5 - 4 = 1
    BY <1>6, <2>2
  <2> QED BY <1>6, <2>3
<1>10. y # 3 => Len(h) = 4
  BY <1>4, <1>6
<1>11. IsHead(h, code, y, n)
  BY <1>1, <1>2, <1>3, <1>4, <1>5, <1>8, <1>9, <1>10, Zenon DEF IsHead
<1> QED BY <1>6, <1>11

\* The two sides agree on the length and the contents of a packet.
LEMMA PacketFacts ==
  ASSUME NEW code \in Nat, NEW t \in Targets \cup {Bound}
  PROVE  ReadsPacket(Packet(code, t), code, t)
<1>1. PICK y, x, o : y = t.atyp /\ x = t.addr /\ o = t.port
  BY Zenon
<1>2. /\ t = [atyp |-> y, addr |-> x, port |-> o]
      /\ x \in Seq(Nat) /\ o \in Nat
      /\ y \in {1, 3, 4} /\ (y = 1 => Len(x) = 4) /\ (y = 4 => Len(x) = 16)
  BY <1>1, TargetFacts, Zenon
<1>3. Len(x) \in Nat
  BY <1>2
<1>4. PICK h \in Seq(Nat) :
           /\ h = <<Ver, code, 0, y>> \o (IF y = 3 THEN <<Len(x)>> ELSE <<>>)
           /\ h[1] = Ver /\ h[2] = code /\ h[3] = 0 /\ h[4] = y
           /\ y = 3 => Len(h) = 5 /\ h[5] = Len(x)
           /\ y # 3 => Len(h) = 4
  <2>1. y \in Nat
    BY <1>2
  <2>2. \E h \in Seq(Nat) : IsHead(h, code, y, Len(x))
    BY <1>3, <2>1, PacketHead
  <2> QED BY <2>2, Zenon DEF IsHead
<1>5. PICK p : p = Port(o)
  BY Zenon
<1>6. p \in Seq(Nat) /\ Len(p) = 2 /\ PortOf(p[1], p[2]) = o
  BY <1>2, <1>5, PortFacts, Zenon
<1>7. PICK s : s = (h \o x) \o p
  BY Zenon
<1>8. Packet(code, t) = s
  BY <1>1, <1>4, <1>5, <1>7, Zenon DEF Packet
<1>9. Parts(s, h, x, p)
  BY <1>2, <1>4, <1>6, <1>7, PartsOf, Zenon
<1>10. PICK l, m, n : l = Len(h) /\ m = Len(x) /\ n = Len(s)
  BY Zenon
<1>11. /\ s \in Seq(Nat) /\ n = l + m + 2 /\ l \in Nat /\ m \in Nat
       /\ \A i \in 1..l : s[i] = h[i]
       /\ s[l + m + 1] = p[1] /\ s[l + m + 2] = p[2]
       /\ SubSeq(s, l + 1, l + m) = x
  <2>1. \A i \in 1..2 : s[l + m + i] = p[i]
    BY <1>6, <1>9, <1>10, Zenon DEF Parts
  <2>2. s[l + m + 1] = p[1] /\ s[l + m + 2] = p[2]
    BY <2>1
  <2>3. /\ s \in Seq(Nat) /\ n = l + m + 2 /\ l \in Nat /\ m \in Nat
        /\ \A i \in 1..l : s[i] = h[i] /\ SubSeq(s, l + 1, l + m) = x
    BY <1>6, <1>9, <1>10, Zenon DEF Parts
  <2>4. SubSeq(s, l + 1, l + m) = x
    BY <1>9, <1>10, Zenon DEF Parts
  <2> QED BY <2>2, <2>3, <2>4, Zenon
<1>12. (y = 3 => l = 5) /\ (y # 3 => l = 4)
  BY <1>4, <1>10
<1>13. /\ n \in Nat /\ n >= 6 /\ n - 2 = l + m /\ n - 1 = l + m + 1 /\ n = l + m + 2
  <2>1. n = l + m + 2 /\ l \in Nat /\ m \in Nat
    BY <1>11, Zenon
  <2> QED BY <1>12, <2>1
<1>14. s[1] = Ver /\ s[2] = code /\ s[3] = 0 /\ s[4] = y /\ (y = 3 => s[5] = m)
  <2>1. 1 \in 1..l /\ 2 \in 1..l /\ 3 \in 1..l /\ 4 \in 1..l /\ (y = 3 => 5 \in 1..l)
    BY <1>12
  <2> QED BY <1>4, <1>10, <1>11, <2>1, Zenon
<1>15. PacketLen(s) = n
  <2>1. ~(Len(s) < 5)
    BY <1>10, <1>13
  <2>2. PacketLen(s) = CASE y = 1 -> 4 + 6 [] y = 4 -> 4 + 18 [] OTHER -> 5 + s[5] + 2
    BY <1>14, <2>1 DEF PacketLen
  <2>3. CASE y = 1
    <3>1. m = 4 /\ l = 4
      BY <1>2, <1>10, <1>12, <2>3
    <3> QED BY <1>11, <2>2, <2>3, <3>1
  <2>4. CASE y = 4
    <3>1. m = 16 /\ l = 4
      BY <1>2, <1>10, <1>12, <2>4
    <3> QED BY <1>11, <2>2, <2>4, <3>1
  <2>5. CASE y = 3
    BY <1>11, <1>12, <1>14, <2>2, <2>5
  <2> QED BY <1>2, <2>3, <2>4, <2>5
<1>16. TargetIn(s) = t
  <2>1. TargetIn(s) = [atyp |-> s[4],
                       addr |-> SubSeq(s, IF s[4] = 3 THEN 6 ELSE 5, n - 2),
                       port |-> PortOf(s[n - 1], s[n])]
    BY <1>15, Zenon DEF TargetIn
  <2>2. (IF s[4] = 3 THEN 6 ELSE 5) = l + 1
    BY <1>12, <1>14
  <2>3. SubSeq(s, IF s[4] = 3 THEN 6 ELSE 5, n - 2) = x
    BY <1>11, <1>13, <2>2, Zenon
  <2>4. PortOf(s[n - 1], s[n]) = o
    BY <1>6, <1>11, <1>13, Zenon
  <2> QED BY <1>2, <1>14, <2>1, <2>3, <2>4, Zenon
<1>17. HasPacket(s)
  BY <1>10, <1>13, <1>15 DEF HasPacket
<1>18. Drop(s, PacketLen(s)) = <<>>
  BY <1>10, <1>11, <1>15, DropAll, Zenon
<1>19. s # <<>>
  <2>1. Len(s) # 0
    BY <1>10, <1>13
  <2> QED BY <2>1
<1>20. ReadsPacket(s, code, t)
  BY <1>11, <1>14, <1>16, <1>17, <1>18, <1>19, Zenon DEF ReadsPacket
<1> QED BY <1>8, <1>20, Zenon

\* User and password, each behind its length.
Password(k) == <<AuthVer, Len(k.user)>> \o k.user \o <<Len(k.pass)>> \o k.pass

\* What the proxy makes of the bytes s.
ReadsPassword(s, k) ==
  /\ s \in Seq(Nat) /\ s # <<>> /\ s[2] = Len(k.user) /\ s[3 + s[2]] = Len(k.pass)
  /\ Len(k.user) \in Nat /\ Len(k.pass) \in Nat
  /\ Len(s) = 3 + s[2] + s[3 + s[2]]
  /\ s[1] = AuthVer
  /\ Drop(s, 3 + s[2] + s[3 + s[2]]) = <<>>
  /\ [user |-> SubSeq(s, 3, 2 + s[2]),
      pass |-> SubSeq(s, 4 + s[2], 3 + s[2] + s[3 + s[2]])] = k

\* Credentials, by their fields.
LEMMA CredentialFacts ==
  ASSUME NEW k \in Credentials
  PROVE  /\ k = [user |-> k.user, pass |-> k.pass]
         /\ k.user \in Seq(Nat) /\ k.pass \in Seq(Nat)
<1>1. k \in [user : Seq(Byte), pass : Seq(Byte)]
  BY Socks5Assumption
<1>2. k = [user |-> k.user, pass |-> k.pass] /\ k.user \in Seq(Byte) /\ k.pass \in Seq(Byte)
  BY <1>1
<1> QED BY <1>2, ByteFacts

\* What a slice of a sequence of numbers is.
LEMMA SliceFacts ==
  ASSUME NEW f \in Seq(Nat), NEW i \in Nat, NEW j \in Nat, 1 <= i, j <= Len(f)
  PROVE  /\ SubSeq(f, i, j) \in Seq(Nat)
         /\ Len(SubSeq(f, i, j)) = IF i <= j THEN j - i + 1 ELSE 0
         /\ \A q \in 1..(j - i + 1) : SubSeq(f, i, j)[q] = f[i + q - 1]
<1>1. \A q \in i..j : f[q] \in Nat
  <2>1. \A q \in i..j : q \in 1..Len(f)
    OBVIOUS
  <2> QED BY <2>1, ElementOfSeq
<1>2. i \in Int /\ j \in Int
  OBVIOUS
<1> QED BY <1>1, <1>2, SubSeqProperties

\* A slice of what was written first.
LEMMA SliceBefore ==
  ASSUME NEW f \in Seq(Nat), NEW s \in Seq(Nat), Len(f) <= Len(s),
         \A q \in 1..Len(f) : s[q] = f[q],
         NEW i \in Nat, NEW j \in Nat, 1 <= i, j <= Len(f)
  PROVE  SubSeq(s, i, j) = SubSeq(f, i, j)
<1>1. j <= Len(s)
  OBVIOUS
<1>2. PICK a, b : a = SubSeq(s, i, j) /\ b = SubSeq(f, i, j)
  OBVIOUS
<1>3. /\ a \in Seq(Nat) /\ Len(a) = IF i <= j THEN j - i + 1 ELSE 0
      /\ \A q \in 1..(j - i + 1) : a[q] = s[i + q - 1]
  <2>1. /\ SubSeq(s, i, j) \in Seq(Nat)
        /\ Len(SubSeq(s, i, j)) = IF i <= j THEN j - i + 1 ELSE 0
        /\ \A q \in 1..(j - i + 1) : SubSeq(s, i, j)[q] = s[i + q - 1]
    BY <1>1, SliceFacts
  <2> QED BY <1>2, <2>1, Zenon
<1>4. /\ b \in Seq(Nat) /\ Len(b) = IF i <= j THEN j - i + 1 ELSE 0
      /\ \A q \in 1..(j - i + 1) : b[q] = f[i + q - 1]
  BY <1>2, SliceFacts
<1>5. ASSUME NEW q \in 1..Len(a) PROVE a[q] = b[q]
  <2>1. q \in 1..(j - i + 1) /\ i + q - 1 \in 1..Len(f)
    BY <1>3
  <2> QED BY <1>3, <1>4, <2>1
<1>6. a = b
  BY <1>3, <1>4, <1>5, SeqEqual
<1> QED BY <1>2, <1>6

\* The two sides agree on the length and the contents of user and password.
LEMMA PasswordFacts ==
  ASSUME NEW k \in Credentials PROVE ReadsPassword(Password(k), k)
<1>1. PICK u, v : u = k.user /\ v = k.pass
  BY Zenon
<1>2. k = [user |-> u, pass |-> v] /\ u \in Seq(Nat) /\ v \in Seq(Nat)
  BY <1>1, CredentialFacts, Zenon
<1>3. PICK m, n : m = Len(u) /\ n = Len(v)
  BY Zenon
<1>4. m \in Nat /\ n \in Nat
  BY <1>2, <1>3
<1>5. PICK a, w : a = <<AuthVer, m>> /\ w = <<n>>
  BY Zenon
<1>6. /\ a \in Seq(Nat) /\ Len(a) = 2 /\ a[1] = AuthVer /\ a[2] = m
      /\ w \in Seq(Nat) /\ Len(w) = 1 /\ w[1] = n
  BY <1>4, <1>5 DEF AuthVer
<1>7. PICK f : f = (a \o u) \o w
  BY Zenon
<1>8. PICK s : s = f \o v
  BY Zenon
<1>9. Password(k) = s
  BY <1>1, <1>3, <1>5, <1>7, <1>8, Zenon DEF Password
<1>10. Parts(f, a, u, w)
  BY <1>2, <1>6, <1>7, PartsOf, Zenon
<1>11. /\ f \in Seq(Nat) /\ Len(f) = 2 + m + 1 /\ SubSeq(f, 2 + 1, 2 + m) = u
       /\ \A i \in 1..2 : f[i] = a[i]
       /\ \A i \in 1..1 : f[2 + m + i] = w[i]
  BY <1>3, <1>6, <1>10, Zenon DEF Parts
<1>12. f[1] = AuthVer /\ f[2] = m /\ f[2 + m + 1] = n
  <2>1. f[1] = a[1] /\ f[2] = a[2]
    BY <1>11
  <2>2. f[2 + m + 1] = w[1]
    BY <1>11
  <2> QED BY <1>6, <2>1, <2>2, Zenon
<1>13. PICK e : e = <<>>
  BY Zenon
<1>14. e \in Seq(Nat) /\ Len(e) = 0
  BY <1>13, EmptySeq
<1>15. f \o v \in Seq(Nat)
  BY <1>2, <1>11, ConcatProperties
<1>16. Parts(s, f, v, e)
  <2>1. (f \o v) \o e = f \o v
    BY <1>13, <1>15, ConcatEmptySeq
  <2>2. Parts((f \o v) \o e, f, v, e)
    BY <1>2, <1>11, <1>14, PartsOf, Zenon
  <2> QED BY <1>8, <2>1, <2>2, Zenon
<1>17. /\ s \in Seq(Nat) /\ Len(s) = (2 + m + 1) + n + 0
       /\ \A i \in 1..Len(f) : s[i] = f[i]
       /\ SubSeq(s, (2 + m + 1) + 1, (2 + m + 1) + n) = v
  BY <1>3, <1>11, <1>14, <1>16, Zenon DEF Parts
<1>18. /\ 2 + m + 1 = 3 + m /\ (2 + m + 1) + 1 = 4 + m /\ (2 + m + 1) + n = 3 + m + n
       /\ (2 + m + 1) + n + 0 = 3 + m + n /\ 2 + 1 = 3
       /\ 1 \in 1..(3 + m) /\ 2 \in 1..(3 + m) /\ 3 + m \in 1..(3 + m)
       /\ 3 \in Nat /\ 2 + m \in Nat /\ 1 <= 3 /\ 2 + m <= 3 + m /\ 3 + m <= 3 + m + n
  BY <1>4
<1>19. Len(f) = 3 + m /\ Len(s) = 3 + m + n
  BY <1>11, <1>17, <1>18
<1>20. s[1] = AuthVer /\ s[2] = m /\ s[3 + m] = n
  <2>1. s[1] = f[1] /\ s[2] = f[2] /\ s[3 + m] = f[3 + m]
    BY <1>17, <1>18, <1>19, Zenon
  <2> QED BY <1>12, <1>18, <2>1, Zenon
<1>21. SubSeq(s, 3, 2 + m) = u
  <2>1. Len(f) <= Len(s) /\ 2 + m <= Len(f)
    BY <1>18, <1>19
  <2>2. SubSeq(s, 3, 2 + m) = SubSeq(f, 3, 2 + m)
    BY <1>11, <1>17, <1>18, <2>1, SliceBefore, Zenon
  <2> QED BY <1>11, <1>18, <2>2, Zenon
<1>22. SubSeq(s, 4 + m, 3 + m + n) = v
  BY <1>17, <1>18, Zenon
<1>23. Drop(s, 3 + m + n) = <<>>
  <2>1. Drop(s, Len(s)) = <<>>
    BY <1>17, DropAll
  <2> QED BY <1>19, <2>1, Zenon
<1>24. s # <<>>
  <2>1. Len(s) # 0
    BY <1>4, <1>19
  <2> QED BY <2>1
<1>25. ReadsPassword(s, k)
  BY <1>1, <1>2, <1>3, <1>4, <1>17, <1>19, <1>20, <1>21, <1>22, <1>23, <1>24, Zenon DEF ReadsPassword
<1> QED BY <1>9, <1>25, Zenon
-----------------------------------------------------------------------------
\* The messages of the handshake.
Greeting == IF cred = None THEN <<Ver, 1, NoAuthReq>> ELSE <<Ver, 2, NoAuthReq, UserPass>>
Request == Packet(1, target)
Success == Packet(0, Bound)

\* Whom the proxy serves.
LetIn == checks => passed = cred /\ cred # None

\* For each place the proxy can be at, where the client can be and what is on its
\* way between them. Nobody reads what a side that failed has left behind.
AuthStage ==
  proxy = "auth" =>
     \/ client = "start" /\ up = <<>> /\ down = <<>>
     \/ client = "method" /\ up = Greeting /\ down = <<>>
     \/ client = "failed" /\ up \in {<<>>, Greeting}
PasswordStage ==
  proxy = "password" =>
     /\ checks /\ cred # None
     /\ \/ client = "method" /\ up = <<>> /\ down = <<Ver, UserPass>>
        \/ client = "verdict" /\ up = Password(cred) /\ down = <<>>
        \/ client = "failed" /\ up \in {<<>>, Password(cred)}
CommandStage ==
  proxy = "command" =>
     /\ LetIn
     /\ \/ client = "method" /\ up = <<>> /\ down = <<Ver, NoAuthReq>>
        \/ client = "verdict" /\ up = <<>> /\ down = <<AuthVer, 0>>
        \/ client = "request" /\ up = <<>> /\ down = <<>>
        \/ client = "reply" /\ up = Request /\ down = <<>>
        \/ client = "failed" /\ up \in {<<>>, Request}
AnswerStage ==
  proxy = "answer" =>
     /\ LetIn /\ seen = target
     /\ \/ client = "reply" /\ up = <<>> /\ down = <<>>
        \/ client = "failed"
DoneStage ==
  proxy = "done" =>
     /\ LetIn /\ seen = target
     /\ \/ client = "reply" /\ up = <<>> /\ down = Success
        \/ client = "done" /\ up \in {<<>>, <<999>>} /\ down = <<>>
        \/ client = "failed"
FailedStage ==
  proxy = "failed" =>
     \/ client \in {"start", "request"} /\ down = <<>>
     \/ client = "method" /\ down \in {<<>>, <<Ver, NoAuthReq>>, <<Ver, NoMethod>>}
     \/ client = "method" /\ down = <<Ver, UserPass>> /\ cred # None
     \/ client = "verdict" /\ down \in {<<>>, <<AuthVer, 0>>, <<AuthVer, 255>>}
     \/ client = "reply" /\ (down = <<>> \/ \E r \in Replies \ {0} : down = Packet(r, Bound))
     \/ client = "failed"

SocksTypes ==
  /\ cred \in Credentials \cup {None} /\ target \in Targets /\ ~aborted
  /\ seen \in {None, target} /\ passed \in {None, cred}
  /\ proxy \in {"auth", "password", "command", "answer", "done", "failed"}

SocksInv ==
  /\ SocksTypes /\ AuthStage /\ PasswordStage /\ CommandStage
  /\ AnswerStage /\ DoneStage /\ FailedStage

\* What a reader makes of no bytes, and of two.
LEMMA EmptyFacts ==
  /\ Len(<<>>) = 0 /\ ~HasPacket(<<>>)
  /\ \A s \in Seq(Nat) : <<>> \o s = s
<1>1. Len(<<>>) = 0
  OBVIOUS
<1>2. PacketLen(<<>>) = 0
  BY <1>1 DEF PacketLen
<1>3. ~HasPacket(<<>>)
  BY <1>2 DEF HasPacket
<1>4. \A s \in Seq(Nat) : <<>> \o s = s
  BY ConcatEmptySeq
<1> QED BY <1>1, <1>3, <1>4

\* A message of two bytes.
LEMMA PairFacts ==
  ASSUME NEW a \in Nat, NEW b \in Nat
  PROVE  /\ Len(<<a, b>>) = 2 /\ <<a, b>>[1] = a /\ <<a, b>>[2] = b
         /\ <<a, b>> # <<>> /\ Drop(<<a, b>>, 2) = <<>> /\ <<>> \o <<a, b>> = <<a, b>>
<1>1. PICK s : s = <<a, b>>
  OBVIOUS
<1>2. s \in Seq(Nat) /\ Len(s) = 2 /\ s[1] = a /\ s[2] = b
  BY <1>1
<1>3. Drop(s, 2) = <<>> /\ <<>> \o s = s
  BY <1>2, DropAll, EmptyFacts
<1>4. s # <<>>
  <2>1. Len(s) # 0
    BY <1>2
  <2> QED BY <2>1
<1> QED BY <1>1, <1>2, <1>3, <1>4, Zenon

\* The proxy finds in a greeting the methods that the client offers.
LEMMA GreetingFacts ==
  /\ Greeting \in Seq(Nat) /\ Greeting # <<>> /\ Greeting[1] = Ver
  /\ Len(Greeting) >= 2 /\ Drop(Greeting, 2 + Greeting[2]) = <<>>
  /\ NoAuthReq \in {Greeting[2 + i] : i \in 1..Greeting[2]}
  /\ UserPass \in {Greeting[2 + i] : i \in 1..Greeting[2]} <=> cred # None
<1>1. CASE cred = None
  <2>1. PICK g : g = <<Ver, 1, NoAuthReq>>
    OBVIOUS
  <2>2. Greeting = g
    BY <1>1, <2>1 DEF Greeting
  <2>3. g \in Seq(Nat) /\ Len(g) = 3 /\ g[1] = Ver /\ g[2] = 1 /\ g[3] = NoAuthReq
    BY <2>1 DEF Ver, NoAuthReq
  <2>4. {g[2 + i] : i \in 1..g[2]} = {NoAuthReq}
    <3>1. \A i \in 1..1 : g[2 + i] = NoAuthReq
      BY <2>3
    <3>2. 1 \in 1..1
      OBVIOUS
    <3> QED BY <2>3, <3>1, <3>2
  <2>5. Drop(g, 2 + g[2]) = <<>>
    <3>1. 2 + g[2] = Len(g)
      BY <2>3
    <3> QED BY <2>3, <3>1, DropAll
  <2>6. g # <<>> /\ Len(g) >= 2
    <3>1. Len(g) # 0 /\ Len(g) >= 2
      BY <2>3
    <3> QED BY <3>1
  <2>7. NoAuthReq # UserPass
    BY DEF NoAuthReq, UserPass
  <2>8. NoAuthReq \in {g[2 + i] : i \in 1..g[2]} /\ UserPass \notin {g[2 + i] : i \in 1..g[2]}
    BY <2>4, <2>7
  <2> QED BY <1>1, <2>2, <2>3, <2>5, <2>6, <2>8, Zenon
<1>2. CASE cred # None
  <2>1. PICK g : g = <<Ver, 2, NoAuthReq, UserPass>>
    OBVIOUS
  <2>2. Greeting = g
    BY <1>2, <2>1 DEF Greeting
  <2>3. /\ g \in Seq(Nat) /\ Len(g) = 4 /\ g[1] = Ver /\ g[2] = 2
        /\ g[3] = NoAuthReq /\ g[4] = UserPass
    BY <2>1 DEF Ver, NoAuthReq, UserPass
  <2>4. 1 \in 1..g[2] /\ 2 \in 1..g[2] /\ 2 + 1 = 3 /\ 2 + 2 = 4
    BY <2>3
  <2>5. NoAuthReq \in {g[2 + i] : i \in 1..g[2]} /\ UserPass \in {g[2 + i] : i \in 1..g[2]}
    BY <2>3, <2>4
  <2>6. Drop(g, 2 + g[2]) = <<>>
    <3>1. 2 + g[2] = Len(g)
      BY <2>3
    <3> QED BY <2>3, <3>1, DropAll
  <2>7. g # <<>> /\ Len(g) >= 2
    <3>1. Len(g) # 0 /\ Len(g) >= 2
      BY <2>3
    <3> QED BY <3>1
  <2> QED BY <1>2, <2>2, <2>3, <2>5, <2>6, <2>7, Zenon
<1> QED BY <1>1, <1>2

-----------------------------------------------------------------------------
\* The messages do not change once they are meant.
LEMMA SameMessages ==
  ASSUME UNCHANGED <<cred, target, checks>>
  PROVE  /\ Greeting' = Greeting /\ Request' = Request /\ Success' = Success
         /\ Password(cred)' = Password(cred)
BY Zenon DEF Greeting, Request, Success, Password, None, Packet

\* Both sides begin where the invariant says.
LEMMA SocksStart == SocksInit => SocksInv
<1> SUFFICES ASSUME SocksInit PROVE SocksInv
  OBVIOUS
<1>1. SocksTypes
  BY DEF SocksInit, SocksTypes
<1>2. AuthStage /\ PasswordStage /\ CommandStage /\ AnswerStage /\ DoneStage /\ FailedStage
  BY DEF SocksInit, AuthStage, PasswordStage, CommandStage, AnswerStage, DoneStage, FailedStage
<1> QED BY <1>1, <1>2 DEF SocksInv

\* The client's greeting finds the proxy waiting for it, or gone.
LEMMA GreetsKeeps ==
  ASSUME SocksInv, ClientGreets PROVE SocksInv'
<1>0. UNCHANGED <<cred, target, checks, proxy, down, seen, passed, aborted>>
  BY DEF ClientGreets
<1>1. Greeting' = Greeting /\ Request' = Request /\ Success' = Success /\ Password(cred)' = Password(cred)
  BY <1>0, SameMessages
<1>2. client = "start" /\ client' = "method" /\ up' = up \o Greeting
  BY DEF ClientGreets, Greeting
<1>3. SocksTypes'
  BY <1>0 DEF SocksInv, SocksTypes
<1>4. AuthStage'
  <2>1. CASE proxy = "auth"
    <3>1. up = <<>> /\ down = <<>>
      BY <1>2, <2>1 DEF SocksInv, AuthStage
    <3>2. up' = Greeting
      BY <1>2, <3>1, EmptyFacts, GreetingFacts
    <3> QED BY <1>0, <1>1, <1>2, <3>1, <3>2 DEF AuthStage
  <2>2. CASE proxy # "auth"
    BY <1>0, <2>2 DEF AuthStage
  <2> QED BY <2>1, <2>2
<1>5. proxy \in {"auth", "failed"}
  BY <1>2 DEF SocksInv, SocksTypes, PasswordStage, CommandStage, AnswerStage, DoneStage
<1>6. PasswordStage' /\ CommandStage' /\ AnswerStage' /\ DoneStage'
  BY <1>0, <1>5 DEF PasswordStage, CommandStage, AnswerStage, DoneStage
<1>7. FailedStage'
  <2>1. proxy = "failed" => down = <<>>
    BY <1>2 DEF SocksInv, FailedStage
  <2> QED BY <1>0, <1>2, <2>1 DEF FailedStage
<1> QED BY <1>3, <1>4, <1>6, <1>7 DEF SocksInv

\* The client reads the method the proxy chose: it offered that one.
LEMMA MethodKeeps ==
  ASSUME SocksInv, ClientMethod PROVE SocksInv'
<1>0. UNCHANGED <<cred, target, checks, proxy, seen, passed>>
  BY DEF ClientMethod
<1>1. Greeting' = Greeting /\ Request' = Request /\ Success' = Success /\ Password(cred)' = Password(cred)
  BY <1>0, SameMessages
<1>2. client = "method" /\ Len(down) >= 2 /\ down' = Drop(down, 2)
  BY DEF ClientMethod
<1>3. down # <<>>
  <2>1. SUFFICES ASSUME down = <<>> PROVE FALSE
    OBVIOUS
  <2> QED BY <1>2, <2>1, EmptyFacts
<1>4. \/ proxy = "password" /\ checks /\ cred # None /\ up = <<>> /\ down = <<Ver, UserPass>>
      \/ proxy = "command" /\ LetIn /\ up = <<>> /\ down = <<Ver, NoAuthReq>>
      \/ proxy = "failed" /\ down \in {<<Ver, NoAuthReq>>, <<Ver, NoMethod>>}
      \/ proxy = "failed" /\ down = <<Ver, UserPass>> /\ cred # None
  BY <1>2, <1>3
     DEF SocksInv, SocksTypes, AuthStage, PasswordStage, CommandStage, AnswerStage, DoneStage, FailedStage
<1>5. ASSUME NEW b \in {NoAuthReq, UserPass, NoMethod}, down = <<Ver, b>>
      PROVE  down[1] = Ver /\ down[2] = b /\ down' = <<>>
  <2>1. Ver \in Nat /\ b \in Nat
    BY DEF Ver, NoAuthReq, UserPass, NoMethod
  <2> QED BY <1>2, <1>5, <2>1, PairFacts
<1>6. NoAuthReq # UserPass /\ NoAuthReq # NoMethod /\ UserPass # NoMethod
  BY DEF NoAuthReq, UserPass, NoMethod
<1>7. ~aborted
  BY DEF SocksInv, SocksTypes
<1>8. CASE down = <<Ver, UserPass>>
  <2>1. cred # None /\ proxy \in {"password", "failed"} /\ (proxy = "password" => checks /\ up = <<>>)
    BY <1>4, <1>5, <1>6, <1>8
  <2>2. down[1] = Ver /\ down[2] = UserPass /\ down' = <<>>
    BY <1>5, <1>8
  <2>3. /\ client' = "verdict" /\ aborted' = aborted
        /\ up' = up \o <<AuthVer, Len(cred.user)>> \o cred.user \o <<Len(cred.pass)>> \o cred.pass
    BY <1>6, <2>1, <2>2 DEF ClientMethod
  <2>4. SocksTypes'
    BY <1>0, <1>7, <2>3 DEF SocksInv, SocksTypes
  <2>5. PasswordStage'
    <3>1. CASE proxy = "password"
      <4>1. up' = Password(cred)
        <5>1. <<>> \o <<AuthVer, Len(cred.user)>> = <<AuthVer, Len(cred.user)>>
          <6>1. cred \in Credentials
            BY <2>1 DEF SocksInv, SocksTypes
          <6>2. Len(cred.user) \in Nat /\ AuthVer \in Nat
            BY <6>1, CredentialFacts DEF AuthVer
          <6> QED BY <6>2, PairFacts
        <5> QED BY <2>1, <2>3, <3>1, <5>1, Zenon DEF Password
      <4> QED BY <1>0, <1>1, <2>1, <2>2, <2>3, <3>1, <4>1 DEF PasswordStage
    <3>2. CASE proxy # "password"
      BY <1>0, <3>2 DEF PasswordStage
    <3> QED BY <3>1, <3>2
  <2>6. AuthStage' /\ CommandStage' /\ AnswerStage' /\ DoneStage'
    BY <1>0, <2>1 DEF AuthStage, CommandStage, AnswerStage, DoneStage
  <2>7. FailedStage'
    BY <2>2, <2>3 DEF FailedStage
  <2> QED BY <2>4, <2>5, <2>6, <2>7 DEF SocksInv
<1>9. CASE down = <<Ver, NoAuthReq>>
  <2>1. down[1] = Ver /\ down[2] = NoAuthReq /\ down' = <<>>
    BY <1>5, <1>9
  <2>2. down # <<Ver, UserPass>>
    BY <1>5, <1>6, <2>1
  <2>3. proxy \in {"command", "failed"} /\ (proxy = "command" => LetIn /\ up = <<>>)
    BY <1>4, <2>2
  <2>4. client' = "request" /\ up' = up /\ aborted' = aborted
    BY <1>6, <2>1 DEF ClientMethod
  <2>5. SocksTypes'
    BY <1>0, <1>7, <2>4 DEF SocksInv, SocksTypes
  <2>6. CommandStage'
    BY <1>0, <2>1, <2>3, <2>4 DEF CommandStage, LetIn
  <2>7. AuthStage' /\ PasswordStage' /\ AnswerStage' /\ DoneStage'
    BY <1>0, <2>3 DEF AuthStage, PasswordStage, AnswerStage, DoneStage
  <2>8. FailedStage'
    BY <2>1, <2>4 DEF FailedStage
  <2> QED BY <2>5, <2>6, <2>7, <2>8 DEF SocksInv
<1>10. CASE down = <<Ver, NoMethod>>
  <2>1. down[1] = Ver /\ down[2] = NoMethod /\ down' = <<>>
    BY <1>5, <1>10
  <2>2. down # <<Ver, UserPass>> /\ down # <<Ver, NoAuthReq>>
    BY <1>5, <1>6, <2>1
  <2>3. proxy = "failed"
    BY <1>4, <2>2
  <2>4. client' = "failed" /\ up' = up /\ aborted' = aborted
    BY <1>6, <2>1 DEF ClientMethod
  <2>5. SocksTypes'
    BY <1>0, <1>7, <2>4 DEF SocksInv, SocksTypes
  <2>6. AuthStage' /\ PasswordStage' /\ CommandStage' /\ AnswerStage' /\ DoneStage'
    BY <1>0, <2>3 DEF AuthStage, PasswordStage, CommandStage, AnswerStage, DoneStage
  <2>7. FailedStage'
    BY <2>4 DEF FailedStage
  <2> QED BY <2>5, <2>6, <2>7 DEF SocksInv
<1> QED BY <1>4, <1>8, <1>9, <1>10

\* The client reads what the proxy thinks of its password.
LEMMA VerdictKeeps ==
  ASSUME SocksInv, ClientVerdict PROVE SocksInv'
<1>0. UNCHANGED <<cred, target, checks, proxy, up, seen, passed, aborted>>
  BY DEF ClientVerdict
<1>1. client = "verdict" /\ Len(down) >= 2 /\ down' = Drop(down, 2)
  BY DEF ClientVerdict
<1>2. down # <<>>
  <2>1. SUFFICES ASSUME down = <<>> PROVE FALSE
    OBVIOUS
  <2> QED BY <1>1, <2>1, EmptyFacts
<1>3. \/ proxy = "command" /\ LetIn /\ up = <<>> /\ down = <<AuthVer, 0>>
      \/ proxy = "failed" /\ down \in {<<AuthVer, 0>>, <<AuthVer, 255>>}
  BY <1>1, <1>2
     DEF SocksInv, SocksTypes, AuthStage, PasswordStage, CommandStage, AnswerStage, DoneStage, FailedStage
<1>4. AuthVer \in Nat /\ 0 \in Nat /\ 255 \in Nat
  BY DEF AuthVer
<1>5. down' = <<>> /\ (down = <<AuthVer, 0>> => down[1] = AuthVer /\ down[2] = 0)
  BY <1>1, <1>3, <1>4, PairFacts
<1>6. client' \in {"request", "failed"} /\ (down = <<AuthVer, 0>> => client' = "request")
  BY <1>5 DEF ClientVerdict
<1>7. SocksTypes'
  BY <1>0 DEF SocksInv, SocksTypes
<1>8. CommandStage'
  BY <1>0, <1>3, <1>5, <1>6 DEF CommandStage, LetIn
<1>9. AuthStage' /\ PasswordStage' /\ AnswerStage' /\ DoneStage'
  BY <1>0, <1>3 DEF AuthStage, PasswordStage, AnswerStage, DoneStage
<1>10. FailedStage'
  BY <1>5, <1>6 DEF FailedStage
<1> QED BY <1>7, <1>8, <1>9, <1>10 DEF SocksInv

\* The client asks for its target.
LEMMA RequestsKeeps ==
  ASSUME SocksInv, ClientRequests PROVE SocksInv'
<1>0. UNCHANGED <<cred, target, checks, proxy, down, seen, passed, aborted>>
  BY DEF ClientRequests
<1>1. client = "request" /\ client' = "reply" /\ up' = up \o Request
  BY DEF ClientRequests, Request
<1>2. \/ proxy = "command" /\ LetIn /\ up = <<>> /\ down = <<>>
      \/ proxy = "failed" /\ down = <<>>
  BY <1>1
     DEF SocksInv, SocksTypes, AuthStage, PasswordStage, CommandStage, AnswerStage, DoneStage, FailedStage
<1>3. Request' = Request
  BY <1>0, SameMessages
<1>4. Request \in Seq(Nat)
  <2>1. target \in Targets \cup {Bound} /\ 1 \in Nat
    BY DEF SocksInv, SocksTypes
  <2> QED BY <2>1, PacketFacts DEF ReadsPacket, Request
<1>5. up = <<>> => up' = Request
  BY <1>1, <1>4, EmptyFacts
<1>6. SocksTypes'
  BY <1>0 DEF SocksInv, SocksTypes
<1>7. CommandStage'
  BY <1>0, <1>1, <1>2, <1>3, <1>5 DEF CommandStage, LetIn
<1>8. AuthStage' /\ PasswordStage' /\ AnswerStage' /\ DoneStage'
  BY <1>0, <1>2 DEF AuthStage, PasswordStage, AnswerStage, DoneStage
<1>9. FailedStage'
  BY <1>0, <1>1, <1>2 DEF FailedStage
<1> QED BY <1>6, <1>7, <1>8, <1>9 DEF SocksInv

\* The client reads the whole reply and no byte more.
LEMMA ReplyKeeps ==
  ASSUME SocksInv, ClientReply PROVE SocksInv'
<1>0. UNCHANGED <<cred, target, checks, proxy, up, seen, passed, aborted>>
  BY DEF ClientReply
<1>1. /\ client = "reply" /\ HasPacket(down) /\ down' = Drop(down, PacketLen(down))
      /\ client' = IF down[1] = Ver /\ down[2] = 0 /\ down[3] = 0 THEN "done" ELSE "failed"
  BY DEF ClientReply
<1>2. down # <<>>
  BY <1>1, EmptyFacts, Zenon
<1>3. \/ proxy = "done" /\ LetIn /\ seen = target /\ up = <<>> /\ down = Success
      \/ proxy = "failed" /\ \E r \in Replies \ {0} : down = Packet(r, Bound)
  BY <1>1, <1>2
     DEF SocksInv, SocksTypes, AuthStage, PasswordStage, CommandStage, AnswerStage, DoneStage, FailedStage
<1>4. Bound \in Targets \cup {Bound} /\ 0 \in Nat
  OBVIOUS
<1>5. SocksTypes'
  BY <1>0 DEF SocksInv, SocksTypes
<1>6. CASE proxy = "done"
  <2>1. LetIn /\ seen = target /\ up = <<>> /\ down = Success
    BY <1>3, <1>6
  <2>2. ReadsPacket(down, 0, Bound)
    BY <1>4, <2>1, PacketFacts DEF Success
  <2>3. client' = "done" /\ down' = <<>>
    BY <1>1, <2>2 DEF ReadsPacket
  <2>4. DoneStage'
    BY <1>0, <2>1, <2>3 DEF DoneStage, LetIn
  <2>5. AuthStage' /\ PasswordStage' /\ CommandStage' /\ AnswerStage' /\ FailedStage'
    BY <1>0, <1>6 DEF AuthStage, PasswordStage, CommandStage, AnswerStage, FailedStage
  <2> QED BY <1>5, <2>4, <2>5 DEF SocksInv
<1>7. CASE proxy = "failed"
  <2>1. PICK r \in Replies \ {0} : down = Packet(r, Bound)
    BY <1>3, <1>7
  <2>2. r \in Nat /\ r # 0
    BY <2>1, Socks5Assumption, ByteFacts
  <2>3. ReadsPacket(down, r, Bound)
    BY <1>4, <2>1, <2>2, PacketFacts
  <2>4. client' = "failed"
    BY <1>1, <2>2, <2>3 DEF ReadsPacket
  <2>5. /\ AuthStage' /\ PasswordStage' /\ CommandStage' /\ AnswerStage' /\ DoneStage'
        /\ FailedStage'
    BY <1>0, <1>7, <2>4 DEF AuthStage, PasswordStage, CommandStage, AnswerStage, DoneStage, FailedStage
  <2> QED BY <1>5, <2>5 DEF SocksInv
<1> QED BY <1>3, <1>6, <1>7

\* A side that fails, from then on, owes nothing and is owed nothing.
LEMMA FailsKeeps ==
  ASSUME SocksInv, ClientFails \/ ProxyFails PROVE SocksInv'
<1>0. UNCHANGED <<cred, target, checks, up, down, seen, passed, aborted>>
  BY DEF ClientFails, ProxyFails
<1>1. Greeting' = Greeting /\ Request' = Request /\ Success' = Success /\ Password(cred)' = Password(cred)
  BY <1>0, SameMessages
<1>2. CASE ClientFails
  <2>1. proxy' = proxy /\ client' = "failed" /\ client # "done" /\ client # "failed"
    BY <1>2 DEF ClientFails
  <2>2. SocksTypes'
    BY <1>0, <2>1 DEF SocksInv, SocksTypes
  <2>3. AuthStage' /\ PasswordStage'
    BY <1>0, <1>1, <2>1 DEF SocksInv, AuthStage, PasswordStage
  <2>4. CommandStage'
    BY <1>0, <1>1, <2>1 DEF SocksInv, CommandStage, LetIn
  <2>5. AnswerStage' /\ DoneStage' /\ FailedStage'
    BY <1>0, <1>1, <2>1 DEF SocksInv, AnswerStage, DoneStage, FailedStage, LetIn
  <2> QED BY <2>2, <2>3, <2>4, <2>5 DEF SocksInv
<1>3. CASE ProxyFails
  <2>1. proxy' = "failed" /\ client' = client /\ proxy # "done" /\ proxy # "failed"
    BY <1>3 DEF ProxyFails
  <2>2. SocksTypes'
    BY <1>0, <2>1 DEF SocksInv, SocksTypes
  <2>3. AuthStage' /\ PasswordStage' /\ CommandStage' /\ AnswerStage' /\ DoneStage'
    BY <2>1 DEF AuthStage, PasswordStage, CommandStage, AnswerStage, DoneStage
  <2>4. FailedStage'
    BY <1>0, <2>1 DEF SocksInv, SocksTypes, AuthStage, PasswordStage, CommandStage, AnswerStage, FailedStage
  <2> QED BY <2>2, <2>3, <2>4 DEF SocksInv
<1> QED BY <1>2, <1>3

\* The program uses the connection.
LEMMA DataKeeps ==
  ASSUME SocksInv, ClientData PROVE SocksInv'
<1>0. UNCHANGED <<cred, target, checks, client, proxy, down, seen, passed, aborted>>
  BY DEF ClientData
<1>1. client = "done" /\ up' = <<999>>
  BY DEF ClientData
<1>2. proxy = "done" /\ LetIn /\ seen = target /\ down = <<>>
  BY <1>1
     DEF SocksInv, SocksTypes, AuthStage, PasswordStage, CommandStage, AnswerStage, DoneStage, FailedStage
<1>3. SocksTypes'
  BY <1>0 DEF SocksInv, SocksTypes
<1>4. DoneStage'
  BY <1>0, <1>1, <1>2 DEF DoneStage, LetIn
<1>5. AuthStage' /\ PasswordStage' /\ CommandStage' /\ AnswerStage' /\ FailedStage'
  BY <1>0, <1>2 DEF AuthStage, PasswordStage, CommandStage, AnswerStage, FailedStage
<1> QED BY <1>3, <1>4, <1>5 DEF SocksInv

\* The proxy chooses a method and leaves nothing of the greeting.
LEMMA AuthKeeps ==
  ASSUME SocksInv, ProxyAuth PROVE SocksInv'
<1>0. UNCHANGED <<cred, target, checks, client, seen, passed, aborted>>
  BY DEF ProxyAuth
<1>1. Greeting' = Greeting /\ Request' = Request /\ Success' = Success /\ Password(cred)' = Password(cred)
  BY <1>0, SameMessages
<1>2. proxy = "auth" /\ Len(up) >= 2 /\ up' = Drop(up, 2 + up[2])
  BY DEF ProxyAuth
<1>3. up # <<>>
  <2>1. SUFFICES ASSUME up = <<>> PROVE FALSE
    OBVIOUS
  <2> QED BY <1>2, <2>1, EmptyFacts
<1>4. up = Greeting /\ ((client = "method" /\ down = <<>>) \/ client = "failed")
  BY <1>2, <1>3 DEF SocksInv, AuthStage
<1>5. /\ up' = <<>> /\ up[1] = Ver
      /\ NoAuthReq \in {up[2 + i] : i \in 1..up[2]}
      /\ UserPass \in {up[2 + i] : i \in 1..up[2]} <=> cred # None
  BY <1>2, <1>4, GreetingFacts, Zenon
<1>6. \/ ~checks /\ down' = down \o <<Ver, NoAuthReq>> /\ proxy' = "command"
      \/ checks /\ cred # None /\ down' = down \o <<Ver, UserPass>> /\ proxy' = "password"
      \/ down' = down \o <<Ver, NoMethod>> /\ proxy' = "failed"
  BY <1>5, Zenon DEF ProxyAuth
<1>7. \A b \in {NoAuthReq, UserPass, NoMethod} : <<>> \o <<Ver, b>> = <<Ver, b>>
  <2>1. Ver \in Nat /\ NoAuthReq \in Nat /\ UserPass \in Nat /\ NoMethod \in Nat
    BY DEF Ver, NoAuthReq, UserPass, NoMethod
  <2> QED BY <2>1, PairFacts
<1>8. SocksTypes'
  BY <1>0, <1>6 DEF SocksInv, SocksTypes
<1>9. CASE ~checks /\ down' = down \o <<Ver, NoAuthReq>> /\ proxy' = "command"
  <2>1. client = "method" => down' = <<Ver, NoAuthReq>>
    BY <1>4, <1>7, <1>9
  <2>2. CommandStage'
    BY <1>0, <1>4, <1>5, <1>9, <2>1 DEF CommandStage, LetIn
  <2>3. AuthStage' /\ PasswordStage' /\ AnswerStage' /\ DoneStage' /\ FailedStage'
    BY <1>9 DEF AuthStage, PasswordStage, AnswerStage, DoneStage, FailedStage
  <2> QED BY <1>8, <2>2, <2>3 DEF SocksInv
<1>10. CASE checks /\ cred # None /\ down' = down \o <<Ver, UserPass>> /\ proxy' = "password"
  <2>1. client = "method" => down' = <<Ver, UserPass>>
    BY <1>4, <1>7, <1>10
  <2>2. PasswordStage'
    BY <1>0, <1>4, <1>5, <1>10, <2>1 DEF PasswordStage
  <2>3. AuthStage' /\ CommandStage' /\ AnswerStage' /\ DoneStage' /\ FailedStage'
    BY <1>10 DEF AuthStage, CommandStage, AnswerStage, DoneStage, FailedStage
  <2> QED BY <1>8, <2>2, <2>3 DEF SocksInv
<1>11. CASE down' = down \o <<Ver, NoMethod>> /\ proxy' = "failed"
  <2>1. client = "method" => down' = <<Ver, NoMethod>>
    BY <1>4, <1>7, <1>11
  <2>2. FailedStage'
    BY <1>0, <1>4, <2>1 DEF FailedStage
  <2>3. AuthStage' /\ PasswordStage' /\ CommandStage' /\ AnswerStage' /\ DoneStage'
    BY <1>11 DEF AuthStage, PasswordStage, CommandStage, AnswerStage, DoneStage
  <2> QED BY <1>8, <2>2, <2>3 DEF SocksInv
<1> QED BY <1>6, <1>9, <1>10, <1>11

\* The proxy reads the credentials that the client has.
LEMMA PasswordKeeps ==
  ASSUME SocksInv, ProxyPassword PROVE SocksInv'
<1>0. UNCHANGED <<cred, target, checks, client, seen, aborted>>
  BY DEF ProxyPassword
<1>1. proxy = "password" /\ Len(up) >= 2
  BY DEF ProxyPassword
<1>2. up # <<>>
  <2>1. SUFFICES ASSUME up = <<>> PROVE FALSE
    OBVIOUS
  <2> QED BY <1>1, <2>1, EmptyFacts
<1>3. /\ checks /\ cred # None /\ up = Password(cred)
      /\ (client = "verdict" /\ down = <<>>) \/ client = "failed"
  BY <1>1, <1>2 DEF SocksInv, PasswordStage
<1>4. cred \in Credentials
  BY <1>3 DEF SocksInv, SocksTypes
<1>5. ReadsPassword(up, cred)
  BY <1>3, <1>4, PasswordFacts
<1>6. /\ up' = <<>>
      /\ down' = down \o <<AuthVer, IF cred \in Valid THEN 0 ELSE 255>>
      /\ proxy' = IF cred \in Valid THEN "command" ELSE "failed"
      /\ passed' = IF cred \in Valid THEN cred ELSE passed
  <2> DEFINE ulen == up[2]
             plen == up[3 + ulen]
             given == [user |-> SubSeq(up, 3, 2 + ulen), pass |-> SubSeq(up, 4 + ulen, 3 + ulen + plen)]
             ok == up[1] = AuthVer /\ given \in Valid
  <2>1. /\ up' = Drop(up, 3 + ulen + plen)
        /\ down' = IF up[1] # AuthVer THEN down
                   ELSE down \o <<AuthVer, IF ok THEN 0 ELSE 255>>
        /\ proxy' = IF ok THEN "command" ELSE "failed"
        /\ passed' = IF ok THEN given ELSE passed
    BY Zenon DEF ProxyPassword
  <2>2. given = cred /\ up[1] = AuthVer /\ Drop(up, 3 + ulen + plen) = <<>>
    BY <1>5, Zenon DEF ReadsPassword
  <2> HIDE DEF ulen, plen, given
  <2> QED BY <2>1, <2>2, Zenon
<1>7. <<>> \o <<AuthVer, 0>> = <<AuthVer, 0>> /\ <<>> \o <<AuthVer, 255>> = <<AuthVer, 255>>
  <2>1. AuthVer \in Nat /\ 0 \in Nat /\ 255 \in Nat
    BY DEF AuthVer
  <2> QED BY <2>1, PairFacts
<1>8. SocksTypes'
  BY <1>0, <1>6 DEF SocksInv, SocksTypes
<1>9. CASE cred \in Valid
  <2>1. proxy' = "command" /\ passed' = cred /\ (client = "verdict" => down' = <<AuthVer, 0>>)
    BY <1>3, <1>6, <1>7, <1>9
  <2>2. CommandStage'
    BY <1>0, <1>3, <1>6, <2>1 DEF CommandStage, LetIn
  <2>3. AuthStage' /\ PasswordStage' /\ AnswerStage' /\ DoneStage' /\ FailedStage'
    BY <2>1 DEF AuthStage, PasswordStage, AnswerStage, DoneStage, FailedStage
  <2> QED BY <1>8, <2>2, <2>3 DEF SocksInv
<1>10. CASE cred \notin Valid
  <2>1. proxy' = "failed" /\ (client = "verdict" => down' = <<AuthVer, 255>>)
    BY <1>3, <1>6, <1>7, <1>10
  <2>2. FailedStage'
    BY <1>0, <1>3, <2>1 DEF FailedStage
  <2>3. AuthStage' /\ PasswordStage' /\ CommandStage' /\ AnswerStage' /\ DoneStage'
    BY <2>1 DEF AuthStage, PasswordStage, CommandStage, AnswerStage, DoneStage
  <2> QED BY <1>8, <2>2, <2>3 DEF SocksInv
<1> QED BY <1>9, <1>10

\* The proxy reads the target that the client asks for.
LEMMA CommandKeeps ==
  ASSUME SocksInv, ProxyCommand PROVE SocksInv'
<1>0. UNCHANGED <<cred, target, checks, client, down, passed, aborted>>
  BY DEF ProxyCommand
<1>1. proxy = "command" /\ HasPacket(up) /\ up' = Drop(up, PacketLen(up))
  BY DEF ProxyCommand
<1>2. up # <<>>
  BY <1>1, EmptyFacts, Zenon
<1>3. /\ LetIn /\ up = Request
      /\ (client = "reply" /\ down = <<>>) \/ client = "failed"
  BY <1>1, <1>2 DEF SocksInv, CommandStage
<1>4. ReadsPacket(up, 1, target)
  <2>1. target \in Targets \cup {Bound} /\ 1 \in Nat
    BY DEF SocksInv, SocksTypes
  <2> QED BY <1>3, <2>1, PacketFacts DEF Request
<1>5. up[1] = Ver /\ up[2] = 1 /\ up[3] = 0 /\ TargetIn(up) = target /\ up' = <<>>
  BY <1>1, <1>4, Zenon DEF ReadsPacket
<1>6. proxy' = "answer" /\ seen' = target
  <2>1. up[2] \in 1..3
    BY <1>5
  <2> QED BY <1>5, <2>1, Zenon DEF ProxyCommand
<1>7. SocksTypes'
  BY <1>0, <1>6 DEF SocksInv, SocksTypes
<1>8. AnswerStage'
  BY <1>0, <1>3, <1>5, <1>6 DEF AnswerStage, LetIn
<1>9. AuthStage' /\ PasswordStage' /\ CommandStage' /\ DoneStage' /\ FailedStage'
  BY <1>6 DEF AuthStage, PasswordStage, CommandStage, DoneStage, FailedStage
<1> QED BY <1>7, <1>8, <1>9 DEF SocksInv

\* The proxy replies.
LEMMA AnswerKeeps ==
  ASSUME SocksInv, NEW reply \in Replies, ProxyReply(reply) PROVE SocksInv'
<1>0. UNCHANGED <<cred, target, checks, client, up, seen, passed, aborted>>
  BY DEF ProxyReply
<1>1. /\ proxy = "answer" /\ down' = down \o Packet(reply, Bound)
      /\ proxy' = IF reply = 0 THEN "done" ELSE "failed"
  BY DEF ProxyReply
<1>2. /\ LetIn /\ seen = target
      /\ (client = "reply" /\ up = <<>> /\ down = <<>>) \/ client = "failed"
  BY <1>1 DEF SocksInv, AnswerStage
<1>3. Packet(reply, Bound) \in Seq(Nat)
  <2>1. reply \in Nat /\ Bound \in Targets \cup {Bound}
    BY Socks5Assumption, ByteFacts
  <2> QED BY <2>1, PacketFacts DEF ReadsPacket
<1>4. client = "reply" => down' = Packet(reply, Bound)
  BY <1>1, <1>2, <1>3, EmptyFacts
<1>5. SocksTypes'
  BY <1>0, <1>1 DEF SocksInv, SocksTypes
<1>6. CASE reply = 0
  <2>1. proxy' = "done" /\ (client = "reply" => down' = Success) /\ Success' = Success
    BY <1>0, <1>1, <1>4, <1>6, SameMessages DEF Success
  <2>2. DoneStage'
    BY <1>0, <1>2, <2>1 DEF DoneStage, LetIn
  <2>3. AuthStage' /\ PasswordStage' /\ CommandStage' /\ AnswerStage' /\ FailedStage'
    BY <2>1 DEF AuthStage, PasswordStage, CommandStage, AnswerStage, FailedStage
  <2> QED BY <1>5, <2>2, <2>3 DEF SocksInv
<1>7. CASE reply # 0
  <2>1. proxy' = "failed"
    BY <1>1, <1>7
  <2>2. FailedStage'
    <3>1. reply \in Replies \ {0}
      BY <1>7
    <3> QED BY <1>0, <1>2, <1>4, <3>1 DEF FailedStage
  <2>3. AuthStage' /\ PasswordStage' /\ CommandStage' /\ AnswerStage' /\ DoneStage'
    BY <2>1 DEF AuthStage, PasswordStage, CommandStage, AnswerStage, DoneStage
  <2> QED BY <1>5, <2>2, <2>3 DEF SocksInv
<1> QED BY <1>6, <1>7

\* What holds of the two sides is what the program relies on.
LEMMA SocksSafe == SocksInv => SocksAgree
<1> SUFFICES ASSUME SocksInv PROVE SocksAgree
  OBVIOUS
<1>1. ~aborted /\ (seen # None => seen = target) /\ (passed # None => passed = cred)
  BY DEF SocksInv, SocksTypes
<1>2. proxy \in {"command", "answer", "done"} /\ checks => passed # None
  BY DEF SocksInv, CommandStage, AnswerStage, DoneStage, LetIn
<1>3. client = "done" => proxy = "done" /\ seen = target /\ down = <<>> /\ up \in {<<>>, <<999>>}
  BY DEF SocksInv, SocksTypes, AuthStage, PasswordStage, CommandStage, AnswerStage, DoneStage, FailedStage
<1> QED BY <1>1, <1>2, <1>3 DEF SocksAgree

\* For any credentials, targets and replies: a SOCKS5 client that is told of
\* success is connected to what it asked for by a proxy that let it in, nothing of
\* the handshake is left in the connection, and no assertion of the client fails.
THEOREM SocksCorrect == SocksSpec => []SocksAgree
<1>1. SocksInit => SocksInv
  BY SocksStart
<1>2. SocksInv /\ [SocksNext]_socksVars => SocksInv'
  <2> SUFFICES ASSUME SocksInv, [SocksNext]_socksVars PROVE SocksInv'
    OBVIOUS
  <2>1. CASE ClientNext
    BY <2>1, GreetsKeeps, MethodKeeps, VerdictKeeps, RequestsKeeps, ReplyKeeps DEF ClientNext
  <2>2. CASE ProxyNext
    BY <2>2, AuthKeeps, PasswordKeeps, CommandKeeps, AnswerKeeps DEF ProxyNext
  <2>3. CASE ClientFails \/ ProxyFails
    BY <2>3, FailsKeeps
  <2>4. CASE ClientData
    BY <2>4, DataKeeps
  <2>5. CASE UNCHANGED socksVars
    <3>1. UNCHANGED <<cred, target, checks, client, proxy, up, down, seen, passed, aborted>>
      BY <2>5 DEF socksVars
    <3>2. Greeting' = Greeting /\ Request' = Request /\ Success' = Success /\ Password(cred)' = Password(cred)
      BY <3>1, SameMessages
    <3>3. SocksTypes' /\ AuthStage' /\ PasswordStage'
      BY <3>1, <3>2 DEF SocksInv, SocksTypes, AuthStage, PasswordStage
    <3>4. CommandStage' /\ AnswerStage' /\ DoneStage'
      BY <3>1, <3>2 DEF SocksInv, CommandStage, AnswerStage, DoneStage, LetIn
    <3>5. FailedStage'
      BY <3>1 DEF SocksInv, FailedStage
    <3> QED BY <3>3, <3>4, <3>5 DEF SocksInv
  <2> QED BY <2>1, <2>2, <2>3, <2>4, <2>5 DEF SocksNext
<1> QED BY <1>1, <1>2, SocksSafe, PTL DEF SocksSpec

-----------------------------------------------------------------------------
(***************************************************************************)
(* PREFIX and SUFFIX. First the header: the receiver's loop over the bytes *)
(* of the header takes back what the sender's loop did to the size.        *)
(***************************************************************************)

\* A number is its low digit and the others.
LEMMA LowDigit ==
  ASSUME NEW x \in Nat
  PROVE  /\ x \div Base \in Nat /\ x % Base \in 0..(Base - 1)
         /\ (x \div Base) * Base + (x % Base) = x
BY FramingAssumption

\* The shifts of a size.
IsShift(q, size) == q = [i \in 0..HdrLen |-> IF i = 0 THEN size ELSE q[i - 1] \div Base]

LEMMA ShiftedDef ==
  ASSUME NEW size \in Nat
  PROVE  /\ Shifted(size) \in [0..HdrLen -> Nat] /\ Shifted(size)[0] = size
         /\ \A i \in 1..HdrLen : Shifted(size)[i] = Shifted(size)[i - 1] \div Base
<1>0. HdrLen \in Nat
  BY FramingAssumption
<1> DEFINE g == [x \in Nat |-> x \div Base]
<1>1. g \in [Nat -> Nat] /\ \A x \in Nat : g[x] = x \div Base
  BY LowDigit
<1> HIDE DEF g
<1>2. PICK f : Iterates(f, HdrLen, Nat, size, g)
  BY <1>0, <1>1, Iteration
<1>3. f \in [0..HdrLen -> Nat] /\ f[0] = size /\ \A i \in 1..HdrLen : f[i] = g[f[i - 1]]
  BY <1>2 DEF Iterates
<1>4. \A i \in 1..HdrLen : f[i] = f[i - 1] \div Base
  BY <1>0, <1>1, <1>3
<1>5. IsShift(f, size)
  BY <1>0, <1>3, <1>4 DEF IsShift
<1>6. PICK q : q = (CHOOSE s : IsShift(s, size))
  OBVIOUS
<1>7. IsShift(q, size) /\ Shifted(size) = q
  BY <1>5, <1>6 DEF IsShift, Shifted
<1>8. DOMAIN q = 0..HdrLen /\ q[0] = size /\ \A i \in 1..HdrLen : q[i] = q[i - 1] \div Base
  BY <1>0, <1>7 DEF IsShift
<1> DEFINE T == {n \in Nat : n <= HdrLen => q[n] \in Nat}
<1>9. 0 \in T
  BY <1>8
<1>10. ASSUME NEW n \in Nat, n \in T PROVE n + 1 \in T
  <2>1. CASE n + 1 <= HdrLen
    <3>1. q[n] \in Nat /\ n + 1 \in 1..HdrLen /\ (n + 1) - 1 = n
      BY <1>0, <1>10, <2>1
    <3>2. q[n + 1] = q[n] \div Base
      BY <1>8, <3>1
    <3> QED BY <3>1, <3>2, LowDigit
  <2> QED BY <2>1
<1>11. Nat \subseteq T
  BY <1>9, <1>10, SetInduction
<1>12. \A n \in 0..HdrLen : q[n] \in Nat
  BY <1>0, <1>11
<1>13. q = [i \in 0..HdrLen |-> q[i]]
  BY <1>7, <1>8 DEF IsShift
<1>14. q \in [0..HdrLen -> Nat]
  BY <1>12, <1>13
<1> QED BY <1>7, <1>8, <1>14

LEMMA HeaderDef ==
  ASSUME NEW size \in Nat
  PROVE  /\ Header(size) \in Seq(0..(Base - 1)) /\ Len(Header(size)) = HdrLen
         /\ \A i \in 1..HdrLen :
              Header(size)[i] = Shifted(size)[IF framing = "prefix big" THEN HdrLen - i
                                              ELSE i - 1] % Base
<1>0. HdrLen \in Nat
  BY FramingAssumption
<1> DEFINE D(i) == Shifted(size)[IF framing = "prefix big" THEN HdrLen - i ELSE i - 1] % Base
<1>1. ASSUME NEW i \in 1..HdrLen PROVE D(i) \in 0..(Base - 1)
  <2>1. PICK k : k = IF framing = "prefix big" THEN HdrLen - i ELSE i - 1
    OBVIOUS
  <2>2. k \in 0..HdrLen
    <3>1. HdrLen - i \in 0..HdrLen /\ i - 1 \in 0..HdrLen
      BY <1>0
    <3> QED BY <2>1, <3>1
  <2>3. Shifted(size)[k] \in Nat
    BY <2>2, ShiftedDef
  <2> QED BY <2>1, <2>3, LowDigit
<1>2. Header(size) = [i \in 1..HdrLen |-> D(i)]
  BY DEF Header
<1>3. \A i \in 1..HdrLen : D(i) = Shifted(size)[IF framing = "prefix big" THEN HdrLen - i ELSE i - 1] % Base
  OBVIOUS
<1> HIDE DEF D
<1>4. Header(size) \in [1..HdrLen -> 0..(Base - 1)] /\ \A i \in 1..HdrLen : Header(size)[i] = D(i)
  BY <1>1, <1>2
<1>5. Header(size) \in Seq(0..(Base - 1)) /\ Len(Header(size)) = HdrLen
  BY <1>0, <1>4, SeqFromFunction
<1> QED BY <1>3, <1>4, <1>5

\* What the receiver reads out of a header that the sender has made.
IsSize(f, header) ==
  f = [i \in 0..HdrLen |->
         IF i = 0 THEN 0
         ELSE f[i - 1] * Base + Digit(header, i)]

LEMMA SizeRead ==
  ASSUME NEW size \in Nat, Shifted(size)[HdrLen] = 0, NEW h,
         \A i \in 1..HdrLen : h[i] = Header(size)[i]
  PROVE  SizeOf(h) = size
<1>0. HdrLen \in Nat
  BY FramingAssumption
<1>1. PICK q : q = Shifted(size)
  OBVIOUS
<1>2. /\ q \in [0..HdrLen -> Nat] /\ q[0] = size /\ q[HdrLen] = 0
      /\ \A i \in 1..HdrLen : q[i] = q[i - 1] \div Base
  BY <1>1, ShiftedDef
<1>3. ASSUME NEW i \in 1..HdrLen
      PROVE  Digit(h, i) = q[HdrLen - i] % Base
  <2>1. CASE framing = "prefix big"
    <3>1. h[i] = q[HdrLen - i] % Base
      BY <1>1, <2>1, HeaderDef
    <3> QED BY <2>1, <3>1 DEF Digit
  <2>2. CASE framing # "prefix big"
    <3>1. PICK k : k = HdrLen - i + 1
      OBVIOUS
    <3>2. k \in 1..HdrLen /\ k - 1 = HdrLen - i
      BY <1>0, <3>1
    <3>3. h[k] = q[k - 1] % Base
      BY <1>1, <2>2, <3>2, HeaderDef
    <3> QED BY <2>2, <3>1, <3>2, <3>3 DEF Digit
  <2> QED BY <2>1, <2>2
<1>4. ASSUME NEW i \in 1..HdrLen
      PROVE  q[HdrLen - i] = q[HdrLen - (i - 1)] * Base + (q[HdrLen - i] % Base)
  <2>1. PICK j : j = HdrLen - i
    OBVIOUS
  <2>2. j \in 0..HdrLen /\ j + 1 \in 1..HdrLen /\ (j + 1) - 1 = j /\ HdrLen - (i - 1) = j + 1
    BY <1>0, <2>1
  <2>3. q[j + 1] = q[j] \div Base /\ q[j] \in Nat
    BY <1>2, <2>2
  <2>4. q[j] = q[j + 1] * Base + (q[j] % Base)
    BY <2>3, LowDigit
  <2> QED BY <2>1, <2>2, <2>4
<1> DEFINE w == [i \in 0..HdrLen |-> q[HdrLen - i]]
<1>5. IsSize(w, h)
  <2>1. w[0] = 0
    BY <1>0, <1>2
  <2>2. ASSUME NEW i \in 1..HdrLen
        PROVE  w[i] = w[i - 1] * Base + Digit(h, i)
    <3>1. i - 1 \in 0..HdrLen /\ i \in 0..HdrLen
      BY <1>0
    <3>2. w[i] = q[HdrLen - i] /\ w[i - 1] = q[HdrLen - (i - 1)]
      BY <3>1
    <3> QED BY <1>3, <1>4, <3>2
  <2>3. w = [i \in 0..HdrLen |-> w[i]]
    OBVIOUS
  <2> HIDE DEF w
  <2>4. ASSUME NEW i \in 0..HdrLen
        PROVE  w[i] = IF i = 0 THEN 0
                      ELSE w[i - 1] * Base + Digit(h, i)
    <3>1. CASE i = 0
      BY <2>1, <3>1
    <3>2. CASE i # 0
      <4>1. i \in 1..HdrLen
        BY <1>0, <3>2
      <4> QED BY <2>2, <3>2, <4>1
    <3> QED BY <3>1, <3>2
  <2> QED BY <2>3, <2>4 DEF IsSize
<1>6. PICK f : f = (CHOOSE s : IsSize(s, h))
  OBVIOUS
<1>7. IsSize(f, h) /\ SizeOf(h) = f[HdrLen]
  BY <1>5, <1>6 DEF IsSize, SizeOf
<1>8. /\ f[0] = 0
      /\ \A i \in 1..HdrLen :
           f[i] = f[i - 1] * Base + Digit(h, i)
  BY <1>0, <1>7 DEF IsSize
<1> DEFINE T == {n \in Nat : n <= HdrLen => f[n] = q[HdrLen - n]}
<1>9. 0 \in T
  BY <1>0, <1>2, <1>8
<1>10. ASSUME NEW n \in Nat, n \in T PROVE n + 1 \in T
  <2>1. CASE n + 1 <= HdrLen
    <3>1. PICK i : i = n + 1
      OBVIOUS
    <3>2. i \in 1..HdrLen /\ i - 1 = n /\ f[n] = q[HdrLen - n]
      BY <1>0, <1>10, <2>1, <3>1
    <3>3. f[i] = q[HdrLen - (i - 1)] * Base + (q[HdrLen - i] % Base)
      BY <1>3, <1>8, <3>2
    <3>4. f[i] = q[HdrLen - i]
      BY <1>4, <3>2, <3>3
    <3> QED BY <3>1, <3>4
  <2> QED BY <2>1
<1>11. Nat \subseteq T
  BY <1>9, <1>10, SetInduction
<1>12. f[HdrLen] = q[HdrLen - HdrLen] /\ HdrLen - HdrLen = 0
  BY <1>0, <1>11
<1> QED BY <1>2, <1>7, <1>12

-----------------------------------------------------------------------------
\* The bytes of a message.
LEMMA FrameDef ==
  ASSUME NEW m \in Texts
  PROVE  /\ m \in Seq(Nat) /\ m \in Seq(0..(Base - 1)) /\ Len(m) \in Nat /\ Frame(m) \in Seq(Nat)
         /\ framing = "suffix" =>
              /\ Frame(m) = m \o Suffix /\ Len(Frame(m)) = Len(m) + Len(Suffix)
              /\ \A i \in 1..Len(m) : Frame(m)[i] = m[i]
         /\ framing # "suffix" =>
              /\ Len(Frame(m)) = HdrLen + Len(m)
              /\ \A i \in 1..HdrLen : Frame(m)[i] = Header(Len(m))[i]
              /\ \A i \in 1..Len(m) : Frame(m)[HdrLen + i] = m[i]
<1>1. /\ m \in Seq(0..(Base - 1)) /\ Suffix \in Seq(0..(Base - 1)) /\ Base \in Nat /\ HdrLen \in Nat
  BY FramingAssumption
<1>2. 0..(Base - 1) \subseteq Nat
  BY <1>1
<1>3. m \in Seq(Nat) /\ Suffix \in Seq(Nat) /\ Len(m) \in Nat
  BY <1>1, <1>2
<1>4. CASE framing = "suffix"
  <2>1. Frame(m) = m \o Suffix
    BY <1>4 DEF Frame
  <2> QED BY <1>1, <1>3, <1>4, <2>1
<1>5. CASE framing # "suffix"
  <2>1. PICK h : h = Header(Len(m))
    OBVIOUS
  <2>2. h \in Seq(0..(Base - 1)) /\ Len(h) = HdrLen /\ Frame(m) = h \o m
    BY <1>3, <1>5, <2>1, HeaderDef DEF Frame
  <2>3. h \in Seq(Nat)
    <3>1. PICK B : B = 0..(Base - 1)
      OBVIOUS
    <3>2. B \subseteq Nat /\ h \in Seq(B)
      BY <1>2, <2>2, <3>1
    <3> QED BY <3>2, SeqWider
  <2>4. PICK n : n = Len(m) /\ n \in Nat
    BY <1>3
  <2>5. PICK f : f = Frame(m) /\ f \in Seq(Nat) /\ Len(f) = HdrLen + n
    BY <1>3, <2>2, <2>3, <2>4, ConcatFacts
  <2>6. \A i \in 1..(HdrLen + n) : f[i] = IF i <= HdrLen THEN h[i] ELSE m[i - HdrLen]
    BY <1>3, <2>2, <2>3, <2>4, <2>5, ConcatFacts
  <2>7. ASSUME NEW i \in 1..HdrLen PROVE f[i] = h[i]
    BY <1>1, <2>4, <2>6
  <2>8. ASSUME NEW i \in 1..n PROVE f[HdrLen + i] = m[i]
    <3>1. PICK j : j = HdrLen + i
      OBVIOUS
    <3>2. j \in 1..(HdrLen + n) /\ ~(j <= HdrLen) /\ j - HdrLen = i
      BY <1>1, <2>4, <3>1
    <3> QED BY <2>6, <3>1, <3>2
  <2> QED BY <1>1, <1>3, <1>5, <2>1, <2>4, <2>5, <2>7, <2>8
<1> QED BY <1>4, <1>5

LEMMA FrameLen ==
  ASSUME NEW m \in Texts PROVE Frame(m) \in Seq(Nat) /\ Len(Frame(m)) \in Nat
<1>1. PICK f : f = Frame(m) /\ f \in Seq(Nat)
  BY FrameDef
<1> QED BY <1>1

\* The first k bytes on their way are the first ones of m's frame.
Begins(m, k) ==
  k <= Len(link) /\ k <= Len(Frame(m)) /\ \A j \in 1..k : link[j] = Frame(m)[j]

\* PREFIX: a whole frame is taken as what was sent, a part of one is not taken.
LEMMA PrefixExact ==
  ASSUME link \in Seq(Nat), framing # "suffix", NEW m \in Texts, Sendable(m), NEW k \in Nat,
         Begins(m, k), NEW lens, NEW drop \in BOOLEAN, PrefixReceive(lens, drop).what = "ok",
         k = Len(Frame(m)) \/ k = Len(link)
  PROVE  /\ k = Len(Frame(m)) /\ PrefixReceive(lens, drop).taken = k
         /\ PrefixReceive(lens, drop).size = Len(m)
         /\ PrefixReceive(lens, drop).data \in Seq(Nat)
         /\ ~drop => PrefixReceive(lens, drop).data = m
<1>0. HdrLen \in Nat /\ Len(m) \in Nat /\ Len(link) \in Nat
  BY FramingAssumption, FrameDef
<1>1. PICK sz : sz = SizeOf(SubSeq(link, 1, HdrLen))
  OBVIOUS
<1>2. PICK r : r = PrefixReceive(lens, drop)
  OBVIOUS
<1>3. /\ ~(Len(link) < HdrLen) /\ ~(Len(link) < HdrLen + sz)
      /\ r = Outcome("ok", HdrLen + sz,
                     IF drop THEN <<>> ELSE SubSeq(link, HdrLen + 1, HdrLen + sz), sz)
  <2>1. \A x : Outcome("wait", 0, <<>>, 0).what # "ok" /\ Outcome("EMSGSIZE", x, <<>>, 0).what # "ok"
    BY DEF Outcome
  <2> QED BY <1>1, <1>2, <2>1 DEF PrefixReceive
<1>4. /\ r.taken = HdrLen + sz /\ r.size = sz
      /\ r.data = IF drop THEN <<>> ELSE SubSeq(link, HdrLen + 1, HdrLen + sz)
  BY <1>3 DEF Outcome
<1>5. /\ Len(Frame(m)) = HdrLen + Len(m)
      /\ \A i \in 1..HdrLen : Frame(m)[i] = Header(Len(m))[i]
      /\ \A i \in 1..Len(m) : Frame(m)[HdrLen + i] = m[i]
  BY FrameDef
<1>6. HdrLen <= k
  BY <1>0, <1>3, <1>5
<1>7. ASSUME NEW i \in 1..HdrLen PROVE SubSeq(link, 1, HdrLen)[i] = Header(Len(m))[i]
  <2>1. SubSeq(link, 1, HdrLen)[i] = link[i]
    BY <1>0, <1>3
  <2>2. link[i] = Frame(m)[i]
    BY <1>0, <1>6 DEF Begins
  <2> QED BY <1>5, <2>1, <2>2
<1>8. sz = Len(m)
  <2>1. Shifted(Len(m))[HdrLen] = 0
    BY DEF Sendable
  <2> QED BY <1>0, <1>1, <1>7, <2>1, SizeRead
<1>9. k = Len(Frame(m)) /\ Len(Frame(m)) <= Len(link)
  <2>1. k <= Len(link) /\ k <= Len(Frame(m))
    BY DEF Begins
  <2>2. ~(Len(link) < HdrLen + Len(m))
    BY <1>3, <1>8
  <2>3. PICK l, n : l = Len(link) /\ n = Len(m)
    OBVIOUS
  <2>4. Len(Frame(m)) = HdrLen + n
    BY <1>5, <2>3
  <2> QED BY <1>0, <2>1, <2>2, <2>3, <2>4
<1>10. SubSeq(link, HdrLen + 1, HdrLen + Len(m)) = m
  <2>1. PICK d : d = SubSeq(link, HdrLen + 1, HdrLen + Len(m))
    OBVIOUS
  <2>2. d \in Seq(Nat) /\ Len(d) = Len(m) /\ \A i \in 1..Len(m) : d[i] = link[HdrLen + i]
    <3>1. HdrLen + Len(m) <= Len(link)
      BY <1>5, <1>9
    <3> QED BY <1>0, <2>1, <3>1
  <2>3. ASSUME NEW i \in 1..Len(m) PROVE d[i] = m[i]
    <3>1. link[HdrLen + i] = Frame(m)[HdrLen + i]
      BY <1>0, <1>5, <1>9 DEF Begins
    <3> QED BY <1>5, <2>2, <3>1
  <2>4. m \in Seq(Nat)
    BY FrameDef
  <2> QED BY <2>1, <2>2, <2>3, <2>4, SeqEqual
<1>11. r.data \in Seq(Nat) /\ (~drop => r.data = m)
  <2>1. m \in Seq(Nat)
    BY FrameDef
  <2>2. CASE drop
    <3>1. r.data = <<>>
      BY <1>4, <2>2
    <3> QED BY <2>2, <3>1
  <2>3. CASE ~drop
    <3>1. r.data = m
      BY <1>4, <1>8, <1>10, <2>3
    <3> QED BY <2>1, <3>1
  <2> QED BY <2>2, <2>3
<1> QED BY <1>2, <1>4, <1>5, <1>8, <1>9, <1>11

\* SUFFIX: the same, up to the length of the first buffer.
LEMMA SuffixExact ==
  ASSUME link \in Seq(Nat), framing = "suffix", NEW m \in Texts, Sendable(m), NEW k \in Nat,
         Begins(m, k), NEW lens \in Buffers, NEW drop \in BOOLEAN,
         SuffixReceive(lens, drop).what = "ok", k = Len(Frame(m)) \/ k = Len(link)
  PROVE  /\ k = Len(Frame(m)) /\ SuffixReceive(lens, drop).taken = k
         /\ SuffixReceive(lens, drop).size = Len(m)
         /\ SuffixReceive(lens, drop).data \in Seq(Nat)
         /\ ~drop => IsPrefix(SuffixReceive(lens, drop).data, m)
<1>0. PICK n, l, c : n = Len(Suffix) /\ l = Len(link) /\ c = Len(m)
  OBVIOUS
<1>1. /\ n \in Nat /\ n > 0 /\ l \in Nat /\ c \in Nat /\ Suffix \in Seq(Nat) /\ m \in Seq(Nat)
      /\ Frame(m) = m \o Suffix /\ Frame(m) \in Seq(Nat) /\ Len(Frame(m)) = c + n
      /\ \A i \in 1..c : Frame(m)[i] = m[i]
  <2>1. PICK B : B = 0..(Base - 1)
    OBVIOUS
  <2>2. B \subseteq Nat /\ Suffix \in Seq(B) /\ Len(Suffix) > 0
    BY <2>1, FramingAssumption
  <2>3. Suffix \in Seq(Nat)
    BY <2>2, SeqWider
  <2>4. n \in Nat /\ n > 0 /\ l \in Nat
    BY <1>0, <2>2, <2>3
  <2> QED BY <1>0, <2>3, <2>4, FrameDef
<1> DEFINE W(i) == SubSeq(link, i + 1, i + Len(Suffix))
           E == {i \in 0..(Len(link) - Len(Suffix)) : W(i) = Suffix}
<1>2. PICK sz : sz = CHOOSE i \in E : \A j \in E : i <= j
  OBVIOUS
<1>3. PICK r : r = SuffixReceive(lens, drop)
  OBVIOUS
<1>4. /\ E # {}
      /\ r = Outcome("ok", sz + n,
                     IF drop THEN <<>>
                     ELSE SubSeq(link, 1, IF sz < lens[1] THEN sz ELSE lens[1]), sz)
  <2>1. \A x : Outcome("wait", 0, <<>>, 0).what # "ok" /\ Outcome("EMSGSIZE", x, <<>>, 0).what # "ok"
    BY DEF Outcome
  <2>2. r = IF ~drop /\ lens[1] = 0 /\ Len(link) >= Len(Suffix) /\ 0 \notin E
            THEN Outcome("EMSGSIZE", Len(Suffix), <<>>, 0)
            ELSE IF E = {} THEN Outcome("wait", 0, <<>>, 0)
            ELSE Outcome("ok", sz + Len(Suffix),
                         IF drop THEN <<>>
                         ELSE SubSeq(link, 1, IF sz < lens[1] THEN sz ELSE lens[1]), sz)
    BY <1>2, <1>3 DEF SuffixReceive
  <2> HIDE DEF E
  <2>3. r.what = "ok"
    BY <1>3
  <2> QED BY <1>0, <2>1, <2>2, <2>3
<1>5. \A i : i \in E <=> i \in 0..(l - n) /\ SubSeq(link, i + 1, i + n) = Suffix
  BY <1>0
<1> HIDE DEF E, W
<1>6. sz \in E /\ \A j \in E : sz <= j
  <2>1. E \subseteq Nat
    BY <1>1, <1>5
  <2>2. \E i \in E : \A j \in E : i <= j
    BY <1>4, <2>1, NatMin
  <2> QED BY <1>2, <2>2
<1>7. sz \in Nat /\ sz + n <= l /\ SubSeq(link, sz + 1, sz + n) = Suffix
  <2>1. sz \in 0..(l - n) /\ SubSeq(link, sz + 1, sz + n) = Suffix
    BY <1>5, <1>6
  <2>2. n \in Nat /\ l \in Nat
    BY <1>1
  <2>3. sz \in Nat /\ sz + n <= l
    BY <2>1, <2>2
  <2> QED BY <2>1, <2>3
<1>8. k <= l /\ k <= c + n /\ (k = c + n \/ k = l) /\ \A j \in 1..k : link[j] = Frame(m)[j]
  BY <1>0, <1>1 DEF Begins
<1>9. ASSUME sz < c PROVE FALSE
  <2>1. sz + n <= k /\ sz \in 0..(c - 1) /\ sz + n <= c + n
    BY <1>1, <1>7, <1>8, <1>9
  <2>2. PICK w, f : w = SubSeq(link, sz + 1, sz + n) /\ f = SubSeq(Frame(m), sz + 1, sz + n)
    OBVIOUS
  <2>3. /\ w \in Seq(Nat) /\ Len(w) = n /\ \A j \in 1..n : w[j] = link[sz + j]
        /\ f \in Seq(Nat) /\ Len(f) = n /\ \A j \in 1..n : f[j] = Frame(m)[sz + j]
    <3>1. link \in Seq(Nat) /\ Frame(m) \in Seq(Nat) /\ sz + n <= Len(link) /\ sz + n <= Len(Frame(m))
      BY <1>0, <1>1, <1>7, <2>1
    <3>2. IsPiece(w, Nat, link, sz, n) /\ IsPiece(f, Nat, Frame(m), sz, n)
      BY <1>1, <1>7, <2>2, <3>1, Piece
    <3> QED BY <3>2 DEF IsPiece
  <2>4. ASSUME NEW j \in 1..n PROVE w[j] = f[j]
    <3>1. sz + j \in 1..k
      BY <1>1, <1>7, <2>1
    <3> QED BY <1>8, <2>3, <3>1
  <2>5. w = f
    BY <2>3, <2>4, SeqEqual
  <2>6. f # Suffix
    <3>1. \A i \in 0..(c - 1) : SubSeq(Frame(m), i + 1, i + n) # Suffix
      BY <1>0, <1>1 DEF Sendable
    <3> QED BY <2>1, <2>2, <3>1
  <2> QED BY <1>7, <2>2, <2>5, <2>6
<1>10. sz >= c /\ k = c + n
  BY <1>1, <1>7, <1>8, <1>9
<1>11. c \in E
  <2>1. PICK w : w = SubSeq(link, c + 1, c + n)
    OBVIOUS
  <2>2. w \in Seq(Nat) /\ Len(w) = n /\ \A j \in 1..n : w[j] = link[c + j]
    <3>1. link \in Seq(Nat) /\ c + n <= Len(link)
      BY <1>0, <1>8, <1>10
    <3>2. IsPiece(w, Nat, link, c, n)
      BY <1>1, <2>1, <3>1, Piece
    <3> QED BY <3>2 DEF IsPiece
  <2>3. ASSUME NEW j \in 1..n PROVE w[j] = Suffix[j]
    <3>1. PICK i : i = c + j
      OBVIOUS
    <3>2. i \in 1..(c + n) /\ ~(i <= c) /\ i - c = j
      BY <1>1, <3>1
    <3>3. link[i] = Frame(m)[i]
      BY <1>8, <1>10, <3>2
    <3>4. \A x \in 1..(c + n) : (m \o Suffix)[x] = IF x <= c THEN m[x] ELSE Suffix[x - c]
      BY <1>0, <1>1, ConcatFacts
    <3>5. Frame(m)[i] = Suffix[j]
      BY <1>1, <3>2, <3>4
    <3> QED BY <2>2, <3>1, <3>3, <3>5
  <2>4. w = Suffix
    BY <1>0, <1>1, <2>2, <2>3, SeqEqual
  <2>5. c \in 0..(l - n)
    BY <1>1, <1>8, <1>10
  <2> QED BY <1>5, <2>1, <2>4, <2>5
<1>12. sz = c
  BY <1>1, <1>6, <1>7, <1>10, <1>11
<1>13. PICK t : t = IF c < lens[1] THEN c ELSE lens[1]
  OBVIOUS
<1>14. t \in 0..c
  <2>1. lens[1] \in Nat
    BY FramingAssumption
  <2> QED BY <1>1, <1>13, <2>1
<1>15. IsPrefix(SubSeq(link, 1, t), m) /\ SubSeq(link, 1, t) \in Seq(Nat)
  <2>1. PICK d, e : d = SubSeq(link, 1, t) /\ e = SubSeq(m, 1, t)
    OBVIOUS
  <2>2. t \in Nat /\ 0 + t <= l /\ 0 + t <= c /\ 0 + 1 = 1 /\ 0 + t = t
    BY <1>1, <1>8, <1>10, <1>14
  <2>3. /\ d \in Seq(Nat) /\ Len(d) = t /\ \A j \in 1..t : d[j] = link[0 + j]
        /\ e \in Seq(Nat) /\ Len(e) = t /\ \A j \in 1..t : e[j] = m[0 + j]
    <3>1. link \in Seq(Nat) /\ m \in Seq(Nat) /\ 0 + t <= Len(link) /\ 0 + t <= Len(m)
      BY <1>0, <1>1, <2>2
    <3>2. d = SubSeq(link, 0 + 1, 0 + t) /\ e = SubSeq(m, 0 + 1, 0 + t)
      BY <2>1, <2>2
    <3>3. IsPiece(d, Nat, link, 0, t) /\ IsPiece(e, Nat, m, 0, t)
      BY <2>2, <3>1, <3>2, Piece
    <3> QED BY <3>3 DEF IsPiece
  <2>4. ASSUME NEW j \in 1..t PROVE d[j] = e[j]
    <3>1. 0 + j = j /\ j \in 1..k /\ j \in 1..c
      BY <1>1, <1>10, <1>14
    <3> QED BY <1>1, <1>8, <2>3, <3>1
  <2>5. d = e
    BY <2>3, <2>4, SeqEqual
  <2>6. SubSeq(d, 1, t) = d
    BY <2>2, <2>3
  <2> QED BY <1>0, <2>1, <2>2, <2>3, <2>5, <2>6 DEF IsPrefix
<1>16. r.taken = c + n /\ r.size = c /\ r.data = IF drop THEN <<>> ELSE SubSeq(link, 1, t)
  BY <1>4, <1>12, <1>13 DEF Outcome
<1>17. r.data \in Seq(Nat) /\ (~drop => IsPrefix(r.data, m))
  BY <1>15, <1>16
<1> QED BY <1>0, <1>1, <1>3, <1>10, <1>16, <1>17

\* Either way.
LEMMA ReceiveExact ==
  ASSUME link \in Seq(Nat), NEW m \in Texts, Sendable(m), NEW k \in Nat, Begins(m, k),
         NEW lens \in Buffers, NEW drop \in BOOLEAN, Receive(lens, drop).what = "ok",
         k = Len(Frame(m)) \/ k = Len(link)
  PROVE  /\ k = Len(Frame(m)) /\ Receive(lens, drop).taken = k
         /\ Receive(lens, drop).size = Len(m) /\ Receive(lens, drop).data \in Seq(Nat)
         /\ ~drop => IF framing = "suffix" THEN IsPrefix(Receive(lens, drop).data, m)
                     ELSE Receive(lens, drop).data = m
<1>1. CASE framing = "suffix"
  <2>1. Receive(lens, drop) = SuffixReceive(lens, drop)
    BY <1>1 DEF Receive
  <2> QED BY <1>1, <2>1, SuffixExact
<1>2. CASE framing # "suffix"
  <2>1. Receive(lens, drop) = PrefixReceive(lens, drop)
    BY <1>2 DEF Receive
  <2> QED BY <1>2, <2>1, PrefixExact
<1> QED BY <1>1, <1>2

\* A receive that is refused has taken no more than was there.
LEMMA RefusedTaken ==
  ASSUME link \in Seq(Nat), NEW lens, NEW drop \in BOOLEAN,
         Receive(lens, drop).what \notin {"ok", "wait"}
  PROVE  Receive(lens, drop).taken \in Nat /\ Receive(lens, drop).taken <= Len(link)
<1>0. PICK e : e = Receive(lens, drop)
  OBVIOUS
<1>1. /\ \A x, y, z : Outcome("ok", x, y, z).what = "ok" /\ Outcome("wait", x, y, z).what = "wait"
      /\ \A w, x, y, z : Outcome(w, x, y, z).taken = x
  BY DEF Outcome
<1>2. Len(Suffix) \in Nat /\ HdrLen \in Nat /\ Len(link) \in Nat
  BY FramingAssumption
<1>3. CASE framing = "suffix"
  <2>1. e = SuffixReceive(lens, drop)
    BY <1>0, <1>3 DEF Receive
  <2>2. Len(link) >= Len(Suffix) /\ e = Outcome("EMSGSIZE", Len(Suffix), <<>>, 0)
    <3> DEFINE E == {i \in 0..(Len(link) - Len(Suffix)) :
                       SubSeq(link, i + 1, i + Len(Suffix)) = Suffix}
               sz == CHOOSE i \in E : \A j \in E : i <= j
    <3>1. e = IF ~drop /\ lens[1] = 0 /\ Len(link) >= Len(Suffix) /\ 0 \notin E
              THEN Outcome("EMSGSIZE", Len(Suffix), <<>>, 0)
              ELSE IF E = {} THEN Outcome("wait", 0, <<>>, 0)
              ELSE Outcome("ok", sz + Len(Suffix),
                           IF drop THEN <<>>
                           ELSE SubSeq(link, 1, IF sz < lens[1] THEN sz ELSE lens[1]), sz)
      BY <2>1 DEF SuffixReceive
    <3> HIDE DEF E, sz
    <3>2. e.what # "ok" /\ e.what # "wait"
      BY <1>0
    <3> QED BY <1>1, <3>1, <3>2
  <2> QED BY <1>0, <1>1, <1>2, <2>2
<1>4. CASE framing # "suffix"
  <2>1. e = PrefixReceive(lens, drop)
    BY <1>0, <1>4 DEF Receive
  <2>2. ~(Len(link) < HdrLen) /\ e = Outcome("EMSGSIZE", HdrLen, <<>>, 0)
    BY <1>0, <1>1, <2>1 DEF PrefixReceive
  <2> QED BY <1>0, <1>1, <1>2, <2>2
<1> QED BY <1>3, <1>4

\* From an empty link nothing is received.
LEMMA ReceiveNothing ==
  ASSUME link = <<>>, NEW lens, NEW drop \in BOOLEAN PROVE Receive(lens, drop).what # "ok"
<1>1. Len(link) = 0
  OBVIOUS
<1>2. Outcome("wait", 0, <<>>, 0).what # "ok"
  BY DEF Outcome
<1>3. CASE framing = "suffix"
  <2> DEFINE E == {i \in 0..(Len(link) - Len(Suffix)) :
                     SubSeq(link, i + 1, i + Len(Suffix)) = Suffix}
  <2>1. Len(Suffix) \in Nat /\ Len(Suffix) > 0
    BY FramingAssumption
  <2>2. E = {} /\ ~(Len(link) >= Len(Suffix))
    BY <1>1, <2>1
  <2>3. SuffixReceive(lens, drop) = Outcome("wait", 0, <<>>, 0)
    BY <2>2 DEF SuffixReceive
  <2> QED BY <1>2, <1>3, <2>3 DEF Receive
<1>4. CASE framing # "suffix"
  <2>1. Len(link) < HdrLen
    BY <1>1, FramingAssumption
  <2>2. PrefixReceive(lens, drop) = Outcome("wait", 0, <<>>, 0)
    BY <2>1 DEF PrefixReceive
  <2> QED BY <1>2, <1>4, <2>2 DEF Receive
<1> QED BY <1>3, <1>4

-----------------------------------------------------------------------------
\* The frame of a message, as a function of the framing; so for what is allowed.
Bytes(fr, m) ==
  IF fr = "suffix" THEN m \o Suffix
  ELSE [i \in 1..HdrLen |->
          Shifted(Len(m))[IF fr = "prefix big" THEN HdrLen - i ELSE i - 1] % Base] \o m
Allowed(fr, m) ==
  IF fr = "suffix"
  THEN \A i \in 0..(Len(m) - 1) : SubSeq(m \o Suffix, i + 1, i + Len(Suffix)) # Suffix
  ELSE Shifted(Len(m))[HdrLen] = 0
Reported(fr, e, m) ==
  /\ e.size = Len(m)
  /\ ~e.drop => IF fr = "suffix" THEN IsPrefix(e.data, m) ELSE e.data = m

LEMMA FrameBytes == \A m : Frame(m) = Bytes(framing, m) /\ (Sendable(m) <=> Allowed(framing, m))
BY DEF Frame, Header, Bytes, Sendable, Allowed

LEMMA BytesLen ==
  ASSUME NEW m \in Texts PROVE Bytes(framing, m) \in Seq(Nat) /\ Len(Bytes(framing, m)) \in Nat
<1>1. Bytes(framing, m) = Frame(m)
  BY FrameBytes
<1> QED BY <1>1, FrameLen

(***************************************************************************)
(* The bytes on their way. l is the link, t the messages sent, r of which  *)
(* have been received; message i starts after pos[i] bytes.                *)
(***************************************************************************)
Lined(fr, l, t, r, pos) ==
  /\ pos \in [(r + 1)..(Len(t) + 1) -> Nat] /\ pos[r + 1] = 0
  /\ \A i \in (r + 1)..Len(t) :
       /\ pos[i + 1] = pos[i] + Len(Bytes(fr, t[i]))
       /\ \A j \in 1..Len(Bytes(fr, t[i])) : l[pos[i] + j] = Bytes(fr, t[i])[j]
  /\ \A i, j \in (r + 1)..(Len(t) + 1) : i <= j => pos[i] <= pos[j]
  /\ pos[Len(t) + 1] <= Len(l)

\* What follows the messages: the part of one whose send failed, or plain bytes.
Followed(fr, l, p, out, plain) ==
  /\ out = "open" => Len(l) = p
  /\ out = "err" => \E m \in Texts :
       /\ Allowed(fr, m) /\ Len(l) - p < Len(Bytes(fr, m))
       /\ \A j \in 1..(Len(l) - p) : l[p + j] = Bytes(fr, m)[j]
  /\ out = "off" => Len(l) = p + plain /\ \A j \in 1..plain : l[p + j] = Base + j

\* Both.
OnItsWay(fr, l, t, r, out, plain) ==
  \E pos : Lined(fr, l, t, r, pos) /\ Followed(fr, l, pos[Len(t) + 1], out, plain)

\* The k bytes of m's frame are the first ones of l.
Leads(fr, l, m, k) == k \in Nat /\ k <= Len(l) /\ \A j \in 1..k : l[j] = Bytes(fr, m)[j]

\* More bytes do not move the messages.
LEMMA LinedLonger ==
  ASSUME NEW l \in Seq(Nat), NEW x \in Seq(Nat), NEW t \in Seq(Texts), NEW r \in Nat, r <= Len(t),
         NEW pos, Lined(framing, l, t, r, pos)
  PROVE  Lined(framing, l \o x, t, r, pos)
<1>1. PICK n, g, y : n = Len(t) /\ g = Len(l) /\ y = l \o x
  OBVIOUS
<1>2. n \in Nat /\ g \in Nat /\ y \in Seq(Nat) /\ Len(y) >= g /\ \A i \in 1..g : y[i] = l[i]
  BY <1>1, ConcatFacts
<1>3. /\ pos \in [(r + 1)..(n + 1) -> Nat] /\ pos[r + 1] = 0
      /\ \A i, j \in (r + 1)..(n + 1) : i <= j => pos[i] <= pos[j]
      /\ pos[n + 1] <= g
      /\ \A i \in (r + 1)..n :
           /\ pos[i + 1] = pos[i] + Len(Bytes(framing, t[i]))
           /\ \A j \in 1..Len(Bytes(framing, t[i])) : l[pos[i] + j] = Bytes(framing, t[i])[j]
  BY <1>1 DEF Lined
<1>4. ASSUME NEW i \in (r + 1)..n, NEW j \in 1..Len(Bytes(framing, t[i]))
      PROVE  y[pos[i] + j] = Bytes(framing, t[i])[j]
  <2>1. PICK k : k = Len(Bytes(framing, t[i])) /\ k \in Nat
    <3>1. t[i] \in Texts
      BY <1>1, <1>2
    <3> QED BY <3>1, BytesLen
  <2>2. /\ i \in (r + 1)..(n + 1) /\ i + 1 \in (r + 1)..(n + 1) /\ n + 1 \in (r + 1)..(n + 1)
        /\ i + 1 <= n + 1
    BY <1>2
  <2>3. pos[i] \in Nat /\ pos[i + 1] \in Nat /\ pos[i + 1] = pos[i] + k /\ pos[i + 1] <= pos[n + 1]
        /\ pos[n + 1] \in Nat
    BY <1>3, <2>1, <2>2
  <2>4. pos[i] + j \in 1..g
    <3>1. j \in 1..k /\ pos[n + 1] <= g
      BY <1>3, <2>1
    <3>2. PICK a, b, c : a = pos[i] /\ b = pos[i + 1] /\ c = pos[n + 1]
      OBVIOUS
    <3>3. a \in Nat /\ b \in Nat /\ c \in Nat /\ b = a + k /\ b <= c /\ c <= g
      BY <2>3, <3>1, <3>2
    <3>4. a + j \in 1..g
      BY <1>2, <2>1, <3>1, <3>3
    <3> QED BY <3>2, <3>4
  <2> QED BY <1>2, <1>3, <2>4
<1>5. pos[n + 1] \in Nat
  <2>1. n + 1 \in (r + 1)..(n + 1)
    BY <1>1, <1>2
  <2> QED BY <1>3, <2>1
<1>6. pos[n + 1] <= Len(y)
  BY <1>2, <1>3, <1>5
<1> QED BY <1>1, <1>3, <1>4, <1>6 DEF Lined

\* A message is sent: it starts where the link ended.
LEMMA LinedSend ==
  ASSUME NEW l \in Seq(Nat), NEW t \in Seq(Texts), NEW r \in Nat, r <= Len(t),
         NEW pos, Lined(framing, l, t, r, pos), Len(l) = pos[Len(t) + 1], NEW m \in Texts
  PROVE  \E p : /\ Lined(framing, l \o Bytes(framing, m), Append(t, m), r, p)
                /\ p[Len(Append(t, m)) + 1] = Len(l \o Bytes(framing, m))
<1>1. PICK n, g, f, y, u : n = Len(t) /\ g = Len(l) /\ f = Bytes(framing, m) /\ y = l \o f /\ u = Append(t, m)
  OBVIOUS
<1>2. PICK k : k = Len(f) /\ f \in Seq(Nat) /\ k \in Nat
  BY <1>1, BytesLen
<1>3. /\ n \in Nat /\ g \in Nat /\ y \in Seq(Nat) /\ Len(y) = g + k
      /\ \A i \in 1..(g + k) : y[i] = IF i <= g THEN l[i] ELSE f[i - g]
  <2>1. n \in Nat
    BY <1>1
  <2>2. y = l \o f /\ g = Len(l)
    BY <1>1
  <2>3. /\ y \in Seq(Nat) /\ Len(y) = Len(l) + Len(f) /\ Len(l) \in Nat
        /\ \A i \in 1..(Len(l) + Len(f)) : y[i] = IF i <= Len(l) THEN l[i] ELSE f[i - Len(l)]
    BY <1>2, <2>2, ConcatFacts
  <2> QED BY <1>2, <2>1, <2>2, <2>3
<1>4. u \in Seq(Texts) /\ Len(u) = n + 1 /\ u[n + 1] = m /\ \A i \in 1..n : u[i] = t[i]
  BY <1>1, <1>3
<1>5. Lined(framing, y, t, r, pos)
  BY <1>1, <1>2, LinedLonger
<1>6. /\ pos \in [(r + 1)..(n + 1) -> Nat] /\ pos[r + 1] = 0 /\ pos[n + 1] = g
      /\ \A i, j \in (r + 1)..(n + 1) : i <= j => pos[i] <= pos[j]
      /\ \A i \in (r + 1)..n :
           /\ pos[i + 1] = pos[i] + Len(Bytes(framing, t[i]))
           /\ \A j \in 1..Len(Bytes(framing, t[i])) : y[pos[i] + j] = Bytes(framing, t[i])[j]
  BY <1>1, <1>5 DEF Lined
<1> DEFINE p == [i \in (r + 1)..(n + 2) |-> IF i = n + 2 THEN g + k ELSE pos[i]]
<1>7. ASSUME NEW i \in (r + 1)..(n + 2)
      PROVE  (IF i = n + 2 THEN g + k ELSE pos[i]) \in Nat
  <2>1. CASE i = n + 2
    BY <1>2, <1>3, <2>1
  <2>2. CASE i # n + 2
    <3>1. i \in (r + 1)..(n + 1)
      BY <1>3, <2>2
    <3> QED BY <1>6, <2>2, <3>1
  <2> QED BY <2>1, <2>2
<1>8. /\ p \in [(r + 1)..(n + 2) -> Nat]
      /\ \A i \in (r + 1)..(n + 2) : p[i] = IF i = n + 2 THEN g + k ELSE pos[i]
  BY <1>7
<1> HIDE DEF p
<1>9. p[n + 2] = g + k /\ \A i \in (r + 1)..(n + 1) : p[i] = pos[i]
  <2>1. n + 2 \in (r + 1)..(n + 2) /\ \A i \in (r + 1)..(n + 1) : i \in (r + 1)..(n + 2) /\ i # n + 2
    BY <1>1, <1>3
  <2> QED BY <1>8, <2>1
<1>10. r + 1 \in (r + 1)..(n + 1) /\ n + 1 \in (r + 1)..(n + 1) /\ (n + 1) + 1 = n + 2
  BY <1>1, <1>3
<1>11. ASSUME NEW i \in (r + 1)..(n + 1)
       PROVE  /\ p[i + 1] = p[i] + Len(Bytes(framing, u[i]))
              /\ \A j \in 1..Len(Bytes(framing, u[i])) : y[p[i] + j] = Bytes(framing, u[i])[j]
  <2>1. CASE i = n + 1
    <3>1. p[i] = g /\ p[i + 1] = g + k /\ u[i] = m /\ Bytes(framing, u[i]) = f
      BY <1>1, <1>4, <1>6, <1>9, <1>10, <2>1
    <3>2. ASSUME NEW j \in 1..k PROVE y[g + j] = f[j]
      <4>1. PICK a : a = g + j
        OBVIOUS
      <4>2. a \in 1..(g + k) /\ ~(a <= g) /\ a - g = j
        BY <1>2, <1>3, <4>1
      <4> QED BY <1>3, <4>1, <4>2
    <3> QED BY <1>2, <3>1, <3>2
  <2>2. CASE i # n + 1
    <3>1. i \in (r + 1)..n /\ i + 1 \in (r + 1)..(n + 1) /\ i \in 1..n
      <4>1. n \in Nat
        BY <1>3
      <4> QED BY <2>2, <4>1
    <3>2. p[i] = pos[i] /\ p[i + 1] = pos[i + 1] /\ u[i] = t[i]
      BY <1>4, <1>9, <3>1
    <3> QED BY <1>6, <3>1, <3>2
  <2> QED BY <2>1, <2>2
<1>12. ASSUME NEW i \in (r + 1)..(n + 2), NEW j \in (r + 1)..(n + 2), i <= j
       PROVE  p[i] <= p[j]
  <2>1. CASE j # n + 2
    <3>1. i \in (r + 1)..(n + 1) /\ j \in (r + 1)..(n + 1)
      BY <1>3, <1>12, <2>1
    <3> QED BY <1>6, <1>9, <1>12, <3>1
  <2>2. CASE j = n + 2 /\ i # n + 2
    <3>1. i \in (r + 1)..(n + 1) /\ i <= n + 1
      BY <1>3, <2>2
    <3>2. p[i] = pos[i] /\ pos[i] <= g /\ pos[i] \in Nat
      BY <1>6, <1>9, <1>10, <3>1
    <3> QED BY <1>2, <1>3, <1>9, <2>2, <3>2
  <2>3. CASE i = n + 2 /\ j = n + 2
    BY <1>2, <1>3, <1>9, <2>3
  <2> QED BY <2>1, <2>2, <2>3
<1>13. Lined(framing, y, u, r, p)
  <2>1. Len(u) + 1 = n + 2 /\ p[Len(u) + 1] <= Len(y) /\ p[r + 1] = 0
    <3>1. Len(u) + 1 = n + 2
      BY <1>4, <1>10
    <3>2. p[n + 2] <= Len(y)
      BY <1>2, <1>3, <1>9
    <3>3. p[r + 1] = 0
      BY <1>6, <1>9, <1>10
    <3> QED BY <3>1, <3>2, <3>3
  <2> QED BY <1>4, <1>8, <1>11, <1>12, <2>1 DEF Lined
<1>14. p[Len(u) + 1] = Len(y)
  BY <1>3, <1>4, <1>9, <1>10
<1> QED BY <1>1, <1>13, <1>14

\* What is left of the link when k bytes have been taken.
LEMMA RestDef ==
  ASSUME NEW l \in Seq(Nat), NEW k \in Nat, k <= Len(l)
  PROVE  /\ Rest(l, k) \in Seq(Nat) /\ Len(Rest(l, k)) = Len(l) - k
         /\ \A j \in 1..(Len(l) - k) : Rest(l, k)[j] = l[k + j]
<1>1. PICK n : n = Len(l) - k
  OBVIOUS
<1>2. n \in Nat /\ k + n = Len(l) /\ k + n <= Len(l)
  BY <1>1
<1>3. IsPiece(SubSeq(l, k + 1, k + n), Nat, l, k, n)
  BY <1>2, Piece
<1>4. Rest(l, k) = SubSeq(l, k + 1, k + n)
  BY <1>2 DEF Rest
<1> QED BY <1>1, <1>3, <1>4 DEF IsPiece

\* The first message starts at the beginning of the link. Without its frame the
\* link holds the others, and what follows them.
LEMMA LinedTake ==
  ASSUME NEW l \in Seq(Nat), NEW t \in Seq(Texts), NEW r \in Nat, r < Len(t),
         NEW pos, Lined(framing, l, t, r, pos), NEW out, NEW plain \in Nat,
         Followed(framing, l, pos[Len(t) + 1], out, plain), NEW k, k = Len(Bytes(framing, t[r + 1]))
  PROVE  /\ Leads(framing, l, t[r + 1], k)
         /\ OnItsWay(framing, Rest(l, k), t, r + 1, out, plain)
<1>1. PICK n, g, y, z : n = Len(t) /\ g = Len(l) /\ y = Rest(l, k) /\ z = pos[n + 1]
  OBVIOUS
<1>2. n \in Nat /\ g \in Nat /\ r < n
  BY <1>1
<1>3. k \in Nat
  <2>1. t[r + 1] \in Texts
    BY <1>1, <1>2
  <2> QED BY <2>1, BytesLen
<1>4. /\ pos \in [(r + 1)..(n + 1) -> Nat] /\ pos[r + 1] = 0 /\ z <= g
      /\ \A i, j \in (r + 1)..(n + 1) : i <= j => pos[i] <= pos[j]
      /\ \A i \in (r + 1)..n :
           /\ pos[i + 1] = pos[i] + Len(Bytes(framing, t[i]))
           /\ \A j \in 1..Len(Bytes(framing, t[i])) : l[pos[i] + j] = Bytes(framing, t[i])[j]
  BY <1>1 DEF Lined
<1>5. /\ r + 1 \in (r + 1)..n /\ (r + 1) + 1 = r + 2 /\ r + 2 \in (r + 1)..(n + 1)
      /\ n + 1 \in (r + 1)..(n + 1)
      /\ \A i \in (r + 2)..(n + 1) : i \in (r + 1)..(n + 1) /\ r + 2 <= i
      /\ n + 1 \in (r + 2)..(n + 1) /\ r + 2 \in (r + 2)..(n + 1)
  BY <1>2
<1>6. pos[r + 2] = k
  <2>1. pos[r + 2] = pos[r + 1] + k
    BY <1>4, <1>5
  <2> QED BY <1>3, <1>4, <2>1
<1>7. \A i \in (r + 2)..(n + 1) : pos[i] \in Nat /\ k <= pos[i]
  BY <1>4, <1>5, <1>6
<1>8. z \in Nat /\ k <= z /\ k <= g
  <2>1. z \in Nat /\ k <= z
    BY <1>1, <1>5, <1>7
  <2> QED BY <1>2, <1>3, <1>4, <2>1
<1>9. ASSUME NEW j \in 1..k PROVE l[j] = Bytes(framing, t[r + 1])[j]
  <2>1. pos[r + 1] + j = j
    BY <1>3, <1>4
  <2> QED BY <1>4, <1>5, <2>1
<1>10. y \in Seq(Nat) /\ Len(y) = g - k /\ \A j \in 1..(g - k) : y[j] = l[k + j]
  BY <1>1, <1>3, <1>8, RestDef
<1> DEFINE p == [i \in (r + 2)..(n + 1) |-> pos[i] - k]
<1>11. /\ p \in [(r + 2)..(n + 1) -> Nat] /\ \A i \in (r + 2)..(n + 1) : p[i] = pos[i] - k
  <2>1. ASSUME NEW i \in (r + 2)..(n + 1) PROVE pos[i] - k \in Nat
    <3>1. PICK a : a = pos[i] /\ a \in Nat /\ k <= a
      BY <1>7
    <3>2. a - k \in Nat
      BY <1>3, <3>1
    <3> QED BY <3>1, <3>2
  <2> QED BY <2>1
<1> HIDE DEF p
<1>12. p[r + 2] = 0 /\ p[n + 1] = z - k
  <2>1. p[r + 2] = k - k /\ p[n + 1] = z - k
    BY <1>1, <1>5, <1>6, <1>11
  <2> QED BY <1>3, <2>1
<1>13. ASSUME NEW i \in (r + 2)..n
       PROVE  /\ p[i + 1] = p[i] + Len(Bytes(framing, t[i]))
              /\ \A j \in 1..Len(Bytes(framing, t[i])) : y[p[i] + j] = Bytes(framing, t[i])[j]
  <2>1. /\ i \in (r + 2)..(n + 1) /\ i + 1 \in (r + 2)..(n + 1) /\ i \in (r + 1)..n
        /\ i + 1 \in (r + 1)..(n + 1) /\ i + 1 <= n + 1
    BY <1>2
  <2>2. PICK a, b, h : a = pos[i] /\ b = pos[i + 1] /\ h = Len(Bytes(framing, t[i]))
    OBVIOUS
  <2>3. h \in Nat
    <3>1. t[i] \in Texts
      BY <1>1, <1>2, <2>1
    <3> QED BY <2>2, <3>1, BytesLen
  <2>4. a \in Nat /\ b \in Nat /\ k <= a /\ b = a + h /\ b <= z
    BY <1>1, <1>4, <1>5, <1>7, <2>1, <2>2
  <2>5. p[i] = a - k /\ p[i + 1] = b - k
    BY <1>11, <2>1, <2>2
  <2>6. p[i + 1] = p[i] + h
    BY <1>3, <2>3, <2>4, <2>5
  <2>7. ASSUME NEW j \in 1..h PROVE y[p[i] + j] = Bytes(framing, t[i])[j]
    <3>1. PICK e : e = (a - k) + j
      OBVIOUS
    <3>2. z <= g
      BY <1>4
    <3>3. e \in 1..(g - k) /\ k + e = a + j
      BY <1>2, <1>3, <1>8, <2>3, <2>4, <3>1, <3>2
    <3>4. y[e] = l[a + j]
      BY <1>10, <3>3
    <3>5. l[a + j] = Bytes(framing, t[i])[j]
      BY <1>4, <2>1, <2>2
    <3> QED BY <2>5, <3>1, <3>4, <3>5
  <2> QED BY <2>2, <2>6, <2>7
<1>14. ASSUME NEW i \in (r + 2)..(n + 1), NEW j \in (r + 2)..(n + 1), i <= j
       PROVE  p[i] <= p[j]
  <2>1. PICK a, b : a = pos[i] /\ b = pos[j]
    OBVIOUS
  <2>2. a \in Nat /\ b \in Nat /\ a <= b /\ p[i] = a - k /\ p[j] = b - k
    BY <1>4, <1>5, <1>7, <1>11, <1>14, <2>1
  <2> QED BY <1>3, <2>2
<1>15. Lined(framing, y, t, r + 1, p)
  <2>1. p[n + 1] <= Len(y)
    <3>1. z - k <= g - k
      BY <1>2, <1>3, <1>4, <1>8
    <3> QED BY <1>10, <1>12, <3>1
  <2>2. r + 2 = (r + 1) + 1
    OBVIOUS
  <2>3. /\ p \in [((r + 1) + 1)..(n + 1) -> Nat] /\ p[(r + 1) + 1] = 0
        /\ \A i \in ((r + 1) + 1)..n :
              /\ p[i + 1] = p[i] + Len(Bytes(framing, t[i]))
              /\ \A j \in 1..Len(Bytes(framing, t[i])) : y[p[i] + j] = Bytes(framing, t[i])[j]
        /\ \A i, j \in ((r + 1) + 1)..(n + 1) : i <= j => p[i] <= p[j]
    BY <1>11, <1>12, <1>13, <1>14, <2>2
  <2> QED BY <1>1, <2>1, <2>3 DEF Lined
<1>16. Followed(framing, y, z - k, out, plain)
  <2>1. Followed(framing, l, z, out, plain)
    BY <1>1
  <2>2. Len(y) - (z - k) = g - z
    BY <1>2, <1>3, <1>8, <1>10
  <2>3. ASSUME NEW j \in 1..(g - z) PROVE y[(z - k) + j] = l[z + j]
    <3>1. PICK e : e = (z - k) + j
      OBVIOUS
    <3>2. e \in 1..(g - k) /\ k + e = z + j
      BY <1>2, <1>3, <1>8, <3>1
    <3> QED BY <1>10, <3>1, <3>2
  <2>4. CASE out = "open"
    <3>1. g = z
      BY <1>1, <2>1, <2>4 DEF Followed
    <3> QED BY <1>10, <2>4, <3>1 DEF Followed
  <2>5. CASE out = "err"
    <3>1. PICK m \in Texts : /\ Allowed(framing, m) /\ g - z < Len(Bytes(framing, m))
                             /\ \A j \in 1..(g - z) : l[z + j] = Bytes(framing, m)[j]
      BY <1>1, <2>1, <2>5 DEF Followed
    <3>2. /\ Len(y) - (z - k) < Len(Bytes(framing, m))
          /\ \A j \in 1..(Len(y) - (z - k)) : y[(z - k) + j] = Bytes(framing, m)[j]
      BY <2>2, <2>3, <3>1
    <3> QED BY <2>5, <3>1, <3>2 DEF Followed
  <2>6. CASE out = "off"
    <3>1. g = z + plain /\ \A j \in 1..plain : l[z + j] = Base + j
      BY <1>1, <2>1, <2>6 DEF Followed
    <3>2. Len(y) = (z - k) + plain /\ g - z = plain
      BY <1>2, <1>3, <1>8, <1>10, <3>1
    <3>3. \A j \in 1..plain : y[(z - k) + j] = Base + j
      BY <2>3, <3>1, <3>2
    <3> QED BY <2>6, <3>2, <3>3 DEF Followed
  <2> QED BY <2>4, <2>5, <2>6 DEF Followed
<1>17. OnItsWay(framing, y, t, r + 1, out, plain)
  BY <1>1, <1>12, <1>15, <1>16 DEF OnItsWay
<1>18. Leads(framing, l, t[r + 1], k)
  BY <1>1, <1>3, <1>8, <1>9 DEF Leads
<1> QED BY <1>1, <1>17, <1>18


-----------------------------------------------------------------------------
Receipts == [data : Seq(Nat), size : Nat, drop : BOOLEAN, room : {Room(b) : b \in Buffers}]
Sides == {"open", "err", "off"}
Receivers == Sides \cup {"crashed"}

FramingTypes ==
  /\ framing \in {"prefix big", "prefix little", "suffix"} /\ link \in Seq(Nat)
  /\ outend \in Sides /\ inend \in Receivers
  /\ texts \in Seq(Texts) /\ \A i \in 1..Len(texts) : Allowed(framing, texts[i])
  /\ received \in Seq(Receipts) /\ plainOut \in Nat /\ plainIn \in Seq(Nat)

\* The messages received are the first ones of those sent.
AllReported ==
  Len(received) <= Len(texts) /\ \A i \in 1..Len(received) : Reported(framing, received[i], texts[i])

\* While the receiver takes messages, the others are on their way, and what the
\* sender did last; when it has detached, the plain bytes are.
Ahead == OnItsWay(framing, link, texts, Len(received), outend, plainOut)
PlainAhead ==
  /\ Len(received) = Len(texts) /\ Len(link) + Len(plainIn) = plainOut
  /\ \A j \in 1..Len(link) : link[j] = Base + (Len(plainIn) + j)
Underway ==
  /\ outend = "open" => plainOut = 0
  /\ inend = "open" => plainIn = <<>> /\ Ahead
  /\ inend = "off" => outend = "off" /\ PlainAhead
  /\ \A i \in 1..Len(plainIn) : plainIn[i] = Base + i

FramingInv == FramingTypes /\ AllReported /\ Underway

LEMMA FramingInitInv ==
  ASSUME FramingInit PROVE FramingInv
<1>0. /\ link = <<>> /\ outend = "open" /\ inend = "open" /\ texts = <<>> /\ received = <<>>
      /\ plainOut = 0 /\ plainIn = <<>> /\ framing \in {"prefix big", "prefix little", "suffix"}
  BY DEF FramingInit
<1>1. FramingTypes
  <2>1. \A X : <<>> \in Seq(X)
    OBVIOUS
  <2>2. received \in Seq(Receipts) /\ texts \in Seq(Texts) /\ link \in Seq(Nat) /\ plainIn \in Seq(Nat)
    BY <1>0, <2>1, Zenon
  <2>3. Len(texts) = 0 /\ plainOut \in Nat
    BY <1>0
  <2>4. outend \in Sides /\ inend \in Receivers
    BY <1>0 DEF Sides, Receivers
  <2>5. \A i \in 1..Len(texts) : Allowed(framing, texts[i])
    BY <2>3
  <2> QED BY <1>0, <2>2, <2>3, <2>4, <2>5 DEF FramingTypes
<1>2. AllReported
  <2>1. Len(texts) = 0 /\ Len(received) = 0
    BY <1>0
  <2> QED BY <2>1 DEF AllReported
<1>3. Ahead
  <2>1. Len(texts) = 0 /\ Len(received) = 0 /\ Len(link) = 0 /\ outend = "open"
    BY <1>0
  <2>2. PICK pos : pos = [i \in 1..1 |-> 0]
    OBVIOUS
  <2>3. pos \in [1..1 -> Nat] /\ pos[1] = 0 /\ \A i, j \in 1..1 : pos[i] <= pos[j]
    BY <2>2
  <2>4. 0 + 1 = 1 /\ \A i \in 1..0 : FALSE
    OBVIOUS
  <2>5. Lined(framing, link, texts, 0, pos)
    BY <2>1, <2>3, <2>4 DEF Lined
  <2>6. Followed(framing, link, 0, outend, plainOut)
    BY <2>1 DEF Followed
  <2> QED BY <2>1, <2>3, <2>4, <2>5, <2>6 DEF Ahead, OnItsWay
<1>4. Underway
  <2>1. Len(plainIn) = 0
    BY <1>0
  <2>2. \A i \in 1..Len(plainIn) : plainIn[i] = Base + i
    BY <2>1
  <2> QED BY <1>0, <1>3, <2>2 DEF Underway
<1> QED BY <1>1, <1>2, <1>4 DEF FramingInv

\* What every step needs of the types.
LEMMA FramingFacts ==
  ASSUME FramingInv
  PROVE  /\ link \in Seq(Nat) /\ texts \in Seq(Texts) /\ received \in Seq(Receipts)
         /\ Len(received) \in Nat /\ Len(texts) \in Nat /\ Len(received) <= Len(texts)
<1>1. /\ link \in Seq(Nat) /\ texts \in Seq(Texts) /\ received \in Seq(Receipts)
      /\ Len(received) <= Len(texts)
  BY DEF FramingInv, FramingTypes, AllReported
<1>2. \A X : \A q \in Seq(X) : Len(q) \in Nat
  OBVIOUS
<1> QED BY <1>1, <1>2, Zenon

LEMMA MSendInv ==
  ASSUME FramingInv, NEW m \in Texts, Sendable(m), MSend(m) PROVE FramingInv'
<1>1. /\ outend = "open" /\ link' = link \o Bytes(framing, m) /\ texts' = Append(texts, m)
      /\ UNCHANGED <<framing, outend, inend, received, plainOut, plainIn>> /\ Allowed(framing, m)
  BY FrameBytes DEF MSend
<1>2. /\ link \in Seq(Nat) /\ texts \in Seq(Texts) /\ received \in Seq(Receipts) /\ Len(received) \in Nat
      /\ Len(received) <= Len(texts) /\ Len(texts) \in Nat
  BY FramingFacts
<1>3. link' \in Seq(Nat)
  <2>1. Bytes(framing, m) \in Seq(Nat)
    BY BytesLen
  <2> QED BY <1>1, <1>2, <2>1, ConcatFacts
<1>4. /\ texts' \in Seq(Texts) /\ Len(texts') = Len(texts) + 1 /\ texts'[Len(texts) + 1] = m
      /\ \A i \in 1..Len(texts) : texts'[i] = texts[i]
  BY <1>1, <1>2
<1>5. \A i \in 1..Len(texts') : Allowed(framing', texts'[i])
  <2>1. \A i \in 1..Len(texts) : Allowed(framing, texts[i])
    BY DEF FramingInv, FramingTypes
  <2>2. \A i \in 1..Len(texts') : i \in 1..Len(texts) \/ i = Len(texts) + 1
    BY <1>2, <1>4
  <2> QED BY <1>1, <1>4, <2>1, <2>2
<1>6. FramingTypes'
  BY <1>1, <1>3, <1>4, <1>5 DEF FramingInv, FramingTypes
<1>7. AllReported'
  <2>1. Len(received') <= Len(texts')
    BY <1>1, <1>2, <1>4
  <2>2. \A i \in 1..Len(received) : Reported(framing, received[i], texts[i])
    BY DEF FramingInv, AllReported
  <2>3. \A i \in 1..Len(received) : i \in 1..Len(texts)
    BY <1>2
  <2>4. \A i \in 1..Len(received') : Reported(framing', received'[i], texts'[i])
    BY <1>1, <1>4, <2>2, <2>3
  <2> QED BY <2>1, <2>4 DEF AllReported
<1>8. ASSUME inend = "open" PROVE Ahead'
  <2>1. PICK pos : /\ Lined(framing, link, texts, Len(received), pos)
                   /\ Followed(framing, link, pos[Len(texts) + 1], outend, plainOut)
    BY <1>8 DEF FramingInv, Underway, Ahead, OnItsWay
  <2>2. Len(link) = pos[Len(texts) + 1]
    BY <1>1, <2>1 DEF Followed
  <2>3. PICK p : /\ Lined(framing, link \o Bytes(framing, m), Append(texts, m), Len(received), p)
                 /\ p[Len(Append(texts, m)) + 1] = Len(link \o Bytes(framing, m))
    BY <1>2, <2>1, <2>2, LinedSend
  <2>4. Lined(framing', link', texts', Len(received'), p) /\ p[Len(texts') + 1] = Len(link')
    BY <1>1, <2>3
  <2>5. Followed(framing', link', p[Len(texts') + 1], outend', plainOut')
    BY <1>1, <2>4 DEF Followed
  <2> QED BY <2>4, <2>5 DEF Ahead, OnItsWay
<1>9. Underway'
  <2>1. Underway
    BY DEF FramingInv
  <2> QED BY <1>1, <1>8, <2>1 DEF Underway
<1> QED BY <1>6, <1>7, <1>9 DEF FramingInv

\* A step that sends and receives no message.
LEMMA QuietInv ==
  ASSUME FramingInv, UNCHANGED <<framing, texts, received>>, link' \in Seq(Nat),
         outend' \in Sides, inend' \in Receivers, plainOut' \in Nat, plainIn' \in Seq(Nat),
         Underway'
  PROVE  FramingInv'
<1>1. FramingTypes /\ AllReported
  BY DEF FramingInv
<1>2. FramingTypes'
  BY <1>1 DEF FramingTypes
<1>3. AllReported'
  BY <1>1 DEF AllReported
<1> QED BY <1>2, <1>3 DEF FramingInv

LEMMA MSendFailsInv ==
  ASSUME FramingInv, NEW m \in Texts, Sendable(m), MSendFails(m) PROVE FramingInv'
<1>1. PICK f : f = Bytes(framing, m) /\ f \in Seq(Nat) /\ Len(f) \in Nat
  BY BytesLen
<1>2. PICK k \in 0..(Len(f) - 1) : link' = link \o SubSeq(f, 1, k)
  BY <1>1, FrameBytes DEF MSendFails
<1>3. /\ outend = "open" /\ outend' = "err"
      /\ UNCHANGED <<framing, inend, texts, received, plainOut, plainIn>> /\ Allowed(framing, m)
  BY FrameBytes DEF MSendFails
<1>4. PICK x : /\ x = SubSeq(f, 1, k) /\ x \in Seq(Nat) /\ Len(x) = k
               /\ \A j \in 1..k : x[j] = f[j]
  <2>1. k \in Nat /\ 0 + k <= Len(f) /\ 0 + 1 = 1 /\ 0 + k = k /\ \A j \in 1..k : 0 + j = j
    BY <1>1, <1>2
  <2>2. IsPiece(SubSeq(f, 0 + 1, 0 + k), Nat, f, 0, k)
    BY <1>1, <2>1, Piece
  <2>3. IsPiece(SubSeq(f, 1, k), Nat, f, 0, k)
    BY <2>1, <2>2
  <2> QED BY <2>1, <2>3 DEF IsPiece
<1>5. link \in Seq(Nat) /\ texts \in Seq(Texts) /\ Len(received) \in Nat /\ Len(received) <= Len(texts)
  BY FramingFacts
<1>6. PICK g, y : /\ g = Len(link) /\ y = link' /\ g \in Nat /\ y \in Seq(Nat) /\ Len(y) = g + k
                  /\ \A i \in 1..(g + k) : y[i] = IF i <= g THEN link[i] ELSE x[i - g]
  <2>1. /\ link \o x \in Seq(Nat) /\ Len(link \o x) = Len(link) + Len(x) /\ Len(link) \in Nat
        /\ \A i \in 1..(Len(link) + Len(x)) :
             (link \o x)[i] = IF i <= Len(link) THEN link[i] ELSE x[i - Len(link)]
    BY <1>4, <1>5, ConcatFacts
  <2>2. link' = link \o x /\ Len(x) = k
    BY <1>2, <1>4
  <2>3. PICK g, y : g = Len(link) /\ y = link \o x
    OBVIOUS
  <2>4. /\ g \in Nat /\ y \in Seq(Nat) /\ Len(y) = g + k
        /\ \A i \in 1..(g + k) : y[i] = IF i <= g THEN link[i] ELSE x[i - g]
    BY <2>1, <2>2, <2>3
  <2> QED BY <2>2, <2>3, <2>4
<1>7. ASSUME inend = "open" PROVE Ahead'
  <2>1. PICK pos : /\ Lined(framing, link, texts, Len(received), pos)
                   /\ Followed(framing, link, pos[Len(texts) + 1], outend, plainOut)
    BY <1>7 DEF FramingInv, Underway, Ahead, OnItsWay
  <2>2. g = pos[Len(texts) + 1]
    BY <1>3, <1>6, <2>1 DEF Followed
  <2>3. Lined(framing, link \o x, texts, Len(received), pos)
    BY <1>4, <1>5, <2>1, LinedLonger
  <2>4. Lined(framing', link', texts', Len(received'), pos)
    BY <1>2, <1>3, <1>4, <2>3
  <2>5. Len(y) - g < Len(f) /\ Len(y) - g = k
    BY <1>1, <1>2, <1>6
  <2>6. ASSUME NEW j \in 1..k PROVE y[g + j] = f[j]
    <3>1. PICK i : i = g + j
      OBVIOUS
    <3>2. i \in 1..(g + k) /\ ~(i <= g) /\ i - g = j
      BY <1>2, <1>6, <3>1
    <3> QED BY <1>4, <1>6, <3>1, <3>2
  <2>7. \E mm \in Texts :
          /\ Allowed(framing, mm) /\ Len(y) - g < Len(Bytes(framing, mm))
          /\ \A j \in 1..(Len(y) - g) : y[g + j] = Bytes(framing, mm)[j]
    BY <1>1, <1>3, <2>5, <2>6
  <2>8. Followed(framing, y, g, "err", plainOut)
    BY <2>7 DEF Followed
  <2>9. Followed(framing', link', pos[Len(texts') + 1], outend', plainOut')
    BY <1>3, <1>6, <2>2, <2>8
  <2> QED BY <2>4, <2>9 DEF Ahead, OnItsWay
<1>8. Underway'
  <2>1. Underway
    BY DEF FramingInv
  <2> QED BY <1>3, <1>7, <2>1 DEF Underway
<1>9. /\ link' \in Seq(Nat) /\ outend' \in Sides /\ inend' \in Receivers /\ plainOut' \in Nat
      /\ plainIn' \in Seq(Nat)
  BY <1>3, <1>6 DEF FramingInv, FramingTypes, Sides, Receivers
<1> QED BY <1>3, <1>8, <1>9, QuietInv

LEMMA MRecvFailsInv ==
  ASSUME FramingInv, NEW lens, MRecvFails(lens) PROVE FramingInv'
<1>1. PICK k \in 0..Len(link) : link' = Rest(link, k)
  BY DEF MRecvFails
<1>2. inend' = "err" /\ UNCHANGED <<framing, outend, texts, received, plainOut, plainIn>>
  BY DEF MRecvFails
<1>3. link \in Seq(Nat) /\ k \in Nat /\ k <= Len(link)
  BY <1>1, FramingFacts
<1>4. link' \in Seq(Nat)
  BY <1>1, <1>3, RestDef
<1>5. Underway'
  BY <1>2 DEF FramingInv, Underway
<1>6. /\ outend' \in Sides /\ inend' \in Receivers /\ plainOut' \in Nat /\ plainIn' \in Seq(Nat)
  BY <1>2 DEF FramingInv, FramingTypes, Sides, Receivers
<1> QED BY <1>2, <1>4, <1>5, <1>6, QuietInv

LEMMA MRecvCrashesInv ==
  ASSUME FramingInv, NEW lens, MRecvCrashes(lens) PROVE FramingInv'
<1>1. /\ inend' = "crashed"
      /\ UNCHANGED <<framing, link, outend, texts, received, plainOut, plainIn>>
  BY DEF MRecvCrashes
<1>2. Underway'
  BY <1>1 DEF FramingInv, Underway
<1>3. /\ link' \in Seq(Nat) /\ outend' \in Sides /\ inend' \in Receivers
      /\ plainOut' \in Nat /\ plainIn' \in Seq(Nat)
  BY <1>1 DEF FramingInv, FramingTypes, Sides, Receivers
<1> QED BY <1>1, <1>2, <1>3, QuietInv

LEMMA DetachOutInv ==
  ASSUME FramingInv, DetachOut PROVE FramingInv'
<1>1. /\ outend = "open" /\ outend' = "off"
      /\ UNCHANGED <<framing, link, inend, texts, received, plainOut, plainIn>>
  BY DEF DetachOut
<1>2. link \in Seq(Nat) /\ Len(link) \in Nat /\ plainOut = 0 /\ Underway
  <2>1. link \in Seq(Nat)
    BY FramingFacts
  <2> QED BY <1>1, <2>1 DEF FramingInv, Underway
<1>3. ASSUME inend = "open" PROVE Ahead'
  <2>1. PICK pos : /\ Lined(framing, link, texts, Len(received), pos)
                   /\ Followed(framing, link, pos[Len(texts) + 1], outend, plainOut)
    BY <1>2, <1>3 DEF Underway, Ahead, OnItsWay
  <2>2. PICK p : p = pos[Len(texts) + 1] /\ p = Len(link)
    BY <1>1, <2>1 DEF Followed
  <2>3. Len(link) = p + plainOut /\ \A j \in 1..plainOut : link[p + j] = Base + j
    BY <1>2, <2>2
  <2>4. Followed(framing, link, p, "off", plainOut)
    BY <2>3 DEF Followed
  <2>5. /\ Lined(framing', link', texts', Len(received'), pos)
        /\ Followed(framing', link', pos[Len(texts') + 1], outend', plainOut')
    BY <1>1, <2>1, <2>2, <2>4
  <2> QED BY <2>5 DEF Ahead, OnItsWay
<1>4. Underway'
  BY <1>1, <1>2, <1>3 DEF Underway
<1>5. /\ link' \in Seq(Nat) /\ outend' \in Sides /\ inend' \in Receivers /\ plainOut' \in Nat
      /\ plainIn' \in Seq(Nat)
  BY <1>1, <1>2 DEF FramingInv, FramingTypes, Sides, Receivers
<1> QED BY <1>1, <1>4, <1>5, QuietInv

\* The receiver detaches after the last message: the plain bytes are next.
LEMMA DetachInInv ==
  ASSUME FramingInv, DetachIn PROVE FramingInv'
<1>1. /\ inend = "open" /\ outend = "off" /\ Len(received) = Len(texts) /\ inend' = "off"
      /\ UNCHANGED <<framing, link, outend, texts, received, plainOut, plainIn>>
  BY DEF DetachIn
<1>2. Underway /\ plainIn = <<>> /\ Ahead
  BY <1>1 DEF FramingInv, Underway
<1>3. PICK pos : /\ Lined(framing, link, texts, Len(received), pos)
                 /\ Followed(framing, link, pos[Len(texts) + 1], outend, plainOut)
  BY <1>2 DEF Ahead, OnItsWay
<1>4. pos[Len(texts) + 1] = 0
  BY <1>1, <1>3 DEF Lined
<1>5. Followed(framing, link, 0, "off", plainOut) /\ plainOut \in Nat
  BY <1>1, <1>3, <1>4 DEF FramingInv, FramingTypes
<1>6. Len(link) = plainOut /\ \A j \in 1..plainOut : link[j] = Base + j
  BY <1>5 DEF Followed
<1>7. PlainAhead
  <2>1. Len(plainIn) = 0 /\ \A j \in 1..plainOut : 0 + j = j
    BY <1>2
  <2>2. Len(link) + 0 = plainOut
    BY <1>5, <1>6
  <2> QED BY <1>1, <1>6, <2>1, <2>2 DEF PlainAhead
<1>8. PlainAhead'
  BY <1>1, <1>7 DEF PlainAhead
<1>9. Underway'
  BY <1>1, <1>2, <1>8 DEF Underway
<1>10. /\ link' \in Seq(Nat) /\ outend' \in Sides /\ inend' \in Receivers /\ plainOut' \in Nat
       /\ plainIn' \in Seq(Nat)
  BY <1>1 DEF FramingInv, FramingTypes, Sides, Receivers
<1> QED BY <1>1, <1>9, <1>10, QuietInv

LEMMA PlainSendInv ==
  ASSUME FramingInv, PlainSend PROVE FramingInv'
<1>1. /\ outend = "off" /\ plainOut' = plainOut + 1 /\ link' = Append(link, Base + plainOut')
      /\ UNCHANGED <<framing, outend, inend, texts, received, plainIn>>
  BY DEF PlainSend
<1>2. /\ link \in Seq(Nat) /\ texts \in Seq(Texts) /\ Len(received) \in Nat
      /\ Len(received) <= Len(texts) /\ Len(link) \in Nat
  BY FramingFacts
<1>3. plainOut \in Nat /\ plainIn \in Seq(Nat) /\ Len(plainIn) \in Nat /\ Base \in Nat /\ Underway
  <2>1. plainIn \in Seq(Nat) /\ plainOut \in Nat /\ Underway
    BY DEF FramingInv, FramingTypes
  <2>2. Base \in Nat
    BY FramingAssumption
  <2>3. Len(plainIn) \in Nat
    BY <2>1
  <2> QED BY <2>1, <2>2, <2>3
<1>4. PICK g, y, b : g = Len(link) /\ y = link' /\ b = Base + (plainOut + 1)
  OBVIOUS
<1>5. /\ g \in Nat /\ b \in Nat /\ y = Append(link, b) /\ y \in Seq(Nat) /\ Len(y) = g + 1
      /\ y[g + 1] = b /\ \A i \in 1..g : y[i] = link[i]
  BY <1>1, <1>2, <1>3, <1>4
<1>6. ASSUME inend = "open" PROVE Ahead'
  <2>1. PICK pos : /\ Lined(framing, link, texts, Len(received), pos)
                   /\ Followed(framing, link, pos[Len(texts) + 1], "off", plainOut)
    BY <1>1, <1>3, <1>6 DEF Underway, Ahead, OnItsWay
  <2>2. PICK p : p = pos[Len(texts) + 1]
    OBVIOUS
  <2>3. p \in Nat
    <3>1. Len(texts) + 1 \in (Len(received) + 1)..(Len(texts) + 1)
      BY <1>2
    <3> QED BY <2>1, <2>2, <3>1 DEF Lined
  <2>4. g = p + plainOut /\ \A j \in 1..plainOut : link[p + j] = Base + j
    BY <1>4, <2>1, <2>2 DEF Followed
  <2>5. <<b>> \in Seq(Nat) /\ link \o <<b>> = y
    BY <1>2, <1>5
  <2>6. Lined(framing, y, texts, Len(received), pos)
    <3>1. Lined(framing, link \o <<b>>, texts, Len(received), pos)
      BY <1>2, <2>1, <2>5, LinedLonger
    <3> QED BY <2>5, <3>1
  <2>7. ASSUME NEW j \in 1..(plainOut + 1) PROVE y[p + j] = Base + j
    <3>1. CASE j = plainOut + 1
      <4>1. p + j = g + 1
        BY <1>3, <2>3, <2>4, <3>1
      <4> QED BY <1>4, <1>5, <3>1, <4>1
    <3>2. CASE j # plainOut + 1
      <4>1. j \in 1..plainOut /\ p + j \in 1..g
        BY <1>3, <2>3, <2>4, <3>2
      <4> QED BY <1>5, <2>4, <4>1
    <3> QED BY <3>1, <3>2
  <2>8. Len(y) = p + (plainOut + 1)
    BY <1>3, <1>5, <2>3, <2>4
  <2>9. Followed(framing, y, p, "off", plainOut + 1)
    BY <2>7, <2>8 DEF Followed
  <2>10. /\ Lined(framing', link', texts', Len(received'), pos)
         /\ Followed(framing', link', pos[Len(texts') + 1], outend', plainOut')
    BY <1>1, <1>4, <2>2, <2>6, <2>9
  <2> QED BY <2>10 DEF Ahead, OnItsWay
<1>7. ASSUME inend = "off" PROVE PlainAhead'
  <2>1. PICK q : q = Len(plainIn) /\ q \in Nat
    BY <1>3
  <2>2. Len(received) = Len(texts) /\ g + q = plainOut /\ \A j \in 1..g : link[j] = Base + (q + j)
    BY <1>3, <1>4, <1>7, <2>1 DEF Underway, PlainAhead
  <2>3. (g + 1) + q = plainOut + 1
    BY <1>5, <2>1, <2>2
  <2>4. ASSUME NEW j \in 1..(g + 1) PROVE y[j] = Base + (q + j)
    <3>1. CASE j = g + 1
      <4>1. q + j = plainOut + 1
        BY <1>5, <2>1, <2>3, <3>1
      <4> QED BY <1>4, <1>5, <3>1, <4>1
    <3>2. CASE j # g + 1
      <4>1. j \in 1..g
        BY <1>5, <3>2
      <4> QED BY <1>5, <2>2, <4>1
    <3> QED BY <3>1, <3>2
  <2>5. Len(link') = g + 1 /\ Len(plainIn') = q /\ plainOut' = plainOut + 1
    BY <1>1, <1>4, <1>5, <2>1
  <2>6. /\ Len(received') = Len(texts') /\ Len(link') + Len(plainIn') = plainOut'
        /\ \A j \in 1..Len(link') : link'[j] = Base + (Len(plainIn') + j)
    BY <1>1, <1>4, <2>2, <2>3, <2>4, <2>5
  <2> QED BY <2>6 DEF PlainAhead
<1>8. Underway'
  BY <1>1, <1>3, <1>6, <1>7 DEF Underway
<1>9. /\ link' \in Seq(Nat) /\ outend' \in Sides /\ inend' \in Receivers /\ plainOut' \in Nat
      /\ plainIn' \in Seq(Nat)
  <2>1. outend \in Sides /\ inend \in Receivers
    BY DEF FramingInv, FramingTypes
  <2> QED BY <1>1, <1>3, <1>4, <1>5, <2>1
<1> QED BY <1>1, <1>8, <1>9, QuietInv

LEMMA PlainRecvInv ==
  ASSUME FramingInv, PlainRecv PROVE FramingInv'
<1>1. /\ inend = "off" /\ link # <<>> /\ plainIn' = Append(plainIn, Head(link)) /\ link' = Tail(link)
      /\ UNCHANGED <<framing, outend, inend, texts, received, plainOut>>
  BY DEF PlainRecv
<1>2. link \in Seq(Nat) /\ plainIn \in Seq(Nat) /\ plainOut \in Nat /\ Underway /\ Base \in Nat
  <2>1. Base \in Nat
    BY FramingAssumption
  <2> QED BY <2>1 DEF FramingInv, FramingTypes
<1>3. PICK g, q, y, z : g = Len(link) /\ q = Len(plainIn) /\ y = link' /\ z = plainIn'
  OBVIOUS
<1>4. /\ g \in Nat /\ q \in Nat /\ g >= 1 /\ y \in Seq(Nat) /\ Len(y) = g - 1
      /\ \A j \in 1..(g - 1) : y[j] = link[j + 1]
  BY <1>1, <1>2, <1>3
<1>5. z \in Seq(Nat) /\ Len(z) = q + 1 /\ z[q + 1] = link[1] /\ \A j \in 1..q : z[j] = plainIn[j]
  <2>1. PICK h : h = Head(link) /\ h = link[1] /\ h \in Nat
    BY <1>1, <1>2
  <2> QED BY <1>1, <1>2, <1>3, <2>1
<1>6. /\ outend = "off" /\ Len(received) = Len(texts) /\ g + q = plainOut
      /\ \A j \in 1..g : link[j] = Base + (q + j)
      /\ \A j \in 1..q : plainIn[j] = Base + j
  BY <1>1, <1>2, <1>3 DEF Underway, PlainAhead
<1>7. ASSUME NEW j \in 1..(q + 1) PROVE z[j] = Base + j
  <2>1. CASE j = q + 1
    <3>1. 1 \in 1..g
      BY <1>4
    <3> QED BY <1>5, <1>6, <2>1, <3>1
  <2>2. CASE j # q + 1
    <3>1. j \in 1..q
      BY <1>4, <2>2
    <3> QED BY <1>5, <1>6, <3>1
  <2> QED BY <2>1, <2>2
<1>8. ASSUME NEW j \in 1..(g - 1) PROVE y[j] = Base + ((q + 1) + j)
  <2>1. j + 1 \in 1..g /\ q + (j + 1) = (q + 1) + j
    BY <1>4
  <2> QED BY <1>4, <1>6, <2>1
<1>9. PlainAhead'
  <2>1. (g - 1) + (q + 1) = plainOut
    BY <1>4, <1>6
  <2>2. /\ Len(received') = Len(texts') /\ Len(link') + Len(plainIn') = plainOut'
        /\ \A j \in 1..Len(link') : link'[j] = Base + (Len(plainIn') + j)
    BY <1>1, <1>3, <1>4, <1>5, <1>6, <1>8, <2>1
  <2> QED BY <2>2 DEF PlainAhead
<1>10. Underway'
  <2>1. \A i \in 1..Len(plainIn') : plainIn'[i] = Base + i
    BY <1>3, <1>5, <1>7
  <2> QED BY <1>1, <1>6, <1>9, <2>1 DEF Underway
<1>11. /\ link' \in Seq(Nat) /\ outend' \in Sides /\ inend' \in Receivers /\ plainOut' \in Nat
       /\ plainIn' \in Seq(Nat)
  BY <1>1, <1>2, <1>3, <1>4, <1>5 DEF FramingInv, FramingTypes, Sides, Receivers
<1> QED BY <1>1, <1>10, <1>11, QuietInv

\* A message is received, or refused, which is the end of the socket.
LEMMA MRecvInv ==
  ASSUME FramingInv, NEW lens \in Buffers, NEW drop \in BOOLEAN, MRecv(lens, drop)
  PROVE  FramingInv'
<1>1. PICK e : e = Receive(lens, drop)
  OBVIOUS
<1>2. /\ inend = "open" /\ (outend = "off" => Len(received) < Len(texts))
      /\ link' = Rest(link, e.taken) /\ UNCHANGED <<framing, outend, texts, plainOut, plainIn>>
      /\ received' = IF e.what = "ok"
                     THEN Append(received, [data |-> e.data, size |-> e.size, drop |-> drop,
                                            room |-> Room(lens)])
                     ELSE received
      /\ inend' = IF e.what = "ok" THEN "open" ELSE "err"
  BY <1>1 DEF MRecv
<1>3. /\ link \in Seq(Nat) /\ texts \in Seq(Texts) /\ received \in Seq(Receipts) /\ Len(received) \in Nat
      /\ Len(received) <= Len(texts) /\ Len(texts) \in Nat
  BY FramingFacts
<1>4. CASE e.what = "ok"
  <2>1. PICK pos : /\ Lined(framing, link, texts, Len(received), pos)
                   /\ Followed(framing, link, pos[Len(texts) + 1], outend, plainOut)
    BY <1>2 DEF FramingInv, Underway, Ahead, OnItsWay
  <2>2. PICK r : r = Len(received) /\ r \in Nat /\ r <= Len(texts)
    BY <1>3
  <2>3. r < Len(texts)
    <3> SUFFICES ASSUME r = Len(texts) PROVE FALSE
      BY <1>3, <2>2
    <3>1. pos[Len(texts) + 1] = 0
      BY <2>1, <2>2 DEF Lined
    <3>2. Followed(framing, link, 0, outend, plainOut)
      BY <2>1, <3>1
    <3>3. outend \in {"open", "err"}
      <4>1. outend \in Sides
        BY DEF FramingInv, FramingTypes
      <4>2. ~(Len(received) < Len(texts))
        BY <1>3, <2>2
      <4>3. outend # "off"
        BY <1>2, <4>2
      <4> QED BY <4>1, <4>3 DEF Sides, Receivers
    <3>4. CASE outend = "open"
      <4>1. Len(link) = 0
        BY <3>2, <3>4 DEF Followed
      <4>2. link = <<>>
        BY <1>3, <4>1
      <4> QED BY <1>1, <1>4, <4>2, ReceiveNothing
    <3>5. CASE outend = "err"
      <4>1. PICK m \in Texts : /\ Allowed(framing, m) /\ Len(link) - 0 < Len(Bytes(framing, m))
                               /\ \A j \in 1..(Len(link) - 0) : link[0 + j] = Bytes(framing, m)[j]
        BY <3>2, <3>5 DEF Followed
      <4>2. Sendable(m) /\ Frame(m) = Bytes(framing, m) /\ Len(Frame(m)) \in Nat
        BY <4>1, FrameBytes, FrameLen
      <4>3. PICK g : g = Len(link) /\ g \in Nat
        BY <1>3
      <4>4. g < Len(Frame(m))
        BY <4>1, <4>2, <4>3
      <4>5. \A j \in 1..g : link[j] = Frame(m)[j]
        BY <4>1, <4>2, <4>3
      <4>6. Begins(m, g)
        BY <4>2, <4>3, <4>4, <4>5 DEF Begins
      <4>7. g = Len(Frame(m))
        BY <1>1, <1>3, <1>4, <4>2, <4>3, <4>6, ReceiveExact
      <4> QED BY <4>2, <4>3, <4>4, <4>7
    <3> QED BY <3>3, <3>4, <3>5
  <2>4. PICK m : m = texts[r + 1] /\ m \in Texts /\ r + 1 \in 1..Len(texts)
    BY <1>3, <2>2, <2>3
  <2>5. Sendable(m) /\ Frame(m) = Bytes(framing, m) /\ Allowed(framing, m)
    BY <2>4, FrameBytes DEF FramingInv, FramingTypes
  <2>6. PICK k : k = Len(Bytes(framing, texts[r + 1]))
    OBVIOUS
  <2>7. plainOut \in Nat
    BY DEF FramingInv, FramingTypes
  <2>8. /\ k \in Nat /\ k <= Len(link) /\ \A j \in 1..k : link[j] = Bytes(framing, texts[r + 1])[j]
        /\ OnItsWay(framing, Rest(link, k), texts, r + 1, outend, plainOut)
    <3>1. /\ link \in Seq(Nat) /\ texts \in Seq(Texts) /\ Lined(framing, link, texts, r, pos)
          /\ Followed(framing, link, pos[Len(texts) + 1], outend, plainOut)
      BY <1>3, <2>1, <2>2
    <3>2. r \in Nat /\ r < Len(texts) /\ plainOut \in Nat /\ k = Len(Bytes(framing, texts[r + 1]))
      BY <2>2, <2>3, <2>6, <2>7
    <3>3. /\ Leads(framing, link, texts[r + 1], k)
          /\ OnItsWay(framing, Rest(link, k), texts, r + 1, outend, plainOut)
      BY <3>1, <3>2, LinedTake
    <3> QED BY <3>3 DEF Leads
  <2>9. k = Len(Frame(m)) /\ Begins(m, k)
    BY <2>4, <2>5, <2>6, <2>8 DEF Begins
  <2>10. /\ e.taken = k /\ e.size = Len(m) /\ e.data \in Seq(Nat)
         /\ ~drop => IF framing = "suffix" THEN IsPrefix(e.data, m) ELSE e.data = m
    BY <1>1, <1>3, <1>4, <2>4, <2>5, <2>8, <2>9, ReceiveExact
  <2>11. PICK i : i = [data |-> e.data, size |-> e.size, drop |-> drop, room |-> Room(lens)]
    OBVIOUS
  <2>12. i \in Receipts /\ Reported(framing, i, m)
    <3>1. Len(m) \in Nat
      BY <2>4, FrameDef
    <3>2. i \in Receipts
      BY <2>10, <2>11, <3>1 DEF Receipts
    <3>3. i.size = Len(m) /\ i.drop = drop /\ i.data = e.data
      BY <2>10, <2>11
    <3> QED BY <2>10, <3>2, <3>3 DEF Reported
  <2>13. received' = Append(received, i) /\ inend' = "open" /\ link' = Rest(link, k)
    BY <1>2, <1>4, <2>10, <2>11
  <2>14. /\ received' \in Seq(Receipts) /\ Len(received') = r + 1 /\ received'[r + 1] = i
         /\ \A j \in 1..r : received'[j] = received[j]
    BY <1>3, <2>2, <2>12, <2>13
  <2>15. FramingTypes'
    <3>1. link' \in Seq(Nat)
      BY <1>3, <2>8, <2>13, RestDef
    <3>2. inend' \in Receivers
      BY <2>13 DEF Sides, Receivers
    <3> QED BY <1>2, <2>14, <3>1, <3>2 DEF FramingInv, FramingTypes
  <2>16. AllReported'
    <3>1. \A j \in 1..r : Reported(framing, received[j], texts[j])
      BY <2>2 DEF FramingInv, AllReported
    <3>2. \A j \in 1..(r + 1) : j \in 1..r \/ j = r + 1
      BY <2>2
    <3>3. \A j \in 1..(r + 1) : Reported(framing, received'[j], texts[j])
      BY <2>4, <2>12, <2>14, <3>1, <3>2
    <3>4. Len(received') <= Len(texts')
      BY <1>2, <1>3, <2>2, <2>3, <2>14
    <3> QED BY <1>2, <2>14, <3>3, <3>4 DEF AllReported
  <2>17. Ahead'
    BY <1>2, <2>8, <2>13, <2>14 DEF Ahead
  <2>18. Underway'
    <3>1. Underway
      BY DEF FramingInv
    <3> QED BY <1>2, <2>13, <2>17, <3>1 DEF Underway
  <2> QED BY <2>15, <2>16, <2>18 DEF FramingInv
<1>5. CASE e.what # "ok"
  <2>1. inend' = "err" /\ UNCHANGED received
    BY <1>2, <1>5
  <2>2. e.what # "wait"
    BY <1>1 DEF MRecv
  <2>3. e.taken \in Nat /\ e.taken <= Len(link)
    BY <1>1, <1>3, <1>5, <2>2, RefusedTaken
  <2>4. link' \in Seq(Nat)
    BY <1>2, <1>3, <2>3, RestDef
  <2>5. Underway'
    BY <1>2, <2>1 DEF FramingInv, Underway
  <2>6. /\ outend' \in Sides /\ inend' \in Receivers /\ plainOut' \in Nat /\ plainIn' \in Seq(Nat)
    BY <1>2, <2>1 DEF FramingInv, FramingTypes, Sides, Receivers
  <2> QED BY <1>2, <2>1, <2>4, <2>5, <2>6, QuietInv
<1> QED BY <1>4, <1>5

-----------------------------------------------------------------------------
\* With prefix.c and suffix.c the messages received are those sent, in order, whatever
\* failed in between and whichever lists they are read into, and the bytes received
\* after both detached are the plain ones. A list that PREFIX cuts and dill_fd_recv
\* follows past the cut ends the process (MRecvCrashes), and delivers nothing.
THEOREM FramesCorrect == FramingSpec => []FramesExact
<1>1. FramingInit => FramingInv
  BY FramingInitInv
<1>2. FramingInv /\ [FramingNext]_framingVars => FramingInv'
  <2> SUFFICES ASSUME FramingInv, [FramingNext]_framingVars PROVE FramingInv'
    OBVIOUS
  <2>1. ASSUME NEW m \in Texts, Sendable(m), MSend(m) PROVE FramingInv'
    BY <2>1, MSendInv
  <2>2. ASSUME NEW m \in Texts, Sendable(m), MSendFails(m) PROVE FramingInv'
    BY <2>2, MSendFailsInv
  <2>3. ASSUME NEW lens \in Buffers, NEW drop \in BOOLEAN, MRecv(lens, drop) PROVE FramingInv'
    BY <2>3, MRecvInv
  <2>4. ASSUME NEW lens \in Buffers, MRecvFails(lens) PROVE FramingInv'
    BY <2>4, MRecvFailsInv
  <2>10. ASSUME NEW lens \in Buffers, MRecvCrashes(lens) PROVE FramingInv'
    BY <2>10, MRecvCrashesInv
  <2>5. CASE DetachOut
    BY <2>5, DetachOutInv
  <2>6. CASE DetachIn
    BY <2>6, DetachInInv
  <2>7. CASE PlainSend
    BY <2>7, PlainSendInv
  <2>8. CASE PlainRecv
    BY <2>8, PlainRecvInv
  <2>9. CASE UNCHANGED framingVars
    <3>1. UNCHANGED <<framing, link, outend, inend, texts, received, plainOut, plainIn>>
      BY <2>9 DEF framingVars
    <3> QED BY <3>1 DEF FramingInv, FramingTypes, AllReported, Underway, Ahead, PlainAhead
  <2> QED BY <2>1, <2>2, <2>3, <2>4, <2>5, <2>6, <2>7, <2>8, <2>9, <2>10
    DEF FramingNext
<1>3. FramingInv => FramesExact
  <2> SUFFICES ASSUME FramingInv PROVE FramesExact
    OBVIOUS
  <2>1. received \in Seq(Receipts) /\ plainIn \in Seq(Nat) /\ AllReported /\ Underway
    BY DEF FramingInv, FramingTypes
  <2>2. DOMAIN received = 1..Len(received) /\ DOMAIN plainIn = 1..Len(plainIn)
    BY <2>1
  <2>3. \A i \in 1..Len(plainIn) : plainIn[i] = Base + i
    BY <2>1 DEF Underway
  <2>4. ASSUME NEW i \in 1..Len(received)
        PROVE  /\ received[i].size = Len(texts[i])
               /\ ~received[i].drop =>
                    IF framing = "suffix" THEN IsPrefix(received[i].data, texts[i])
                    ELSE received[i].data = texts[i]
    BY <2>1 DEF AllReported, Reported
  <2>5. Len(received) <= Len(texts)
    BY <2>1 DEF AllReported
  <2> QED BY <2>2, <2>3, <2>4, <2>5 DEF FramesExact
<1> QED BY <1>1, <1>2, <1>3, PTL DEF FramingSpec
=============================================================================
