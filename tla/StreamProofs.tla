---------------------------- MODULE StreamProofs ----------------------------
(***************************************************************************)
(* Proofs about two connected bytestream sockets (module Stream): for any  *)
(* buffer sizes, any lists of buffers and streams of any length, what is   *)
(* received is the beginning of what was sent, and the end of the stream   *)
(* is reported only when everything before it has been taken.              *)
(***************************************************************************)
EXTENDS Stream, SeqLemmas

(***************************************************************************)
(* The inductive invariant.                                                *)
(***************************************************************************)
Calls == {"run", "wait"}
SendsBytes == [pc : Calls, mode : {"bytes"}, next : Nat \ {0}, left : Nat, trail : BOOLEAN]
SendsFd == [pc : Calls, mode : {"fd"}]
ReceivesBytes == [pc : Calls, todo : Seq({"buf", "null"}), got : Seq(Int),
                  mode : {"direct", "buffered"}, late : BOOLEAN]
ReceivesFd == [pc : Calls, mode : {"fd"}, late : {FALSE}]
Drains == [pc : Calls, mode : {"drain"}, late : {FALSE}]

StreamTypes ==
  /\ kind \in {"tcp", "ipc"}
  /\ conn \in [Peers -> [indone : BOOLEAN, outdone : BOOLEAN, inerr : BOOLEAN,
                         outerr : BOOLEAN, closed : {"no", "hclose", "ok", "error"}]]
  /\ rx \in [Peers -> Seq(Int)]
  /\ snd \in [Peers -> {Idle} \cup SendsBytes \cup SendsFd]
  /\ rcv \in [Peers -> {Idle} \cup ReceivesBytes \cup ReceivesFd \cup Drains]
  /\ sndq \in [Peers -> Seq(Int)] /\ rcvq \in [Peers -> Seq(Int)]
  /\ rst \in [Peers -> {"no", "pending", "reported"}]
  /\ offered \in [Peers -> Nat] /\ lost \in [Peers -> Nat]
  /\ recvd \in [Peers -> Seq(Int)]
  /\ skipfail \in [Peers -> BOOLEAN] /\ dead \in BOOLEAN

\* A receive in progress has something left to receive, and used the rx buffer up
\* before; it is over once the inbound half has ended or failed. Only tcp has
\* an rx buffer. An error that was reported was recorded somewhere.
Receiver(p) ==
  /\ rcv[p] \in ReceivesBytes =>
       /\ rcv[p].todo # <<>> /\ rx[p] = <<>>
       /\ kind = "ipc" => rcv[p].mode = "direct"
  /\ rcv[p] \in ReceivesBytes \cup ReceivesFd => ~conn[p].indone
  /\ rcv[p] # Idle => ~conn[p].inerr /\ conn[p].closed = "no"
  /\ rcv[p] \in ReceivesFd => kind = "ipc"
  /\ kind = "ipc" => rx[p] = <<>>
  /\ rst[p] = "reported" => conn[p].outerr \/ conn[p].inerr \/ skipfail[p]

\* The kernel's queues from p to its peer: the end of the stream is behind the
\* data and is there only if p has ended it; the buffer is not overfull; data are
\* thrown away only when p is closed and the end has not arrived.
NoEnd(s) == \A i \in 1..Len(s) : s[i] # 0
Shape(s) == NoEnd(Data(s))
Gone(p) == Shut(p) \/ (kind = "ipc" /\ conn[p].closed # "no")
Pipe(p) ==
  LET q == Other(p) IN
  /\ Shape(sndq[p]) /\ Shape(rcvq[q])
  /\ Ended(sndq[p]) \/ Ended(rcvq[q]) => Gone(p)
  /\ Ended(rcvq[q]) => sndq[p] = <<>> /\ lost[p] = 0
  /\ sndq[p] # <<>> \/ conn[p].closed = "no" => lost[p] = 0
  /\ kind = "ipc" => sndq[p] = <<>>
  /\ Space(p) >= 0
  /\ snd[p] \in SendsFd => kind = "ipc"
  /\ snd[p] \in SendsFd /\ snd[p].pc = "run" => Space(p) > 0 \/ SendFails(p)

\* The bytes that were returned, are copied already, are in the rx buffer, in the
\* receiver's and in the sender's queue are consecutive places of the stream.
Got(p) == IF rcv[p] \in ReceivesBytes THEN rcv[p].got ELSE <<>>
InPlace(s, k) == \A i \in 1..Len(s) : s[i] = k + i \/ s[i] = -(k + i)
Returned(s, k) == \A i \in 1..Len(s) : s[i] = 0 \/ s[i] = k + i \/ s[i] = -(k + i)
Flow(r, g, x, a, b) ==
  /\ Returned(r, 0) /\ Returned(g, Len(r))
  /\ InPlace(x, Len(r) + Len(g)) /\ InPlace(a, Len(r) + Len(g) + Len(x))
  /\ InPlace(b, Len(r) + Len(g) + Len(x) + Len(a))
Length(r, g, x, a, b) == Len(r) + Len(g) + Len(x) + Len(a) + Len(b)

Live(p) ==
  /\ ~conn[p].indone /\ ~conn[p].inerr /\ ~skipfail[p]
  /\ conn[p].closed = "no" /\ rcv[p] \notin Drains

\* The places p has handed to the kernel, as long as more may follow.
Handed(p) == IF snd[p] \in SendsBytes THEN snd[p].next - 1 ELSE offered[p]
MaySend(p) ==
  /\ conn[p].closed = "no" /\ (snd[p] # Idle \/ ~conn[p].outerr)
  /\ kind = "tcp" => rst[p] = "no"

Places(p) ==
  LET q == Other(p) IN
  /\ skipfail[p] \/ Returned(recvd[p], 0)
  /\ Live(p) => Flow(recvd[p], Got(p), rx[p], Data(rcvq[p]), Data(sndq[q]))
  /\ Live(p) /\ MaySend(q) =>
       Length(recvd[p], Got(p), rx[p], Data(rcvq[p]), Data(sndq[q])) = Handed(q)
  /\ snd[p] \in SendsBytes => snd[p].next + snd[p].left = offered[p] + 1

\* EndIsReal, for p.
EndSeen(p) ==
  LET q == Other(p) IN
  conn[p].indone /\ ~conn[p].outerr /\ ~skipfail[p] =>
    Gone(q) /\ sndq[q] = <<>> /\ Data(rcvq[p]) = <<>> /\ lost[q] = 0

StreamInv ==
  /\ StreamTypes
  /\ \A p \in Peers : Receiver(p) /\ Pipe(p) /\ Places(p) /\ EndSeen(p)

-----------------------------------------------------------------------------
(***************************************************************************)
(* Peers, queues and places.                                               *)
(***************************************************************************)
LEMMA TwoPeers ==
  \A p \in Peers : /\ Other(p) \in Peers /\ Other(p) # p /\ Other(Other(p)) = p
                   /\ \A x \in Peers : x = p \/ x = Other(p)
<1>1. PICK a \in Peers, b \in Peers : a # b /\ Peers = {a, b}
  BY StreamAssumption
<1>2. Other(a) = b /\ Other(b) = a
  BY <1>1 DEF Other
<1> QED BY <1>1, <1>2

LEMMA LeastOfTwo ==
  ASSUME NEW m \in Int, NEW n \in Int PROVE Min({m, n}) = IF m <= n THEN m ELSE n
BY DEF Min

LEMMA SubSeqFacts ==
  ASSUME NEW X, NEW s \in Seq(X), NEW m \in Nat, NEW n \in Nat, 1 <= m, n <= Len(s)
  PROVE  /\ SubSeq(s, m, n) \in Seq(X)
         /\ Len(SubSeq(s, m, n)) = IF m <= n THEN n - m + 1 ELSE 0
         /\ \A i \in 1..Len(SubSeq(s, m, n)) : SubSeq(s, m, n)[i] = s[m + i - 1]
<1> DEFINE t == SubSeq(s, m, n)
<1>1. t \in Seq(X) /\ Len(t) = IF m <= n THEN n - m + 1 ELSE 0
  OBVIOUS
<1>2. \A i \in 1..Len(t) : t[i] = s[m + i - 1]
  OBVIOUS
<1> QED BY <1>1, <1>2

LEMMA NoElements ==
  ASSUME NEW X, NEW s \in Seq(X), Len(s) = 0 PROVE s = <<>>
OBVIOUS

\* Cutting a sequence in two.
LEMMA Cut ==
  ASSUME NEW X, NEW s \in Seq(X), NEW n \in Nat
  PROVE  /\ First(s, n) \in Seq(X) /\ Rest(s, n) \in Seq(X)
         /\ Len(First(s, n)) = IF n <= Len(s) THEN n ELSE Len(s)
         /\ Len(Rest(s, n)) = Len(s) - Len(First(s, n))
         /\ \A i \in 1..Len(First(s, n)) : First(s, n)[i] = s[i]
         /\ \A i \in 1..Len(Rest(s, n)) : Rest(s, n)[i] = s[i + Len(First(s, n))]
         /\ Len(s) \in Nat
<1>1. Len(s) \in Nat
  OBVIOUS
<1>2. Min({n, Len(s)}) = IF n <= Len(s) THEN n ELSE Len(s)
  BY <1>1, LeastOfTwo
<1> DEFINE m == Min({n, Len(s)})
<1>3. m \in 0..Len(s) /\ m = IF n <= Len(s) THEN n ELSE Len(s)
  BY <1>1, <1>2
<1>4. First(s, n) = SubSeq(s, 1, m) /\ Rest(s, n) = SubSeq(s, m + 1, Len(s))
  BY DEF First, Rest
<1> HIDE DEF m
<1> DEFINE a == SubSeq(s, 1, m)
           b == SubSeq(s, m + 1, Len(s))
<1>5. /\ m \in Nat /\ m + 1 \in Nat /\ 1 <= 1 /\ 1 <= m + 1 /\ m <= Len(s) /\ Len(s) <= Len(s)
      /\ 1 \in Nat
  BY <1>1, <1>3
<1>6. /\ a \in Seq(X) /\ Len(a) = IF 1 <= m THEN m - 1 + 1 ELSE 0
      /\ \A i \in 1..Len(a) : a[i] = s[1 + i - 1]
  BY <1>5, SubSeqFacts
<1>7. /\ b \in Seq(X) /\ Len(b) = IF m + 1 <= Len(s) THEN Len(s) - (m + 1) + 1 ELSE 0
      /\ \A i \in 1..Len(b) : b[i] = s[m + 1 + i - 1]
  BY <1>1, <1>5, SubSeqFacts
<1> HIDE DEF a, b
<1>8. Len(a) = m /\ Len(b) = Len(s) - m
  BY <1>1, <1>5, <1>6, <1>7
<1>9. /\ \A i \in 1..Len(a) : 1 + i - 1 = i
      /\ \A i \in 1..Len(b) : m + 1 + i - 1 = i + m
  BY <1>1, <1>5, <1>8
<1>10. First(s, n) = a /\ Rest(s, n) = b
  BY <1>4 DEF a, b
<1>11. /\ \A i \in 1..Len(a) : a[i] = s[i]
       /\ \A i \in 1..Len(b) : b[i] = s[i + Len(a)]
  BY <1>6, <1>7, <1>8, <1>9
<1>12. Len(a) = (IF n <= Len(s) THEN n ELSE Len(s)) /\ Len(b) = Len(s) - Len(a)
  BY <1>3, <1>8
<1> QED BY <1>1, <1>6, <1>7, <1>10, <1>11, <1>12

LEMMA CutInside ==
  ASSUME NEW X, NEW s \in Seq(X), NEW n \in Nat, n <= Len(s)
  PROVE  /\ First(s, n) \in Seq(X) /\ Rest(s, n) \in Seq(X)
         /\ Len(First(s, n)) = n /\ Len(Rest(s, n)) = Len(s) - n
         /\ \A i \in 1..n : First(s, n)[i] = s[i]
         /\ \A i \in 1..Len(Rest(s, n)) : Rest(s, n)[i] = s[i + n]
<1>1. Len(First(s, n)) = n
  BY Cut
<1>2. /\ First(s, n) \in Seq(X) /\ Rest(s, n) \in Seq(X)
      /\ Len(Rest(s, n)) = Len(s) - Len(First(s, n))
      /\ \A i \in 1..Len(First(s, n)) : First(s, n)[i] = s[i]
      /\ \A i \in 1..Len(Rest(s, n)) : Rest(s, n)[i] = s[i + Len(First(s, n))]
  BY Cut
<1> QED BY <1>1, <1>2

\* What the end of the stream has to do with the data before it.
LEMMA DataFacts ==
  ASSUME NEW s \in Seq(Int)
  PROVE  /\ Data(s) \in Seq(Int) /\ Len(s) \in Nat
         /\ Ended(s) => Len(s) = Len(Data(s)) + 1 /\ s[Len(s)] = 0
         /\ ~Ended(s) => Data(s) = s
         /\ \A i \in 1..Len(Data(s)) : Data(s)[i] = s[i]
         /\ Data(s) = <<>> /\ s # <<>> => Ended(s)
         /\ Data(s) = <<>> <=> Len(Data(s)) = 0
<1>1. Len(s) \in Nat /\ (s = <<>> <=> Len(s) = 0)
  OBVIOUS
<1>2. CASE Ended(s)
  <2>1. Len(s) - 1 \in 0..Len(s) /\ Data(s) = SubSeq(s, 1, Len(s) - 1)
    BY <1>1, <1>2 DEF Ended, Data
  <2> DEFINE d == SubSeq(s, 1, Len(s) - 1)
             n == Len(s) - 1
  <2>2. n \in Nat /\ 1 \in Nat /\ 1 <= 1 /\ n <= Len(s) /\ Len(s) = n + 1
    BY <1>1, <2>1
  <2> HIDE DEF n
  <2>3. d = SubSeq(s, 1, n)
    BY DEF n
  <2>4. /\ d \in Seq(Int) /\ Len(d) = IF 1 <= n THEN n - 1 + 1 ELSE 0
        /\ \A i \in 1..Len(d) : d[i] = s[1 + i - 1]
    BY <2>2, <2>3, SubSeqFacts
  <2> HIDE DEF d
  <2>5. Data(s) = d
    BY <2>1 DEF d
  <2>6. Len(d) = n /\ (d = <<>> <=> Len(d) = 0) /\ \A i \in 1..Len(d) : 1 + i - 1 = i
    BY <2>2, <2>4
  <2> QED BY <1>1, <1>2, <2>2, <2>4, <2>5, <2>6 DEF Ended
<1>3. CASE ~Ended(s)
  BY <1>1, <1>3 DEF Data
<1> QED BY <1>2, <1>3

LEMMA SameElements ==
  ASSUME NEW s \in Seq(Int), NEW t \in Seq(Int), Len(s) = Len(t),
         \A i \in 1..Len(s) : s[i] = t[i]
  PROVE  s = t
OBVIOUS

\* Bytes are added to a queue that has not ended.
LEMMA DataConcat ==
  ASSUME NEW s \in Seq(Int), NEW t \in Seq(Int), Shape(s), ~Ended(s), NoEnd(t)
  PROVE  /\ s \o t \in Seq(Int) /\ Data(s \o t) = s \o t /\ Data(s) = s
         /\ ~Ended(s \o t) /\ Shape(s \o t) /\ Len(s \o t) = Len(s) + Len(t)
<1>1. Data(s) = s /\ NoEnd(s) /\ Len(s) \in Nat /\ Len(t) \in Nat
  BY DataFacts DEF Shape
<1>2. /\ s \o t \in Seq(Int) /\ Len(s \o t) = Len(s) + Len(t)
      /\ \A i \in 1..(Len(s) + Len(t)) : (s \o t)[i] = IF i <= Len(s) THEN s[i] ELSE t[i - Len(s)]
  BY ConcatFacts
<1>3. NoEnd(s \o t)
  <2> SUFFICES ASSUME NEW i \in 1..Len(s \o t) PROVE (s \o t)[i] # 0
    BY DEF NoEnd
  <2>1. CASE i <= Len(s)
    BY <1>1, <1>2, <2>1 DEF NoEnd
  <2>2. CASE ~(i <= Len(s))
    <3>1. i - Len(s) \in 1..Len(t)
      BY <1>1, <1>2, <2>2
    <3> QED BY <1>1, <1>2, <2>2, <3>1 DEF NoEnd
  <2> QED BY <2>1, <2>2
<1>4. ~Ended(s \o t)
  <2> SUFFICES ASSUME Ended(s \o t) PROVE FALSE
    OBVIOUS
  <2>1. Len(s \o t) # 0
    BY <1>2 DEF Ended
  <2> QED BY <1>1, <1>2, <1>3, <2>1 DEF Ended, NoEnd
<1> QED BY <1>1, <1>2, <1>3, <1>4, DataFacts DEF Shape

\* The end is added to a queue that has not ended.
LEMMA DataEnds ==
  ASSUME NEW s \in Seq(Int), Shape(s), ~Ended(s)
  PROVE  /\ Append(s, 0) \in Seq(Int) /\ Data(Append(s, 0)) = s /\ Data(s) = s
         /\ Ended(Append(s, 0)) /\ Shape(Append(s, 0)) /\ s \o <<0>> = Append(s, 0)
<1> DEFINE t == Append(s, 0)
<1>1. /\ t \in Seq(Int) /\ Len(t) = Len(s) + 1 /\ t[Len(s) + 1] = 0 /\ Len(s) \in Nat
      /\ \A i \in 1..Len(s) : t[i] = s[i]
  OBVIOUS
<1>2. s \o <<0>> = t
  OBVIOUS
<1> HIDE DEF t
<1>3. Ended(t)
  BY <1>1 DEF Ended
<1>4. Data(s) = s /\ NoEnd(s)
  BY DataFacts DEF Shape
<1>5. /\ Data(t) \in Seq(Int) /\ Len(t) = Len(Data(t)) + 1
      /\ \A i \in 1..Len(Data(t)) : Data(t)[i] = t[i]
  BY <1>1, <1>3, DataFacts
<1>6. Len(Data(t)) = Len(s)
  BY <1>1, <1>5
<1>7. Data(t) = s
  BY <1>1, <1>5, <1>6, SameElements
<1> QED BY <1>1, <1>2, <1>3, <1>4, <1>7 DEF Shape, t

\* The first n bytes of a queue are taken.
LEMMA DataRest ==
  ASSUME NEW s \in Seq(Int), Shape(s), NEW n \in 0..Len(Data(s))
  PROVE  /\ Rest(s, n) \in Seq(Int) /\ Data(Rest(s, n)) = Rest(Data(s), n)
         /\ (Ended(Rest(s, n)) <=> Ended(s)) /\ Shape(Rest(s, n))
<1> DEFINE d == Data(s)
<1>1. /\ d \in Seq(Int) /\ Len(s) \in Nat /\ Len(d) \in Nat
      /\ Ended(s) => Len(s) = Len(d) + 1 /\ s[Len(s)] = 0
      /\ ~Ended(s) => d = s
      /\ \A i \in 1..Len(d) : d[i] = s[i]
      /\ NoEnd(d)
  BY DataFacts DEF Shape
<1> HIDE DEF d
<1> DEFINE t == Rest(s, n)
           u == Rest(d, n)
<1>a. n \in Nat /\ n <= Len(d) /\ n <= Len(s)
  BY <1>1 DEF d
<1>3. /\ t \in Seq(Int) /\ Len(t) = Len(s) - n /\ \A i \in 1..Len(t) : t[i] = s[i + n]
      /\ u \in Seq(Int) /\ Len(u) = Len(d) - n /\ \A i \in 1..Len(u) : u[i] = d[i + n]
  <2>1. t \in Seq(Int) /\ Len(t) = Len(s) - n /\ \A i \in 1..Len(t) : t[i] = s[i + n]
    BY <1>a, CutInside, Zenon
  <2>2. d \in Seq(Int)
    BY <1>1
  <2>3. u \in Seq(Int) /\ Len(u) = Len(d) - n /\ \A i \in 1..Len(u) : u[i] = d[i + n]
    BY <2>2, <1>a, CutInside, Zenon
  <2> QED BY <2>1, <2>3
<1> HIDE DEF t, u
<1>4. NoEnd(u)
  <2>1. \A i \in 1..Len(u) : i + n \in 1..Len(d)
    BY <1>1, <1>3, <1>a
  <2> QED BY <1>1, <1>3, <2>1 DEF NoEnd
<1>5. CASE Ended(s)
  <2>1. Len(t) = Len(u) + 1 /\ Len(t) \in 1..Len(t) /\ Len(t) + n = Len(s) /\ Len(u) \in Nat
    BY <1>1, <1>3, <1>5
  <2>2. Ended(t)
    <3>1. t[Len(t)] = 0
      BY <1>1, <1>3, <1>5, <2>1
    <3>2. Len(t) # 0
      BY <2>1
    <3> QED BY <1>3, <3>1, <3>2 DEF Ended
  <2>3. /\ Data(t) \in Seq(Int) /\ Len(Data(t)) = Len(u)
        /\ \A i \in 1..Len(u) : Data(t)[i] = t[i]
    <3>1. /\ Data(t) \in Seq(Int) /\ Len(t) = Len(Data(t)) + 1 /\ Len(Data(t)) \in Nat
          /\ \A i \in 1..Len(Data(t)) : Data(t)[i] = t[i]
      BY <1>3, <2>2, DataFacts
    <3>2. Len(Data(t)) = Len(u)
      BY <2>1, <3>1
    <3> QED BY <3>1, <3>2
  <2>4. \A i \in 1..Len(u) : Data(t)[i] = u[i]
    <3>1. \A i \in 1..Len(u) : i + n \in 1..Len(d) /\ i \in 1..Len(t)
      BY <1>1, <1>3, <1>a, <2>1
    <3> QED BY <1>1, <1>3, <2>3, <3>1
  <2>5. Data(t) = u
    BY <1>3, <2>3, <2>4, SameElements
  <2> QED BY <1>3, <1>4, <1>5, <2>2, <2>5 DEF Shape, t, u, d
<1>6. CASE ~Ended(s)
  <2>1. d = s /\ t = u
    BY <1>1, <1>6 DEF t, u
  <2>2. ~Ended(t)
    <3> SUFFICES ASSUME Ended(t) PROVE FALSE
      OBVIOUS
    <3>1. Len(t) # 0 /\ Len(t) \in Nat
      BY <1>3 DEF Ended
    <3> QED BY <1>4, <2>1, <3>1 DEF Ended, NoEnd
  <2>3. Data(t) = t
    BY <1>3, <2>2, DataFacts
  <2> QED BY <1>3, <1>4, <1>6, <2>1, <2>2, <2>3 DEF Shape, t, u, d
<1> QED BY <1>5, <1>6

\* The first element of a queue is taken.
LEMMA DataTail ==
  ASSUME NEW s \in Seq(Int), Shape(s), s # <<>>
  PROVE  /\ Tail(s) \in Seq(Int) /\ Shape(Tail(s)) /\ Head(s) \in Int
         /\ Head(s) = 0 => Tail(s) = <<>> /\ Ended(s) /\ Data(s) = <<>>
         /\ Head(s) # 0 => /\ Data(s) # <<>> /\ Data(Tail(s)) = Tail(Data(s))
                           /\ Head(Data(s)) = Head(s) /\ (Ended(Tail(s)) <=> Ended(s))
<1>1. /\ Len(s) \in Nat \ {0} /\ Head(s) = s[1] /\ Tail(s) \in Seq(Int) /\ Head(s) \in Int
      /\ Len(Tail(s)) = Len(s) - 1 /\ \A i \in 1..(Len(s) - 1) : Tail(s)[i] = s[i + 1]
  OBVIOUS
<1>2. /\ Data(s) \in Seq(Int) /\ Len(Data(s)) \in Nat
      /\ Ended(s) => Len(s) = Len(Data(s)) + 1 /\ s[Len(s)] = 0
      /\ ~Ended(s) => Data(s) = s
      /\ \A i \in 1..Len(Data(s)) : Data(s)[i] = s[i]
      /\ NoEnd(Data(s)) /\ (Data(s) = <<>> <=> Len(Data(s)) = 0)
  BY DataFacts DEF Shape
<1>3. CASE Head(s) = 0
  <2>1. Len(Data(s)) = 0
    <3> SUFFICES ASSUME Len(Data(s)) # 0 PROVE FALSE
      OBVIOUS
    <3>1. 1 \in 1..Len(Data(s))
      BY <1>2
    <3> QED BY <1>1, <1>2, <1>3, <3>1 DEF NoEnd
  <2>2. Ended(s) /\ Len(s) = 1
    BY <1>1, <1>2, <2>1
  <2>3. Tail(s) = <<>>
    <3>1. Len(Tail(s)) = 0 /\ Tail(s) \in Seq(Int)
      BY <1>1, <2>2
    <3> QED BY <3>1, NoElements
  <2>4. Shape(<<>>)
    BY DEF Shape, NoEnd, Data, Ended
  <2> QED BY <1>1, <1>2, <1>3, <2>1, <2>2, <2>3, <2>4
<1>4. CASE Head(s) # 0
  <2>1. Len(Data(s)) # 0
    <3>1. ASSUME Len(Data(s)) = 0 PROVE FALSE
      <4>1. Ended(s) /\ Len(s) = 1
        BY <1>1, <1>2, <3>1
      <4> QED BY <1>1, <1>2, <1>4, <4>1
    <3> QED BY <3>1
  <2> DEFINE d == Data(s)
  <2>2. 1 \in 0..Len(d) /\ 1 \in 1..Len(d)
    <3>1. Len(d) \in Nat /\ Len(d) # 0
      BY <1>2, <2>1
    <3> QED BY <3>1
  <2>3. d \in Seq(Int) /\ d # <<>> /\ d[1] = s[1]
    BY <1>2, <2>1, <2>2
  <2>4. Data(Rest(s, 1)) = Rest(d, 1) /\ (Ended(Rest(s, 1)) <=> Ended(s)) /\ Shape(Rest(s, 1))
    BY <2>2, DataRest
  <2> HIDE DEF d
  <2>5. \A v \in Seq(Int) : v # <<>> => Rest(v, 1) = Tail(v) /\ Head(v) = v[1]
    <3> SUFFICES ASSUME NEW v \in Seq(Int), v # <<>> PROVE Rest(v, 1) = Tail(v)
      OBVIOUS
    <3>1. Len(v) \in Nat /\ Len(v) >= 1 /\ 1 \in Int /\ 1 \in Nat
      OBVIOUS
    <3>2. Min({1, Len(v)}) = 1
      BY <3>1, LeastOfTwo
    <3>3. Rest(v, 1) = SubSeq(v, 1 + 1, Len(v))
      BY <3>2, Zenon DEF Rest
    <3>4. 1 + 1 = 2
      OBVIOUS
    <3> QED BY <3>1, <3>3, <3>4, TailIsSubSeq
  <2>6. Rest(s, 1) = Tail(s) /\ Rest(d, 1) = Tail(d) /\ Head(d) = d[1]
    BY <2>3, <2>5
  <2> QED BY <1>1, <1>4, <2>3, <2>4, <2>6 DEF d
<1> QED BY <1>3, <1>4

-----------------------------------------------------------------------------
LEMMA PlacesNone == \A k : InPlace(<<>>, k) /\ Returned(<<>>, k)
<1>1. Len(<<>>) = 0
  OBVIOUS
<1>2. 1..0 = {}
  OBVIOUS
<1> QED BY <1>1, <1>2 DEF InPlace, Returned

LEMMA PlacesConcat ==
  ASSUME NEW s \in Seq(Int), NEW t \in Seq(Int), NEW k \in Nat
  PROVE  /\ InPlace(s, k) /\ InPlace(t, k + Len(s)) => InPlace(s \o t, k)
         /\ Returned(s, k) /\ Returned(t, k + Len(s)) => Returned(s \o t, k)
<1>1. /\ Len(s) \in Nat /\ Len(t) \in Nat /\ Len(s \o t) = Len(s) + Len(t)
      /\ \A i \in 1..(Len(s) + Len(t)) : (s \o t)[i] = IF i <= Len(s) THEN s[i] ELSE t[i - Len(s)]
  BY ConcatFacts
<1>2. \A i \in 1..(Len(s) + Len(t)) :
         /\ i <= Len(s) => i \in 1..Len(s)
         /\ ~(i <= Len(s)) => i - Len(s) \in 1..Len(t) /\ k + Len(s) + (i - Len(s)) = k + i
  BY <1>1
<1>3. ASSUME InPlace(s, k), InPlace(t, k + Len(s)) PROVE InPlace(s \o t, k)
  <2> SUFFICES ASSUME NEW i \in 1..(Len(s) + Len(t))
               PROVE  (s \o t)[i] = k + i \/ (s \o t)[i] = -(k + i)
    BY <1>1 DEF InPlace
  <2> QED BY <1>1, <1>2, <1>3 DEF InPlace
<1>4. ASSUME Returned(s, k), Returned(t, k + Len(s)) PROVE Returned(s \o t, k)
  <2> SUFFICES ASSUME NEW i \in 1..(Len(s) + Len(t))
               PROVE  (s \o t)[i] = 0 \/ (s \o t)[i] = k + i \/ (s \o t)[i] = -(k + i)
    BY <1>1 DEF Returned
  <2> QED BY <1>1, <1>2, <1>4 DEF Returned
<1> QED BY <1>3, <1>4

LEMMA PlacesCut ==
  ASSUME NEW s \in Seq(Int), NEW n \in Nat, n <= Len(s), NEW k \in Nat, InPlace(s, k)
  PROVE  InPlace(First(s, n), k) /\ InPlace(Rest(s, n), k + n)
<1>1. /\ Len(First(s, n)) = n /\ Len(Rest(s, n)) = Len(s) - n /\ Len(s) \in Nat
      /\ \A i \in 1..n : First(s, n)[i] = s[i]
      /\ \A i \in 1..Len(Rest(s, n)) : Rest(s, n)[i] = s[i + n]
  BY CutInside
<1>2. \A i \in 1..n : i \in 1..Len(s)
  BY <1>1
<1>3. \A i \in 1..(Len(s) - n) : i + n \in 1..Len(s) /\ k + (i + n) = k + n + i
  BY <1>1
<1> QED BY <1>1, <1>2, <1>3 DEF InPlace

\* What is copied to a list: nothing where there is no buffer.
Masked(l, s) == [i \in 1..Len(s) |-> IF l[i] = "null" THEN 0 ELSE s[i]]

LEMMA PlacesMasked ==
  ASSUME NEW s \in Seq(Int), NEW l, NEW k \in Nat
  PROVE  /\ Masked(l, s) \in Seq(Int) /\ Len(Masked(l, s)) = Len(s)
         /\ InPlace(s, k) => Returned(Masked(l, s), k)
<1>1. Len(s) \in Nat /\ \A i \in 1..Len(s) : s[i] \in Int
  OBVIOUS
<1>2. Masked(l, s) \in Seq(Int) /\ Len(Masked(l, s)) = Len(s)
  BY <1>1 DEF Masked
<1>3. \A i \in 1..Len(s) : Masked(l, s)[i] = IF l[i] = "null" THEN 0 ELSE s[i]
  BY DEF Masked
<1> QED BY <1>1, <1>2, <1>3 DEF InPlace, Returned

-----------------------------------------------------------------------------
\* Bytes are sent: they go to the end of the last queue.
Joins(c, s, t) == c = s \o t
LEMMA FlowSendFar ==
  ASSUME NEW r \in Seq(Int), NEW g \in Seq(Int), NEW x \in Seq(Int), NEW a \in Seq(Int),
         NEW b \in Seq(Int), Flow(r, g, x, a, b), NEW n, n = Length(r, g, x, a, b),
         NEW t \in Seq(Int), InPlace(t, n), NEW c, Joins(c, b, t)
  PROVE  Flow(r, g, x, a, c) /\ Length(r, g, x, a, c) = n + Len(t)
<1>1. /\ Len(r) \in Nat /\ Len(g) \in Nat /\ Len(x) \in Nat /\ Len(a) \in Nat /\ Len(b) \in Nat
      /\ Len(t) \in Nat
  OBVIOUS
<1>2. Len(c) = Len(b) + Len(t)
  BY ConcatFacts DEF Joins
<1> DEFINE k == Len(r) + Len(g) + Len(x) + Len(a)
<1>3. k \in Nat /\ k + Len(b) = n
  BY <1>1 DEF Length
<1>4. /\ InPlace(b, k) /\ InPlace(a, Len(r) + Len(g) + Len(x)) /\ InPlace(x, Len(r) + Len(g))
      /\ Returned(r, 0) /\ Returned(g, Len(r))
  BY DEF Flow
<1> HIDE DEF k
<1>5. InPlace(c, k)
  BY <1>3, <1>4, PlacesConcat DEF Joins
<1>6. Flow(r, g, x, a, c)
  BY <1>4, <1>5 DEF Flow, k
<1>7. Length(r, g, x, a, c) = n + Len(t)
  BY <1>1, <1>2 DEF Length
<1> QED BY <1>6, <1>7

\* Over ipc that is the receiver's.
LEMMA FlowSendNear ==
  ASSUME NEW r \in Seq(Int), NEW g \in Seq(Int), NEW x \in Seq(Int), NEW a \in Seq(Int),
         Flow(r, g, x, a, <<>>), NEW n, n = Length(r, g, x, a, <<>>),
         NEW t \in Seq(Int), InPlace(t, n), NEW c, Joins(c, a, t)
  PROVE  Flow(r, g, x, c, <<>>) /\ Length(r, g, x, c, <<>>) = n + Len(t)
<1>1. /\ Len(r) \in Nat /\ Len(g) \in Nat /\ Len(x) \in Nat /\ Len(a) \in Nat /\ Len(<<>>) = 0
      /\ Len(t) \in Nat
  OBVIOUS
<1>2. Len(c) = Len(a) + Len(t)
  BY ConcatFacts DEF Joins
<1> DEFINE k == Len(r) + Len(g) + Len(x)
<1>3. k \in Nat /\ k + Len(a) = n
  BY <1>1 DEF Length
<1>4. /\ InPlace(a, k) /\ InPlace(x, Len(r) + Len(g)) /\ Returned(r, 0) /\ Returned(g, Len(r))
  BY DEF Flow
<1> HIDE DEF k
<1>5. InPlace(c, k)
  BY <1>3, <1>4, PlacesConcat DEF Joins
<1>6. Flow(r, g, x, c, <<>>)
  BY <1>4, <1>5, PlacesNone DEF Flow, k
<1>7. Length(r, g, x, c, <<>>) = n + Len(t)
  BY <1>1, <1>2 DEF Length
<1> QED BY <1>6, <1>7

\* A byte moves from the sender's queue to the receiver's.
LEMMA FlowDeliver ==
  ASSUME NEW r \in Seq(Int), NEW g \in Seq(Int), NEW x \in Seq(Int), NEW a \in Seq(Int),
         NEW b \in Seq(Int), b # <<>>, Flow(r, g, x, a, b)
  PROVE  /\ Flow(r, g, x, a \o <<Head(b)>>, Tail(b))
         /\ Length(r, g, x, a \o <<Head(b)>>, Tail(b)) = Length(r, g, x, a, b)
<1> DEFINE u == a \o <<Head(b)>>
           j == Len(r) + Len(g) + Len(x)
<1>1. /\ Len(r) \in Nat /\ Len(g) \in Nat /\ Len(x) \in Nat /\ Len(a) \in Nat
      /\ Len(b) \in Nat \ {0} /\ Head(b) = b[1] /\ Tail(b) \in Seq(Int) /\ <<Head(b)>> \in Seq(Int)
      /\ Len(Tail(b)) = Len(b) - 1 /\ \A i \in 1..(Len(b) - 1) : Tail(b)[i] = b[i + 1]
      /\ Len(<<Head(b)>>) = 1 /\ <<Head(b)>>[1] = Head(b)
  OBVIOUS
<1>2. Len(u) = Len(a) + 1 /\ u \in Seq(Int)
  BY <1>1, ConcatFacts
<1>3. InPlace(a, j) /\ InPlace(b, j + Len(a)) /\ j \in Nat
  BY <1>1 DEF Flow
<1>a. /\ InPlace(x, Len(r) + Len(g)) /\ Returned(r, 0) /\ Returned(g, Len(r))
  BY DEF Flow
<1> HIDE DEF j
<1>4. InPlace(<<Head(b)>>, j + Len(a))
  BY <1>1, <1>3 DEF InPlace
<1>5. InPlace(u, j)
  BY <1>1, <1>3, <1>4, PlacesConcat
<1> HIDE DEF u
<1>6. InPlace(Tail(b), j + Len(u))
  <2>1. \A i \in 1..(Len(b) - 1) : i + 1 \in 1..Len(b) /\ j + Len(a) + (i + 1) = j + Len(u) + i
    BY <1>1, <1>2, <1>3
  <2> QED BY <1>1, <1>3, <2>1 DEF InPlace
<1>7. Flow(r, g, x, u, Tail(b))
  BY <1>5, <1>6, <1>a DEF Flow, j
<1>8. Length(r, g, x, u, Tail(b)) = Length(r, g, x, a, b)
  BY <1>1, <1>2 DEF Length
<1> QED BY <1>7, <1>8 DEF u

\* A receive takes m bytes from the kernel: n of them are copied to the list and
\* the others stay in the rx buffer.
LEMMA FlowReceive ==
  ASSUME NEW r \in Seq(Int), NEW g \in Seq(Int), NEW a \in Seq(Int), NEW b \in Seq(Int), NEW l,
         NEW m \in Nat, NEW n \in Nat, n <= m, m <= Len(a), Flow(r, g, <<>>, a, b)
  PROVE  LET s == First(a, m)
             h == g \o Masked(l, First(s, n))
         IN /\ h \in Seq(Int) /\ Flow(r, h, Rest(s, n), Rest(a, m), b)
            /\ Length(r, h, Rest(s, n), Rest(a, m), b) = Length(r, g, <<>>, a, b)
<1> DEFINE s == First(a, m)
           f == First(s, n)
           c == Masked(l, f)
           h == g \o c
           k == Len(r) + Len(g)
<1>1. /\ Len(r) \in Nat /\ Len(g) \in Nat /\ Len(a) \in Nat /\ Len(b) \in Nat
      /\ Len(<<>>) = 0
  OBVIOUS
<1>2. /\ Returned(r, 0) /\ Returned(g, Len(r)) /\ InPlace(a, k) /\ InPlace(b, k + Len(a)) /\ k \in Nat
      /\ k = Len(r) + Len(g)
  BY <1>1 DEF Flow
<1> HIDE DEF k
<1>3. s \in Seq(Int) /\ Rest(a, m) \in Seq(Int) /\ Len(s) = m /\ Len(Rest(a, m)) = Len(a) - m
  BY CutInside
<1>4. InPlace(s, k) /\ InPlace(Rest(a, m), k + m)
  BY <1>2, PlacesCut
<1> HIDE DEF s
<1>5. f \in Seq(Int) /\ Rest(s, n) \in Seq(Int) /\ Len(f) = n /\ Len(Rest(s, n)) = m - n
  BY <1>3, CutInside
<1>6. InPlace(f, k) /\ InPlace(Rest(s, n), k + n)
  BY <1>2, <1>3, <1>4, PlacesCut
<1> HIDE DEF f
<1>7. c \in Seq(Int) /\ Len(c) = n /\ Returned(c, k)
  BY <1>2, <1>5, <1>6, PlacesMasked
<1> HIDE DEF c
<1>8. Returned(h, Len(r)) /\ h \in Seq(Int) /\ Len(h) = Len(g) + n
  <2>1. Returned(c, Len(r) + Len(g))
    BY <1>2, <1>7
  <2>2. Returned(h, Len(r))
    BY <1>1, <1>2, <1>7, <2>1, PlacesConcat
  <2> QED BY <1>7, <2>2, ConcatFacts
<1> HIDE DEF h
<1>9. /\ Len(r) + Len(h) = k + n /\ Len(r) + Len(h) + Len(Rest(s, n)) = k + m
      /\ Len(r) + Len(h) + Len(Rest(s, n)) + Len(Rest(a, m)) = k + Len(a)
  BY <1>1, <1>2, <1>3, <1>5, <1>8
<1>10. Flow(r, h, Rest(s, n), Rest(a, m), b)
  BY <1>2, <1>4, <1>6, <1>8, <1>9 DEF Flow
<1>11. Length(r, h, Rest(s, n), Rest(a, m), b) = Length(r, g, <<>>, a, b)
  <2>1. Len(r) + Len(g) + Len(<<>>) + Len(a) + Len(b) = k + Len(a) + Len(b)
    BY <1>1, <1>2
  <2> QED BY <1>9, <2>1 DEF Length
<1> QED BY <1>8, <1>10, <1>11 DEF s, f, c, h

\* A receive begins with the rx buffer.
LEMMA FlowBegin ==
  ASSUME NEW r \in Seq(Int), NEW x \in Seq(Int), NEW a \in Seq(Int), NEW b \in Seq(Int), NEW l,
         NEW n \in Nat, n <= Len(x), Flow(r, <<>>, x, a, b)
  PROVE  LET h == <<>> \o Masked(l, First(x, n))
         IN /\ h \in Seq(Int) /\ Flow(r, h, Rest(x, n), a, b)
            /\ Length(r, h, Rest(x, n), a, b) = Length(r, <<>>, x, a, b)
<1> DEFINE f == First(x, n)
           c == Masked(l, f)
           h == <<>> \o c
           k == Len(r)
<1>1. /\ k \in Nat /\ Len(x) \in Nat /\ Len(a) \in Nat /\ Len(b) \in Nat /\ Len(<<>>) = 0
  OBVIOUS
<1>2. /\ Returned(r, 0) /\ InPlace(x, k) /\ InPlace(a, k + Len(x)) /\ InPlace(b, k + Len(x) + Len(a))
  BY <1>1 DEF Flow
<1>3. f \in Seq(Int) /\ Rest(x, n) \in Seq(Int) /\ Len(f) = n /\ Len(Rest(x, n)) = Len(x) - n
  BY CutInside
<1>4. InPlace(f, k) /\ InPlace(Rest(x, n), k + n)
  BY <1>1, <1>2, PlacesCut
<1> HIDE DEF f
<1>5. c \in Seq(Int) /\ Len(c) = n /\ Returned(c, k)
  BY <1>1, <1>3, <1>4, PlacesMasked
<1> HIDE DEF c
<1>6. h = c
  BY <1>5
<1> HIDE DEF h
<1>a. Len(h) = n
  BY <1>5, <1>6
<1>7. /\ Len(r) + Len(h) = k + n /\ Len(r) + Len(h) + Len(Rest(x, n)) = k + Len(x)
  BY <1>1, <1>3, <1>a
<1>8. Flow(r, h, Rest(x, n), a, b)
  BY <1>2, <1>4, <1>5, <1>6, <1>7 DEF Flow
<1>9. Length(r, h, Rest(x, n), a, b) = Length(r, <<>>, x, a, b)
  <2>1. Len(r) + Len(<<>>) + Len(x) + Len(a) + Len(b) = k + Len(x) + Len(a) + Len(b)
    BY <1>1
  <2> QED BY <1>7, <2>1 DEF Length
<1> QED BY <1>5, <1>6, <1>8, <1>9 DEF f, c, h

\* A receive returns.
LEMMA FlowEnd ==
  ASSUME NEW r \in Seq(Int), NEW g \in Seq(Int), NEW x \in Seq(Int), NEW a \in Seq(Int),
         NEW b \in Seq(Int), Flow(r, g, x, a, b)
  PROVE  /\ Flow(r \o g, <<>>, x, a, b) /\ r \o g \in Seq(Int)
         /\ Length(r \o g, <<>>, x, a, b) = Length(r, g, x, a, b)
<1>1. /\ Len(r) \in Nat /\ Len(g) \in Nat /\ Len(x) \in Nat /\ Len(a) \in Nat /\ Len(b) \in Nat
      /\ Len(<<>>) = 0 /\ r \o g \in Seq(Int) /\ Len(r \o g) = Len(r) + Len(g) /\ 0 \in Nat
  BY ConcatFacts
<1>2. /\ Returned(r, 0) /\ Returned(g, 0 + Len(r)) /\ InPlace(x, Len(r) + Len(g))
      /\ InPlace(a, Len(r) + Len(g) + Len(x)) /\ InPlace(b, Len(r) + Len(g) + Len(x) + Len(a))
  BY <1>1 DEF Flow
<1>3. Returned(r \o g, 0)
  BY <1>1, <1>2, PlacesConcat
<1> DEFINE u == r \o g
<1> HIDE DEF u
<1>4. Len(u) = Len(r) + Len(g) /\ Len(u) + Len(<<>>) = Len(r) + Len(g) /\ Returned(u, 0)
  BY <1>1, <1>3 DEF u
<1>5. Returned(<<>>, Len(u))
  BY <1>1 DEF Returned
<1>6. Flow(u, <<>>, x, a, b)
  BY <1>2, <1>4, <1>5 DEF Flow
<1>7. Length(u, <<>>, x, a, b) = Length(r, g, x, a, b)
  BY <1>1, <1>4 DEF Length
<1> QED BY <1>1, <1>6, <1>7 DEF u

\* The first byte in the kernel is taken; it is returned if a descriptor came with it.
LEMMA FlowFd ==
  ASSUME NEW r \in Seq(Int), NEW a \in Seq(Int), NEW b \in Seq(Int), a # <<>>,
         Flow(r, <<>>, <<>>, a, b)
  PROVE  /\ Flow(Append(r, Head(a)), <<>>, <<>>, Tail(a), b) /\ Append(r, Head(a)) \in Seq(Int)
         /\ Length(Append(r, Head(a)), <<>>, <<>>, Tail(a), b) = Length(r, <<>>, <<>>, a, b)
<1> DEFINE u == Append(r, Head(a))
           t == Tail(a)
<1>1. /\ Len(r) \in Nat /\ Len(a) \in Nat \ {0} /\ Len(b) \in Nat /\ Len(<<>>) = 0
      /\ Head(a) = a[1] /\ t \in Seq(Int) /\ Len(t) = Len(a) - 1
      /\ \A i \in 1..(Len(a) - 1) : t[i] = a[i + 1]
  OBVIOUS
<1>2. u \in Seq(Int) /\ Len(u) = Len(r) + 1 /\ u[Len(r) + 1] = Head(a) /\ \A i \in 1..Len(r) : u[i] = r[i]
  OBVIOUS
<1>3. Returned(r, 0) /\ InPlace(a, Len(r)) /\ InPlace(b, Len(r) + Len(a))
  BY <1>1 DEF Flow
<1> HIDE DEF u, t
<1>4. Returned(u, 0)
  <2>1. \A i \in 1..Len(u) : i \in 1..Len(r) \/ i = Len(r) + 1
    BY <1>1, <1>2
  <2>2. u[Len(r) + 1] = Len(r) + 1 \/ u[Len(r) + 1] = -(Len(r) + 1)
    BY <1>1, <1>2, <1>3 DEF InPlace
  <2>3. \A i \in 1..Len(r) : u[i] = 0 \/ u[i] = 0 + i \/ u[i] = -(0 + i)
    BY <1>2, <1>3 DEF Returned
  <2>4. 0 + (Len(r) + 1) = Len(r) + 1
    BY <1>1
  <2> QED BY <2>1, <2>2, <2>3, <2>4 DEF Returned
<1>5. InPlace(t, Len(u))
  <2>a. Len(r) \in Nat /\ Len(a) \in Nat /\ Len(u) = Len(r) + 1
    BY <1>1, <1>2
  <2>1. \A i \in 1..(Len(a) - 1) : i + 1 \in 1..Len(a) /\ Len(r) + (i + 1) = Len(u) + i
    BY <2>a
  <2> QED BY <1>1, <1>3, <2>1 DEF InPlace
<1>6. Returned(<<>>, Len(u)) /\ InPlace(<<>>, Len(u) + Len(<<>>))
  BY <1>1 DEF Returned, InPlace
<1>7. /\ Len(u) + Len(<<>>) + Len(<<>>) = Len(u)
      /\ Len(u) + Len(<<>>) + Len(<<>>) + Len(t) = Len(r) + Len(a)
  BY <1>1, <1>2
<1>8. Flow(u, <<>>, <<>>, t, b)
  BY <1>3, <1>4, <1>5, <1>6, <1>7 DEF Flow
<1>9. Length(u, <<>>, <<>>, t, b) = Length(r, <<>>, <<>>, a, b)
  BY <1>1, <1>2 DEF Length
<1> QED BY <1>2, <1>8, <1>9 DEF u, t

-----------------------------------------------------------------------------
(***************************************************************************)
(* What the parts of the invariant depend on.                              *)
(***************************************************************************)
LEMMA SendKinds ==
  ASSUME StreamTypes, NEW p \in Peers
  PROVE  /\ snd[p] = Idle \/ snd[p] \in SendsBytes \/ snd[p] \in SendsFd
         /\ snd[p].pc \in Calls /\ snd[p].mode = "bytes" => snd[p] \in SendsBytes
         /\ snd[p].pc \in Calls /\ snd[p].mode = "fd" => snd[p] \in SendsFd
<1>1. snd[p] = Idle \/ snd[p] \in SendsBytes \/ snd[p] \in SendsFd
  BY DEF StreamTypes
<1>2. Idle.pc = "idle"
  BY DEF Idle
<1> QED BY <1>1, <1>2 DEF SendsBytes, SendsFd, Calls

LEMMA SendFields ==
  /\ \A o \in SendsBytes : /\ o.pc \in Calls /\ o.mode = "bytes" /\ o.next \in Nat \ {0} /\ o.left \in Nat
                           /\ o.trail \in BOOLEAN /\ o # Idle /\ o \notin SendsFd
  /\ \A o \in SendsFd : o.pc \in Calls /\ o.mode = "fd" /\ o # Idle /\ o \notin SendsBytes
  /\ Idle \notin SendsBytes /\ Idle \notin SendsFd
BY DEF SendsBytes, SendsFd, Calls, Idle

LEMMA RecvKinds ==
  ASSUME StreamTypes, NEW p \in Peers
  PROVE  /\ rcv[p] = Idle \/ rcv[p] \in ReceivesBytes \/ rcv[p] \in ReceivesFd \/ rcv[p] \in Drains
         /\ rcv[p].pc \in Calls /\ rcv[p].mode \in {"direct", "buffered"} => rcv[p] \in ReceivesBytes
         /\ rcv[p].pc \in Calls /\ rcv[p].mode = "fd" => rcv[p] \in ReceivesFd
         /\ rcv[p].pc \in Calls /\ rcv[p].mode = "drain" => rcv[p] \in Drains
<1>1. rcv[p] = Idle \/ rcv[p] \in ReceivesBytes \/ rcv[p] \in ReceivesFd \/ rcv[p] \in Drains
  BY DEF StreamTypes
<1>2. Idle.pc = "idle"
  BY DEF Idle
<1> QED BY <1>1, <1>2 DEF ReceivesBytes, ReceivesFd, Drains, Calls

LEMMA RecvFields ==
  /\ \A o \in ReceivesBytes :
       /\ o.pc \in Calls /\ o.mode \in {"direct", "buffered"} /\ o.todo \in Seq({"buf", "null"})
       /\ o.got \in Seq(Int) /\ o # Idle /\ o \notin ReceivesFd /\ o \notin Drains
  /\ \A o \in ReceivesFd : o.pc \in Calls /\ o.mode = "fd" /\ o # Idle /\ o \notin ReceivesBytes
                           /\ o \notin Drains
  /\ \A o \in Drains : o.pc \in Calls /\ o.mode = "drain" /\ o # Idle /\ o \notin ReceivesBytes
                       /\ o \notin ReceivesFd
  /\ Idle \notin ReceivesBytes /\ Idle \notin ReceivesFd /\ Idle \notin Drains
<1>1. \A o \in ReceivesBytes : o.pc \in Calls /\ o.mode \in {"direct", "buffered"}
  BY DEF ReceivesBytes
<1>2. \A o \in ReceivesBytes : o.todo \in Seq({"buf", "null"}) /\ o.got \in Seq(Int)
  BY DEF ReceivesBytes
<1>3. \A o \in ReceivesFd : o.pc \in Calls /\ o.mode = "fd"
  BY DEF ReceivesFd
<1>4. \A o \in Drains : o.pc \in Calls /\ o.mode = "drain"
  BY DEF Drains
<1>5. Idle.pc \notin Calls
  BY DEF Idle, Calls
<1> QED BY <1>1, <1>2, <1>3, <1>4, <1>5

LEMMA KeepsReceiver ==
  ASSUME NEW p, Receiver(p), kind' = kind, rcv'[p] = rcv[p], rx'[p] = rx[p],
         conn'[p].indone <=> conn[p].indone, conn'[p].inerr <=> conn[p].inerr,
         conn'[p].closed = conn[p].closed, conn[p].outerr => conn'[p].outerr,
         skipfail[p] => skipfail'[p], rst'[p] = "reported" => rst[p] = "reported" \/ conn'[p].outerr
  PROVE  Receiver(p)'
BY DEF Receiver

LEMMA GoneStays ==
  ASSUME NEW p, kind' = kind, conn[p].outdone => conn'[p].outdone,
         conn'[p].closed = "no" => conn[p].closed = "no"
  PROVE  Gone(p) => Gone(p)'
BY DEF Gone, Shut

LEMMA KeepsPipe ==
  ASSUME NEW p, Pipe(p), kind' = kind, sndq'[p] = sndq[p], rcvq'[Other(p)] = rcvq[Other(p)],
         lost'[p] = lost[p], conn[p].outdone => conn'[p].outdone,
         conn'[p].closed = "no" => conn[p].closed = "no",
         conn'[Other(p)].closed = "no" => conn[Other(p)].closed = "no",
         snd'[p] \in SendsFd => snd[p] \in SendsFd /\ (snd'[p].pc = "run" => snd[p].pc = "run")
  PROVE  Pipe(p)'
<1>1. Gone(p) => Gone(p)'
  BY GoneStays
<1>2. Space(p)' = Space(p)
  BY DEF Space
<1>3. kind = "ipc" /\ SendFails(p) => SendFails(p)'
  BY DEF SendFails, Shut
<1> QED BY <1>1, <1>2, <1>3 DEF Pipe

LEMMA KeepsPlaces ==
  ASSUME NEW p, Places(p), recvd'[p] = recvd[p], Got(p)' = Got(p), rx'[p] = rx[p],
         Data(rcvq'[p]) = Data(rcvq[p]), Data(sndq'[Other(p)]) = Data(sndq[Other(p)]),
         skipfail[p] => skipfail'[p], Live(p)' => Live(p),
         Live(p)' /\ MaySend(Other(p))' => MaySend(Other(p)) /\ Handed(Other(p))' = Handed(Other(p)),
         snd'[p] \in SendsBytes => snd'[p].next + snd'[p].left = offered'[p] + 1
  PROVE  Places(p)'
BY DEF Places

LEMMA KeepsEnd ==
  ASSUME NEW p, EndSeen(p), kind' = kind, conn'[p].indone <=> conn[p].indone,
         conn[p].outerr => conn'[p].outerr, skipfail[p] => skipfail'[p],
         Gone(Other(p)) => Gone(Other(p))', sndq[Other(p)] = <<>> => sndq'[Other(p)] = <<>>,
         Data(rcvq[p]) = <<>> => Data(rcvq'[p]) = <<>>, lost'[Other(p)] = lost[Other(p)]
  PROVE  EndSeen(p)'
BY DEF EndSeen

\* A step that leaves the network, the sending side of p and the history alone.
LEMMA KeepsLive ==
  ASSUME NEW p, conn'[p] = conn[p], skipfail'[p] = skipfail[p], rcv'[p] = rcv[p]
  PROVE  (Live(p)' <=> Live(p)) /\ Got(p)' = Got(p)
BY DEF Live, Got

LEMMA KeepsMaySend ==
  ASSUME NEW p, conn'[p] = conn[p], kind' = kind, snd'[p] = snd[p], rst'[p] = rst[p], offered'[p] = offered[p]
  PROVE  (MaySend(p)' <=> MaySend(p)) /\ Handed(p)' = Handed(p)
BY DEF MaySend, Handed

-----------------------------------------------------------------------------
(***************************************************************************)
(* The steps.                                                              *)
(***************************************************************************)

\* A byte, or the end of the stream, arrives.
LEMMA DeliverInv ==
  ASSUME StreamInv, NEW p \in Peers, Deliver(p) PROVE StreamInv'
<1> DEFINE q == Other(p)
<1>1. /\ q \in Peers /\ q # p /\ Other(q) = p /\ \A y \in Peers : y = p \/ y = q
  BY TwoPeers
<1>2. /\ StreamTypes /\ Receiver(p) /\ Pipe(p) /\ Places(p) /\ EndSeen(p)
      /\ Receiver(q) /\ Pipe(q) /\ Places(q) /\ EndSeen(q)
  BY <1>1 DEF StreamInv
<1> HIDE DEF q
<1>a. q = Other(p)
  BY DEF q
<1>3. /\ sndq[p] \in Seq(Int) /\ rcvq[q] \in Seq(Int) /\ sndq[p] # <<>>
      /\ Shape(sndq[p]) /\ Shape(rcvq[q]) /\ ~Ended(rcvq[q])
  BY <1>1, <1>2, <1>a DEF StreamTypes, Pipe, Deliver
<1>4. /\ sndq' = [sndq EXCEPT ![p] = Tail(sndq[p])]
      /\ rcvq' = [rcvq EXCEPT ![q] = Append(rcvq[q], Head(sndq[p]))]
      /\ UNCHANGED <<kind, conn, rx, snd, rcv, rst, offered, recvd, lost, skipfail, dead>>
  BY <1>a DEF Deliver
<1>5. /\ Tail(sndq[p]) \in Seq(Int) /\ Head(sndq[p]) \in Int /\ Shape(Tail(sndq[p]))
      /\ Head(sndq[p]) = 0 => /\ Tail(sndq[p]) = <<>> /\ Ended(sndq[p]) /\ Data(sndq[p]) = <<>>
      /\ Head(sndq[p]) # 0 => /\ Data(sndq[p]) # <<>> /\ Data(Tail(sndq[p])) = Tail(Data(sndq[p]))
                              /\ Head(Data(sndq[p])) = Head(sndq[p])
                              /\ (Ended(Tail(sndq[p])) <=> Ended(sndq[p]))
  BY <1>3, DataTail
<1>6. /\ sndq'[p] = Tail(sndq[p]) /\ sndq'[q] = sndq[q] /\ rcvq'[p] = rcvq[p]
      /\ rcvq'[q] = Append(rcvq[q], Head(sndq[p]))
  BY <1>1, <1>2, <1>4 DEF StreamTypes
<1>7. StreamTypes'
  <2>1. Append(rcvq[q], Head(sndq[p])) \in Seq(Int)
    BY <1>3, <1>5
  <2>2. sndq' \in [Peers -> Seq(Int)] /\ rcvq' \in [Peers -> Seq(Int)]
    BY <1>1, <1>2, <1>4, <1>5, <2>1 DEF StreamTypes
  <2> QED BY <1>2, <1>4, <2>2 DEF StreamTypes
<1>8. Receiver(p)' /\ Receiver(q)'
  BY <1>2, <1>4, KeepsReceiver
<1>9. kind = "tcp"
  BY <1>2, <1>3 DEF Pipe, StreamTypes
<1>10. lost[p] = 0 /\ lost[q] = lost'[q]
  BY <1>2, <1>3, <1>4 DEF Pipe
<1>11. Gone(p)' <=> Gone(p)
  BY <1>4 DEF Gone, Shut
<1>12. Pipe(q)'
  BY <1>1, <1>2, <1>4, <1>6, KeepsPipe
<1>13. EndSeen(p)'
  BY <1>1, <1>2, <1>4, <1>6, <1>a, KeepsEnd, GoneStays
<1>14. Places(p)'
  BY <1>1, <1>2, <1>4, <1>6, <1>a, KeepsPlaces, KeepsLive, KeepsMaySend DEF Places
<1>15. EndSeen(q)'
  BY <1>1, <1>2, <1>3, <1>4 DEF EndSeen
<1>16. CASE Head(sndq[p]) = 0
  <2>1. /\ rcvq'[q] \in Seq(Int) /\ Data(rcvq'[q]) = rcvq[q] /\ Data(rcvq[q]) = rcvq[q]
        /\ Ended(rcvq'[q]) /\ Shape(rcvq'[q])
    BY <1>3, <1>6, <1>16, DataEnds
  <2>2. Data(<<>>) = <<>> /\ ~Ended(<<>>) /\ Shape(<<>>) /\ Len(<<>>) = 0
    BY DEF Data, Ended, Shape, NoEnd
  <2>3. sndq'[p] = <<>> /\ Data(sndq[p]) = <<>> /\ Ended(sndq[p])
    BY <1>5, <1>6, <1>16
  <2>4. Pipe(p)'
    <3>1. Space(p)' >= 0
      <4>1. Space(p)' = Cap - 0
        BY <1>4, <1>9, <2>2, <2>3 DEF Space
      <4> QED BY <4>1, StreamAssumption
    <3>2. Gone(p)'
      BY <1>2, <1>11, <2>3 DEF Pipe
    <3> QED BY <1>2, <1>4, <1>9, <1>10, <1>a, <2>1, <2>2, <2>3, <3>1, <3>2 DEF Pipe
  <2>5. Places(q)'
    BY <1>1, <1>2, <1>4, <2>1, <2>2, <2>3, KeepsPlaces, KeepsLive, KeepsMaySend DEF Places
  <2> QED BY <1>1, <1>7, <1>8, <1>12, <1>13, <1>14, <1>15, <2>4, <2>5 DEF StreamInv
<1>17. CASE Head(sndq[p]) # 0
  <2> DEFINE x == Head(sndq[p])
  <2>1. /\ <<x>> \in Seq(Int) /\ NoEnd(<<x>>) /\ rcvq'[q] = rcvq[q] \o <<x>>
    <3>1. x \in Int /\ x # 0
      BY <1>3, <1>5, <1>17
    <3>2. rcvq[q] \in Seq(Int) /\ rcvq'[q] = Append(rcvq[q], x)
      BY <1>3, <1>6
    <3> HIDE DEF x
    <3>3. <<x>> \in Seq(Int) /\ NoEnd(<<x>>)
      BY <3>1 DEF NoEnd
    <3>4. Append(rcvq[q], x) = rcvq[q] \o <<x>>
      BY <3>1, <3>2
    <3> QED BY <3>2, <3>3, <3>4
  <2>2. /\ Data(rcvq'[q]) = rcvq[q] \o <<x>> /\ Data(rcvq[q]) = rcvq[q] /\ ~Ended(rcvq'[q])
        /\ Shape(rcvq'[q])
    BY <1>3, <2>1, DataConcat
  <2>3. /\ Data(sndq'[p]) = Tail(Data(sndq[p])) /\ Data(sndq[p]) # <<>> /\ x = Head(Data(sndq[p]))
        /\ (Ended(sndq'[p]) <=> Ended(sndq[p])) /\ Shape(sndq'[p])
    BY <1>5, <1>6, <1>17
  <2>4. Pipe(p)'
    <3>1. Space(p)' >= 0
      <4>1. Data(sndq[p]) \in Seq(Int) /\ Data(sndq[p]) # <<>>
        BY <1>3, <2>3, DataFacts
      <4>2. Len(Tail(Data(sndq[p]))) = Len(Data(sndq[p])) - 1 /\ Len(Data(sndq[p])) \in Nat
        BY <4>1
      <4>3. Space(p) = Cap - Len(Data(sndq[p])) /\ Space(p)' = Cap - Len(Tail(Data(sndq[p])))
        BY <1>4, <1>9, <2>3 DEF Space
      <4>4. Space(p) >= 0 /\ Cap \in Nat
        BY <1>2, StreamAssumption DEF Pipe
      <4> QED BY <4>2, <4>3, <4>4
    <3> QED BY <1>2, <1>4, <1>9, <1>10, <1>11, <1>a, <2>2, <2>3, <3>1 DEF Pipe
  <2>5. Places(q)'
    <3>1. /\ (Live(q)' <=> Live(q)) /\ Got(q)' = Got(q) /\ (MaySend(p)' <=> MaySend(p))
          /\ Handed(p)' = Handed(p)
      BY <1>4, KeepsLive, KeepsMaySend
    <3> DEFINE a == Data(rcvq[q])
               b == Data(sndq[p])
    <3>2. /\ recvd[q] \in Seq(Int) /\ Got(q) \in Seq(Int) /\ rx[q] \in Seq(Int)
          /\ a \in Seq(Int) /\ b \in Seq(Int)
      BY <1>1, <1>2, <1>3, DataFacts, RecvFields DEF StreamTypes, Got
    <3>3. /\ Data(rcvq'[q]) = a \o <<Head(b)>> /\ Data(sndq'[p]) = Tail(b) /\ b # <<>>
      BY <2>2, <2>3
    <3> HIDE DEF a, b
    <3>4. ASSUME Flow(recvd[q], Got(q), rx[q], a, b)
          PROVE  /\ Flow(recvd[q], Got(q), rx[q], a \o <<Head(b)>>, Tail(b))
                 /\ Length(recvd[q], Got(q), rx[q], a \o <<Head(b)>>, Tail(b))
                      = Length(recvd[q], Got(q), rx[q], a, b)
      BY <3>2, <3>3, <3>4, FlowDeliver
    <3>5. /\ skipfail[q] \/ Returned(recvd[q], 0)
          /\ Live(q) => Flow(recvd[q], Got(q), rx[q], a, b)
          /\ Live(q) /\ MaySend(p) => Length(recvd[q], Got(q), rx[q], a, b) = Handed(p)
          /\ snd[q] \in SendsBytes => snd[q].next + snd[q].left = offered[q] + 1
      BY <1>1, <1>2 DEF Places, a, b
    <3> QED BY <1>1, <1>4, <3>1, <3>3, <3>4, <3>5 DEF Places
  <2> QED BY <1>1, <1>7, <1>8, <1>12, <1>13, <1>14, <1>15, <2>4, <2>5 DEF StreamInv
<1> QED BY <1>16, <1>17

LEMMA StreamParts ==
  ASSUME StreamInv, NEW p \in Peers
  PROVE  /\ Other(p) \in Peers /\ Other(p) # p /\ Other(Other(p)) = p
         /\ StreamTypes /\ Receiver(p) /\ Pipe(p) /\ Places(p) /\ EndSeen(p)
         /\ Receiver(Other(p)) /\ Pipe(Other(p)) /\ Places(Other(p)) /\ EndSeen(Other(p))
BY TwoPeers DEF StreamInv

LEMMA StreamWhole ==
  ASSUME NEW p \in Peers, StreamTypes', Receiver(p)', Pipe(p)', Places(p)', EndSeen(p)',
         Receiver(Other(p))', Pipe(Other(p))', Places(Other(p))', EndSeen(Other(p))'
  PROVE  StreamInv'
<1>1. \A y \in Peers : y = p \/ y = Other(p)
  BY TwoPeers
<1> QED BY <1>1 DEF StreamInv

\* The kernel accepts the bytes t, the next places of the stream.
LEMMA AcceptInv ==
  ASSUME StreamInv, StreamTypes', NEW p \in Peers, Open(p), ~SendFails(p), snd[p] # Idle,
         NEW t \in Seq(Int), NoEnd(t), Len(t) <= Space(p), InPlace(t, Handed(p)), Accepted(p, t),
         kind' = kind, conn' = conn, rx' = rx, rcv' = rcv, rst' = rst, recvd' = recvd,
         lost' = lost, skipfail' = skipfail, snd'[Other(p)] = snd[Other(p)],
         offered'[Other(p)] = offered[Other(p)],
         snd'[p] \notin SendsFd, Handed(p)' = Handed(p) + Len(t),
         snd'[p] \in SendsBytes => snd'[p].next + snd'[p].left = offered'[p] + 1
  PROVE  StreamInv'
<1> DEFINE q == Other(p)
<1>1. /\ q \in Peers /\ q # p /\ Other(q) = p
      /\ StreamTypes /\ Receiver(p) /\ Pipe(p) /\ Places(p) /\ EndSeen(p)
      /\ Receiver(q) /\ Pipe(q) /\ Places(q) /\ EndSeen(q)
  BY StreamParts
<1> HIDE DEF q
<1>a. q = Other(p)
  BY DEF q
<1>2. ~Gone(p) /\ MaySend(p) /\ conn[p].closed = "no" /\ ~Gone(p)'
  BY DEF Gone, SendFails, MaySend, Open, Shut
<1>3. /\ sndq[p] \in Seq(Int) /\ rcvq[q] \in Seq(Int) /\ Shape(sndq[p]) /\ Shape(rcvq[q])
      /\ ~Ended(sndq[p]) /\ ~Ended(rcvq[q]) /\ lost[p] = 0 /\ Space(p) >= 0
      /\ Data(sndq[p]) = sndq[p] /\ Data(rcvq[q]) = rcvq[q]
      /\ (kind = "ipc" => sndq[p] = <<>>) /\ kind \in {"tcp", "ipc"}
  BY <1>1, <1>2, <1>a, DataFacts DEF StreamTypes, Pipe
<1>4. /\ sndq[p] \o t \in Seq(Int) /\ Data(sndq[p] \o t) = sndq[p] \o t /\ ~Ended(sndq[p] \o t)
      /\ Shape(sndq[p] \o t) /\ Len(sndq[p] \o t) = Len(sndq[p]) + Len(t)
  BY <1>3, DataConcat
<1>5. /\ rcvq[q] \o t \in Seq(Int) /\ Data(rcvq[q] \o t) = rcvq[q] \o t /\ ~Ended(rcvq[q] \o t)
      /\ Shape(rcvq[q] \o t) /\ Len(rcvq[q] \o t) = Len(rcvq[q]) + Len(t)
  BY <1>3, DataConcat
<1>6. /\ kind = "tcp" => sndq'[p] = sndq[p] \o t /\ rcvq'[q] = rcvq[q]
      /\ kind = "ipc" => rcvq'[q] = rcvq[q] \o t /\ sndq'[p] = sndq[p]
      /\ sndq'[q] = sndq[q] /\ rcvq'[p] = rcvq[p]
  <2>1. sndq \in [Peers -> Seq(Int)] /\ rcvq \in [Peers -> Seq(Int)]
    BY <1>1 DEF StreamTypes
  <2>2. /\ kind = "tcp" => sndq' = [sndq EXCEPT ![p] = sndq[p] \o t] /\ rcvq' = rcvq
        /\ kind = "ipc" => rcvq' = [rcvq EXCEPT ![q] = rcvq[q] \o t] /\ sndq' = sndq
    BY <1>a, Zenon DEF Accepted
  <2> QED BY <1>1, <1>3, <2>1, <2>2
<1>7. Receiver(p)' /\ Receiver(q)'
  BY <1>1, KeepsReceiver
<1>8. Pipe(q)'
  BY <1>1, <1>6, <1>a, KeepsPipe
<1>9. EndSeen(p)'
  BY <1>1, <1>6, <1>a, KeepsEnd, GoneStays
<1>10. EndSeen(q)'
  BY <1>1, <1>2 DEF EndSeen
<1>11. Places(p)'
  BY <1>1, <1>6, <1>a, KeepsPlaces, KeepsLive, KeepsMaySend
<1>12. Pipe(p)'
  <2>1. Space(p)' = Space(p) - Len(t)
    <3>1. CASE kind = "tcp"
      <4>1. Space(p) = Cap - Len(sndq[p]) /\ Space(p)' = Cap - (Len(sndq[p]) + Len(t))
        BY <1>3, <1>4, <1>6, <3>1 DEF Space
      <4> QED BY <1>3, <4>1, StreamAssumption
    <3>2. CASE kind = "ipc"
      <4>1. Space(p) = Cap - Len(rcvq[q]) /\ Space(p)' = Cap - (Len(rcvq[q]) + Len(t))
        BY <1>3, <1>5, <1>6, <1>a, <3>2 DEF Space
      <4> QED BY <1>3, <4>1, StreamAssumption
    <3> QED BY <1>3, <3>1, <3>2
  <2>2. Space(p) \in Int /\ Len(t) \in Nat
    BY <1>1, <1>3, <1>a, StreamAssumption DEF Space
  <2>3. Space(p)' >= 0
    BY <2>1, <2>2
  <2>4. Shape(sndq'[p]) /\ Shape(rcvq'[q]) /\ ~Ended(sndq'[p]) /\ ~Ended(rcvq'[q])
        /\ (kind = "ipc" => sndq'[p] = <<>>)
    BY <1>3, <1>4, <1>5, <1>6
  <2> QED BY <1>2, <1>3, <1>a, <2>3, <2>4 DEF Pipe
<1>13. Places(q)'
  <2>1. (Live(q)' <=> Live(q)) /\ Got(q)' = Got(q)
    BY KeepsLive
  <2> DEFINE a == Data(rcvq[q])
             b == Data(sndq[p])
             a2 == Data(rcvq'[q])
             b2 == Data(sndq'[p])
  <2>2. /\ recvd[q] \in Seq(Int) /\ Got(q) \in Seq(Int) /\ rx[q] \in Seq(Int)
        /\ a \in Seq(Int) /\ b \in Seq(Int)
    BY <1>1, <1>3, RecvFields DEF StreamTypes, Got
  <2>3. /\ kind = "tcp" => a2 = a /\ b2 = b \o t
        /\ kind = "ipc" => a2 = a \o t /\ b2 = b /\ b = <<>>
    BY <1>3, <1>4, <1>5, <1>6
  <2>4. /\ skipfail[q] \/ Returned(recvd[q], 0)
        /\ Live(q) => Flow(recvd[q], Got(q), rx[q], a, b)
        /\ Live(q) => Length(recvd[q], Got(q), rx[q], a, b) = Handed(p)
        /\ snd[q] \in SendsBytes => snd[q].next + snd[q].left = offered[q] + 1
    BY <1>1, <1>2 DEF Places
  <2> HIDE DEF a, b, a2, b2
  <2>5. ASSUME Live(q)
        PROVE  /\ Flow(recvd[q], Got(q), rx[q], a2, b2)
               /\ Length(recvd[q], Got(q), rx[q], a2, b2) = Handed(p) + Len(t)
    <3>1. /\ Handed(p) = Length(recvd[q], Got(q), rx[q], a, b) /\ InPlace(t, Handed(p))
          /\ Flow(recvd[q], Got(q), rx[q], a, b)
      BY <2>4, <2>5
    <3>2. CASE kind = "tcp"
      <4>1. a2 = a /\ Joins(b2, b, t)
        BY <2>3, <3>2 DEF Joins
      <4>2. /\ Flow(recvd[q], Got(q), rx[q], a, b2)
            /\ Length(recvd[q], Got(q), rx[q], a, b2) = Handed(p) + Len(t)
        BY <2>2, <3>1, <4>1, FlowSendFar
      <4> QED BY <2>4, <2>5, <4>1, <4>2
    <3>3. CASE kind = "ipc"
      <4>1. Joins(a2, a, t) /\ b2 = b /\ b = <<>>
        BY <2>3, <3>3 DEF Joins
      <4>2. /\ Flow(recvd[q], Got(q), rx[q], a2, <<>>)
            /\ Length(recvd[q], Got(q), rx[q], a2, <<>>) = Handed(p) + Len(t)
        BY <2>2, <3>1, <4>1, FlowSendNear
      <4> QED BY <2>4, <2>5, <4>1, <4>2
    <3> QED BY <1>3, <3>2, <3>3
  <2> QED BY <1>1, <1>a, <2>1, <2>4, <2>5 DEF Places, a2, b2
<1> QED BY <1>7, <1>8, <1>9, <1>10, <1>11, <1>12, <1>13, <1>a, StreamWhole

\* Only the sending side of p changes, and nothing is handed to the kernel.
LEMMA SendSideInv ==
  ASSUME StreamInv, StreamTypes', NEW p \in Peers,
         kind' = kind, rx' = rx, rcv' = rcv, recvd' = recvd, lost' = lost, skipfail' = skipfail,
         sndq' = sndq, rcvq' = rcvq, snd'[Other(p)] = snd[Other(p)], conn'[Other(p)] = conn[Other(p)],
         rst'[Other(p)] = rst[Other(p)], offered'[Other(p)] = offered[Other(p)],
         conn'[p].indone <=> conn[p].indone, conn'[p].inerr <=> conn[p].inerr,
         conn'[p].outdone <=> conn[p].outdone,
         conn'[p].closed = conn[p].closed, conn[p].outerr => conn'[p].outerr,
         rst'[p] = rst[p] \/ conn'[p].outerr,
         MaySend(p)' => MaySend(p) /\ Handed(p)' = Handed(p),
         snd'[p] \in SendsFd => /\ kind = "ipc"
                                /\ snd'[p].pc = "run" => Space(p) > 0 \/ SendFails(p),
         snd'[p] \in SendsBytes => snd'[p].next + snd'[p].left = offered'[p] + 1
  PROVE  StreamInv'
<1> DEFINE q == Other(p)
<1>1. /\ q \in Peers /\ q # p /\ Other(q) = p
      /\ StreamTypes /\ Receiver(p) /\ Pipe(p) /\ Places(p) /\ EndSeen(p)
      /\ Receiver(q) /\ Pipe(q) /\ Places(q) /\ EndSeen(q)
  BY StreamParts
<1> HIDE DEF q
<1>a. q = Other(p)
  BY DEF q
<1>2. Receiver(p)' /\ Receiver(q)'
  BY <1>1, <1>a, KeepsReceiver
<1>3. Pipe(q)'
  BY <1>1, <1>a, KeepsPipe
<1>4. Pipe(p)'
  <2>1. Gone(p) <=> Gone(p)'
    BY DEF Gone, Shut
  <2>2. Space(p)' = Space(p)
    BY DEF Space
  <2>3. kind = "ipc" /\ SendFails(p) => SendFails(p)'
    BY <1>a DEF SendFails, Shut
  <2> QED BY <1>1, <2>1, <2>2, <2>3 DEF Pipe
<1>5. EndSeen(p)' /\ EndSeen(q)'
  BY <1>1, <1>a, KeepsEnd, GoneStays
<1>6. Places(p)'
  <2>1. Got(p)' = Got(p) /\ (Live(p)' => Live(p))
    BY DEF Got, Live
  <2> QED BY <1>1, <1>a, <2>1, KeepsPlaces, KeepsMaySend
<1>7. Places(q)'
  <2>1. snd[q] \in SendsBytes => snd[q].next + snd[q].left = offered[q] + 1
    BY <1>1 DEF Places
  <2> QED BY <1>1, <1>a, <2>1, KeepsPlaces, KeepsLive
<1> QED BY <1>2, <1>3, <1>4, <1>5, <1>6, <1>7, <1>a, StreamWhole

-----------------------------------------------------------------------------
\* Sending.

\* snd[p] and nothing else that has to do with types.
LEMMA SendTypes ==
  ASSUME StreamTypes, NEW p \in Peers, NEW o, o = Idle \/ o \in SendsBytes \/ o \in SendsFd,
         snd' = [snd EXCEPT ![p] = o]
  PROVE  /\ snd' \in [Peers -> {Idle} \cup SendsBytes \cup SendsFd] /\ snd'[p] = o
         /\ snd'[Other(p)] = snd[Other(p)]
<1>1. Other(p) \in Peers /\ Other(p) # p
  BY TwoPeers
<1>2. snd \in [Peers -> {Idle} \cup SendsBytes \cup SendsFd]
  BY DEF StreamTypes
<1> QED BY <1>1, <1>2

LEMMA AcceptedTypes ==
  ASSUME StreamTypes, NEW p \in Peers, NEW t \in Seq(Int), Accepted(p, t)
  PROVE  sndq' \in [Peers -> Seq(Int)] /\ rcvq' \in [Peers -> Seq(Int)]
<1>1. Other(p) \in Peers
  BY TwoPeers
<1>2. sndq \in [Peers -> Seq(Int)] /\ rcvq \in [Peers -> Seq(Int)]
  BY DEF StreamTypes
<1>3. sndq[p] \o t \in Seq(Int) /\ rcvq[Other(p)] \o t \in Seq(Int)
  BY <1>1, <1>2, ConcatFacts
<1>4. CASE kind = "tcp"
  <2>1. sndq' = [sndq EXCEPT ![p] = sndq[p] \o t] /\ rcvq' = rcvq
    BY <1>4, Zenon DEF Accepted
  <2> QED BY <1>2, <1>3, <2>1
<1>5. CASE kind # "tcp"
  <2>1. rcvq' = [rcvq EXCEPT ![Other(p)] = rcvq[Other(p)] \o t] /\ sndq' = sndq
    BY <1>5, Zenon DEF Accepted
  <2> QED BY <1>1, <1>2, <1>3, <2>1
<1> QED BY <1>4, <1>5

\* A flag of p's socket is set.
Flags == [indone : BOOLEAN, outdone : BOOLEAN, inerr : BOOLEAN, outerr : BOOLEAN,
          closed : {"no", "hclose", "ok", "error"}]
LEMMA ConnTypes ==
  ASSUME StreamTypes, NEW p \in Peers, NEW c \in Flags, conn' = [conn EXCEPT ![p] = c]
  PROVE  conn' \in [Peers -> Flags] /\ conn'[p] = c /\ conn'[Other(p)] = conn[Other(p)]
<1>1. Other(p) \in Peers /\ Other(p) # p
  BY TwoPeers
<1>2. conn \in [Peers -> Flags]
  BY DEF StreamTypes, Flags
<1> QED BY <1>1, <1>2

LEMMA FlagSet ==
  ASSUME NEW c \in Flags
  PROVE  /\ [c EXCEPT !.indone = TRUE] \in Flags /\ [c EXCEPT !.outdone = TRUE] \in Flags
         /\ [c EXCEPT !.inerr = TRUE] \in Flags /\ [c EXCEPT !.outerr = TRUE] \in Flags
         /\ \A r \in {"no", "hclose", "ok", "error"} : [c EXCEPT !.closed = r] \in Flags
BY DEF Flags

LEMMA BSendInv ==
  ASSUME StreamInv, NEW p \in Peers, NEW l \in SendLists[p], BSend(p, l) PROVE StreamInv'
<1> DEFINE o == [pc |-> "run", mode |-> "bytes", next |-> offered[p] + 1,
                 left |-> l.left, trail |-> l.trail]
<1>1. StreamTypes /\ Other(p) \in Peers /\ Other(p) # p
  BY StreamParts
<1>2. /\ offered \in [Peers -> Nat] /\ offered[p] \in Nat /\ l.left \in Nat /\ l.trail \in BOOLEAN
  BY <1>1, StreamAssumption DEF StreamTypes
<1>3. /\ snd' = [snd EXCEPT ![p] = o] /\ snd[p] = Idle /\ ~conn[p].outerr
      /\ offered' = [offered EXCEPT ![p] = offered[p] + l.left]
      /\ UNCHANGED <<kind, conn, rx, rcv, sndq, rcvq, rst, recvd, lost, skipfail, dead>>
  BY DEF BSend
<1>4. o \in SendsBytes /\ o.next = offered[p] + 1 /\ o.left = l.left
  BY <1>2 DEF SendsBytes, Calls
<1> HIDE DEF o
<1>5. /\ snd' \in [Peers -> {Idle} \cup SendsBytes \cup SendsFd] /\ snd'[p] = o
      /\ snd'[Other(p)] = snd[Other(p)]
  BY <1>1, <1>3, <1>4, SendTypes
<1>6. /\ offered' \in [Peers -> Nat] /\ offered'[p] = offered[p] + l.left
      /\ offered'[Other(p)] = offered[Other(p)]
  BY <1>1, <1>2, <1>3
<1>7. StreamTypes'
  BY <1>1, <1>3, <1>5, <1>6 DEF StreamTypes
<1>8. MaySend(p)' => MaySend(p) /\ Handed(p)' = Handed(p)
  <2>1. MaySend(p)' => MaySend(p)
    BY <1>3 DEF MaySend
  <2>2. Handed(p)' = o.next - 1 /\ Handed(p) = offered[p]
    BY <1>3, <1>4, <1>5, SendFields, Zenon DEF Handed
  <2>3. o.next - 1 = offered[p]
    BY <1>2, <1>4
  <2> QED BY <2>1, <2>2, <2>3
<1>9. o.next + o.left = offered'[p] + 1 /\ o \notin SendsFd
  BY <1>2, <1>4, <1>6, SendFields
<1> QED BY <1>3, <1>5, <1>6, <1>7, <1>8, <1>9, SendSideInv

\* A send or the passing of a descriptor ends, or goes on, without a byte sent.
LEMMA SendFailsInv ==
  ASSUME StreamInv, NEW p \in Peers, SendFailed(p),
         ErrorRead(p) \/ rst' = rst,
         UNCHANGED <<kind, rx, rcv, sndq, rcvq, offered, recvd, lost, skipfail, dead>>
  PROVE  StreamInv'
<1>1. StreamTypes /\ Other(p) \in Peers /\ Other(p) # p
  BY StreamParts
<1>2. snd' = [snd EXCEPT ![p] = Idle] /\ conn' = [conn EXCEPT ![p].outerr = TRUE]
  BY DEF SendFailed
<1>3. /\ snd' \in [Peers -> {Idle} \cup SendsBytes \cup SendsFd] /\ snd'[p] = Idle
      /\ snd'[Other(p)] = snd[Other(p)]
  BY <1>1, <1>2, SendTypes
<1>4. /\ rst' \in [Peers -> {"no", "pending", "reported"}] /\ rst'[Other(p)] = rst[Other(p)]
  BY <1>1 DEF StreamTypes, ErrorRead
<1> DEFINE c == [conn[p] EXCEPT !.outerr = TRUE]
<1>a. conn[p] \in Flags /\ c \in Flags
  <2>1. conn[p] \in Flags
    BY <1>1 DEF StreamTypes, Flags
  <2> QED BY <2>1, FlagSet
<1>b. /\ c.indone = conn[p].indone /\ c.inerr = conn[p].inerr /\ c.outdone = conn[p].outdone
      /\ c.closed = conn[p].closed /\ c.outerr = TRUE
  BY <1>a DEF Flags
<1>c. conn' = [conn EXCEPT ![p] = c]
  BY <1>2
<1> HIDE DEF c
<1>d. conn' \in [Peers -> Flags] /\ conn'[p] = c /\ conn'[Other(p)] = conn[Other(p)]
  BY <1>1, <1>a, <1>c, ConnTypes
<1>5. /\ conn'[p].indone <=> conn[p].indone
      /\ conn'[p].inerr <=> conn[p].inerr
      /\ conn'[p].outdone <=> conn[p].outdone
      /\ conn'[p].closed = conn[p].closed
      /\ conn'[p].outerr
      /\ conn'[Other(p)] = conn[Other(p)]
  BY <1>b, <1>d, Zenon
<1>6. StreamTypes'
  BY <1>1, <1>3, <1>4, <1>d DEF StreamTypes, Flags
<1>7. ~MaySend(p)'
  BY <1>3, <1>5 DEF MaySend
<1> QED BY <1>3, <1>4, <1>5, <1>6, <1>7, SendFields, SendSideInv

LEMMA FdSendInv ==
  ASSUME StreamInv, NEW p \in Peers, FdSend(p) PROVE StreamInv'
<1> DEFINE op == snd[p]
           n == Min({Space(p), op.left})
<1>1. /\ StreamTypes /\ Other(p) \in Peers /\ Other(p) # p /\ Other(Other(p)) = p
      /\ Pipe(p) /\ Places(p)
  BY StreamParts
<1>2. op \in SendsBytes
  BY <1>1, SendKinds DEF FdSend, Calls
<1>3. /\ op.pc \in Calls /\ op.mode = "bytes" /\ op.next \in Nat \ {0} /\ op.left \in Nat
      /\ op.trail \in BOOLEAN /\ op # Idle /\ op \notin SendsFd /\ op.next + op.left = offered[p] + 1
      /\ offered[p] \in Nat
  BY <1>1, <1>2, SendFields DEF Places, StreamTypes
<1>4. Handed(p) = op.next - 1
  BY <1>2 DEF Handed
<1>5. CASE op.left = 0 /\ snd' = [snd EXCEPT ![p] = Idle] /\ UNCHANGED <<conn, sndq, rcvq, rst>>
  <2>1. UNCHANGED <<kind, rx, rcv, offered, recvd, lost, skipfail, dead>>
    BY DEF FdSend
  <2>2. /\ snd' \in [Peers -> {Idle} \cup SendsBytes \cup SendsFd] /\ snd'[p] = Idle
        /\ snd'[Other(p)] = snd[Other(p)]
    BY <1>1, <1>5, SendTypes
  <2>3. StreamTypes'
    BY <1>1, <1>5, <2>1, <2>2 DEF StreamTypes
  <2>4. MaySend(p)' => MaySend(p) /\ Handed(p)' = Handed(p)
    <3>1. MaySend(p)' => MaySend(p)
      BY <1>3, <1>5, <2>1, <2>2 DEF MaySend
    <3>2. Handed(p)' = offered[p]
      BY <2>1, <2>2, SendFields DEF Handed
    <3>3. offered[p] = op.next - 1
      BY <1>3, <1>5
    <3> QED BY <1>4, <3>1, <3>2, <3>3
  <2> QED BY <1>5, <2>1, <2>2, <2>3, <2>4, SendFields, SendSideInv
<1>6. CASE SendFailed(p) /\ ErrorRead(p) /\ UNCHANGED <<sndq, rcvq>>
  <2>1. UNCHANGED <<kind, rx, rcv, offered, recvd, lost, skipfail, dead>>
    BY DEF FdSend
  <2> QED BY <1>6, <2>1, SendFailsInv
<1>7. CASE /\ op.left > 0 /\ ~SendFails(p)
           /\ Accepted(p, [i \in 1..n |-> op.next + i - 1])
           /\ snd' = [snd EXCEPT ![p] = IF n = op.left /\ ~op.trail THEN Idle
                                       ELSE [Adjusted(op, n) EXCEPT !.pc = "wait"]]
           /\ UNCHANGED <<conn, rst>>
  <2>1. UNCHANGED <<kind, rx, rcv, offered, recvd, lost, skipfail, dead>> /\ Open(p)
    BY DEF FdSend
  <2>2. Space(p) \in Int /\ Space(p) >= 0
    BY <1>1, DataFacts, StreamAssumption DEF Pipe, Space, StreamTypes
  <2>3. n \in Nat /\ n <= op.left /\ n <= Space(p)
    BY <1>3, <2>2, LeastOfTwo
  <2> DEFINE t == [i \in 1..n |-> op.next + i - 1]
             o == IF n = op.left /\ ~op.trail THEN Idle ELSE [Adjusted(op, n) EXCEPT !.pc = "wait"]
  <2>a. Accepted(p, t) /\ snd' = [snd EXCEPT ![p] = o] /\ UNCHANGED <<conn, rst>> /\ ~SendFails(p)
    BY <1>7
  <2> HIDE DEF n
  <2>4. /\ t \in Seq(Int) /\ Len(t) = n /\ \A i \in 1..n : t[i] = op.next + i - 1
    BY <1>3, <2>3
  <2>5. NoEnd(t) /\ InPlace(t, op.next - 1)
    <3>1. \A i \in 1..n : op.next + i - 1 # 0 /\ op.next + i - 1 = op.next - 1 + i
      BY <1>3, <2>3
    <3> QED BY <2>4, <3>1 DEF NoEnd, InPlace
  <2>6. /\ o = Idle \/ o \in SendsBytes
        /\ o = Idle => n = op.left
        /\ o \in SendsBytes => o.next = op.next + n /\ o.left = op.left - n
    <3>1. CASE n = op.left /\ ~op.trail
      BY <3>1, SendFields
    <3>2. CASE ~(n = op.left /\ ~op.trail)
      <4>1. o = [[op EXCEPT !.next = op.next + n, !.left = op.left - n] EXCEPT !.pc = "wait"]
        BY <3>2 DEF Adjusted
      <4>2. op.next + n \in Nat \ {0} /\ op.left - n \in Nat
        BY <1>3, <2>3
      <4>3. o \in SendsBytes /\ o.next = op.next + n /\ o.left = op.left - n
        BY <1>2, <4>1, <4>2 DEF SendsBytes, Calls
      <4> QED BY <4>3, SendFields
    <3> QED BY <3>1, <3>2
  <2> HIDE DEF o, t
  <2>7. /\ snd' \in [Peers -> {Idle} \cup SendsBytes \cup SendsFd] /\ snd'[p] = o
        /\ snd'[Other(p)] = snd[Other(p)]
    BY <1>1, <2>6, <2>a, SendTypes
  <2>8. StreamTypes'
    <3>2. sndq' \in [Peers -> Seq(Int)] /\ rcvq' \in [Peers -> Seq(Int)]
      BY <1>1, <2>4, <2>a, AcceptedTypes
    <3> QED BY <1>1, <2>1, <2>7, <2>a, <3>2 DEF StreamTypes
  <2>9. Handed(p)' = Handed(p) + Len(t)
    <3>1. CASE o = Idle
      <4>1. Handed(p)' = offered[p]
        BY <2>1, <2>7, <3>1, SendFields DEF Handed
      <4>2. offered[p] = op.next - 1 + n
        BY <1>3, <2>3, <2>6, <3>1
      <4> QED BY <1>4, <2>4, <4>1, <4>2
    <3>2. CASE o \in SendsBytes
      <4>1. Handed(p)' = o.next - 1
        BY <2>7, <3>2, Zenon DEF Handed
      <4>2. o.next - 1 = op.next - 1 + n
        BY <1>3, <2>3, <2>6, <3>2
      <4> QED BY <1>4, <2>4, <4>1, <4>2
    <3> QED BY <2>6, <3>1, <3>2
  <2>10. o \in SendsBytes => o.next + o.left = offered'[p] + 1
    <3>1. op.next + n + (op.left - n) = offered[p] + 1
      BY <1>3, <2>3
    <3> QED BY <2>1, <2>6, <3>1
  <2>11. o \notin SendsFd
    BY <2>6, SendFields
  <2> QED BY <1>3, <1>4, <2>1, <2>3, <2>4, <2>5, <2>7, <2>8, <2>9, <2>10, <2>11, <2>a, AcceptInv
<1> QED BY <1>5, <1>6, <1>7 DEF FdSend

LEMMA FdOutInv ==
  ASSUME StreamInv, NEW p \in Peers, FdOut(p) PROVE StreamInv'
<1> DEFINE o == [snd[p] EXCEPT !.pc = "run"]
<1>1. /\ StreamTypes /\ Other(p) \in Peers /\ Other(p) # p /\ Places(p) /\ Pipe(p)
  BY StreamParts
<1>2. /\ snd' = [snd EXCEPT ![p] = o] /\ snd[p].pc = "wait"
      /\ Space(p) > 0 \/ SendFails(p)
      /\ UNCHANGED <<kind, conn, rx, rcv, sndq, rcvq, rst, offered, recvd, lost, skipfail, dead>>
  BY DEF FdOut
<1>3. snd[p] \in SendsBytes \/ snd[p] \in SendsFd
  <2>1. Idle.pc = "idle"
    BY DEF Idle
  <2> QED BY <1>1, <1>2, <2>1, SendKinds
<1>4. /\ snd[p] \in SendsBytes => o \in SendsBytes /\ o.next = snd[p].next /\ o.left = snd[p].left
      /\ snd[p] \in SendsFd => o \in SendsFd
  BY DEF SendsBytes, SendsFd, Calls
<1> HIDE DEF o
<1>5. /\ snd' \in [Peers -> {Idle} \cup SendsBytes \cup SendsFd] /\ snd'[p] = o
      /\ snd'[Other(p)] = snd[Other(p)]
  BY <1>1, <1>2, <1>3, <1>4, SendTypes
<1>6. StreamTypes'
  BY <1>1, <1>2, <1>5 DEF StreamTypes
<1>7. MaySend(p)' => MaySend(p) /\ Handed(p)' = Handed(p)
  <2>1. MaySend(p)' => MaySend(p)
    BY <1>2, <1>3, SendFields DEF MaySend
  <2>2. Handed(p)' = Handed(p)
    BY <1>2, <1>3, <1>4, <1>5, SendFields DEF Handed
  <2> QED BY <2>1, <2>2
<1>8. /\ o \in SendsBytes => o.next + o.left = offered'[p] + 1
      /\ o \in SendsFd => kind = "ipc"
  BY <1>1, <1>2, <1>3, <1>4, SendFields DEF Places, Pipe
<1> QED BY <1>2, <1>5, <1>6, <1>7, <1>8, SendSideInv

\* A call about a descriptor begins, or ends with nothing sent.
LEMMA PassingInv ==
  ASSUME StreamInv, NEW p \in Peers, NEW o, o = Idle \/ (o \in SendsFd /\ o.pc = "wait" /\ kind = "ipc"),
         snd' = [snd EXCEPT ![p] = o], snd[p] \notin SendsBytes, snd[p] # Idle \/ ~conn[p].outerr,
         dead' \in BOOLEAN,
         UNCHANGED <<kind, conn, rx, rcv, sndq, rcvq, rst, offered, recvd, lost, skipfail>>
  PROVE  StreamInv'
<1>1. StreamTypes /\ Other(p) \in Peers /\ Other(p) # p
  BY StreamParts
<1>2. /\ snd' \in [Peers -> {Idle} \cup SendsBytes \cup SendsFd] /\ snd'[p] = o
      /\ snd'[Other(p)] = snd[Other(p)]
  BY <1>1, SendTypes
<1>3. StreamTypes'
  BY <1>1, <1>2 DEF StreamTypes
<1>4. MaySend(p)' => MaySend(p) /\ Handed(p)' = Handed(p)
  BY <1>2, SendFields DEF MaySend, Handed
<1>5. o \notin SendsBytes /\ (o \in SendsFd => o.pc # "run" /\ kind = "ipc")
  BY SendFields
<1> QED BY <1>2, <1>3, <1>4, <1>5, SendSideInv

LEMMA FdOutFailsInv ==
  ASSUME StreamInv, NEW p \in Peers, FdOutFails(p) PROVE StreamInv'
<1>1. UNCHANGED <<kind, rx, rcv, sndq, rcvq, rst, offered, recvd, lost, skipfail, dead>>
  BY DEF FdOutFails
<1>2. StreamTypes
  BY DEF StreamInv
<1>3. CASE snd[p].mode = "fd"
  <2>1. snd[p] \in SendsFd /\ snd' = [snd EXCEPT ![p] = Idle] /\ conn' = conn
    BY <1>2, <1>3, SendKinds DEF FdOutFails, Calls
  <2>2. dead' \in BOOLEAN
    BY <1>1, <1>2 DEF StreamTypes
  <2> QED BY <1>1, <2>1, <2>2, SendFields, PassingInv
<1>4. CASE snd[p].mode # "fd"
  <2>1. SendFailed(p)
    BY <1>4 DEF FdOutFails
  <2> QED BY <1>1, <2>1, SendFailsInv
<1> QED BY <1>3, <1>4

LEMMA SendFdInv ==
  ASSUME StreamInv, NEW p \in Peers, SendFd(p) PROVE StreamInv'
<1> DEFINE o == [pc |-> "wait", mode |-> "fd"]
<1>1. o \in SendsFd /\ o.pc = "wait"
  BY DEF SendsFd, Calls
<1>2. /\ snd' = [snd EXCEPT ![p] = o] /\ kind = "ipc" /\ snd[p] = Idle /\ ~conn[p].outerr
      /\ UNCHANGED <<kind, conn, rx, rcv, sndq, rcvq, rst, offered, recvd, lost, skipfail>>
  BY DEF SendFd
<1>3. dead' \in BOOLEAN
  BY DEF SendFd, StreamInv, StreamTypes
<1> HIDE DEF o
<1> QED BY <1>1, <1>2, <1>3, SendFields, PassingInv

LEMMA SendFdEndInv ==
  ASSUME StreamInv, NEW p \in Peers, SendFdEnd(p) PROVE StreamInv'
<1>1. /\ StreamTypes /\ Other(p) \in Peers /\ Other(p) # p /\ Pipe(p)
  BY StreamParts
<1>2. snd[p] \in SendsFd /\ snd[p].pc = "run" /\ Open(p) /\ snd' = [snd EXCEPT ![p] = Idle]
  BY <1>1, SendKinds DEF SendFdEnd, Calls
<1>3. snd[p] # Idle /\ snd[p] \notin SendsBytes /\ Idle \notin SendsBytes /\ Idle \notin SendsFd
  BY <1>2, SendFields
<1>4. CASE SendFails(p)
  <2>1. /\ dead' = TRUE
        /\ UNCHANGED <<kind, conn, rx, rcv, sndq, rcvq, rst, offered, recvd, lost, skipfail>>
    BY <1>4 DEF SendFdEnd
  <2>2. dead' \in BOOLEAN
    BY <2>1
  <2> QED BY <1>2, <1>3, <2>1, <2>2, PassingInv
<1>5. CASE ~SendFails(p)
  <2> DEFINE t == <<-(offered[p] + 1)>>
  <2>1. /\ Accepted(p, t) /\ offered' = [offered EXCEPT ![p] = offered[p] + 1]
        /\ UNCHANGED <<kind, conn, rx, rcv, rst, recvd, lost, skipfail, dead>>
    BY <1>5 DEF SendFdEnd
  <2>2. offered \in [Peers -> Nat] /\ offered[p] \in Nat
    BY <1>1 DEF StreamTypes
  <2>3. t \in Seq(Int) /\ Len(t) = 1 /\ t[1] = -(offered[p] + 1)
    BY <2>2
  <2>4. NoEnd(t) /\ InPlace(t, offered[p])
    <3>1. -(offered[p] + 1) # 0
      BY <2>2
    <3> QED BY <2>3, <3>1 DEF NoEnd, InPlace
  <2> HIDE DEF t
  <2>5. Space(p) \in Int /\ Space(p) > 0
    BY <1>1, <1>2, <1>5, DataFacts, StreamAssumption DEF Pipe, Space, StreamTypes
  <2>6. /\ snd' \in [Peers -> {Idle} \cup SendsBytes \cup SendsFd] /\ snd'[p] = Idle
        /\ snd'[Other(p)] = snd[Other(p)]
    BY <1>1, <1>2, SendTypes
  <2>7. /\ offered' \in [Peers -> Nat] /\ offered'[p] = offered[p] + 1
        /\ offered'[Other(p)] = offered[Other(p)]
    BY <1>1, <2>1, <2>2
  <2>8. StreamTypes'
    <3>2. sndq' \in [Peers -> Seq(Int)] /\ rcvq' \in [Peers -> Seq(Int)]
      BY <1>1, <2>1, <2>3, AcceptedTypes
    <3> QED BY <1>1, <2>1, <2>6, <2>7, <3>2 DEF StreamTypes
  <2>9. Handed(p) = offered[p] /\ Handed(p)' = Handed(p) + Len(t)
    BY <1>3, <2>3, <2>6, <2>7 DEF Handed
  <2>10. Len(t) <= Space(p)
    BY <2>3, <2>5
  <2> QED BY <1>2, <1>3, <1>5, <2>1, <2>3, <2>4, <2>6, <2>7, <2>8, <2>9, <2>10, AcceptInv
<1> QED BY <1>4, <1>5

-----------------------------------------------------------------------------
\* Receiving.

\* Only the receiving side of p changes.
LEMMA RecvSideInv ==
  ASSUME StreamInv, StreamTypes', NEW p \in Peers,
         kind' = kind, snd' = snd, sndq' = sndq, lost' = lost, offered' = offered,
         conn'[Other(p)] = conn[Other(p)], rcv'[Other(p)] = rcv[Other(p)],
         rx'[Other(p)] = rx[Other(p)], recvd'[Other(p)] = recvd[Other(p)],
         skipfail'[Other(p)] = skipfail[Other(p)], rst'[Other(p)] = rst[Other(p)],
         rcvq'[Other(p)] = rcvq[Other(p)],
         conn'[p].outdone <=> conn[p].outdone, conn'[p].closed = conn[p].closed,
         conn[p].outerr => conn'[p].outerr, rst'[p] = "no" => rst[p] = "no",
         Shape(rcvq'[p]), Ended(rcvq'[p]) => Ended(rcvq[p]),
         Len(Data(rcvq'[p])) <= Len(Data(rcvq[p])),
         Receiver(p)', Places(p)', EndSeen(p)'
  PROVE  StreamInv'
<1> DEFINE q == Other(p)
<1>1. /\ q \in Peers /\ q # p /\ Other(q) = p
      /\ StreamTypes /\ Receiver(p) /\ Pipe(p) /\ Places(p) /\ EndSeen(p)
      /\ Receiver(q) /\ Pipe(q) /\ Places(q) /\ EndSeen(q)
  BY StreamParts
<1> HIDE DEF q
<1>a. q = Other(p)
  BY DEF q
<1>2. Receiver(q)'
  BY <1>1, <1>a, KeepsReceiver
<1>3. Pipe(p)'
  BY <1>1, <1>a, KeepsPipe
<1>4. Pipe(q)'
  <2>1. Gone(q) <=> Gone(q)'
    BY <1>a DEF Gone, Shut
  <2>2. Space(q) \in Int /\ Space(q)' \in Int /\ Space(q)' >= Space(q)
    <3>1. rcvq[p] \in Seq(Int) /\ sndq[q] \in Seq(Int) /\ rcvq'[p] \in Seq(Int)
      BY <1>1 DEF StreamTypes
    <3>2. /\ Len(Data(rcvq[p])) \in Nat /\ Len(Data(sndq[q])) \in Nat /\ Len(Data(rcvq'[p])) \in Nat
          /\ Cap \in Nat
      BY <3>1, DataFacts, StreamAssumption
    <3>3. CASE kind = "tcp"
      <4>1. Space(q) = Cap - Len(Data(sndq[q])) /\ Space(q)' = Cap - Len(Data(sndq[q]))
        BY <3>3 DEF Space
      <4> QED BY <3>2, <4>1
    <3>4. CASE kind # "tcp"
      <4>1. Space(q) = Cap - Len(Data(rcvq[p])) /\ Space(q)' = Cap - Len(Data(rcvq'[p]))
        BY <1>1, <3>4 DEF Space
      <4> QED BY <3>2, <4>1
    <3> QED BY <3>3, <3>4
  <2>3. kind = "ipc" /\ SendFails(q) => SendFails(q)'
    BY <1>1, <1>a DEF SendFails, Shut
  <2>4. /\ Space(q) >= 0 => Space(q)' >= 0
        /\ Space(q) > 0 => Space(q)' > 0
    BY <2>2
  <2> QED BY <1>1, <1>a, <2>1, <2>3, <2>4 DEF Pipe
<1>5. EndSeen(q)'
  BY <1>1, <1>a, KeepsEnd, GoneStays
<1>6. Places(q)'
  <2>1. Got(q)' = Got(q) /\ (Live(q)' <=> Live(q))
    BY <1>a, KeepsLive
  <2>2. (MaySend(p)' => MaySend(p)) /\ Handed(p)' = Handed(p)
    BY DEF MaySend, Handed
  <2>3. snd[q] \in SendsBytes => snd[q].next + snd[q].left = offered[q] + 1
    BY <1>1 DEF Places
  <2> QED BY <1>1, <1>a, <2>1, <2>2, <2>3, KeepsPlaces
<1> QED BY <1>2, <1>3, <1>4, <1>5, <1>6, <1>a, StreamWhole

\* Places(p) after a receive that is over, or has skipped an error.
LEMMA PlacesDead ==
  ASSUME NEW p \in Peers, Places(p), ~Live(p)', skipfail'[p] \/ Returned(recvd'[p], 0),
         snd' = snd, offered' = offered
  PROVE  Places(p)'
BY DEF Places

\* Places(p) after bytes have moved on towards the receiver.
LEMMA PlacesMove ==
  ASSUME NEW p \in Peers, Places(p), Live(p) \/ skipfail[p], skipfail' = skipfail,
         snd' = snd, offered' = offered, kind' = kind, sndq' = sndq,
         conn'[Other(p)] = conn[Other(p)], rst'[Other(p)] = rst[Other(p)],
         Live(p) /\ Live(p)' =>
           /\ Flow(recvd'[p], Got(p)', rx'[p], Data(rcvq'[p]), Data(sndq[Other(p)]))
           /\ Length(recvd'[p], Got(p)', rx'[p], Data(rcvq'[p]), Data(sndq[Other(p)])) =
                Length(recvd[p], Got(p), rx[p], Data(rcvq[p]), Data(sndq[Other(p)])),
         Live(p) => Returned(recvd'[p], 0)
  PROVE  Places(p)'
<1>1. (MaySend(Other(p))' <=> MaySend(Other(p))) /\ Handed(Other(p))' = Handed(Other(p))
  BY KeepsMaySend
<1>2. skipfail'[p] \/ Returned(recvd'[p], 0)
  OBVIOUS
<1>3. Live(p)' => Live(p)
  BY DEF Live
<1> QED BY <1>1, <1>2, <1>3 DEF Places

LEMMA RecvLive ==
  ASSUME NEW p, Receiver(p), rcv[p] \in ReceivesBytes \/ rcv[p] \in ReceivesFd
  PROVE  Live(p) \/ skipfail[p]
BY RecvFields DEF Receiver, Live

LEMMA FoundFacts ==
  ASSUME NEW p
  PROVE  /\ Found(p) = "data" <=> Data(rcvq[p]) # <<>>
         /\ Found(p) = "reset" <=> Data(rcvq[p]) = <<>> /\ rst[p] = "pending"
         /\ Found(p) = "eof" => /\ Data(rcvq[p]) = <<>> /\ rst[p] # "pending"
                                /\ rst[p] = "reported" \/ rcvq[p] # <<>>
<1>1. CASE Data(rcvq[p]) # <<>>
  <2>1. Found(p) = "data"
    BY <1>1 DEF Found
  <2> QED BY <1>1, <2>1
<1>2. CASE Data(rcvq[p]) = <<>> /\ rst[p] = "pending"
  <2>1. Found(p) = "reset"
    BY <1>2 DEF Found
  <2> QED BY <1>2, <2>1
<1>3. CASE Data(rcvq[p]) = <<>> /\ rst[p] # "pending" /\ (rst[p] = "reported" \/ rcvq[p] # <<>>)
  <2>1. Found(p) = "eof"
    BY <1>3 DEF Found
  <2> QED BY <1>3, <2>1
<1>4. CASE Data(rcvq[p]) = <<>> /\ rst[p] # "pending" /\ ~(rst[p] = "reported" \/ rcvq[p] # <<>>)
  <2>1. Found(p) = "again"
    BY <1>4 DEF Found
  <2> QED BY <1>4, <2>1
<1> QED BY <1>1, <1>2, <1>3, <1>4

\* A receiver that finds the end of the stream has all of it.
LEMMA EofMeansEnd ==
  ASSUME StreamInv, NEW p \in Peers, rcv[p] # Idle, Found(p) = "eof", ~conn[p].outerr, ~skipfail[p]
  PROVE  /\ Gone(Other(p)) /\ sndq[Other(p)] = <<>> /\ Data(rcvq[p]) = <<>>
         /\ lost[Other(p)] = 0
<1>1. /\ Other(p) \in Peers /\ Other(Other(p)) = p /\ StreamTypes /\ Receiver(p) /\ Pipe(Other(p))
  BY StreamParts
<1>2. rst[p] # "reported"
  BY <1>1 DEF Receiver
<1>3. Data(rcvq[p]) = <<>> /\ rcvq[p] # <<>>
  BY <1>2, FoundFacts
<1>4. rcvq[p] \in Seq(Int)
  BY <1>1 DEF StreamTypes
<1>5. Ended(rcvq[p])
  BY <1>3, <1>4, DataFacts
<1> QED BY <1>1, <1>3, <1>5 DEF Pipe

\* rcv[p] is set.
LEMMA RecvTypes ==
  ASSUME StreamTypes, NEW p \in Peers,
         NEW o, o = Idle \/ o \in ReceivesBytes \/ o \in ReceivesFd \/ o \in Drains,
         rcv' = [rcv EXCEPT ![p] = o]
  PROVE  /\ rcv' \in [Peers -> {Idle} \cup ReceivesBytes \cup ReceivesFd \cup Drains] /\ rcv'[p] = o
         /\ rcv'[Other(p)] = rcv[Other(p)]
<1>1. Other(p) \in Peers /\ Other(p) # p
  BY TwoPeers
<1>2. rcv \in [Peers -> {Idle} \cup ReceivesBytes \cup ReceivesFd \cup Drains]
  BY DEF StreamTypes
<1> QED BY <1>1, <1>2

LEMMA RcvqFacts ==
  ASSUME StreamInv, NEW p \in Peers
  PROVE  /\ rcvq[p] \in Seq(Int) /\ Data(rcvq[p]) \in Seq(Int) /\ Shape(rcvq[p])
         /\ Len(Data(rcvq[p])) \in Nat /\ Len(Data(rcvq[p])) <= Len(Data(rcvq[p]))
<1>1. rcvq[p] \in Seq(Int)
  BY DEF StreamInv, StreamTypes
<1>2. Shape(rcvq[p])
  BY StreamParts DEF Pipe
<1>3. Data(rcvq[p]) \in Seq(Int)
  BY <1>1, DataFacts
<1> QED BY <1>1, <1>2, <1>3

\* A receive waits, or goes on.
LEMMA RecvPcInv ==
  ASSUME StreamInv, NEW p \in Peers, NEW c \in Calls, rcv[p].pc \in Calls,
         rcv' = [rcv EXCEPT ![p].pc = c],
         UNCHANGED <<kind, conn, rx, snd, sndq, rcvq, rst, offered, recvd, lost, skipfail, dead>>
  PROVE  StreamInv'
<1> DEFINE o == [rcv[p] EXCEPT !.pc = c]
<1>1. StreamTypes /\ Receiver(p) /\ Places(p) /\ EndSeen(p) /\ Other(p) \in Peers
  BY StreamParts
<1>2. rcv[p] \in ReceivesBytes \/ rcv[p] \in ReceivesFd \/ rcv[p] \in Drains
  <2>1. Idle.pc \notin Calls
    BY DEF Idle, Calls
  <2> QED BY <1>1, <2>1, RecvKinds
<1>3. /\ rcv[p] \in ReceivesBytes => /\ o \in ReceivesBytes /\ o.todo = rcv[p].todo
                                     /\ o.got = rcv[p].got /\ o.mode = rcv[p].mode
      /\ rcv[p] \in ReceivesFd => o \in ReceivesFd
      /\ rcv[p] \in Drains => o \in Drains
  <2>1. ASSUME rcv[p] \in ReceivesBytes
        PROVE  o \in ReceivesBytes /\ o.todo = rcv[p].todo /\ o.got = rcv[p].got /\ o.mode = rcv[p].mode
    BY <2>1 DEF ReceivesBytes
  <2>2. ASSUME rcv[p] \in ReceivesFd PROVE o \in ReceivesFd
    BY <2>2 DEF ReceivesFd
  <2>3. ASSUME rcv[p] \in Drains PROVE o \in Drains
    BY <2>3 DEF Drains
  <2> QED BY <2>1, <2>2, <2>3
<1>4. rcv' = [rcv EXCEPT ![p] = o]
  OBVIOUS
<1> HIDE DEF o
<1>5. /\ rcv' \in [Peers -> {Idle} \cup ReceivesBytes \cup ReceivesFd \cup Drains] /\ rcv'[p] = o
      /\ rcv'[Other(p)] = rcv[Other(p)]
  BY <1>1, <1>2, <1>3, <1>4, RecvTypes
<1>6. StreamTypes'
  BY <1>1, <1>5 DEF StreamTypes
<1>7. Receiver(p)'
  BY <1>1, <1>2, <1>3, <1>5, RecvFields DEF Receiver
<1>8. Places(p)'
  <2>1. Got(p)' = Got(p) /\ (Live(p)' <=> Live(p))
    BY <1>2, <1>3, <1>5, RecvFields DEF Got, Live
  <2>2. snd[p] \in SendsBytes => snd[p].next + snd[p].left = offered[p] + 1
    BY <1>1 DEF Places
  <2> QED BY <1>1, <2>1, <2>2, KeepsPlaces, KeepsMaySend
<1>9. EndSeen(p)'
  BY <1>1, KeepsEnd, GoneStays
<1> QED BY <1>5, <1>6, <1>7, <1>8, <1>9, RcvqFacts, RecvSideInv

LEMMA FdRecvAgainInv ==
  ASSUME StreamInv, NEW p \in Peers, FdRecvAgain(p) PROVE StreamInv'
BY RecvPcInv DEF FdRecvAgain, Calls

LEMMA FdInInv ==
  ASSUME StreamInv, NEW p \in Peers, FdIn(p) PROVE StreamInv'
BY RecvPcInv DEF FdIn, Calls

\* Bytes move from the kernel and the rx buffer to a receive of p, which then
\* has g of them.
Moved(p, g) ==
  LET b == Data(sndq[Other(p)]) IN
  Flow(recvd[p], Got(p), rx[p], Data(rcvq[p]), b) =>
    /\ Flow(recvd[p], g, rx'[p], Data(rcvq'[p]), b)
    /\ Length(recvd[p], g, rx'[p], Data(rcvq'[p]), b) = Length(recvd[p], Got(p), rx[p], Data(rcvq[p]), b)

\* The receive goes on, or it returns.
LEMMA TransferInv ==
  ASSUME StreamInv, StreamTypes', NEW p \in Peers,
         UNCHANGED <<kind, conn, snd, sndq, rst, offered, lost, skipfail>>,
         rcv'[Other(p)] = rcv[Other(p)], rx'[Other(p)] = rx[Other(p)],
         recvd'[Other(p)] = recvd[Other(p)], rcvq'[Other(p)] = rcvq[Other(p)],
         Live(p) \/ skipfail[p], ~conn[p].indone, ~conn[p].inerr, conn[p].closed = "no",
         Shape(rcvq'[p]), Ended(rcvq'[p]) => Ended(rcvq[p]),
         Len(Data(rcvq'[p])) <= Len(Data(rcvq[p])),
         NEW g \in Seq(Int), Moved(p, g),
         kind = "ipc" => rx'[p] = <<>>,
         \/ rcv'[p] = Idle /\ Joins(recvd'[p], recvd[p], g)
         \/ /\ rcv'[p] \in ReceivesBytes /\ rcv'[p].todo # <<>> /\ rcv'[p].got = g
            /\ recvd'[p] = recvd[p] /\ rx'[p] = <<>>
            /\ kind = "ipc" => rcv'[p].mode = "direct"
  PROVE  StreamInv'
<1> DEFINE q == Other(p)
<1>1. /\ q \in Peers /\ q # p /\ Other(q) = p
      /\ StreamTypes /\ Receiver(p) /\ Pipe(q) /\ Places(p) /\ EndSeen(p)
  BY StreamParts
<1>a. q = Other(p)
  BY DEF q
<1> HIDE DEF q
<1>2. Receiver(p)'
  BY <1>1, RecvFields DEF Receiver
<1>3. EndSeen(p)'
  BY DEF EndSeen
<1>4. Places(p)'
  <2> DEFINE a == Data(rcvq[p])
             b == Data(sndq[q])
             c == Data(rcvq'[p])
  <2>1. /\ recvd[p] \in Seq(Int) /\ rx'[p] \in Seq(Int) /\ c \in Seq(Int) /\ b \in Seq(Int)
    BY <1>1, DataFacts DEF StreamTypes
  <2>2. /\ Flow(recvd[p], Got(p), rx[p], a, b) =>
             /\ Flow(recvd[p], g, rx'[p], c, b)
             /\ Length(recvd[p], g, rx'[p], c, b) = Length(recvd[p], Got(p), rx[p], a, b)
    BY <1>a DEF Moved
  <2>3. Live(p) => Flow(recvd[p], Got(p), rx[p], a, b) /\ Returned(recvd[p], 0)
    BY <1>1, <1>a DEF Places, Flow
  <2> HIDE DEF a, b, c
  <2>4. CASE rcv'[p] = Idle /\ Joins(recvd'[p], recvd[p], g)
    <3> DEFINE r == recvd'[p]
    <3>1. r = recvd[p] \o g
      BY <2>4 DEF Joins
    <3>2. ASSUME Flow(recvd[p], g, rx'[p], c, b)
          PROVE  /\ Flow(r, <<>>, rx'[p], c, b)
                 /\ Length(r, <<>>, rx'[p], c, b) = Length(recvd[p], g, rx'[p], c, b)
      <4>1. /\ Flow(recvd[p] \o g, <<>>, rx'[p], c, b)
            /\ Length(recvd[p] \o g, <<>>, rx'[p], c, b) = Length(recvd[p], g, rx'[p], c, b)
        BY <2>1, <3>2, FlowEnd
      <4> QED BY <3>1, <4>1, Zenon
    <3>3. Got(p)' = <<>>
      BY <2>4, RecvFields DEF Got
    <3>4. /\ Live(p) => /\ Flow(recvd'[p], Got(p)', rx'[p], c, b)
                        /\ Length(recvd'[p], Got(p)', rx'[p], c, b) =
                             Length(recvd[p], Got(p), rx[p], a, b)
      <4>1. /\ Live(p) => /\ Flow(r, <<>>, rx'[p], c, b)
                          /\ Length(r, <<>>, rx'[p], c, b) = Length(recvd[p], Got(p), rx[p], a, b)
        <5> HIDE DEF r
        <5> QED BY <2>2, <2>3, <3>2
      <4> QED BY <3>3, <4>1
    <3>5. Live(p) => Returned(recvd'[p], 0)
      BY <3>4 DEF Flow
    <3> QED BY <1>1, <1>a, <3>4, <3>5, PlacesMove DEF a, b, c
  <2>5. CASE rcv'[p] \in ReceivesBytes /\ rcv'[p].got = g /\ recvd'[p] = recvd[p]
    <3>1. Got(p)' = g
      BY <2>5 DEF Got
    <3>2. /\ Live(p) => /\ Flow(recvd'[p], Got(p)', rx'[p], c, b)
                        /\ Length(recvd'[p], Got(p)', rx'[p], c, b) =
                             Length(recvd[p], Got(p), rx[p], a, b)
      BY <2>2, <2>3, <2>5, <3>1
    <3>3. Live(p) => Returned(recvd'[p], 0)
      BY <2>3, <2>5
    <3> QED BY <1>1, <1>a, <3>2, <3>3, PlacesMove DEF a, b, c
  <2> QED BY <2>4, <2>5
<1> QED BY <1>2, <1>3, <1>4, RecvSideInv

\* Cutting a sequence at its end at the latest.
LEMMA CutShort ==
  ASSUME NEW X, NEW s \in Seq(X), NEW n \in Nat
  PROVE  \E m \in Nat : /\ m <= n /\ m <= Len(s) /\ (m = n \/ m = Len(s))
                        /\ First(s, n) = First(s, m) /\ Rest(s, n) = Rest(s, m)
<1>1. Len(s) \in Nat
  OBVIOUS
<1> DEFINE m == Min({n, Len(s)})
<1>2. m = IF n <= Len(s) THEN n ELSE Len(s)
  BY <1>1, LeastOfTwo
<1>3. First(s, n) = SubSeq(s, 1, m) /\ Rest(s, n) = SubSeq(s, m + 1, Len(s))
  BY DEF First, Rest
<1> HIDE DEF m
<1>4. m \in Nat /\ m <= n /\ m <= Len(s) /\ (m = n \/ m = Len(s))
  BY <1>1, <1>2
<1>5. Min({m, Len(s)}) = m
  BY <1>1, <1>4, LeastOfTwo
<1>6. First(s, m) = SubSeq(s, 1, m) /\ Rest(s, m) = SubSeq(s, m + 1, Len(s))
  BY <1>5, Zenon DEF First, Rest
<1> QED BY <1>3, <1>4, <1>6

LEMMA CopiedFacts ==
  ASSUME NEW op \in ReceivesBytes, NEW s \in Seq(Int), Len(s) <= Len(op.todo),
         NEW c, c = Copied(op, s)
  PROVE  /\ c \in ReceivesBytes /\ Joins(c.got, op.got, Masked(op.todo, s))
         /\ c.mode = op.mode /\ c.pc = op.pc /\ c.late = op.late
         /\ Len(c.todo) = Len(op.todo) - Len(s)
         /\ c.todo = <<>> <=> Len(s) = Len(op.todo)
<1> DEFINE t == SubSeq(op.todo, Len(s) + 1, Len(op.todo))
           g == op.got \o Masked(op.todo, s)
<1>1. op.todo \in Seq({"buf", "null"}) /\ op.got \in Seq(Int)
  BY RecvFields
<1>2. Len(s) \in Nat /\ Len(op.todo) \in Nat
  BY <1>1
<1>3. t \in Seq({"buf", "null"}) /\ Len(t) = Len(op.todo) - Len(s)
  <2>1. Len(s) + 1 \in Nat /\ 1 <= Len(s) + 1 /\ Len(op.todo) <= Len(op.todo)
    BY <1>2
  <2>2. /\ t \in Seq({"buf", "null"})
        /\ Len(t) = IF Len(s) + 1 <= Len(op.todo) THEN Len(op.todo) - (Len(s) + 1) + 1 ELSE 0
    BY <1>1, <1>2, <2>1, SubSeqFacts
  <2> HIDE DEF t
  <2> QED BY <1>2, <2>2
<1>4. g \in Seq(Int)
  <2>1. Masked(op.todo, s) \in Seq(Int)
    BY PlacesMasked
  <2> QED BY <1>1, <2>1, ConcatFacts
<1>5. c = [op EXCEPT !.todo = t, !.got = g]
  BY DEF Copied, Masked
<1> HIDE DEF t, g
<1>6. c \in ReceivesBytes /\ c.todo = t /\ c.got = g /\ c.mode = op.mode /\ c.pc = op.pc /\ c.late = op.late
  BY <1>3, <1>4, <1>5 DEF ReceivesBytes
<1>7. Joins(c.got, op.got, Masked(op.todo, s))
  BY <1>6 DEF Joins, g
<1>8. t = <<>> <=> Len(s) = Len(op.todo)
  <2>1. t = <<>> <=> Len(t) = 0
    BY <1>3
  <2> QED BY <1>2, <1>3, <2>1
<1> QED BY <1>3, <1>6, <1>7, <1>8

LEMMA BRecvInv ==
  ASSUME StreamInv, NEW p \in Peers, NEW l \in RecvLists[p], BRecv(p, l) PROVE StreamInv'
<1> DEFINE q == Other(p)
           op == [pc |-> "run", todo |-> l, got |-> <<>>, mode |-> "direct", late |-> FALSE]
           f == First(rx[p], Len(l))
           c == Copied(op, f)
           x == Rest(rx[p], Len(l))
<1>1. /\ q \in Peers /\ q # p /\ StreamTypes /\ Receiver(p) /\ Places(p)
  BY StreamParts
<1>2. /\ rcv[p] = Idle /\ ~conn[p].indone /\ ~conn[p].inerr /\ conn[p].closed = "no"
      /\ rx' = [rx EXCEPT ![p] = x]
      /\ IF c.todo = <<>>
         THEN recvd' = [recvd EXCEPT ![p] = recvd[p] \o c.got] /\ rcv' = rcv
         ELSE /\ rcv' = [rcv EXCEPT ![p] = IF kind = "ipc" \/ Len(c.todo) > BufSize THEN c
                                           ELSE [c EXCEPT !.mode = "buffered"]]
              /\ recvd' = recvd
      /\ UNCHANGED <<kind, conn, snd, sndq, rcvq, rst, offered, lost, skipfail, dead>>
  BY DEF BRecv, Free, Open
<1>3. l \in Seq({"buf", "null"}) /\ op \in ReceivesBytes /\ op.todo = l /\ op.got = <<>>
      /\ op.mode = "direct"
  <2>1. l \in Seq({"buf", "null"})
    BY StreamAssumption
  <2>2. <<>> \in Seq(Int)
    OBVIOUS
  <2> QED BY <2>1, <2>2 DEF ReceivesBytes, Calls
<1>4. rx[p] \in Seq(Int) /\ recvd[p] \in Seq(Int) /\ Len(l) \in Nat /\ Len(rx[p]) \in Nat
  BY <1>1, <1>3 DEF StreamTypes
<1>5. PICK m \in Nat : /\ m <= Len(l) /\ m <= Len(rx[p]) /\ (m = Len(l) \/ m = Len(rx[p]))
                       /\ f = First(rx[p], m) /\ x = Rest(rx[p], m)
  BY <1>4, CutShort
<1> HIDE DEF op, f, x
<1>6. f \in Seq(Int) /\ x \in Seq(Int) /\ Len(f) = m /\ Len(x) = Len(rx[p]) - m
  BY <1>4, <1>5, CutInside
<1>7. /\ c \in ReceivesBytes /\ Joins(c.got, <<>>, Masked(l, f)) /\ c.mode = "direct"
      /\ c.todo = <<>> <=> m = Len(l)
  BY <1>3, <1>5, <1>6, CopiedFacts
<1> DEFINE g == c.got
<1>8. g \in Seq(Int)
  BY <1>7, RecvFields
<1> HIDE DEF c
<1>9. c.todo # <<>> => x = <<>>
  <2>1. m # Len(l) => Len(x) = 0
    BY <1>4, <1>5, <1>6
  <2> QED BY <1>6, <1>7, <2>1, NoElements
<1>10. kind = "ipc" => x = <<>>
  <2>1. kind = "ipc" => Len(rx[p]) = 0
    BY <1>1 DEF Receiver
  <2>2. kind = "ipc" => Len(x) = 0
    BY <1>4, <1>5, <1>6, <2>1
  <2> QED BY <1>6, <2>2, NoElements
<1>11. rx' \in [Peers -> Seq(Int)] /\ rx'[p] = x /\ rx'[q] = rx[q]
  BY <1>1, <1>2, <1>6 DEF StreamTypes
<1>12. Moved(p, g)
  <2> DEFINE b == Data(sndq[q])
             a == Data(rcvq[p])
  <2>1. Got(p) = <<>>
    BY <1>2, RecvFields DEF Got
  <2>2. a \in Seq(Int) /\ b \in Seq(Int)
    BY <1>1, DataFacts DEF StreamTypes
  <2> HIDE DEF a, b
  <2>3. ASSUME Flow(recvd[p], <<>>, rx[p], a, b)
        PROVE  /\ Flow(recvd[p], g, x, a, b)
               /\ Length(recvd[p], g, x, a, b) = Length(recvd[p], <<>>, rx[p], a, b)
    <3> DEFINE h == <<>> \o Masked(l, First(rx[p], m))
    <3>1. /\ Flow(recvd[p], h, Rest(rx[p], m), a, b)
          /\ Length(recvd[p], h, Rest(rx[p], m), a, b) = Length(recvd[p], <<>>, rx[p], a, b)
      BY <1>4, <1>5, <2>2, <2>3, FlowBegin
    <3>2. g = h
      BY <1>5, <1>7, Zenon DEF Joins
    <3> QED BY <1>5, <3>1, <3>2, Zenon
  <2>4. rcvq'[p] = rcvq[p]
    BY <1>2
  <2> QED BY <1>11, <2>1, <2>3, <2>4 DEF Moved, a, b, q
<1>13. /\ Live(p) \/ skipfail[p]
  BY <1>2, RecvFields DEF Live
<1>14. CASE c.todo = <<>>
  <2>1. recvd' = [recvd EXCEPT ![p] = recvd[p] \o g] /\ rcv' = rcv
    BY <1>2, <1>14
  <2>2. recvd[p] \o g \in Seq(Int)
    BY <1>4, <1>8, ConcatFacts
  <2>3. recvd' \in [Peers -> Seq(Int)] /\ recvd'[p] = recvd[p] \o g /\ recvd'[q] = recvd[q]
    BY <1>1, <2>1, <2>2 DEF StreamTypes
  <2>4. Joins(recvd'[p], recvd[p], g)
    BY <2>3 DEF Joins
  <2>5. StreamTypes'
    BY <1>1, <1>2, <1>11, <2>1, <2>3 DEF StreamTypes
  <2>6. recvd'[q] = recvd[q] /\ rcv'[q] = rcv[q] /\ rcv'[p] = Idle
    BY <1>2, <2>1, <2>3
  <2> QED BY <1>2, <1>8, <1>10, <1>11, <1>12, <1>13, <2>4, <2>5, <2>6, RcvqFacts, TransferInv DEF q
<1>15. CASE c.todo # <<>>
  <2> DEFINE o == IF kind = "ipc" \/ Len(c.todo) > BufSize THEN c ELSE [c EXCEPT !.mode = "buffered"]
  <2>1. rcv' = [rcv EXCEPT ![p] = o] /\ recvd' = recvd
    BY <1>2, <1>15
  <2>2. o \in ReceivesBytes /\ o.got = g /\ o.todo = c.todo /\ (kind = "ipc" => o.mode = "direct")
    BY <1>7 DEF ReceivesBytes
  <2> HIDE DEF o
  <2>3. /\ rcv' \in [Peers -> {Idle} \cup ReceivesBytes \cup ReceivesFd \cup Drains] /\ rcv'[p] = o
        /\ rcv'[q] = rcv[q]
    BY <1>1, <2>1, <2>2, RecvTypes
  <2>4. StreamTypes'
    BY <1>1, <1>2, <1>11, <2>1, <2>3 DEF StreamTypes
  <2> QED BY <1>2, <1>8, <1>9, <1>10, <1>11, <1>12, <1>13, <1>15, <2>1, <2>2, <2>3, <2>4, RcvqFacts,
             TransferInv DEF q
<1> QED BY <1>14, <1>15

LEMMA FdRecvDataInv ==
  ASSUME StreamInv, NEW p \in Peers, FdRecvData(p) PROVE StreamInv'
<1> DEFINE q == Other(p)
           op == rcv[p]
           n == IF op.mode = "direct" THEN Len(op.todo) ELSE BufSize
           d == Data(rcvq[p])
           s == First(d, n)
           f == First(s, Len(op.todo))
           c == Copied(op, f)
           x == Rest(s, Len(op.todo))
           u == Rest(rcvq[p], Len(s))
<1>1. /\ q \in Peers /\ q # p /\ StreamTypes /\ Receiver(p) /\ Places(p)
  BY StreamParts
<1>2. /\ rcvq' = [rcvq EXCEPT ![p] = u]
      /\ rx' = IF op.mode = "direct" THEN rx ELSE [rx EXCEPT ![p] = x]
      /\ IF c.todo = <<>> THEN Received(p, c)
         ELSE rcv' = [rcv EXCEPT ![p] = c] /\ UNCHANGED <<recvd, conn>>
      /\ UNCHANGED <<kind, snd, sndq, rst, offered, lost, skipfail, dead>>
  BY DEF FdRecvData
<1>3. op \in ReceivesBytes
  BY <1>1, RecvKinds DEF FdRecvData, Calls
<1>4. /\ op.todo \in Seq({"buf", "null"}) /\ op.got \in Seq(Int) /\ op.todo # <<>> /\ rx[p] = <<>>
      /\ kind = "ipc" => op.mode = "direct"
      /\ ~conn[p].indone /\ ~conn[p].inerr /\ conn[p].closed = "no"
  BY <1>1, <1>3, RecvFields DEF Receiver
<1>5. Live(p) \/ skipfail[p]
  BY <1>1, <1>3, RecvLive
<1>6. /\ d \in Seq(Int) /\ Len(d) \in Nat /\ rcvq[p] \in Seq(Int) /\ Shape(rcvq[p])
      /\ recvd[p] \in Seq(Int) /\ Len(op.todo) \in Nat
  BY <1>1, <1>4, RcvqFacts DEF StreamTypes
<1>7. n \in Nat
  BY <1>6, StreamAssumption
<1> HIDE DEF n, op
<1>8. PICK m \in Nat : m <= n /\ m <= Len(d) /\ s = First(d, m)
  BY <1>6, <1>7, CutShort
<1>9. s \in Seq(Int) /\ Len(s) = m
  BY <1>6, <1>8, CutInside
<1> HIDE DEF d
<1>10. /\ u \in Seq(Int) /\ Data(u) = Rest(d, m) /\ (Ended(u) <=> Ended(rcvq[p])) /\ Shape(u)
  <2>1. m \in 0..Len(Data(rcvq[p])) /\ u = Rest(rcvq[p], m)
    BY <1>6, <1>8, <1>9 DEF d
  <2> HIDE DEF u
  <2> QED BY <1>6, <2>1, DataRest DEF d
<1> HIDE DEF s
<1>11. PICK k \in Nat : /\ k <= Len(op.todo) /\ k <= m /\ (k = Len(op.todo) \/ k = m)
                        /\ f = First(s, k) /\ x = Rest(s, k)
  BY <1>6, <1>9, CutShort
<1> HIDE DEF f, x, u
<1>12. f \in Seq(Int) /\ x \in Seq(Int) /\ Len(f) = k /\ Len(x) = m - k
  BY <1>9, <1>11, CutInside
<1>13. /\ c \in ReceivesBytes /\ Joins(c.got, op.got, Masked(op.todo, f)) /\ c.mode = op.mode
       /\ c.todo = <<>> <=> k = Len(op.todo)
  BY <1>3, <1>11, <1>12, CopiedFacts DEF op
<1> HIDE DEF c
<1> DEFINE g == c.got
<1>14. g \in Seq(Int)
  BY <1>13, RecvFields
<1>15. c.todo # <<>> => x = <<>>
  <2>1. k # Len(op.todo) => Len(x) = 0
    BY <1>11, <1>12
  <2> QED BY <1>12, <1>13, <2>1, NoElements
<1>16. op.mode = "direct" => x = <<>>
  <2>1. op.mode = "direct" => n = Len(op.todo)
    BY DEF n
  <2>2. n = Len(op.todo) => Len(x) = 0
    BY <1>6, <1>8, <1>11, <1>12
  <2> QED BY <1>12, <2>1, <2>2, NoElements
<1>17. rx' \in [Peers -> Seq(Int)] /\ rx'[p] = x /\ rx'[q] = rx[q]
  <2>1. rx \in [Peers -> Seq(Int)]
    BY <1>1 DEF StreamTypes
  <2>2. CASE op.mode = "direct"
    <3>1. rx' = rx
      BY <1>2, <2>2
    <3> QED BY <1>4, <1>16, <2>1, <2>2, <3>1
  <2>3. CASE op.mode # "direct"
    <3>1. rx' = [rx EXCEPT ![p] = x]
      BY <1>2, <2>3
    <3> QED BY <1>1, <1>12, <2>1, <3>1
  <2> QED BY <2>2, <2>3
<1>18. rcvq' \in [Peers -> Seq(Int)] /\ rcvq'[p] = u /\ rcvq'[q] = rcvq[q]
  BY <1>1, <1>2, <1>10 DEF StreamTypes
<1>19. Len(Data(u)) <= Len(Data(rcvq[p]))
  <2>1. Len(Rest(d, m)) = Len(d) - m
    BY <1>6, <1>8, CutInside
  <2> QED BY <1>6, <1>8, <1>10, <2>1 DEF d
<1>20. Moved(p, g)
  <2> DEFINE b == Data(sndq[q])
             r == Rest(d, m)
  <2>1. Got(p) = op.got /\ rx[p] = <<>>
    BY <1>3, <1>4 DEF Got, op
  <2>2. b \in Seq(Int)
    BY <1>1, DataFacts DEF StreamTypes
  <2> HIDE DEF b
  <2>3. ASSUME Flow(recvd[p], op.got, <<>>, d, b)
        PROVE  /\ Flow(recvd[p], g, x, r, b)
               /\ Length(recvd[p], g, x, r, b) = Length(recvd[p], op.got, <<>>, d, b)
    <3> DEFINE t == First(d, m)
               h == op.got \o Masked(op.todo, First(t, k))
    <3>1. /\ Flow(recvd[p], h, Rest(t, k), r, b)
          /\ Length(recvd[p], h, Rest(t, k), r, b) = Length(recvd[p], op.got, <<>>, d, b)
      BY <1>4, <1>6, <1>8, <1>11, <2>2, <2>3, FlowReceive
    <3>2. g = h
      BY <1>8, <1>11, <1>13, Zenon DEF Joins
    <3> QED BY <1>8, <1>11, <3>1, <3>2, Zenon
  <2>4. Data(rcvq'[p]) = r
    BY <1>10, <1>18
  <2> QED BY <1>17, <2>1, <2>3, <2>4 DEF Moved, b, d, q
<1>21. CASE c.todo = <<>>
  <2>1. rcv' = [rcv EXCEPT ![p] = Idle] /\ recvd' = [recvd EXCEPT ![p] = recvd[p] \o g] /\ conn' = conn
    BY <1>2, <1>21 DEF Received
  <2>2. recvd[p] \o g \in Seq(Int)
    BY <1>6, <1>14, ConcatFacts
  <2>3. recvd' \in [Peers -> Seq(Int)] /\ recvd'[p] = recvd[p] \o g /\ recvd'[q] = recvd[q]
    BY <1>1, <2>1, <2>2 DEF StreamTypes
  <2>4. Joins(recvd'[p], recvd[p], g)
    BY <2>3 DEF Joins
  <2>5. /\ rcv' \in [Peers -> {Idle} \cup ReceivesBytes \cup ReceivesFd \cup Drains] /\ rcv'[p] = Idle
        /\ rcv'[q] = rcv[q]
    BY <1>1, <2>1, RecvTypes
  <2>6. StreamTypes'
    BY <1>1, <1>2, <1>17, <1>18, <2>1, <2>3, <2>5 DEF StreamTypes
  <2>7. recvd'[q] = recvd[q] /\ (kind = "ipc" => rx'[p] = <<>>)
    BY <1>4, <1>16, <1>17, <2>3
  <2> QED BY <1>2, <1>4, <1>5, <1>10, <1>14, <1>17, <1>18, <1>19, <1>20, <2>1, <2>4, <2>5, <2>6, <2>7,
             TransferInv DEF q
<1>22. CASE c.todo # <<>>
  <2>1. rcv' = [rcv EXCEPT ![p] = c] /\ recvd' = recvd /\ conn' = conn
    BY <1>2, <1>22
  <2>2. /\ rcv' \in [Peers -> {Idle} \cup ReceivesBytes \cup ReceivesFd \cup Drains] /\ rcv'[p] = c
        /\ rcv'[q] = rcv[q]
    BY <1>1, <1>13, <2>1, RecvTypes
  <2>3. StreamTypes'
    BY <1>1, <1>2, <1>17, <1>18, <2>1, <2>2 DEF StreamTypes
  <2>4. c \in ReceivesBytes /\ c.todo # <<>> /\ (kind = "ipc" => c.mode = "direct") /\ x = <<>>
    BY <1>4, <1>13, <1>15, <1>22
  <2> QED BY <1>2, <1>4, <1>5, <1>10, <1>14, <1>17, <1>18, <1>19, <1>20, <2>1, <2>2, <2>3, <2>4,
             TransferInv DEF q
<1> QED BY <1>21, <1>22

\* A receive that is over without having returned anything, or has ignored an error.
LEMMA RecvDeadInv ==
  ASSUME StreamInv, StreamTypes', NEW p \in Peers,
         UNCHANGED <<kind, rx, snd, sndq, rcvq, offered, lost>>,
         conn'[Other(p)] = conn[Other(p)], rcv'[Other(p)] = rcv[Other(p)],
         recvd'[Other(p)] = recvd[Other(p)], skipfail'[Other(p)] = skipfail[Other(p)],
         rst'[Other(p)] = rst[Other(p)],
         conn'[p].outdone <=> conn[p].outdone, conn'[p].closed = conn[p].closed,
         conn[p].outerr => conn'[p].outerr, rst'[p] = "no" => rst[p] = "no",
         skipfail[p] => skipfail'[p], skipfail'[p] \/ recvd'[p] = recvd[p],
         ~Live(p)', Receiver(p)', EndSeen(p)'
  PROVE  StreamInv'
<1>1. Places(p)
  BY StreamParts
<1>2. skipfail'[p] \/ Returned(recvd'[p], 0)
  BY <1>1 DEF Places
<1>3. Places(p)'
  BY <1>1, <1>2, PlacesDead
<1> QED BY <1>3, RcvqFacts, RecvSideInv

\* There is something to skip.
LEMMA SkippedFacts ==
  ASSUME NEW op \in ReceivesBytes, op.todo # <<>>, Skips(op), NEW c, c = SkippedOver(op)
  PROVE  c \in ReceivesBytes /\ c.mode = op.mode
<1> DEFINE l == op.todo
           Run(i) == /\ \A j \in 1..i : l[j] = "null"
                     /\ i < Len(l) => l[i + 1] # "null"
           n == CHOOSE i \in 1..Len(l) : Run(i)
           T == {i \in Nat : 1 <= i /\ i <= Len(l) /\ (i = Len(l) \/ l[i + 1] # "null")}
<1>1. l \in Seq({"buf", "null"}) /\ Len(l) \in Nat /\ Len(l) # 0 /\ l[1] = "null"
  <2>1. l \in Seq({"buf", "null"})
    BY RecvFields
  <2> QED BY <2>1 DEF Skips
<1>a. c = Copied(op, [i \in 1..n |-> 0])
  BY Zenon DEF SkippedOver
<1> HIDE DEF l
<1>2. Len(l) \in T
  BY <1>1
<1>3. PICK i \in T : \A m \in T : i <= m
  <2>1. T \subseteq Nat /\ T # {}
    BY <1>2
  <2> HIDE DEF T
  <2> QED BY <2>1, NatMin
<1>4. i \in 1..Len(l) /\ (i < Len(l) => l[i + 1] # "null")
  BY <1>1, <1>3
<1>5. ASSUME NEW j \in 1..i PROVE l[j] = "null"
  <2>1. CASE j = 1
    BY <1>1, <2>1
  <2>2. CASE j # 1
    <3>1. j - 1 \in Nat /\ 1 <= j - 1 /\ j - 1 < i /\ j - 1 <= Len(l) /\ j - 1 + 1 = j /\ j - 1 # Len(l)
      BY <1>1, <1>4, <2>2
    <3>2. j - 1 \notin T
      <4> HIDE DEF T
      <4> QED BY <1>3, <1>4, <3>1
    <3>3. ~(l[j - 1 + 1] # "null")
      BY <3>1, <3>2
    <3> QED BY <3>1, <3>3
  <2> QED BY <2>1, <2>2
<1>6. Run(i)
  BY <1>4, <1>5
<1> HIDE DEF Run
<1>7. n \in 1..Len(l)
  BY <1>4, <1>6
<1> HIDE DEF n
<1> DEFINE s == [k \in 1..n |-> 0]
<1>8. n \in Nat /\ n <= Len(l)
  BY <1>1, <1>7
<1>9. s \in Seq(Int) /\ Len(s) = n
  BY <1>8
<1>b. c = Copied(op, s)
  BY <1>a
<1> HIDE DEF s
<1>10. Len(s) <= Len(op.todo)
  BY <1>8, <1>9 DEF l
<1> QED BY <1>9, <1>10, <1>b, CopiedFacts

\* An error of dill_fd_skip is ignored: the list goes on, or the receive returns.
LEMMA SkipInv ==
  ASSUME StreamInv, NEW p \in Peers, rcv[p] \in ReceivesBytes, NEW c \in ReceivesBytes, c.mode = rcv[p].mode,
         skipfail' = [skipfail EXCEPT ![p] = TRUE],
         \/ c.todo = <<>> /\ Received(p, c)
         \/ c.todo # <<>> /\ rcv' = [rcv EXCEPT ![p] = c] /\ UNCHANGED <<recvd, conn>>,
         ErrorRead(p) \/ rst' = rst,
         UNCHANGED <<kind, rx, snd, sndq, rcvq, offered, lost, dead>>
  PROVE  StreamInv'
<1> DEFINE q == Other(p)
<1>1. /\ q \in Peers /\ q # p /\ StreamTypes /\ Receiver(p)
  BY StreamParts
<1>2. /\ skipfail' \in [Peers -> BOOLEAN] /\ skipfail'[p] = TRUE /\ skipfail'[q] = skipfail[q]
  BY <1>1 DEF StreamTypes
<1>3. /\ rst' \in [Peers -> {"no", "pending", "reported"}] /\ rst'[q] = rst[q]
      /\ rst'[p] = "no" => rst[p] = "no"
  BY <1>1 DEF StreamTypes, ErrorRead
<1>4. conn' = conn
  BY DEF Received
<1>5. CASE c.todo = <<>> /\ Received(p, c)
  <2>1. rcv' = [rcv EXCEPT ![p] = Idle] /\ recvd' = [recvd EXCEPT ![p] = recvd[p] \o c.got]
    BY <1>5 DEF Received
  <2>2. c.got \in Seq(Int) /\ recvd[p] \in Seq(Int)
    BY <1>1, RecvFields DEF StreamTypes
  <2>3. recvd[p] \o c.got \in Seq(Int)
    BY <2>2, ConcatFacts
  <2>4. recvd' \in [Peers -> Seq(Int)] /\ recvd'[q] = recvd[q]
    BY <1>1, <2>1, <2>3 DEF StreamTypes
  <2>5. /\ rcv' \in [Peers -> {Idle} \cup ReceivesBytes \cup ReceivesFd \cup Drains] /\ rcv'[p] = Idle
        /\ rcv'[q] = rcv[q]
    BY <1>1, <2>1, RecvTypes
  <2>6. StreamTypes'
    BY <1>1, <1>2, <1>3, <1>4, <2>4, <2>5 DEF StreamTypes
  <2>7. Receiver(p)' /\ EndSeen(p)' /\ ~Live(p)'
    BY <1>1, <1>2, <1>4, <2>5, RecvFields DEF Receiver, EndSeen, Live
  <2> QED BY <1>2, <1>3, <1>4, <2>4, <2>5, <2>6, <2>7, RecvDeadInv
<1>6. CASE c.todo # <<>> /\ rcv' = [rcv EXCEPT ![p] = c] /\ UNCHANGED <<recvd, conn>>
  <2>1. /\ rcv' \in [Peers -> {Idle} \cup ReceivesBytes \cup ReceivesFd \cup Drains] /\ rcv'[p] = c
        /\ rcv'[q] = rcv[q]
    BY <1>1, <1>6, RecvTypes
  <2>2. StreamTypes'
    BY <1>1, <1>2, <1>3, <1>4, <1>6, <2>1 DEF StreamTypes
  <2>3. Receiver(p)' /\ EndSeen(p)' /\ ~Live(p)'
    BY <1>1, <1>2, <1>4, <1>6, <2>1, RecvFields DEF Receiver, EndSeen, Live
  <2> QED BY <1>2, <1>3, <1>4, <1>6, <2>1, <2>2, <2>3, RecvDeadInv
<1> QED BY <1>5, <1>6

\* A receive fails.
LEMMA RecvFailsInv ==
  ASSUME StreamInv, NEW p \in Peers, rcv[p] \in ReceivesBytes, NEW how, RecvFailed(p, how),
         \/ ErrorRead(p) /\ how = Found(p) /\ Found(p) \in {"eof", "reset"}
         \/ rst' = rst /\ how = "timeout",
         UNCHANGED <<kind, rx, snd, sndq, rcvq, offered, lost, skipfail, dead>>
  PROVE  StreamInv'
<1> DEFINE q == Other(p)
           c == IF how = "eof" THEN [conn[p] EXCEPT !.indone = TRUE] ELSE [conn[p] EXCEPT !.inerr = TRUE]
<1>1. /\ q \in Peers /\ q # p /\ StreamTypes /\ Receiver(p)
  BY StreamParts
<1>2. /\ rcv' = [rcv EXCEPT ![p] = Idle] /\ recvd' = recvd /\ conn' = [conn EXCEPT ![p] = c]
  BY DEF RecvFailed
<1>3. conn[p] \in Flags /\ ~conn[p].indone /\ ~conn[p].inerr
  <2>1. conn[p] \in Flags
    BY <1>1 DEF StreamTypes, Flags
  <2> QED BY <1>1, <2>1, RecvFields DEF Receiver
<1>4. /\ c \in Flags /\ c.outdone = conn[p].outdone /\ c.outerr = conn[p].outerr
      /\ c.closed = conn[p].closed
      /\ how = "eof" => c.indone = TRUE /\ c.inerr = conn[p].inerr
      /\ how # "eof" => c.indone = conn[p].indone /\ c.inerr = TRUE
  <2>1. c \in Flags
    BY <1>3, FlagSet
  <2> QED BY <1>3, <2>1 DEF Flags
<1> HIDE DEF c
<1>5. conn' \in [Peers -> Flags] /\ conn'[p] = c /\ conn'[q] = conn[q]
  BY <1>1, <1>2, <1>4, ConnTypes
<1>6. /\ rcv' \in [Peers -> {Idle} \cup ReceivesBytes \cup ReceivesFd \cup Drains] /\ rcv'[p] = Idle
      /\ rcv'[q] = rcv[q]
  BY <1>1, <1>2, RecvTypes
<1>7. /\ rst' \in [Peers -> {"no", "pending", "reported"}] /\ rst'[q] = rst[q]
      /\ rst'[p] = "no" => rst[p] = "no"
      /\ rst'[p] = "reported" => rst[p] # "no"
  BY <1>1 DEF StreamTypes, ErrorRead
<1>8. StreamTypes'
  BY <1>1, <1>2, <1>5, <1>6, <1>7 DEF StreamTypes, Flags
<1>9. how = "eof" => rst[p] # "pending" /\ Found(p) = "eof"
  BY FoundFacts
<1>10. conn'[p].inerr \/ how = "eof"
  BY <1>4, <1>5
<1>11. Receiver(p)'
  <2>1. rst'[p] = "reported" => conn'[p].outerr \/ conn'[p].inerr \/ skipfail'[p]
    <3>1. CASE how = "eof"
      <4>1. rst'[p] = "reported" => conn[p].outerr \/ skipfail[p]
        BY <1>1, <1>3, <1>7, <1>9, <3>1 DEF Receiver, StreamTypes
      <4>2. conn'[p].outerr = conn[p].outerr
        BY <1>4, <1>5
      <4> QED BY <4>1, <4>2, Zenon
    <3>2. CASE how # "eof"
      BY <1>10, <3>2
    <3> QED BY <3>1, <3>2
  <2>2. rcv'[p] \notin ReceivesBytes /\ rcv'[p] \notin ReceivesFd
    BY <1>6, RecvFields
  <2> QED BY <1>1, <1>6, <2>1, <2>2 DEF Receiver
<1>12. EndSeen(p)'
  <2>1. CASE how = "eof"
    <3>1. conn'[p].outerr = conn[p].outerr
      BY <1>4, <1>5
    <3>2. rcv[p] # Idle
      BY RecvFields
    <3>3. conn[p].outerr \/ skipfail[p] \/ (Gone(q) /\ sndq[q] = <<>> /\ Data(rcvq[p]) = <<>> /\ lost[q] = 0)
      BY <1>9, <2>1, <3>2, EofMeansEnd
    <3>4. Gone(q) => Gone(q)'
      BY <1>5, GoneStays
    <3> QED BY <3>1, <3>3, <3>4 DEF EndSeen
  <2>2. CASE how # "eof"
    <3>1. conn'[p].indone = conn[p].indone
      BY <1>4, <1>5, <2>2
    <3> QED BY <1>3, <3>1 DEF EndSeen
  <2> QED BY <2>1, <2>2
<1>13. ~Live(p)'
  BY <1>4, <1>5 DEF Live
<1>14. /\ conn'[p].outdone <=> conn[p].outdone
       /\ conn'[p].closed = conn[p].closed
       /\ conn[p].outerr => conn'[p].outerr
  BY <1>4, <1>5, Zenon
<1> QED BY <1>2, <1>5, <1>6, <1>7, <1>8, <1>11, <1>12, <1>13, <1>14, RecvDeadInv

LEMMA FdRecvErrorInv ==
  ASSUME StreamInv, NEW p \in Peers, FdRecvError(p) PROVE StreamInv'
<1>1. StreamTypes /\ Receiver(p)
  BY StreamParts
<1>2. rcv[p] \in ReceivesBytes
  BY <1>1, RecvKinds DEF FdRecvError, Calls
<1>3. ErrorRead(p) /\ UNCHANGED <<kind, rx, snd, sndq, rcvq, offered, lost, dead>>
      /\ Found(p) \in {"eof", "reset"}
  BY DEF FdRecvError
<1>4. CASE Skips(rcv[p])
  <2> DEFINE c == SkippedOver(rcv[p])
  <2>1. /\ skipfail' = [skipfail EXCEPT ![p] = TRUE]
        /\ \/ c.todo = <<>> /\ Received(p, c)
           \/ c.todo # <<>> /\ rcv' = [rcv EXCEPT ![p] = c] /\ UNCHANGED <<recvd, conn>>
    BY <1>4 DEF FdRecvError
  <2>2. c \in ReceivesBytes /\ c.mode = rcv[p].mode
    BY <1>1, <1>2, <1>4, SkippedFacts DEF Receiver
  <2> HIDE DEF c
  <2> QED BY <1>2, <1>3, <2>1, <2>2, SkipInv
<1>5. CASE ~Skips(rcv[p])
  <2>1. RecvFailed(p, Found(p)) /\ skipfail' = skipfail
    BY <1>5 DEF FdRecvError
  <2> QED BY <1>2, <1>3, <2>1, RecvFailsInv
<1> QED BY <1>4, <1>5

LEMMA FdInFailsInv ==
  ASSUME StreamInv, NEW p \in Peers, FdInFails(p) PROVE StreamInv'
<1>1. StreamTypes /\ Receiver(p) /\ Other(p) \in Peers /\ Other(p) # p
  BY StreamParts
<1>2. UNCHANGED <<kind, rx, snd, sndq, rcvq, rst, offered, lost, dead>>
  BY DEF FdInFails
<1>3. rcv[p] \in ReceivesBytes \/ rcv[p] \in ReceivesFd
  <2>1. rcv[p].pc \in Calls /\ (rcv[p].mode # "drain" \/ rcv[p].late)
    BY DEF FdInFails, Calls
  <2>2. rcv[p] # Idle
    <3>1. Idle.pc \notin Calls
      BY DEF Idle, Calls
    <3> QED BY <2>1, <3>1
  <2>3. rcv[p] \in Drains => rcv[p].mode = "drain" /\ rcv[p].late = FALSE
    BY DEF Drains
  <2> QED BY <1>1, <2>1, <2>2, <2>3, RecvKinds
<1>4. CASE Skips(rcv[p])
  <2> DEFINE e == SkippedOver(rcv[p])
             c == [e EXCEPT !.pc = "run", !.late = TRUE]
  <2>1. /\ skipfail' = [skipfail EXCEPT ![p] = TRUE]
        /\ \/ c.todo = <<>> /\ Received(p, c)
           \/ c.todo # <<>> /\ rcv' = [rcv EXCEPT ![p] = c] /\ UNCHANGED <<recvd, conn>>
    BY <1>4 DEF FdInFails
  <2>2. rcv[p] \in ReceivesBytes
    BY <1>3, <1>4, RecvFields DEF Skips
  <2>3. e \in ReceivesBytes /\ e.mode = rcv[p].mode
    BY <1>1, <1>4, <2>2, SkippedFacts DEF Receiver
  <2> HIDE DEF e
  <2>4. c \in ReceivesBytes /\ c.mode = rcv[p].mode
    BY <2>3 DEF ReceivesBytes, Calls
  <2> HIDE DEF c
  <2> QED BY <1>2, <2>1, <2>2, <2>4, SkipInv
<1>5. CASE ~Skips(rcv[p]) /\ rcv[p] \in ReceivesBytes
  <2>1. RecvFailed(p, "timeout") /\ skipfail' = skipfail
    BY <1>5, RecvFields DEF FdInFails
  <2> QED BY <1>2, <1>5, <2>1, RecvFailsInv
<1>6. CASE rcv[p] \in ReceivesFd
  <2>1. rcv' = [rcv EXCEPT ![p] = Idle] /\ UNCHANGED <<recvd, conn, skipfail>>
    BY <1>6, RecvFields DEF FdInFails, Skips
  <2>2. /\ rcv' \in [Peers -> {Idle} \cup ReceivesBytes \cup ReceivesFd \cup Drains] /\ rcv'[p] = Idle
        /\ rcv'[Other(p)] = rcv[Other(p)]
    BY <1>1, <2>1, RecvTypes
  <2>3. StreamTypes'
    BY <1>1, <1>2, <2>1, <2>2 DEF StreamTypes
  <2>4. /\ Live(p) \/ skipfail[p]
        /\ ~conn[p].indone /\ ~conn[p].inerr /\ conn[p].closed = "no" /\ rx[p] = <<>>
    BY <1>1, <1>6, RecvLive, RecvFields DEF Receiver
  <2>5. recvd[p] \in Seq(Int) /\ <<>> \in Seq(Int)
    BY <1>1 DEF StreamTypes
  <2>6. recvd[p] = recvd[p] \o <<>>
    BY <2>5
  <2>7. Joins(recvd'[p], recvd[p], <<>>)
    BY <2>1, <2>6 DEF Joins
  <2>8. Got(p) = <<>>
    BY <1>6, RecvFields DEF Got
  <2>9. Moved(p, <<>>)
    BY <1>2, <2>8 DEF Moved
  <2> QED BY <1>2, <2>1, <2>2, <2>3, <2>4, <2>5, <2>7, <2>9, RcvqFacts, TransferInv
<1> QED BY <1>3, <1>4, <1>5, <1>6

LEMMA RecvFdInv ==
  ASSUME StreamInv, NEW p \in Peers, RecvFd(p) PROVE StreamInv'
<1> DEFINE o == [pc |-> "wait", mode |-> "fd", late |-> FALSE]
<1>1. StreamTypes /\ Receiver(p) /\ Places(p) /\ EndSeen(p) /\ Other(p) \in Peers
  BY StreamParts
<1>2. o \in ReceivesFd
  BY DEF ReceivesFd, Calls
<1>3. /\ rcv' = [rcv EXCEPT ![p] = o] /\ rcv[p] = Idle /\ kind = "ipc"
      /\ ~conn[p].indone /\ ~conn[p].inerr /\ conn[p].closed = "no"
      /\ UNCHANGED <<kind, conn, rx, snd, sndq, rcvq, rst, offered, recvd, lost, skipfail, dead>>
  BY DEF RecvFd, Free, Open
<1> HIDE DEF o
<1>4. /\ rcv' \in [Peers -> {Idle} \cup ReceivesBytes \cup ReceivesFd \cup Drains] /\ rcv'[p] = o
      /\ rcv'[Other(p)] = rcv[Other(p)]
  BY <1>1, <1>2, <1>3, RecvTypes
<1>5. StreamTypes'
  BY <1>1, <1>3, <1>4 DEF StreamTypes
<1>6. Receiver(p)'
  BY <1>1, <1>2, <1>3, <1>4, RecvFields DEF Receiver
<1>7. Places(p)'
  <2>1. Got(p)' = Got(p) /\ (Live(p)' <=> Live(p))
    BY <1>2, <1>3, <1>4, RecvFields DEF Got, Live
  <2>2. snd[p] \in SendsBytes => snd[p].next + snd[p].left = offered[p] + 1
    BY <1>1 DEF Places
  <2> QED BY <1>1, <1>3, <2>1, <2>2, KeepsPlaces, KeepsMaySend
<1>8. EndSeen(p)'
  BY <1>1, <1>3, KeepsEnd, GoneStays
<1> QED BY <1>3, <1>4, <1>5, <1>6, <1>7, <1>8, RcvqFacts, RecvSideInv

LEMMA RecvFdEndInv ==
  ASSUME StreamInv, NEW p \in Peers, RecvFdEnd(p) PROVE StreamInv'
<1> DEFINE q == Other(p)
           b == Head(rcvq[p])
           a == Data(rcvq[p])
           c == [conn[p] EXCEPT !.indone = @ \/ Found(p) = "eof", !.outerr = @ \/ Found(p) = "reset",
                                !.inerr = @ \/ (Found(p) = "data" /\ b > 0)]
<1>1. /\ q \in Peers /\ q # p /\ Other(q) = p /\ StreamTypes /\ Receiver(p) /\ Places(p)
  BY StreamParts
<1>2. rcv[p] \in ReceivesFd
  BY <1>1, RecvKinds DEF RecvFdEnd, Calls
<1>3. /\ rcv' = [rcv EXCEPT ![p] = Idle]
      /\ rcvq' = IF Found(p) = "data" THEN [rcvq EXCEPT ![p] = Tail(rcvq[p])] ELSE rcvq
      /\ recvd' = IF Found(p) = "data" /\ b < 0 THEN [recvd EXCEPT ![p] = Append(recvd[p], b)] ELSE recvd
      /\ IF Found(p) = "data" THEN UNCHANGED rst ELSE ErrorRead(p)
      /\ UNCHANGED <<kind, rx, snd, sndq, offered, lost, skipfail, dead>>
  BY DEF RecvFdEnd
<1>4. conn' = [conn EXCEPT ![p] = c]
  BY DEF RecvFdEnd
<1>5. /\ rx[p] = <<>> /\ ~conn[p].indone /\ ~conn[p].inerr /\ conn[p].closed = "no" /\ rcv[p] # Idle
      /\ Got(p) = <<>>
  BY <1>1, <1>2, RecvFields DEF Receiver, Got
<1>6. /\ c \in Flags
      /\ c.outdone <=> conn[p].outdone
      /\ c.closed = conn[p].closed
      /\ c.indone <=> Found(p) = "eof"
      /\ c.outerr <=> conn[p].outerr \/ Found(p) = "reset"
      /\ c.inerr <=> Found(p) = "data" /\ b > 0
  <2>1. conn[p] \in Flags
    BY <1>1 DEF StreamTypes, Flags
  <2>2. c \in Flags
    BY <2>1 DEF Flags
  <2> QED BY <1>5, <2>1, <2>2 DEF Flags
<1> HIDE DEF c
<1>7. conn' \in [Peers -> Flags] /\ conn'[p] = c /\ conn'[q] = conn[q]
  BY <1>1, <1>4, <1>6, ConnTypes
<1>8. /\ rcv' \in [Peers -> {Idle} \cup ReceivesBytes \cup ReceivesFd \cup Drains] /\ rcv'[p] = Idle
      /\ rcv'[q] = rcv[q]
  BY <1>1, <1>3, RecvTypes
<1>9. /\ rst' \in [Peers -> {"no", "pending", "reported"}] /\ rst'[q] = rst[q]
      /\ rst'[p] = "no" => rst[p] = "no"
      /\ rst'[p] = "reported" => rst[p] = "reported" \/ (rst[p] = "pending" /\ Found(p) # "data")
  <2>1. rst \in [Peers -> {"no", "pending", "reported"}]
    BY <1>1 DEF StreamTypes
  <2>2. CASE Found(p) = "data"
    BY <1>3, <2>1, <2>2
  <2>3. CASE Found(p) # "data"
    BY <1>1, <1>3, <2>1, <2>3 DEF ErrorRead
  <2> QED BY <2>2, <2>3
<1>10. a \in Seq(Int) /\ Len(a) \in Nat /\ rcvq[p] \in Seq(Int) /\ Shape(rcvq[p]) /\ recvd[p] \in Seq(Int)
  BY <1>1, RcvqFacts DEF StreamTypes
<1>11. Found(p) = "data" =>
        /\ a # <<>> /\ Tail(rcvq[p]) \in Seq(Int) /\ Data(Tail(rcvq[p])) = Tail(a) /\ b = Head(a) /\ b # 0
        /\ (Ended(Tail(rcvq[p])) <=> Ended(rcvq[p])) /\ Shape(Tail(rcvq[p])) /\ b \in Int
  <2> SUFFICES ASSUME Found(p) = "data" PROVE
        /\ a # <<>> /\ Tail(rcvq[p]) \in Seq(Int) /\ Data(Tail(rcvq[p])) = Tail(a) /\ b = Head(a) /\ b # 0
        /\ (Ended(Tail(rcvq[p])) <=> Ended(rcvq[p])) /\ Shape(Tail(rcvq[p])) /\ b \in Int
    OBVIOUS
  <2>1. a # <<>>
    BY FoundFacts
  <2>2. rcvq[p] # <<>>
    <3>1. Data(<<>>) = <<>>
      BY DEF Data, Ended
    <3> QED BY <2>1, <3>1
  <2> QED BY <1>10, <2>1, <2>2, DataTail
<1>12. /\ rcvq' \in [Peers -> Seq(Int)] /\ rcvq'[q] = rcvq[q]
       /\ Found(p) = "data" => rcvq'[p] = Tail(rcvq[p])
       /\ Found(p) # "data" => rcvq'[p] = rcvq[p]
  <2>1. rcvq \in [Peers -> Seq(Int)]
    BY <1>1 DEF StreamTypes
  <2>2. CASE Found(p) = "data"
    <3>1. rcvq' = [rcvq EXCEPT ![p] = Tail(rcvq[p])]
      BY <1>3, <2>2
    <3> QED BY <1>1, <1>11, <2>1, <2>2, <3>1
  <2>3. CASE Found(p) # "data"
    BY <1>3, <2>1, <2>3
  <2> QED BY <2>2, <2>3
<1>13. /\ recvd' \in [Peers -> Seq(Int)] /\ recvd'[q] = recvd[q]
       /\ Found(p) = "data" /\ b < 0 => recvd'[p] = Append(recvd[p], b)
       /\ ~(Found(p) = "data" /\ b < 0) => recvd'[p] = recvd[p]
  <2>1. recvd \in [Peers -> Seq(Int)]
    BY <1>1 DEF StreamTypes
  <2>2. CASE Found(p) = "data" /\ b < 0
    <3>1. recvd' = [recvd EXCEPT ![p] = Append(recvd[p], b)]
      BY <1>3, <2>2
    <3>2. Append(recvd[p], b) \in Seq(Int)
      BY <1>10, <1>11, <2>2
    <3> QED BY <1>1, <2>1, <2>2, <3>1, <3>2
  <2>3. CASE ~(Found(p) = "data" /\ b < 0)
    BY <1>3, <2>1, <2>3
  <2> QED BY <2>2, <2>3
<1>14. StreamTypes'
  BY <1>1, <1>3, <1>7, <1>8, <1>9, <1>12, <1>13 DEF StreamTypes, Flags
<1>15. Receiver(p)'
  <2>1. rst'[p] = "reported" => conn'[p].outerr \/ conn'[p].inerr \/ skipfail'[p]
    <3>1. rst[p] = "reported" => conn[p].outerr \/ skipfail[p]
      BY <1>1, <1>5 DEF Receiver
    <3>2. rst[p] = "pending" /\ Found(p) # "data" => Found(p) = "reset"
      BY FoundFacts
    <3> QED BY <1>3, <1>6, <1>7, <1>9, <3>1, <3>2
  <2>2. rcv'[p] \notin ReceivesBytes /\ rcv'[p] \notin ReceivesFd
    BY <1>8, RecvFields
  <2> QED BY <1>1, <1>3, <1>8, <2>1, <2>2 DEF Receiver
<1>16. EndSeen(p)'
  <2> SUFFICES ASSUME conn'[p].indone, ~conn'[p].outerr, ~skipfail'[p]
               PROVE  Gone(q)' /\ sndq'[q] = <<>> /\ Data(rcvq'[p]) = <<>> /\ lost'[q] = 0
    BY DEF EndSeen
  <2>1. Found(p) = "eof" /\ ~conn[p].outerr /\ ~skipfail[p]
    BY <1>3, <1>6, <1>7
  <2>2. Gone(q) /\ sndq[q] = <<>> /\ Data(rcvq[p]) = <<>> /\ lost[q] = 0
    BY <1>5, <2>1, EofMeansEnd
  <2>3. Gone(q)'
    BY <1>3, <1>7, <2>2, GoneStays
  <2> QED BY <1>3, <1>12, <2>1, <2>2, <2>3
<1>17. Live(p) \/ skipfail[p]
  BY <1>1, <1>2, RecvLive
<1>18. Got(p)' = <<>>
  BY <1>8, RecvFields DEF Got
<1>19. Places(p)'
  <2>1. CASE Found(p) = "data" /\ b < 0
    <3> DEFINE s == Data(sndq[q])
    <3>1. s \in Seq(Int)
      BY <1>1, DataFacts DEF StreamTypes
    <3>2. Live(p) => Flow(recvd[p], <<>>, <<>>, a, s)
      BY <1>1, <1>5 DEF Places
    <3>3. Data(rcvq'[p]) = Tail(a) /\ recvd'[p] = Append(recvd[p], Head(a)) /\ rx'[p] = <<>> /\ a # <<>>
      BY <1>3, <1>5, <1>11, <1>12, <1>13, <2>1
    <3> HIDE DEF s, a
    <3>4. Live(p) => /\ Flow(Append(recvd[p], Head(a)), <<>>, <<>>, Tail(a), s)
                     /\ Length(Append(recvd[p], Head(a)), <<>>, <<>>, Tail(a), s) =
                          Length(recvd[p], <<>>, <<>>, a, s)
      BY <1>10, <3>1, <3>2, <3>3, FlowFd
    <3>5. Live(p) => /\ Flow(recvd'[p], Got(p)', rx'[p], Data(rcvq'[p]), s)
                     /\ Length(recvd'[p], Got(p)', rx'[p], Data(rcvq'[p]), s) =
                          Length(recvd[p], Got(p), rx[p], a, s)
      BY <1>5, <1>18, <3>3, <3>4, Zenon
    <3>6. Live(p) => Returned(recvd'[p], 0)
      BY <3>5 DEF Flow
    <3> QED BY <1>1, <1>3, <1>7, <1>9, <1>17, <3>5, <3>6, PlacesMove DEF s, a
  <2>2. CASE Found(p) = "eof" \/ (Found(p) = "data" /\ ~(b < 0))
    <3>1. ~Live(p)'
      <4>1. conn'[p].indone \/ conn'[p].inerr
        BY <1>6, <1>7, <1>11, <2>2
      <4> QED BY <4>1 DEF Live
    <3>2. skipfail'[p] \/ Returned(recvd'[p], 0)
      BY <1>1, <1>3, <1>13, <2>2 DEF Places
    <3> QED BY <1>1, <1>3, <3>1, <3>2, PlacesDead
  <2>3. CASE Found(p) # "eof" /\ Found(p) # "data"
    <3>1. recvd'[p] = recvd[p] /\ rx'[p] = rx[p] /\ rcvq'[p] = rcvq[p] /\ Got(p)' = Got(p)
      BY <1>3, <1>5, <1>12, <1>13, <1>18, <2>3
    <3>2. Live(p) => /\ Flow(recvd'[p], Got(p)', rx'[p], Data(rcvq'[p]), Data(sndq[q]))
                     /\ Returned(recvd'[p], 0)
      BY <1>1, <3>1 DEF Places, Flow
    <3> QED BY <1>1, <1>3, <1>7, <1>9, <1>17, <3>1, <3>2, PlacesMove
  <2> QED BY <2>1, <2>2, <2>3
<1>20. /\ Shape(rcvq'[p]) /\ (Ended(rcvq'[p]) => Ended(rcvq[p]))
       /\ Len(Data(rcvq'[p])) <= Len(Data(rcvq[p]))
  <2>1. CASE Found(p) = "data"
    <3>1. Len(Tail(a)) <= Len(a)
      BY <1>10, <1>11, <2>1
    <3> QED BY <1>11, <1>12, <2>1, <3>1
  <2>2. CASE Found(p) # "data"
    BY <1>10, <1>12, <2>2
  <2> QED BY <2>1, <2>2
<1>21. /\ conn'[p].outdone <=> conn[p].outdone
       /\ conn'[p].closed = conn[p].closed
       /\ conn[p].outerr => conn'[p].outerr
  BY <1>6, <1>7
<1> QED BY <1>3, <1>7, <1>8, <1>9, <1>12, <1>13, <1>14, <1>15, <1>16, <1>19, <1>20, <1>21, RecvSideInv

LEMMA DrainInv ==
  ASSUME StreamInv, NEW p \in Peers, Drain(p) PROVE StreamInv'
<1> DEFINE q == Other(p)
           n == Len(Data(rcvq[p]))
           u == Rest(rcvq[p], n)
<1>1. /\ q \in Peers /\ q # p /\ StreamTypes /\ Receiver(p) /\ Places(p)
  BY StreamParts
<1>2. rcv[p] \in Drains
  BY <1>1, RecvKinds DEF Drain, Calls
<1>3. /\ rcvq' = [rcvq EXCEPT ![p] = u] /\ ~conn[p].indone
      /\ UNCHANGED <<kind, conn, rx, snd, rcv, sndq, rst, offered, recvd, lost, skipfail, dead>>
  BY DEF Drain
<1>4. /\ rcvq[p] \in Seq(Int) /\ Shape(rcvq[p]) /\ n \in Nat /\ n \in 0..n /\ Data(rcvq[p]) \in Seq(Int)
  <2>1. /\ rcvq[p] \in Seq(Int) /\ Shape(rcvq[p]) /\ n \in Nat /\ Data(rcvq[p]) \in Seq(Int)
    BY RcvqFacts
  <2> HIDE DEF n
  <2> QED BY <2>1
<1>5. u \in Seq(Int) /\ Data(u) = Rest(Data(rcvq[p]), n) /\ (Ended(u) <=> Ended(rcvq[p])) /\ Shape(u)
  BY <1>4, DataRest
<1>6. Len(Data(u)) <= n
  <2>1. Len(Rest(Data(rcvq[p]), n)) = n - n /\ n <= n
    BY <1>4, CutInside
  <2> QED BY <1>4, <1>5, <2>1
<1> HIDE DEF u
<1>7. rcvq' \in [Peers -> Seq(Int)] /\ rcvq'[p] = u /\ rcvq'[q] = rcvq[q]
  BY <1>1, <1>3, <1>5 DEF StreamTypes
<1>8. StreamTypes'
  BY <1>1, <1>3, <1>7 DEF StreamTypes
<1>9. Receiver(p)'
  BY <1>1, <1>3, KeepsReceiver
<1>10. EndSeen(p)'
  BY <1>3 DEF EndSeen
<1>11. Places(p)'
  BY <1>1, <1>2, <1>3, PlacesDead DEF Live, Places
<1> QED BY <1>3, <1>5, <1>6, <1>7, <1>8, <1>9, <1>10, <1>11, RecvSideInv

-----------------------------------------------------------------------------
\* Closing.

LEMMA NoData == Data(<<>>) = <<>> /\ ~Ended(<<>>) /\ Shape(<<>>) /\ Len(<<>>) = 0
BY DEF Data, Ended, Shape, NoEnd

\* What close() does to the queues.
LEMMA KernelCloseFacts ==
  ASSUME StreamInv, NEW p \in Peers, conn[p].closed = "no", kind' = kind, KernelClose(p)
  PROVE  /\ sndq' \in [Peers -> Seq(Int)] /\ rcvq' \in [Peers -> Seq(Int)]
         /\ rst' \in [Peers -> {"no", "pending", "reported"}] /\ lost' \in [Peers -> Nat]
         /\ sndq'[p] = sndq[p] \/ sndq'[p] = <<>>
         /\ sndq'[Other(p)] = sndq[Other(p)] \/ sndq'[Other(p)] = <<>>
         /\ rcvq'[p] = rcvq[p] /\ Data(rcvq'[Other(p)]) = Data(rcvq[Other(p)])
         /\ Shape(rcvq'[Other(p)]) /\ (Ended(rcvq'[Other(p)]) => Ended(rcvq[Other(p)]) \/ kind = "ipc")
         /\ lost'[Other(p)] = lost[Other(p)] /\ (sndq[p] = <<>> \/ sndq'[p] # <<>> => lost'[p] = 0)
         /\ rst'[p] = rst[p] /\ (rst'[Other(p)] = "reported" => rst[Other(p)] = "reported")
         /\ rst'[Other(p)] = "no" => rst[Other(p)] = "no"
<1> DEFINE q == Other(p)
<1>1. /\ q \in Peers /\ q # p /\ StreamTypes /\ Pipe(p)
  BY StreamParts
<1>a. q = Other(p)
  BY DEF q
<1> HIDE DEF q
<1>2. /\ sndq \in [Peers -> Seq(Int)] /\ rcvq \in [Peers -> Seq(Int)]
      /\ rst \in [Peers -> {"no", "pending", "reported"}] /\ lost \in [Peers -> Nat]
      /\ kind \in {"tcp", "ipc"} /\ lost[p] = 0 /\ Shape(rcvq[q])
      /\ sndq[p] \in Seq(Int) /\ rcvq[q] \in Seq(Int)
  BY <1>1, <1>a DEF StreamTypes, Pipe
<1>3. Len(Data(sndq[p])) \in Nat
  BY <1>2, DataFacts
<1> DEFINE orderly == Shut(p) /\ rcvq[p] = <<0>> /\ Data(sndq[p]) = <<>>
<1>4. CASE kind = "tcp"
  <2>1. /\ sndq' = IF orderly THEN sndq ELSE [r \in Peers |-> <<>>]
        /\ lost' = [lost EXCEPT ![p] = Len(Data(sndq[p]))]
        /\ rst' = [rst EXCEPT ![q] = IF ~orderly /\ rst[q] = "no" THEN "pending" ELSE rst[q]]
        /\ rcvq' = rcvq
    BY <1>4, <1>a DEF KernelClose
  <2>2. lost' \in [Peers -> Nat] /\ lost'[p] = Len(Data(sndq[p])) /\ lost'[q] = lost[q]
    BY <1>1, <1>2, <1>3, <2>1
  <2>3. /\ rst' \in [Peers -> {"no", "pending", "reported"}] /\ rst'[p] = rst[p]
        /\ (rst'[q] = "reported" => rst[q] = "reported") /\ (rst'[q] = "no" => rst[q] = "no")
    <3> HIDE DEF orderly
    <3> QED BY <1>1, <1>2, <2>1
  <2>4. CASE orderly
    <3>1. sndq' = sndq /\ Data(sndq[p]) = <<>>
      BY <2>1, <2>4
    <3> HIDE DEF orderly
    <3> QED BY <1>2, <1>a, <2>1, <2>2, <2>3, <3>1
  <2>5. CASE ~orderly
    <3>1. sndq' = [r \in Peers |-> <<>>]
      BY <2>1, <2>5
    <3> HIDE DEF orderly
    <3>2. sndq' \in [Peers -> Seq(Int)] /\ sndq'[p] = <<>> /\ sndq'[q] = <<>>
      BY <1>1, <3>1
    <3>3. sndq[p] = <<>> => lost'[p] = 0
      BY <2>2, NoData
    <3> QED BY <1>2, <1>a, <2>1, <2>2, <2>3, <3>2, <3>3
  <2> QED BY <2>4, <2>5
<1>5. CASE kind = "ipc"
  <2> DEFINE u == IF Shut(p) THEN rcvq[q] ELSE Append(rcvq[q], 0)
  <2>1. /\ rcvq' = [rcvq EXCEPT ![q] = u]
        /\ rst' = [rst EXCEPT ![q] = IF Data(rcvq[p]) # <<>> THEN "pending" ELSE rst[q]]
        /\ sndq' = sndq /\ lost' = lost
    BY <1>5, <1>a DEF KernelClose
  <2>2. u \in Seq(Int) /\ Data(u) = Data(rcvq[q]) /\ Shape(u)
    <3>1. CASE Shut(p)
      BY <1>2, <3>1
    <3>2. CASE ~Shut(p)
      <4>1. ~Ended(rcvq[q])
        BY <1>1, <1>a, <3>2 DEF Pipe, Gone
      <4>2. u = Append(rcvq[q], 0)
        BY <3>2
      <4> HIDE DEF u
      <4> QED BY <1>2, <4>1, <4>2, DataEnds
    <3> QED BY <3>1, <3>2
  <2> HIDE DEF u
  <2>3. rcvq' \in [Peers -> Seq(Int)] /\ rcvq'[q] = u /\ rcvq'[p] = rcvq[p]
    BY <1>1, <1>2, <2>1, <2>2
  <2>4. /\ rst' \in [Peers -> {"no", "pending", "reported"}] /\ rst'[p] = rst[p]
        /\ (rst'[q] = "reported" => rst[q] = "reported") /\ (rst'[q] = "no" => rst[q] = "no")
    BY <1>1, <1>2, <2>1
  <2> QED BY <1>2, <1>5, <1>a, <2>1, <2>2, <2>3, <2>4
<1> QED BY <1>2, <1>4, <1>5

\* hclose, also at the end of tcp_close and ipc_close.
LEMMA HCloseInv ==
  ASSUME StreamInv, NEW p \in Peers, Open(p), NEW c \in Flags, NEW result \in {"hclose", "ok", "error"},
         HClose(p, c, result), UNCHANGED <<kind, snd, offered, recvd, skipfail, dead>>,
         c.outdone <=> conn[p].outdone, conn[p].outerr => c.outerr, conn[p].inerr => c.inerr,
         c.indone => conn[p].indone \/ (Found(p) = "eof" /\ rcv[p] # Idle)
  PROVE  StreamInv'
<1> DEFINE q == Other(p)
           e == [c EXCEPT !.closed = result]
<1>1. /\ q \in Peers /\ q # p /\ Other(q) = p
      /\ StreamTypes /\ Receiver(p) /\ Pipe(p) /\ Places(p) /\ EndSeen(p)
      /\ Receiver(q) /\ Pipe(q) /\ Places(q) /\ EndSeen(q)
  BY StreamParts
<1>a. q = Other(p)
  BY DEF q
<1>b. conn[p].closed = "no"
  BY DEF Open
<1> HIDE DEF q
<1>2. /\ KernelClose(p) /\ conn' = [conn EXCEPT ![p] = e] /\ rx' = [rx EXCEPT ![p] = <<>>]
      /\ rcv' = [rcv EXCEPT ![p] = Idle]
  BY DEF HClose
<1>3. /\ sndq' \in [Peers -> Seq(Int)] /\ rcvq' \in [Peers -> Seq(Int)]
      /\ rst' \in [Peers -> {"no", "pending", "reported"}] /\ lost' \in [Peers -> Nat]
      /\ sndq'[p] = sndq[p] \/ sndq'[p] = <<>>
      /\ sndq'[q] = sndq[q] \/ sndq'[q] = <<>>
      /\ rcvq'[p] = rcvq[p] /\ Data(rcvq'[q]) = Data(rcvq[q])
      /\ Shape(rcvq'[q]) /\ (Ended(rcvq'[q]) => Ended(rcvq[q]) \/ kind = "ipc")
      /\ lost'[q] = lost[q] /\ (sndq[p] = <<>> \/ sndq'[p] # <<>> => lost'[p] = 0)
      /\ rst'[p] = rst[p] /\ (rst'[q] = "reported" => rst[q] = "reported")
      /\ rst'[q] = "no" => rst[q] = "no"
  BY <1>2, <1>a, <1>b, KernelCloseFacts
<1>4. /\ e \in Flags /\ e.outdone = c.outdone /\ e.outerr = c.outerr /\ e.inerr = c.inerr
      /\ e.indone = c.indone /\ e.closed # "no"
  BY DEF Flags
<1> HIDE DEF e
<1>5. conn' \in [Peers -> Flags] /\ conn'[p] = e /\ conn'[q] = conn[q]
  BY <1>1, <1>2, <1>4, <1>a, ConnTypes
<1>6. /\ rcv' \in [Peers -> {Idle} \cup ReceivesBytes \cup ReceivesFd \cup Drains] /\ rcv'[p] = Idle
      /\ rcv'[q] = rcv[q]
  BY <1>1, <1>2, <1>a, RecvTypes
<1>7. rx' \in [Peers -> Seq(Int)] /\ rx'[p] = <<>> /\ rx'[q] = rx[q]
  <2>1. <<>> \in Seq(Int)
    OBVIOUS
  <2> QED BY <1>1, <1>2, <2>1 DEF StreamTypes
<1>8. StreamTypes'
  BY <1>1, <1>3, <1>5, <1>6, <1>7 DEF StreamTypes, Flags
<1>9. /\ conn'[p].closed # "no"
      /\ conn'[p].outdone <=> conn[p].outdone
      /\ conn[p].outerr => conn'[p].outerr
      /\ conn[p].inerr => conn'[p].inerr
      /\ conn'[p].indone => conn[p].indone \/ (Found(p) = "eof" /\ rcv[p] # Idle)
  BY <1>4, <1>5, Zenon
<1>10. Receiver(p)'
  BY <1>1, <1>3, <1>6, <1>7, <1>9, RecvFields DEF Receiver
<1>11. Receiver(q)'
  BY <1>1, <1>3, <1>5, <1>6, <1>7, KeepsReceiver
<1>12. (Gone(p) => Gone(p)') /\ (kind = "ipc" => Gone(p)') /\ (Gone(q) <=> Gone(q)')
  BY <1>5, <1>9 DEF Gone, Shut
<1>13. \A s : s = <<>> => Shape(s) /\ ~Ended(s) /\ Data(s) = <<>> /\ Len(Data(s)) = 0
  BY NoData
<1>14. /\ Shape(sndq'[p]) /\ (Ended(sndq'[p]) => Ended(sndq[p]))
       /\ Shape(sndq'[q]) /\ (Ended(sndq'[q]) => Ended(sndq[q]))
  BY <1>1, <1>3, <1>13 DEF Pipe
<1>c. kind = "tcp" \/ kind = "ipc"
  BY <1>1 DEF StreamTypes
<1>15. \A r \in Peers : Space(r) >= 0 /\ (r = p \/ r = q) =>
         Space(r)' >= 0 /\ (kind = "ipc" => Space(r)' = Space(r))
  <2> SUFFICES ASSUME NEW r \in Peers, Space(r) >= 0, r = p \/ r = q
               PROVE  Space(r)' >= 0 /\ (kind = "ipc" => Space(r)' = Space(r))
    OBVIOUS
  <2>1. CASE kind = "tcp"
    <3>1. Space(r) = Cap - Len(Data(sndq[r])) /\ Space(r)' = Cap - Len(Data(sndq'[r]))
      BY <2>1 DEF Space
    <3>2. sndq'[r] = sndq[r] \/ Len(Data(sndq'[r])) = 0
      BY <1>3, <1>13
    <3>3. sndq'[r] = sndq[r] => Space(r)' = Space(r)
      BY <3>1
    <3>4. Len(Data(sndq'[r])) = 0 => Space(r)' >= 0
      BY <3>1, StreamAssumption
    <3> QED BY <2>1, <3>2, <3>3, <3>4
  <2>2. CASE kind = "ipc"
    <3>1. Space(r) = Cap - Len(Data(rcvq[Other(r)])) /\ Space(r)' = Cap - Len(Data(rcvq'[Other(r)]))
      BY <2>2 DEF Space
    <3>2. Data(rcvq'[Other(r)]) = Data(rcvq[Other(r)])
      BY <1>1, <1>3, <1>a
    <3> QED BY <3>1, <3>2
  <2> QED BY <1>c, <2>1, <2>2
<1>16. \A r \in Peers : (r = p \/ r = q) /\ kind = "ipc" /\ SendFails(r) => SendFails(r)'
  BY <1>1, <1>5, <1>9, <1>a DEF SendFails, Shut
<1>17. Pipe(p)'
  <2>1. /\ Ended(sndq[p]) \/ Ended(rcvq[q]) => Gone(p)
        /\ Ended(rcvq[q]) => sndq[p] = <<>>
        /\ kind = "ipc" => sndq[p] = <<>>
        /\ Space(p) >= 0
        /\ snd[p] \in SendsFd => kind = "ipc"
        /\ snd[p] \in SendsFd /\ snd[p].pc = "run" => Space(p) > 0 \/ SendFails(p)
    BY <1>1, <1>a DEF Pipe
  <2>2. Ended(sndq'[p]) \/ Ended(rcvq'[q]) => Gone(p)'
    BY <1>3, <1>12, <1>14, <2>1
  <2>3. Ended(rcvq'[q]) => sndq'[p] = <<>> /\ lost'[p] = 0
    BY <1>3, <2>1
  <2>4. sndq'[p] # <<>> \/ conn'[p].closed = "no" => lost'[p] = 0
    BY <1>3, <1>9
  <2>5. Space(p)' >= 0 /\ (kind = "ipc" => Space(p)' = Space(p) /\ sndq'[p] = <<>>)
    BY <1>3, <1>15, <2>1
  <2>6. snd[p] \in SendsFd /\ snd[p].pc = "run" => Space(p)' > 0 \/ SendFails(p)'
    BY <1>16, <2>1, <2>5
  <2> QED BY <1>3, <1>14, <1>a, <2>1, <2>2, <2>3, <2>4, <2>5, <2>6 DEF Pipe
<1>18. Pipe(q)'
  <2>1. /\ Shape(rcvq[p])
        /\ Ended(sndq[q]) \/ Ended(rcvq[p]) => Gone(q)
        /\ Ended(rcvq[p]) => sndq[q] = <<>> /\ lost[q] = 0
        /\ sndq[q] # <<>> \/ conn[q].closed = "no" => lost[q] = 0
        /\ kind = "ipc" => sndq[q] = <<>>
        /\ Space(q) >= 0
        /\ snd[q] \in SendsFd => kind = "ipc"
        /\ snd[q] \in SendsFd /\ snd[q].pc = "run" => Space(q) > 0 \/ SendFails(q)
    BY <1>1 DEF Pipe
  <2>2. Ended(sndq'[q]) \/ Ended(rcvq'[p]) => Gone(q)'
    BY <1>3, <1>12, <1>14, <2>1
  <2>3. /\ Ended(rcvq'[p]) => sndq'[q] = <<>> /\ lost'[q] = 0
        /\ sndq'[q] # <<>> \/ conn'[q].closed = "no" => lost'[q] = 0
        /\ kind = "ipc" => sndq'[q] = <<>>
    BY <1>3, <1>5, <2>1
  <2>4. Space(q)' >= 0 /\ (kind = "ipc" => Space(q)' = Space(q))
    BY <1>1, <1>15, <2>1
  <2>5. snd[q] \in SendsFd /\ snd[q].pc = "run" => Space(q)' > 0 \/ SendFails(q)'
    BY <1>1, <1>16, <2>1, <2>4
  <2> QED BY <1>1, <1>3, <1>14, <2>1, <2>2, <2>3, <2>4, <2>5 DEF Pipe
<1>19. Places(p)'
  <2>1. skipfail'[p] \/ Returned(recvd'[p], 0)
    BY <1>1 DEF Places
  <2>2. ~Live(p)'
    BY <1>9 DEF Live
  <2> QED BY <1>1, <2>1, <2>2, PlacesDead
<1>20. Places(q)'
  <2>1. (Live(q)' <=> Live(q)) /\ Got(q)' = Got(q)
    BY <1>5, <1>6, KeepsLive
  <2>2. ~MaySend(p)'
    BY <1>9 DEF MaySend
  <2>3. /\ skipfail[q] \/ Returned(recvd[q], 0)
        /\ Live(q) => Flow(recvd[q], Got(q), rx[q], Data(rcvq[q]), Data(sndq[p]))
        /\ snd[q] \in SendsBytes => snd[q].next + snd[q].left = offered[q] + 1
    BY <1>1 DEF Places
  <2>4. Data(sndq'[p]) = Data(sndq[p]) \/ Data(sndq'[p]) = <<>>
    BY <1>3, <1>13
  <2>5. Live(q) => Flow(recvd[q], Got(q), rx[q], Data(rcvq[q]), Data(sndq'[p]))
    <3>1. CASE Data(sndq'[p]) = Data(sndq[p])
      BY <2>3, <3>1
    <3>2. CASE Data(sndq'[p]) = <<>>
      BY <2>3, <3>2, PlacesNone DEF Flow
    <3> QED BY <2>4, <3>1, <3>2
  <2> QED BY <1>1, <1>3, <1>7, <2>1, <2>2, <2>3, <2>5 DEF Places
<1>21. EndSeen(p)'
  <2> SUFFICES ASSUME conn'[p].indone, ~conn'[p].outerr, ~skipfail'[p]
               PROVE  Gone(q)' /\ sndq'[q] = <<>> /\ Data(rcvq'[p]) = <<>> /\ lost'[q] = 0
    BY <1>a DEF EndSeen
  <2>1. ~conn[p].outerr /\ ~skipfail[p] /\ (conn[p].indone \/ (Found(p) = "eof" /\ rcv[p] # Idle))
    BY <1>9
  <2>2. Gone(q) /\ sndq[q] = <<>> /\ Data(rcvq[p]) = <<>> /\ lost[q] = 0
    BY <1>1, <1>a, <2>1, EofMeansEnd DEF EndSeen
  <2> QED BY <1>3, <1>12, <2>2
<1>22. EndSeen(q)'
  BY <1>1, <1>3, <1>5, <1>12 DEF EndSeen
<1> QED BY <1>8, <1>10, <1>11, <1>17, <1>18, <1>19, <1>20, <1>21, <1>22, <1>a, StreamWhole

\* shutdown(SHUT_WR) succeeds; what receives at p, if anything, is the same, or
\* reads the inbound data to their end.
LEMMA ShutdownInv ==
  ASSUME StreamInv, StreamTypes', NEW p \in Peers, Open(p), ~conn[p].outdone, Accepted(p, << 0 >>),
         UNCHANGED <<kind, rx, snd, rst, offered, recvd, lost, skipfail>>,
         conn'[Other(p)] = conn[Other(p)], rcv'[Other(p)] = rcv[Other(p)],
         conn'[p].outdone,
         conn'[p].closed = conn[p].closed, conn'[p].indone <=> conn[p].indone,
         conn'[p].inerr <=> conn[p].inerr, conn'[p].outerr <=> conn[p].outerr,
         rcv'[p] = rcv[p] \/ (rcv'[p] \in Drains /\ ~conn[p].inerr)
  PROVE  StreamInv'
<1> DEFINE q == Other(p)
<1>1. /\ q \in Peers /\ q # p /\ Other(q) = p
      /\ StreamTypes /\ Receiver(p) /\ Pipe(p) /\ Places(p) /\ EndSeen(p)
      /\ Receiver(q) /\ Pipe(q) /\ Places(q) /\ EndSeen(q)
  BY StreamParts
<1>a. q = Other(p)
  BY DEF q
<1>b. conn[p].closed = "no"
  BY DEF Open
<1> HIDE DEF q
<1>2. ~Gone(p) /\ Gone(p)' /\ (Gone(q) <=> Gone(q)')
  BY <1>a, <1>b DEF Gone, Shut
<1>3. /\ sndq \in [Peers -> Seq(Int)] /\ rcvq \in [Peers -> Seq(Int)]
      /\ sndq[p] \in Seq(Int) /\ rcvq[q] \in Seq(Int) /\ Shape(sndq[p]) /\ Shape(rcvq[q])
      /\ ~Ended(sndq[p]) /\ ~Ended(rcvq[q]) /\ lost[p] = 0
      /\ (kind = "ipc" => sndq[p] = <<>>) /\ (kind = "tcp" \/ kind = "ipc")
  BY <1>1, <1>2, <1>a, <1>b DEF StreamTypes, Pipe
<1>4. /\ kind = "tcp" => sndq' = [sndq EXCEPT ![p] = sndq[p] \o <<0>>] /\ rcvq' = rcvq
      /\ kind = "ipc" => rcvq' = [rcvq EXCEPT ![q] = rcvq[q] \o <<0>>] /\ sndq' = sndq
  BY <1>a, Zenon DEF Accepted
<1>5. /\ Data(sndq[p] \o <<0>>) = Data(sndq[p]) /\ Shape(sndq[p] \o <<0>>)
      /\ Data(rcvq[q] \o <<0>>) = Data(rcvq[q]) /\ Shape(rcvq[q] \o <<0>>)
  BY <1>3, DataEnds
<1>6. /\ sndq'[q] = sndq[q] /\ rcvq'[p] = rcvq[p]
      /\ Data(sndq'[p]) = Data(sndq[p]) /\ Shape(sndq'[p])
      /\ Data(rcvq'[q]) = Data(rcvq[q]) /\ Shape(rcvq'[q])
      /\ kind = "tcp" => rcvq'[q] = rcvq[q]
      /\ kind = "ipc" => sndq'[p] = <<>>
  <2>1. CASE kind = "tcp"
    <3>1. sndq'[p] = sndq[p] \o <<0>> /\ sndq'[q] = sndq[q] /\ rcvq' = rcvq
      BY <1>1, <1>3, <1>4, <2>1
    <3> QED BY <1>3, <1>5, <2>1, <3>1, Zenon
  <2>2. CASE kind = "ipc"
    <3>1. rcvq'[q] = rcvq[q] \o <<0>> /\ rcvq'[p] = rcvq[p] /\ sndq' = sndq
      BY <1>1, <1>3, <1>4, <2>2
    <3> QED BY <1>3, <1>5, <2>2, <3>1, Zenon
  <2> QED BY <1>3, <2>1, <2>2
<1>7. Receiver(p)'
  BY <1>1, <1>b, RecvFields DEF Receiver
<1>8. Receiver(q)'
  BY <1>1, <1>a, KeepsReceiver
<1>9. Pipe(q)'
  BY <1>1, <1>6, <1>a, KeepsPipe
<1>10. Pipe(p)'
  <2>1. Space(p)' = Space(p)
    <3>1. CASE kind = "tcp"
      BY <1>6, <3>1 DEF Space
    <3>2. CASE kind = "ipc"
      BY <1>6, <1>a, <3>2 DEF Space
    <3> QED BY <1>3, <3>1, <3>2
  <2>2. kind = "ipc" /\ SendFails(p) => SendFails(p)'
    BY <1>a DEF SendFails, Shut
  <2>3. Ended(rcvq'[q]) => kind = "ipc"
    BY <1>3, <1>6
  <2> QED BY <1>1, <1>2, <1>3, <1>6, <1>a, <2>1, <2>2, <2>3 DEF Pipe
<1>11. EndSeen(p)'
  BY <1>1, <1>2, <1>6, <1>a, KeepsEnd
<1>12. EndSeen(q)'
  BY <1>1, <1>2, <1>a DEF EndSeen
<1>13. Places(p)'
  <2>1. CASE rcv'[p] = rcv[p]
    <3>1. Got(p)' = Got(p) /\ (Live(p)' => Live(p))
      BY <2>1 DEF Got, Live
    <3>2. snd[p] \in SendsBytes => snd[p].next + snd[p].left = offered[p] + 1
      BY <1>1 DEF Places
    <3> QED BY <1>1, <1>6, <1>a, <3>1, <3>2, KeepsPlaces, KeepsMaySend
  <2>2. CASE rcv'[p] \in Drains
    BY <1>1, <2>2, PlacesDead DEF Live, Places
  <2> QED BY <2>1, <2>2
<1>14. Places(q)'
  <2>1. Got(q)' = Got(q) /\ (Live(q)' => Live(q))
    BY <1>a, KeepsLive
  <2>2. (MaySend(p)' => MaySend(p)) /\ Handed(p)' = Handed(p)
    BY DEF MaySend, Handed
  <2>3. snd[q] \in SendsBytes => snd[q].next + snd[q].left = offered[q] + 1
    BY <1>1 DEF Places
  <2> QED BY <1>1, <1>6, <1>a, <2>1, <2>2, <2>3, KeepsPlaces
<1> QED BY <1>7, <1>8, <1>9, <1>10, <1>11, <1>12, <1>13, <1>14, <1>a, StreamWhole

\* The socket p with one more of its flags set.
LEMMA FlagFacts ==
  ASSUME StreamTypes, NEW p \in Peers
  PROVE  /\ conn[p] \in Flags
         /\ \A c : c = [conn[p] EXCEPT !.outdone = TRUE] =>
              /\ c \in Flags /\ c.outdone = TRUE /\ c.closed = conn[p].closed
              /\ c.indone = conn[p].indone /\ c.inerr = conn[p].inerr /\ c.outerr = conn[p].outerr
         /\ \A c : c = [conn[p] EXCEPT !.outerr = TRUE] =>
              /\ c \in Flags /\ c.outerr = TRUE /\ c.closed = conn[p].closed
              /\ c.indone = conn[p].indone /\ c.inerr = conn[p].inerr /\ c.outdone = conn[p].outdone
         /\ \A c : c = [conn[p] EXCEPT !.inerr = TRUE] =>
              /\ c \in Flags /\ c.inerr = TRUE /\ c.closed = conn[p].closed
              /\ c.indone = conn[p].indone /\ c.outerr = conn[p].outerr /\ c.outdone = conn[p].outdone
         /\ \A c : c = [conn[p] EXCEPT !.indone = TRUE] =>
              /\ c \in Flags /\ c.indone = TRUE /\ c.closed = conn[p].closed
              /\ c.inerr = conn[p].inerr /\ c.outerr = conn[p].outerr /\ c.outdone = conn[p].outdone
<1>1. conn[p] \in Flags
  BY DEF StreamTypes, Flags
<1>2. \A c : c = [conn[p] EXCEPT !.outdone = TRUE] =>
        /\ c \in Flags /\ c.outdone = TRUE /\ c.closed = conn[p].closed
        /\ c.indone = conn[p].indone /\ c.inerr = conn[p].inerr /\ c.outerr = conn[p].outerr
  BY <1>1 DEF Flags
<1>3. \A c : c = [conn[p] EXCEPT !.outerr = TRUE] =>
        /\ c \in Flags /\ c.outerr = TRUE /\ c.closed = conn[p].closed
        /\ c.indone = conn[p].indone /\ c.inerr = conn[p].inerr /\ c.outdone = conn[p].outdone
  BY <1>1 DEF Flags
<1>4. \A c : c = [conn[p] EXCEPT !.inerr = TRUE] =>
        /\ c \in Flags /\ c.inerr = TRUE /\ c.closed = conn[p].closed
        /\ c.indone = conn[p].indone /\ c.outerr = conn[p].outerr /\ c.outdone = conn[p].outdone
  BY <1>1 DEF Flags
<1>5. \A c : c = [conn[p] EXCEPT !.indone = TRUE] =>
        /\ c \in Flags /\ c.indone = TRUE /\ c.closed = conn[p].closed
        /\ c.inerr = conn[p].inerr /\ c.outerr = conn[p].outerr /\ c.outdone = conn[p].outdone
  BY <1>1 DEF Flags
<1> QED BY <1>1, <1>2, <1>3, <1>4, <1>5

LEMMA DoneInv ==
  ASSUME StreamInv, NEW p \in Peers, Done(p) PROVE StreamInv'
<1>1. StreamTypes /\ Pipe(p) /\ Places(p) /\ Other(p) \in Peers /\ Other(p) # p
  BY StreamParts
<1>2. /\ Open(p) /\ ~conn[p].outdone /\ ~conn[p].outerr
      /\ UNCHANGED <<kind, rx, snd, rcv, rst, offered, recvd, lost, skipfail, dead>>
  BY DEF Done, Free
<1>3. CASE ShutdownFails(p)
  <2> DEFINE c == [conn[p] EXCEPT !.outerr = TRUE]
  <2>1. conn' = [conn EXCEPT ![p] = c] /\ UNCHANGED <<sndq, rcvq>> /\ kind = "tcp" /\ rst[p] # "no"
    BY <1>3 DEF Done, Shutdown, ShutdownFails
  <2>2. /\ c \in Flags /\ c.outerr = TRUE /\ c.closed = conn[p].closed
        /\ c.indone = conn[p].indone /\ c.inerr = conn[p].inerr /\ c.outdone = conn[p].outdone
    BY <1>1, FlagFacts
  <2> HIDE DEF c
  <2>3. conn' \in [Peers -> Flags] /\ conn'[p] = c /\ conn'[Other(p)] = conn[Other(p)]
    BY <1>1, <2>1, <2>2, ConnTypes
  <2>4. StreamTypes'
    BY <1>1, <1>2, <2>1, <2>3 DEF StreamTypes, Flags
  <2>5. ~MaySend(p)'
    BY <1>2, <2>1 DEF MaySend
  <2>6. /\ conn'[p].indone <=> conn[p].indone
        /\ conn'[p].inerr <=> conn[p].inerr
        /\ conn'[p].outdone <=> conn[p].outdone
        /\ conn'[p].closed = conn[p].closed
        /\ conn'[p].outerr
    BY <2>2, <2>3, Zenon
  <2>7. /\ snd[p] \in SendsFd => kind = "ipc" /\ (snd[p].pc = "run" => Space(p) > 0 \/ SendFails(p))
        /\ snd[p] \in SendsBytes => snd[p].next + snd[p].left = offered[p] + 1
    BY <1>1 DEF Pipe, Places
  <2> QED BY <1>2, <2>1, <2>3, <2>4, <2>5, <2>6, <2>7, SendSideInv
<1>4. CASE ~ShutdownFails(p)
  <2> DEFINE c == [conn[p] EXCEPT !.outdone = TRUE]
  <2>1. conn' = [conn EXCEPT ![p] = c] /\ Accepted(p, <<0>>)
    BY <1>4 DEF Done, Shutdown, ShutdownFails
  <2>2. /\ c \in Flags /\ c.outdone = TRUE /\ c.closed = conn[p].closed
        /\ c.indone = conn[p].indone /\ c.inerr = conn[p].inerr /\ c.outerr = conn[p].outerr
    BY <1>1, FlagFacts
  <2> HIDE DEF c
  <2>3. conn' \in [Peers -> Flags] /\ conn'[p] = c /\ conn'[Other(p)] = conn[Other(p)]
    BY <1>1, <2>1, <2>2, ConnTypes
  <2>4. sndq' \in [Peers -> Seq(Int)] /\ rcvq' \in [Peers -> Seq(Int)]
    <3>1. <<0>> \in Seq(Int)
      OBVIOUS
    <3> QED BY <1>1, <2>1, <3>1, AcceptedTypes
  <2>5. StreamTypes'
    BY <1>1, <1>2, <2>3, <2>4 DEF StreamTypes, Flags
  <2>6. /\ conn'[p].indone <=> conn[p].indone
        /\ conn'[p].inerr <=> conn[p].inerr
        /\ conn'[p].outerr <=> conn[p].outerr
        /\ conn'[p].closed = conn[p].closed
        /\ conn'[p].outdone
    BY <2>2, <2>3, Zenon
  <2> QED BY <1>2, <2>1, <2>3, <2>5, <2>6, ShutdownInv
<1> QED BY <1>3, <1>4

LEMMA HcloseInv ==
  ASSUME StreamInv, NEW p \in Peers, Hclose(p) PROVE StreamInv'
<1>1. StreamTypes
  BY StreamParts
<1>2. Open(p) /\ HClose(p, conn[p], "hclose") /\ UNCHANGED <<kind, snd, offered, recvd, skipfail, dead>>
  BY DEF Hclose, Free
<1>3. conn[p] \in Flags
  BY <1>1, FlagFacts
<1> QED BY <1>2, <1>3, HCloseInv

LEMMA CloseInv ==
  ASSUME StreamInv, NEW p \in Peers, Close(p) PROVE StreamInv'
<1> DEFINE q == Other(p)
           o == [pc |-> "run", mode |-> "drain", late |-> FALSE]
<1>1. StreamTypes /\ Receiver(p) /\ Places(p) /\ EndSeen(p) /\ q \in Peers /\ q # p
  BY StreamParts
<1>2. Open(p) /\ rcv[p] = Idle /\ UNCHANGED <<kind, snd, offered, recvd, skipfail, dead>>
  BY DEF Close, Free, Unused
<1>3. CASE conn[p].inerr \/ conn[p].outerr
  <2>1. HClose(p, conn[p], "error")
    BY <1>3 DEF Close
  <2>2. conn[p] \in Flags
    BY <1>1, FlagFacts
  <2> QED BY <1>2, <2>1, <2>2, HCloseInv
<1>4. CASE ~(conn[p].inerr \/ conn[p].outerr) /\ ~conn[p].outdone /\ ShutdownFails(p)
  <2> DEFINE c == [conn[p] EXCEPT !.outerr = TRUE]
  <2>1. HClose(p, c, "error")
    BY <1>4 DEF Close
  <2>2. /\ c \in Flags /\ c.outerr = TRUE /\ c.closed = conn[p].closed
        /\ c.indone = conn[p].indone /\ c.inerr = conn[p].inerr /\ c.outdone = conn[p].outdone
    BY <1>1, FlagFacts
  <2> HIDE DEF c
  <2>3. /\ c.outdone <=> conn[p].outdone
        /\ conn[p].outerr => c.outerr
        /\ conn[p].inerr => c.inerr
        /\ c.indone => conn[p].indone
    BY <2>2, Zenon
  <2> QED BY <1>2, <2>1, <2>2, <2>3, HCloseInv
<1>5. CASE ~(conn[p].inerr \/ conn[p].outerr) /\ ~(~conn[p].outdone /\ ShutdownFails(p))
  <2> DEFINE c == [conn[p] EXCEPT !.outdone = TRUE]
  <2>1. /\ IF conn[p].outdone THEN UNCHANGED <<sndq, rcvq>> ELSE Shutdown(p)
        /\ conn' = [conn EXCEPT ![p] = c] /\ rcv' = [rcv EXCEPT ![p] = o]
        /\ UNCHANGED <<rx, rst, lost>>
    BY <1>5 DEF Close
  <2>2. /\ c \in Flags /\ c.outdone = TRUE /\ c.closed = conn[p].closed
        /\ c.indone = conn[p].indone /\ c.inerr = conn[p].inerr /\ c.outerr = conn[p].outerr
    BY <1>1, FlagFacts
  <2>3. o \in Drains
    BY DEF Drains, Calls
  <2> HIDE DEF c, o
  <2>4. conn' \in [Peers -> Flags] /\ conn'[p] = c /\ conn'[q] = conn[q]
    BY <1>1, <2>1, <2>2, ConnTypes
  <2>5. /\ rcv' \in [Peers -> {Idle} \cup ReceivesBytes \cup ReceivesFd \cup Drains] /\ rcv'[p] = o
        /\ rcv'[q] = rcv[q]
    BY <1>1, <2>1, <2>3, RecvTypes
  <2>6. /\ conn'[p].indone <=> conn[p].indone
        /\ conn'[p].inerr <=> conn[p].inerr
        /\ conn'[p].outerr <=> conn[p].outerr
        /\ conn'[p].closed = conn[p].closed
        /\ conn'[p].outdone
    BY <2>2, <2>4, Zenon
  <2>7. CASE conn[p].outdone
    <3>1. sndq' = sndq /\ rcvq' = rcvq
      BY <2>1, <2>7
    <3>2. StreamTypes'
      BY <1>1, <1>2, <2>1, <2>4, <2>5, <3>1 DEF StreamTypes, Flags
    <3>3. Receiver(p)'
      BY <1>1, <1>2, <1>5, <2>1, <2>3, <2>5, <2>6, RecvFields DEF Receiver, Open
    <3>4. EndSeen(p)'
      BY <1>1, <1>2, <2>1, <2>4, <2>6, <3>1, KeepsEnd, GoneStays
    <3>5. Places(p)'
      BY <1>1, <1>2, <2>3, <2>5, PlacesDead DEF Live, Places
    <3> QED BY <1>2, <2>1, <2>4, <2>5, <2>6, <2>7, <3>1, <3>2, <3>3, <3>4, <3>5, RcvqFacts, RecvSideInv
  <2>8. CASE ~conn[p].outdone
    <3>1. Accepted(p, <<0>>)
      BY <1>5, <2>1, <2>8 DEF Shutdown, ShutdownFails
    <3>2. sndq' \in [Peers -> Seq(Int)] /\ rcvq' \in [Peers -> Seq(Int)]
      <4>1. <<0>> \in Seq(Int)
        OBVIOUS
      <4> QED BY <1>1, <3>1, <4>1, AcceptedTypes
    <3>3. StreamTypes'
      BY <1>1, <1>2, <2>1, <2>4, <2>5, <3>2 DEF StreamTypes, Flags
    <3> QED BY <1>2, <1>5, <2>1, <2>3, <2>4, <2>5, <2>6, <2>8, <3>1, <3>3, ShutdownInv
  <2> QED BY <2>7, <2>8
<1> QED BY <1>3, <1>4, <1>5

LEMMA CloseEndInv ==
  ASSUME StreamInv, NEW p \in Peers, CloseEnd(p) PROVE StreamInv'
<1>1. StreamTypes /\ Receiver(p)
  BY StreamParts
<1>2. Open(p) /\ rcv[p] \in Drains /\ UNCHANGED <<kind, snd, offered, recvd, skipfail, dead>>
  BY <1>1, RecvKinds DEF CloseEnd, Calls
<1>3. rcv[p] # Idle
  BY <1>2, RecvFields
<1>4. CASE (conn[p].indone \/ Found(p) = "eof") /\ HClose(p, [conn[p] EXCEPT !.indone = TRUE], "ok")
  <2> DEFINE c == [conn[p] EXCEPT !.indone = TRUE]
  <2>1. /\ c \in Flags /\ c.indone = TRUE /\ c.closed = conn[p].closed
        /\ c.inerr = conn[p].inerr /\ c.outerr = conn[p].outerr /\ c.outdone = conn[p].outdone
    BY <1>1, FlagFacts
  <2>2. HClose(p, c, "ok")
    BY <1>4
  <2> HIDE DEF c
  <2>3. /\ c.outdone <=> conn[p].outdone
        /\ conn[p].outerr => c.outerr
        /\ conn[p].inerr => c.inerr
        /\ conn[p].indone \/ (Found(p) = "eof" /\ rcv[p] # Idle)
    BY <1>3, <1>4, <2>1, Zenon
  <2> QED BY <1>2, <2>1, <2>2, <2>3, HCloseInv
<1>5. CASE HClose(p, [conn[p] EXCEPT !.inerr = TRUE], "error")
  <2> DEFINE c == [conn[p] EXCEPT !.inerr = TRUE]
  <2>1. /\ c \in Flags /\ c.inerr = TRUE /\ c.closed = conn[p].closed
        /\ c.indone = conn[p].indone /\ c.outerr = conn[p].outerr /\ c.outdone = conn[p].outdone
    BY <1>1, FlagFacts
  <2>2. HClose(p, c, "error")
    BY <1>5
  <2> HIDE DEF c
  <2>3. /\ c.outdone <=> conn[p].outdone
        /\ conn[p].outerr => c.outerr
        /\ conn[p].inerr => c.inerr
        /\ c.indone => conn[p].indone
    BY <2>1, Zenon
  <2> QED BY <1>2, <2>1, <2>2, <2>3, HCloseInv
<1> QED BY <1>4, <1>5 DEF CloseEnd

LEMMA CloseExpiresInv ==
  ASSUME StreamInv, NEW p \in Peers, CloseExpires(p) PROVE StreamInv'
<1> DEFINE c == [conn[p] EXCEPT !.inerr = TRUE]
<1>1. StreamTypes
  BY StreamParts
<1>2. Open(p) /\ HClose(p, c, "error") /\ UNCHANGED <<kind, snd, offered, recvd, skipfail, dead>>
  BY DEF CloseExpires, Free
<1>3. /\ c \in Flags /\ c.inerr = TRUE /\ c.closed = conn[p].closed
      /\ c.indone = conn[p].indone /\ c.outerr = conn[p].outerr /\ c.outdone = conn[p].outdone
  BY <1>1, FlagFacts
<1> HIDE DEF c
<1>4. /\ c.outdone <=> conn[p].outdone
      /\ conn[p].outerr => c.outerr
      /\ conn[p].inerr => c.inerr
      /\ c.indone => conn[p].indone
  BY <1>3, Zenon
<1> QED BY <1>2, <1>3, <1>4, HCloseInv

-----------------------------------------------------------------------------
LEMMA StreamInitInv == ASSUME StreamInit PROVE StreamInv
<1> DEFINE f == [indone |-> FALSE, outdone |-> FALSE, inerr |-> FALSE, outerr |-> FALSE, closed |-> "no"]
<1>1. /\ kind \in {"tcp", "ipc"} /\ conn = [p \in Peers |-> f] /\ dead = FALSE
  BY DEF StreamInit
<1>2. \A p \in Peers : /\ conn[p] = f /\ rx[p] = <<>> /\ snd[p] = Idle /\ rcv[p] = Idle
                       /\ sndq[p] = <<>> /\ rcvq[p] = <<>> /\ rst[p] = "no" /\ offered[p] = 0
                       /\ recvd[p] = <<>> /\ lost[p] = 0 /\ skipfail[p] = FALSE
  BY DEF StreamInit
<1>3. /\ f \in Flags /\ f.indone = FALSE /\ f.outdone = FALSE /\ f.inerr = FALSE /\ f.outerr = FALSE
      /\ f.closed = "no"
  BY DEF Flags
<1> HIDE DEF f
<1>4. StreamTypes
  <2>1. <<>> \in Seq(Int) /\ 0 \in Nat
    OBVIOUS
  <2>2. conn \in [Peers -> Flags]
    BY <1>1, <1>3
  <2>3. /\ rx \in [Peers -> Seq(Int)] /\ sndq \in [Peers -> Seq(Int)] /\ rcvq \in [Peers -> Seq(Int)]
        /\ recvd \in [Peers -> Seq(Int)] /\ offered \in [Peers -> Nat] /\ lost \in [Peers -> Nat]
    BY <2>1 DEF StreamInit
  <2>4. /\ snd \in [Peers -> {Idle} \cup SendsBytes \cup SendsFd]
        /\ rcv \in [Peers -> {Idle} \cup ReceivesBytes \cup ReceivesFd \cup Drains]
    BY DEF StreamInit
  <2>5. rst \in [Peers -> {"no", "pending", "reported"}] /\ skipfail \in [Peers -> BOOLEAN] /\ dead \in BOOLEAN
    BY DEF StreamInit
  <2> QED BY <1>1, <2>2, <2>3, <2>4, <2>5 DEF StreamTypes, Flags
<1>5. ASSUME NEW p \in Peers PROVE Receiver(p) /\ Pipe(p) /\ Places(p) /\ EndSeen(p)
  <2>1. Other(p) \in Peers
    BY TwoPeers
  <2>2. Receiver(p)
    BY <1>2, <1>3, RecvFields DEF Receiver
  <2>3. Space(p) = Cap - 0
    BY <1>2, <2>1, NoData DEF Space
  <2>4. Cap - 0 >= 0
    BY StreamAssumption
  <2>5. Pipe(p)
    BY <1>2, <2>1, <2>3, <2>4, NoData, SendFields DEF Pipe
  <2>6. EndSeen(p)
    BY <1>2, <1>3 DEF EndSeen
  <2>7. Got(p) = <<>> /\ Handed(Other(p)) = 0
    BY <1>2, <2>1, RecvFields, SendFields DEF Got, Handed
  <2>8. Flow(<<>>, <<>>, <<>>, <<>>, <<>>)
    BY PlacesNone DEF Flow
  <2>9. Length(<<>>, <<>>, <<>>, <<>>, <<>>) = 0
    BY NoData DEF Length
  <2>10. Places(p)
    <3>1. snd[p] \notin SendsBytes /\ Returned(recvd[p], 0)
      BY <1>2, SendFields, PlacesNone
    <3>2. /\ recvd[p] = <<>> /\ rx[p] = <<>> /\ Data(rcvq[p]) = <<>> /\ Data(sndq[Other(p)]) = <<>>
      BY <1>2, <2>1, NoData
    <3> QED BY <2>7, <2>8, <2>9, <3>1, <3>2, Zenon DEF Places
  <2> QED BY <2>2, <2>5, <2>6, <2>10
<1> QED BY <1>4, <1>5 DEF StreamInv

LEMMA StreamNextInv == ASSUME StreamInv, [StreamNext]_streamVars PROVE StreamInv'
<1>1. ASSUME NEW p \in Peers, Deliver(p) PROVE StreamInv'
  BY <1>1, DeliverInv
<1>2. ASSUME NEW p \in Peers, PeerStep(p) PROVE StreamInv'
  BY <1>2, FdSendInv, FdOutInv, SendFdEndInv, FdRecvDataInv, FdRecvAgainInv, FdRecvErrorInv, FdInInv,
     RecvFdEndInv, DrainInv, CloseEndInv DEF PeerStep
<1>3. ASSUME NEW p \in Peers, NEW l \in SendLists[p], BSend(p, l) PROVE StreamInv'
  BY <1>3, BSendInv
<1>4. ASSUME NEW p \in Peers, NEW l \in RecvLists[p], BRecv(p, l) PROVE StreamInv'
  BY <1>4, BRecvInv
<1>5. ASSUME NEW p \in Peers,
             \/ SendFd(p) \/ RecvFd(p) \/ FdOutFails(p) \/ FdInFails(p) \/ CloseExpires(p)
             \/ Done(p) \/ Hclose(p) \/ Close(p)
      PROVE  StreamInv'
  BY <1>5, SendFdInv, RecvFdInv, FdOutFailsInv, FdInFailsInv, CloseExpiresInv, DoneInv, HcloseInv, CloseInv
<1>6. CASE UNCHANGED streamVars
  <2>1. StreamTypes'
    BY <1>6 DEF streamVars, StreamTypes, StreamInv
  <2>2. ASSUME NEW p \in Peers PROVE Receiver(p)' /\ Pipe(p)' /\ Places(p)' /\ EndSeen(p)'
    <3>1. Receiver(p) /\ Pipe(p) /\ Places(p) /\ EndSeen(p)
      BY DEF StreamInv
    <3>2. Receiver(p)' /\ Pipe(p)'
      BY <1>6, <3>1, KeepsReceiver, KeepsPipe DEF streamVars
    <3>3. EndSeen(p)'
      BY <1>6, <3>1, KeepsEnd, GoneStays DEF streamVars
    <3>4. snd[p] \in SendsBytes => snd[p].next + snd[p].left = offered[p] + 1
      BY <3>1 DEF Places
    <3>5. Places(p)'
      BY <1>6, <3>1, <3>4, KeepsPlaces, KeepsLive, KeepsMaySend DEF streamVars
    <3> QED BY <3>2, <3>3, <3>5
  <2> QED BY <2>1, <2>2 DEF StreamInv
<1> QED BY <1>1, <1>2, <1>3, <1>4, <1>5, <1>6 DEF StreamNext

LEMMA StreamInvariant == StreamSpec => []StreamInv
<1>1. StreamInit => StreamInv
  BY StreamInitInv
<1>2. StreamInv /\ [StreamNext]_streamVars => StreamInv'
  BY StreamNextInv
<1> QED BY <1>1, <1>2, PTL DEF StreamSpec

\* What brecv and brecvl, and ipc_recvfd, return is the beginning of what the peer
\* handed to bsend, bsendl and ipc_sendfd, in order and without a gap: for buffers
\* of any size, lists of any shape, however often a send or a receive blocks and
\* is resumed in fd.c, and whatever the two ends close meanwhile.
THEOREM StreamCorrect == StreamSpec => []StreamExact
<1>1. StreamInv => StreamExact
  <2> SUFFICES ASSUME StreamInv, NEW p \in Peers, ~skipfail[p], NEW i \in 1..Len(recvd[p])
               PROVE  recvd[p][i] \in {0, i, -i}
    BY DEF StreamExact
  <2>1. Places(p)
    BY StreamParts
  <2>2. Returned(recvd[p], 0)
    BY <2>1 DEF Places
  <2>3. 0 + i = i
    OBVIOUS
  <2> QED BY <2>2, <2>3 DEF Returned
<1> QED BY <1>1, StreamInvariant, PTL

\* brecv reports the end of the stream (EPIPE) only when the peer has ended it, all
\* that was sent has been taken from the kernel, and nothing was thrown away.
THEOREM EndCorrect == StreamSpec => []EndIsReal
<1>1. StreamInv => EndIsReal
  BY DEF StreamInv, EndSeen, EndIsReal, Gone
<1> QED BY <1>1, StreamInvariant, PTL
=============================================================================
